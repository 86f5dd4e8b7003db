---- MODULE ItemProxy ----
(***************************************************************************)
(* One item.Proxy (internal/item/proxy.go): the goroutine that drains its  *)
(* signals, the goroutine that reads its properties, the one-slot wake     *)
(* channel between them, and App's worker that starts, hears and closes it.*)
(* The application and the bus are external.  Reserve (module Limiter)     *)
(* admits a refresh sooner or later.                                       *)
(***************************************************************************)
EXTENDS Naturals, Sequences

CONSTANT MaxVersion     \* bound: states the application goes through

ASSUME VersionAssumption == MaxVersion \in Nat \ {0}

VARIABLES
    version,    \* what the application's properties are now
    alive,      \* the owner is on the bus
    subscribed, \* match rules added and the channel registered
    signals,    \* Proxy.signals: "changed" or "left"
    wake,       \* Proxy.wake holds a token
    started,    \* Proxy.started
    stop,       \* Proxy.stop is closed
    cancelled,  \* Close cancelled Proxy.callCtx
    ended,      \* App.ctx, the parent of callCtx, is done
    starter,    \* Start: "called", "subscribed", "cancellable", "returned", "failed"
    pump,       \* "none", "select", "done"
    loop,       \* "none", "select", "await", "calling", "publishing", "done"
    answer,     \* the version in the answer the loop holds
    shown,      \* the version last published to onItem; 0 for none
    accounted,  \* the limiter has an entry for this key
    waited,     \* history: Close found the proxy started
    drop        \* dropWorker: "none", "asked", "stopped", "closing", "closed", "retired"

pxvars == <<version, alive, subscribed, signals, wake, started, stop, cancelled,
            ended, starter, pump, loop, answer, shown, accounted, waited, drop>>

appVars   == <<version, alive, ended>>
chanVars  == <<subscribed, signals>>
startVars == <<started, starter>>
stopVars  == <<stop, cancelled, waited>>
closeVars == <<stopVars, drop>>
readVars  == <<answer, shown, accounted>>

----
(* Start.                                                                  *)

\* AddMatchSignal and Signal.
StartSubscribe ==
    /\ starter = "called"
    /\ subscribed' = TRUE
    /\ starter' = "subscribed"
    /\ UNCHANGED <<appVars, signals, wake, started, closeVars, pump, loop, readVars>>

\* callCtx and cancel are assigned.  Start and Close share no lock, so Close
\* may look at these fields between any two of the assignments.
StartContext ==
    /\ starter = "subscribed"
    /\ starter' = "cancellable"
    /\ UNCHANGED <<appVars, chanVars, wake, started, closeVars, pump, loop, readVars>>

HasCancel == starter \in {"cancellable", "returned"}

CallCtxDone == cancelled \/ ended

\* started, the goroutines and the first trigger.
StartRun ==
    /\ starter = "cancellable"
    /\ started' = TRUE
    /\ pump' = "select"
    /\ loop' = "select"
    /\ wake' = TRUE
    /\ starter' = "returned"
    /\ UNCHANGED <<appVars, chanVars, closeVars, readVars>>

\* The bus refuses: removeMatches, and ItemAdded drops the worker.
StartFails ==
    /\ starter = "called"
    /\ starter' = "failed"
    /\ drop' = IF drop = "none" THEN "asked" ELSE drop
    /\ UNCHANGED <<appVars, chanVars, wake, started, stopVars, pump, loop, readVars>>

----
(* pump and trigger.                                                       *)

\* onItem is told of an error: go dropWorker.
AskDrop == drop' = IF drop = "none" THEN "asked" ELSE drop

PumpChanged ==
    /\ pump = "select" /\ signals # <<>> /\ Head(signals) = "changed"
    /\ signals' = Tail(signals)
    /\ wake' = TRUE
    /\ UNCHANGED <<appVars, subscribed, startVars, closeVars, pump, loop, readVars>>

\* Faulty variant: onItem drops the worker itself, and so waits in Close for
\* the very pump it runs on.
PumpLeft_InPlace ==
    /\ pump = "select" /\ signals # <<>> /\ Head(signals) = "left"
    /\ signals' = Tail(signals)
    /\ AskDrop
    /\ pump' = "dropping"
    /\ UNCHANGED <<appVars, subscribed, wake, startVars, stopVars, loop, readVars>>

\* ownerLeft: report the error and return.
PumpLeft ==
    /\ pump = "select" /\ signals # <<>> /\ Head(signals) = "left"
    /\ signals' = Tail(signals)
    /\ AskDrop
    /\ pump' = "done"
    /\ UNCHANGED <<appVars, subscribed, wake, startVars, stopVars, loop, readVars>>

\* Refresh: App asks for one more read while the worker is in its table, and
\* maybe not started yet.  (inspectOwnership asks once; here any number.)
Refresh ==
    /\ drop \in {"none", "asked"}
    /\ wake' = TRUE
    /\ UNCHANGED <<appVars, chanVars, startVars, closeVars, pump, loop, readVars>>

PumpStop ==
    /\ pump = "select" /\ stop
    /\ pump' = "done"
    /\ UNCHANGED <<appVars, chanVars, wake, startVars, closeVars, loop, readVars>>

----
(* loop, await and refresh.                                                *)

\* Take the token before reading: a signal that comes later wakes it again.
LoopWake ==
    /\ loop = "select" /\ wake
    /\ wake' = FALSE
    /\ loop' = "await"
    /\ UNCHANGED <<appVars, chanVars, startVars, closeVars, pump, readVars>>

LoopStop ==
    /\ loop \in {"select", "await"}
    /\ stop \/ CallCtxDone
    /\ loop' = "done"
    /\ UNCHANGED <<appVars, chanVars, wake, startVars, closeVars, pump, readVars>>

\* Reserve returned zero: call GetAll.
Admit ==
    /\ loop = "await"
    /\ accounted' = TRUE
    /\ loop' = "calling"
    /\ UNCHANGED <<appVars, chanVars, wake, startVars, closeVars, pump, answer, shown>>

\* The application answers with the properties of this moment.
Answer ==
    /\ loop = "calling" /\ alive
    /\ answer' = version
    /\ loop' = "publishing"
    /\ UNCHANGED <<appVars, chanVars, wake, startVars, closeVars, pump, shown, accounted>>

\* DeadlineExceeded.  Faulty variant: the item is not tried again.
TimedOut_GiveUp ==
    /\ loop = "calling"
    /\ loop' = "select"
    /\ UNCHANGED <<appVars, chanVars, wake, startVars, closeVars, pump, readVars>>

TimedOut ==
    /\ loop = "calling"
    /\ loop' = "select"
    /\ wake' = (wake \/ ~CallCtxDone)
    /\ UNCHANGED <<appVars, chanVars, startVars, closeVars, pump, readVars>>

\* context.Canceled.
CallCancelled ==
    /\ loop = "calling" /\ CallCtxDone
    /\ loop' = "select"
    /\ UNCHANGED <<appVars, chanVars, wake, startVars, closeVars, pump, readVars>>

\* Any other error, an answer that does not decode or does not validate.
CallFails ==
    /\ loop = "calling"
    /\ AskDrop
    /\ loop' = "select"
    /\ UNCHANGED <<appVars, chanVars, wake, startVars, stopVars, pump, readVars>>

\* The bus answers for an owner that has left.
CallRefused == ~alive /\ CallFails

\* publish: onItem hands the reading to the state owner, which ignores it
\* once the generation is retired.
Publish ==
    /\ loop = "publishing"
    /\ shown' = IF drop = "retired" THEN shown ELSE answer
    /\ answer' = 0
    /\ loop' = "select"
    /\ UNCHANGED <<appVars, chanVars, wake, startVars, closeVars, pump, accounted>>

----
(* dropWorker and Close.                                                   *)

\* ItemRemoved: the watcher retires the generation.
AskedToDrop ==
    /\ drop = "none"
    /\ drop' = "asked"
    /\ UNCHANGED <<appVars, chanVars, wake, startVars, stopVars, pump, loop, readVars>>

\* Close: cancel, if there is a context to cancel, and stop.
CloseBegin ==
    /\ drop = "asked"
    /\ stop' = TRUE
    /\ cancelled' = HasCancel
    /\ drop' = "stopped"
    /\ UNCHANGED <<appVars, chanVars, wake, startVars, waited, pump, loop, readVars>>

\* A proxy that is not started is not waited for, and keeps what its Start
\* subscribes to.
CloseLook ==
    /\ drop = "stopped"
    /\ waited' = started
    /\ drop' = IF started THEN "closing" ELSE "closed"
    /\ UNCHANGED <<appVars, chanVars, wake, startVars, stop, cancelled, pump, loop, readVars>>

\* Faulty variant: only the pump is waited for.
Returned_Pump == pump = "done"

Returned == loop = "done" /\ pump = "done"

\* Both goroutines have returned: RemoveSignal, removeMatches, Forget.
CloseEnd ==
    /\ drop = "closing"
    /\ Returned
    /\ subscribed' = FALSE
    /\ signals' = <<>>
    /\ accounted' = FALSE
    /\ drop' = "closed"
    /\ UNCHANGED <<appVars, wake, startVars, stopVars, pump, loop, answer, shown>>

\* owner.Remove.
Retire ==
    /\ drop = "closed"
    /\ drop' = "retired"
    /\ UNCHANGED <<appVars, chanVars, wake, startVars, stopVars, pump, loop, readVars>>

----
(* The application (external).                                             *)

Signal(s) == signals' = IF subscribed THEN Append(signals, s) ELSE signals

Change ==
    /\ alive /\ version < MaxVersion
    /\ version' = version + 1
    /\ Signal("changed")
    /\ UNCHANGED <<alive, ended, subscribed, wake, startVars, closeVars, pump, loop, readVars>>

Leave ==
    /\ alive
    /\ alive' = FALSE
    /\ Signal("left")
    /\ UNCHANGED <<version, ended, subscribed, wake, startVars, closeVars, pump, loop, readVars>>

\* SIGINT or SIGTERM: the daemon's context ends before anybody closes the proxy.
ServiceEnds ==
    /\ ~ended
    /\ ended' = TRUE
    /\ UNCHANGED <<version, alive, chanVars, wake, startVars, closeVars, pump, loop, readVars>>

----
PXInit ==
    /\ version = 1
    /\ alive = TRUE
    /\ ended = FALSE
    /\ subscribed = FALSE
    /\ signals = <<>>
    /\ wake = FALSE
    /\ started = FALSE
    /\ stop = FALSE
    /\ cancelled = FALSE
    /\ starter = "called"
    /\ pump = "none"
    /\ loop = "none"
    /\ answer = 0
    /\ shown = 0
    /\ accounted = FALSE
    /\ waited = FALSE
    /\ drop = "none"

Starting == StartSubscribe \/ StartContext \/ StartRun
Pumping  == PumpChanged \/ PumpLeft \/ PumpStop
Looping  == LoopWake \/ LoopStop \/ Admit \/ CallCancelled \/ Publish
Closing  == CloseBegin \/ CloseLook \/ CloseEnd \/ Retire

PXNext ==
    \/ Starting \/ StartFails \/ Pumping \/ Looping
    \/ Answer \/ TimedOut \/ CallFails
    \/ Refresh \/ AskedToDrop \/ Closing
    \/ Change \/ Leave \/ ServiceEnds

\* Goroutines run on; select does not pass over a closed channel for ever.
\* A call returns: by its timeout at the latest, and an item that is tried
\* again and again answers some time, the bus in its place if it is gone.
PXFairness ==
    /\ WF_pxvars(Starting) /\ WF_pxvars(Pumping) /\ WF_pxvars(Looping) /\ WF_pxvars(Closing)
    /\ WF_pxvars(Answer \/ TimedOut \/ CallFails)
    /\ SF_pxvars(LoopStop) /\ SF_pxvars(PumpStop)
    /\ SF_pxvars(Answer) /\ SF_pxvars(CallRefused)

PXSpec == PXInit /\ [][PXNext]_pxvars

FairPXSpec == PXSpec /\ PXFairness

----
(* Properties.                                                             *)

\* Every variable has its type.
PXTypeOK ==
    /\ version \in 1..MaxVersion
    /\ answer \in 0..version /\ shown \in 0..version
    /\ signals \in Seq({"changed", "left"})
    /\ alive \in BOOLEAN /\ subscribed \in BOOLEAN /\ wake \in BOOLEAN
    /\ started \in BOOLEAN /\ stop \in BOOLEAN /\ cancelled \in BOOLEAN /\ ended \in BOOLEAN
    /\ accounted \in BOOLEAN /\ waited \in BOOLEAN
    /\ starter \in {"called", "subscribed", "cancellable", "returned", "failed"}
    /\ pump \in {"none", "select", "done"}
    /\ loop \in {"none", "select", "await", "calling", "publishing", "done"}
    /\ drop \in {"none", "asked", "stopped", "closing", "closed", "retired"}

\* trigger's comment: "Repeated signals collapse into the single pending
\* slot".  Collapsing loses none: when the reading loop has nothing to do and
\* nothing is on its way, what was published is what the application has.
\* (After an error the worker is on its way out instead, after a signal to stop
\* the service is.)
NoLostWakeup ==
    /\ started /\ drop = "none" /\ ~ended
    /\ loop = "select" /\ ~wake /\ signals = <<>>
    => shown = version

\* No goroutine runs.
Still == loop \in {"none", "done"} /\ pump \in {"none", "done"}

\* Start was under way when Close looked, and had not set `started`: Close did
\* not wait, and Start goes on to subscribe and to begin the goroutines.
Overtaken == ~waited /\ starter \in {"subscribed", "cancellable", "returned"}

\* Once Close has returned no goroutine runs, so that nothing is published, and
\* no subscription or limiter entry is left, also of a Start that was refused or
\* has not run yet.  Only a Start that Close overtook leaves any of that; what it
\* begins finds `stop` closed.
ClosedIsQuiet ==
    drop \in {"closed", "retired"} =>
        \/ Still /\ ~subscribed /\ ~accounted
        \/ Overtaken /\ stop

\* onItem's comment (sysc-458): dropping the worker from the pump "would
\* deadlock in Proxy.Close waiting for that same pump to finish".  Whoever
\* asks, whatever is in flight, a drop ends with the item retired, and the
\* goroutines end too, those included that a Start begins after Close.
DropEnds ==
    drop = "asked" ~> drop = "retired" /\ starter \in {"returned", "failed"} /\ Still

\* refresh's comment: "A slow item may recover; keep its last state and
\* retry".  Once the application stops changing, its last state is shown,
\* unless its worker is dropped or the service ends.
ReadsConverge == <>[](drop # "none" \/ ended \/ (started /\ shown = version))

====
