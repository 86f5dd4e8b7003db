---- MODULE ItemWorkerProofs ----
(***************************************************************************)
(* The worker of one item, for any number of menus, changes, commands and  *)
(* process lives.  A worker has at most one menu reader at a time, the one *)
(* built last; everything about menus rests on that and on what such a     *)
(* reader still has on its way to the owner.                               *)
(***************************************************************************)
EXTENDS ItemWorker, TLAPS

----
(* Menus: types.                                                           *)

AnyPath  == Paths \cup {NoPath}
TreeType == [rev : Nat, ver : Nat]
DrawnType == [by : Nat, path : AnyPath, rev : Nat, ver : Nat]
ReaderType == [path : AnyPath, stop : BOOLEAN, pump : BOOLEAN,
               loop : {"select", "calling", "holding", "publishing", "done"},
               signals : SUBSET [kind : {"layout", "properties"}, rev : Nat],
               wake : BOOLEAN, got : TreeType, revision : Nat, known : BOOLEAN,
               failed : BOOLEAN]

MenuTypes ==
    /\ tree \in [Paths -> TreeType]
    /\ menus \in [Readers -> ReaderType]
    /\ built \in 0..MaxMenus
    /\ menu \in {0, built} /\ previous \in {0, built}
    /\ reading \in AnyPath /\ path \in AnyPath
    /\ drawn \in DrawnType
    /\ cmd \in [at : {"none", "clicked", "found", "passed"}, shown : DrawnType, to : 0..MaxMenus]
    /\ cmd.at \in {"found", "passed"} => cmd.to # 0

----
(* Menus: where the reader is.                                             *)

\* bindMenu between its two sections of the lock.
Rebinding == step \in {"previous", "waiting", "start", "place", "discarding"}

BindingSteps ==
    /\ Rebinding => menu = 0
    /\ previous # 0 => step \in {"previous", "waiting"}
    /\ step \in {"start", "place", "discarding"} => reading \in Paths
    /\ life \in {"closed", "retired"} => step = "done"

\* The reader that is there is the last one built, and somebody is going to
\* close it.
Placement == \A i \in Readers : menus[i] # NoProxy => i = built /\ Held(i)

----
(* Menus: what a reader knows.                                             *)

\* A signal waits that is not superseded.
Tells(i) == \E s \in menus[i].signals : s.kind = "properties" \/ s.rev = tree[menus[i].path].rev

Current(i) == [by |-> i, path |-> menus[i].path,
               rev |-> tree[menus[i].path].rev, ver |-> tree[menus[i].path].ver]

\* Nothing a reader holds, was told of or has published is newer than the tree.
NotAhead(i) ==
    LET m == menus[i]
        t == tree[menus[i].path]
    IN  /\ m.path \in Paths
        /\ \A s \in m.signals : s.rev <= t.rev
        /\ m.revision <= t.rev
        /\ m.loop \in {"holding", "publishing"} => m.got.rev <= t.rev /\ m.got.ver <= t.ver
        /\ m.loop = "publishing" => m.revision = m.got.rev

\* What it published last is no newer than what it holds.
DrawnBehind(i) ==
    LET m == menus[i]
    IN  drawn.by = i =>
            /\ drawn.rev <= m.revision
            /\ drawn.ver <= tree[m.path].ver
            /\ m.loop \in {"holding", "publishing"} => drawn.rev <= m.got.rev /\ drawn.ver <= m.got.ver

\* The tree of this moment is published, in the reader's hands or on its way.
TreeOnItsWay(i) ==
    LET m == menus[i]
    IN  ~m.stop /\ ~closing =>
            \/ m.wake \/ m.loop = "calling" \/ Tells(i)
            \/ m.loop \in {"holding", "publishing"} /\ m.got = tree[m.path]
            \/ m.loop = "select" /\ (m.failed \/ drawn = Current(i))

Knowledge == \A i \in Readers :
    menus[i] # NoProxy => NotAhead(i) /\ DrawnBehind(i) /\ TreeOnItsWay(i)

\* What a shell saw is no newer than what is drawn.
CommandBehind ==
    /\ drawn.by <= built
    /\ cmd.at # "none" /\ life # "retired" =>
        \/ cmd.shown.by < drawn.by
        \/ cmd.shown.by = drawn.by /\ cmd.shown.rev <= drawn.rev

MenuInv == MenuTypes /\ BindingSteps /\ Placement /\ Knowledge /\ CommandBehind

----
(* The process identity.                                                   *)

ProcTypes ==
    /\ births \in Nat \ {0} /\ proc \in 0..births
    /\ own \in 0..births /\ found \in 0..births
    /\ term \in [at : {"none", "lookup", "bus", "stat", "signal", "wait", "done"},
                 record : 0..births, before : 0..births, hit : 0..births,
                 reply : {"none", "ok", "busy", "invalid", "unavailable", "stale_item"}]

TermInv ==
    /\ term.at \in {"none", "lookup", "bus", "stat", "signal"} => term.hit = 0
    /\ term.at \in {"bus", "stat", "signal", "wait"} => term.record # 0
    /\ term.at = "done" /\ term.reply = "ok" => term.record # 0
    /\ term.at = "signal" => proc = 0 \/ proc = term.record \/ proc > term.before
    /\ term.at = "wait" => term.hit # 0

ProcInv == ProcTypes /\ TermInv /\ SignalsVerified /\ OutcomeTrue

\* From the look at the record to the update, and on until the loop rests.
OfferOnItsWay ==
    InTable /\ ~wake =>
        /\ step = "update" => closeable = (own # 0 /\ SameUser)
        /\ step \notin {"look", "update", "done"} => offered = (own # 0 /\ SameUser)

----
(* The process identity: proofs.                                           *)

\* Only these steps touch the process identity.
ProcessStep ==
    \/ LookCloseable \/ UpdateOffered \/ Inspecting \/ TerminateBegins \/ Terminating \/ ProcessSteps

\* Every other step of the worker leaves the identity alone.
LEMMA StepOfProcess == [WNext]_wvars => UNCHANGED ownVars \/ ProcessStep
BY DEF WNext, Service, ItemLoop, Ending, Reader, ReaderCall, PathsMove, TreesMove, MenusUsed,
       ProcessUsed, ProcessMoves, OfWorker, OfMenus, OfProcess, wvars, ProcessStep

\* Terminate's answers and its signal are about the recorded life.
LEMMA ProcStep == ProcInv /\ [WNext]_wvars => ProcInv'
<1> SUFFICES ASSUME ProcInv, [WNext]_wvars
             PROVE  ProcInv'
  OBVIOUS
<1> USE DEF ProcInv, ProcTypes, TermInv, SignalsVerified, OutcomeTrue,
            procVars, inspVars, termVars, workerVars
<1>1. CASE UNCHANGED ownVars
  BY <1>1 DEF ownVars
<1>2. CASE LookCloseable \/ UpdateOffered
  <2>1. UNCHANGED <<procVars, own, inspVars, termVars>>
    BY <1>2, Zenon DEF LookCloseable, UpdateOffered
  <2> QED
    BY <2>1
<1>3. CASE Inspecting
  <2>1. CASE InspectBus
    BY <2>1 DEF InspectBus
  <2>2. CASE InspectStat
    BY <2>2 DEF InspectStat
  <2>3. CASE InspectStore
    <3>1. /\ UNCHANGED <<procVars, termVars>>
          /\ own' \in {found, own} /\ found' = 0
      BY <2>3, Zenon DEF InspectStore
    <3> QED
      BY <3>1
  <2> QED
    BY <1>3, <2>1, <2>2, <2>3 DEF Inspecting
<1>4. CASE TerminateBegins
  BY <1>4 DEF TerminateBegins, TermStep, NoTerm
<1>5. CASE Terminating
  <2> USE DEF TermStep, NoTerm, Refuse, Reply
  <2>1. CASE TerminateLookup
    BY <2>1 DEF TerminateLookup
  <2>2. CASE ReownBus
    BY <2>2 DEF ReownBus
  <2>3. CASE ReownStat
    <3>1. \/ term' = [term EXCEPT !.at = "signal", !.before = births] /\ term.record = proc
          \/ term' = Refuse("invalid")
      BY <2>3, Zenon DEF ReownStat, Verify
    <3>2. term.at = "stat" /\ UNCHANGED <<procVars, own, inspVars>>
      BY <2>3 DEF ReownStat
    <3>3. CASE term' = Refuse("invalid")
      BY <3>2, <3>3
    <3>4. CASE term' = [term EXCEPT !.at = "signal", !.before = births] /\ term.record = proc
      <4>1. /\ term'.at = "signal" /\ term'.record = proc /\ term'.hit = 0
            /\ term'.before = births /\ term'.reply = term.reply
        BY <3>2, <3>4
      <4>2. ProcTypes /\ term.record # 0
        BY <3>2
      <4> HIDE DEF ProcInv
      <4>3. ProcTypes'
        <5>1. births \in 0..births /\ births' = births
          BY <3>2, <4>2
        <5>2. term' \in [at : {"none", "lookup", "bus", "stat", "signal", "wait", "done"},
                 record : 0..births, before : 0..births, hit : 0..births,
                 reply : {"none", "ok", "busy", "invalid", "unavailable", "stale_item"}]
          BY <3>4, <4>2, <5>1
        <5> QED
          BY <3>2, <4>2, <5>1, <5>2
      <4>4. TermInv' /\ SignalsVerified' /\ OutcomeTrue'
        BY <3>2, <3>4, <4>1, <4>2
      <4> QED
        BY <4>3, <4>4 DEF ProcInv
    <3> QED
      BY <3>1, <3>3, <3>4
  <2>4. CASE Signal
    BY <2>4 DEF Signal
  <2>5. CASE PollGone
    BY <2>5 DEF PollGone, Alive
  <2>6. CASE PollTimeout
    BY <2>6 DEF PollTimeout
  <2> QED
    BY <1>5, <2>1, <2>2, <2>3, <2>4, <2>5, <2>6 DEF Terminating
<1>6. CASE ProcessSteps
  <2>1. CASE ProcessExits
    BY <2>1 DEF ProcessExits, Environment
  <2>2. CASE NameLeaves
    BY <2>2 DEF NameLeaves, Environment
  <2>3. ASSUME NEW u \in Users, NumberReused(u)
        PROVE  ProcInv'
    BY <2>3 DEF NumberReused, Environment
  <2> QED
    BY <1>6, <2>1, <2>2, <2>3 DEF ProcessSteps
<1> QED
  BY <1>1, <1>2, <1>3, <1>4, <1>5, <1>6, StepOfProcess DEF ProcessStep

\* A worker begins with nothing recorded and nothing signalled.
LEMMA ProcInit == WInit => ProcInv
BY OwnershipAssumption DEF WInit, OwnInit, NoTerm, ProcInv, ProcTypes, TermInv, SignalsVerified, OutcomeTrue

\* The worker without its fairness.
LEMMA WSafety == WSpec => WInit /\ [][WNext]_wvars
BY PTL DEF WSpec

\* run.go, Terminate and reown: over any number of lives of a process number, no
\* process that took the number before the identity was verified is signalled
\* in place of the recorded one.
THEOREM WorkerSignalsVerified == WSpec => []SignalsVerified
<1>1. ProcInv => SignalsVerified
  BY DEF ProcInv
<1> QED
  BY <1>1, ProcInit, ProcStep, WSafety, PTL

\* run.go, Terminate: whatever exits, is reused or leaves during the checks and
\* the wait, the answer is what happened.
THEOREM WorkerOutcomeTrue == WSpec => []OutcomeTrue
<1>1. ProcInv => OutcomeTrue
  BY DEF ProcInv
<1> QED
  BY <1>1, ProcInit, ProcStep, WSafety, PTL

----
(* CloseSupported: proofs.                                                 *)

OfferInv ==
    /\ closeable \in BOOLEAN /\ offered \in BOOLEAN
    /\ DOMAIN users = Lives
    /\ OfferOnItsWay

\* Steps that leave the identity alone move the loop past no look at it: they
\* wake the loop, begin or end it, end the worker, or bind a menu.
LEMMA LoopMoves ==
  ASSUME [WNext]_wvars, UNCHANGED ownVars, ~LookCloseable, ~UpdateOffered
  PROVE  \/ UNCHANGED <<life, closing, wake, step>>
         \/ wake'
         \/ step' \in {"look", "done"}
         \/ life' # "table" \/ closing'
         \/ {step, step'} \cap {"look", "update", "done"} = {} /\ UNCHANGED <<life, closing, wake>>
<1> USE DEF workerVars
<1>1. CASE OfWorker(ItemRead) \/ OfWorker(ItemStop)
  BY <1>1 DEF OfWorker, ItemRead, ItemStop
<1>2. CASE OfMenus(Binding)
  BY <1>2 DEF OfMenus, Binding, bindSkip, bindMenu, ClosePrevious, PreviousClosed, StartMenu,
              StartMenuFails, PlaceMenu, DiscardMenu, MenuDiscarded, ItemStep
<1>3. CASE Ending
  BY <1>3 DEF Ending, OfWorker, OfMenus, ItemClosed, ClosingMenus, CloseMenu, MenuClosed, RetireItem
<1>4. CASE OfWorker(dropWorker) \/ OfWorker(CloseApp)
  BY <1>4 DEF OfWorker, dropWorker, CloseApp
<1>5. CASE \E i \in Readers : Reader(i) \/ ReaderCall(i)
  BY <1>5 DEF Reader, ReaderCall, OfMenus, ReaderStep, PumpSignal, PumpStop, LoopWake, LoopStop,
              Install, Publish, Answer, CallFails, Only
<1>6. CASE PathsMove
  BY <1>6 DEF PathsMove, OfMenus, PathChanges, Advertise, ChangePath
<1>7. CASE TreesMove
  BY <1>7 DEF TreesMove, OfMenus, TreeChanges, LayoutUpdated, ItemsPropertiesUpdated, ChangeTree
<1>8. CASE MenusUsed
  BY <1>8 DEF MenusUsed, OfMenus, Commanding, Click, menuProxy, check, event, AboutToShow, Command
<1>9. CASE ProcessUsed
  <2>1. CASE OfProcess(InspectStore)
    BY <2>1 DEF OfProcess, InspectStore, ownVars, InTable
  <2> QED
    BY <1>9, <2>1 DEF ProcessUsed, OfProcess, Inspecting, InspectBus, InspectStat, TerminateBegins,
              Terminating, TerminateLookup, ReownBus, ReownStat, Signal, PollGone, PollTimeout, TermStep
<1>10. CASE ProcessMoves
  BY <1>10 DEF ProcessMoves, OfProcess, ProcessSteps, ProcessExits, NameLeaves, NumberReused, Environment
<1>11. CASE UNCHANGED wvars
  BY <1>11 DEF wvars
<1> QED
  BY <1>1, <1>2, <1>3, <1>4, <1>5, <1>6, <1>7, <1>8, <1>9, <1>10, <1>11
     DEF WNext, Service, ItemLoop, OfProcess

\* The user of the first life never changes, a worker does not return to the
\* table, and a record wakes the loop.
LEMMA OfferStep == ProcInv /\ OfferInv /\ [WNext]_wvars => OfferInv'
<1> SUFFICES ASSUME ProcInv, OfferInv, [WNext]_wvars
             PROVE  OfferInv'
  OBVIOUS
<1> USE DEF OfferInv, OfferOnItsWay, InTable
<1>1. CASE LookCloseable
  <2>1. /\ step = "look" /\ step' = IF closing THEN "select" ELSE "update"
        /\ UNCHANGED <<life, closing, wake, own, users, offered>>
        /\ closeable' = (life = "table" /\ own # 0 /\ SameUser)
    BY <1>1 DEF LookCloseable, Look, ItemStep, procVars
  <2>2. SameUser' = SameUser /\ closeable' \in BOOLEAN
    BY <2>1, Zenon DEF SameUser
  <2>3. CASE closing
    BY <2>1, <2>2, <2>3
  <2>4. CASE ~closing
    <3>1. step' = "update"
      BY <2>1, <2>4
    <3> QED
      BY <2>1, <2>2, <3>1
  <2> QED
    BY <2>3, <2>4
<1>2. CASE UpdateOffered
  <2>1. /\ step = "update" /\ step' = "bind"
        /\ UNCHANGED <<life, closing, wake, own, users>>
        /\ offered' = IF life = "retired" THEN offered ELSE closeable
        /\ closeable' = FALSE
    BY <1>2 DEF UpdateOffered, UpdateItem, ItemStep, procVars
  <2>2. SameUser' = SameUser /\ offered' \in BOOLEAN /\ closeable' \in BOOLEAN
    BY <2>1, Zenon DEF SameUser
  <2>3. life = "table" => offered' = closeable
    BY <2>1
  <2> QED
    BY <2>1, <2>2, <2>3
<1>3. CASE Inspecting
  <2>1. /\ UNCHANGED <<life, closing, step, users, closeable, offered>>
        /\ UNCHANGED <<wake, own>> \/ wake' \/ ~InTable
    BY <1>3, Zenon DEF Inspecting, InspectBus, InspectStat, InspectStore, procVars, workerVars
  <2>2. SameUser' = SameUser
    BY <2>1 DEF SameUser
  <2> QED
    BY <2>1, <2>2
<1>4. CASE TerminateBegins \/ Terminating
  <2>1. UNCHANGED <<life, closing, wake, step, own, users, closeable, offered>>
    BY <1>4 DEF TerminateBegins, Terminating, TerminateLookup, ReownBus, ReownStat, Signal,
                PollGone, PollTimeout, TermStep, workerVars, procVars
  <2>2. SameUser' = SameUser
    BY <2>1 DEF SameUser
  <2> QED
    BY <2>1, <2>2
<1>5. CASE ProcessSteps
  <2>1. UNCHANGED <<life, closing, wake, step, own, closeable, offered>>
    BY <1>5 DEF ProcessSteps, ProcessExits, NameLeaves, NumberReused, Environment, workerVars
  <2>2. DOMAIN users' = Lives /\ users'[1] = users[1]
    <3>1. 1 \in Lives
      BY OwnershipAssumption DEF Lives
    <3>2. ASSUME NEW u \in Users, NumberReused(u)
          PROVE  births' # 1 /\ users' = [users EXCEPT ![births'] = u]
      BY <3>2 DEF NumberReused, ProcInv, ProcTypes
    <3> QED
      BY <1>5, <3>1, <3>2 DEF ProcessSteps, ProcessExits, NameLeaves
  <2>3. SameUser' = SameUser
    BY <2>2 DEF SameUser
  <2> QED
    BY <2>1, <2>2, <2>3
<1>6. CASE UNCHANGED ownVars /\ ~LookCloseable /\ ~UpdateOffered
  <2>1. UNCHANGED <<own, users, closeable, offered>>
    BY <1>6 DEF ownVars
  <2>2. SameUser' = SameUser
    BY <2>1 DEF SameUser
  <2> QED
    BY <1>6, <2>1, <2>2, LoopMoves
<1> QED
  BY <1>1, <1>2, <1>3, <1>4, <1>5, <1>6, StepOfProcess DEF ProcessStep

\* run.go, inspectOwnership and onItem: whichever of the record, the reading and
\* the drop comes first, close is offered exactly for a recorded process of the
\* service's user once the loop rests.
THEOREM WorkerCloseOffered == WSpec => []CloseOffered
<1>1. WInit => OfferInv
  BY Zenon DEF WInit, OwnInit, WorkerInit, OfferInv, OfferOnItsWay, InTable
<1>2. OfferInv => CloseOffered
  BY DEF OfferInv, OfferOnItsWay, CloseOffered
<1> QED
  BY <1>1, <1>2, ProcInit, ProcStep, OfferStep, WSafety, PTL

----
(* Menus: proofs.                                                          *)

\* The steps of the worker that leave its menus alone.
Apart ==
    /\ UNCHANGED menuVars
    /\ \/ UNCHANGED <<life, closing, step, reading, path>>
       \/ life = "table" /\ life' = "out" /\ UNCHANGED <<closing, step, reading, path>>
       \/ life = "item" /\ life' = "closed" /\ step = "done" /\ UNCHANGED <<closing, step, reading, path>>
       \/ closing' /\ UNCHANGED <<life, step, reading, path>>
       \/ /\ step \in {"select", "look", "update", "bind"} /\ step' \in {"select", "look", "update", "bind", "done"}
          /\ reading' \in {reading, path}
          /\ UNCHANGED <<life, closing, path>>

Binder == bindMenu \/ ClosePrevious \/ PreviousClosed \/ StartMenu \/ StartMenuFails
          \/ PlaceMenu \/ DiscardMenu \/ MenuDiscarded

\* A step is one of a reader, of who binds and closes readers, of a command, of
\* the application, or apart from menus.
LEMMA MenuCases ==
  ASSUME [WNext]_wvars
  PROVE  \/ Apart \/ Binder \/ ClosingMenus \/ Commanding \/ TreeChanges \/ PathChanges
         \/ \E i \in Readers : ReaderStep(i) \/ Answer(i) \/ CallFails(i)
<1>1. CASE OfWorker(ItemRead) \/ OfWorker(ItemStop)
  BY <1>1 DEF OfWorker, ItemRead, ItemStop, Apart
<1>2. CASE OfProcess(LookCloseable) \/ OfProcess(UpdateOffered)
  BY <1>2 DEF OfProcess, LookCloseable, UpdateOffered, Look, UpdateItem, ItemStep, Apart
<1>3. CASE OfMenus(Binding)
  <2>1. CASE bindSkip
    BY <2>1 DEF bindSkip, ItemStep, Apart
  <2> QED
    BY <1>3, <2>1 DEF OfMenus, Binding, Binder
<1>4. CASE Ending
  BY <1>4 DEF Ending, OfWorker, OfMenus, ItemClosed, Apart
<1>5. CASE OfWorker(dropWorker) \/ OfWorker(CloseApp)
  BY <1>5 DEF OfWorker, dropWorker, CloseApp, Apart
<1>6. CASE \E i \in Readers : Reader(i) \/ ReaderCall(i)
  BY <1>6 DEF Reader, ReaderCall, OfMenus
<1>7. CASE PathsMove \/ TreesMove \/ MenusUsed
  BY <1>7 DEF PathsMove, TreesMove, MenusUsed, OfMenus
<1>8. CASE ProcessUsed
  BY <1>8 DEF ProcessUsed, OfProcess, Inspecting, InspectBus, InspectStat, InspectStore,
              TerminateBegins, Terminating, TerminateLookup, ReownBus, ReownStat, Signal,
              PollGone, PollTimeout, TermStep, Apart, workerVars
<1>9. CASE ProcessMoves
  BY <1>9 DEF ProcessMoves, OfProcess, ProcessSteps, ProcessExits, NameLeaves, NumberReused,
              Environment, Apart, workerVars
<1>10. CASE UNCHANGED wvars
  BY <1>10 DEF wvars, workerVars, Apart
<1> QED
  BY <1>1, <1>2, <1>3, <1>4, <1>5, <1>6, <1>7, <1>8, <1>9, <1>10 DEF WNext, Service, ItemLoop

\* A reader is left with a reader's fields.
LEMMA ReaderFields ==
  ASSUME NEW m \in ReaderType
  PROVE  /\ [m EXCEPT !.stop = TRUE] \in ReaderType
         /\ [m EXCEPT !.pump = FALSE] \in ReaderType
         /\ [m EXCEPT !.wake = TRUE] \in ReaderType
         /\ [m EXCEPT !.wake = FALSE, !.loop = "calling"] \in ReaderType
         /\ [m EXCEPT !.loop = "done"] \in ReaderType
         /\ [m EXCEPT !.loop = "select", !.failed = TRUE] \in ReaderType
         /\ [m EXCEPT !.loop = "select", !.failed = FALSE, !.got = NoTree] \in ReaderType
         /\ [m EXCEPT !.loop = "publishing", !.known = TRUE, !.revision = m.got.rev] \in ReaderType
         /\ \A t \in TreeType : [m EXCEPT !.loop = "holding", !.got = t] \in ReaderType
         /\ \A s \in [kind : {"layout", "properties"}, rev : Nat] :
              [m EXCEPT !.signals = @ \cup {s}] \in ReaderType
         /\ \A s, w : [m EXCEPT !.signals = @ \ {s}, !.wake = @ \/ w] \in ReaderType
         /\ NoProxy \in ReaderType
         /\ \A p \in AnyPath : NewProxy(p) \in ReaderType
<1> USE DEF ReaderType, TreeType, AnyPath
<1>1. [m EXCEPT !.stop = TRUE] \in ReaderType
  OBVIOUS
<1>2. [m EXCEPT !.pump = FALSE] \in ReaderType
  OBVIOUS
<1>3. [m EXCEPT !.wake = TRUE] \in ReaderType
  OBVIOUS
<1>4. [m EXCEPT !.wake = FALSE, !.loop = "calling"] \in ReaderType
  OBVIOUS
<1>5. [m EXCEPT !.loop = "done"] \in ReaderType
  OBVIOUS
<1>6. [m EXCEPT !.loop = "select", !.failed = TRUE] \in ReaderType
  OBVIOUS
<1>7. [m EXCEPT !.loop = "select", !.failed = FALSE, !.got = NoTree] \in ReaderType
  BY DEF NoTree
<1>8. [m EXCEPT !.loop = "publishing", !.known = TRUE, !.revision = m.got.rev] \in ReaderType
  OBVIOUS
<1>9. \A t \in TreeType : [m EXCEPT !.loop = "holding", !.got = t] \in ReaderType
  OBVIOUS
<1>10. \A s \in [kind : {"layout", "properties"}, rev : Nat] :
              [m EXCEPT !.signals = @ \cup {s}] \in ReaderType
  OBVIOUS
<1>11. \A s, w : [m EXCEPT !.signals = @ \ {s}, !.wake = @ \/ w] \in ReaderType
  OBVIOUS
<1>12. NoProxy \in ReaderType
  BY DEF NoProxy, NoTree
<1>13. \A p \in AnyPath : NewProxy(p) \in ReaderType
  BY DEF NewProxy, NoTree
<1> QED
  BY <1>1, <1>2, <1>3, <1>4, <1>5, <1>6, <1>7, <1>8, <1>9, <1>10, <1>11, <1>12, <1>13, Zenon

\* A step of one reader alone keeps the invariant if that reader keeps its own.
LEMMA OneReader ==
  ASSUME MenuInv, NEW i \in Readers, NEW m \in ReaderType, Only(i, m), menus[i] # NoProxy,
         NotAhead(i)', DrawnBehind(i)', TreeOnItsWay(i)'
  PROVE  MenuInv'
<1>1. /\ menus' = [menus EXCEPT ![i] = m]
      /\ UNCHANGED <<life, closing, step, reading, path, tree, built, menu, previous, drawn, cmd>>
  BY DEF Only, workerVars
<1>2. MenuTypes'
  BY <1>1 DEF MenuInv, MenuTypes
<1>3. BindingSteps' /\ CommandBehind'
  BY <1>1 DEF MenuInv, BindingSteps, Rebinding, CommandBehind
<1>4. Placement'
  BY <1>1 DEF MenuInv, MenuTypes, Placement, Held
<1>5. Knowledge'
  <2> SUFFICES ASSUME NEW j \in Readers, (menus[j] # NoProxy)'
               PROVE  (NotAhead(j) /\ DrawnBehind(j) /\ TreeOnItsWay(j))'
    BY DEF Knowledge
  <2>1. j = i
    <3>1. j # i => menus[j] # NoProxy
      BY <1>1 DEF MenuInv, MenuTypes
    <3> QED
      BY <3>1 DEF MenuInv, Placement
  <2> QED
    BY <2>1
<1> QED
  BY <1>2, <1>3, <1>4, <1>5 DEF MenuInv

\* Each step of a reader's goroutines and of its call, Publish apart.
LEMMA ReaderKeeps ==
  ASSUME MenuInv, NEW i \in Readers,
         PumpSignal(i) \/ PumpStop(i) \/ LoopWake(i) \/ LoopStop(i) \/ Install(i)
            \/ Answer(i) \/ CallFails(i)
  PROVE  MenuInv'
<1> DEFINE m == menus[i]
<1>1. m # NoProxy
  <2>1. m.pump \/ m.loop \in {"select", "calling", "holding"}
    BY DEF PumpSignal, PumpStop, LoopWake, LoopStop, Install, Answer, CallFails
  <2>2. ~NoProxy.pump /\ NoProxy.loop = "done"
    BY DEF NoProxy
  <2> QED
    BY <2>1, <2>2
<1>2. /\ m \in ReaderType /\ menus \in [Readers -> ReaderType]
      /\ tree \in [Paths -> TreeType] /\ m.path \in Paths
      /\ NotAhead(i) /\ DrawnBehind(i) /\ TreeOnItsWay(i)
      /\ drawn \in DrawnType
  BY <1>1 DEF MenuInv, MenuTypes, Knowledge, NotAhead
<1>3. ASSUME NEW n \in ReaderType, Only(i, n)
      PROVE  menus'[i] = n /\ UNCHANGED <<tree, drawn, closing>>
  BY <1>2, <1>3 DEF Only, workerVars
<1>4. CASE PumpSignal(i)
  <2>1. PICK s \in m.signals :
          Only(i, [m EXCEPT !.signals = @ \ {s}, !.wake = @ \/ ~Superseded(m, s)])
    BY <1>4 DEF PumpSignal
  <2> DEFINE n == [m EXCEPT !.signals = @ \ {s}, !.wake = @ \/ ~Superseded(m, s)]
  <2>2. n \in ReaderType
    BY <1>2, ReaderFields
  <2>3. /\ n.path = m.path /\ n.stop = m.stop /\ n.loop = m.loop /\ n.got = m.got
        /\ n.revision = m.revision /\ n.failed = m.failed /\ n.signals = m.signals \ {s}
        /\ m.wake => n.wake
        /\ ~Superseded(m, s) => n.wake
    BY <1>2 DEF ReaderType
  <2>4. Superseded(m, s) => s.kind # "properties" /\ s.rev # tree[m.path].rev
    <3>1. m.revision \in Nat /\ s.rev \in Nat /\ tree[m.path].rev \in Nat
      BY <1>2, <2>1 DEF ReaderType, TreeType
    <3> QED
      BY <1>2, <2>1, <3>1 DEF Superseded, NotAhead
  <2>5. menus'[i] = n /\ UNCHANGED <<tree, drawn, closing>>
    BY <1>3, <2>1, <2>2
  <2> HIDE DEF n
  <2>6. NotAhead(i)' /\ DrawnBehind(i)'
    BY <1>2, <2>3, <2>5 DEF NotAhead, DrawnBehind
  <2>7. TreeOnItsWay(i)'
    BY <1>2, <2>1, <2>3, <2>4, <2>5 DEF TreeOnItsWay, Tells, Current
  <2> QED
    BY <1>1, <2>1, <2>2, <2>6, <2>7, OneReader DEF n
<1>5. CASE PumpStop(i)
  <2> DEFINE n == [m EXCEPT !.pump = FALSE]
  <2>1. n \in ReaderType /\ Only(i, n)
    BY <1>2, <1>5, ReaderFields DEF PumpStop
  <2>2. /\ n.path = m.path /\ n.signals = m.signals
        /\ n.stop = m.stop /\ n.wake = m.wake /\ n.loop = m.loop /\ n.got = m.got
        /\ n.revision = m.revision /\ n.failed = m.failed
    BY <1>2, <1>5 DEF PumpStop, ReaderType
  <2>3. menus'[i] = n /\ UNCHANGED <<tree, drawn, closing>>
    BY <1>3, <2>1
  <2> HIDE DEF n
  <2>4. NotAhead(i)' /\ DrawnBehind(i)'
    BY <1>2, <2>2, <2>3 DEF NotAhead, DrawnBehind
  <2>5. TreeOnItsWay(i)'
    BY <1>2, <2>2, <2>3 DEF TreeOnItsWay, Tells, Current
  <2> QED
    BY <1>1, <2>1, <2>4, <2>5, OneReader
<1>6. CASE LoopWake(i)
  <2> DEFINE n == [m EXCEPT !.wake = FALSE, !.loop = "calling"]
  <2>1. n \in ReaderType /\ Only(i, n)
    BY <1>2, <1>6, ReaderFields DEF LoopWake
  <2>2. /\ n.path = m.path /\ n.signals = m.signals
        /\ n.loop = "calling" /\ n.revision = m.revision
    BY <1>2, <1>6 DEF LoopWake, ReaderType
  <2>3. menus'[i] = n /\ UNCHANGED <<tree, drawn, closing>>
    BY <1>3, <2>1
  <2> HIDE DEF n
  <2>4. NotAhead(i)' /\ DrawnBehind(i)'
    BY <1>2, <2>2, <2>3 DEF NotAhead, DrawnBehind
  <2>5. TreeOnItsWay(i)'
    BY <1>2, <2>2, <2>3 DEF TreeOnItsWay, Tells, Current
  <2> QED
    BY <1>1, <2>1, <2>4, <2>5, OneReader
<1>7. CASE LoopStop(i)
  <2> DEFINE n == [m EXCEPT !.loop = "done"]
  <2>1. n \in ReaderType /\ Only(i, n)
    BY <1>2, <1>7, ReaderFields DEF LoopStop
  <2>2. /\ n.path = m.path /\ n.signals = m.signals
        /\ n.loop = "done" /\ n.revision = m.revision /\ n.stop = m.stop
        /\ m.stop \/ closing
    BY <1>2, <1>7 DEF LoopStop, ReaderType
  <2>3. menus'[i] = n /\ UNCHANGED <<tree, drawn, closing>>
    BY <1>3, <2>1
  <2> HIDE DEF n
  <2>4. NotAhead(i)' /\ DrawnBehind(i)'
    BY <1>2, <2>2, <2>3 DEF NotAhead, DrawnBehind
  <2>5. TreeOnItsWay(i)'
    BY <1>2, <2>2, <2>3 DEF TreeOnItsWay, Tells, Current
  <2> QED
    BY <1>1, <2>1, <2>4, <2>5, OneReader
<1>8. CASE Install(i)
  <2> DEFINE n == [m EXCEPT !.loop = "publishing", !.known = TRUE, !.revision = m.got.rev]
  <2>1. n \in ReaderType /\ Only(i, n)
    BY <1>2, <1>8, ReaderFields DEF Install
  <2>2. /\ n.path = m.path /\ n.signals = m.signals
        /\ m.loop = "holding" /\ n.loop = "publishing"
        /\ n.revision = m.got.rev /\ n.got = m.got /\ n.stop = m.stop /\ n.wake = m.wake
    BY <1>2, <1>8 DEF Install, ReaderType
  <2>3. menus'[i] = n /\ UNCHANGED <<tree, drawn, closing>>
    BY <1>3, <2>1
  <2> HIDE DEF n
  <2>4. NotAhead(i)' /\ DrawnBehind(i)'
    BY <1>2, <2>2, <2>3 DEF NotAhead, DrawnBehind
  <2>5. TreeOnItsWay(i)'
    BY <1>2, <2>2, <2>3 DEF TreeOnItsWay, Tells, Current
  <2> QED
    BY <1>1, <2>1, <2>4, <2>5, OneReader
<1>9. CASE Answer(i)
  <2> DEFINE n == [m EXCEPT !.loop = "holding", !.got = tree[m.path]]
  <2>1. n \in ReaderType /\ Only(i, n)
    BY <1>2, <1>9, ReaderFields DEF Answer
  <2>2. /\ n.path = m.path /\ n.signals = m.signals
        /\ n.loop = "holding" /\ n.got = tree[m.path] /\ n.revision = m.revision /\ n.stop = m.stop

    BY <1>2, <1>9 DEF Answer, ReaderType
  <2>3. menus'[i] = n /\ UNCHANGED <<tree, drawn, closing>>
    BY <1>3, <2>1
  <2> HIDE DEF n
  <2>4. NotAhead(i)' /\ DrawnBehind(i)'
    <3>1. /\ tree[m.path].rev \in Nat /\ tree[m.path].ver \in Nat
          /\ drawn.rev \in Nat /\ drawn.ver \in Nat /\ m.revision \in Nat
      BY <1>2 DEF TreeType, DrawnType, ReaderType
    <3> QED
      BY <1>2, <2>2, <2>3, <3>1 DEF NotAhead, DrawnBehind
  <2>5. TreeOnItsWay(i)'
    BY <1>2, <2>2, <2>3 DEF TreeOnItsWay, Tells, Current
  <2> QED
    BY <1>1, <2>1, <2>4, <2>5, OneReader
<1>10. CASE CallFails(i)
  <2> DEFINE n == [m EXCEPT !.loop = "select", !.failed = TRUE]
  <2>1. n \in ReaderType /\ Only(i, n)
    BY <1>2, <1>10, ReaderFields DEF CallFails
  <2>2. /\ n.path = m.path /\ n.signals = m.signals
        /\ n.loop = "select" /\ n.failed /\ n.revision = m.revision
    BY <1>2, <1>10 DEF CallFails, ReaderType
  <2>3. menus'[i] = n /\ UNCHANGED <<tree, drawn, closing>>
    BY <1>3, <2>1
  <2> HIDE DEF n
  <2>4. NotAhead(i)' /\ DrawnBehind(i)'
    BY <1>2, <2>2, <2>3 DEF NotAhead, DrawnBehind
  <2>5. TreeOnItsWay(i)'
    BY <1>2, <2>2, <2>3 DEF TreeOnItsWay, Tells, Current
  <2> QED
    BY <1>1, <2>1, <2>4, <2>5, OneReader
<1> QED
  BY <1>4, <1>5, <1>6, <1>7, <1>8, <1>9, <1>10

\* What a reader draws is not behind what is drawn.
LEMMA PublishForward ==
  ASSUME MenuInv, NEW i \in Readers, Publish(i)
  PROVE  /\ menus[i] # NoProxy
         /\ drawn' = drawn \/ drawn' = [by |-> i, path |-> menus[i].path,
                                        rev |-> menus[i].got.rev, ver |-> menus[i].got.ver]
         /\ \/ drawn'.by > drawn.by
            \/ drawn'.by = drawn.by /\ drawn'.rev >= drawn.rev /\ drawn'.ver >= drawn.ver
<1> DEFINE m == menus[i]
<1>1. /\ m.loop = "publishing"
      /\ drawn' = IF closing \/ life = "retired" THEN drawn
                  ELSE [by |-> i, path |-> m.path, rev |-> m.got.rev, ver |-> m.got.ver]
  BY DEF Publish
<1>2. m # NoProxy
  BY <1>1 DEF NoProxy
<1>3. /\ i = built /\ DrawnBehind(i)
      /\ drawn \in DrawnType /\ m \in ReaderType /\ drawn.by <= built
  BY <1>2 DEF MenuInv, MenuTypes, Placement, Knowledge, CommandBehind
<1>4. CASE drawn' = drawn
  BY <1>2, <1>3, <1>4 DEF DrawnType
<1>5. CASE drawn' = [by |-> i, path |-> m.path, rev |-> m.got.rev, ver |-> m.got.ver]
  <2>1. drawn'.by = i /\ drawn'.rev = m.got.rev /\ drawn'.ver = m.got.ver
    BY <1>5
  <2>2. drawn.by \in Nat /\ i \in Nat /\ m.got.rev \in Nat /\ m.got.ver \in Nat
    BY <1>3 DEF DrawnType, ReaderType, TreeType, Readers
  <2> QED
    BY <1>1, <1>2, <1>3, <1>5, <2>1, <2>2 DEF DrawnBehind
<1> QED
  BY <1>1, <1>4, <1>5

\* Publish: what is drawn becomes what the reader holds.
LEMMA PublishKeeps ==
  ASSUME MenuInv, NEW i \in Readers, Publish(i)
  PROVE  MenuInv'
<1> DEFINE m == menus[i]
           n == [m EXCEPT !.loop = "select", !.failed = FALSE, !.got = NoTree]
<1>1. /\ m # NoProxy /\ i = built
      /\ \A j \in Readers : menus[j] # NoProxy => j = i
      /\ menus \in [Readers -> ReaderType] /\ m \in ReaderType
      /\ tree \in [Paths -> TreeType] /\ m.path \in Paths
      /\ NotAhead(i) /\ DrawnBehind(i) /\ TreeOnItsWay(i)
      /\ m.loop = "publishing" /\ life # "retired"
  <2>1. m # NoProxy /\ m.loop = "publishing"
    BY PublishForward DEF Publish
  <2> QED
    BY <2>1 DEF MenuInv, MenuTypes, BindingSteps, Placement, Held, Knowledge, NotAhead
<1>2. /\ n \in ReaderType
      /\ n.path = m.path /\ n.signals = m.signals /\ n.revision = m.revision
      /\ n.loop = "select" /\ n.stop = m.stop /\ n.wake = m.wake
  <2>1. n \in ReaderType
    BY <1>1, ReaderFields
  <2> QED
    BY <1>1, <2>1 DEF ReaderType
<1>3. /\ menus' = [menus EXCEPT ![i] = n]
      /\ UNCHANGED <<life, closing, step, reading, path, tree, built, menu, previous, cmd>>
      /\ drawn' = IF closing THEN drawn
                  ELSE [by |-> i, path |-> m.path, rev |-> m.got.rev, ver |-> m.got.ver]
  <2>1. menus' = [menus EXCEPT ![i].loop = "select", ![i].failed = FALSE, ![i].got = NoTree]
    BY DEF Publish
  <2> QED
    BY <1>1, <2>1 DEF Publish, workerVars, ReaderType
<1> HIDE DEF n
<1>4. menus'[i] = n /\ \A j \in Readers : j # i => menus'[j] = NoProxy
  BY <1>1, <1>3
<1>5. MenuTypes'
  <2>1. drawn' \in DrawnType
    BY <1>1, <1>3 DEF MenuInv, MenuTypes, DrawnType, ReaderType, TreeType, Readers
  <2> QED
    BY <1>2, <1>3, <2>1 DEF MenuInv, MenuTypes
<1>6. BindingSteps'
  BY <1>3 DEF MenuInv, BindingSteps, Rebinding
<1>7. Placement'
  BY <1>1, <1>3, <1>4 DEF MenuInv, Placement, Held
<1>8. Knowledge'
  <2>1. NotAhead(i)'
    BY <1>1, <1>2, <1>3, <1>4 DEF NotAhead
  <2>2. DrawnBehind(i)'
    <3>1. m.got.rev \in Nat
      BY <1>1 DEF ReaderType, TreeType
    <3> QED
      BY <1>1, <1>2, <1>3, <1>4, <3>1 DEF NotAhead, DrawnBehind
  <2>3. TreeOnItsWay(i)'
    BY <1>1, <1>2, <1>3, <1>4 DEF TreeOnItsWay, Tells, Current
  <2> QED
    BY <1>4, <2>1, <2>2, <2>3 DEF Knowledge
<1>9. CommandBehind'
  <2>1. /\ drawn' = drawn \/ drawn'.by = i
        /\ drawn.by \in Nat /\ drawn.rev \in Nat /\ drawn'.by \in Nat /\ drawn'.rev \in Nat
        /\ cmd.shown.by \in Nat /\ cmd.shown.rev \in Nat
    BY <1>3, <1>5 DEF MenuInv, MenuTypes, DrawnType
  <2>2. drawn'.by <= built'
    BY <1>1, <1>3, <2>1 DEF MenuInv, CommandBehind, Readers
  <2> QED
    BY <1>3, <2>1, <2>2, PublishForward DEF MenuInv, CommandBehind
<1> QED
  BY <1>5, <1>6, <1>7, <1>8, <1>9 DEF MenuInv

\* Steps apart from menus.
LEMMA ApartKeeps == MenuInv /\ Apart => MenuInv'
<1> SUFFICES ASSUME MenuInv, Apart PROVE MenuInv'
  OBVIOUS
<1>1. UNCHANGED <<tree, menus, built, menu, previous, drawn, cmd>>
  BY DEF Apart, menuVars
<1>2. MenuTypes' /\ CommandBehind' /\ BindingSteps'
  BY <1>1 DEF MenuInv, Apart, MenuTypes, BindingSteps, Rebinding, CommandBehind
<1>3. Placement'
  <2>1. ASSUME NEW i \in Readers, Held(i) PROVE Held(i)'
    BY <1>1, <2>1 DEF Apart, Held
  <2> QED
    BY <1>1, <2>1 DEF MenuInv, Placement
<1>4. Knowledge'
  <2>1. ASSUME NEW i \in Readers
        PROVE  /\ NotAhead(i) => NotAhead(i)'
               /\ DrawnBehind(i) => DrawnBehind(i)'
               /\ TreeOnItsWay(i) => TreeOnItsWay(i)'
    BY <1>1 DEF Apart, NotAhead, DrawnBehind, TreeOnItsWay, Tells, Current
  <2> QED
    BY <1>1, <2>1 DEF MenuInv, Knowledge
<1> QED
  BY <1>2, <1>3, <1>4 DEF MenuInv

\* The application advertises another path.
LEMMA PathKeeps == MenuInv /\ PathChanges => MenuInv'
<1>1. ASSUME NEW p \in AnyPath, Advertise(p)
      PROVE  UNCHANGED <<life, closing, step, reading, tree, menus, built, menu, previous, drawn, cmd>>
             /\ path' \in AnyPath
  BY <1>1 DEF Advertise, ChangePath
<1> SUFFICES ASSUME MenuInv, PathChanges PROVE MenuInv'
  OBVIOUS
<1>2. UNCHANGED <<life, closing, step, reading, tree, menus, built, menu, previous, drawn, cmd>>
      /\ path' \in AnyPath
  BY <1>1 DEF PathChanges, AnyPath
<1> QED
  BY <1>2 DEF MenuInv, MenuTypes, BindingSteps, Rebinding, CommandBehind, Placement, Held,
              Knowledge, NotAhead, DrawnBehind, TreeOnItsWay, Tells, Current

\* A shell's command; AboutToShow wakes a reader that is not stopped.
LEMMA CommandKeeps == MenuInv /\ Commanding => MenuInv'
<1> SUFFICES ASSUME MenuInv, Commanding PROVE MenuInv'
  OBVIOUS
<1>1. CASE Click \/ menuProxy \/ check \/ event
  <2>1. UNCHANGED <<life, closing, step, reading, path, tree, menus, built, menu, previous, drawn>>
    BY <1>1 DEF Click, menuProxy, check, event, Command, workerVars
  <2>2. /\ MenuTypes'
        /\ cmd'.at # "none" => cmd'.shown \in {cmd.shown, drawn} /\ (cmd.at = "none" => cmd'.shown = drawn)
    <3> DEFINE Cmds == [at : {"none", "clicked", "found", "passed"}, shown : DrawnType, to : 0..MaxMenus]
    <3>1. /\ NoCommand \in Cmds /\ NoCommand.at = "none"
          /\ cmd \in Cmds /\ drawn \in DrawnType /\ menu \in 0..MaxMenus
      BY MenuAssumption DEF MenuInv, MenuTypes, NoCommand, Undrawn, DrawnType, AnyPath
    <3>2. CASE cmd' = NoCommand
      BY <2>1, <3>1, <3>2 DEF MenuInv, MenuTypes
    <3>3. CASE cmd.at = "none" /\ cmd' = [at |-> "clicked", shown |-> drawn, to |-> 0]
      <4>1. cmd' \in Cmds
        BY <3>1, <3>3, MenuAssumption
      <4> QED
        BY <2>1, <3>3, <4>1 DEF MenuInv, MenuTypes
    <3>4. CASE cmd.at = "clicked" /\ menu # 0 /\ cmd' = [cmd EXCEPT !.at = "found", !.to = menu]
      <4>1. cmd' \in Cmds /\ cmd'.to # 0 /\ cmd'.shown = cmd.shown
        BY <3>1, <3>4
      <4> QED
        BY <2>1, <3>4, <4>1 DEF MenuInv, MenuTypes
    <3>5. CASE cmd.at = "found" /\ cmd' = [cmd EXCEPT !.at = "passed"]
      <4>1. cmd' \in Cmds /\ cmd'.to = cmd.to /\ cmd'.shown = cmd.shown
        BY <3>1, <3>5
      <4> QED
        BY <2>1, <3>5, <4>1 DEF MenuInv, MenuTypes
    <3> QED
      BY <1>1, <3>2, <3>3, <3>4, <3>5 DEF Click, menuProxy, check, event, Command
  <2>3. CommandBehind'
    BY <2>1, <2>2 DEF MenuInv, MenuTypes, DrawnType, CommandBehind
  <2> QED
    BY <2>1, <2>2, <2>3 DEF MenuInv, BindingSteps, Rebinding, Placement, Held,
              Knowledge, NotAhead, DrawnBehind, TreeOnItsWay, Tells, Current
<1>2. CASE AboutToShow
  <2>1. PICK i \in Readers :
          /\ i = cmd.to /\ ~menus[i].stop
          /\ cmd' = NoCommand /\ menus' = [menus EXCEPT ![i].wake = TRUE]
          /\ UNCHANGED <<life, closing, step, reading, path, tree, built, menu, previous, drawn>>
    <3>1. cmd.to \in Readers
      BY <1>2, MenuAssumption DEF AboutToShow, MenuInv, MenuTypes, Readers
    <3> QED
      BY <1>2, <3>1 DEF AboutToShow, workerVars
  <2> DEFINE n == [menus[i] EXCEPT !.wake = TRUE]
  <2>2. /\ menus \in [Readers -> ReaderType] /\ menus[i] # NoProxy
        /\ NotAhead(i) /\ DrawnBehind(i) /\ TreeOnItsWay(i)
    <3>1. NoProxy.stop
      BY DEF NoProxy
    <3> QED
      BY <2>1, <3>1 DEF MenuInv, MenuTypes, Knowledge
  <2>3. n \in ReaderType
    BY <2>2, ReaderFields
  <2>4. /\ n.path = menus[i].path /\ n.signals = menus[i].signals /\ n.stop = menus[i].stop
        /\ n.loop = menus[i].loop /\ n.got = menus[i].got /\ n.revision = menus[i].revision
        /\ n.wake
    BY <2>2 DEF ReaderType
  <2>5. menus' = [menus EXCEPT ![i] = n]
    BY <2>1, <2>2
  <2> HIDE DEF n
  <2>6. MenuTypes'
    <3>1. NoCommand \in [at : {"none", "clicked", "found", "passed"}, shown : DrawnType, to : 0..MaxMenus]
      BY MenuAssumption DEF NoCommand, Undrawn, DrawnType, AnyPath
    <3> QED
      <4>1. menus' \in [Readers -> ReaderType]
        BY <2>2, <2>3, <2>5
      <4>2. cmd'.at = "none"
        BY <2>1 DEF NoCommand
      <4> QED
        BY <2>1, <3>1, <4>1, <4>2 DEF MenuInv, MenuTypes
  <2>7. BindingSteps' /\ CommandBehind'
    BY <2>1 DEF MenuInv, BindingSteps, Rebinding, CommandBehind, NoCommand
  <2>8. Placement'
    <3>1. \A j \in Readers : j # i => menus'[j] = menus[j]
      BY <2>2, <2>5
    <3> QED
      BY <2>1, <2>2, <3>1 DEF MenuInv, Placement, Held
  <2>9. Knowledge'
    <3>1. menus'[i] = n /\ \A j \in Readers : j # i => menus[j] = NoProxy /\ menus'[j] = menus[j]
      BY <2>2, <2>5 DEF MenuInv, Placement
    <3>2. NotAhead(i)' /\ DrawnBehind(i)' /\ TreeOnItsWay(i)'
      BY <2>1, <2>2, <2>4, <3>1 DEF NotAhead, DrawnBehind, TreeOnItsWay
    <3> QED
      BY <3>1, <3>2 DEF Knowledge
  <2> QED
    BY <2>6, <2>7, <2>8, <2>9 DEF MenuInv
<1> QED
  BY <1>1, <1>2 DEF Commanding

\* The application's trees move on, and the readers of the path are told.
LEMMA TreeKeeps == MenuInv /\ TreeChanges => MenuInv'
<1> SUFFICES ASSUME MenuInv, TreeChanges PROVE MenuInv'
  OBVIOUS
<1> DEFINE Signals == [kind : {"layout", "properties"}, rev : Nat]
<1>1. PICK p \in Paths, t \in TreeType, s \in Signals :
        /\ ChangeTree(p, t, s)
        /\ t.rev >= tree[p].rev /\ t.ver >= tree[p].ver
        /\ s.rev <= t.rev /\ (s.kind = "properties" \/ s.rev = t.rev)
  <2>1. PICK p \in Paths : LayoutUpdated(p) \/ ItemsPropertiesUpdated(p)
    BY DEF TreeChanges
  <2>2. tree[p] \in TreeType
    BY DEF MenuInv, MenuTypes
  <2>3. CASE LayoutUpdated(p)
    <3> DEFINE t == [rev |-> tree[p].rev + 1, ver |-> tree[p].ver + 1]
               s == [kind |-> "layout", rev |-> tree[p].rev + 1]
    <3>1. t \in TreeType /\ s \in Signals /\ ChangeTree(p, t, s)
      BY <2>2, <2>3 DEF LayoutUpdated, TreeType
    <3>2. t.rev >= tree[p].rev /\ t.ver >= tree[p].ver /\ s.rev = t.rev /\ s.rev <= t.rev
      BY <2>2 DEF TreeType
    <3> QED
      BY <3>1, <3>2
  <2>4. CASE ItemsPropertiesUpdated(p)
    <3> DEFINE t == [tree[p] EXCEPT !.ver = @ + 1]
               s == [kind |-> "properties", rev |-> 0]
    <3>1. t \in TreeType /\ s \in Signals /\ ChangeTree(p, t, s)
      BY <2>2, <2>4 DEF ItemsPropertiesUpdated, TreeType
    <3>2. t.rev >= tree[p].rev /\ t.ver >= tree[p].ver /\ s.kind = "properties" /\ s.rev <= t.rev
      BY <2>2 DEF TreeType
    <3> QED
      BY <3>1, <3>2
  <2> QED
    BY <2>1, <2>3, <2>4
<1>2. /\ tree' = [tree EXCEPT ![p] = t] /\ menus' = Told(p, s)
      /\ UNCHANGED <<life, closing, step, reading, path, built, menu, previous, drawn, cmd>>
  BY <1>1 DEF ChangeTree, workerVars
<1>3. tree \in [Paths -> TreeType] /\ menus \in [Readers -> ReaderType] /\ drawn \in DrawnType
  BY DEF MenuInv, MenuTypes
<1>4. ASSUME NEW i \in Readers
      PROVE  /\ menus'[i] \in ReaderType
             /\ menus[i].path # p => menus'[i] = menus[i]
             /\ menus[i].path = p =>
                  /\ menus'[i].path = p /\ menus'[i].signals = menus[i].signals \cup {s}
                  /\ menus'[i].stop = menus[i].stop /\ menus'[i].loop = menus[i].loop
                  /\ menus'[i].wake = menus[i].wake /\ menus'[i].got = menus[i].got
                  /\ menus'[i].revision = menus[i].revision
             /\ menus[i] = NoProxy => menus'[i] = NoProxy
  <2>1. menus'[i] = IF menus[i].path = p THEN [menus[i] EXCEPT !.signals = @ \cup {s}] ELSE menus[i]
    BY <1>2 DEF Told
  <2>2. menus[i] \in ReaderType /\ [menus[i] EXCEPT !.signals = @ \cup {s}] \in ReaderType
    BY <1>1, <1>3, ReaderFields
  <2>3. NoProxy.path # p
    BY PathAssumption DEF NoProxy
  <2> QED
    BY <2>1, <2>2, <2>3 DEF ReaderType
<1>5. MenuTypes'
  <2>1. menus' \in [Readers -> ReaderType]
    BY <1>2, <1>4 DEF Told
  <2>2. tree' \in [Paths -> TreeType]
    BY <1>1, <1>2, <1>3
  <2> QED
    BY <1>2, <2>1, <2>2 DEF MenuInv, MenuTypes
<1>6. BindingSteps' /\ CommandBehind'
  BY <1>2 DEF MenuInv, BindingSteps, Rebinding, CommandBehind
<1>7. Placement'
  BY <1>2, <1>4 DEF MenuInv, Placement, Held
<1>8. Knowledge'
  <2> SUFFICES ASSUME NEW i \in Readers, (menus[i] # NoProxy)'
               PROVE  (NotAhead(i) /\ DrawnBehind(i) /\ TreeOnItsWay(i))'
    BY DEF Knowledge
  <2>1. NotAhead(i) /\ DrawnBehind(i) /\ TreeOnItsWay(i) /\ menus[i] \in ReaderType
    BY <1>3, <1>4 DEF MenuInv, Knowledge
  <2>2. CASE menus[i].path # p
    <3>1. menus'[i] = menus[i] /\ tree'[menus[i].path] = tree[menus[i].path]
      BY <1>2, <1>3, <1>4, <2>1, <2>2 DEF NotAhead
    <3> QED
      BY <1>2, <2>1, <3>1 DEF NotAhead, DrawnBehind, TreeOnItsWay, Tells, Current
  <2>3. CASE menus[i].path = p
    <3>1. tree'[p] = t /\ tree[p] \in TreeType
      BY <1>2, <1>3
    <3>2. NotAhead(i)'
      BY <1>1, <1>4, <2>1, <2>3, <3>1 DEF NotAhead, TreeType, ReaderType
    <3>3. DrawnBehind(i)'
      BY <1>1, <1>2, <1>3, <1>4, <2>1, <2>3, <3>1 DEF DrawnBehind, TreeType, DrawnType
    <3>4. Tells(i)'
      BY <1>1, <1>4, <2>3, <3>1 DEF Tells
    <3> QED
      BY <3>2, <3>3, <3>4 DEF TreeOnItsWay
  <2> QED
    BY <2>2, <2>3
<1> QED
  BY <1>5, <1>6, <1>7, <1>8 DEF MenuInv

\* Stopping a reader leaves everything true of it; closing it removes it.
LEMMA StopsOrCloses ==
  ASSUME MenuInv, NEW i \in 0..MaxMenus, menus' \in {Stopped(i), Closed(i), menus},
         UNCHANGED <<closing, tree, drawn>>
  PROVE  /\ menus' \in [Readers -> ReaderType]
         /\ \A j \in Readers : menus[j] = NoProxy => menus'[j] = NoProxy
         /\ menus' = Closed(i) /\ i # 0 => menus'[i] = NoProxy
         /\ Knowledge'
<1>1. menus \in [Readers -> ReaderType]
  BY DEF MenuInv, MenuTypes
<1>2. menus' \in [Readers -> ReaderType]
  <2>1. CASE menus' = Stopped(i)
    <3>1. menus' = [menus EXCEPT ![i] = [menus[i] EXCEPT !.stop = TRUE]]
      BY <2>1, Zenon DEF Stopped
    <3> QED
      BY <1>1, <3>1, ReaderFields
  <2>2. CASE menus' = Closed(i)
    <3>1. i \in Readers => NoProxy \in ReaderType
      BY <1>1, ReaderFields
    <3> QED
      BY <1>1, <2>2, <3>1 DEF Closed
  <2> QED
    BY <1>1, <2>1, <2>2
<1>3. \A j \in Readers : j # i => menus'[j] = menus[j]
  BY <1>1 DEF Stopped, Closed
<1>4. menus' = Closed(i) /\ i # 0 => menus'[i] = NoProxy
  BY <1>1 DEF Closed, Readers
<1>5. ASSUME NEW j \in Readers, menus[j] = NoProxy PROVE menus'[j] = NoProxy
  <2>1. [NoProxy EXCEPT !.stop = TRUE] = NoProxy
    <3>1. NoProxy \in ReaderType /\ NoProxy.stop = TRUE
      BY <1>1, ReaderFields DEF NoProxy
    <3>2. \A m \in ReaderType : [m EXCEPT !.stop = m.stop] = m
      BY DEF ReaderType
    <3> QED
      BY <3>1, <3>2
  <2>2. CASE j = i /\ menus' = Stopped(i)
    <3>1. menus'[j] = [menus[j] EXCEPT !.stop = TRUE]
      BY <1>1, <2>2 DEF Stopped
    <3> QED
      BY <1>5, <2>1, <3>1
  <2> QED
    BY <1>3, <1>4, <1>5, <2>2 DEF Readers
<1>6. Knowledge'
  <2> SUFFICES ASSUME NEW j \in Readers, (menus[j] # NoProxy)'
               PROVE  (NotAhead(j) /\ DrawnBehind(j) /\ TreeOnItsWay(j))'
    BY DEF Knowledge
  <2>1. CASE menus'[j] = menus[j]
    BY <2>1 DEF MenuInv, Knowledge, NotAhead, DrawnBehind, TreeOnItsWay, Tells, Current
  <2>2. CASE j = i /\ menus' = Stopped(i)
    <3>1. /\ menus'[j].path = menus[j].path /\ menus'[j].signals = menus[j].signals
          /\ menus'[j].loop = menus[j].loop /\ menus'[j].got = menus[j].got
          /\ menus'[j].revision = menus[j].revision /\ menus'[j].stop
      BY <1>1, <2>2 DEF Stopped, ReaderType
    <3> QED
      BY <1>5, <2>2, <3>1 DEF MenuInv, Knowledge, NotAhead, DrawnBehind, TreeOnItsWay
  <2> QED
    BY <1>3, <1>4, <2>1, <2>2 DEF Readers
<1> QED
  BY <1>2, <1>4, <1>5, <1>6

\* closeWorker's first half, and the retirement of the item.
LEMMA ClosingKeeps == MenuInv /\ ClosingMenus => MenuInv'
<1> SUFFICES ASSUME MenuInv, ClosingMenus PROVE MenuInv'
  OBVIOUS
<1>1. CASE CloseMenu \/ MenuClosed
  <2>1. /\ menus' \in {Stopped(menu), Closed(menu), menus}
        /\ life' # "table" /\ life \notin {"closed", "retired"} /\ life' \notin {"closed", "retired"}
        /\ life \in {"out", "menu"} /\ life' \in {"menu", "item"}
        /\ life' = "item" /\ menu # 0 => menus' = Closed(menu)
        /\ UNCHANGED <<closing, step, reading, path, tree, built, menu, previous, drawn, cmd>>
    BY <1>1 DEF CloseMenu, MenuClosed
  <2>2. menu \in 0..MaxMenus
    BY MenuAssumption DEF MenuInv, MenuTypes
  <2>3. /\ menus' \in [Readers -> ReaderType]
        /\ \A j \in Readers : menus[j] = NoProxy => menus'[j] = NoProxy
        /\ menus' = Closed(menu) /\ menu # 0 => menus'[menu] = NoProxy
        /\ Knowledge'
    BY <2>1, <2>2, StopsOrCloses
  <2>4. MenuTypes' /\ BindingSteps' /\ CommandBehind'
    BY <2>1, <2>3 DEF MenuInv, MenuTypes, BindingSteps, Rebinding, CommandBehind
  <2>5. Placement'
    <3> SUFFICES ASSUME NEW j \in Readers, menus'[j] # NoProxy PROVE j = built' /\ Held(j)'
      BY DEF Placement
    <3>1. menus[j] # NoProxy
      BY <2>3
    <3>2. life' = "item" => menu # j
      BY <2>1, <2>3 DEF Readers
    <3> QED
      BY <2>1, <3>1, <3>2 DEF MenuInv, Placement, Held
  <2> QED
    BY <2>3, <2>4, <2>5 DEF MenuInv
<1>2. CASE RetireItem
  <2>1. /\ life = "closed" /\ life' = "retired" /\ drawn' = Undrawn
        /\ UNCHANGED <<closing, step, reading, path, tree, menus, built, menu, previous, cmd>>
    BY <1>2 DEF RetireItem
  <2>2. \A i \in Readers : menus[i] = NoProxy
    BY <2>1 DEF MenuInv, BindingSteps, Placement, Held
  <2>3. MenuTypes'
    BY <2>1 DEF MenuInv, MenuTypes, Undrawn, DrawnType, AnyPath
  <2> QED
    BY <2>1, <2>2, <2>3 DEF MenuInv, MenuTypes, BindingSteps, Rebinding, Placement, Knowledge, CommandBehind, Undrawn
<1> QED
  BY <1>1, <1>2 DEF ClosingMenus

\* bindMenu, on the item's reading loop.
LEMMA BinderKeeps == MenuInv /\ Binder => MenuInv'
<1> SUFFICES ASSUME MenuInv, Binder PROVE MenuInv'
  OBVIOUS
<1> USE DEF ItemStep
<1>1. CASE bindMenu
  <2>1. /\ step = "bind" /\ step' = "previous" /\ life = "table" /\ life' = "table"
        /\ previous' = menu /\ menu' = 0
        /\ UNCHANGED <<closing, reading, path, tree, menus, built, drawn, cmd>>
    BY <1>1 DEF bindMenu, Binds, InTable
  <2>2. MenuTypes' /\ BindingSteps' /\ CommandBehind'
    BY <2>1 DEF MenuInv, MenuTypes, BindingSteps, Rebinding, CommandBehind
  <2>3. Placement'
    BY <2>1 DEF MenuInv, Placement, Held
  <2> QED
    BY <2>1, <2>2, <2>3 DEF MenuInv, Knowledge, NotAhead, DrawnBehind, TreeOnItsWay, Tells, Current
<1>2. CASE ClosePrevious \/ DiscardMenu \/ PreviousClosed \/ MenuDiscarded
  <2> DEFINE i == IF step \in {"previous", "waiting"} THEN previous ELSE built
  <2>1. /\ i \in 0..MaxMenus /\ menus' \in {Stopped(i), Closed(i), menus}
        /\ i = 0 \/ i = built
        /\ \/ step = "previous" /\ step' = "waiting" /\ previous' = previous
           \/ step = "place" /\ step' = "discarding" /\ previous' = previous
           \/ /\ step \in {"waiting", "discarding"}
              /\ i # 0 => menus' = Closed(i)
              /\ \/ step' = "select"
                 \/ step = "waiting" /\ step' = "start" /\ reading # NoPath
              /\ step = "waiting" => previous' = 0
              /\ step = "discarding" => previous' = previous
        /\ UNCHANGED <<life, closing, reading, path, tree, built, menu, drawn, cmd>>
    <3>1. built \in 0..MaxMenus /\ 0 \in 0..MaxMenus /\ previous \in {0, built}
      BY MenuAssumption DEF MenuInv, MenuTypes
    <3>2. CASE ClosePrevious
      BY <3>1, <3>2 DEF ClosePrevious
    <3>3. CASE DiscardMenu
      BY <3>1, <3>3 DEF DiscardMenu
    <3>4. CASE PreviousClosed
      <4>1. step = "waiting" /\ i = previous
        BY <3>4 DEF PreviousClosed
      <4>2. menus' = IF previous = 0 THEN menus ELSE Closed(previous)
        BY <3>4 DEF PreviousClosed
      <4>3. /\ previous' = 0
            /\ \/ step' = "select"
               \/ step' = "start" /\ reading # NoPath
            /\ UNCHANGED <<life, closing, reading, path, tree, built, menu, drawn, cmd>>
        BY <3>4 DEF PreviousClosed
      <4> HIDE DEF i
      <4> QED
        BY <3>1, <4>1, <4>2, <4>3
    <3>5. CASE MenuDiscarded
      <4>1. step = "discarding" /\ i = built /\ menus' = Closed(built)
        BY <3>5 DEF MenuDiscarded
      <4>2. step' = "select" /\ UNCHANGED <<life, closing, reading, path, tree, built, menu, previous, drawn, cmd>>
        BY <3>5 DEF MenuDiscarded
      <4> HIDE DEF i
      <4> QED
        BY <3>1, <4>1, <4>2
    <3> QED
      BY <1>2, <3>2, <3>3, <3>4, <3>5
  <2> HIDE DEF i
  <2>2. /\ menus' \in [Readers -> ReaderType]
        /\ \A j \in Readers : menus[j] = NoProxy => menus'[j] = NoProxy
        /\ menus' = Closed(i) /\ i # 0 => menus'[i] = NoProxy
        /\ Knowledge'
    BY <2>1, StopsOrCloses
  <2>3. MenuTypes' /\ BindingSteps' /\ CommandBehind'
    <3>1. previous' \in {0, built} /\ UNCHANGED <<life, reading, path, tree, built, menu, drawn, cmd>>
      BY <2>1 DEF MenuInv, MenuTypes
    <3>2. MenuTypes' /\ CommandBehind'
      BY <2>2, <3>1 DEF MenuInv, MenuTypes, CommandBehind
    <3>3. Rebinding /\ (step' = "start" => reading \in Paths) /\ step' \in {"waiting", "discarding", "select", "start"}
      BY <2>1 DEF MenuInv, MenuTypes, AnyPath, Rebinding
    <3>4. previous' # 0 => step' = "waiting"
      BY <2>1 DEF MenuInv, BindingSteps
    <3>5. step' = "discarding" => step = "place"
      BY <2>1
    <3>6. BindingSteps'
      BY <3>1, <3>3, <3>4, <3>5 DEF MenuInv, BindingSteps, Rebinding
    <3> QED
      BY <3>2, <3>6
  <2>4. Placement'
    <3> SUFFICES ASSUME NEW j \in Readers, menus'[j] # NoProxy PROVE j = built' /\ Held(j)'
      BY DEF Placement
    <3>1. menus[j] # NoProxy /\ j = built /\ j # 0 /\ Held(j) /\ menu = 0
      <4>1. menus[j] # NoProxy
        BY <2>2
      <4>2. step \in {"previous", "waiting", "place", "discarding"}
        BY <2>1
      <4> QED
        BY <4>1, <4>2 DEF MenuInv, Placement, BindingSteps, Rebinding, Readers
    <3>2. step \in {"previous", "waiting"} => previous = j
      BY <3>1 DEF Held
    <3>3. step \in {"waiting", "discarding"} => i = j
      BY <3>1, <3>2 DEF i
    <3>4. step \notin {"waiting", "discarding"}
      BY <2>1, <2>2, <3>1, <3>3
    <3> QED
      BY <2>1, <3>1, <3>2, <3>4 DEF Held
  <2> QED
    BY <2>2, <2>3, <2>4 DEF MenuInv
<1>4. CASE StartMenu
  <2> DEFINE i == built + 1
             n == NewProxy(reading)
  <2>1. /\ step = "start" /\ step' = "place" /\ built < MaxMenus
        /\ built' = built + 1 /\ menus' = [menus EXCEPT ![built'] = n]
        /\ UNCHANGED <<life, closing, reading, path, tree, menu, previous, drawn, cmd>>
    BY <1>4 DEF StartMenu
  <2>2. /\ reading \in Paths /\ menu = 0 /\ previous = 0
        /\ \A j \in Readers : menus[j] = NoProxy
        /\ built \in Nat /\ i \in Readers /\ i \in 0..MaxMenus
    BY <2>1, MenuAssumption DEF MenuInv, MenuTypes, BindingSteps, Rebinding, Placement, Held, Readers
  <2>3. n \in ReaderType /\ menus \in [Readers -> ReaderType]
    <3>1. menus[i] \in ReaderType /\ menus \in [Readers -> ReaderType]
      BY <2>2 DEF MenuInv, MenuTypes
    <3> QED
      BY <2>2, <3>1, ReaderFields DEF AnyPath
  <2>4. /\ n.path = reading /\ n.wake /\ n.loop = "select" /\ n.revision = 0
        /\ n.signals = {}
    BY DEF NewProxy
  <2> HIDE DEF n
  <2>5. MenuTypes' /\ BindingSteps'
    BY <2>1, <2>2, <2>3 DEF MenuInv, MenuTypes, BindingSteps, Rebinding
  <2>6. CommandBehind' /\ drawn.by # i
    BY <2>1, <2>2 DEF MenuInv, MenuTypes, CommandBehind, DrawnType
  <2>7. menus'[i] = n /\ \A j \in Readers : j # i => menus'[j] = NoProxy
    BY <2>1, <2>2, <2>3
  <2>8. Placement'
    BY <2>1, <2>7 DEF Placement, Held
  <2>9. Knowledge'
    <3> SUFFICES ASSUME NEW j \in Readers, j = i
                 PROVE  (NotAhead(j) /\ DrawnBehind(j) /\ TreeOnItsWay(j))'
      BY <2>7 DEF Knowledge
    <3>1. tree[reading].rev \in Nat
      BY <2>2 DEF MenuInv, MenuTypes, TreeType
    <3> QED
      BY <2>1, <2>2, <2>4, <2>6, <2>7, <3>1 DEF NotAhead, DrawnBehind, TreeOnItsWay
  <2> QED
    BY <2>5, <2>6, <2>8, <2>9 DEF MenuInv
<1>5. CASE StartMenuFails \/ PlaceMenu
  <2>1. /\ step \in {"start", "place"} /\ step' = "select"
        /\ \/ menu' = menu /\ step = "start"
           \/ menu' = built /\ step = "place" /\ life = "table"
        /\ UNCHANGED <<life, closing, reading, path, tree, menus, built, previous, drawn, cmd>>
    <3>1. CASE StartMenuFails
      BY <3>1 DEF StartMenuFails
    <3>2. CASE PlaceMenu
      BY <3>2 DEF PlaceMenu, MayPlace, InTable
    <3> QED
      BY <1>5, <3>1, <3>2
  <2>2. MenuTypes' /\ BindingSteps' /\ CommandBehind'
    BY <2>1 DEF MenuInv, MenuTypes, BindingSteps, Rebinding, CommandBehind
  <2>3. Placement'
    BY <2>1 DEF MenuInv, Placement, Held, BindingSteps, Rebinding, Readers
  <2> QED
    BY <2>1, <2>2, <2>3 DEF MenuInv, Knowledge, NotAhead, DrawnBehind, TreeOnItsWay, Tells, Current
<1> QED
  BY <1>1, <1>2, <1>4, <1>5 DEF Binder

\* A worker begins without a reader.
LEMMA MenuInitInv == WInit => MenuInv
<1> SUFFICES ASSUME WInit PROVE MenuInv
  OBVIOUS
<1> USE DEF WInit, WorkerInit, MenuInit
<1>1. MenuTypes
  <2>1. NoProxy \in ReaderType
    BY DEF NoProxy, NoTree, ReaderType, TreeType, AnyPath
  <2>2. menus \in [Readers -> ReaderType]
    BY <2>1
  <2>3. tree \in [Paths -> TreeType] /\ drawn \in DrawnType
    BY DEF Undrawn, DrawnType, TreeType, AnyPath
  <2>4. 0 \in 0..MaxMenus
    BY MenuAssumption
  <2> QED
    BY <2>2, <2>3, <2>4 DEF MenuTypes, NoCommand, Undrawn, AnyPath
<1>2. BindingSteps /\ CommandBehind
  BY DEF BindingSteps, Rebinding, CommandBehind, Undrawn, NoCommand
<1>3. Placement /\ Knowledge
  BY DEF Placement, Knowledge
<1> QED
  BY <1>1, <1>2, <1>3 DEF MenuInv

\* Every step of the worker keeps it.
LEMMA MenuStep == MenuInv /\ [WNext]_wvars => MenuInv'
<1> SUFFICES ASSUME MenuInv, [WNext]_wvars PROVE MenuInv'
  OBVIOUS
<1>1. ASSUME NEW i \in Readers, ReaderStep(i) \/ Answer(i) \/ CallFails(i)
      PROVE  MenuInv'
  BY <1>1, ReaderKeeps, PublishKeeps DEF ReaderStep
<1> QED
  BY <1>1, MenuCases, ApartKeeps, BinderKeeps, ClosingKeeps, CommandKeeps, TreeKeeps, PathKeeps

\* The invariant holds of every state.
LEMMA MenuAlways == WSpec => []MenuInv
BY MenuInitInv, MenuStep, WSafety, PTL

\* run.go, bindMenu and closeWorker: however often the path changes, no reader
\* but the one built last is there, bindMenu or closeWorker has it to close, and a
\* reader started between two sections of the lock is closed too.
THEOREM WorkerNoMenuLeak == WSpec => []NoMenuLeak
<1>1. MenuInv => NoMenuLeak
  BY DEF MenuInv, BindingSteps, Placement, Held, NoMenuLeak
<1> QED
  BY <1>1, MenuAlways, PTL

\* menu/proxy.go, trigger, handle and publish: collapsing signals and skipping
\* superseded layouts loses no change of the tree.
THEOREM WorkerNoLostLayout == WSpec => []NoLostLayout
<1>1. MenuInv => NoLostLayout
  <2> SUFFICES ASSUME MenuInv, NEW i \in Readers,
                      menus[i].path # NoPath, ~menus[i].stop, ~closing,
                      menus[i].loop = "select", ~menus[i].wake, menus[i].signals = {},
                      ~menus[i].failed
               PROVE  drawn = Current(i)
    BY DEF NoLostLayout, Current
  <2>1. menus[i] # NoProxy
    BY DEF NoProxy
  <2>2. TreeOnItsWay(i) /\ ~Tells(i)
    BY <2>1 DEF MenuInv, Knowledge, Tells
  <2> QED
    BY <2>2 DEF TreeOnItsWay
<1> QED
  BY <1>1, MenuAlways, PTL

\* run.go, bindMenu, and menu/proxy.go, publish: no step takes the owner back to
\* the tree of a reader that was replaced, or to an older tree of one reader.
THEOREM WorkerMenuForward == WSpec => MenuForward
<1> DEFINE Forward ==
      drawn' # Undrawn => \/ drawn'.by > drawn.by
                          \/ drawn'.by = drawn.by /\ drawn'.rev >= drawn.rev
                                                  /\ drawn'.ver >= drawn.ver
<1>1. ASSUME MenuInv, [WNext]_wvars PROVE Forward
  <2>1. CASE drawn' = drawn
    BY <1>1, <2>1 DEF MenuInv, MenuTypes, DrawnType
  <2>2. CASE \E i \in Readers : Publish(i)
    BY <1>1, <2>2, PublishForward
  <2>3. CASE RetireItem
    BY <2>3 DEF RetireItem
  <2>4. drawn' = drawn \/ (\E i \in Readers : Publish(i)) \/ RetireItem
    <3>1. Apart \/ PathChanges \/ Commanding \/ TreeChanges => drawn' = drawn
      BY DEF Apart, menuVars, PathChanges, Advertise, Commanding, Click, menuProxy, check, event,
             AboutToShow, Command, TreeChanges, LayoutUpdated, ItemsPropertiesUpdated, ChangeTree
    <3>2. Binder => drawn' = drawn
      BY DEF Binder, bindMenu, ClosePrevious, PreviousClosed, StartMenu, StartMenuFails, PlaceMenu,
             DiscardMenu, MenuDiscarded
    <3>3. ClosingMenus => drawn' = drawn \/ RetireItem
      BY DEF ClosingMenus, CloseMenu, MenuClosed
    <3>4. ASSUME NEW i \in Readers, ReaderStep(i) \/ Answer(i) \/ CallFails(i)
          PROVE  drawn' = drawn \/ Publish(i)
      BY <3>4 DEF ReaderStep, PumpSignal, PumpStop, LoopWake, LoopStop, Install, Answer, CallFails, Only
    <3> QED
      BY <1>1, <3>1, <3>2, <3>3, <3>4, MenuCases
  <2> QED
    BY <2>1, <2>2, <2>3, <2>4
<1>2. MenuInv /\ [WNext]_wvars => [Forward]_<<workerVars, menuVars>>
  BY <1>1
<1> QED
  BY <1>2, MenuAlways, WSafety, PTL DEF MenuForward

\* menu/proxy.go, check: when a command passes at the reader it was drawn from,
\* that reader's tree of that revision is what is shown, and it is the last built.
THEOREM WorkerSupersededRefused == WSpec => SupersededRefused
<1> DEFINE Refused ==
      cmd.at = "found" /\ cmd'.at = "passed" /\ cmd.to = cmd.shown.by =>
          drawn.by = cmd.to /\ drawn.rev = cmd.shown.rev /\ built = cmd.to
<1>1. ASSUME MenuInv, [WNext]_wvars, cmd.at = "found", cmd'.at = "passed", cmd.to = cmd.shown.by
      PROVE  drawn.by = cmd.to /\ drawn.rev = cmd.shown.rev /\ built = cmd.to
  <2>1. check
    <3>1. CASE Commanding
      BY <1>1, <3>1 DEF Commanding, Click, menuProxy, check, event, AboutToShow, Command
    <3>2. ~Commanding => UNCHANGED cmd
      <4>1. Apart \/ PathChanges \/ TreeChanges \/ Binder \/ ClosingMenus => UNCHANGED cmd
        BY DEF Apart, menuVars, PathChanges, Advertise, TreeChanges, LayoutUpdated,
               ItemsPropertiesUpdated, ChangeTree, Binder, bindMenu, ClosePrevious, PreviousClosed,
               StartMenu, StartMenuFails, PlaceMenu, DiscardMenu, MenuDiscarded,
               ClosingMenus, CloseMenu, MenuClosed, RetireItem
      <4>2. ASSUME NEW i \in Readers, ReaderStep(i) \/ Answer(i) \/ CallFails(i)
            PROVE  UNCHANGED cmd
        BY <4>2 DEF ReaderStep, PumpSignal, PumpStop, LoopWake, LoopStop, Install, Publish, Answer,
                    CallFails, Only
      <4> QED
        BY <1>1, <4>1, <4>2, MenuCases
    <3> QED
      BY <1>1, <3>1, <3>2
  <2> DEFINE i == cmd.to
  <2>2. i \in Readers /\ menus[i].revision = cmd.shown.rev /\ ~menus[i].stop
    BY <1>1, <2>1, MenuAssumption DEF check, Command, NoCommand, MenuInv, MenuTypes, Readers
  <2>3. menus[i] # NoProxy
    <3>1. NoProxy.stop
      BY DEF NoProxy
    <3> QED
      BY <2>2, <3>1
  <2>4. i = built /\ life # "retired" /\ DrawnBehind(i)
    BY <1>1, <2>2, <2>3 DEF MenuInv, BindingSteps, Placement, Held, Knowledge
  <2>5. cmd.shown.by = drawn.by /\ cmd.shown.rev <= drawn.rev
    BY <1>1, <2>4 DEF MenuInv, MenuTypes, CommandBehind, DrawnType
  <2>6. drawn.rev <= menus[i].revision
    BY <1>1, <2>4, <2>5 DEF DrawnBehind
  <2>7. drawn.rev = cmd.shown.rev
    BY <1>1, <2>2, <2>5, <2>6 DEF MenuInv, MenuTypes, DrawnType, ReaderType
  <2> QED
    BY <1>1, <2>4, <2>5, <2>7
<1>2. MenuInv /\ [WNext]_wvars => [Refused]_<<workerVars, menuVars>>
  BY <1>1
<1> QED
  BY <1>2, MenuAlways, WSafety, PTL DEF SupersededRefused

====
