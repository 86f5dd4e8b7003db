---- MODULE Tray ----
(***************************************************************************)
(* The daemon behind the socket: the watcher relationship                  *)
(* (internal/watcher), the table of per-item workers (internal/app) and    *)
(* the membership they give the state owner.                               *)
(*                                                                         *)
(* A goroutine is a thread with a program, the sequence of operations it   *)
(* has still to run: the registry calls its observer with the lock         *)
(* released, so that one call is several steps and those of different      *)
(* goroutines interleave.  An item's reader (item.Proxy) is seen from      *)
(* outside: it starts, delivers readings or failures, and stops when it is *)
(* closed; the module ItemProxy opens it.  The bus, the applications and   *)
(* an external watcher are external.                                       *)
(***************************************************************************)
EXTENDS StateOwner, FiniteSetsExt, SequencesExt

CONSTANTS
    Owners,         \* unique bus names; one never returns once it has left
    OwnerOf,        \* function: the bus name that owns an address
    Calls,          \* registration calls that may be in progress together
    MaxRelations,   \* bound: watcher relationships in a run
    MaxStarts,      \* bound: times an external watcher comes up
    MaxErrors       \* bound: failures one proxy reports

ASSUME TrayAssumption ==
    /\ OwnerOf \in [Addresses -> Owners]
    /\ MaxRelations \in Nat /\ MaxStarts \in Nat /\ MaxErrors \in Nat

VARIABLES
    alive,          \* the unique names on the bus
    ext,            \* the external watcher: whether it is up, its items
    rel,            \* the relationship: Server or client, and its signal channel
    relations,      \* number of relationships so far
    run,            \* where Watcher.Run is
    todo,           \* per thread: what is left of its program
    proxies,        \* every item.Proxy made, by number
    workers,        \* App.workers: from key to the number of its proxy
    app,            \* App: "running", "closing", "cancelled", "done"
    ctxDone         \* App.ctx is done, by a signal or by cancel

watcherVars == <<rel, relations, run>>
appVars == <<app, ctxDone>>
tvars == <<vars, alive, ext, watcherVars, todo, proxies, workers, appVars>>

----
(* Threads and their programs.                                             *)

\* Bound: one proxy for each generation of each relationship.
ProxyIds == 1..(MaxRelations * MaxGeneration)

Main   == <<"main">>        \* Watcher.Run
Pump   == <<"pump">>        \* pump, of the server or of the client
Closer == <<"closer">>      \* App.Close
Call(c) == <<"call", c>>    \* a registration, on a goroutine of its own
Drop(p, n) == <<"drop", p, n>>  \* onItem's go dropWorker

Threads ==
    {Main, Pump, Closer} \cup {Call(c) : c \in Calls}
        \cup {Drop(p, n) : p \in ProxyIds, n \in 1..MaxErrors}

OnKey(op, k)  == [op |-> op, key |-> k]
OnAddr(op, a) == [op |-> op, addr |-> a]
OnProxy(op, p) == [op |-> op, proxy |-> p]
Plain(op)     == [op |-> op]

Idle(t) == todo[t] = <<>>
Op(t) == Head(todo[t])
At(t, op) == ~Idle(t) /\ Op(t).op = op

\* Finish the operation at hand; `more` comes before the rest.
Continue(t, more) == todo' = [todo EXCEPT ![t] = more \o Tail(@)]

Pending(op, k) == \E t \in Threads : \E i \in DOMAIN todo[t] : todo[t][i] = OnKey(op, k)

----
(* The registries: Server.items and client.items.                          *)

NoRelation == [mode |-> "none", registry |-> [a \in {} |-> 1], generation |-> 0,
               signals |-> <<>>, gone |-> FALSE]

RegKey(a) == [addr |-> a, gen |-> rel.registry[a]]

Registered == DOMAIN rel.registry

WithoutAddrs(S) == [b \in Registered \ S |-> rel.registry[b]]

\* A fresh generation for an address.
Numbered(a) ==
    [rel EXCEPT !.generation = @ + 1,
                !.registry = [b \in Registered \cup {a} |->
                                 IF b = a THEN rel.generation + 1 ELSE rel.registry[b]]]

NewKey(a) == [addr |-> a, gen |-> rel.generation + 1]

\* What a signal adds to the channel of the relationship, if there is one.
Signalled(r, s) == [r EXCEPT !.signals = Append(@, s)]

\* Server.register: the address may come from a path, with no question to
\* the bus, or from a name that must resolve to a live owner.  The observer
\* is called after the lock is released.  Close does not wait for a call in
\* progress, which still finds the closed server's registry.
register(t) ==
    LET a == Op(t).addr IN
    /\ At(t, "register")
    /\ \/ /\ a \notin Registered
          /\ rel.generation < MaxGeneration
          /\ rel' = Numbered(a)
          /\ Continue(t, <<OnKey("added", NewKey(a))>>)
       \/ /\ \/ a \in Registered
             \/ OwnerOf[a] \notin alive         \* the name does not resolve
          /\ Continue(t, <<>>)
          /\ rel' = rel
    /\ UNCHANGED <<vars, alive, ext, relations, run, proxies, workers, appVars>>

\* client.add: an address that is listed again takes a fresh generation.
clientAdd(t) ==
    LET a == Op(t).addr IN
    /\ At(t, "client-add")
    /\ rel.generation < MaxGeneration
    /\ rel' = Numbered(a)
    /\ Continue(t, (IF a \in Registered THEN <<OnKey("removed", RegKey(a))>> ELSE <<>>)
                      \o <<OnKey("added", NewKey(a))>>)
    /\ UNCHANGED <<vars, alive, ext, relations, run, proxies, workers, appVars>>

clientRemove(t) ==
    LET a == Op(t).addr IN
    /\ At(t, "client-remove")
    /\ rel' = [rel EXCEPT !.registry = WithoutAddrs({a})]
    /\ Continue(t, IF a \in Registered THEN <<OnKey("removed", RegKey(a))>> ELSE <<>>)
    /\ UNCHANGED <<vars, alive, ext, relations, run, proxies, workers, appVars>>

\* ItemRemoved for a set of addresses, in the order the map yields them.
RemovalsOf(S) == {[i \in DOMAIN s |-> OnKey("removed", RegKey(s[i]))] : s \in SetToSeqs(S)}

----
(* pump: one signal at a time.                                             *)

OwnedBy(o) == {a \in Registered : OwnerOf[a] = o}

\* Server.handleNameOwnerChanged and removeOwner.
handleNameOwnerChanged(s) ==
    /\ rel.mode = "owner" /\ s.op = "left"
    /\ \E removals \in RemovalsOf(OwnedBy(s.owner)) :
          todo' = [todo EXCEPT ![Pump] = removals]
    /\ rel' = [rel EXCEPT !.signals = Tail(@), !.registry = WithoutAddrs(OwnedBy(s.owner))]

\* client.handle: registrations come one by one; only a watcher that leaves
\* without a successor is noticed (markGone).
handle(s) ==
    /\ rel.mode = "attached"
    /\ \/ /\ s.op \in {"client-add", "client-remove"}
          /\ todo' = [todo EXCEPT ![Pump] = <<s>>]
          /\ rel' = [rel EXCEPT !.signals = Tail(@)]
       \/ /\ s.op = "gone"
          /\ rel' = [rel EXCEPT !.signals = Tail(@), !.gone = TRUE]
          /\ UNCHANGED todo
       \/ /\ s.op = "left"
          /\ rel' = [rel EXCEPT !.signals = Tail(@)]
          /\ UNCHANGED todo

pump ==
    /\ Idle(Pump) /\ rel.signals # <<>>
    /\ handleNameOwnerChanged(Head(rel.signals)) \/ handle(Head(rel.signals))
    /\ UNCHANGED <<vars, alive, ext, relations, run, proxies, workers, appVars>>

----
(* Watcher.Run and serveOnce.                                              *)

Quiet == UNCHANGED <<vars, alive, proxies, workers, appVars>>

\* Serve acquires the name, which nobody owns; the service is its own host.
Serve ==
    /\ run = "choose" /\ ~ctxDone
    /\ ~ext.up
    /\ relations < MaxRelations
    /\ rel' = [NoRelation EXCEPT !.mode = "owner"]
    /\ relations' = relations + 1
    /\ run' = "serving"
    /\ Quiet /\ UNCHANGED <<ext, todo>>

\* client.attach subscribes and starts its pump first.
attach ==
    /\ run = "choose" /\ ~ctxDone
    /\ ext.up
    /\ relations < MaxRelations
    /\ rel' = [NoRelation EXCEPT !.mode = "attached"]
    /\ relations' = relations + 1
    /\ run' = "attaching"
    /\ todo' = [todo EXCEPT ![Main] = <<Plain("list")>>]
    /\ Quiet /\ UNCHANGED ext

\* It registers as host and reads the registered items: both fail when the
\* watcher has left.
list ==
    /\ At(Main, "list")
    /\ IF ext.up
       THEN /\ \E s \in SetToSeqs(ext.items) :
                  Continue(Main, [i \in DOMAIN s |-> OnAddr("client-add", s[i])])
            /\ run' = run
       ELSE /\ Continue(Main, <<>>)
            /\ run' = "closing"
    /\ Quiet /\ UNCHANGED <<ext, rel, relations>>

attached ==
    /\ run = "attaching" /\ Idle(Main)
    /\ run' = "serving"
    /\ Quiet /\ UNCHANGED <<ext, rel, relations, todo>>

\* serveOnce leaves its select.
lost ==
    /\ run = "serving"
    /\ ctxDone \/ rel.gone
    /\ run' = "closing"
    /\ Quiet /\ UNCHANGED <<ext, rel, relations, todo>>

\* close waits for the pump.  The client reports every item it still knows
\* as removed (drain); the server releases the name and reports nothing.
closeRelation ==
    /\ run = "closing" /\ Idle(Main) /\ Idle(Pump)
    /\ run' = "drained"
    /\ \/ /\ rel.mode = "attached"
          /\ rel' = NoRelation
          /\ \E removals \in RemovalsOf(Registered) :
                todo' = [todo EXCEPT ![Main] = removals]
       \/ /\ rel.mode = "owner"
          /\ rel' = [rel EXCEPT !.mode = "closed", !.signals = <<>>]
          /\ UNCHANGED todo
    /\ Quiet /\ UNCHANGED <<ext, relations>>

\* Run goes round, or returns once its context is cancelled.
again ==
    /\ \/ run = "drained" /\ Idle(Main)
       \/ run = "choose" /\ ctxDone
    /\ run' = IF ctxDone THEN "ended" ELSE "choose"
    /\ Quiet /\ UNCHANGED <<ext, rel, relations, todo>>

----
(* App as the watcher's observer.                                          *)

OwnerAdd(k) ==
    IF Accepting /\ (Replaces(k) \/ Fits(k)) THEN Add(k) ELSE UNCHANGED vars

OwnerRemove(k) ==
    IF Accepting /\ Current(k) THEN RemoveItem(k) ELSE UNCHANGED vars

AppOnly == UNCHANGED <<alive, ext, watcherVars>>

\* ItemAdded, up to owner.Add.
ItemAddedCall(t) ==
    /\ At(t, "added")
    /\ IF app = "running"
       THEN /\ OwnerAdd(Op(t).key)
            /\ Continue(t, <<OnKey("insert", Op(t).key)>>)
       ELSE /\ Continue(t, <<>>)
            /\ UNCHANGED vars
    /\ AppOnly /\ UNCHANGED <<proxies, workers, appVars>>

Unmade == {p \in ProxyIds : proxies[p].status = "none"}

NextProxy == CHOOSE p \in Unmade : TRUE

\* Faulty variant: `closing` is not looked at again under the lock.
MayInsert_Always == TRUE

MayInsert == app = "running"

\* ItemAdded, the worker's entry in the table.
insert(t) ==
    LET k == Op(t).key IN
    /\ At(t, "insert")
    /\ IF MayInsert
       THEN /\ Unmade # {}
            /\ proxies' = [proxies EXCEPT ![NextProxy] = [key |-> k, status |-> "new", errs |-> 0]]
            /\ workers' = [j \in DOMAIN workers \cup {k} |-> IF j = k THEN NextProxy ELSE workers[j]]
            /\ Continue(t, <<OnProxy("start", NextProxy)>>)
       ELSE /\ Continue(t, <<>>)
            /\ UNCHANGED <<proxies, workers>>
    /\ AppOnly /\ UNCHANGED <<vars, appVars>>

\* Faulty variant: a Start that the bus refuses is only ignored.
start_Ignored(t) ==
    LET p == Op(t).proxy IN
    /\ At(t, "start")
    /\ \/ proxies' = [proxies EXCEPT ![p].status = IF @ = "new" THEN "running" ELSE "stopping"]
       \/ UNCHANGED proxies
    /\ Continue(t, <<>>)
    /\ AppOnly /\ UNCHANGED <<vars, workers, appVars>>

\* Proxy.Start.  If the proxy was closed before it started, Close did not
\* wait for anything: the goroutines now start and find `stop` closed.  A
\* Start the bus refuses drops the worker.
start(t) ==
    LET p == Op(t).proxy IN
    /\ At(t, "start")
    /\ \/ /\ proxies' = [proxies EXCEPT ![p].status = IF @ = "new" THEN "running" ELSE "stopping"]
          /\ Continue(t, <<>>)
       \/ /\ Continue(t, <<OnKey("delete", proxies[p].key)>>)
          /\ UNCHANGED proxies
    /\ AppOnly /\ UNCHANGED <<vars, workers, appVars>>

\* Proxy.Close, up to the wait for its goroutines.
Stopped(status) ==
    CASE status = "running" -> "stopping" [] status = "new" -> "closed" [] OTHER -> status

\* ItemRemoved and dropWorker, under App.mu, and the start of closeWorker.
dropWorker(t) ==
    LET k == Op(t).key IN
    /\ At(t, "removed") \/ At(t, "delete")
    /\ workers' = [j \in DOMAIN workers \ {k} |-> workers[j]]
    /\ proxies' = [p \in ProxyIds |->
                      IF k \in DOMAIN workers /\ p = workers[k]
                      THEN [proxies[p] EXCEPT !.status = Stopped(@)] ELSE proxies[p]]
    /\ Continue(t,
            (IF k \in DOMAIN workers THEN <<OnProxy("wait", workers[k])>> ELSE <<>>)
            \o (IF app = "running" THEN <<OnKey("retire", k)>> ELSE <<>>))
    /\ AppOnly /\ UNCHANGED <<vars, appVars>>

\* Proxy.Close waits for its goroutines.
waitProxy(t) ==
    /\ At(t, "wait")
    /\ proxies[Op(t).proxy].status \notin {"running", "stopping"}
    /\ Continue(t, <<>>)
    /\ AppOnly /\ UNCHANGED <<vars, proxies, workers, appVars>>

\* dropWorker's owner.Remove.
retire(t) ==
    /\ At(t, "retire")
    /\ OwnerRemove(Op(t).key)
    /\ Continue(t, <<>>)
    /\ AppOnly /\ UNCHANGED <<proxies, workers, appVars>>

----
(* The proxies' goroutines, and onItem.                                    *)

Reading(p) == proxies[p].status \in {"running", "stopping"}

\* A reading is delivered.  It may have been taken before the owner left, and go
\* to a state owner that was looked up before the service began to close.
onItem(p, item) ==
    /\ Reading(p)
    /\ Update(proxies[p].key, item)
    /\ AppOnly /\ UNCHANGED <<todo, proxies, workers, appVars>>

\* Faulty variant: a failed read leaves the item as it is.
onItemErr_Kept(p) ==
    /\ Reading(p) /\ proxies[p].errs < MaxErrors
    /\ proxies' = [proxies EXCEPT ![p].errs = @ + 1]
    /\ AppOnly /\ UNCHANGED <<vars, todo, workers, appVars>>

\* A failed read, or the owner seen to leave: go dropWorker.
onItemErr(p) ==
    /\ Reading(p) /\ proxies[p].errs < MaxErrors
    /\ proxies' = [proxies EXCEPT ![p].errs = @ + 1]
    /\ todo' = [todo EXCEPT ![Drop(p, proxies[p].errs + 1)] = <<OnKey("delete", proxies[p].key)>>]
    /\ AppOnly /\ UNCHANGED <<vars, workers, appVars>>

\* The owner of a proxy has left: its next call, or the signal, reports it.
OwnerLost(p) ==
    /\ Reading(p) /\ proxies[p].errs = 0
    /\ OwnerOf[proxies[p].key.addr] \notin alive
    /\ onItemErr(p)

\* The goroutines of a closed proxy return.  Its pump does so only then; its
\* loop may have ended before, with the context.
ProxyStops(p) ==
    /\ proxies[p].status = "stopping"
    /\ proxies' = [proxies EXCEPT ![p].status = "closed"]
    /\ AppOnly /\ UNCHANGED <<vars, todo, workers, appVars>>

----
(* App.Close and unwind.                                                   *)

\* SIGINT or SIGTERM ends the context of everything at once; App.Run sees it
\* and calls Close.
Interrupt ==
    /\ app = "running"
    /\ ctxDone' = TRUE
    /\ AppOnly /\ UNCHANGED <<vars, todo, proxies, workers, app>>

\* Close may also come first, when the presenter server fails.
CloseApp ==
    /\ app = "running"
    /\ app' = "closing"
    /\ todo' = [todo EXCEPT ![Closer] = <<Plain("close-server")>>]
    /\ AppOnly /\ UNCHANGED <<vars, proxies, workers, ctxDone>>

RunCloses == ctxDone /\ CloseApp

\* The presenter server's Close returns (module Presenter; it may wait for ever).
serverClosed ==
    /\ At(Closer, "close-server")
    /\ Continue(Closer, <<Plain("stop-workers")>>)
    /\ AppOnly /\ UNCHANGED <<vars, proxies, workers, appVars>>

stopWorkers ==
    LET stopped == {workers[k] : k \in DOMAIN workers} IN
    /\ At(Closer, "stop-workers")
    /\ workers' = [k \in {} |-> 1]
    /\ proxies' = [p \in ProxyIds |->
                      IF p \in stopped THEN [proxies[p] EXCEPT !.status = Stopped(@)] ELSE proxies[p]]
    /\ \E s \in SetToSeqs(stopped) :
          Continue(Closer, [i \in DOMAIN s |-> OnProxy("wait", s[i])] \o <<Plain("cancel")>>)
    /\ AppOnly /\ UNCHANGED <<vars, appVars>>

\* Faulty variant: the watcher is waited for before it is told to stop.
cancel_AfterEnd ==
    /\ At(Closer, "cancel") /\ run = "ended"
    /\ app' = "cancelled"
    /\ ctxDone' = TRUE
    /\ Continue(Closer, <<Plain("ended")>>)
    /\ AppOnly /\ UNCHANGED <<vars, proxies, workers>>

cancel ==
    /\ At(Closer, "cancel")
    /\ app' = "cancelled"
    /\ ctxDone' = TRUE
    /\ Continue(Closer, <<Plain("ended")>>)
    /\ AppOnly /\ UNCHANGED <<vars, proxies, workers>>

\* Run has returned: close the bus, then the owner.
unwound ==
    /\ At(Closer, "ended") /\ run = "ended"
    /\ app' = "done"
    /\ Close
    /\ Continue(Closer, <<>>)
    /\ AppOnly /\ UNCHANGED <<proxies, workers, ctxDone>>

OwnerExit == Exit /\ AppOnly /\ UNCHANGED <<todo, proxies, workers, appVars>>

----
(* The bus, the applications and the external watcher (external).          *)

BusOnly == UNCHANGED <<vars, relations, run, proxies, workers, appVars>>

\* A signal reaches the channel while a relationship is open.
Emit(s) == rel' = IF rel.mode \in {"none", "closed"} THEN rel ELSE Signalled(rel, s)

OwnerLeaves(o) ==
    /\ o \in alive
    /\ alive' = alive \ {o}
    /\ Emit([op |-> "left", owner |-> o])
    /\ BusOnly /\ UNCHANGED <<ext, todo>>

\* An application registers an address with this service.
CallRegister(c, a) ==
    /\ Idle(Call(c)) /\ OwnerOf[a] \in alive
    /\ rel.mode = "owner"
    /\ rel.generation + Cardinality({d \in Calls : At(Call(d), "register")}) < MaxGeneration
    /\ todo' = [todo EXCEPT ![Call(c)] = <<OnAddr("register", a)>>]
    /\ BusOnly /\ UNCHANGED <<alive, ext, rel>>

NoWatcher(n) == [up |-> FALSE, items |-> {}, starts |-> n]
NewWatcher(n) == [NoWatcher(n) EXCEPT !.up = TRUE]

WatcherStarts ==
    /\ ~ext.up /\ rel.mode # "owner" /\ ext.starts < MaxStarts
    /\ ext' = NewWatcher(ext.starts + 1)
    /\ BusOnly /\ UNCHANGED <<alive, rel, todo>>

WatcherLeaves ==
    /\ ext.up
    /\ ext' = NoWatcher(ext.starts)
    /\ Emit(Plain("gone"))
    /\ BusOnly /\ UNCHANGED <<alive, todo>>

\* The name passes to a watcher that was queued for it and has no items.
WatcherReplaced ==
    /\ ext.up /\ ext.items # {}
    /\ ext' = [ext EXCEPT !.items = {}]
    /\ BusOnly /\ UNCHANGED <<alive, rel, todo>>

\* Whether the run has generations left for one more registration, which a
\* client may come to hear of twice while it attaches.
Room ==
    LET listing == IF At(Main, "list") THEN 1 + Cardinality(ext.items) ELSE 0 IN
    rel.generation + Len(rel.signals) + Len(todo[Main]) + Len(todo[Pump]) + listing < MaxGeneration

WatcherAdds(a) ==
    /\ ext.up /\ a \notin ext.items /\ OwnerOf[a] \in alive
    /\ rel.mode = "attached" => Room
    /\ ext' = [ext EXCEPT !.items = @ \cup {a}]
    /\ Emit(OnAddr("client-add", a))
    /\ BusOnly /\ UNCHANGED <<alive, todo>>

WatcherRemoves(a) ==
    /\ ext.up /\ a \in ext.items
    /\ ext' = [ext EXCEPT !.items = @ \ {a}]
    /\ Emit(OnAddr("client-remove", a))
    /\ BusOnly /\ UNCHANGED <<alive, todo>>

----
TInit ==
    /\ Init
    /\ alive = Owners
    /\ ext = NoWatcher(0)
    /\ rel = NoRelation
    /\ relations = 0
    /\ run = "choose"
    /\ todo = [t \in Threads |-> <<>>]
    /\ proxies = [p \in ProxyIds |-> [key |-> [addr |-> Absent, gen |-> 0], status |-> "none", errs |-> 0]]
    /\ workers = [k \in {} |-> 1]
    /\ app = "running"
    /\ ctxDone = FALSE

Step(t) ==
    \/ register(t) \/ clientAdd(t) \/ clientRemove(t)
    \/ ItemAddedCall(t) \/ insert(t) \/ start(t)
    \/ dropWorker(t) \/ waitProxy(t) \/ retire(t)

Relationship == Serve \/ attach \/ list \/ attached \/ lost \/ closeRelation \/ again

Unwind == stopWorkers \/ cancel \/ unwound

Bus ==
    \/ \E o \in Owners : OwnerLeaves(o)
    \/ \E c \in Calls, a \in Addresses : CallRegister(c, a)
    \/ WatcherStarts \/ WatcherLeaves \/ WatcherReplaced
    \/ \E a \in Addresses : WatcherAdds(a) \/ WatcherRemoves(a)

TNext ==
    \/ \E t \in Threads : Step(t)
    \/ pump \/ Relationship
    \/ \E p \in ProxyIds :
        \/ \E item \in Items : onItem(p, item)
        \/ onItemErr(p) \/ OwnerLost(p) \/ ProxyStops(p)
    \/ Interrupt \/ CloseApp \/ serverClosed \/ Unwind \/ OwnerExit
    \/ Bus

\* Goroutines run on, and a read of an application that has left the bus
\* fails; App.Run waits for the end of the context.  Nothing is assumed of
\* applications, watchers, signals to stop or the presenter server's Close.
TFairness ==
    /\ \A t \in Threads : WF_tvars(Step(t))
    /\ WF_tvars(pump) /\ WF_tvars(Relationship)
    /\ WF_tvars(RunCloses) /\ WF_tvars(Unwind)
    /\ \A p \in ProxyIds : WF_tvars(OwnerLost(p)) /\ WF_tvars(ProxyStops(p))

TSpec == TInit /\ [][TNext]_tvars

FairTSpec == TSpec /\ TFairness

----
(* Properties.                                                             *)

\* App keeps its two tables in step although no lock spans them: whatever
\* the interleaving of ItemAdded, ItemRemoved and failed reads, an item in
\* the state has a worker that reads it, or a thread is about to give it one
\* or to retire it.  Otherwise a tray icon would stay that nothing updates
\* and nothing can remove.
NoOrphanItem ==
    app = "running" =>
        \A a \in Live :
            \/ /\ KeyAt(a) \in DOMAIN workers
               /\ \/ Reading(workers[KeyAt(a)])
                  \/ \E t \in Threads : todo[t] # <<>> /\ Op(t) = OnProxy("start", workers[KeyAt(a)])
            \/ \E op \in {"insert", "removed", "delete", "retire"} : Pending(op, KeyAt(a))

\* README: shutting down "stops the per-item readers".  Once stopWorkers has
\* emptied the table no late ItemAdded puts a worker in it again.
NoWorkerAfterStop ==
    app \notin {"running", "closing"} => workers = [k \in {} |-> 1]

\* removeOwner's comment: "drops every item belonging to a departed owner".
\* However registration, departure and shutdown interleave, in the end
\* neither the state nor the workers keep anything of an owner that left.
DepartedLeave ==
    \A o \in Owners :
        <>[](o \notin alive /\ app = "running" =>
                /\ \A a \in Live : OwnerOf[a] # o
                /\ \A k \in DOMAIN workers : OwnerOf[k.addr] # o)

\* unwind's first wait is over in the end.
ServerCloseReturns == <>[]~At(Closer, "close-server")

\* README: "SIGINT and SIGTERM shut it down".  After the presenter server has been
\* closed, unwind waits for readers and for a watcher that may be waiting for
\* readers itself; none waits for unwind, so that shutdown ends if server.Close
\* returns.  (CloseTerminates of module Presenter: it need not.)
UnwindTerminates == ServerCloseReturns => ((ctxDone \/ app = "closing") ~> app = "done")

\* ItemKey's comment: "a re-registered owner and path pair takes a fresh
\* generation so stale commands cannot reach the replacement".  No two
\* proxies ever read under one key.
KeysNeverReused ==
    \A p, q \in ProxyIds :
        proxies[p].status # "none" /\ proxies[q].status # "none" /\ p # q =>
            proxies[p].key # proxies[q].key

====
