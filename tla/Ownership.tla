---- MODULE Ownership ----
(***************************************************************************)
(* The process identity behind one worker's item (internal/ownership, and  *)
(* inspectOwnership, closeable, reown and Terminate of internal/app).      *)
(* The bus name of the item belongs to a connection made by one process    *)
(* number; the kernel may give the number to another process after that    *)
(* process exited, and the connection may outlive the process.  Process    *)
(* lives are numbered in the order they begin, which is what the start     *)
(* time in /proc/<pid>/stat tells apart.                                   *)
(***************************************************************************)
EXTENDS Worker

CONSTANTS MaxLives,         \* bound: lives of the process number
          MaxTerminates     \* bound: Terminate commands

ASSUME OwnershipAssumption == {MaxLives, MaxTerminates} \subseteq Nat \ {0}

VARIABLES
    proc,       \* the life that has the number now, 0 for nobody
    births,     \* lives so far
    users,      \* whose process each life was: "service" or "other"
    named,      \* the item's bus name is up
    own,        \* worker.own: the life recorded, 0 while ownKnown is false
    inspect,    \* inspectOwnership: "user", "stat", "store", "done"
    found,      \* the life it read
    closeable,  \* what onItem's look at the worker said
    offered,    \* CloseSupported of the published item
    term,       \* the Terminate in progress
    terminates  \* how many so far

ownVars == <<proc, births, users, named, own, inspect, found, closeable, offered, term, terminates>>

procVars == <<proc, births, users, named>>
inspVars == <<inspect, found>>
termVars == <<term, terminates>>

Lives == 1..MaxLives

\* The bus answers with the user of the connection, which life 1 made.
SameUser == users[1] = "service"

----
(* inspectOwnership, on a goroutine of its own.                            *)

\* GetConnectionUnixUser and GetConnectionUnixProcessID.
InspectBus ==
    /\ inspect = "user"
    /\ inspect' = IF named THEN "stat" ELSE "done"
    /\ UNCHANGED <<workerVars, procVars, own, found, closeable, offered, termVars>>

\* readStartTime.
InspectStat ==
    /\ inspect = "stat"
    /\ found' = proc
    /\ inspect' = IF proc = 0 THEN "done" ELSE "store"
    /\ UNCHANGED <<workerVars, procVars, own, closeable, offered, termVars>>

\* The record is stored, then the item read once more, under App.mu.  Faulty
\* variant: nobody asks for that read.
InspectStore_Silent ==
    /\ inspect = "store"
    /\ own' = IF InTable THEN found ELSE own
    /\ inspect' = "done"
    /\ found' = 0
    /\ UNCHANGED <<workerVars, procVars, closeable, offered, termVars>>

InspectStore ==
    /\ inspect = "store"
    /\ own' = IF InTable THEN found ELSE own
    /\ wake' = (wake \/ InTable)
    /\ inspect' = "done"
    /\ found' = 0
    /\ UNCHANGED <<life, closing, step, reading, path, procVars, closeable, offered, termVars>>

----
(* onItem, on the item's reading loop.                                     *)

\* The worker is looked up under the lock, closeable asked after it.
LookCloseable ==
    /\ Look
    /\ closeable' = (life = "table" /\ own # 0 /\ SameUser)
    /\ UNCHANGED <<procVars, own, inspVars, offered, termVars>>

\* owner.Update: nothing once the item is retired.
UpdateOffered ==
    /\ UpdateItem
    /\ offered' = IF life = "retired" THEN offered ELSE closeable
    /\ closeable' = FALSE
    /\ UNCHANGED <<procVars, own, inspVars, termVars>>

----
(* Terminate, on the presenter connection's goroutine.                     *)

NoTerm == [at |-> "none", record |-> 0, before |-> 0, hit |-> 0, reply |-> "none"]

TermStep(from, t) ==
    /\ term.at = from
    /\ term' = t
    /\ UNCHANGED <<workerVars, own, inspVars, closeable, offered>>

\* A refusal, and the end of a wait.
Refuse(r) == [NoTerm EXCEPT !.at = "done", !.reply = r]
Reply(r)  == [term EXCEPT !.at = "done", !.reply = r]

TerminateBegins ==
    /\ terminates < MaxTerminates
    /\ terminates' = terminates + 1
    /\ term.at \in {"none", "done"} /\ TermStep(term.at, [NoTerm EXCEPT !.at = "lookup"])
    /\ UNCHANGED procVars

\* App.closing, the worker, and reown's read of the record.
TerminateLookup ==
    /\ TermStep("lookup", CASE closing -> Refuse("unavailable")
                            [] ~closing /\ life # "table" -> Refuse("stale_item")
                            [] ~closing /\ life = "table" /\ own = 0 -> Refuse("invalid")
                            [] OTHER -> [term EXCEPT !.at = "bus", !.record = own])
    /\ UNCHANGED <<procVars, terminates>>

\* reown's Inspect: the bus ...
ReownBus ==
    /\ TermStep("bus", IF named THEN [term EXCEPT !.at = "stat"] ELSE Refuse("invalid"))
    /\ UNCHANGED <<procVars, terminates>>

\* Faulty variant: the start time is not compared.
Verify_NoStart(recorded, current) == current # 0

\* Verify: user and number are those of one connection and cannot differ.
Verify(recorded, current) == current # 0 /\ recorded = current

\* ... and the start time; Verify and SameUser.
ReownStat ==
    /\ TermStep("stat", IF Verify(term.record, proc) /\ SameUser
                        THEN [term EXCEPT !.at = "signal", !.before = births]
                        ELSE Refuse("invalid"))
    /\ UNCHANGED <<procVars, terminates>>

\* Faulty variant: the reply does not wait for the process.
Signal_NoWait ==
    /\ TermStep("signal", IF proc # 0 /\ users[proc] = "service"
                          THEN [Reply("ok") EXCEPT !.hit = proc]
                          ELSE Refuse("unavailable"))
    /\ UNCHANGED <<procVars, terminates>>

\* The kernel delivers to whoever has the number, refuses the process of
\* another user, and finds nobody when it is free.
Signal ==
    /\ TermStep("signal", IF proc # 0 /\ users[proc] = "service"
                          THEN [term EXCEPT !.at = "wait", !.hit = proc]
                          ELSE Refuse("unavailable"))
    /\ UNCHANGED <<procVars, terminates>>

Alive(record) == proc = record

PollGone ==
    /\ ~Alive(term.record)
    /\ TermStep("wait", Reply("ok"))
    /\ UNCHANGED <<procVars, terminates>>

\* TerminateWait has passed and the last look found it alive.
PollTimeout ==
    /\ Alive(term.record)
    /\ TermStep("wait", Reply("busy"))
    /\ UNCHANGED <<procVars, terminates>>

----
(* Processes and the bus (external).                                       *)

Environment == UNCHANGED <<workerVars, own, inspVars, closeable, offered, termVars>>

ProcessExits ==
    /\ proc # 0
    /\ proc' = 0
    /\ Environment /\ UNCHANGED <<births, users, named>>

NumberReused(u) ==
    /\ proc = 0 /\ births < MaxLives
    /\ births' = births + 1
    /\ proc' = births'
    /\ users' = [users EXCEPT ![births'] = u]
    /\ Environment /\ UNCHANGED named

NameLeaves ==
    /\ named
    /\ named' = FALSE
    /\ Environment /\ UNCHANGED <<proc, births, users>>

----
Users == {"service", "other"}

OwnInit ==
    /\ proc = 1
    /\ births = 1
    /\ users \in [Lives -> Users] /\ \A n \in 2..MaxLives : users[n] = "other"
    /\ named = TRUE
    /\ own = 0
    /\ inspect = "user"
    /\ found = 0
    /\ closeable = FALSE
    /\ offered = FALSE
    /\ term = NoTerm
    /\ terminates = 0

Inspecting == InspectBus \/ InspectStat \/ InspectStore

Terminating == TerminateLookup \/ ReownBus \/ ReownStat \/ Signal \/ PollGone \/ PollTimeout

ProcessSteps == ProcessExits \/ NameLeaves \/ \E u \in Users : NumberReused(u)

----
(* Properties.                                                             *)

\* Terminate's comment: "a replaced owner, a recycled PID, or a cross-UID process
\* is rejected before any signal".  reown's look at the start time rejects every
\* process that had taken the number by then: a signal reaches the recorded
\* process, or one that took the number after the check.
SignalsVerified ==
    term.hit # 0 => term.hit = term.record \/ term.hit > term.before

\* ownership.go, the package comment: "a recycled PID or a replaced owner can
\* never receive a signal meant for the old one."
RecycledNeverHit == term.hit # 0 => term.hit = term.record

\* What Terminate answers is what happened, whatever exits, is reused or
\* leaves during its checks and its wait: ok means the recorded process is
\* gone after one signal, busy that it was signalled, any other answer that
\* nothing was.
OutcomeTrue ==
    term.at = "done" =>
        CASE term.reply = "ok"   -> term.hit # 0 /\ proc # term.record
          [] term.reply = "busy" -> term.hit # 0
          [] OTHER               -> term.hit = 0

\* inspectOwnership's comment: "refresh once so the published item carries the
\* CloseSupported capability deterministically."  When the item's loop rests,
\* close is offered exactly for a recorded process of the service's user.
CloseOffered ==
    InTable /\ step = "select" /\ ~wake => offered = (own # 0 /\ SameUser)

====
