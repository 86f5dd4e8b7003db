---- MODULE Limiter ----
(***************************************************************************)
(* The refresh limiter all item proxies share (internal/item/model.go) and *)
(* the loop in which a proxy waits for it (await in internal/item/proxy.go)*)
(*                                                                         *)
(* Time is a counter.  A timer fires at or after its time, so between the  *)
(* moment a proxy may refresh and the moment it asks again any sibling may *)
(* take the slot.                                                          *)
(***************************************************************************)
EXTENDS Integers, FiniteSets

CONSTANTS
    Keys,               \* the item generations that share the limiter
    GlobalInterval,     \* least time between two refreshes
    PerItemInterval,    \* least time between two refreshes of one item
    MaxTime             \* bound: length of a run

ASSUME LimiterAssumption ==
    /\ GlobalInterval \in Nat \ {0}
    /\ PerItemInterval \in Nat \ {0}
    /\ MaxTime \in Nat
    /\ IsFiniteSet(Keys)

VARIABLES
    now,        \* the clock
    last,       \* Limiter.last, or Never
    perKey,     \* Limiter.perKey, with Never for a key that is not in it
    waiter,     \* per key: its proxy's loop, "idle", "asking", "asleep", "gone"
    wakeAt,     \* per key: when its timer fires
    asked,      \* history, per key: when its refresh was asked for
    admits,     \* history: the refreshes admitted
    late        \* history: a proxy was once kept waiting by the scheduler

lvars == <<now, last, perKey, waiter, wakeAt, asked, admits, late>>

Never == -1

Later(t, u) == IF t < u THEN u ELSE t

\* The time an earlier refresh at `previous` allows the next one.
After(previous, interval) == IF previous = Never THEN now ELSE previous + interval

\* Faulty variant: the limit across the service is forgotten.
Earliest_PerItem(k) == Later(now, After(perKey[k], PerItemInterval))

\* Reserve: the earliest time a refresh of k may happen.
Earliest(k) ==
    Later(now, Later(After(last, GlobalInterval), After(perKey[k], PerItemInterval)))

----
\* A signal wakes the proxy's loop (trigger); a burst is one wake-up.
Trigger(k) ==
    /\ waiter[k] = "idle"
    /\ waiter' = [waiter EXCEPT ![k] = "asking"]
    /\ asked' = [asked EXCEPT ![k] = now]
    /\ UNCHANGED <<now, last, perKey, wakeAt, admits, late>>

\* Faulty variant: the next slot is recorded, not the refresh.
Admitted_Ahead(k) ==
    /\ waiter[k] = "asking"
    /\ Earliest(k) = now
    /\ last' = now + GlobalInterval
    /\ perKey' = [perKey EXCEPT ![k] = now]
    /\ waiter' = [waiter EXCEPT ![k] = "idle"]
    /\ admits' = admits \cup {[key |-> k, at |-> now]}
    /\ asked' = [asked EXCEPT ![k] = 0]
    /\ UNCHANGED <<now, wakeAt, late>>

\* await: Reserve admits the refresh, and records it ...
Admitted(k) ==
    /\ waiter[k] = "asking"
    /\ Earliest(k) = now
    /\ last' = now
    /\ perKey' = [perKey EXCEPT ![k] = now]
    /\ waiter' = [waiter EXCEPT ![k] = "idle"]
    /\ admits' = admits \cup {[key |-> k, at |-> now]}
    /\ asked' = [asked EXCEPT ![k] = 0]
    /\ UNCHANGED <<now, wakeAt, late>>

\* Faulty variant: a refused reservation is recorded as well.
Refused_Recorded(k) ==
    /\ waiter[k] = "asking"
    /\ Earliest(k) > now
    /\ waiter' = [waiter EXCEPT ![k] = "asleep"]
    /\ wakeAt' = [wakeAt EXCEPT ![k] = Earliest(k)]
    /\ perKey' = [perKey EXCEPT ![k] = now]
    /\ UNCHANGED <<now, last, asked, admits, late>>

\* ... or says how long to wait, and records nothing.
Refused(k) ==
    /\ waiter[k] = "asking"
    /\ Earliest(k) > now
    /\ waiter' = [waiter EXCEPT ![k] = "asleep"]
    /\ wakeAt' = [wakeAt EXCEPT ![k] = Earliest(k)]
    /\ UNCHANGED <<now, last, perKey, asked, admits, late>>

\* The timer fires and await asks again.
TimerFires(k) ==
    /\ waiter[k] = "asleep"
    /\ wakeAt[k] <= now
    /\ waiter' = [waiter EXCEPT ![k] = "asking"]
    /\ wakeAt' = [wakeAt EXCEPT ![k] = 0]
    /\ UNCHANGED <<now, last, perKey, asked, admits, late>>

\* Proxy.Close: the loop has returned, Forget drops the accounting.
Forget(k) ==
    /\ waiter[k] # "gone"
    /\ waiter' = [waiter EXCEPT ![k] = "gone"]
    /\ perKey' = [perKey EXCEPT ![k] = Never]
    /\ wakeAt' = [wakeAt EXCEPT ![k] = 0]
    /\ asked' = [asked EXCEPT ![k] = 0]
    /\ UNCHANGED <<now, last, admits, late>>

Waiting(k) == waiter[k] \in {"asking", "asleep"}

\* Every proxy that waits does so because Reserve told it to.
Prompt == \A k \in Keys : Waiting(k) => waiter[k] = "asleep" /\ wakeAt[k] > now

Tick ==
    /\ now < MaxTime
    /\ now' = now + 1
    /\ late' = (late \/ ~Prompt)
    /\ UNCHANGED <<last, perKey, waiter, wakeAt, asked, admits>>

----
LInit ==
    /\ now = 0
    /\ last = Never
    /\ perKey = [k \in Keys |-> Never]
    /\ waiter = [k \in Keys |-> "idle"]
    /\ wakeAt = [k \in Keys |-> 0]
    /\ asked = [k \in Keys |-> 0]
    /\ admits = {}
    /\ late = FALSE

Proxy(k) == Trigger(k) \/ Admitted(k) \/ Refused(k) \/ TimerFires(k) \/ Forget(k)

LNext == Tick \/ \E k \in Keys : Proxy(k)

LSpec == LInit /\ [][LNext]_lvars

----
(* Properties.                                                             *)

\* Every variable has its type.
LTypeOK ==
    /\ now \in 0..MaxTime
    /\ last \in {Never} \cup 0..MaxTime
    /\ perKey \in [Keys -> {Never} \cup 0..MaxTime]
    /\ waiter \in [Keys -> {"idle", "asking", "asleep", "gone"}]
    /\ wakeAt \in [Keys -> Int]
    /\ asked \in [Keys -> 0..MaxTime]
    /\ admits \in SUBSET [key : Keys, at : 0..MaxTime]
    /\ late \in BOOLEAN

\* "Refresh rates are bounded so a chatty application cannot starve the
\* service": whatever races for a slot, two refreshes are GlobalInterval
\* apart and two of one item PerItemInterval apart, closing items included.
Apart(x, y, d) == x.at - y.at >= d \/ y.at - x.at >= d

Spacing ==
    \A x, y \in admits :
        x # y => /\ Apart(x, y, GlobalInterval)
                 /\ x.key = y.key => Apart(x, y, PerItemInterval)

\* Limiter's comment: "one item's signal storm cannot crowd out its
\* siblings".  While the items are few enough to share the global rate, and
\* the scheduler keeps no proxy from asking when its timer is due, a refresh
\* waits at most one per-item interval and one turn of each sibling.
FewEnough == Cardinality(Keys) * GlobalInterval <= PerItemInterval

MaxWait == PerItemInterval + (Cardinality(Keys) - 1) * GlobalInterval

SiblingsServed ==
    FewEnough /\ ~late => \A k \in Keys : Waiting(k) => now - asked[k] <= MaxWait

====
