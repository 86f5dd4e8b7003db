---- MODULE LimiterProofs ----
(***************************************************************************)
(* The limiter spaces refreshes for any intervals and any set of items.    *)
(* Spacing alone is not inductive: a step admits a refresh by looking at   *)
(* `last` and `perKey` only, so the invariant adds that these two hold the *)
(* newest admissions.                                                      *)
(***************************************************************************)
EXTENDS Limiter, FiniteSetTheorems, TLAPS

\* `last` is the newest admission of all.
LastIsNewest ==
    /\ last <= now
    /\ \A x \in admits : last # Never /\ x.at <= last

\* perKey holds the newest admission of every item that is still read.
PerKeyIsNewest ==
    \A x \in admits :
        \/ waiter[x.key] = "gone"
        \/ perKey[x.key] # Never /\ x.at <= perKey[x.key]

LInv == LTypeOK /\ LastIsNewest /\ PerKeyIsNewest /\ Spacing

\* What an admission found out when it asked.
LEMMA EarliestNow ==
  ASSUME LInv, NEW k \in Keys, Earliest(k) = now
  PROVE  /\ last # Never => last + GlobalInterval <= now
         /\ perKey[k] # Never => perKey[k] + PerItemInterval <= now
<1>1. /\ now \in Nat /\ last \in Int /\ perKey[k] \in Int
      /\ GlobalInterval \in Nat /\ PerItemInterval \in Nat
  BY LimiterAssumption DEF LInv, LTypeOK, Never
<1> QED
  BY <1>1 DEF Earliest, Later, After, Never

\* The earliest time Reserve gives an item is a time.
LEMMA EarliestType ==
  ASSUME LInv, NEW k \in Keys
  PROVE  Earliest(k) \in Int
<1>1. /\ now \in Nat /\ last \in Int /\ perKey[k] \in Int
      /\ GlobalInterval \in Nat /\ PerItemInterval \in Nat
  BY LimiterAssumption DEF LInv, LTypeOK, Never
<1> QED
  BY <1>1 DEF Earliest, Later, After, Never

\* A new limiter has admitted nothing.
LEMMA LimiterInit == LInit => LInv
<1> SUFFICES ASSUME LInit
             PROVE  LInv
  OBVIOUS
<1>1. late \in BOOLEAN
  BY Zenon DEF LInit
<1> QED
  BY <1>1, LimiterAssumption
     DEF LInit, LInv, LTypeOK, LastIsNewest, PerKeyIsNewest, Spacing, Never

\* Admission is the only step that adds to `admits`.
LEMMA AdmittedKeeps ==
  ASSUME LInv, NEW k \in Keys, Admitted(k)
  PROVE  LInv'
<1> DEFINE new == [key |-> k, at |-> now]
<1> USE DEF LInv
<1>1. /\ now \in 0..MaxTime /\ now' = now /\ last' = now
      /\ admits' = admits \cup {new}
      /\ perKey' = [perKey EXCEPT ![k] = now]
      /\ waiter' = [waiter EXCEPT ![k] = "idle"]
      /\ waiter[k] = "asking"
  BY DEF Admitted, LTypeOK
<1>2. LTypeOK'
  <2>1. new \in [key : Keys, at : 0..MaxTime]
    BY <1>1
  <2>2. asked' \in [Keys -> 0..MaxTime] /\ wakeAt' = wakeAt
    BY LimiterAssumption DEF Admitted, LTypeOK
  <2>3. late' \in BOOLEAN
    BY Zenon DEF Admitted, LTypeOK
  <2> QED
    BY <1>1, <2>1, <2>2, <2>3 DEF LTypeOK
<1>3. \A x \in admits : x.at \in Nat /\ x.key \in Keys /\ x.at <= now
  BY <1>1, LimiterAssumption DEF LTypeOK, LastIsNewest, Never
<1>4. LastIsNewest'
  BY <1>1, <1>3, LimiterAssumption DEF LastIsNewest, Never
<1>5. PerKeyIsNewest'
  <2> SUFFICES ASSUME NEW x \in admits'
               PROVE  \/ waiter'[x.key] = "gone"
                      \/ perKey'[x.key] # Never /\ x.at <= perKey'[x.key]
    BY DEF PerKeyIsNewest
  <2>1. CASE x = new
    BY <1>1, <2>1, LimiterAssumption DEF LTypeOK, Never
  <2>2. CASE x \in admits /\ x.key = k
    BY <1>1, <1>3, <2>2, LimiterAssumption DEF LTypeOK, Never
  <2>3. CASE x \in admits /\ x.key # k
    BY <1>1, <1>3, <2>3 DEF LTypeOK, PerKeyIsNewest
  <2> QED
    BY <1>1, <2>1, <2>2, <2>3
<1>6. \A x \in admits : /\ Apart(x, new, GlobalInterval)
                        /\ Apart(new, x, GlobalInterval)
                        /\ x.key = k => Apart(x, new, PerItemInterval)
                        /\ x.key = k => Apart(new, x, PerItemInterval)
  <2> SUFFICES ASSUME NEW x \in admits
               PROVE  /\ now - x.at >= GlobalInterval
                      /\ x.key = k => now - x.at >= PerItemInterval
    BY DEF Apart
  <2>1. /\ last # Never => last + GlobalInterval <= now
        /\ perKey[k] # Never => perKey[k] + PerItemInterval <= now
    BY EarliestNow DEF Admitted
  <2>2. last # Never /\ x.at <= last
    BY DEF LastIsNewest
  <2>3. x.key = k => perKey[k] # Never /\ x.at <= perKey[k]
    BY <1>1 DEF PerKeyIsNewest
  <2>4. /\ last \in Int /\ perKey[k] \in Int /\ x.at \in Nat /\ now \in Nat
        /\ GlobalInterval \in Nat /\ PerItemInterval \in Nat
    BY <1>1, <1>3, LimiterAssumption DEF LTypeOK, Never
  <2> QED
    BY <2>1, <2>2, <2>3, <2>4
<1>7. Spacing'
  BY <1>1, <1>6 DEF Spacing, Apart
<1> QED
  BY <1>2, <1>4, <1>5, <1>7

\* Every other step keeps what was admitted, and closing an item keeps its
\* history out of perKey's reach.
LEMMA LimiterStep == LInv /\ [LNext]_lvars => LInv'
<1> SUFFICES ASSUME LInv, [LNext]_lvars
             PROVE  LInv'
  OBVIOUS
<1>1. CASE Tick
  <2>1. LTypeOK'
    <3>1. late' \in BOOLEAN
      BY <1>1, Zenon DEF Tick, LInv, LTypeOK
    <3> QED
      BY <1>1, <3>1, LimiterAssumption DEF Tick, LInv, LTypeOK
  <2>2. LastIsNewest' /\ PerKeyIsNewest' /\ Spacing'
    BY <1>1, LimiterAssumption
       DEF Tick, LInv, LTypeOK, LastIsNewest, PerKeyIsNewest, Spacing, Apart, Never
  <2> QED
    BY <2>1, <2>2 DEF LInv
<1>2. ASSUME NEW k \in Keys, Trigger(k)
      PROVE  LInv'
  BY <1>2 DEF Trigger, LInv, LTypeOK, LastIsNewest, PerKeyIsNewest, Spacing, Apart
<1>3. ASSUME NEW k \in Keys, Admitted(k)
      PROVE  LInv'
  BY <1>3, AdmittedKeeps
<1>4. ASSUME NEW k \in Keys, Refused(k)
      PROVE  LInv'
  <2>1. wakeAt' \in [Keys -> Int]
    BY <1>4, EarliestType DEF Refused, LInv, LTypeOK
  <2> QED
    BY <1>4, <2>1 DEF Refused, LInv, LTypeOK, LastIsNewest, PerKeyIsNewest, Spacing, Apart
<1>5. ASSUME NEW k \in Keys, TimerFires(k)
      PROVE  LInv'
  BY <1>5 DEF TimerFires, LInv, LTypeOK, LastIsNewest, PerKeyIsNewest, Spacing, Apart
<1>6. ASSUME NEW k \in Keys, Forget(k)
      PROVE  LInv'
  <2>1. LTypeOK'
    BY <1>6, LimiterAssumption DEF Forget, LInv, LTypeOK
  <2>2. LastIsNewest' /\ Spacing'
    BY <1>6 DEF Forget, LInv, LastIsNewest, Spacing, Apart
  <2>3. PerKeyIsNewest'
    BY <1>6 DEF Forget, LInv, LTypeOK, PerKeyIsNewest
  <2> QED
    BY <2>1, <2>2, <2>3 DEF LInv
<1>7. CASE UNCHANGED lvars
  BY <1>7 DEF lvars, LInv, LTypeOK, LastIsNewest, PerKeyIsNewest, Spacing, Apart
<1> QED
  BY <1>1, <1>2, <1>3, <1>4, <1>5, <1>6, <1>7 DEF LNext, Proxy

\* The limiter's state keeps its types in every run of every instance.
THEOREM LimiterTypes == LSpec => []LTypeOK
<1>1. LInv => LTypeOK
  BY DEF LInv
<1> QED
  BY <1>1, LimiterInit, LimiterStep, PTL DEF LSpec

\* model.go, Reserve: for any intervals, any items and any order in which
\* proxies ask, sleep, are refused or closed, two refreshes are never closer
\* than the global interval, nor two of one item closer than its own.
THEOREM LimiterSpacing == LSpec => []Spacing
<1>1. LInv => Spacing
  BY DEF LInv
<1> QED
  BY <1>1, LimiterInit, LimiterStep, PTL DEF LSpec

----
(* The wait.  From the moment it is eligible by its own interval, an item   *)
(* is passed over by each sibling at most once: a second turn of a sibling  *)
(* would come a per-item interval after its first.                          *)

\* When k's own interval lets it refresh.
Eligible(k) ==
    IF perKey[k] = Never THEN asked[k] ELSE Later(asked[k], perKey[k] + PerItemInterval)

\* The siblings whose refresh took a slot k could have had.
Passed(k) == {j \in Keys \ {k} : \E x \in admits : x.key = j /\ x.at + GlobalInterval > Eligible(k)}

Due(k) == Eligible(k) + Cardinality(Passed(k)) * GlobalInterval

Asks == \A k \in Keys : perKey[k] <= now /\ (Waiting(k) => perKey[k] <= asked[k])

LastAdmitted == last # Never => \E x \in admits : x.at = last

InTurn(k) ==
    /\ now <= Due(k)
    /\ waiter[k] = "asleep" => wakeAt[k] <= Due(k)
    /\ last # Never => last + GlobalInterval <= Due(k)

Turns == FewEnough /\ ~late => \A k \in Keys : Waiting(k) => InTurn(k)

WaitInv == LInv /\ Asks /\ LastAdmitted /\ Turns

\* The arithmetic of turns.
LEMMA TurnTimes ==
  ASSUME NEW n \in Nat, NEW m \in Nat, NEW g \in Nat
  PROVE  /\ n * g \in Nat /\ (n + 1) * g = n * g + g /\ 0 * g = 0
         /\ n <= m => n * g <= m * g
<1>1. n * g \in Nat /\ (n + 1) * g = n * g + g /\ 0 * g = 0
  OBVIOUS
<1>2. ASSUME n <= m PROVE n * g <= m * g
  <2>1. m - n \in Nat /\ m * g = n * g + (m - n) * g
    BY <1>2
  <2>2. (m - n) * g \in Nat
    BY <2>1
  <2> QED
    BY <1>1, <2>1, <2>2
<1> QED
  BY <1>1, <1>2

\* Types of what the argument counts.
LEMMA TurnTypes ==
  ASSUME LInv, NEW k \in Keys
  PROVE  /\ Eligible(k) \in Int /\ asked[k] <= Eligible(k) /\ Due(k) \in Int
         /\ perKey[k] # Never => perKey[k] + PerItemInterval <= Eligible(k)
         /\ Cardinality(Passed(k)) \in Nat /\ IsFiniteSet(Passed(k))
         /\ Cardinality(Keys) \in Nat \ {0} /\ Cardinality(Passed(k)) <= Cardinality(Keys) - 1
         /\ Cardinality(Passed(k)) * GlobalInterval <= (Cardinality(Keys) - 1) * GlobalInterval
         /\ FewEnough => (Cardinality(Keys) - 1) * GlobalInterval + GlobalInterval <= PerItemInterval
         /\ FewEnough => GlobalInterval <= PerItemInterval
<1>1. /\ now \in Nat /\ last \in Int /\ perKey[k] \in Int /\ asked[k] \in Nat
      /\ GlobalInterval \in Nat /\ PerItemInterval \in Nat
  BY LimiterAssumption DEF LInv, LTypeOK, Never
<1>2. /\ Eligible(k) \in Int /\ asked[k] <= Eligible(k)
      /\ perKey[k] # Never => perKey[k] + PerItemInterval <= Eligible(k)
  BY <1>1 DEF Eligible, Later
<1>3. IsFiniteSet(Keys) /\ Cardinality(Keys) \in Nat /\ Cardinality(Keys \ {k}) = Cardinality(Keys) - 1
      /\ IsFiniteSet(Keys \ {k}) /\ Cardinality(Keys \ {k}) \in Nat
  BY LimiterAssumption, FS_RemoveElement, FS_CardinalityType
<1>4. Passed(k) \subseteq Keys \ {k}
  BY DEF Passed
<1>5. /\ IsFiniteSet(Passed(k)) /\ Cardinality(Passed(k)) \in Nat
      /\ Cardinality(Passed(k)) <= Cardinality(Keys) - 1 /\ Cardinality(Keys) \in Nat \ {0}
  BY <1>3, <1>4, FS_Subset, FS_CardinalityType
<1> DEFINE c == Cardinality(Passed(k))
           n == Cardinality(Keys) - 1
<1>6. c \in Nat /\ n \in Nat /\ c <= n /\ Cardinality(Keys) = n + 1
  BY <1>3, <1>5
<1> HIDE DEF c, n
<1>7. /\ c * GlobalInterval <= n * GlobalInterval /\ c * GlobalInterval \in Nat /\ n * GlobalInterval \in Nat
      /\ (n + 1) * GlobalInterval = n * GlobalInterval + GlobalInterval
  BY <1>1, <1>6, TurnTimes
<1>8. FewEnough => n * GlobalInterval + GlobalInterval <= PerItemInterval
  BY <1>6, <1>7 DEF FewEnough
<1>9. Due(k) = Eligible(k) + c * GlobalInterval
  BY DEF Due, c
<1>10. Due(k) \in Int
  BY <1>1, <1>2, <1>6, <1>7, <1>9
<1>11. FewEnough => GlobalInterval <= PerItemInterval
  BY <1>1, <1>7, <1>8
<1>12. Cardinality(Passed(k)) * GlobalInterval <= (Cardinality(Keys) - 1) * GlobalInterval
  BY <1>7, Zenon DEF c, n
<1>13. FewEnough => (Cardinality(Keys) - 1) * GlobalInterval + GlobalInterval <= PerItemInterval
  BY <1>8, Zenon DEF n
<1> QED
  BY <1>2, <1>5, <1>10, <1>11, <1>12, <1>13

\* A new limiter keeps nobody waiting.
LEMMA WaitInit == LInit => WaitInv
<1> SUFFICES ASSUME LInit PROVE WaitInv
  OBVIOUS
<1>1. LInv
  BY LimiterInit
<1>2. \A k \in Keys : ~Waiting(k)
  BY DEF LInit, Waiting
<1>3. last = Never /\ now = 0 /\ \A k \in Keys : perKey[k] = -1
  BY DEF LInit, Never
<1> QED
  BY <1>1, <1>2, <1>3 DEF WaitInv, Asks, LastAdmitted, Turns

\* A step that leaves k's own accounts and the admissions alone.
LEMMA SameTurn ==
  ASSUME NEW k \in Keys, asked'[k] = asked[k], perKey'[k] = perKey[k], admits' = admits
  PROVE  Due(k)' = Due(k)
<1>1. Eligible(k)' = Eligible(k)
  BY DEF Eligible
<1>2. Passed(k)' = Passed(k)
  BY <1>1 DEF Passed
<1> QED
  BY <1>1, <1>2 DEF Due

\* A new request waits for at most one sibling that was admitted just before.
LEMMA TriggerInTurn ==
  ASSUME WaitInv, FewEnough, NEW k \in Keys, Trigger(k)
  PROVE  InTurn(k)'
<1> USE DEF WaitInv
<1>1. /\ now \in Nat /\ last \in Int /\ perKey[k] \in Int /\ GlobalInterval \in Nat
      /\ PerItemInterval \in Nat /\ last <= now
  BY LimiterAssumption DEF LInv, LTypeOK, Never, LastIsNewest
<1>2. /\ waiter[k] = "idle" /\ waiter'[k] = "asking" /\ asked'[k] = now
      /\ UNCHANGED <<now, last, perKey, admits>>
  BY DEF Trigger, LInv, LTypeOK
<1> DEFINE e == Eligible(k)'
           c == Cardinality(Passed(k)')
<1>3. /\ e \in Int /\ now <= e /\ c \in Nat /\ IsFiniteSet(Passed(k)')
      /\ perKey[k] # Never => perKey[k] + PerItemInterval <= e
      /\ GlobalInterval <= PerItemInterval
  <2>1. e = IF perKey[k] = Never THEN now ELSE Later(now, perKey[k] + PerItemInterval)
    BY <1>2 DEF Eligible
  <2>2. Passed(k)' \subseteq Keys
    BY DEF Passed
  <2>3. c \in Nat /\ IsFiniteSet(Passed(k)')
    BY <2>2, LimiterAssumption, FS_Subset, FS_CardinalityType
  <2>4. GlobalInterval <= PerItemInterval
    BY TurnTypes
  <2> HIDE DEF e, c
  <2> QED
    BY <1>1, <2>1, <2>3, <2>4 DEF Later
<1>4. c * GlobalInterval \in Nat /\ (c >= 1 => c * GlobalInterval >= GlobalInterval)
  <2>1. 1 * GlobalInterval = GlobalInterval
    BY <1>1
  <2> HIDE DEF c
  <2> QED
    BY <1>1, <1>3, <2>1, TurnTimes
<1>5. ASSUME last # Never, last + GlobalInterval > e PROVE c >= 1
  <2>1. PICK x \in admits : x.at = last
    BY <1>5 DEF LastAdmitted
  <2>2. x.key \in Keys
    BY DEF LInv, LTypeOK
  <2>3. x.key # k
    <3>1. x.key = k => perKey[k] # Never /\ last <= perKey[k]
      BY <1>2, <2>1 DEF LInv, PerKeyIsNewest
    <3> QED
      BY <1>1, <1>3, <1>5, <3>1
  <2>4. x.key \in Passed(k)'
    BY <1>2, <1>5, <2>1, <2>2, <2>3 DEF Passed
  <2>5. c # 0
    BY <1>3, <2>4, FS_EmptySet
  <2> QED
    BY <1>3, <2>5
<1>6. Due(k)' = e + c * GlobalInterval
  BY DEF Due
<1> HIDE DEF e, c
<1>7. last # Never => last + GlobalInterval <= e + c * GlobalInterval
  BY <1>1, <1>3, <1>4, <1>5
<1>8. now <= e + c * GlobalInterval
  BY <1>1, <1>3, <1>4
<1> QED
  BY <1>2, <1>6, <1>7, <1>8 DEF InTurn

\* A sibling takes a slot: for the first time since k is eligible.
LEMMA AdmittedInTurn ==
  ASSUME WaitInv, FewEnough, NEW k \in Keys, NEW j \in Keys \ {k}, Admitted(j), Waiting(k), InTurn(k)
  PROVE  InTurn(k)'
<1> USE DEF WaitInv
<1>1. /\ now \in Nat /\ last \in Int /\ perKey[j] \in Int /\ GlobalInterval \in Nat
      /\ PerItemInterval \in Nat /\ wakeAt[k] \in Int
  BY LimiterAssumption DEF LInv, LTypeOK, Never
<1> DEFINE new == [key |-> j, at |-> now]
<1>2. /\ last' = now /\ now' = now /\ admits' = admits \cup {new} /\ waiter[j] = "asking"
      /\ asked'[k] = asked[k] /\ perKey'[k] = perKey[k] /\ waiter'[k] = waiter[k] /\ wakeAt' = wakeAt
  BY DEF Admitted, LInv, LTypeOK
<1> DEFINE e == Eligible(k)
           c == Cardinality(Passed(k))
           d == Cardinality(Passed(k)')
           n == Cardinality(Keys) - 1
           G == GlobalInterval
<1>3. e \in Int /\ c \in Nat /\ IsFiniteSet(Passed(k)) /\ c * G <= n * G /\ n * G + G <= PerItemInterval /\ n \in Nat
  BY TurnTypes
<1>4. Due(k) = e + c * G /\ Due(k)' = e + d * G
  <2>1. Eligible(k)' = e
    BY <1>2 DEF Eligible
  <2> QED
    BY <2>1 DEF Due
<1>5. c * G \in Nat /\ (c + 1) * G = c * G + G /\ n * G \in Nat
  <2> HIDE DEF c, n
  <2> QED
    BY <1>1, <1>3, TurnTimes
<1>6. Passed(k)' = IF now + G > e THEN Passed(k) \cup {j} ELSE Passed(k)
  <2>1. Eligible(k)' = e
    BY <1>2 DEF Eligible
  <2>2. ASSUME NEW i \in Keys \ {k} PROVE i \in Passed(k)' <=> i \in Passed(k) \/ (i = j /\ now + G > e)
    <3>1. i \in Passed(k)' <=> \E x \in admits' : x.key = i /\ x.at + G > e
      BY <2>1 DEF Passed
    <3>2. i \in Passed(k) <=> \E x \in admits : x.key = i /\ x.at + G > e
      BY DEF Passed
    <3>3. new.key = j /\ new.at = now
      OBVIOUS
    <3> HIDE DEF e, new
    <3> QED
      BY <1>2, <3>1, <3>2, <3>3
  <2>3. Passed(k) \subseteq Keys \ {k} /\ Passed(k)' \subseteq Keys \ {k}
    BY DEF Passed
  <2> HIDE DEF e
  <2> QED
    BY <2>2, <2>3
<1>7. now <= e + c * G /\ (waiter[k] = "asleep" => wakeAt[k] <= e + c * G)
  BY <1>4 DEF InTurn
<1>8. j \notin Passed(k)
  <2> SUFFICES ASSUME j \in Passed(k) PROVE FALSE
    OBVIOUS
  <2>1. PICK x \in admits : x.key = j /\ x.at + G > e
    BY DEF Passed
  <2>2. perKey[j] # Never /\ x.at <= perKey[j] /\ x.at \in Nat
    BY <1>2, <2>1 DEF LInv, LTypeOK, PerKeyIsNewest
  <2>3. perKey[j] + PerItemInterval <= now
    BY <2>2, EarliestNow DEF Admitted
  <2> HIDE DEF e, c, n
  <2> QED
    BY <1>1, <1>3, <1>5, <1>7, <2>1, <2>2, <2>3
<1>9. d = IF now + G > e THEN c + 1 ELSE c
  BY <1>3, <1>6, <1>8, FS_AddElement
<1> HIDE DEF e, c, d, n
<1>10. CASE now + G > e
  <2>1. Due(k)' = e + c * G + G
    BY <1>1, <1>3, <1>4, <1>5, <1>9, <1>10
  <2> QED
    BY <1>1, <1>2, <1>3, <1>5, <1>7, <2>1 DEF InTurn
<1>11. CASE ~(now + G > e)
  <2>1. Due(k)' = e + c * G
    BY <1>4, <1>9, <1>11
  <2> QED
    BY <1>1, <1>2, <1>3, <1>5, <1>7, <1>11, <2>1 DEF InTurn
<1> QED
  BY <1>10, <1>11

\* A refusal gives a time that is due.
LEMMA RefusedInTurn ==
  ASSUME WaitInv, NEW k \in Keys, Refused(k), InTurn(k)
  PROVE  InTurn(k)'
<1> USE DEF WaitInv
<1>1. /\ now \in Nat /\ last \in Int /\ perKey[k] \in Int /\ GlobalInterval \in Nat
      /\ PerItemInterval \in Nat
  BY LimiterAssumption DEF LInv, LTypeOK, Never
<1>2. /\ wakeAt'[k] = Earliest(k) /\ UNCHANGED <<now, last, perKey, asked, admits>>
  BY DEF Refused, LInv, LTypeOK
<1>3. Due(k)' = Due(k)
  BY <1>2, SameTurn
<1>4. Due(k) \in Int /\ Eligible(k) <= Due(k) /\ (perKey[k] # Never => perKey[k] + PerItemInterval <= Due(k))
  <2> DEFINE c == Cardinality(Passed(k))
  <2>1. /\ Eligible(k) \in Int /\ c \in Nat
        /\ perKey[k] # Never => perKey[k] + PerItemInterval <= Eligible(k)
    BY TurnTypes
  <2>2. Due(k) = Eligible(k) + c * GlobalInterval
    BY DEF Due
  <2> HIDE DEF c
  <2>3. c * GlobalInterval \in Nat
    BY <1>1, <2>1, TurnTimes
  <2> QED
    BY <1>1, <2>1, <2>2, <2>3
<1>5. Earliest(k) <= Due(k)
  <2>1. now <= Due(k) /\ (last # Never => last + GlobalInterval <= Due(k))
    BY DEF InTurn
  <2> QED
    BY <1>1, <1>4, <2>1 DEF Earliest, Later, After
<1> QED
  BY <1>2, <1>3, <1>5 DEF InTurn

\* Every step keeps the turns.
LEMMA WaitStep == WaitInv /\ [LNext]_lvars => WaitInv'
<1> SUFFICES ASSUME WaitInv, [LNext]_lvars PROVE WaitInv'
  OBVIOUS
<1> USE DEF WaitInv
<1>1. LInv'
  BY LimiterStep
<1>2. /\ now \in Nat /\ last \in Int /\ last <= now /\ perKey \in [Keys -> Int] /\ asked \in [Keys -> Int]
      /\ wakeAt \in [Keys -> Int] /\ waiter \in [Keys -> {"idle", "asking", "asleep", "gone"}]
      /\ \A k \in Keys : perKey[k] <= now
  BY LimiterAssumption DEF LInv, LTypeOK, LastIsNewest, Never, Asks
<1>3. Asks'
  <2> SUFFICES ASSUME NEW k \in Keys
               PROVE  perKey'[k] <= now' /\ (Waiting(k)' => perKey'[k] <= asked'[k])
    BY DEF Asks
  <2>1. CASE Tick \/ UNCHANGED lvars
    BY <1>2, <2>1 DEF Tick, lvars, Asks, Waiting
  <2>2. ASSUME NEW j \in Keys, Trigger(j) \/ Refused(j) \/ TimerFires(j)
        PROVE  perKey'[k] <= now' /\ (Waiting(k)' => perKey'[k] <= asked'[k])
    BY <1>2, <2>2 DEF Trigger, Refused, TimerFires, Asks, Waiting
  <2>3. ASSUME NEW j \in Keys, Admitted(j) \/ Forget(j)
        PROVE  perKey'[k] <= now' /\ (Waiting(k)' => perKey'[k] <= asked'[k])
    BY <1>2, <2>3 DEF Admitted, Forget, Asks, Waiting, Never
  <2> QED
    BY <2>1, <2>2, <2>3 DEF LNext, Proxy
<1>4. LastAdmitted'
  <2>1. CASE UNCHANGED <<last, admits>>
    BY <2>1 DEF LastAdmitted
  <2>2. ASSUME NEW j \in Keys, Admitted(j) PROVE LastAdmitted'
    <3>1. [key |-> j, at |-> now] \in admits' /\ last' = now
      BY <2>2 DEF Admitted
    <3> QED
      BY <3>1 DEF LastAdmitted
  <2> QED
    BY <2>1, <2>2 DEF LNext, Proxy, Tick, Trigger, Refused, TimerFires, Forget, lvars
<1>5. Turns'
  <2> SUFFICES ASSUME FewEnough, ~late', NEW k \in Keys, Waiting(k)' PROVE InTurn(k)'
    BY DEF Turns, FewEnough
  <2>1. ~late
    BY DEF LNext, Proxy, Tick, Trigger, Admitted, Refused, TimerFires, Forget, lvars
  <2>2. Waiting(k) => InTurn(k)
    BY <2>1 DEF Turns
  <2>3. CASE Tick
    <3>1. Waiting(k) /\ waiter[k] = "asleep" /\ wakeAt[k] > now /\ now' = now + 1
          /\ UNCHANGED <<last, perKey, waiter, wakeAt, asked, admits>>
      BY <2>3 DEF Tick, Prompt, Waiting
    <3>2. Due(k)' = Due(k) /\ Due(k) \in Int
      BY <3>1, SameTurn, TurnTypes
    <3> QED
      BY <1>2, <2>2, <3>1, <3>2 DEF InTurn
  <2>4. CASE UNCHANGED lvars
    <3>1. Waiting(k) /\ UNCHANGED <<now, last, perKey, waiter, wakeAt, asked, admits>>
      BY <2>4 DEF lvars, Waiting
    <3>2. Due(k)' = Due(k)
      BY <3>1, SameTurn
    <3> QED
      BY <2>2, <3>1, <3>2 DEF InTurn
  <2>5. ASSUME NEW j \in Keys, Proxy(j), j # k PROVE InTurn(k)'
    <3>1. Waiting(k) /\ waiter'[k] = waiter[k] /\ now' = now /\ wakeAt'[k] = wakeAt[k]
          /\ asked'[k] = asked[k] /\ perKey'[k] = perKey[k]
      BY <1>2, <2>5 DEF Proxy, Trigger, Admitted, Refused, TimerFires, Forget, Waiting
    <3>2. CASE Admitted(j)
      BY <2>2, <2>5, <3>1, <3>2, AdmittedInTurn
    <3>3. CASE UNCHANGED <<last, admits>>
      <4>1. Due(k)' = Due(k)
        BY <3>1, <3>3, SameTurn
      <4> QED
        BY <2>2, <3>1, <3>3, <4>1 DEF InTurn
    <3> QED
      BY <2>5, <3>2, <3>3 DEF Proxy, Trigger, Refused, TimerFires, Forget
  <2>6. CASE Trigger(k)
    BY <2>6, TriggerInTurn
  <2>7. CASE Refused(k)
    <3>1. Waiting(k)
      BY <2>7 DEF Refused, Waiting
    <3> QED
      BY <2>2, <2>7, <3>1, RefusedInTurn
  <2>8. CASE TimerFires(k)
    <3>1. Waiting(k) /\ waiter'[k] = "asking" /\ UNCHANGED <<now, last, perKey, asked, admits>>
      BY <1>2, <2>8 DEF TimerFires, Waiting
    <3>2. Due(k)' = Due(k)
      BY <3>1, SameTurn
    <3> QED
      BY <2>2, <3>1, <3>2 DEF InTurn
  <2>9. ~Admitted(k) /\ ~Forget(k)
    BY <1>2 DEF Admitted, Forget, Waiting
  <2> QED
    BY <2>3, <2>4, <2>5, <2>6, <2>7, <2>8, <2>9 DEF LNext, Proxy
<1> QED
  BY <1>1, <1>3, <1>4, <1>5

\* Limiter's comment, "one item's signal storm cannot crowd out its
\* siblings": for any number of items that can share the global rate, a
\* refresh waits at most one per-item interval and one turn of each sibling.
THEOREM LimiterSiblingsServed == LSpec => []SiblingsServed
<1>1. ASSUME WaitInv, FewEnough, ~late, NEW k \in Keys, Waiting(k) PROVE now - asked[k] <= MaxWait
  <2>1. /\ now \in Nat /\ perKey[k] \in Int /\ asked[k] \in Nat /\ PerItemInterval \in Nat /\ GlobalInterval \in Nat
        /\ perKey[k] <= asked[k] /\ LInv
    BY <1>1, LimiterAssumption DEF WaitInv, LInv, LTypeOK, Never, Asks
  <2>2. Eligible(k) <= asked[k] + PerItemInterval /\ Eligible(k) \in Int
    BY <2>1 DEF Eligible, Later
  <2> DEFINE c == Cardinality(Passed(k))
             n == Cardinality(Keys) - 1
  <2>3. c * GlobalInterval <= n * GlobalInterval /\ c \in Nat /\ n \in Nat
    BY <2>1, TurnTypes
  <2>4. now <= Eligible(k) + c * GlobalInterval
    BY <1>1 DEF WaitInv, Turns, InTurn, Due
  <2>5. MaxWait = PerItemInterval + n * GlobalInterval
    BY DEF MaxWait
  <2> HIDE DEF c, n
  <2>6. c * GlobalInterval \in Nat /\ n * GlobalInterval \in Nat
    BY <2>1, <2>3, TurnTimes
  <2> QED
    BY <2>1, <2>2, <2>3, <2>4, <2>5, <2>6
<1>2. WaitInv => SiblingsServed
  BY <1>1 DEF SiblingsServed
<1> QED
  BY <1>2, WaitInit, WaitStep, PTL DEF LSpec

====
