---- MODULE PresenterProofs ----
(***************************************************************************)
(* The presenter server composed with the owner, for any presenters, queue *)
(* bounds, items and requests.  The invariant PInv says of each connection *)
(* what its handler's step makes of it (Served) and which connections may  *)
(* be the sink and the current presenter (Roles).  What a shell will have  *)
(* made of the frames still on the way to it (After) is the quantity that  *)
(* no writer step changes and every Send extends.  The states those frames *)
(* carry (StatesAfter) are the mirror's states on their way, and each step *)
(* of the server is a step of the mirror or none.                          *)
(***************************************************************************)
EXTENDS Presenter, StateOwnerProofs, InductionFacts, SequenceTheorems

----
(* What a shell makes of a sequence of frames.                             *)

\* The recursion that Reading names exists.
LEMMA ReadingIs ==
  ASSUME NEW p, NEW ms, Len(ms) \in Nat
  PROVE  Reading(p, ms) = [n \in 0..Len(ms) |->
            IF n = 0 THEN p ELSE Understand(Reading(p, ms)[n - 1], ms[n])]
<1> DEFINE Upto(g, l) == g = [n \in 0..l |-> IF n = 0 THEN p ELSE Understand(g[n - 1], ms[n])]
           S == {l \in Nat : \E g : Upto(g, l)}
<1>1. 0 \in S
  <2>1. Upto([n \in 0..0 |-> p], 0)
    OBVIOUS
  <2> QED
    BY <2>1
<1>2. ASSUME NEW l \in Nat, l \in S PROVE l + 1 \in S
  <2>1. PICK g : Upto(g, l)
    BY <1>2
  <2> DEFINE h == [n \in 0..(l + 1) |-> IF n = l + 1 THEN Understand(g[l], ms[l + 1]) ELSE g[n]]
  <2>2. \A n \in 0..(l + 1) : h[n] = IF n = 0 THEN p ELSE Understand(h[n - 1], ms[n])
    <3> TAKE n \in 0..(l + 1)
    <3>1. CASE n = 0
      BY <2>1, <3>1
    <3>2. CASE n \in 1..l
      BY <2>1, <3>2
    <3>3. CASE n = l + 1
      BY <3>3
    <3> QED
      BY <3>1, <3>2, <3>3
  <2>3. Upto(h, l + 1)
    <3> HIDE DEF h
    <3>1. h = [n \in 0..(l + 1) |-> h[n]]
      BY DEF h
    <3> QED
      BY <2>2, <3>1
  <2> HIDE DEF Upto
  <2> QED
    BY <2>3
<1>3. \E g : Upto(g, Len(ms))
  <2> HIDE DEF S
  <2>1. \A n \in Nat : n \in S
    BY <1>1, <1>2, SetInduction
  <2> QED
    BY <2>1 DEF S
<1>4. Reading(p, ms) = CHOOSE g : Upto(g, Len(ms))
  BY DEF Reading
<1> HIDE DEF Upto
<1>5. Upto(Reading(p, ms), Len(ms))
  BY <1>3, <1>4
<1> QED
  BY <1>5 DEF Upto

\* The types of what the peers hold and of what is sent to them.
Pictures == [sequence : Nat, items : SUBSET [key : Keys, item : Items],
             menus : SUBSET [key : Keys, menu : Menus]]

Baselines == {v \in Pictures : IsFiniteSet(v.items)}

Msgs ==
    {HelloMsg}
    \cup [kind : {"snapshot"}, seq : Nat, body : Baselines]
    \cup [kind : {"delta"}, seq : Nat, body : Deltas \ {NoDelta}]
    \cup [kind : {"reply"}, seq : {0}, id : Nat]

Shells == [stage : {"connecting", "greeted", "live", "confused"}, open : BOOLEAN,
           view : Pictures, asked : Seq(Nat), answered : Seq(Nat)]

\* A message is of one kind and has the fields of that kind.
LEMMA MsgKinds ==
  ASSUME NEW m \in Msgs
  PROVE  /\ m.kind \in {"hello", "snapshot", "delta", "reply"}
         /\ m.kind = "hello" => m = HelloMsg
         /\ m.kind = "snapshot" => m.seq \in Nat /\ m.body \in Baselines
         /\ m.kind = "delta" => m.seq \in Nat /\ m.body \in Deltas /\ m.body # NoDelta
         /\ m.kind = "reply" => m.seq = 0 /\ m.id \in Nat
BY DEF Msgs, HelloMsg

\* A delta applied to a picture gives a picture.
LEMMA ApplyPicture ==
  ASSUME NEW v \in Pictures, NEW d \in Deltas, d # NoDelta
  PROVE  Apply(v, d) \in Pictures
<1>1. ApplyItems(v.items, d) \in SUBSET [key : Keys, item : Items]
  BY DEF Pictures, Deltas, ApplyItems, Without
<1>2. ApplyMenus(v.menus, d) \in SUBSET [key : Keys, menu : Menus]
  BY DEF Pictures, Deltas, ApplyMenus, Without
<1> QED
  BY <1>1, <1>2 DEF Apply, Pictures

\* Understand, kind by kind.
LEMMA UnderstandCases ==
  ASSUME NEW p \in Shells, NEW m \in Msgs
  PROVE  /\ Understand(p, m) \in Shells
         /\ Understand(p, m).open = p.open /\ Understand(p, m).asked = p.asked
         /\ p.stage = "confused" => Understand(p, m).stage = "confused"
         /\ m.kind # "reply" => Understand(p, m).answered = p.answered
<1> DEFINE u == Understand(p, m)
<1>1. CASE m.kind = "hello"
  <2>1. CASE p.stage = "connecting"
    BY <1>1, <2>1 DEF Understand, Shells
  <2>2. CASE p.stage # "connecting"
    <3>1. u = [p EXCEPT !.stage = "confused"]
      BY <1>1, <2>2 DEF Understand
    <3> QED
      BY <3>1 DEF Shells
  <2> QED
    BY <2>1, <2>2
<1>2. CASE m.kind = "snapshot"
  <2>1. CASE p.stage = "greeted"
    <3>1. u = [p EXCEPT !.stage = "live", !.view = m.body]
      BY <1>2, <2>1 DEF Understand
    <3>2. m.body \in Pictures
      BY <1>2, MsgKinds DEF Baselines
    <3> QED
      BY <2>1, <3>1, <3>2 DEF Shells
  <2>2. CASE p.stage # "greeted"
    <3>1. u = [p EXCEPT !.stage = "confused"]
      BY <1>2, <2>2 DEF Understand
    <3> QED
      BY <3>1 DEF Shells
  <2> QED
    BY <2>1, <2>2
<1>3. CASE m.kind = "delta"
  <2>1. CASE p.stage = "live" /\ m.seq = p.view.sequence + 1
    <3>1. u = [p EXCEPT !.view = Apply(p.view, m.body)]
      BY <1>3, <2>1 DEF Understand
    <3>2. Apply(p.view, m.body) \in Pictures
      BY <1>3, MsgKinds, ApplyPicture DEF Shells
    <3> QED
      BY <2>1, <3>1, <3>2 DEF Shells
  <2>2. CASE ~(p.stage = "live" /\ m.seq = p.view.sequence + 1)
    <3>1. u = [p EXCEPT !.stage = "confused"]
      BY <1>3, <2>2 DEF Understand
    <3> QED
      BY <3>1 DEF Shells
  <2> QED
    BY <2>1, <2>2
<1>4. CASE m.kind = "reply"
  <2>1. CASE p.stage = "live"
    <3>1. u = [p EXCEPT !.answered = Append(p.answered, m.id)]
      BY <1>4, <2>1 DEF Understand
    <3>2. Append(p.answered, m.id) \in Seq(Nat)
      BY <1>4, MsgKinds DEF Shells
    <3> QED
      BY <1>4, <2>1, <3>1, <3>2 DEF Shells
  <2>2. CASE p.stage # "live"
    <3>1. u = [p EXCEPT !.stage = "confused"]
      BY <1>4, <2>2 DEF Understand
    <3> QED
      BY <1>4, <3>1 DEF Shells
  <2> QED
    BY <2>1, <2>2
<1> QED
  BY <1>1, <1>2, <1>3, <1>4, MsgKinds

\* A shell that is sent nothing stays as it is.
LEMMA AfterNothing ==
  ASSUME NEW p
  PROVE  After(p, <<>>) = p
<1>1. Len(<<>>) = 0
  OBVIOUS
<1>2. Reading(p, <<>>)[0] = p
  BY <1>1, ReadingIs
<1> QED
  BY <1>1, <1>2 DEF After

\* The frames already read are not read again.
LEMMA ReadingAppend ==
  ASSUME NEW p, NEW s \in Seq(Msgs), NEW m \in Msgs
  PROVE  /\ \A n \in 0..Len(s) : Reading(p, Append(s, m))[n] = Reading(p, s)[n]
         /\ Reading(p, Append(s, m))[Len(s) + 1] = Understand(After(p, s), m)
<1> DEFINE t == Append(s, m)
           N == {n \in Nat : n <= Len(s) => Reading(p, t)[n] = Reading(p, s)[n]}
<1>1. /\ Len(s) \in Nat /\ Len(t) = Len(s) + 1
      /\ \A n \in 1..Len(s) : t[n] = s[n]
      /\ t[Len(s) + 1] = m
  OBVIOUS
<1> HIDE DEF t
<1>2. Reading(p, s) = [n \in 0..Len(s) |->
            IF n = 0 THEN p ELSE Understand(Reading(p, s)[n - 1], s[n])]
  BY <1>1, ReadingIs
<1>3. Reading(p, t) = [n \in 0..Len(t) |->
            IF n = 0 THEN p ELSE Understand(Reading(p, t)[n - 1], t[n])]
  BY <1>1, ReadingIs
<1>4. 0 \in N
  BY <1>1, <1>2, <1>3
<1>5. ASSUME NEW n \in Nat, n \in N PROVE n + 1 \in N
  <2> SUFFICES ASSUME n + 1 <= Len(s) PROVE Reading(p, t)[n + 1] = Reading(p, s)[n + 1]
    OBVIOUS
  <2>1. n + 1 \in 0..Len(s) /\ n + 1 \in 0..Len(t) /\ n + 1 # 0 /\ (n + 1) - 1 = n
    BY <1>1
  <2>2. Reading(p, t)[n + 1] = Understand(Reading(p, t)[n], t[n + 1])
    BY <1>3, <2>1
  <2>3. Reading(p, s)[n + 1] = Understand(Reading(p, s)[n], s[n + 1])
    BY <1>2, <2>1
  <2> QED
    BY <1>1, <1>5, <2>2, <2>3
<1>6. \A n \in Nat : n \in N
  <2> HIDE DEF N
  <2> QED
    BY <1>4, <1>5, SetInduction
<1>7. \A n \in 0..Len(s) : Reading(p, t)[n] = Reading(p, s)[n]
  BY <1>1, <1>6
<1>8. Reading(p, t)[Len(s) + 1] = Understand(Reading(p, t)[Len(s)], t[Len(s) + 1])
  BY <1>1, <1>3
<1> QED
  BY <1>1, <1>7, <1>8 DEF After, t

\* The last frame sent is the last one read.
LEMMA AfterAppend ==
  ASSUME NEW p, NEW s \in Seq(Msgs), NEW m \in Msgs
  PROVE  After(p, Append(s, m)) = Understand(After(p, s), m)
<1>1. Len(Append(s, m)) = Len(s) + 1
  OBVIOUS
<1> QED
  BY <1>1, ReadingAppend DEF After

\* Frames in two batches are read as if they were one.
LEMMA AfterConcat ==
  ASSUME NEW p, NEW s \in Seq(Msgs), NEW t \in Seq(Msgs)
  PROVE  After(p, s \o t) = After(After(p, s), t)
<1> DEFINE T == {u \in Seq(Msgs) : After(p, s \o u) = After(After(p, s), u)}
<1>1. <<>> \in T
  BY AfterNothing, ConcatEmptySeq
<1>2. ASSUME NEW u \in Seq(Msgs), NEW m \in Msgs, u \in T PROVE Append(u, m) \in T
  <2>1. /\ s \o Append(u, m) = Append(s \o u, m)
        /\ s \o u \in Seq(Msgs) /\ Append(u, m) \in Seq(Msgs)
    OBVIOUS
  <2>2. After(p, Append(s \o u, m)) = Understand(After(p, s \o u), m)
    BY <2>1, AfterAppend
  <2>3. After(After(p, s), Append(u, m)) = Understand(After(After(p, s), u), m)
    BY AfterAppend
  <2>4. After(p, s \o u) = After(After(p, s), u)
    BY <1>2
  <2> QED
    BY <2>1, <2>2, <2>3, <2>4
<1>3. Seq(Msgs) \subseteq T
  <2> HIDE DEF T
  <2> QED
    BY <1>1, <1>2, SequenceInduction
<1> QED
  BY <1>3

\* A frame on its own.
LEMMA AfterOne ==
  ASSUME NEW p, NEW m \in Msgs
  PROVE  After(p, <<m>>) = Understand(p, m)
<1>1. <<m>> = Append(<<>>, m) /\ <<>> \in Seq(Msgs)
  OBVIOUS
<1> QED
  BY <1>1, AfterAppend, AfterNothing

\* What reading some frames leaves of a shell: its type, its end of the
\* connection, what it asked, what was already answered, and its confusion.
LEMMA AfterKeeps ==
  ASSUME NEW p \in Shells, NEW s \in Seq(Msgs)
  PROVE  /\ After(p, s) \in Shells
         /\ After(p, s).open = p.open /\ After(p, s).asked = p.asked
         /\ p.stage = "confused" => After(p, s).stage = "confused"
         /\ Len(p.answered) <= Len(After(p, s).answered)
         /\ \A i \in 1..Len(p.answered) : After(p, s).answered[i] = p.answered[i]
<1> DEFINE Keeps(q) == /\ q \in Shells
                       /\ q.open = p.open /\ q.asked = p.asked
                       /\ p.stage = "confused" => q.stage = "confused"
                       /\ Len(p.answered) <= Len(q.answered)
                       /\ \A i \in 1..Len(p.answered) : q.answered[i] = p.answered[i]
           T == {u \in Seq(Msgs) : Keeps(After(p, u))}
<1>1. <<>> \in T
  <2>1. Keeps(p)
    BY DEF Shells
  <2> QED
    BY <2>1, AfterNothing
<1>2. ASSUME NEW u \in Seq(Msgs), NEW m \in Msgs, u \in T PROVE Append(u, m) \in T
  <2> DEFINE q == After(p, u)
             r == Understand(q, m)
  <2>1. Keeps(q)
    BY <1>2
  <2> HIDE DEF q
  <2>2. /\ r \in Shells /\ r.open = q.open /\ r.asked = q.asked
        /\ q.stage = "confused" => r.stage = "confused"
    BY <2>1, UnderstandCases
  <2>3. \/ r.answered = q.answered
        \/ \E id \in Nat : r.answered = Append(q.answered, id)
    <3>1. CASE m.kind # "reply"
      BY <2>1, <3>1, UnderstandCases
    <3>2. CASE m.kind = "reply" /\ q.stage = "live"
      <4>1. r = [q EXCEPT !.answered = Append(q.answered, m.id)]
        BY <3>2 DEF Understand
      <4>2. m.id \in Nat
        BY <3>2, MsgKinds
      <4> QED
        BY <2>1, <4>1, <4>2 DEF Shells
    <3>3. CASE m.kind = "reply" /\ q.stage # "live"
      <4>1. r = [q EXCEPT !.stage = "confused"]
        BY <3>3 DEF Understand
      <4> QED
        BY <2>1, <4>1 DEF Shells
    <3> QED
      BY <3>1, <3>2, <3>3
  <2>4. q.answered \in Seq(Nat) /\ p.answered \in Seq(Nat)
    BY <2>1 DEF Shells
  <2>5. /\ Len(p.answered) <= Len(r.answered)
        /\ \A i \in 1..Len(p.answered) : r.answered[i] = p.answered[i]
    <3>1. CASE r.answered = q.answered
      BY <2>1, <3>1
    <3>2. ASSUME NEW id \in Nat, r.answered = Append(q.answered, id)
          PROVE  /\ Len(p.answered) <= Len(r.answered)
                 /\ \A i \in 1..Len(p.answered) : r.answered[i] = p.answered[i]
      BY <2>1, <2>4, <3>2
    <3> QED
      BY <2>3, <3>1, <3>2
  <2>6. Keeps(r)
    BY <2>1, <2>2, <2>5
  <2>7. After(p, Append(u, m)) = r
    BY AfterAppend DEF q
  <2> QED
    BY <2>6, <2>7
<1>3. Seq(Msgs) \subseteq T
  <2> HIDE DEF T
  <2> QED
    BY <1>1, <1>2, SequenceInduction
<1> QED
  BY <1>3

----
(* Counting what is queued.                                                *)

\* The encoded length of a message is a number.
LEMMA SizeType ==
  ASSUME NEW m \in Msgs
  PROVE  Size(m) \in Nat \ {0}
<1>1. CASE m.kind = "snapshot"
  <2>1. IsFiniteSet(m.body.items)
    BY <1>1, MsgKinds DEF Baselines
  <2>2. Cardinality(m.body.items) \in Nat
    BY <2>1, FS_CardinalityType
  <2> QED
    BY <1>1, <2>2 DEF Size
<1>2. CASE m.kind # "snapshot"
  BY <1>2 DEF Size
<1> QED
  BY <1>1, <1>2

\* Nothing has no bytes, and the bytes of one more message come on top.
LEMMA BytesAppend ==
  /\ TotalSize(<<>>) = 0 /\ IsFiniteSet(Bytes(<<>>))
  /\ \A s \in Seq(Msgs), m \in Msgs :
        IsFiniteSet(Bytes(s)) =>
          /\ IsFiniteSet(Bytes(Append(s, m)))
          /\ TotalSize(Append(s, m)) = TotalSize(s) + Size(m)
<1>1. Bytes(<<>>) = {}
  BY DEF Bytes
<1>2. ASSUME NEW s \in Seq(Msgs), NEW m \in Msgs, IsFiniteSet(Bytes(s))
      PROVE  /\ IsFiniteSet(Bytes(Append(s, m)))
             /\ TotalSize(Append(s, m)) = TotalSize(s) + Size(m)
  <2> DEFINE n == Len(s) + 1
             B == {n} \X (1..Size(m))
             f == [b \in 1..Size(m) |-> <<n, b>>]
  <2>0. n \in Nat /\ Size(m) \in Nat
    BY SizeType
  <2>1. /\ DOMAIN s = 1..Len(s) /\ DOMAIN Append(s, m) = 1..n
        /\ \A i \in 1..Len(s) : Append(s, m)[i] = s[i]
        /\ Append(s, m)[n] = m
    OBVIOUS
  <2>2. Bytes(Append(s, m)) = Bytes(s) \cup B
    <3>1. 1..n = (1..Len(s)) \cup {n}
      OBVIOUS
    <3>2. Bytes(Append(s, m)) = UNION {{i} \X (1..Size(Append(s, m)[i])) : i \in (1..Len(s)) \cup {n}}
      BY <2>1, <3>1 DEF Bytes
    <3>3. Bytes(s) = UNION {{i} \X (1..Size(s[i])) : i \in 1..Len(s)}
      BY <2>1 DEF Bytes
    <3>4. {{i} \X (1..Size(Append(s, m)[i])) : i \in (1..Len(s)) \cup {n}}
            = {{i} \X (1..Size(s[i])) : i \in 1..Len(s)} \cup {B}
      BY <2>1
    <3> QED
      BY <3>2, <3>3, <3>4
  <2>3. Bytes(s) \cap B = {}
    <3> SUFFICES ASSUME NEW x \in Bytes(s), x \in B PROVE FALSE
      OBVIOUS
    <3>1. PICK i \in 1..Len(s) : x \in {i} \X (1..Size(s[i]))
      BY <2>1 DEF Bytes
    <3>2. x[1] = i /\ x[1] = n
      BY <3>1
    <3> QED
      BY <3>2
  <2>4. IsFiniteSet(1..Size(m)) /\ Cardinality(1..Size(m)) = Size(m)
    BY <2>0, FS_Interval
  <2>5. IsFiniteSet(B) /\ Cardinality(B) = Size(m)
    <3>1. f \in [1..Size(m) -> B]
      OBVIOUS
    <3>2. \A x, y \in 1..Size(m) : f[x] = f[y] => x = y
      OBVIOUS
    <3>3. \A x \in B : \E b \in 1..Size(m) : f[b] = x
      OBVIOUS
    <3>4. f \in Bijection(1..Size(m), B)
      <4> HIDE DEF f, B
      <4> QED
        BY <3>1, <3>2, <3>3 DEF Bijection, Injection, IsInjective, Surjection
    <3>5. ExistsBijection(1..Size(m), B)
      BY <3>4 DEF ExistsBijection
    <3> HIDE DEF B
    <3> QED
      BY <2>4, <3>5, FS_Bijection
  <2> HIDE DEF B
  <2>6. /\ IsFiniteSet(Bytes(s) \cup B)
        /\ Cardinality(Bytes(s) \cup B) = Cardinality(Bytes(s)) + Cardinality(B) - Cardinality(Bytes(s) \cap B)
    BY <1>2, <2>5, FS_Union
  <2>7. Cardinality(Bytes(s) \cap B) = 0
    BY <2>3, FS_EmptySet
  <2>8. Cardinality(Bytes(s)) \in Nat
    BY <1>2, FS_CardinalityType
  <2> QED
    BY <2>0, <2>2, <2>5, <2>6, <2>7, <2>8 DEF TotalSize
<1> QED
  BY <1>1, <1>2, FS_EmptySet DEF TotalSize

\* The bytes of messages are finite in number, and add up.
LEMMA BytesConcat ==
  ASSUME NEW s \in Seq(Msgs), NEW t \in Seq(Msgs)
  PROVE  /\ TotalSize(s) \in Nat
         /\ TotalSize(s \o t) = TotalSize(s) + TotalSize(t)
<1> DEFINE B == {u \in Seq(Msgs) : IsFiniteSet(Bytes(u))}
           T == {u \in Seq(Msgs) : TotalSize(s \o u) = TotalSize(s) + TotalSize(u)}
<1>1. Seq(Msgs) \subseteq B
  <2>1. <<>> \in B
    BY BytesAppend
  <2>2. \A u \in Seq(Msgs), m \in Msgs : u \in B => Append(u, m) \in B
    BY BytesAppend
  <2> HIDE DEF B
  <2> QED
    BY <2>1, <2>2, SequenceInduction
<1>2. \A u \in Seq(Msgs) : IsFiniteSet(Bytes(u)) /\ TotalSize(u) \in Nat
  BY <1>1, FS_CardinalityType DEF TotalSize
<1>3. <<>> \in T
  <2>1. s \o <<>> = s
    OBVIOUS
  <2> QED
    BY <1>2, <2>1, BytesAppend
<1>4. ASSUME NEW u \in Seq(Msgs), NEW m \in Msgs, u \in T PROVE Append(u, m) \in T
  <2>1. /\ s \o Append(u, m) = Append(s \o u, m)
        /\ s \o u \in Seq(Msgs) /\ Append(u, m) \in Seq(Msgs)
    OBVIOUS
  <2>2. TotalSize(Append(s \o u, m)) = TotalSize(s \o u) + Size(m)
    BY <1>2, <2>1, BytesAppend
  <2>3. TotalSize(Append(u, m)) = TotalSize(u) + Size(m)
    BY <1>2, BytesAppend
  <2>4. TotalSize(s \o u) = TotalSize(s) + TotalSize(u)
    BY <1>4
  <2>5. TotalSize(s) \in Nat /\ TotalSize(u) \in Nat /\ Size(m) \in Nat
    BY <1>2, SizeType
  <2>6. TotalSize(s \o Append(u, m)) = TotalSize(s) + TotalSize(Append(u, m))
    BY <2>2, <2>3, <2>4, <2>5, <2>1
  <2> QED
    BY <2>1, <2>6
<1>5. Seq(Msgs) \subseteq T
  <2> HIDE DEF T
  <2> QED
    BY <1>3, <1>4, SequenceInduction
<1> QED
  BY <1>2, <1>5

\* The bytes of one message.
LEMMA BytesOne ==
  ASSUME NEW m \in Msgs
  PROVE  TotalSize(<<m>>) = Size(m)
<1>1. <<m>> = Append(<<>>, m) /\ <<>> \in Seq(Msgs)
  OBVIOUS
<1>2. TotalSize(Append(<<>>, m)) = TotalSize(<<>>) + Size(m)
  BY <1>1, BytesAppend, Zenon
<1>3. TotalSize(<<>>) = 0 /\ Size(m) \in Nat
  BY BytesAppend, SizeType
<1>4. TotalSize(<<>>) + Size(m) = Size(m)
  BY <1>3
<1> QED
  BY <1>1, <1>2, <1>4, Zenon

\* The replies among messages.
LEMMA RepliesAppend ==
  /\ Replies(<<>>) = 0
  /\ \A s \in Seq(Msgs), m \in Msgs :
        /\ Replies(s) \in Nat
        /\ Replies(Append(s, m)) = Replies(s) + (IF m.kind = "reply" THEN 1 ELSE 0)
<1>1. {i \in DOMAIN <<>> : <<>>[i].kind = "reply"} = {}
  OBVIOUS
<1>2. ASSUME NEW s \in Seq(Msgs), NEW m \in Msgs
      PROVE  /\ Replies(s) \in Nat
             /\ Replies(Append(s, m)) = Replies(s) + (IF m.kind = "reply" THEN 1 ELSE 0)
  <2> DEFINE n == Len(s) + 1
             R == {i \in 1..Len(s) : s[i].kind = "reply"}
  <2>1. /\ DOMAIN s = 1..Len(s) /\ DOMAIN Append(s, m) = 1..n
        /\ \A i \in 1..Len(s) : Append(s, m)[i] = s[i]
        /\ Append(s, m)[n] = m /\ n \notin 1..Len(s)
        /\ 1..n = (1..Len(s)) \cup {n}
    OBVIOUS
  <2>2. IsFiniteSet(R) /\ Cardinality(R) \in Nat
    <3>1. IsFiniteSet(1..Len(s))
      BY FS_Interval
    <3> QED
      BY <3>1, FS_Subset, FS_CardinalityType
  <2>3. Replies(s) = Cardinality(R)
    BY <2>1 DEF Replies
  <2>4. {i \in DOMAIN Append(s, m) : Append(s, m)[i].kind = "reply"}
          = IF m.kind = "reply" THEN R \cup {n} ELSE R
    BY <2>1
  <2> HIDE DEF R, n
  <2>5. n \notin R
    BY <2>1 DEF R
  <2>6. Cardinality(R \cup {n}) = Cardinality(R) + 1
    BY <2>2, <2>5, FS_AddElement
  <2>7. CASE m.kind = "reply"
    BY <2>2, <2>3, <2>4, <2>6, <2>7 DEF Replies
  <2>8. CASE m.kind # "reply"
    <3>1. {i \in DOMAIN Append(s, m) : Append(s, m)[i].kind = "reply"} = R
      BY <2>4, <2>8
    <3>2. Replies(Append(s, m)) = Cardinality(R)
      BY <3>1 DEF Replies
    <3>3. Replies(Append(s, m)) = Replies(s)
      BY <2>3, <3>2
    <3> QED
      BY <2>2, <2>3, <2>8, <3>3
  <2> QED
    BY <2>7, <2>8
<1> QED
  BY <1>1, <1>2, FS_EmptySet DEF Replies

\* Replies add up.
LEMMA RepliesConcat ==
  ASSUME NEW s \in Seq(Msgs), NEW t \in Seq(Msgs)
  PROVE  /\ Replies(s) \in Nat
         /\ Replies(s \o t) = Replies(s) + Replies(t)
<1> DEFINE T == {u \in Seq(Msgs) : Replies(s \o u) = Replies(s) + Replies(u)}
<1>1. \A u \in Seq(Msgs) : Replies(u) \in Nat
  BY RepliesAppend DEF Msgs
<1>2. <<>> \in T
  <2>1. s \o <<>> = s
    OBVIOUS
  <2> QED
    BY <1>1, <2>1, RepliesAppend
<1>3. ASSUME NEW u \in Seq(Msgs), NEW m \in Msgs, u \in T PROVE Append(u, m) \in T
  <2>1. /\ s \o Append(u, m) = Append(s \o u, m)
        /\ s \o u \in Seq(Msgs) /\ Append(u, m) \in Seq(Msgs)
    OBVIOUS
  <2>2. Replies(Append(s \o u, m)) = Replies(s \o u) + (IF m.kind = "reply" THEN 1 ELSE 0)
    BY <2>1, RepliesAppend
  <2>3. Replies(Append(u, m)) = Replies(u) + (IF m.kind = "reply" THEN 1 ELSE 0)
    BY RepliesAppend
  <2>4. Replies(s \o u) = Replies(s) + Replies(u)
    BY <1>3
  <2>5. Replies(s) \in Nat /\ Replies(u) \in Nat
    BY <1>1
  <2>6. Replies(s \o Append(u, m)) = Replies(s) + Replies(Append(u, m))
    BY <2>1, <2>2, <2>3, <2>4, <2>5
  <2> QED
    BY <2>1, <2>6
<1>4. Seq(Msgs) \subseteq T
  <2> HIDE DEF T
  <2> QED
    BY <1>2, <1>3, SequenceInduction
<1> QED
  BY <1>1, <1>4

\* A reply on its own, and any other message.
LEMMA RepliesOne ==
  ASSUME NEW m \in Msgs
  PROVE  Replies(<<m>>) = IF m.kind = "reply" THEN 1 ELSE 0
<1>1. <<m>> = Append(<<>>, m) /\ <<>> \in Seq(Msgs)
  OBVIOUS
<1>2. Replies(Append(<<>>, m)) = Replies(<<>>) + (IF m.kind = "reply" THEN 1 ELSE 0)
  BY <1>1, RepliesAppend, Zenon
<1>3. Replies(<<>>) = 0
  BY RepliesAppend, Zenon
<1>4. CASE m.kind = "reply"
  BY <1>1, <1>2, <1>3, <1>4
<1>5. CASE m.kind # "reply"
  BY <1>1, <1>2, <1>3, <1>5
<1> QED
  BY <1>4, <1>5

\* Picking every element of a sequence, or none.
LEMMA PickAll ==
  ASSUME NEW S, NEW s \in Seq(S)
  PROVE  Picked(s, DOMAIN s) = s /\ Picked(s, {}) = <<>>
<1>1. DOMAIN s = 1..Len(s) /\ Len(s) \in Nat /\ s = [i \in 1..Len(s) |-> s[i]]
  OBVIOUS
<1>2. Cardinality(1..Len(s)) = Len(s)
  BY <1>1, FS_Interval
<1>3. ASSUME NEW n \in 1..Len(s)
      PROVE  (CHOOSE i \in 1..Len(s) : Cardinality({j \in 1..Len(s) : j <= i}) = n) = n
  <2>1. \A i \in 1..Len(s) : {j \in 1..Len(s) : j <= i} = 1..i
    BY <1>1
  <2>2. \A i \in 1..Len(s) : Cardinality({j \in 1..Len(s) : j <= i}) = i
    <3> SUFFICES ASSUME NEW i \in 1..Len(s) PROVE Cardinality({j \in 1..Len(s) : j <= i}) = i
      OBVIOUS
    <3>1. Cardinality(1..i) = i
      BY FS_Interval
    <3> QED
      BY <2>1, <3>1
  <2> QED
    BY <2>2
<1>4. Picked(s, DOMAIN s) = [n \in 1..Len(s) |-> s[n]]
  BY <1>1, <1>2, <1>3 DEF Picked
<1>5. Picked(s, {}) = <<>>
  BY FS_EmptySet DEF Picked
<1> QED
  BY <1>1, <1>4, <1>5

----
(* The inductive invariant.                                                *)

Steps == {"unconnected", "handshake", "numbered", "attached", "unstarted", "started",
          "replacing", "reading", "dispatching", "draining", "detaching", "gone"}

SinkSteps == Steps \ {"unconnected", "handshake", "numbered", "gone"}
StartedSteps == {"started", "replacing", "reading", "dispatching"}
CurrentSteps == {"replacing", "reading", "dispatching", "draining"}
EndSteps == {"draining", "detaching", "gone"}

Conns ==
    [step : Steps, generation : Nat, baseline : Baselines, old : Sinks \cup {NoSink},
     started : BOOLEAN, failed : BOOLEAN, pending : Seq(Msgs), queue : Seq(Msgs),
     queuedMessages : Int, queuedBytes : Int, lastSequence : Nat, lastRequestID : Nat,
     writer : {"none", "idle", "writing", "done"}, held : Seq(Msgs)]

\* The fields of a connection that go with the step its handler is at.
InStep(k) ==
    /\ k.started <=> k.step \in StartedSteps
    /\ k.writer \in {"idle", "writing"} <=> k.step \in {"reading", "dispatching"}
    /\ k.writer # "done"
    /\ IF k.writer = "writing" THEN Len(k.held) = 1 ELSE k.held = <<>>
    /\ k.started => k.pending = <<>>
    /\ ~k.started => k.queue = <<>> /\ k.lastRequestID = 0
    /\ k.step \in {"unconnected", "handshake", "numbered"} => k.pending = <<>>

\* What reserve and release have counted.
Counted(k) ==
    /\ k.queuedMessages = Len(Outstanding(k))
    /\ k.queuedBytes = TotalSize(Outstanding(k))
    /\ k.queuedMessages <= MaxQueueMessages
    /\ k.queuedBytes <= MaxQueueBytes

\* A shell that is given nothing but the baseline.
Primed(k) == [NewShell EXCEPT !.stage = "live", !.view = k.baseline]

\* Before start: the peer has read nothing, and the backlog follows on the
\* baseline.
Waiting(k, p) == p.open => p = NewShell

Backlogged(k, attached, v) ==
    LET last == After(Primed(k), k.pending) IN
    /\ \A i \in DOMAIN k.pending : k.pending[i].seq > k.baseline.sequence
    /\ last.stage = "live"
    /\ last.view.sequence = k.baseline.sequence + Len(k.pending)
    /\ last.answered = <<>> /\ Replies(k.pending) = 0
    /\ attached => last.view = v

\* The commands that ran.
Ran(k, p) == IF k.step = "dispatching" THEN Front(p.asked) ELSE p.asked

\* After start: the shell will have read everything up to lastSequence and
\* the answers to all commands that ran.
Streaming(k, p, attached, v) ==
    LET last == After(p, Outstanding(k)) IN
    /\ last.stage = "live"
    /\ last.view.sequence = k.lastSequence
    /\ attached => last.view = v
    /\ last.answered = Ran(k, p)
    /\ Len(Ran(k, p)) = Len(p.answered) + Replies(Outstanding(k))

Asking(k, p) ==
    /\ k.step \notin {"reading", "dispatching"} => p.asked = <<>>
    /\ k.step = "dispatching" => p.asked # <<>>
    /\ p.asked # <<>> => p.asked[Len(p.asked)] = k.lastRequestID

\* Of every peer, also of one whose connection failed.
Orderly(p) ==
    /\ p.stage # "confused"
    /\ ~p.open => p = LeftShell
    /\ Increasing(p.asked)
    /\ IsPrefix(p.answered, p.asked)

\* Of a connection k with peer p; attached tells whether it is the sink, and
\* v what the sink was told.
Served(k, p, attached, v) ==
    /\ k \in Conns /\ p \in Shells
    /\ k.step \in EndSteps => k.failed
    /\ Orderly(p)
    /\ ~k.failed =>
          /\ InStep(k)
          /\ k.step # "unstarted" => Counted(k)
          /\ ~k.started => Waiting(k, p)
          /\ k.step \in {"attached", "unstarted"} => Backlogged(k, attached, v)
          /\ k.started /\ p.open => Streaming(k, p, attached, v) /\ Asking(k, p)

\* Who may be the sink or the current presenter, and what Close waits for.
Roles ==
    /\ conn \in [Sinks -> Conns] /\ shell \in [Sinks -> Shells]
    /\ current \in Sinks \cup {NoSink} /\ nextGen \in Nat
    /\ sink # NoSink => conn[sink].step \in SinkSteps
    /\ current # NoSink => conn[current].step \in CurrentSteps
    /\ closing = "done" => \A c \in Sinks : Finished(c)

PInv ==
    /\ Inv
    /\ Roles
    /\ \A c \in Sinks : Served(conn[c], shell[c], sink = c, view)

----
(* The steps of one connection.                                            *)

\* A failed connection serves nobody: whatever its handler does next keeps
\* what is asked of it.
LEMMA FailedServed ==
  ASSUME NEW k \in Conns, NEW p \in Shells, Orderly(p), NEW s \in Steps
  PROVE  /\ Failed(k) \in Conns /\ Failed(k).failed /\ Failed(k).step = k.step
         /\ [Failed(k) EXCEPT !.step = s] \in Conns
         /\ \A attached, v : Served(Failed(k), p, attached, v)
         /\ \A attached, v : Served([Failed(k) EXCEPT !.step = s], p, attached, v)
<1>1. /\ Failed(k) \in Conns /\ Failed(k).failed /\ Failed(k).step = k.step
      /\ [Failed(k) EXCEPT !.step = s] \in Conns /\ [Failed(k) EXCEPT !.step = s].failed
  <2>1. <<>> \in Seq(Msgs) /\ 0 \in Int
    OBVIOUS
  <2> QED
    BY <2>1 DEF Failed, Conns
<1> HIDE DEF Failed
<1> QED
  BY <1>1 DEF Served

\* Whether a connection is attached matters only while it is.
LEMMA ServedDetached ==
  ASSUME NEW k, NEW p, NEW a, NEW v, Served(k, p, a, v), NEW b, NEW w,
         b => a /\ w = v
  PROVE  Served(k, p, b, w)
<1>1. Backlogged(k, a, v) => Backlogged(k, b, w)
  BY DEF Backlogged
<1>2. Streaming(k, p, a, v) => Streaming(k, p, b, w)
  BY DEF Streaming
<1> QED
  BY <1>1, <1>2 DEF Served

\* A peer that was sent nothing yet.
LEMMA NewShellType ==
  /\ NewShell \in Shells /\ Orderly(NewShell) /\ NewShell.open
  /\ NewShell.stage = "connecting" /\ NewShell.asked = <<>> /\ NewShell.answered = <<>>
<1>1. EmptyView \in Pictures
  BY DEF EmptyView, Pictures
<1>2. /\ NewShell \in Shells /\ NewShell.open
      /\ NewShell.stage = "connecting" /\ NewShell.asked = <<>> /\ NewShell.answered = <<>>
  <2>1. <<>> \in Seq(Nat)
    OBVIOUS
  <2> HIDE DEF EmptyView
  <2> QED
    BY <1>1, <2>1 DEF NewShell, Shells
<1>3. Orderly(NewShell)
  BY <1>2 DEF Orderly, Increasing, IsPrefix
<1> QED
  BY <1>2, <1>3

\* The peer leaves: nothing more is asked of what it will have read.
LEMMA LeavingServed ==
  ASSUME NEW k, NEW p, NEW a, NEW v, Served(k, p, a, v)
  PROVE  LeftShell \in Shells /\ Served(k, LeftShell, a, v)
<1>1. /\ LeftShell \in Shells /\ ~LeftShell.open /\ LeftShell.stage = "connecting"
      /\ LeftShell.asked = <<>> /\ LeftShell.answered = <<>>
  <2> HIDE DEF NewShell
  <2> QED
    BY NewShellType DEF LeftShell, Shells
<1>2. Orderly(LeftShell)
  BY <1>1 DEF Orderly, Increasing, IsPrefix
<1> QED
  BY <1>1, <1>2 DEF Served, Waiting

\* Appending to the second of two sequences appends to both together.
LEMMA AppendLast ==
  ASSUME NEW S, NEW s \in Seq(S), NEW t \in Seq(S), NEW e \in S
  PROVE  s \o Append(t, e) = Append(s \o t, e)
OBVIOUS

\* What is outstanding, and one message more at the end of it.
LEMMA OutstandingType ==
  ASSUME NEW k \in Conns
  PROVE  Outstanding(k) \in Seq(Msgs) /\ Len(Outstanding(k)) \in Nat
BY DEF Outstanding, Conns

\* A message reserved and queued behind the others is counted.
LEMMA ReserveCounted ==
  ASSUME NEW k \in Conns, NEW m \in Msgs, NEW k2, Counted(k), CanReserve(k, m),
         k2.queuedMessages = k.queuedMessages + 1,
         k2.queuedBytes = k.queuedBytes + Size(m),
         Outstanding(k2) = Append(Outstanding(k), m)
  PROVE  Counted(k2)
<1> DEFINE o == Outstanding(k)
<1>1. o \in Seq(Msgs)
  BY OutstandingType
<1> HIDE DEF o
<1>2. o \o <<m>> = Append(o, m) /\ <<m>> \in Seq(Msgs) /\ Len(Append(o, m)) = Len(o) + 1
  BY <1>1
<1>3. TotalSize(Append(o, m)) = TotalSize(o) + Size(m)
  <2>1. TotalSize(o \o <<m>>) = TotalSize(o) + TotalSize(<<m>>)
    BY <1>1, <1>2, BytesConcat
  <2> QED
    BY <1>2, <2>1, BytesOne
<1>4. Size(m) \in Nat /\ TotalSize(o) \in Nat /\ Len(o) \in Nat
  BY <1>1, SizeType, BytesConcat
<1> QED
  BY <1>2, <1>3, <1>4 DEF Counted, CanReserve, o

\* publish to an attached connection whose queue takes the delta: its shell
\* will have read exactly what the sink was told.
LEMMA SentServed ==
  ASSUME NEW k, NEW p, NEW v \in Pictures, NEW d \in Deltas, d # NoDelta,
         Served(k, p, TRUE, v), k.step \in SinkSteps,
         SendAccepts(k, DeltaMsg(v.sequence + 1, d))
  PROVE  /\ Served(Sent(k, DeltaMsg(v.sequence + 1, d)), p, TRUE, Apply(v, d))
         /\ Sent(k, DeltaMsg(v.sequence + 1, d)).step = k.step
<1> DEFINE m == DeltaMsg(v.sequence + 1, d)
           k2 == Sent(k, m)
<1>1. /\ m \in Msgs /\ m.kind = "delta" /\ m.seq = v.sequence + 1 /\ m.body = d
      /\ v.sequence \in Nat /\ m.seq # 0
  BY DEF DeltaMsg, Msgs, Pictures
<1> HIDE DEF m
<1>2. /\ k \in Conns /\ p \in Shells /\ Orderly(p) /\ ~k.failed /\ InStep(k)
      /\ k.step \notin EndSteps
  BY <1>1 DEF Served, SendAccepts, m
<1>3. CanReserve(k, m)
  BY DEF SendAccepts, m
<1>4. Size(m) \in Nat
  BY <1>1, SizeType
<1>5. CASE k.started
  <2>1. k2 = [k EXCEPT !.queuedMessages = @ + 1, !.queuedBytes = @ + Size(m),
                       !.queue = Append(@, m), !.lastSequence = m.seq]
    BY <1>2, <1>5 DEF Sent, Reserve, Conns
  <2>2. /\ Append(k.queue, m) \in Seq(Msgs) /\ m.seq \in Nat
        /\ k.queuedMessages + 1 \in Int /\ k.queuedBytes + Size(m) \in Int
    BY <1>1, <1>2, <1>4 DEF Conns
  <2> HIDE DEF k2
  <2>3. /\ k2 \in Conns /\ k2.step = k.step /\ k2.failed = k.failed /\ k2.started = k.started
        /\ k2.writer = k.writer /\ k2.held = k.held /\ k2.pending = k.pending
        /\ k2.lastRequestID = k.lastRequestID /\ k2.lastSequence = m.seq
        /\ k2.queuedMessages = k.queuedMessages + 1
        /\ k2.queuedBytes = k.queuedBytes + Size(m)
        /\ k2.queue = Append(k.queue, m)
    BY <1>2, <2>1, <2>2 DEF Conns
  <2>4. /\ k.pending = <<>> /\ k.step \in StartedSteps
        /\ k.held \in Seq(Msgs) /\ k.queue \in Seq(Msgs)
    BY <1>2, <1>5 DEF InStep, Conns
  <2>5. Outstanding(k2) = Append(Outstanding(k), m)
    <3>1. k.held \o Append(k.queue, m) = Append(k.held \o k.queue, m)
      <4>1. \A s, t \in Seq(Msgs) : s \o Append(t, m) = Append(s \o t, m)
        BY <1>1, AppendLast
      <4> QED
        BY <2>4, <4>1
    <3>2. /\ k.held \o k.queue \in Seq(Msgs)
          /\ Append(k.held \o k.queue, m) \in Seq(Msgs)
      BY <1>1, <2>4
    <3>3. /\ Outstanding(k) = k.held \o k.queue
          /\ Append(k.held \o k.queue, m) \o <<>> = Append(k.held \o k.queue, m)
      BY <2>4, <3>2, ConcatEmptySeq DEF Outstanding
    <3> QED
      BY <2>3, <2>4, <3>1, <3>3 DEF Outstanding
  <2>6. InStep(k2)
    BY <1>2, <1>5, <2>3 DEF InStep
  <2>7. Counted(k2)
    <3>1. Counted(k)
      BY <1>2, <2>4 DEF Served, StartedSteps
    <3> QED
      BY <1>1, <1>2, <1>3, <2>3, <2>5, <3>1, ReserveCounted
  <2>8. ASSUME p.open PROVE Streaming(k2, p, TRUE, Apply(v, d)) /\ Asking(k2, p)
    <3>1. Streaming(k, p, TRUE, v) /\ Asking(k, p)
      BY <1>2, <1>5, <2>8 DEF Served
    <3> DEFINE last == After(p, Outstanding(k))
    <3>2. /\ last.stage = "live" /\ last.view.sequence = k.lastSequence
          /\ last.view = v /\ last.answered = Ran(k, p)
      BY <3>1 DEF Streaming
    <3>3. last \in Shells /\ Outstanding(k) \in Seq(Msgs)
      BY <1>2, OutstandingType, AfterKeeps
    <3>4. After(p, Outstanding(k2)) = Understand(last, m)
      BY <1>1, <2>5, <3>3, AfterAppend
    <3> HIDE DEF last
    <3>5. Understand(last, m) = [last EXCEPT !.view = Apply(v, d)]
      BY <1>1, <3>2 DEF Understand
    <3>6. Apply(v, d).sequence = m.seq
      BY <1>1 DEF Apply
    <3>7. Replies(Outstanding(k2)) = Replies(Outstanding(k))
      BY <1>1, <2>5, <3>3, RepliesAppend
    <3>8. Ran(k2, p) = Ran(k, p)
      BY <2>3 DEF Ran
    <3>9. /\ After(p, Outstanding(k2)).stage = "live" /\ After(p, Outstanding(k2)).view = Apply(v, d)
          /\ After(p, Outstanding(k2)).answered = Ran(k2, p)
      BY <3>2, <3>3, <3>4, <3>5, <3>8 DEF Shells
    <3>10. Len(Ran(k2, p)) = Len(p.answered) + Replies(Outstanding(k2))
      BY <3>1, <3>7, <3>8 DEF Streaming
    <3> QED
      BY <2>3, <3>1, <3>6, <3>9, <3>10 DEF Streaming, Asking
  <2> QED
    BY <1>2, <1>5, <2>3, <2>4, <2>6, <2>7, <2>8 DEF Served, StartedSteps, k2, m
<1>6. CASE ~k.started
  <2>1. k2 = [k EXCEPT !.queuedMessages = @ + 1, !.queuedBytes = @ + Size(m),
                       !.pending = Append(@, m)]
    BY <1>2, <1>6 DEF Sent, Reserve, Conns
  <2>2. /\ Append(k.pending, m) \in Seq(Msgs)
        /\ k.queuedMessages + 1 \in Int /\ k.queuedBytes + Size(m) \in Int
    BY <1>1, <1>2, <1>4 DEF Conns
  <2> HIDE DEF k2
  <2>3. /\ k2 \in Conns /\ k2.step = k.step /\ k2.failed = k.failed /\ k2.started = k.started
        /\ k2.writer = k.writer /\ k2.held = k.held /\ k2.queue = k.queue
        /\ k2.lastRequestID = k.lastRequestID /\ k2.baseline = k.baseline
        /\ k2.queuedMessages = k.queuedMessages + 1
        /\ k2.queuedBytes = k.queuedBytes + Size(m)
        /\ k2.pending = Append(k.pending, m)
    BY <1>2, <2>1, <2>2 DEF Conns
  <2>4. k.step \in {"attached", "unstarted"}
    BY <1>2, <1>6 DEF InStep, SinkSteps, Steps, StartedSteps, EndSteps
  <2>5. k.queue = <<>> /\ k.held = <<>> /\ k.pending \in Seq(Msgs)
    BY <1>2, <1>6, <2>4 DEF InStep, Conns
  <2>6. Outstanding(k2) = Append(Outstanding(k), m)
    BY <1>1, <2>3, <2>5 DEF Outstanding
  <2>7. InStep(k2)
    BY <1>2, <1>6, <2>3, <2>4 DEF InStep
  <2>8. k2.step # "unstarted" => Counted(k2)
    <3>1. k.step # "unstarted" => Counted(k)
      BY <1>2 DEF Served
    <3> QED
      BY <1>1, <1>2, <1>3, <2>3, <2>6, <3>1, ReserveCounted
  <2>9. Backlogged(k2, TRUE, Apply(v, d))
    <3>1. Backlogged(k, TRUE, v)
      BY <1>2, <2>4 DEF Served
    <3> DEFINE last == After(Primed(k), k.pending)
    <3>2. /\ last.stage = "live" /\ last.view = v
          /\ last.view.sequence = k.baseline.sequence + Len(k.pending)
          /\ last.answered = <<>> /\ Replies(k.pending) = 0
          /\ \A i \in DOMAIN k.pending : k.pending[i].seq > k.baseline.sequence
      BY <3>1 DEF Backlogged
    <3>3. k.baseline \in Pictures /\ k.baseline.sequence \in Nat /\ Len(k.pending) \in Nat
      BY <1>2, <2>5 DEF Conns, Baselines, Pictures
    <3>4. Primed(k) \in Shells
      BY <3>3, NewShellType DEF Primed, Shells
    <3>5. last \in Shells
      BY <2>5, <3>4, AfterKeeps
    <3>6. Primed(k2) = Primed(k)
      BY <2>3 DEF Primed
    <3>7. After(Primed(k2), k2.pending) = Understand(last, m)
      BY <1>1, <2>3, <2>5, <3>6, AfterAppend
    <3> HIDE DEF last
    <3>8. Understand(last, m) = [last EXCEPT !.view = Apply(v, d)]
      BY <1>1, <3>2 DEF Understand
    <3>9. /\ After(Primed(k2), k2.pending).stage = "live"
          /\ After(Primed(k2), k2.pending).view = Apply(v, d)
          /\ After(Primed(k2), k2.pending).answered = <<>>
      BY <3>2, <3>5, <3>7, <3>8 DEF Shells
    <3>10. /\ Len(k2.pending) = Len(k.pending) + 1
           /\ m.seq = k.baseline.sequence + Len(k.pending) + 1
      BY <1>1, <2>3, <2>5, <3>2
    <3>11. Apply(v, d).sequence = k2.baseline.sequence + Len(k2.pending)
      BY <1>1, <2>3, <3>3, <3>10 DEF Apply
    <3>12. \A i \in DOMAIN k2.pending : k2.pending[i].seq > k2.baseline.sequence
      <4>1. /\ DOMAIN k2.pending = 1..(Len(k.pending) + 1) /\ DOMAIN k.pending = 1..Len(k.pending)
            /\ \A i \in 1..Len(k.pending) : k2.pending[i] = k.pending[i]
            /\ k2.pending[Len(k.pending) + 1] = m
        BY <2>3, <2>5
      <4>2. m.seq > k2.baseline.sequence
        BY <2>3, <3>3, <3>10
      <4> QED
        BY <2>3, <3>2, <3>3, <4>1, <4>2
    <3>13. Replies(k2.pending) = 0
      BY <1>1, <2>3, <2>5, <3>2, RepliesAppend
    <3> QED
      BY <3>9, <3>11, <3>12, <3>13 DEF Backlogged
  <2>10. Waiting(k2, p)
    BY <1>2, <1>6 DEF Served, Waiting
  <2> QED
    BY <1>2, <1>6, <2>3, <2>7, <2>8, <2>9, <2>10 DEF Served, k2, m
<1> QED
  BY <1>2, <1>5, <1>6 DEF Conns, m

\* A step that leaves the queues alone leaves alone what is said of them.
LEMMA SameQueues ==
  ASSUME NEW k, NEW k2,
         k2.pending = k.pending, k2.queue = k.queue, k2.held = k.held,
         k2.queuedMessages = k.queuedMessages, k2.queuedBytes = k.queuedBytes,
         k2.baseline = k.baseline, k2.lastSequence = k.lastSequence
  PROVE  /\ Outstanding(k2) = Outstanding(k)
         /\ Counted(k) => Counted(k2)
         /\ \A a, v : Backlogged(k, a, v) => Backlogged(k2, a, v)
         /\ \A p, a, v : Ran(k2, p) = Ran(k, p) /\ Streaming(k, p, a, v) => Streaming(k2, p, a, v)
<1>1. Outstanding(k2) = Outstanding(k)
  BY DEF Outstanding
<1>2. Counted(k) => Counted(k2)
  BY <1>1 DEF Counted
<1>3. Primed(k2) = Primed(k)
  BY DEF Primed
<1>4. \A a, v : Backlogged(k, a, v) => Backlogged(k2, a, v)
  BY <1>3 DEF Backlogged
<1>5. \A p, a, v : Ran(k2, p) = Ran(k, p) /\ Streaming(k, p, a, v) => Streaming(k2, p, a, v)
  BY <1>1 DEF Streaming
<1> QED
  BY <1>1, <1>2, <1>4, <1>5

\* The handshake: a connection is accepted, and then numbered.
LEMMA HandshakeServed ==
  ASSUME NEW k, NEW p, NEW a, NEW v, Served(k, p, a, v),
         NEW s \in {"handshake", "numbered"}, NEW g \in Nat,
         k.step \in {"unconnected", "handshake"}
  PROVE  Served([k EXCEPT !.step = s, !.generation = g], p, a, v)
<1> DEFINE k2 == [k EXCEPT !.step = s, !.generation = g]
<1>1. /\ k2 \in Conns /\ k2.step = s /\ k2.failed = k.failed /\ k2.started = k.started
      /\ k2.writer = k.writer /\ k2.held = k.held /\ k2.pending = k.pending
      /\ k2.queue = k.queue /\ k2.lastRequestID = k.lastRequestID /\ k2.baseline = k.baseline
      /\ k2.lastSequence = k.lastSequence
      /\ k2.queuedMessages = k.queuedMessages /\ k2.queuedBytes = k.queuedBytes
  BY DEF Served, Conns, Steps
<1> HIDE DEF k2
<1>2. k2.step \notin EndSteps /\ k2.step \notin StartedSteps /\ k.step \notin StartedSteps
  BY <1>1 DEF EndSteps, StartedSteps
<1>3. ~k.failed => InStep(k2)
  BY <1>1, <1>2 DEF Served, InStep
<1>4. Counted(k) => Counted(k2)
  BY <1>1, SameQueues
<1> QED
  BY <1>1, <1>2, <1>3, <1>4 DEF Served, Waiting, InStep, k2

\* Attach: what the sink was told is the baseline, and the backlog is empty.
LEMMA AttachServed ==
  ASSUME NEW k, NEW p, NEW a, NEW w, Served(k, p, a, w), k.step = "numbered",
         NEW v \in Baselines
  PROVE  Served([k EXCEPT !.step = "attached", !.baseline = v], p, TRUE, v)
<1> DEFINE k2 == [k EXCEPT !.step = "attached", !.baseline = v]
<1>1. /\ k2 \in Conns /\ k2.step = "attached" /\ k2.failed = k.failed /\ k2.started = k.started
      /\ k2.writer = k.writer /\ k2.held = k.held /\ k2.pending = k.pending
      /\ k2.queue = k.queue /\ k2.lastRequestID = k.lastRequestID /\ k2.baseline = v
      /\ k2.queuedMessages = k.queuedMessages /\ k2.queuedBytes = k.queuedBytes
  BY DEF Served, Conns, Steps
<1> HIDE DEF k2
<1>2. k2.step \notin EndSteps /\ k2.step \notin StartedSteps /\ k.step \notin StartedSteps
  BY <1>1 DEF EndSteps, StartedSteps
<1>3. ~k.failed => InStep(k2) /\ k2.pending = <<>>
  BY <1>1, <1>2 DEF Served, InStep
<1>4. Counted(k) => Counted(k2)
  BY <1>1 DEF Counted, Outstanding
<1>5. ~k.failed => Backlogged(k2, TRUE, v)
  <2> SUFFICES ASSUME ~k.failed PROVE Backlogged(k2, TRUE, v)
    OBVIOUS
  <2>1. After(Primed(k2), k2.pending) = Primed(k2)
    BY <1>3, AfterNothing
  <2>2. Primed(k2).stage = "live" /\ Primed(k2).view = v /\ Primed(k2).answered = <<>>
    BY <1>1, NewShellType DEF Primed, Shells
  <2>3. v.sequence \in Nat
    BY DEF Baselines, Pictures
  <2>4. DOMAIN k2.pending = {} /\ Len(k2.pending) = 0
    BY <1>3
  <2>5. Replies(k2.pending) = 0
    BY <1>3, RepliesAppend
  <2> QED
    BY <1>1, <2>1, <2>2, <2>3, <2>4, <2>5 DEF Backlogged
<1> QED
  BY <1>1, <1>2, <1>3, <1>4, <1>5 DEF Served, Waiting, InStep, k2

\* A connection that could not start, until its handler detaches it.
LEMMA UnstartedServed ==
  ASSUME NEW k, NEW p, NEW a, NEW v, Served(k, p, a, v), k.step = "attached"
  PROVE  Served([k EXCEPT !.step = "unstarted"], p, a, v)
<1> DEFINE k2 == [k EXCEPT !.step = "unstarted"]
<1>1. /\ k2 \in Conns /\ k2.step = "unstarted" /\ k2.failed = k.failed /\ k2.started = k.started
      /\ k2.writer = k.writer /\ k2.held = k.held /\ k2.pending = k.pending
      /\ k2.queue = k.queue /\ k2.lastRequestID = k.lastRequestID /\ k2.baseline = k.baseline
      /\ k2.lastSequence = k.lastSequence
      /\ k2.queuedMessages = k.queuedMessages /\ k2.queuedBytes = k.queuedBytes
  BY DEF Served, Conns, Steps
<1> HIDE DEF k2
<1>2. k2.step \notin EndSteps /\ k2.step \notin StartedSteps /\ k.step \notin StartedSteps
  BY <1>1 DEF EndSteps, StartedSteps
<1>3. ~k.failed => InStep(k2)
  BY <1>1, <1>2 DEF Served, InStep
<1>4. Backlogged(k, a, v) => Backlogged(k2, a, v)
  BY <1>1, SameQueues
<1> QED
  BY <1>1, <1>2, <1>3, <1>4 DEF Served, Waiting, InStep, k2

\* Becoming the current presenter.
LEMMA ReplacingServed ==
  ASSUME NEW k, NEW p, NEW a, NEW v, Served(k, p, a, v), k.step = "started",
         NEW o \in Sinks \cup {NoSink}
  PROVE  Served([k EXCEPT !.step = "replacing", !.old = o], p, a, v)
<1> DEFINE k2 == [k EXCEPT !.step = "replacing", !.old = o]
<1>1. /\ k2 \in Conns /\ k2.step = "replacing" /\ k2.failed = k.failed /\ k2.started = k.started
      /\ k2.writer = k.writer /\ k2.held = k.held /\ k2.pending = k.pending
      /\ k2.queue = k.queue /\ k2.lastRequestID = k.lastRequestID /\ k2.baseline = k.baseline
      /\ k2.lastSequence = k.lastSequence
      /\ k2.queuedMessages = k.queuedMessages /\ k2.queuedBytes = k.queuedBytes
  BY DEF Served, Conns, Steps
<1> HIDE DEF k2
<1>2. k2.step \notin EndSteps /\ k2.step \in StartedSteps /\ k.step \in StartedSteps
  BY <1>1 DEF EndSteps, StartedSteps
<1>3. ~k.failed => InStep(k2)
  BY <1>1, <1>2 DEF Served, InStep
<1>4. Ran(k2, p) = Ran(k, p)
  BY <1>1 DEF Ran
<1>5. /\ Counted(k) => Counted(k2)
      /\ Streaming(k, p, a, v) => Streaming(k2, p, a, v)
  BY <1>1, <1>4, SameQueues
<1>6. Asking(k, p) => Asking(k2, p)
  BY <1>1 DEF Asking
<1> QED
  BY <1>1, <1>2, <1>3, <1>5, <1>6 DEF Served, InStep, k2

\* The writer starts, and commands are read.
LEMMA ReadingServed ==
  ASSUME NEW k, NEW p, NEW a, NEW v, Served(k, p, a, v), k.step = "replacing"
  PROVE  Served([k EXCEPT !.step = "reading", !.writer = "idle", !.old = NoSink], p, a, v)
<1> DEFINE k2 == [k EXCEPT !.step = "reading", !.writer = "idle", !.old = NoSink]
<1>1. /\ k2 \in Conns /\ k2.step = "reading" /\ k2.failed = k.failed /\ k2.started = k.started
      /\ k2.writer = "idle" /\ k2.held = k.held /\ k2.pending = k.pending
      /\ k2.queue = k.queue /\ k2.lastRequestID = k.lastRequestID /\ k2.baseline = k.baseline
      /\ k2.lastSequence = k.lastSequence
      /\ k2.queuedMessages = k.queuedMessages /\ k2.queuedBytes = k.queuedBytes
  BY DEF Served, Conns, Steps
<1> HIDE DEF k2
<1>2. k2.step \notin EndSteps /\ k2.step \in StartedSteps /\ k.step \in StartedSteps
  BY <1>1 DEF EndSteps, StartedSteps
<1>3. ~k.failed => InStep(k2)
  BY <1>1, <1>2 DEF Served, InStep
<1>4. Ran(k2, p) = Ran(k, p)
  BY <1>1 DEF Ran
<1>5. /\ Counted(k) => Counted(k2)
      /\ Streaming(k, p, a, v) => Streaming(k2, p, a, v)
  BY <1>1, <1>4, SameQueues
<1>6. Asking(k, p) => Asking(k2, p)
  BY <1>1 DEF Asking
<1> QED
  BY <1>1, <1>2, <1>3, <1>5, <1>6 DEF Served, InStep, k2

\* The prologue brings a shell that was sent nothing its baseline.
LEMMA PrologueRead ==
  ASSUME NEW k \in Conns
  PROVE  After(NewShell, Prologue(k)) = Primed(k)
<1> DEFINE h == HelloMsg
           b == SnapshotMsg(k.baseline)
           g == [NewShell EXCEPT !.stage = "greeted"]
<1>1. k.baseline \in Baselines
  BY DEF Conns
<1>2. /\ h \in Msgs /\ h.kind = "hello"
      /\ b \in Msgs /\ b.kind = "snapshot" /\ b.body = k.baseline
  BY <1>1 DEF Msgs, HelloMsg, SnapshotMsg, Baselines, Pictures
<1> HIDE DEF h, b
<1>3. Prologue(k) = <<h>> \o <<b>> /\ <<h>> \in Seq(Msgs) /\ <<b>> \in Seq(Msgs)
  BY <1>2 DEF Prologue, h, b
<1>4. Understand(NewShell, h) = g
  BY <1>2, NewShellType DEF Understand
<1>5. Understand(g, b) = Primed(k)
  <2>1. g.stage = "greeted"
    BY NewShellType DEF Shells
  <2>2. Understand(g, b) = [g EXCEPT !.stage = "live", !.view = k.baseline]
    BY <1>2, <2>1 DEF Understand
  <2> QED
    BY <2>2, NewShellType DEF Primed, Shells
<1>6. After(NewShell, <<h>> \o <<b>>) = After(After(NewShell, <<h>>), <<b>>)
  BY <1>3, AfterConcat
<1>7. After(NewShell, <<h>>) = g
  BY <1>2, <1>4, AfterOne
<1>8. After(g, <<b>>) = Primed(k)
  BY <1>2, <1>5, AfterOne
<1> QED
  BY <1>3, <1>6, <1>7, <1>8

\* start: hello, snapshot and backlog are queued; the shell will read the
\* baseline and go on to what the sink was told.
LEMMA StartedServed ==
  ASSUME NEW k, NEW p, NEW a, NEW v, Served(k, p, a, v), k.step = "attached", StartAccepts(k)
  PROVE  Served(Started(k), p, a, v) /\ Started(k).step = "started"
<1> DEFINE h == HelloMsg
           b == SnapshotMsg(k.baseline)
           k2 == Started(k)
<1>1. /\ k \in Conns /\ p \in Shells /\ Orderly(p) /\ ~k.failed /\ ~k.started /\ InStep(k)
      /\ Counted(k) /\ Waiting(k, p) /\ Backlogged(k, a, v)
  BY DEF Served, StartAccepts, InStep, StartedSteps
<1>2. /\ k.pending \in Seq(Msgs) /\ k.queue = <<>> /\ k.held = <<>> /\ k.lastRequestID = 0
      /\ k.writer \notin {"writing", "idle", "done"}
      /\ k.baseline \in Baselines /\ k.baseline.sequence \in Nat
      /\ k.queuedMessages \in Int /\ k.queuedBytes \in Int
  BY <1>1 DEF InStep, Conns, Baselines, Pictures
<1>3. /\ h \in Msgs /\ h.kind = "hello"
      /\ b \in Msgs /\ b.kind = "snapshot" /\ b.body = k.baseline
  BY <1>2 DEF Msgs, HelloMsg, SnapshotMsg
<1> HIDE DEF h, b
<1>4. Outstanding(k) = k.pending
  BY <1>2 DEF Outstanding
<1>5. Backlog(k) = k.pending /\ Early(k) = <<>>
  <2>1. \A i \in DOMAIN k.pending : k.pending[i].seq > k.baseline.sequence /\ k.pending[i].seq \in Nat
    <3> SUFFICES ASSUME NEW i \in DOMAIN k.pending
                 PROVE  k.pending[i].seq > k.baseline.sequence /\ k.pending[i].seq \in Nat
      OBVIOUS
    <3>1. k.pending[i].seq > k.baseline.sequence
      BY <1>1 DEF Backlogged
    <3>2. k.pending[i] \in Msgs
      BY <1>2
    <3>3. k.pending[i].seq \in Nat
      BY <3>2 DEF Msgs, HelloMsg
    <3> QED
      BY <3>1, <3>3
  <2>2. {i \in DOMAIN k.pending : k.pending[i].seq > k.baseline.sequence} = DOMAIN k.pending
    BY <2>1
  <2>3. {i \in DOMAIN k.pending : k.pending[i].seq <= k.baseline.sequence} = {}
    BY <1>2, <2>1
  <2> QED
    BY <1>2, <2>2, <2>3, PickAll DEF Backlog, Early
<1>6. /\ Size(h) \in Nat /\ Size(b) \in Nat /\ Len(k.pending) \in Nat
      /\ TotalSize(<<>>) = 0 /\ Len(<<>>) = 0
  BY <1>2, <1>3, SizeType, BytesAppend
<1>7. Prologue(k) = <<h>> \o <<b>> /\ <<h>> \in Seq(Msgs) /\ <<b>> \in Seq(Msgs)
  BY <1>3 DEF Prologue, h, b
<1> DEFINE o == Prologue(k) \o k.pending
<1>8. Prologue(k) \in Seq(Msgs) /\ o \in Seq(Msgs)
  BY <1>2, <1>7
<1>9. EmptyView \in Baselines
  BY FS_EmptySet DEF EmptyView, Baselines, Pictures
<1>10. Reserved(k) = [k EXCEPT !.queuedMessages = k.queuedMessages + 2,
                               !.queuedBytes = k.queuedBytes + Size(h) + Size(b)]
  <2>1. Reserve(k, h) = [k EXCEPT !.queuedMessages = k.queuedMessages + 1,
                                  !.queuedBytes = k.queuedBytes + Size(h)]
    BY DEF Reserve
  <2>2. /\ Reserve(k, h).queuedMessages = k.queuedMessages + 1
        /\ Reserve(k, h).queuedBytes = k.queuedBytes + Size(h)
    BY <1>1, <2>1 DEF Conns
  <2>3. (k.queuedMessages + 1) + 1 = k.queuedMessages + 2
    BY <1>2
  <2>4. Reserve(Reserve(k, h), b)
          = [Reserve(k, h) EXCEPT !.queuedMessages = k.queuedMessages + 2,
                                  !.queuedBytes = k.queuedBytes + Size(h) + Size(b)]
    BY <2>2, <2>3 DEF Reserve
  <2>5. Reserve(Reserve(k, h), b)
          = [k EXCEPT !.queuedMessages = k.queuedMessages + 2,
                      !.queuedBytes = k.queuedBytes + Size(h) + Size(b)]
    BY <1>1, <2>1, <2>4 DEF Conns
  <2> QED
    BY <2>5 DEF Reserved, h, b
<1>11. k2 = [k EXCEPT !.queuedMessages = k.queuedMessages + 2,
                      !.queuedBytes = k.queuedBytes + Size(h) + Size(b),
                      !.queue = o, !.pending = <<>>, !.started = TRUE, !.baseline = EmptyView,
                      !.lastSequence = k.baseline.sequence + Len(k.pending), !.step = "started"]
  <2> DEFINE r == Reserved(k)
             n == k.queuedMessages + 2
             w == k.queuedBytes + Size(h) + Size(b)
  <2>1. n - 0 = n /\ w - 0 = w
    BY <1>2, <1>6
  <2>2. r.queuedMessages = n /\ r.queuedBytes = w
    BY <1>1, <1>10 DEF Conns
  <2>3. /\ r.queuedMessages - Len(Early(k)) = n
        /\ r.queuedBytes - TotalSize(Early(k)) = w
    BY <1>5, <1>6, <2>1, <2>2
  <2> HIDE DEF EmptyView, r, n, w
  <2>4. k2 = [r EXCEPT !.queuedMessages = n, !.queuedBytes = w,
                       !.queue = o, !.pending = <<>>, !.started = TRUE, !.baseline = EmptyView,
                       !.lastSequence = k.baseline.sequence + Len(k.pending), !.step = "started"]
    BY <1>5, <2>3 DEF Started, r
  <2>5. r = [k EXCEPT !.queuedMessages = n, !.queuedBytes = w]
    BY <1>10 DEF r, n, w
  <2>6. k2 = [k EXCEPT !.queuedMessages = n, !.queuedBytes = w,
                       !.queue = o, !.pending = <<>>, !.started = TRUE, !.baseline = EmptyView,
                       !.lastSequence = k.baseline.sequence + Len(k.pending), !.step = "started"]
    BY <1>1, <2>4, <2>5 DEF Conns
  <2> QED
    BY <2>6 DEF n, w
<1> HIDE DEF k2, o
<1>12. /\ k.queuedMessages + 2 \in Int /\ k.queuedBytes + Size(h) + Size(b) \in Int
       /\ k.baseline.sequence + Len(k.pending) \in Nat
  <2>1. /\ k.queuedMessages \in Int /\ k.queuedBytes \in Int /\ k.baseline.sequence \in Nat
        /\ Size(h) \in Nat /\ Size(b) \in Nat /\ Len(k.pending) \in Nat
    BY <1>2, <1>6, Zenon
  <2>2. \A x \in Int : \A y, z \in Nat : x + 2 \in Int /\ x + y + z \in Int /\ y + z \in Nat
    OBVIOUS
  <2> QED
    BY <2>1, <2>2, Zenon
<1>13. /\ k2 \in Conns /\ k2.step = "started" /\ k2.failed = k.failed /\ k2.started = TRUE
       /\ k2.writer = k.writer /\ k2.held = <<>> /\ k2.pending = <<>> /\ k2.queue = o
       /\ k2.lastRequestID = 0 /\ k2.lastSequence = k.baseline.sequence + Len(k.pending)
       /\ k2.queuedMessages = k.queuedMessages + 2
       /\ k2.queuedBytes = k.queuedBytes + Size(h) + Size(b)
  <2> HIDE DEF EmptyView
  <2>1. <<>> \in Seq(Msgs)
    OBVIOUS
  <2> QED
    BY <1>1, <1>2, <1>8, <1>9, <1>11, <1>12, <2>1 DEF Conns, Steps
<1>14. Outstanding(k2) = o
  BY <1>8, <1>13 DEF Outstanding
<1>15. InStep(k2)
  BY <1>1, <1>2, <1>13 DEF InStep, StartedSteps
<1>16. Counted(k2)
  <2>1. Len(o) = Len(k.pending) + 2
    BY <1>2, <1>7 DEF o
  <2>2. TotalSize(Prologue(k)) = Size(h) + Size(b)
    BY <1>3, <1>7, BytesConcat, BytesOne
  <2>3. TotalSize(o) = TotalSize(Prologue(k)) + TotalSize(k.pending) /\ TotalSize(k.pending) \in Nat
    BY <1>2, <1>8, BytesConcat DEF o
  <2>4. /\ Reserved(k).queuedMessages = k.queuedMessages + 2
        /\ Reserved(k).queuedBytes = k.queuedBytes + Size(h) + Size(b)
    BY <1>1, <1>10 DEF Conns
  <2>5. /\ Reserved(k).queuedMessages <= MaxQueueMessages
        /\ Reserved(k).queuedBytes <= MaxQueueBytes
    BY DEF StartAccepts
  <2> QED
    BY <1>1, <1>2, <1>4, <1>6, <1>13, <1>14, <2>1, <2>2, <2>3, <2>4, <2>5 DEF Counted
<1>17. ASSUME p.open PROVE Streaming(k2, p, a, v) /\ Asking(k2, p)
  <2>1. p = NewShell /\ p.asked = <<>> /\ p.answered = <<>>
    BY <1>1, <1>17, NewShellType DEF Waiting
  <2>2. After(NewShell, Prologue(k)) = Primed(k)
    BY <1>1, PrologueRead
  <2>3. After(p, o) = After(Primed(k), k.pending)
    BY <1>2, <1>8, <2>1, <2>2, AfterConcat DEF o
  <2>4. Replies(o) = 0
    <3>1. Replies(<<h>>) = 0 /\ Replies(<<b>>) = 0
      BY <1>3, RepliesOne
    <3>2. Replies(Prologue(k)) = 0
      BY <1>7, <3>1, RepliesConcat
    <3>3. Replies(k.pending) = 0
      BY <1>1 DEF Backlogged
    <3>4. Replies(o) = Replies(Prologue(k)) + Replies(k.pending)
      BY <1>2, <1>8, RepliesConcat DEF o
    <3> QED
      BY <3>2, <3>3, <3>4
  <2>5. Ran(k2, p) = <<>>
    BY <1>13, <2>1 DEF Ran
  <2> QED
    BY <1>1, <1>13, <1>14, <2>1, <2>3, <2>4, <2>5 DEF Streaming, Asking, Backlogged
<1>18. k2.step \notin EndSteps /\ k2.step \notin {"attached", "unstarted"}
  BY <1>13 DEF EndSteps
<1> QED
  BY <1>1, <1>13, <1>15, <1>16, <1>17, <1>18 DEF Served, k2

\* A sequence is its front and its last element.
LEMMA FrontLast ==
  ASSUME NEW S, NEW s \in Seq(S), s # <<>>
  PROVE  /\ Append(Front(s), s[Len(s)]) = s
         /\ Len(Front(s)) = Len(s) - 1 /\ Len(s) \in Nat
<1> DEFINE t == SubSeq(s, 1, Len(s) - 1)
           u == Append(t, s[Len(s)])
<1>1. Len(s) \in Nat \ {0} /\ s[Len(s)] \in S
  OBVIOUS
<1>2. t \in Seq(S) /\ Len(t) = Len(s) - 1 /\ \A i \in 1..(Len(s) - 1) : t[i] = s[i]
  <2> DEFINE n == Len(s) - 1
  <2>1. n \in Nat /\ 1 \in Int /\ n \in Int /\ \A i \in 1..n : s[i] \in S
    BY <1>1
  <2> HIDE DEF n
  <2>2. /\ SubSeq(s, 1, n) \in Seq(S)
        /\ Len(SubSeq(s, 1, n)) = IF 1 <= n THEN n - 1 + 1 ELSE 0
        /\ \A i \in 1..n - 1 + 1 : SubSeq(s, 1, n)[i] = s[1 + i - 1]
    BY <2>1, SubSeqProperties
  <2>3. Len(SubSeq(s, 1, n)) = n /\ n - 1 + 1 = n
    BY <2>1, <2>2
  <2>4. \A i \in 1..n : 1 + i - 1 = i
    OBVIOUS
  <2> QED
    BY <2>2, <2>3, <2>4 DEF n
<1> HIDE DEF t
<1>3. /\ u \in Seq(S) /\ Len(u) = Len(s) /\ u[Len(s)] = s[Len(s)]
      /\ \A i \in 1..(Len(s) - 1) : u[i] = t[i]
  BY <1>1, <1>2
<1> HIDE DEF u
<1>4. \A i \in 1..Len(s) : u[i] = s[i]
  BY <1>1, <1>2, <1>3
<1>5. u = s
  BY <1>3, <1>4, SeqEqual
<1> QED
  BY <1>1, <1>2, <1>5 DEF Front, t, u

\* A prefix, place by place.
LEMMA PrefixPlaces ==
  ASSUME NEW S, NEW s \in Seq(S), NEW t \in Seq(S)
  PROVE  IsPrefix(s, t) <=> Len(s) <= Len(t) /\ \A i \in 1..Len(s) : s[i] = t[i]
<1> SUFFICES ASSUME Len(s) <= Len(t)
             PROVE  SubSeq(s, 1, Len(s)) = SubSeq(t, 1, Len(s)) <=> \A i \in 1..Len(s) : s[i] = t[i]
  BY DEF IsPrefix
<1>1. SubSeq(s, 1, Len(s)) = s
  BY SubSeqFull
<1> DEFINE u == SubSeq(t, 1, Len(s))
<1>2. u \in Seq(S) /\ Len(u) = Len(s) /\ \A i \in 1..Len(s) : u[i] = t[i]
  OBVIOUS
<1> HIDE DEF u
<1>3. (\A i \in 1..Len(s) : s[i] = u[i]) => s = u
  BY <1>2, SeqEqual
<1> QED
  BY <1>1, <1>2, <1>3 DEF u

\* What a shell asks has no part in what it makes of the frames it reads.
LEMMA AfterAsked ==
  ASSUME NEW p \in Shells, NEW x \in Seq(Nat), NEW s \in Seq(Msgs)
  PROVE  After([p EXCEPT !.asked = x], s) = [After(p, s) EXCEPT !.asked = x]
<1> DEFINE q == [p EXCEPT !.asked = x]
           T == {u \in Seq(Msgs) : After(q, u) = [After(p, u) EXCEPT !.asked = x]}
<1>1. <<>> \in T
  BY AfterNothing
<1>2. ASSUME NEW u \in Seq(Msgs), NEW m \in Msgs, u \in T PROVE Append(u, m) \in T
  <2> DEFINE r == After(p, u)
             r2 == [r EXCEPT !.asked = x]
  <2>1. /\ After(q, Append(u, m)) = Understand(After(q, u), m)
        /\ After(p, Append(u, m)) = Understand(r, m)
        /\ After(q, u) = r2
    BY <1>2, AfterAppend
  <2>2. r \in Shells
    BY AfterKeeps
  <2> HIDE DEF r
  <2>3. r2.stage = r.stage /\ r2.view = r.view /\ r2.answered = r.answered
    BY <2>2 DEF Shells
  <2>4. Understand(r2, m) = [Understand(r, m) EXCEPT !.asked = x]
    <3>1. CASE m.kind = "hello" /\ r.stage = "connecting"
      <4>1. Understand(r, m) = [r EXCEPT !.stage = "greeted"] /\ Understand(r2, m) = [r2 EXCEPT !.stage = "greeted"]
        BY <2>3, <3>1 DEF Understand
      <4> QED
        BY <2>2, <4>1 DEF Shells
    <3>2. CASE m.kind = "snapshot" /\ r.stage = "greeted"
      <4>1. /\ Understand(r, m) = [r EXCEPT !.stage = "live", !.view = m.body]
            /\ Understand(r2, m) = [r2 EXCEPT !.stage = "live", !.view = m.body]
        BY <2>3, <3>2 DEF Understand
      <4> QED
        BY <2>2, <4>1 DEF Shells
    <3>3. CASE m.kind = "delta" /\ r.stage = "live" /\ m.seq = r.view.sequence + 1
      <4>1. /\ Understand(r, m) = [r EXCEPT !.view = Apply(r.view, m.body)]
            /\ Understand(r2, m) = [r2 EXCEPT !.view = Apply(r.view, m.body)]
        BY <2>3, <3>3 DEF Understand
      <4> QED
        BY <2>2, <4>1 DEF Shells
    <3>4. CASE m.kind = "reply" /\ r.stage = "live"
      <4>1. /\ Understand(r, m) = [r EXCEPT !.answered = Append(r.answered, m.id)]
            /\ Understand(r2, m) = [r2 EXCEPT !.answered = Append(r.answered, m.id)]
        BY <2>3, <3>4 DEF Understand
      <4> QED
        BY <2>2, <4>1 DEF Shells
    <3>5. CASE /\ ~(m.kind = "hello" /\ r.stage = "connecting")
               /\ ~(m.kind = "snapshot" /\ r.stage = "greeted")
               /\ ~(m.kind = "delta" /\ r.stage = "live" /\ m.seq = r.view.sequence + 1)
               /\ ~(m.kind = "reply" /\ r.stage = "live")
      <4>1. Understand(r, m) = [r EXCEPT !.stage = "confused"] /\ Understand(r2, m) = [r2 EXCEPT !.stage = "confused"]
        BY <2>3, <3>5 DEF Understand
      <4> QED
        BY <2>2, <4>1 DEF Shells
    <3> QED
      BY <3>1, <3>2, <3>3, <3>4, <3>5
  <2>5. After(q, Append(u, m)) = [After(p, Append(u, m)) EXCEPT !.asked = x]
    BY <2>1, <2>4
  <2>6. Append(u, m) \in Seq(Msgs)
    OBVIOUS
  <2> QED
    BY <2>5, <2>6
<1>3. Seq(Msgs) \subseteq T
  <2> HIDE DEF T
  <2> QED
    BY <1>1, <1>2, SequenceInduction
<1> QED
  BY <1>3

\* A command with a new request ID is dispatched.
LEMMA CommandServed ==
  ASSUME NEW k, NEW p, NEW a, NEW v, Served(k, p, a, v),
         k.step = "reading", ~k.failed, p.open, NEW id \in Nat, RequestIsNew(k, id)
  PROVE  /\ [p EXCEPT !.asked = Append(@, id)] \in Shells
         /\ Served([k EXCEPT !.step = "dispatching", !.lastRequestID = id],
                    [p EXCEPT !.asked = Append(@, id)], a, v)
<1> DEFINE k2 == [k EXCEPT !.step = "dispatching", !.lastRequestID = id]
           p2 == [p EXCEPT !.asked = Append(@, id)]
           o == Outstanding(k)
           last == After(p, o)
<1>1. /\ k \in Conns /\ p \in Shells /\ Orderly(p) /\ InStep(k) /\ k.started /\ Counted(k)
      /\ Streaming(k, p, a, v) /\ Asking(k, p)
  BY DEF Served, InStep, StartedSteps
<1>2. /\ k2 \in Conns /\ k2.step = "dispatching" /\ k2.failed = k.failed /\ k2.started = k.started
      /\ k2.writer = k.writer /\ k2.held = k.held /\ k2.pending = k.pending
      /\ k2.queue = k.queue /\ k2.lastRequestID = id /\ k2.baseline = k.baseline
      /\ k2.lastSequence = k.lastSequence
      /\ k2.queuedMessages = k.queuedMessages /\ k2.queuedBytes = k.queuedBytes
  BY <1>1 DEF Conns, Steps
<1>3. /\ p.asked \in Seq(Nat) /\ p.answered \in Seq(Nat) /\ k.lastRequestID \in Nat
      /\ Append(p.asked, id) \in Seq(Nat)
  BY <1>1 DEF Shells, Conns
<1>4. /\ p2 \in Shells /\ p2 = [p EXCEPT !.asked = Append(p.asked, id)]
      /\ p2.asked = Append(p.asked, id) /\ p2.answered = p.answered
      /\ p2.stage = p.stage /\ p2.open
  BY <1>1, <1>3 DEF Shells
<1>5. o \in Seq(Msgs)
  BY <1>1, OutstandingType
<1> HIDE DEF k2, p2, o
<1>6. Outstanding(k2) = o /\ Counted(k2)
  BY <1>1, <1>2, SameQueues DEF o
<1>7. InStep(k2)
  BY <1>1, <1>2 DEF InStep, StartedSteps
<1>8. Orderly(p2)
  <2> DEFINE n == Len(p.asked)
  <2>1. n \in Nat /\ Len(p2.asked) = n + 1 /\ p2.asked[n + 1] = id
        /\ \A i \in 1..n : p2.asked[i] = p.asked[i]
    BY <1>3, <1>4
  <2>2. n # 0 => p.asked[n] < id
    <3>1. n # 0 => p.asked # <<>>
      OBVIOUS
    <3>2. id > k.lastRequestID
      BY DEF RequestIsNew
    <3> QED
      BY <1>1, <1>3, <3>1, <3>2 DEF Asking
  <2>3. Increasing(p2.asked)
    <3> SUFFICES ASSUME NEW i \in 1..n PROVE p2.asked[i] < p2.asked[i + 1]
      BY <2>1 DEF Increasing
    <3>1. CASE i = n
      BY <2>1, <2>2, <3>1
    <3>2. CASE i < n
      <4>1. p.asked[i] < p.asked[i + 1]
        BY <1>1, <2>1, <3>2 DEF Orderly, Increasing
      <4>2. i + 1 \in 1..n
        BY <2>1, <3>2
      <4> QED
        BY <2>1, <4>1, <4>2
    <3> QED
      BY <2>1, <3>1, <3>2
  <2>4. IsPrefix(p2.answered, p2.asked)
    <3>1. Len(p.answered) <= n /\ \A i \in 1..Len(p.answered) : p.answered[i] = p.asked[i]
      BY <1>1, <1>3, PrefixPlaces DEF Orderly
    <3>2. Len(p2.answered) <= Len(p2.asked) /\ \A i \in 1..Len(p2.answered) : p2.answered[i] = p2.asked[i]
      BY <1>3, <1>4, <2>1, <3>1
    <3>3. p2.answered \in Seq(Nat) /\ p2.asked \in Seq(Nat)
      BY <1>3, <1>4
    <3> QED
      BY <3>2, <3>3, PrefixPlaces
  <2> QED
    BY <1>1, <1>4, <2>3, <2>4 DEF Orderly
<1>9. Streaming(k2, p2, a, v)
  <2>1. After(p2, o) = [last EXCEPT !.asked = Append(p.asked, id)]
    BY <1>1, <1>3, <1>4, <1>5, AfterAsked
  <2>2. last \in Shells
    BY <1>1, <1>5, AfterKeeps
  <2> HIDE DEF last
  <2>3. /\ After(p2, o).stage = last.stage /\ After(p2, o).view = last.view
        /\ After(p2, o).answered = last.answered
    BY <2>1, <2>2 DEF Shells
  <2>4. Ran(k2, p2) = p.asked /\ Ran(k, p) = p.asked
    <3>1. Front(Append(p.asked, id)) = p.asked
      BY <1>3 DEF Front
    <3> QED
      BY <1>2, <1>4, <3>1 DEF Ran
  <2> QED
    BY <1>1, <1>2, <1>4, <1>6, <2>3, <2>4 DEF Streaming, last, o
<1>10. Asking(k2, p2)
  <2>1. Append(p.asked, id) # <<>> /\ Append(p.asked, id)[Len(Append(p.asked, id))] = id
    <3>1. \A s \in Seq(Nat) : Append(s, id) # <<>> /\ Append(s, id)[Len(Append(s, id))] = id
      BY AppendProperties
    <3> QED
      BY <1>3, <3>1
  <2> QED
    BY <1>2, <1>4, <2>1 DEF Asking
<1>11. k2.step \notin EndSteps /\ k2.step \notin {"attached", "unstarted"}
  BY <1>2 DEF EndSteps
<1> QED
  BY <1>1, <1>2, <1>4, <1>6, <1>7, <1>8, <1>9, <1>10, <1>11 DEF Served, k2, p2

\* A reply that is read in its place is an answer more.
LEMMA UnderstandReply ==
  ASSUME NEW p \in Shells, NEW m \in Msgs, m.kind = "reply", Understand(p, m).stage # "confused"
  PROVE  /\ p.stage = "live" /\ Understand(p, m) = [p EXCEPT !.answered = Append(p.answered, m.id)]
         /\ Understand(p, m).answered = Append(p.answered, m.id)
<1>1. p.stage = "live"
  <2> SUFFICES ASSUME p.stage # "live" PROVE Understand(p, m).stage = "confused"
    OBVIOUS
  <2>1. Understand(p, m) = [p EXCEPT !.stage = "confused"]
    BY DEF Understand
  <2> QED
    BY <2>1 DEF Shells
<1>2. Understand(p, m) = [p EXCEPT !.answered = Append(p.answered, m.id)]
  BY <1>1 DEF Understand
<1> QED
  BY <1>1, <1>2 DEF Shells

\* reply: the answer to the command that ran last is queued.
LEMMA ReplyServed ==
  ASSUME NEW k, NEW p, NEW a, NEW v, Served(k, p, a, v), k.step = "dispatching", ~k.failed,
         CanReserve(k, ReplyMsg(k.lastRequestID))
  PROVE  LET m == ReplyMsg(k.lastRequestID)
         IN  Served([Reserve(k, m) EXCEPT !.queue = Append(@, m), !.step = "reading"], p, a, v)
<1> DEFINE m == ReplyMsg(k.lastRequestID)
           k2 == [Reserve(k, m) EXCEPT !.queue = Append(@, m), !.step = "reading"]
           o == Outstanding(k)
           last == After(p, o)
<1>1. /\ k \in Conns /\ p \in Shells /\ Orderly(p) /\ InStep(k) /\ k.started /\ Counted(k)
      /\ p.open => Streaming(k, p, a, v) /\ Asking(k, p)
  BY DEF Served, InStep, StartedSteps
<1>2. /\ k.held \in Seq(Msgs) /\ k.queue \in Seq(Msgs) /\ k.pending = <<>>
      /\ k.lastRequestID \in Nat /\ k.queuedMessages \in Int /\ k.queuedBytes \in Int
  BY <1>1 DEF Conns, InStep
<1>3. m \in Msgs /\ m.kind = "reply" /\ m.id = k.lastRequestID
  BY <1>2 DEF Msgs, ReplyMsg
<1> HIDE DEF m
<1>4. /\ Size(m) \in Nat /\ Append(k.queue, m) \in Seq(Msgs)
      /\ k.queuedMessages + 1 \in Int /\ k.queuedBytes + Size(m) \in Int
  BY <1>2, <1>3, SizeType
<1>5. k2 = [k EXCEPT !.queuedMessages = k.queuedMessages + 1, !.queuedBytes = k.queuedBytes + Size(m),
                     !.queue = Append(k.queue, m), !.step = "reading"]
  BY <1>1 DEF Reserve, Conns
<1> HIDE DEF k2
<1>6. /\ k2 \in Conns /\ k2.step = "reading" /\ k2.failed = k.failed /\ k2.started = k.started
      /\ k2.writer = k.writer /\ k2.held = k.held /\ k2.pending = k.pending
      /\ k2.lastRequestID = k.lastRequestID /\ k2.lastSequence = k.lastSequence
      /\ k2.queuedMessages = k.queuedMessages + 1
      /\ k2.queuedBytes = k.queuedBytes + Size(m)
      /\ k2.queue = Append(k.queue, m)
  BY <1>1, <1>4, <1>5 DEF Conns, Steps
<1>7. Outstanding(k2) = Append(o, m)
  <2>1. \A s, t \in Seq(Msgs) : s \o Append(t, m) = Append(s \o t, m)
    BY <1>3, AppendLast
  <2>2. /\ k.held \o Append(k.queue, m) = Append(k.held \o k.queue, m)
        /\ k.held \o k.queue \in Seq(Msgs)
    <3>1. k.held \o Append(k.queue, m) = Append(k.held \o k.queue, m)
      BY <1>2, <2>1, Zenon
    <3>2. k.held \o k.queue \in Seq(Msgs)
      BY <1>2
    <3> QED
      BY <3>1, <3>2
  <2>3. Append(k.held \o k.queue, m) \in Seq(Msgs)
    BY <1>3, <2>2
  <2> QED
    BY <1>2, <1>6, <2>2, <2>3, ConcatEmptySeq DEF Outstanding
<1>8. o \in Seq(Msgs)
  BY <1>1, OutstandingType
<1>9. Counted(k2)
  BY <1>1, <1>3, <1>6, <1>7, ReserveCounted DEF m
<1> HIDE DEF o
<1>10. InStep(k2)
  BY <1>1, <1>6 DEF InStep, StartedSteps
<1>11. ASSUME p.open PROVE Streaming(k2, p, a, v) /\ Asking(k2, p)
  <2>1. Streaming(k, p, a, v) /\ Asking(k, p) /\ p.asked \in Seq(Nat)
    BY <1>1, <1>11 DEF Shells
  <2>2. last \in Shells /\ After(p, Outstanding(k2)) = Understand(last, m)
    BY <1>1, <1>3, <1>7, <1>8, AfterAppend, AfterKeeps
  <2>3. /\ last.stage = "live" /\ last.view.sequence = k.lastSequence /\ (a => last.view = v)
        /\ last.answered = Ran(k, p)
        /\ Len(Ran(k, p)) = Len(p.answered) + Replies(o)
    BY <2>1 DEF Streaming, o
  <2> HIDE DEF last
  <2>4. Understand(last, m) = [last EXCEPT !.answered = Append(last.answered, m.id)]
    BY <1>3, <2>3 DEF Understand
  <2>5. /\ After(p, Outstanding(k2)).stage = last.stage /\ After(p, Outstanding(k2)).view = last.view
        /\ After(p, Outstanding(k2)).answered = Append(last.answered, m.id)
    BY <2>2, <2>4 DEF Shells
  <2>6. Ran(k, p) = Front(p.asked) /\ Ran(k2, p) = p.asked
    BY <1>6 DEF Ran
  <2>7. p.asked # <<>> /\ p.asked[Len(p.asked)] = m.id
    BY <1>3, <2>1 DEF Asking
  <2>8. \A s \in Seq(Nat) : s # <<>> => /\ Append(Front(s), s[Len(s)]) = s
                                        /\ Len(Front(s)) = Len(s) - 1 /\ Len(s) \in Nat
    BY FrontLast
  <2>9. Append(last.answered, m.id) = p.asked /\ Len(p.asked) = Len(Ran(k, p)) + 1
    BY <2>1, <2>3, <2>6, <2>7, <2>8
  <2>10. Replies(Outstanding(k2)) = Replies(o) + 1 /\ Replies(o) \in Nat
    BY <1>3, <1>7, <1>8, RepliesAppend
  <2>11. Len(p.answered) \in Nat
    BY <1>1 DEF Shells
  <2>12. Len(Ran(k2, p)) = Len(p.answered) + Replies(Outstanding(k2))
    BY <2>3, <2>6, <2>9, <2>10, <2>11
  <2>13. Asking(k2, p)
    BY <1>6, <2>1, <2>7 DEF Asking
  <2> QED
    BY <1>6, <2>3, <2>5, <2>6, <2>9, <2>12, <2>13 DEF Streaming
<1>12. k2.step \notin EndSteps /\ k2.step \notin {"attached", "unstarted"}
  BY <1>6 DEF EndSteps
<1> QED
  BY <1>1, <1>6, <1>9, <1>10, <1>11, <1>12 DEF Served, k2, m

\* The writer takes the first message of the queue into its hands.
LEMMA TakenServed ==
  ASSUME NEW k, NEW p, NEW a, NEW v, Served(k, p, a, v), k.writer = "idle", k.queue # <<>>
  PROVE  Served([k EXCEPT !.writer = "writing", !.held = <<Head(k.queue)>>, !.queue = Tail(@)], p, a, v)
<1> DEFINE k2 == [k EXCEPT !.writer = "writing", !.held = <<Head(k.queue)>>, !.queue = Tail(@)]
<1>1. k \in Conns /\ k.queue \in Seq(Msgs)
  BY DEF Served, Conns
<1>2. /\ Head(k.queue) \in Msgs /\ <<Head(k.queue)>> \in Seq(Msgs) /\ Tail(k.queue) \in Seq(Msgs)
      /\ <<Head(k.queue)>> \o Tail(k.queue) = k.queue
  <2>1. \A s \in Seq(Msgs) : s # <<>> => /\ Head(s) \in Msgs /\ <<Head(s)>> \in Seq(Msgs) /\ Tail(s) \in Seq(Msgs)
                                         /\ <<Head(s)>> \o Tail(s) = s
    OBVIOUS
  <2> QED
    BY <1>1, <2>1
<1>3. /\ k2 \in Conns /\ k2.step = k.step /\ k2.failed = k.failed /\ k2.started = k.started
      /\ k2.writer = "writing" /\ k2.held = <<Head(k.queue)>> /\ k2.pending = k.pending
      /\ k2.queue = Tail(k.queue) /\ k2.lastRequestID = k.lastRequestID
      /\ k2.lastSequence = k.lastSequence /\ k2.baseline = k.baseline
      /\ k2.queuedMessages = k.queuedMessages /\ k2.queuedBytes = k.queuedBytes
  BY <1>1, <1>2 DEF Conns
<1>4. CASE k.failed
  BY <1>3, <1>4 DEF Served
<1>5. CASE ~k.failed
  <2>1. /\ InStep(k) /\ k.started /\ k.held = <<>> /\ Counted(k)
        /\ k.step \in {"reading", "dispatching"}
        /\ p.open => Streaming(k, p, a, v) /\ Asking(k, p)
    BY <1>5 DEF Served, InStep, StartedSteps
  <2>2. Outstanding(k2) = Outstanding(k)
    <3>1. <<>> \o k.queue = k.queue
      BY <1>1, ConcatEmptySeq
    <3> QED
      BY <1>2, <1>3, <2>1, <3>1 DEF Outstanding
  <2> HIDE DEF k2
  <2>3. Counted(k2)
    BY <1>3, <2>1, <2>2 DEF Counted
  <2>4. InStep(k2)
    <3>1. Len(<<Head(k.queue)>>) = 1
      OBVIOUS
    <3> QED
      BY <1>3, <2>1, <3>1 DEF InStep
  <2>5. Ran(k2, p) = Ran(k, p)
    BY <1>3 DEF Ran
  <2>6. p.open => Streaming(k2, p, a, v) /\ Asking(k2, p)
    BY <1>3, <2>1, <2>2, <2>5 DEF Streaming, Asking
  <2>7. k2.step \notin {"attached", "unstarted"} /\ k2.step \notin EndSteps
    BY <1>3, <2>1 DEF EndSteps
  <2> QED
    BY <1>3, <1>5, <2>1, <2>3, <2>4, <2>6, <2>7 DEF Served, k2
<1> QED
  BY <1>4, <1>5

\* A frame is written: the peer reads it, and its budget is given back.
LEMMA WrittenServed ==
  ASSUME NEW k, NEW p, NEW a, NEW v, Served(k, p, a, v),
         k.writer = "writing", ~k.failed, p.open
  PROVE  /\ Understand(p, Head(k.held)) \in Shells
         /\ Served(Written(k, Head(k.held)), Understand(p, Head(k.held)), a, v)
         /\ Written(k, Head(k.held)).step = k.step
<1> DEFINE m == Head(k.held)
           k2 == Written(k, m)
           p2 == Understand(p, m)
           o == Outstanding(k)
           r == Outstanding(k2)
<1>1. /\ k \in Conns /\ p \in Shells /\ Orderly(p) /\ InStep(k) /\ k.started /\ Counted(k)
      /\ k.step \in {"reading", "dispatching"}
      /\ Streaming(k, p, a, v) /\ Asking(k, p)
  BY DEF Served, InStep, StartedSteps
<1>2. /\ k.held \in Seq(Msgs) /\ k.queue \in Seq(Msgs) /\ k.pending = <<>>
      /\ Len(k.held) = 1 /\ k.queuedMessages \in Int /\ k.queuedBytes \in Int
  BY <1>1 DEF Conns, InStep
<1>3. m \in Msgs /\ k.held = <<m>> /\ <<m>> \in Seq(Msgs)
  <2>1. \A s \in Seq(Msgs) : Len(s) = 1 => Head(s) \in Msgs /\ s = <<Head(s)>> /\ <<Head(s)>> \in Seq(Msgs)
    OBVIOUS
  <2> QED
    BY <1>2, <2>1
<1> HIDE DEF m
<1>4. Size(m) \in Nat
  BY <1>3, SizeType
<1>5. k2 = [k EXCEPT !.queuedMessages = k.queuedMessages - 1, !.queuedBytes = k.queuedBytes - Size(m),
                     !.writer = "idle", !.held = <<>>]
  BY <1>1 DEF Written, Release, Conns
<1> HIDE DEF k2
<1>6. k.queuedMessages - 1 \in Int /\ k.queuedBytes - Size(m) \in Int /\ <<>> \in Seq(Msgs)
  BY <1>2, <1>4
<1>7. /\ k2 \in Conns /\ k2.step = k.step /\ k2.failed = k.failed /\ k2.started = k.started
      /\ k2.writer = "idle" /\ k2.held = <<>> /\ k2.pending = k.pending /\ k2.queue = k.queue
      /\ k2.lastRequestID = k.lastRequestID /\ k2.lastSequence = k.lastSequence
      /\ k2.queuedMessages = k.queuedMessages - 1
      /\ k2.queuedBytes = k.queuedBytes - Size(m)
  BY <1>1, <1>5, <1>6 DEF Conns
<1>8. r = k.queue /\ r \in Seq(Msgs) /\ o = <<m>> \o r
  <2>1. k.held \o k.queue \in Seq(Msgs)
    BY <1>2
  <2>2. Outstanding(k) = k.held \o k.queue
    BY <1>2, <2>1, ConcatEmptySeq DEF Outstanding
  <2>3. Outstanding(k2) = k.queue
    BY <1>2, <1>7, ConcatEmptySeq DEF Outstanding
  <2> QED
    BY <1>2, <1>3, <2>2, <2>3
<1> HIDE DEF o, r
<1>9. InStep(k2)
  BY <1>1, <1>7 DEF InStep
<1>10. Counted(k2)
  <2>1. Len(o) = 1 + Len(r) /\ Len(r) \in Nat
    <3>1. \A s \in Seq(Msgs) : Len(<<m>> \o s) = 1 + Len(s) /\ Len(s) \in Nat
      BY <1>3
    <3> QED
      BY <1>8, <3>1
  <2>2. TotalSize(o) = Size(m) + TotalSize(r) /\ TotalSize(r) \in Nat
    BY <1>3, <1>8, BytesConcat, BytesOne
  <2>3. /\ k.queuedMessages = Len(o) /\ k.queuedBytes = TotalSize(o)
        /\ k.queuedMessages <= MaxQueueMessages /\ k.queuedBytes <= MaxQueueBytes
    BY <1>1 DEF Counted, o
  <2>4. MaxQueueMessages \in Nat /\ MaxQueueBytes \in Nat
    BY PresenterAssumption
  <2>5. k2.queuedMessages = Len(r) /\ k2.queuedBytes = TotalSize(r)
    BY <1>4, <1>7, <2>1, <2>2, <2>3
  <2>6. Len(r) <= MaxQueueMessages /\ TotalSize(r) <= MaxQueueBytes
    BY <1>4, <2>1, <2>2, <2>3, <2>4
  <2> QED
    BY <2>5, <2>6 DEF Counted, r
<1> DEFINE last == After(p, o)
<1>11. last = After(p2, r)
  <2>1. After(p, <<m>> \o r) = After(After(p, <<m>>), r)
    BY <1>3, <1>8, AfterConcat
  <2> QED
    BY <1>3, <1>8, <2>1, AfterOne
<1>12. /\ p2 \in Shells /\ p2.open /\ p2.asked = p.asked
       /\ m.kind # "reply" => p2.answered = p.answered
  BY <1>1, <1>3, UnderstandCases
<1>13. /\ last.stage = "live" /\ last.view.sequence = k.lastSequence /\ (a => last.view = v)
       /\ last.answered = Ran(k, p)
       /\ Len(Ran(k, p)) = Len(p.answered) + Replies(o)
  BY <1>1 DEF Streaming, o
<1>14. p2.stage # "confused"
  BY <1>8, <1>11, <1>12, <1>13, AfterKeeps
<1>15. Len(p2.answered) = Len(p.answered) + Replies(<<m>>) /\ Len(p.answered) \in Nat
  <2>1. p.answered \in Seq(Nat) /\ Len(p.answered) \in Nat
    BY <1>1 DEF Shells
  <2>2. CASE m.kind = "reply"
    <3>1. p2.answered = Append(p.answered, m.id) /\ m.id \in Nat
      BY <1>1, <1>3, <1>14, <2>2, UnderstandReply, MsgKinds
    <3>2. \A s \in Seq(Nat) : Len(Append(s, m.id)) = Len(s) + 1
      BY <3>1, AppendProperties
    <3>3. Replies(<<m>>) = 1
      BY <1>3, <2>2, RepliesOne
    <3> QED
      BY <2>1, <3>1, <3>2, <3>3
  <2>3. CASE m.kind # "reply"
    <3>1. Replies(<<m>>) = 0
      BY <1>3, <2>3, RepliesOne
    <3> QED
      BY <1>12, <2>1, <2>3, <3>1
  <2> QED
    BY <2>2, <2>3
<1>16. Replies(o) = Replies(<<m>>) + Replies(r) /\ Replies(<<m>>) \in Nat /\ Replies(r) \in Nat
  BY <1>3, <1>8, RepliesConcat
<1>17. Ran(k2, p2) = Ran(k, p)
  BY <1>7, <1>12 DEF Ran
<1>18. Streaming(k2, p2, a, v)
  <2>1. Len(Ran(k2, p2)) = Len(p2.answered) + Replies(r)
    BY <1>13, <1>15, <1>16, <1>17
  <2> QED
    BY <1>7, <1>11, <1>13, <1>17, <2>1 DEF Streaming, r
<1>19. Orderly(p2)
  <2>1. p.asked \in Seq(Nat) /\ p2.answered \in Seq(Nat) /\ Len(p.asked) \in Nat /\ Len(p2.answered) \in Nat
    BY <1>1, <1>12 DEF Shells
  <2>2. /\ Len(p2.answered) <= Len(last.answered)
        /\ \A i \in 1..Len(p2.answered) : last.answered[i] = p2.answered[i]
    BY <1>8, <1>11, <1>12, AfterKeeps
  <2>3. /\ Len(Ran(k, p)) <= Len(p.asked)
        /\ \A i \in 1..Len(Ran(k, p)) : Ran(k, p)[i] = p.asked[i]
    <3>1. \A s \in Seq(Nat) : s # <<>> => /\ Len(Front(s)) <= Len(s)
                                          /\ \A i \in 1..Len(Front(s)) : Front(s)[i] = s[i]
      BY DEF Front
    <3>2. k.step = "dispatching" => p.asked # <<>>
      BY <1>1 DEF Asking
    <3> QED
      BY <2>1, <3>1, <3>2 DEF Ran
  <2>4. /\ Len(p2.answered) <= Len(p.asked)
        /\ \A i \in 1..Len(p2.answered) : p2.answered[i] = p.asked[i]
    <3>1. Len(Ran(k, p)) \in Nat
      BY <1>13, <1>15, <1>16
    <3> QED
      BY <1>13, <2>1, <2>2, <2>3, <3>1
  <2>5. IsPrefix(p2.answered, p2.asked)
    <3>1. IsPrefix(p2.answered, p.asked)
      BY <2>1, <2>4, PrefixPlaces
    <3> QED
      BY <1>12, <3>1
  <2> QED
    BY <1>1, <1>12, <1>14, <2>5 DEF Orderly
<1>20. Asking(k2, p2)
  BY <1>1, <1>7, <1>12 DEF Asking
<1>21. k2.step \notin EndSteps /\ k2.step \notin {"attached", "unstarted"}
  BY <1>1, <1>7 DEF EndSteps
<1> QED
  BY <1>1, <1>7, <1>9, <1>10, <1>12, <1>18, <1>19, <1>20, <1>21 DEF Served, k2, m

----
(* The steps of the server.                                                *)

\* Every step of the server is a step of the owner, or leaves it alone.
LEMMA ServerStepsOwner == [PNext]_pvars => [Next]_vars
<1> SUFFICES ASSUME [PNext]_pvars PROVE [Next]_vars
  OBVIOUS
<1>1. CASE Owner
  <2>1. PICK key \in Keys :
            \/ OwnerAdd(key)
            \/ \E item \in Items : OwnerUpdate(key, item)
            \/ \E menu \in Menus : OwnerUpdateMenu(key, menu)
            \/ OwnerRemove(key)
    BY <1>1 DEF Owner
  <2> QED
    BY <2>1 DEF OwnerAdd, OwnerUpdate, OwnerUpdateMenu, OwnerRemove, Next
<1>2. ASSUME NEW c \in Sinks, Handshake(c) \/ Handler(c) \/ Writer(c) \/ Peer(c)
      PROVE  [Next]_vars
  <2>1. CASE AttachConn(c)
    BY <2>1 DEF AttachConn, Next
  <2>2. CASE StartFailed(c)
    BY <2>2 DEF StartFailed, Next
  <2>3. CASE DetachConn(c)
    BY <2>3 DEF DetachConn, Next
  <2>4. CASE Handshake(c) \/ Writer(c) \/ Peer(c)
    BY <2>4 DEF Handshake, HandshakeFails, HandshakeDone, Writer, WriterTake, WriteFails, WriterExit,
           Peer, acceptLoop, ReadRefused, WriteFrame, PeerLeaves, ReadCommand, Goto, Abort, Local
  <2>5. CASE \/ SnapshotInvalid(c) \/ start(c) \/ Replace(c) \/ FailOld(c) \/ ReadFails(c)
             \/ reply(c) \/ connectionDone(c)
    BY <2>5 DEF SnapshotInvalid, start, Replace, FailOld, ReadFails, reply, connectionDone, Goto, Abort, Local
  <2> QED
    BY <1>2, <2>1, <2>2, <2>3, <2>4, <2>5 DEF Handler
<1>3. CASE CloseBegin \/ CloseStep \/ UNCHANGED pvars
  BY <1>3 DEF CloseBegin, CloseStep, CloseFail, CloseDone, pvars
<1> QED
  BY <1>1, <1>2, <1>3 DEF PNext, Serving

\* The obligations of a step that changes at most one connection.
LEMMA OneConnection ==
  ASSUME PInv, Inv', NEW c \in Sinks, NEW k, NEW p,
         conn' = [conn EXCEPT ![c] = k], shell' = [shell EXCEPT ![c] = p],
         Served(k, p, sink' = c, view'),
         \A e \in Sinks \ {c} : sink' = e => sink = e /\ view' = view,
         sink' = c => k.step \in SinkSteps,
         current' \in {current, NoSink, c}, current' = c => k.step \in CurrentSteps,
         nextGen' \in Nat,
         closing' = closing, closing = "done" => k.step \in {"unconnected", "gone"}
  PROVE  PInv'
<1>1. conn \in [Sinks -> Conns] /\ shell \in [Sinks -> Shells] /\ sink' \in Sinks \cup {NoSink}
  BY DEF PInv, Roles, Inv, TypeOK
<1>2. /\ conn'[c] = k /\ shell'[c] = p
      /\ \A e \in Sinks \ {c} : conn'[e] = conn[e] /\ shell'[e] = shell[e]
  BY <1>1
<1>3. k \in Conns /\ p \in Shells
  BY DEF Served
<1>4. conn' \in [Sinks -> Conns] /\ shell' \in [Sinks -> Shells]
  BY <1>1, <1>3
<1>5. sink' # NoSink => conn'[sink'].step \in SinkSteps
  BY <1>1, <1>2 DEF PInv, Roles
<1>6. current' \in Sinks \cup {NoSink} /\ (current' # NoSink => conn'[current'].step \in CurrentSteps)
  BY <1>2 DEF PInv, Roles
<1>7. closing' = "done" => \A e \in Sinks : conn'[e].step \in {"unconnected", "gone"}
  BY <1>2 DEF PInv, Roles, Finished
<1>8. ASSUME NEW e \in Sinks PROVE Served(conn'[e], shell'[e], sink' = e, view')
  <2>1. CASE e = c
    BY <1>2, <2>1
  <2>2. CASE e # c
    <3>1. Served(conn[e], shell[e], sink = e, view)
      BY DEF PInv
    <3>2. Served(conn[e], shell[e], sink' = e, view')
      BY <2>2, <3>1, ServedDetached
    <3> QED
      BY <1>2, <2>2, <3>2
  <2> QED
    BY <2>1, <2>2
<1>9. Roles'
  BY <1>4, <1>5, <1>6, <1>7 DEF Roles, Finished
<1> QED
  BY <1>8, <1>9 DEF PInv

\* The obligations of a step that changes no connection.
LEMMA NoConnection ==
  ASSUME PInv, Inv', UNCHANGED <<conn, shell, current, nextGen>>,
         \A e \in Sinks : sink' = e => sink = e /\ view' = view,
         closing' = "done" => \A c \in Sinks : Finished(c)
  PROVE  PInv'
<1>1. ASSUME NEW e \in Sinks PROVE Served(conn'[e], shell'[e], sink' = e, view')
  <2>1. Served(conn[e], shell[e], sink = e, view)
    BY DEF PInv
  <2>2. Served(conn[e], shell[e], sink' = e, view')
    BY <2>1, ServedDetached
  <2> QED
    BY <2>2
<1>2. sink' \in Sinks \cup {NoSink}
  BY DEF Inv, TypeOK
<1>3. Roles'
  BY <1>2 DEF PInv, Roles, Finished
<1> QED
  BY <1>1, <1>3 DEF PInv

\* A step of one connection's goroutines that touches nothing else.
LEMMA LocalStep ==
  ASSUME PInv, NEW c \in Sinks, NEW k, Local(c, k),
         Served(k, shell[c], sink = c, view),
         k.step = conn[c].step \/ ~Finished(c) \/ closing # "done",
         sink = c => k.step \in SinkSteps,
         current = c => k.step \in CurrentSteps
  PROVE  PInv'
<1>1. UNCHANGED <<vars, shell, current, nextGen, closing>> /\ conn' = [conn EXCEPT ![c] = k]
  BY DEF Local, closeVars
<1>2. Inv /\ Inv'
  <2>1. Inv
    BY DEF PInv
  <2>2. [Next]_vars
    BY <1>1
  <2> QED
    BY <2>1, <2>2, NextInv
<1>3. shell' = [shell EXCEPT ![c] = shell[c]]
  BY <1>1 DEF PInv, Roles
<1>4. sink' = sink /\ view' = view
  BY <1>1 DEF vars
<1>5. Served(k, shell[c], sink' = c, view')
  BY <1>4
<1>6. closing = "done" => k.step \in {"unconnected", "gone"}
  BY DEF PInv, Roles, Finished
<1>7. nextGen' \in Nat /\ current' = current
  BY <1>1 DEF PInv, Roles
<1> QED
  BY <1>1, <1>2, <1>3, <1>4, <1>5, <1>6, <1>7, OneConnection

\* What holds of one connection before a step of its goroutines.
LEMMA OfConnection ==
  ASSUME PInv, NEW c \in Sinks
  PROVE  /\ conn[c] \in Conns /\ shell[c] \in Shells /\ Orderly(shell[c])
         /\ Served(conn[c], shell[c], sink = c, view)
         /\ sink = c => conn[c].step \in SinkSteps
         /\ current = c => conn[c].step \in CurrentSteps
BY DistinctAssumption DEF PInv, Roles, Served

\* The handler gives up: it fails the connection and drains its writer.
LEMMA AbortKeeps ==
  ASSUME PInv, NEW c \in Sinks, Abort(c), ~Finished(c)
  PROVE  PInv'
<1> DEFINE k == [Failed(conn[c]) EXCEPT !.step = "draining"]
<1>1. conn[c] \in Conns /\ shell[c] \in Shells /\ Orderly(shell[c])
  BY OfConnection
<1>2. k \in Conns /\ Served(k, shell[c], sink = c, view)
  BY <1>1, FailedServed DEF Steps
<1>3. k.step = "draining"
  BY <1>1 DEF Failed, Conns
<1>4. Local(c, k)
  BY DEF Abort
<1> HIDE DEF k
<1> QED
  BY <1>2, <1>3, <1>4, LocalStep DEF SinkSteps, Steps, CurrentSteps

\* acceptLoop takes a connection.
LEMMA AcceptKeeps ==
  ASSUME PInv, NEW c \in Sinks, acceptLoop(c)
  PROVE  PInv'
<1> DEFINE k == [conn[c] EXCEPT !.step = "handshake"]
<1>1. /\ conn[c] \in Conns /\ conn[c].step = "unconnected" /\ closing # "done" /\ Local(c, k)
      /\ Served(conn[c], shell[c], sink = c, view)
  BY OfConnection DEF acceptLoop, At, Goto
<1>2. k = [conn[c] EXCEPT !.step = "handshake", !.generation = conn[c].generation] /\ k.step = "handshake"
  BY <1>1 DEF Conns
<1>3. conn[c].generation \in Nat
  BY <1>1 DEF Conns
<1> HIDE DEF k
<1>4. Served(k, shell[c], sink = c, view)
  BY <1>1, <1>2, <1>3, HandshakeServed
<1>5. sink # c /\ current # c
  BY <1>1, OfConnection DEF SinkSteps, CurrentSteps
<1> QED
  BY <1>1, <1>4, <1>5, LocalStep

\* The handshake fails, or succeeds and the connection takes its generation.
LEMMA HandshakeKeeps ==
  ASSUME PInv, NEW c \in Sinks, Handshake(c)
  PROVE  PInv'
<1>1. CASE HandshakeFails(c)
  BY <1>1, AbortKeeps DEF HandshakeFails, At, Finished
<1>2. CASE HandshakeDone(c)
  <2> DEFINE k == [conn[c] EXCEPT !.step = "numbered", !.generation = nextGen + 1]
  <2>1. /\ conn[c] \in Conns /\ conn[c].step = "handshake" /\ Served(conn[c], shell[c], sink = c, view)
        /\ nextGen \in Nat /\ conn \in [Sinks -> Conns] /\ shell \in [Sinks -> Shells]
    BY <1>2, OfConnection DEF HandshakeDone, At, PInv, Roles
  <2>2. /\ conn' = [conn EXCEPT ![c] = k] /\ nextGen' = nextGen + 1
        /\ UNCHANGED <<vars, shell, current, closing>>
    BY <1>2, <2>1 DEF HandshakeDone, closeVars
  <2>3. k.step = "numbered"
    BY <2>1 DEF Conns
  <2> HIDE DEF k
  <2>4. Served(k, shell[c], sink = c, view)
    <3>1. nextGen + 1 \in Nat
      BY <2>1
    <3> QED
      BY <2>1, <3>1, HandshakeServed DEF k
  <2>5. sink # c /\ current # c
    BY <2>1, OfConnection DEF SinkSteps, CurrentSteps
  <2>6. sink' = sink /\ view' = view /\ shell' = [shell EXCEPT ![c] = shell[c]] /\ nextGen' \in Nat
    BY <2>1, <2>2 DEF vars
  <2>7. Inv'
    BY <2>2, NextInv DEF PInv
  <2>8. closing # "done"
    BY <2>1 DEF PInv, Roles, Finished
  <2>9. Served(k, shell[c], sink' = c, view')
    BY <2>4, <2>6
  <2> QED
    BY <2>2, <2>5, <2>6, <2>7, <2>8, <2>9, OneConnection
<1> QED
  BY <1>1, <1>2 DEF Handshake

\* Attach: the sink and its baseline, in one owner command.
LEMMA AttachKeeps ==
  ASSUME PInv, NEW c \in Sinks, AttachConn(c)
  PROVE  PInv'
<1> DEFINE k == [conn[c] EXCEPT !.step = "attached", !.baseline = snapshotLocked]
<1>1. /\ conn[c] \in Conns /\ conn[c].step = "numbered" /\ Served(conn[c], shell[c], sink = c, view)
      /\ nextGen \in Nat /\ conn \in [Sinks -> Conns] /\ shell \in [Sinks -> Shells]
  BY OfConnection DEF AttachConn, At, PInv, Roles
<1>2. /\ conn' = [conn EXCEPT ![c] = k] /\ sink' = c /\ view' = snapshotLocked
      /\ UNCHANGED <<shell, current, nextGen, closing>>
  BY <1>1 DEF AttachConn, Attach, closeVars
<1>3. Inv /\ Inv'
  <2>1. Inv
    BY DEF PInv
  <2> QED
    BY <2>1, AttachKeepsInv DEF AttachConn
<1>4. snapshotLocked \in Baselines
  <2>1. snapshotLocked \in Views
    BY <1>2, <1>3 DEF Inv, TypeOK
  <2>2. IsFiniteSet(snapshotLocked.items)
    <3> DEFINE L == {b \in Listed : PublishedAt(b)}
               R == {[key |-> KeyAt(e), item |-> items[e].item] : e \in L}
               f == [e \in L |-> [key |-> KeyAt(e), item |-> items[e].item]]
    <3>1. L \in SUBSET Addresses
      BY <1>3 DEF Inv, TypeOK, OrderExact
    <3>2. IsFiniteSet(L)
      BY <3>1, FiniteAssumption, FS_Subset
    <3>3. f \in Surjection(L, R)
      <4>1. f \in [L -> R] /\ \A x \in R : \E e \in L : f[e] = x
        OBVIOUS
      <4> HIDE DEF f, L, R
      <4> QED
        BY <4>1 DEF Surjection
    <3>4. IsFiniteSet(R)
      <4> HIDE DEF f, L, R
      <4> QED
        BY <3>2, <3>3, FS_Surjection
    <3> QED
      BY <3>4 DEF snapshotLocked
  <2>3. snapshotLocked \in Pictures
    BY <2>1, BoundsAssumption DEF Views, Pictures
  <2> QED
    BY <2>2, <2>3 DEF Baselines
<1>5. k.step = "attached"
  BY <1>1 DEF Conns
<1>6. Served(k, shell[c], TRUE, snapshotLocked)
  BY <1>1, <1>4, AttachServed
<1> HIDE DEF k
<1>7. Served(k, shell[c], sink' = c, view')
  BY <1>2, <1>6, ServedDetached
<1>8. closing # "done" /\ current # c
  BY <1>1, OfConnection DEF PInv, Roles, Finished, CurrentSteps
<1>9. shell' = [shell EXCEPT ![c] = shell[c]]
  BY <1>1, <1>2
<1> QED
  BY <1>1, <1>2, <1>3, <1>5, <1>7, <1>8, <1>9, OneConnection DEF SinkSteps, Steps

\* start, whether it accepts or not.
LEMMA StartKeeps ==
  ASSUME PInv, NEW c \in Sinks, start(c)
  PROVE  PInv'
<1>1. /\ conn[c] \in Conns /\ conn[c].step = "attached" /\ Served(conn[c], shell[c], sink = c, view)
      /\ current # c /\ ~Finished(c)
  BY OfConnection DEF start, At, CurrentSteps, Finished
<1>2. CASE StartAccepts(conn[c])
  <2>1. Served(Started(conn[c]), shell[c], sink = c, view) /\ Started(conn[c]).step = "started"
    BY <1>1, <1>2, StartedServed
  <2>2. Local(c, Started(conn[c]))
    BY <1>2 DEF start
  <2> QED
    BY <1>1, <2>1, <2>2, LocalStep DEF SinkSteps, Steps
<1>3. CASE ~StartAccepts(conn[c])
  <2> DEFINE k == [conn[c] EXCEPT !.step = "unstarted"]
  <2>1. Served(k, shell[c], sink = c, view) /\ k.step = "unstarted"
    BY <1>1, UnstartedServed DEF Conns
  <2>2. Local(c, k)
    BY <1>3 DEF start, Goto
  <2> HIDE DEF k
  <2> QED
    BY <1>1, <2>1, <2>2, LocalStep DEF SinkSteps, Steps
<1> QED
  BY <1>2, <1>3

\* handle detaches a connection that could not start, and fails it.
LEMMA StartFailedKeeps ==
  ASSUME PInv, NEW c \in Sinks, StartFailed(c)
  PROVE  PInv'
<1> DEFINE k == [Failed(conn[c]) EXCEPT !.step = "draining"]
<1>1. /\ conn[c] \in Conns /\ shell[c] \in Shells /\ Orderly(shell[c]) /\ ~Finished(c)
      /\ current # c /\ conn \in [Sinks -> Conns] /\ shell \in [Sinks -> Shells] /\ nextGen \in Nat
  BY OfConnection DEF StartFailed, At, CurrentSteps, Finished, PInv, Roles
<1>2. /\ conn' = [conn EXCEPT ![c] = k] /\ UNCHANGED <<shell, current, nextGen, closing>>
  BY <1>1 DEF StartFailed, closeVars
<1>3. \A v : Served(k, shell[c], FALSE, v)
  BY <1>1, FailedServed DEF Steps
<1>4. k.step = "draining"
  BY <1>1 DEF Failed, Conns
<1> HIDE DEF k
<1>5. sink' # c /\ \A e \in Sinks : sink' = e => sink = e /\ view' = view
  BY DistinctAssumption DEF StartFailed, Detach, vars
<1>6. Inv'
  <2>1. [Next]_vars
    BY DEF StartFailed, Next
  <2> QED
    BY <2>1, NextInv DEF PInv
<1>7. Served(k, shell[c], sink' = c, view')
  BY <1>3, <1>5, ServedDetached
<1>8. closing # "done" /\ shell' = [shell EXCEPT ![c] = shell[c]]
  BY <1>1, <1>2 DEF PInv, Roles
<1> QED
  BY <1>1, <1>2, <1>4, <1>5, <1>6, <1>7, <1>8, OneConnection

\* A step that changes only the server's own variables leaves Inv alone.
LEMMA SameOwner ==
  ASSUME PInv, UNCHANGED vars
  PROVE  Inv' /\ sink' = sink /\ view' = view
<1>1. Inv /\ [Next]_vars
  BY DEF PInv
<1> QED
  BY <1>1, NextInv DEF vars

\* The newer connection becomes the current one.
LEMMA ReplaceKeeps ==
  ASSUME PInv, NEW c \in Sinks, Replace(c)
  PROVE  PInv'
<1> DEFINE k == [conn[c] EXCEPT !.step = "replacing", !.old = current]
<1>1. /\ conn[c] \in Conns /\ conn[c].step = "started" /\ Served(conn[c], shell[c], sink = c, view)
      /\ ~Finished(c) /\ current \in Sinks \cup {NoSink}
      /\ conn \in [Sinks -> Conns] /\ shell \in [Sinks -> Shells] /\ nextGen \in Nat
  BY OfConnection DEF Replace, At, Finished, PInv, Roles
<1>2. /\ conn' = [conn EXCEPT ![c] = k] /\ current' = c
      /\ UNCHANGED <<vars, shell, nextGen, closing>>
  BY <1>1 DEF Replace, closeVars
<1>3. k.step = "replacing"
  BY <1>1 DEF Conns
<1>4. Served(k, shell[c], sink = c, view)
  BY <1>1, ReplacingServed
<1> HIDE DEF k
<1>5. Inv' /\ sink' = sink /\ view' = view
  BY <1>2, SameOwner
<1>6. Served(k, shell[c], sink' = c, view')
  BY <1>4, <1>5
<1>7. closing # "done" /\ shell' = [shell EXCEPT ![c] = shell[c]]
  BY <1>1, <1>2 DEF PInv, Roles
<1> QED
  BY <1>1, <1>2, <1>3, <1>5, <1>6, <1>7, OneConnection DEF SinkSteps, Steps, CurrentSteps

\* The replaced presenter is failed, and the newer one served.
LEMMA FailOldKeeps ==
  ASSUME PInv, NEW c \in Sinks, FailOld(c)
  PROVE  PInv'
<1> DEFINE k == [conn[c] EXCEPT !.step = "reading", !.writer = "idle", !.old = NoSink]
<1>1. /\ conn[c] \in Conns /\ conn[c].step = "replacing" /\ Served(conn[c], shell[c], sink = c, view)
      /\ ~Finished(c)
      /\ conn \in [Sinks -> Conns] /\ shell \in [Sinks -> Shells] /\ nextGen \in Nat
  BY OfConnection DEF FailOld, At, Finished, PInv, Roles
<1>2. Inv' /\ sink' = sink /\ view' = view /\ UNCHANGED <<shell, current, nextGen, closing>>
  BY SameOwner DEF FailOld, closeVars
<1>3. Served(k, shell[c], sink = c, view) /\ k.step = "reading" /\ k \in Conns
  <2>1. Served(k, shell[c], sink = c, view)
    BY <1>1, ReadingServed
  <2> QED
    BY <1>1, <2>1 DEF Served, Conns
<1>4. \A d \in Sinks : conn'[d] = IF d = c THEN k
                                 ELSE IF d = conn[c].old THEN Failed(conn[d]) ELSE conn[d]
  BY DEF FailOld
<1> HIDE DEF k
<1>5. ASSUME NEW d \in Sinks
      PROVE  /\ conn'[d] \in Conns /\ Served(conn'[d], shell[d], sink = d, view)
             /\ d # c => conn'[d].step = conn[d].step
  <2>1. CASE d = c
    BY <1>3, <1>4, <2>1
  <2>2. CASE d # c /\ conn'[d] = conn[d]
    BY <2>2, OfConnection
  <2>3. CASE d # c /\ conn'[d] = Failed(conn[d])
    <3>1. conn[d] \in Conns /\ shell[d] \in Shells /\ Orderly(shell[d]) /\ "gone" \in Steps
      BY OfConnection DEF Steps
    <3> QED
      BY <2>3, <3>1, FailedServed
  <2> QED
    BY <1>4, <2>1, <2>2, <2>3
<1>6. conn' \in [Sinks -> Conns]
  <2>1. conn' = [d \in Sinks |-> conn'[d]]
    BY DEF FailOld
  <2> QED
    BY <1>5, <2>1
<1>7. conn'[c].step = "reading"
  BY <1>3, <1>4
<1>8. Roles'
  <2>1. sink' \in Sinks \cup {NoSink}
    BY <1>2 DEF Inv, TypeOK
  <2>2. sink' # NoSink => conn'[sink'].step \in SinkSteps
    BY <1>2, <1>5, <1>7, <2>1 DEF PInv, Roles, SinkSteps, Steps
  <2>3. current' \in Sinks \cup {NoSink} /\ (current' # NoSink => conn'[current'].step \in CurrentSteps)
    BY <1>2, <1>5, <1>7 DEF PInv, Roles, CurrentSteps
  <2>4. closing' # "done"
    BY <1>1, <1>2 DEF PInv, Roles
  <2> QED
    BY <1>1, <1>2, <1>6, <2>2, <2>3, <2>4 DEF Roles
<1> QED
  BY <1>2, <1>5, <1>8 DEF PInv

\* A command is read.
LEMMA CommandKeeps ==
  ASSUME PInv, NEW c \in Sinks, NEW id \in Nat, ReadCommand(c, id)
  PROVE  PInv'
<1> DEFINE k == [conn[c] EXCEPT !.step = "dispatching", !.lastRequestID = id]
           p == [shell[c] EXCEPT !.asked = Append(@, id)]
<1>1. /\ conn[c] \in Conns /\ conn[c].step = "reading" /\ Served(conn[c], shell[c], sink = c, view)
      /\ ~Finished(c) /\ ~conn[c].failed /\ shell[c].open /\ RequestIsNew(conn[c], id)
      /\ conn \in [Sinks -> Conns] /\ shell \in [Sinks -> Shells] /\ nextGen \in Nat
  BY OfConnection DEF ReadCommand, At, Finished, PInv, Roles
<1>2. /\ conn' = [conn EXCEPT ![c] = k] /\ shell' = [shell EXCEPT ![c] = p]
      /\ UNCHANGED <<vars, current, nextGen, closing>>
  BY <1>1 DEF ReadCommand, closeVars
<1>3. k.step = "dispatching"
  BY <1>1 DEF Conns
<1>4. Served(k, p, sink = c, view)
  BY <1>1, CommandServed
<1> HIDE DEF k, p
<1>5. Inv' /\ sink' = sink /\ view' = view
  BY <1>2, SameOwner
<1>6. Served(k, p, sink' = c, view')
  BY <1>4, <1>5
<1>7. closing # "done"
  BY <1>1 DEF PInv, Roles
<1> QED
  BY <1>1, <1>2, <1>3, <1>5, <1>6, <1>7, OneConnection DEF SinkSteps, Steps, CurrentSteps

\* The command is answered, or the connection cannot take the answer.
LEMMA ReplyKeeps ==
  ASSUME PInv, NEW c \in Sinks, reply(c)
  PROVE  PInv'
<1> DEFINE m == ReplyMsg(conn[c].lastRequestID)
           k == [Reserve(conn[c], m) EXCEPT !.queue = Append(@, m), !.step = "reading"]
<1>1. /\ conn[c] \in Conns /\ conn[c].step = "dispatching" /\ Served(conn[c], shell[c], sink = c, view)
      /\ ~Finished(c)
  BY OfConnection DEF reply, At, Finished
<1>2. CASE ~conn[c].failed /\ CanReserve(conn[c], m) /\ Len(conn[c].queue) < MaxQueueMessages
  <2>1. Local(c, k)
    BY <1>2 DEF reply
  <2>2. k.step = "reading"
    BY <1>1 DEF Reserve, Conns
  <2>3. Served(k, shell[c], sink = c, view)
    BY <1>1, <1>2, ReplyServed
  <2> HIDE DEF k, m
  <2> QED
    BY <1>1, <2>1, <2>2, <2>3, LocalStep DEF SinkSteps, Steps, CurrentSteps
<1>3. CASE ~(~conn[c].failed /\ CanReserve(conn[c], m) /\ Len(conn[c].queue) < MaxQueueMessages)
  BY <1>1, <1>3, AbortKeeps DEF reply
<1> QED
  BY <1>2, <1>3

\* The writer.
LEMMA WriterKeeps ==
  ASSUME PInv, NEW c \in Sinks, Writer(c)
  PROVE  PInv'
<1>1. /\ conn[c] \in Conns /\ shell[c] \in Shells /\ Orderly(shell[c])
      /\ Served(conn[c], shell[c], sink = c, view)
      /\ sink = c => conn[c].step \in SinkSteps
      /\ current = c => conn[c].step \in CurrentSteps
  BY OfConnection
<1>2. CASE WriterTake(c)
  <2> DEFINE k == [conn[c] EXCEPT !.writer = "writing", !.held = <<Head(conn[c].queue)>>, !.queue = Tail(@)]
  <2>1. Local(c, k) /\ conn[c].writer = "idle" /\ conn[c].queue # <<>>
    BY <1>2 DEF WriterTake
  <2>2. Served(k, shell[c], sink = c, view) /\ k.step = conn[c].step
    BY <1>1, <2>1, TakenServed DEF Conns
  <2> HIDE DEF k
  <2> QED
    BY <1>1, <2>1, <2>2, LocalStep
<1>3. ASSUME NEW k, Local(c, k), k \in Conns, k.failed, k.step = conn[c].step PROVE PInv'
  <2>1. Served(k, shell[c], sink = c, view)
    BY <1>1, <1>3 DEF Served
  <2> QED
    BY <1>1, <1>3, <2>1, LocalStep
<1>4. CASE WriteFails(c)
  <2> DEFINE k == [Failed(conn[c]) EXCEPT !.writer = "done"]
  <2>1. /\ Failed(conn[c]) \in Conns /\ Failed(conn[c]).failed
        /\ Failed(conn[c]).step = conn[c].step
    BY <1>1, FailedServed DEF Steps
  <2>2. k \in Conns /\ k.failed /\ k.step = conn[c].step
    <3> HIDE DEF Failed
    <3> QED
      BY <2>1 DEF Conns
  <2>3. Local(c, k)
    BY <1>4 DEF WriteFails
  <2> HIDE DEF k
  <2> QED
    BY <1>3, <2>2, <2>3
<1>5. CASE WriterExit(c)
  <2> DEFINE k == [conn[c] EXCEPT !.writer = "done"]
  <2>1. Local(c, k) /\ conn[c].failed
    BY <1>5 DEF WriterExit
  <2>2. k \in Conns /\ k.failed /\ k.step = conn[c].step
    BY <1>1, <2>1 DEF Conns
  <2> HIDE DEF k
  <2> QED
    BY <1>3, <2>1, <2>2
<1> QED
  BY <1>2, <1>4, <1>5 DEF Writer

\* A frame reaches the peer.
LEMMA WriteKeeps ==
  ASSUME PInv, NEW c \in Sinks, WriteFrame(c)
  PROVE  PInv'
<1> DEFINE m == Head(conn[c].held)
           k == Written(conn[c], m)
           p == Understand(shell[c], m)
<1>1. /\ conn[c] \in Conns /\ Served(conn[c], shell[c], sink = c, view)
      /\ conn[c].writer = "writing" /\ ~conn[c].failed /\ shell[c].open
      /\ sink = c => conn[c].step \in SinkSteps
      /\ current = c => conn[c].step \in CurrentSteps
      /\ conn \in [Sinks -> Conns] /\ shell \in [Sinks -> Shells] /\ nextGen \in Nat
  BY OfConnection DEF WriteFrame, PInv, Roles
<1>2. /\ conn' = [conn EXCEPT ![c] = k] /\ shell' = [shell EXCEPT ![c] = p]
      /\ UNCHANGED <<vars, current, nextGen, closing>>
  BY DEF WriteFrame, closeVars
<1>3. Served(k, p, sink = c, view) /\ k.step = conn[c].step
  BY <1>1, WrittenServed
<1> HIDE DEF k, p
<1>4. Inv' /\ sink' = sink /\ view' = view
  BY <1>2, SameOwner
<1>5. Served(k, p, sink' = c, view')
  BY <1>3, <1>4
<1>6. closing = "done" => k.step \in {"unconnected", "gone"}
  BY <1>3 DEF PInv, Roles, Finished
<1> QED
  BY <1>1, <1>2, <1>3, <1>4, <1>5, <1>6, OneConnection

\* The writer has returned: connectionDone forgets a current presenter.
LEMMA DoneKeeps ==
  ASSUME PInv, NEW c \in Sinks, connectionDone(c)
  PROVE  PInv'
<1> DEFINE k == [conn[c] EXCEPT !.step = "detaching"]
<1>1. /\ conn[c] \in Conns /\ conn[c].step = "draining" /\ Served(conn[c], shell[c], sink = c, view)
      /\ shell[c] \in Shells /\ Orderly(shell[c]) /\ ~Finished(c)
      /\ conn \in [Sinks -> Conns] /\ shell \in [Sinks -> Shells] /\ nextGen \in Nat
  BY OfConnection DEF connectionDone, At, Finished, PInv, Roles
<1>2. /\ conn' = [conn EXCEPT ![c] = k] /\ current' \in {current, NoSink} /\ current' # c
      /\ UNCHANGED <<vars, shell, nextGen, closing>>
  BY <1>1, DistinctAssumption DEF connectionDone, closeVars
<1>3. conn[c].failed
  BY <1>1 DEF Served, EndSteps
<1>4. k \in Conns /\ k.failed /\ k.step = "detaching"
  BY <1>1, <1>3 DEF Conns, Steps
<1> HIDE DEF k
<1>5. Inv' /\ sink' = sink /\ view' = view
  BY <1>2, SameOwner
<1>6. Served(k, shell[c], sink' = c, view')
  BY <1>1, <1>4 DEF Served
<1>7. closing # "done" /\ shell' = [shell EXCEPT ![c] = shell[c]]
  BY <1>1, <1>2 DEF PInv, Roles
<1> QED
  BY <1>1, <1>2, <1>4, <1>5, <1>6, <1>7, OneConnection DEF SinkSteps, Steps

\* The connection struct as it is made.
LEMMA NewConnType == NewConn \in Conns /\ NewConn.step = "unconnected"
<1>1. EmptyView \in Baselines
  BY FS_EmptySet DEF EmptyView, Baselines, Pictures
<1>2. <<>> \in Seq(Msgs) /\ "none" \in {"none", "idle", "writing", "done"}
  OBVIOUS
<1>3. \A v \in Baselines, t \in Seq(Msgs) :
        [step |-> "unconnected", generation |-> 0, baseline |-> v, old |-> NoSink,
         started |-> FALSE, failed |-> FALSE, pending |-> t, queue |-> t,
         queuedMessages |-> 0, queuedBytes |-> 0, lastSequence |-> 0,
         lastRequestID |-> 0, writer |-> "none", held |-> t] \in Conns
  BY DEF Conns, Steps
<1> HIDE DEF EmptyView
<1>4. NewConn \in Conns
  BY <1>1, <1>2, <1>3 DEF NewConn
<1> QED
  BY <1>4 DEF NewConn

\* The handler returns.
LEMMA DetachKeeps ==
  ASSUME PInv, NEW c \in Sinks, DetachConn(c)
  PROVE  PInv'
<1>1. /\ conn[c].step = "detaching" /\ ~Finished(c) /\ current # c
      /\ Served(conn[c], shell[c], sink = c, view)
      /\ conn \in [Sinks -> Conns] /\ shell \in [Sinks -> Shells] /\ nextGen \in Nat
  BY OfConnection DEF DetachConn, At, Finished, CurrentSteps, PInv, Roles
<1>2. /\ conn' = [conn EXCEPT ![c] = GoneConn] /\ shell' = [shell EXCEPT ![c] = LeftShell]
      /\ UNCHANGED <<current, nextGen, closing>>
  BY DEF DetachConn, closeVars
<1>3. sink' # c /\ \A e \in Sinks : sink' = e => sink = e /\ view' = view
  BY DistinctAssumption DEF DetachConn, Detach, vars
<1>4. Inv'
  <2>1. [Next]_vars
    BY DEF DetachConn, Next
  <2> QED
    BY <2>1, NextInv DEF PInv
<1>5. GoneConn \in Conns /\ GoneConn.failed /\ GoneConn.step = "gone"
  <2>1. NewConn \in Conns
    BY NewConnType
  <2> HIDE DEF NewConn
  <2> QED
    BY <2>1 DEF GoneConn, Conns, Steps
<1>6. LeftShell \in Shells /\ Orderly(LeftShell)
  BY <1>1, LeavingServed DEF Served
<1>7. Served(GoneConn, LeftShell, sink' = c, view')
  BY <1>5, <1>6 DEF Served
<1> QED
  BY <1>1, <1>2, <1>3, <1>4, <1>5, <1>7, OneConnection

\* The peer leaves.
LEMMA LeavingKeeps ==
  ASSUME PInv, NEW c \in Sinks, PeerLeaves(c)
  PROVE  PInv'
<1>1. /\ Served(conn[c], shell[c], sink = c, view)
      /\ sink = c => conn[c].step \in SinkSteps
      /\ current = c => conn[c].step \in CurrentSteps
      /\ conn \in [Sinks -> Conns] /\ nextGen \in Nat
  BY OfConnection DEF PInv, Roles
<1>2. /\ shell' = [shell EXCEPT ![c] = LeftShell] /\ conn' = [conn EXCEPT ![c] = conn[c]]
      /\ UNCHANGED <<vars, current, nextGen, closing>>
  BY <1>1 DEF PeerLeaves, closeVars
<1>3. Inv' /\ sink' = sink /\ view' = view
  BY <1>2, SameOwner
<1>4. Served(conn[c], LeftShell, sink = c, view)
  BY <1>1, LeavingServed
<1>5. Served(conn[c], LeftShell, sink' = c, view')
  BY <1>3, <1>4
<1>6. closing = "done" => conn[c].step \in {"unconnected", "gone"}
  BY DEF PInv, Roles, Finished
<1> QED
  BY <1>1, <1>2, <1>3, <1>5, <1>6, OneConnection

\* The owner publishes, and Send runs in the same command.
LEMMA DeliverKeeps ==
  ASSUME PInv, Inv', NEW d, Explains(d), publish(d), Deliver(d)
  PROVE  PInv'
<1>1. UNCHANGED <<shell, current, nextGen, closing>>
  BY DEF Deliver, closeVars
<1>2. CASE d = NoDelta \/ sink = NoSink
  <2>1. conn' = conn
    BY <1>2 DEF Deliver
  <2>2. \A e \in Sinks : sink' = e => sink = e /\ view' = view
    BY <1>2, DistinctAssumption DEF publish
  <2>3. closing' = "done" => \A c \in Sinks : Finished(c)
    BY <1>1 DEF PInv, Roles
  <2> QED
    BY <1>1, <2>1, <2>2, <2>3, NoConnection
<1>3. CASE d # NoDelta /\ sink # NoSink
  <2> DEFINE c == sink
             m == DeltaMsg(sequence + 1, d)
  <2>1. c \in Sinks /\ view \in Pictures /\ view.sequence = sequence /\ d \in Deltas
    <3>1. view \in Views /\ c \in Sinks /\ view.sequence = sequence
      BY <1>3 DEF PInv, Inv, TypeOK, SinkConverges
    <3>2. view \in Pictures
      BY <3>1, BoundsAssumption DEF Views, Pictures
    <3> QED
      BY <3>1, <3>2 DEF Explains
  <2>2. /\ conn[c] \in Conns /\ shell[c] \in Shells /\ Orderly(shell[c])
        /\ Served(conn[c], shell[c], sink = c, view) /\ conn[c].step \in SinkSteps
        /\ (current = c => conn[c].step \in CurrentSteps)
        /\ conn \in [Sinks -> Conns] /\ shell \in [Sinks -> Shells] /\ nextGen \in Nat
    BY <2>1, OfConnection DEF PInv, Roles
  <2>3. closing # "done" /\ shell' = [shell EXCEPT ![c] = shell[c]]
    BY <1>1, <2>1, <2>2 DEF PInv, Roles, Finished, SinkSteps
  <2>4. Send(c, m)
    BY <1>3 DEF Deliver
  <2>5. CASE SendAccepts(conn[c], m)
    <3> DEFINE k == Sent(conn[c], m)
    <3>1. conn' = [conn EXCEPT ![c] = k] /\ sink' = sink
      BY <2>4, <2>5 DEF Send
    <3>2. view' = Apply(view, d)
      BY <1>3, <3>1 DEF publish
    <3>3. Served(conn[c], shell[c], TRUE, view)
      BY <2>2, ServedDetached
    <3>4. Served(k, shell[c], TRUE, Apply(view, d)) /\ k.step = conn[c].step
      BY <1>3, <2>1, <2>2, <2>5, <3>3, SentServed
    <3> HIDE DEF k
    <3>5. Served(k, shell[c], sink' = c, view')
      BY <3>1, <3>2, <3>4, ServedDetached
    <3>6. \A e \in Sinks \ {c} : sink' = e => sink = e /\ view' = view
      BY <3>1
    <3> QED
      BY <1>1, <2>1, <2>2, <2>3, <3>1, <3>4, <3>5, <3>6, OneConnection
  <2>6. CASE ~SendAccepts(conn[c], m)
    <3> DEFINE k == Failed(conn[c])
    <3>1. conn' = [conn EXCEPT ![c] = k] /\ sink' = NoSink
      BY <2>4, <2>6 DEF Send
    <3>2. (\A a, v : Served(k, shell[c], a, v)) /\ k.step = conn[c].step
      BY <2>2, FailedServed DEF Steps
    <3> HIDE DEF k
    <3>3. Served(k, shell[c], sink' = c, view')
      BY <3>2, ServedDetached
    <3>4. \A e \in Sinks : sink' # e
      BY <3>1, DistinctAssumption
    <3>5. \A e \in Sinks \ {c} : sink' = e => sink = e /\ view' = view
      BY <3>4
    <3>6. sink' = c => k.step \in SinkSteps
      BY <2>1, <3>4
    <3>7. current' \in {current, NoSink, c} /\ (current' = c => k.step \in CurrentSteps)
      BY <1>1, <2>2, <3>2
    <3>8. closing' = closing /\ nextGen' \in Nat /\ (closing = "done" => k.step \in {"unconnected", "gone"})
      BY <1>1, <2>2, <2>3
    <3>9. /\ conn' = [conn EXCEPT ![c] = k]
          /\ shell' = [shell EXCEPT ![c] = shell[c]]
      BY <2>3, <3>1
    <3> HIDE DEF c
    <3> QED
      BY <2>1, <3>3, <3>5, <3>6, <3>7, <3>8, <3>9, OneConnection
  <2> QED
    BY <2>5, <2>6
<1> QED
  BY <1>2, <1>3

\* Close.
LEMMA CloseKeeps ==
  ASSUME PInv, CloseBegin \/ CloseStep
  PROVE  PInv'
<1>1. Inv' /\ sink' = sink /\ view' = view
  BY SameOwner DEF CloseBegin, CloseStep, CloseFail, CloseDone
<1>2. CASE CloseBegin \/ CloseDone
  <2>1. UNCHANGED <<conn, shell, current, nextGen>> /\ (closing' = "done" => \A c \in Sinks : Finished(c))
    BY <1>2 DEF CloseBegin, CloseDone, CloseReady
  <2> QED
    BY <1>1, <2>1, NoConnection
<1>3. CASE CloseFail
  <2>1. UNCHANGED <<shell, current, nextGen>> /\ closing' # "done"
    BY <1>3 DEF CloseFail
  <2>2. ASSUME NEW d \in Sinks
        PROVE  /\ conn'[d] \in Conns /\ Served(conn'[d], shell[d], sink = d, view)
               /\ conn'[d].step = conn[d].step
    <3>1. /\ conn[d] \in Conns /\ shell[d] \in Shells /\ Orderly(shell[d]) /\ "gone" \in Steps
          /\ Served(conn[d], shell[d], sink = d, view)
      BY OfConnection DEF Steps
    <3>2. CASE conn'[d] = conn[d]
      BY <3>1, <3>2
    <3>3. CASE conn'[d] = Failed(conn[d])
      BY <3>1, <3>3, FailedServed
    <3> QED
      BY <1>3, <3>2, <3>3 DEF CloseFail
  <2>3. conn' \in [Sinks -> Conns]
    <3>1. conn' = [d \in Sinks |-> conn'[d]]
      BY <1>3 DEF CloseFail
    <3> QED
      BY <2>2, <3>1
  <2>4. sink \in Sinks \cup {NoSink}
    BY DEF PInv, Inv, TypeOK
  <2>5. Roles'
    BY <1>1, <2>1, <2>2, <2>3, <2>4 DEF PInv, Roles
  <2> QED
    BY <1>1, <2>1, <2>2, <2>5 DEF PInv
<1> QED
  BY <1>2, <1>3 DEF CloseStep

\* A command of the owner, with the Send it makes.
LEMMA OwnerKeeps ==
  ASSUME PInv, Owner
  PROVE  PInv'
<1>1. Inv /\ Inv'
  BY NextInv DEF PInv, Owner, OwnerAdd, OwnerUpdate, OwnerUpdateMenu, OwnerRemove, Next
<1>2. PICK key \in Keys :
        \/ OwnerAdd(key)
        \/ \E item \in Items : OwnerUpdate(key, item)
        \/ \E menu \in Menus : OwnerUpdateMenu(key, menu)
        \/ OwnerRemove(key)
  BY DEF Owner
<1>3. CASE OwnerAdd(key)
  <2>1. Explains(AddDelta(key)) /\ publish(AddDelta(key)) /\ Deliver(AddDelta(key))
    BY <1>1, <1>3, AddExplained DEF OwnerAdd, Add
  <2> QED
    BY <1>1, <2>1, DeliverKeeps
<1>4. CASE \E item \in Items : OwnerUpdate(key, item)
  <2>1. PICK item \in Items : OwnerUpdate(key, item)
    BY <1>4
  <2>2. Explains(UpdateDelta(key, item)) /\ publish(UpdateDelta(key, item)) /\ Deliver(UpdateDelta(key, item))
    BY <1>1, <2>1, UpdateExplained DEF OwnerUpdate, Update
  <2> QED
    BY <1>1, <2>2, DeliverKeeps
<1>5. CASE \E menu \in Menus : OwnerUpdateMenu(key, menu)
  <2>1. PICK menu \in Menus : OwnerUpdateMenu(key, menu)
    BY <1>5
  <2>2. /\ Explains(UpdateMenuDelta(key, menu)) /\ publish(UpdateMenuDelta(key, menu))
        /\ Deliver(UpdateMenuDelta(key, menu))
    BY <1>1, <2>1, UpdateMenuExplained DEF OwnerUpdateMenu, UpdateMenu
  <2> QED
    BY <1>1, <2>2, DeliverKeeps
<1>6. CASE OwnerRemove(key)
  <2>1. Explains(RemoveDelta(key)) /\ publish(RemoveDelta(key)) /\ Deliver(RemoveDelta(key))
    BY <1>1, <1>6, RemoveExplained DEF OwnerRemove, RemoveItem
  <2> QED
    BY <1>1, <2>1, DeliverKeeps
<1> QED
  BY <1>2, <1>3, <1>4, <1>5, <1>6

----
(* The theorems.                                                           *)

\* The invariant holds when the server has started.
LEMMA InitPInv == PInit => PInv
<1> SUFFICES ASSUME PInit PROVE PInv
  OBVIOUS
<1>1. Inv /\ sink = NoSink
  BY InitInv DEF PInit, Init
<1>2. NewConn \in Conns /\ NewConn.step = "unconnected" /\ ~NewConn.failed /\ ~NewConn.started
  BY NewConnType DEF NewConn
<1>3. Counted(NewConn)
  <2>1. /\ NewConn.held = <<>> /\ NewConn.queue = <<>> /\ NewConn.pending = <<>>
        /\ NewConn.queuedMessages = 0 /\ NewConn.queuedBytes = 0
    BY DEF NewConn
  <2>2. Outstanding(NewConn) = <<>>
    BY <2>1 DEF Outstanding
  <2>3. TotalSize(<<>>) = 0
    BY FS_EmptySet DEF TotalSize, Bytes
  <2> HIDE DEF NewConn
  <2> QED
    BY <2>1, <2>2, <2>3, PresenterAssumption DEF Counted
<1>4. InStep(NewConn)
  BY DEF InStep, NewConn, StartedSteps
<1>5. Served(NewConn, NewShell, FALSE, view)
  <2> HIDE DEF NewConn
  <2> QED
    BY <1>2, <1>3, <1>4, NewShellType DEF Served, EndSteps, Waiting
<1>6. \A c \in Sinks : conn[c] = NewConn /\ shell[c] = NewShell /\ sink # c
  BY <1>1, DistinctAssumption DEF PInit
<1>7. Roles
  <2> HIDE DEF NewConn
  <2>1. NewShell \in Shells
    BY NewShellType
  <2> HIDE DEF NewShell
  <2> QED
    BY <1>1, <1>2, <2>1 DEF Roles, PInit
<1> QED
  BY <1>1, <1>5, <1>6, <1>7 DEF PInv

\* Every step keeps it: one case per action.
LEMMA NextPInv == PInv /\ [PNext]_pvars => PInv'
<1> SUFFICES ASSUME PInv, [PNext]_pvars PROVE PInv'
  OBVIOUS
<1>1. CASE Owner
  BY <1>1, OwnerKeeps
<1>2. ASSUME NEW c \in Sinks, Handshake(c) \/ Handler(c)
      PROVE  PInv'
  <2>1. CASE Handshake(c)
    BY <2>1, HandshakeKeeps
  <2>2. CASE AttachConn(c)
    BY <2>2, AttachKeeps
  <2>3. CASE SnapshotInvalid(c)
    BY <2>3, AbortKeeps DEF SnapshotInvalid, At, Finished
  <2>4. CASE start(c)
    BY <2>4, StartKeeps
  <2>5. CASE StartFailed(c)
    BY <2>5, StartFailedKeeps
  <2>6. CASE Replace(c)
    BY <2>6, ReplaceKeeps
  <2>7. CASE FailOld(c)
    BY <2>7, FailOldKeeps
  <2>8. CASE ReadFails(c)
    BY <2>8, AbortKeeps DEF ReadFails, At, Finished
  <2>9. CASE reply(c)
    BY <2>9, ReplyKeeps
  <2>10. CASE connectionDone(c)
    BY <2>10, DoneKeeps
  <2>11. CASE DetachConn(c)
    BY <2>11, DetachKeeps
  <2> QED
    BY <1>2, <2>1, <2>2, <2>3, <2>4, <2>5, <2>6, <2>7, <2>8, <2>9, <2>10, <2>11
    DEF Handler
<1>3. ASSUME NEW c \in Sinks, Writer(c)
      PROVE  PInv'
  BY <1>3, WriterKeeps
<1>4. ASSUME NEW c \in Sinks, Peer(c)
      PROVE  PInv'
  <2>1. CASE acceptLoop(c)
    BY <2>1, AcceptKeeps
  <2>2. CASE ReadRefused(c)
    BY <2>2, AbortKeeps DEF ReadRefused, At, Finished
  <2>3. CASE WriteFrame(c)
    BY <2>3, WriteKeeps
  <2>4. CASE PeerLeaves(c)
    BY <2>4, LeavingKeeps
  <2>5. CASE \E id \in 1..MaxRequest : ReadCommand(c, id)
    BY <2>5, CommandKeeps
  <2> QED
    BY <1>4, <2>1, <2>2, <2>3, <2>4, <2>5 DEF Peer
<1>5. CASE CloseBegin \/ CloseStep
  BY <1>5, CloseKeeps
<1>6. CASE UNCHANGED pvars
  <2>1. UNCHANGED vars /\ UNCHANGED <<conn, shell, current, nextGen, closing>>
    BY <1>6 DEF pvars, closeVars
  <2>2. Inv' /\ sink' = sink /\ view' = view
    BY <2>1, SameOwner
  <2>3. closing' = "done" => \A c \in Sinks : Finished(c)
    BY <2>1 DEF PInv, Roles
  <2> QED
    BY <2>1, <2>2, <2>3, NoConnection
<1> QED
  BY <1>1, <1>2, <1>3, <1>4, <1>5, <1>6 DEF PNext, Serving

\* The invariant of the presenter composed with the owner.
THEOREM PresenterInvariant == PSpec => []PInv
<1>1. PInit => PInv
  BY InitPInv
<1>2. PInv /\ [PNext]_pvars => PInv'
  BY NextPInv
<1> QED
  BY <1>1, <1>2, PTL DEF PSpec

\* The owner composed with its presenters is still the owner: what is proved
\* of Spec holds in the composition, Send's outcomes being publish's.
THEOREM ServedOwnerIsOwner == PSpec => Spec
<1>1. PInit => Init
  BY DEF PInit
<1>2. [PNext]_pvars => [Next]_vars
  BY ServerStepsOwner
<1> QED
  BY <1>1, <1>2, PTL DEF PSpec, Spec

\* reserve, release and start keep exact and bounded accounts of what lies
\* between Send and the end of a write.
THEOREM PresenterQueueAccounting == PSpec => []QueueAccounting
<1>1. PInv => QueueAccounting
  BY DEF PInv, Served, Counted, QueueAccounting
<1> QED
  BY <1>1, PresenterInvariant, PTL

\* Each shell gets hello, snapshot and contiguous deltas, in that order,
\* for every number of connections and length of the queue.
THEOREM PresenterShellNeverConfused == PSpec => []ShellNeverConfused
<1>1. PInv => ShellNeverConfused
  BY DEF PInv, Served, Orderly, ShellNeverConfused
<1> QED
  BY <1>1, PresenterInvariant, PTL

\* A served shell's picture and what is on the way to it make up the state
\* the owner publishes.
THEOREM PresenterPipelineConverges == PSpec => []PipelineConverges
<1>1. ASSUME PInv PROVE PipelineConverges
  <2> SUFFICES ASSUME NEW c \in Sinks, sink = c, ~conn[c].failed, shell[c].open,
                      conn[c].step # "unstarted"
               PROVE  After(IF conn[c].started THEN shell[c] ELSE Primed(conn[c]),
                            Outstanding(conn[c])).view = view
    BY DEF PipelineConverges, Primed
  <2>1. Served(conn[c], shell[c], TRUE, view) /\ conn[c].step \in SinkSteps
    <3>1. (sink = c) = TRUE
      OBVIOUS
    <3> QED
      BY <3>1, OfConnection, <1>1
  <2>2. CASE conn[c].started
    BY <2>1, <2>2 DEF Served, Streaming
  <2>3. CASE ~conn[c].started
    <3>1. conn[c] \in Conns /\ InStep(conn[c]) /\ conn[c].step = "attached"
      BY <2>1, <2>3 DEF Served, InStep, SinkSteps, StartedSteps, EndSteps, Steps
    <3>2. conn[c].queue = <<>> /\ conn[c].held = <<>> /\ conn[c].pending \in Seq(Msgs)
      BY <2>3, <3>1 DEF InStep, Conns
    <3>3. Outstanding(conn[c]) = conn[c].pending
      BY <3>2 DEF Outstanding
    <3>4. Backlogged(conn[c], TRUE, view)
      BY <2>1, <3>1 DEF Served
    <3> QED
      BY <2>3, <3>3, <3>4 DEF Backlogged
  <2> QED
    BY <2>2, <2>3
<1>2. PInv => PipelineConverges
  BY <1>1
<1> QED
  BY <1>2, PresenterInvariant, PTL

\* readLoop runs a request at most once and in order, and reply answers each
\* one that ran once and in that order.
THEOREM PresenterCommandsOnce == PSpec => []CommandsOnce
<1>1. PInv => CommandsOnce
  BY DEF PInv, Served, Orderly, Streaming, Ran, InStep, StartedSteps, CommandsOnce
<1> QED
  BY <1>1, PresenterInvariant, PTL

\* No way out of handle leaves a dead sink or a dead current presenter.
THEOREM PresenterNoDeadSink == PSpec => []NoDeadSink
<1>1. PInv => NoDeadSink
  BY DEF PInv, Roles, Finished, SinkSteps, CurrentSteps, NoDeadSink
<1> QED
  BY <1>1, PresenterInvariant, PTL

\* When Close has returned nothing is attached and no handler is left.
THEOREM PresenterClosedClean == PSpec => []ClosedClean
<1>1. ASSUME PInv PROVE ClosedClean
  BY <1>1, DistinctAssumption
  DEF PInv, Inv, TypeOK, Roles, Finished, SinkSteps, CurrentSteps, ClosedClean
<1>2. PInv => ClosedClean
  BY <1>1
<1> QED
  BY <1>2, PresenterInvariant, PTL

----
(* The mirror: what is picked from a sequence that grows.                  *)

\* t goes on from the l elements of s with one more; all are in S.
Continues(S, s, t, l) ==
    /\ \A i \in 1..l : t[i] = s[i]
    /\ \A i \in 1..(l + 1) : t[i] \in S

\* What is picked from the old elements.
LEMMA PickKept ==
  ASSUME NEW S, NEW s, NEW t, NEW l \in Nat, NEW I \in SUBSET (1..l), Continues(S, s, t, l)
  PROVE  Picked(s, I) \in Seq(S) /\ Len(Picked(s, I)) = Cardinality(I) /\ Picked(t, I) = Picked(s, I)
<1> DEFINE C == Cardinality(I)
           At_I(n) == CHOOSE i \in I : Rank(I, i) = n
<1>1. C \in Nat
  BY RankMore
<1>2. /\ Picked(s, I) = [m \in 1..C |-> s[At_I(m)]]
      /\ Picked(t, I) = [m \in 1..C |-> t[At_I(m)]]
  BY DEF Picked, Rank
<1>3. ASSUME NEW n \in 1..C PROVE At_I(n) \in 1..l
  <2>1. \E i \in I : Rank(I, i) = n
    BY RankTaken
  <2> QED
    BY <2>1
<1> HIDE DEF C, At_I
<1>4. \A n \in 1..C : s[At_I(n)] \in S /\ t[At_I(n)] = s[At_I(n)]
  <2> TAKE n \in 1..C
  <2>1. At_I(n) \in 1..l /\ At_I(n) \in 1..(l + 1)
    BY <1>3
  <2> QED
    BY <2>1 DEF Continues
<1>5. Picked(s, I) \in Seq(S) /\ Len(Picked(s, I)) = C /\ Picked(t, I) = Picked(s, I)
  BY <1>1, <1>2, <1>4
<1> QED
  BY <1>5 DEF C

\* What is picked, with the new element.
LEMMA PickMore ==
  ASSUME NEW S, NEW s, NEW t, NEW l \in Nat, NEW I \in SUBSET (1..l), Continues(S, s, t, l)
  PROVE  Picked(t, I \cup {l + 1}) = Append(Picked(s, I), t[l + 1])
<1> DEFINE J == I \cup {l + 1}
           C == Cardinality(I)
           At_I(n) == CHOOSE i \in I : Rank(I, i) = n
           At_J(n) == CHOOSE i \in J : Rank(J, i) = n
<1>1. /\ C \in Nat /\ Cardinality(J) = C + 1
      /\ \A i \in I : Rank(J, i) = Rank(I, i) /\ Rank(I, i) \in Nat /\ Rank(I, i) <= C
      /\ Rank(J, l + 1) = C + 1
  BY RankMore
<1>2. /\ Picked(s, I) = [m \in 1..C |-> s[At_I(m)]]
      /\ Picked(t, J) = [m \in 1..(C + 1) |-> t[At_J(m)]]
  BY <1>1 DEF Picked, Rank
<1>3. ASSUME NEW n \in 1..C PROVE At_I(n) \in 1..l /\ At_J(n) = At_I(n)
  <2>1. \E i \in I : Rank(I, i) = n
    BY RankTaken
  <2>2. At_I(n) \in I
    BY <2>1
  <2>3. \A i : i \in I /\ Rank(I, i) = n <=> i \in J /\ Rank(J, i) = n
    <3>1. n # C + 1
      BY <1>1
    <3> QED
      BY <1>1, <3>1
  <2>4. At_J(n) = At_I(n)
    BY <2>3, Zenon
  <2> QED
    BY <2>2, <2>4
<1>4. At_J(C + 1) = l + 1
  <2>1. \A i \in J : Rank(J, i) = C + 1 => i = l + 1
    BY <1>1
  <2>2. l + 1 \in J /\ Rank(J, l + 1) = C + 1
    BY <1>1
  <2> QED
    BY <2>1, <2>2
<1> HIDE DEF J, C, At_I, At_J
<1>5. \A n \in 1..C : s[At_I(n)] \in S /\ t[At_I(n)] = s[At_I(n)] /\ t[At_J(n)] = s[At_I(n)]
  <2> TAKE n \in 1..C
  <2>1. At_I(n) \in 1..l /\ At_I(n) \in 1..(l + 1) /\ At_J(n) = At_I(n)
    BY <1>3
  <2> QED
    BY <2>1 DEF Continues
<1>6. t[At_J(C + 1)] = t[l + 1] /\ t[l + 1] \in S
  BY <1>4 DEF Continues
<1>7. Picked(s, I) \in Seq(S) /\ Len(Picked(s, I)) = C
  BY <1>1, <1>2, <1>5
<1>8. Picked(t, J) \in Seq(S) /\ Len(Picked(t, J)) = C + 1
  <2>1. \A n \in 1..(C + 1) : t[At_J(n)] \in S
    <3> TAKE n \in 1..(C + 1)
    <3>1. n \in 1..C \/ n = C + 1
      BY <1>1
    <3> QED
      BY <1>5, <1>6, <3>1
  <2> QED
    BY <1>1, <1>2, <2>1
<1> DEFINE r == Append(Picked(s, I), t[l + 1])
<1>9. /\ r \in Seq(S) /\ Len(r) = C + 1 /\ r[C + 1] = t[l + 1]
      /\ \A n \in 1..C : r[n] = Picked(s, I)[n]
  BY <1>6, <1>7, AppendProperties
<1> HIDE DEF r
<1>10. \A n \in 1..(C + 1) : Picked(t, J)[n] = r[n]
  <2> TAKE n \in 1..(C + 1)
  <2>1. CASE n \in 1..C
    BY <1>2, <1>5, <1>9, <2>1
  <2>2. CASE n = C + 1
    BY <1>2, <1>6, <1>9, <2>2
  <2> QED
    BY <1>1, <2>1, <2>2
<1>11. Picked(t, J) = r
  BY <1>8, <1>9, <1>10, SeqEqual
<1> QED
  BY <1>11 DEF J, r

----
(* The states on their way to a shell.                                     *)

Glimpses == {Seen(v) : v \in Pictures}

Carries(m) == m.kind \in {"snapshot", "delta"}

\* A shell stays one with every frame it reads.
LEMMA ReadingType ==
  ASSUME NEW p \in Shells, NEW s \in Seq(Msgs), NEW n \in 0..Len(s)
  PROVE  Reading(p, s)[n] \in Shells
<1> DEFINE N == {i \in Nat : i <= Len(s) => Reading(p, s)[i] \in Shells}
<1>1. /\ Len(s) \in Nat /\ Reading(p, s)[0] = p
      /\ \A i \in 1..Len(s) : s[i] \in Msgs /\ Reading(p, s)[i] = Understand(Reading(p, s)[i - 1], s[i])
  BY ReadingIs
<1>2. 0 \in N
  BY <1>1
<1>3. ASSUME NEW i \in Nat, i \in N PROVE i + 1 \in N
  <2> SUFFICES ASSUME i + 1 <= Len(s) PROVE Reading(p, s)[i + 1] \in Shells
    OBVIOUS
  <2>1. Reading(p, s)[i] \in Shells /\ i + 1 \in 1..Len(s) /\ (i + 1) - 1 = i
    BY <1>1, <1>3
  <2> DEFINE j == i + 1
  <2>2. j \in 1..Len(s) /\ j - 1 = i
    BY <2>1
  <2> HIDE DEF j
  <2>3. s[j] \in Msgs /\ Reading(p, s)[j] = Understand(Reading(p, s)[i], s[j])
    BY <1>1, <2>2
  <2>4. Reading(p, s)[j] \in Shells
    BY <2>1, <2>3, UnderstandCases
  <2> QED
    BY <2>4 DEF j
<1>4. n \in N
  <2> HIDE DEF N
  <2> QED
    BY <1>1, <1>2, <1>3, SetInduction
<1> QED
  BY <1>1, <1>4

\* A frame behind those on the way brings one more state, if it carries one.
LEMMA StatesAppend ==
  ASSUME NEW p \in Shells, NEW s \in Seq(Msgs), NEW m \in Msgs
  PROVE  /\ StatesAfter(p, s) \in Seq(Glimpses)
         /\ StatesAfter(p, Append(s, m)) =
               IF Carries(m) THEN Append(StatesAfter(p, s), Seen(After(p, Append(s, m)).view))
               ELSE StatesAfter(p, s)
<1> DEFINE l == Len(s)
           u == Append(s, m)
           f == [n \in 1..Len(s) |-> Seen(Reading(p, s)[n].view)]
           g == [n \in 1..Len(u) |-> Seen(Reading(p, u)[n].view)]
           I == {n \in 1..Len(s) : s[n].kind \in {"snapshot", "delta"}}
           J == {n \in 1..Len(u) : u[n].kind \in {"snapshot", "delta"}}
<1>1. StatesAfter(p, s) = Picked(f, I) /\ StatesAfter(p, u) = Picked(g, J)
  BY DEF StatesAfter
<1>2. /\ l \in Nat /\ u \in Seq(Msgs) /\ Len(u) = l + 1 /\ u[l + 1] = m
      /\ \A n \in 1..l : u[n] = s[n] /\ n \in 1..(l + 1)
      /\ l + 1 \in 1..(l + 1) /\ 1..(l + 1) = (1..l) \cup {l + 1}
  OBVIOUS
<1>3. \A i \in 1..l : g[i] = f[i]
  BY <1>2, ReadingAppend
<1>4. g[l + 1] = Seen(After(p, u).view)
  BY <1>2 DEF After
<1>5. \A i \in 1..(l + 1) : g[i] \in Glimpses
  <2> SUFFICES ASSUME NEW i \in 1..(l + 1) PROVE Reading(p, u)[i] \in Shells
    BY <1>2 DEF Glimpses, Shells
  <2>1. i \in 0..Len(u) /\ u \in Seq(Msgs)
    BY <1>2
  <2> HIDE DEF u
  <2> QED
    BY <2>1, ReadingType
<1>6. I \in SUBSET (1..l) /\ J = IF Carries(m) THEN I \cup {l + 1} ELSE I
  BY <1>2 DEF Carries
<1> HIDE DEF f, g, I, J, l
<1>7. /\ Picked(f, I) \in Seq(Glimpses)
      /\ Picked(g, I) = Picked(f, I)
      /\ Picked(g, I \cup {l + 1}) = Append(Picked(f, I), g[l + 1])
  <2>1. /\ l \in Nat /\ I \in SUBSET (1..l)
        /\ \A i \in 1..l : g[i] = f[i]
        /\ \A i \in 1..(l + 1) : g[i] \in Glimpses
    BY <1>2, <1>3, <1>5, <1>6
  <2>2. Continues(Glimpses, f, g, l)
    BY <2>1 DEF Continues
  <2>3. Picked(f, I) \in Seq(Glimpses) /\ Len(Picked(f, I)) = Cardinality(I) /\ Picked(g, I) = Picked(f, I)
    BY <2>1, <2>2, PickKept
  <2>4. Picked(g, I \cup {l + 1}) = Append(Picked(f, I), g[l + 1])
    BY <2>1, <2>2, PickMore
  <2> QED
    BY <2>3, <2>4
<1> QED
  BY <1>1, <1>4, <1>6, <1>7

\* The states on their way are states; nothing on the way brings none.
LEMMA StatesType ==
  ASSUME NEW p \in Shells, NEW s \in Seq(Msgs)
  PROVE  StatesAfter(p, <<>>) = <<>> /\ StatesAfter(p, s) \in Seq(Glimpses)
<1>1. StatesAfter(p, <<>>) = <<>>
  <2>1. {n \in 1..Len(<<>>) : <<>>[n].kind \in {"snapshot", "delta"}} = {}
    OBVIOUS
  <2>2. \A f : Picked(f, {}) = <<>>
    BY FS_EmptySet DEF Picked
  <2> QED
    BY <2>1, <2>2 DEF StatesAfter
<1>2. StatesAfter(p, s) \in Seq(Glimpses)
  <2>1. HelloMsg \in Msgs
    BY DEF Msgs
  <2> QED
    BY <2>1, StatesAppend
<1> QED
  BY <1>1, <1>2

\* A single frame.
LEMMA StatesOne ==
  ASSUME NEW p \in Shells, NEW m \in Msgs
  PROVE  StatesAfter(p, <<m>>) = IF Carries(m) THEN <<Seen(Understand(p, m).view)>> ELSE <<>>
<1>1. <<m>> = Append(<<>>, m) /\ <<>> \in Seq(Msgs)
  OBVIOUS
<1>2. StatesAfter(p, <<>>) = <<>> /\ After(p, <<m>>) = Understand(p, m)
  BY <1>1, StatesType, AfterOne
<1>3. StatesAfter(p, Append(<<>>, m)) =
        IF Carries(m) THEN Append(StatesAfter(p, <<>>), Seen(After(p, Append(<<>>, m)).view))
        ELSE StatesAfter(p, <<>>)
  BY <1>1, StatesAppend
<1>4. Append(<<>>, Seen(Understand(p, m).view)) = <<Seen(Understand(p, m).view)>>
  OBVIOUS
<1> QED
  BY <1>1, <1>2, <1>3, <1>4, Zenon

\* Frames one after the other.
LEMMA StatesConcat ==
  ASSUME NEW p \in Shells, NEW s \in Seq(Msgs), NEW t \in Seq(Msgs)
  PROVE  StatesAfter(p, s \o t) = StatesAfter(p, s) \o StatesAfter(After(p, s), t)
<1> DEFINE r == After(p, s)
           T == {u \in Seq(Msgs) : StatesAfter(p, s \o u) = StatesAfter(p, s) \o StatesAfter(r, u)}
<1>1. r \in Shells
  BY AfterKeeps
<1>2. \A u \in Seq(Msgs) : StatesAfter(p, u) \in Seq(Glimpses) /\ StatesAfter(r, u) \in Seq(Glimpses)
  BY <1>1, StatesType
<1>3. <<>> \in T
  <2>1. s \o <<>> = s /\ <<>> \in Seq(Msgs) /\ StatesAfter(r, <<>>) = <<>>
    BY <1>1, StatesType
  <2>2. \A q \in Seq(Glimpses) : q \o <<>> = q
    OBVIOUS
  <2> QED
    BY <1>2, <2>1, <2>2
<1>4. ASSUME NEW u \in Seq(Msgs), NEW m \in Msgs, u \in T PROVE Append(u, m) \in T
  <2>1. /\ s \o Append(u, m) = Append(s \o u, m)
        /\ s \o u \in Seq(Msgs) /\ Append(u, m) \in Seq(Msgs)
    OBVIOUS
  <2> DEFINE e == Seen(After(r, Append(u, m)).view)
  <2>2. StatesAfter(p, Append(s \o u, m)) = IF Carries(m) THEN Append(StatesAfter(p, s \o u), e)
                                            ELSE StatesAfter(p, s \o u)
    <3>1. After(p, s \o Append(u, m)) = After(r, Append(u, m))
      BY <2>1, AfterConcat
    <3>2. StatesAfter(p, Append(s \o u, m)) =
            IF Carries(m) THEN Append(StatesAfter(p, s \o u), Seen(After(p, Append(s \o u, m)).view))
            ELSE StatesAfter(p, s \o u)
      BY <2>1, StatesAppend
    <3> QED
      BY <2>1, <3>1, <3>2
  <2>3. StatesAfter(r, Append(u, m)) = IF Carries(m) THEN Append(StatesAfter(r, u), e)
                                       ELSE StatesAfter(r, u)
    BY <1>1, StatesAppend
  <2>4. StatesAfter(p, s \o u) = StatesAfter(p, s) \o StatesAfter(r, u)
    BY <1>4
  <2>5. e \in Glimpses
    <3>1. After(r, Append(u, m)) \in Shells
      BY <1>1, <2>1, AfterKeeps
    <3>2. After(r, Append(u, m)).view \in Pictures
      BY <3>1 DEF Shells
    <3> QED
      BY <3>2 DEF Glimpses
  <2> HIDE DEF e, r
  <2>6. Append(StatesAfter(p, s) \o StatesAfter(r, u), e) = StatesAfter(p, s) \o Append(StatesAfter(r, u), e)
    <3>1. \A a, b \in Seq(Glimpses) : b \o Append(a, e) = Append(b \o a, e)
      BY <2>5, AppendLast
    <3> QED
      BY <1>2, <3>1
  <2>7. StatesAfter(p, s \o Append(u, m)) = StatesAfter(p, s) \o StatesAfter(r, Append(u, m))
    BY <2>1, <2>2, <2>3, <2>4, <2>6
  <2> QED
    BY <2>1, <2>7
<1>5. Seq(Msgs) \subseteq T
  <2> HIDE DEF T
  <2> QED
    BY <1>3, <1>4, SequenceInduction
<1> QED
  BY <1>5

\* What a shell asks has no part in the states on their way to it.
LEMMA StatesAsked ==
  ASSUME NEW p \in Shells, NEW x \in Seq(Nat), NEW s \in Seq(Msgs)
  PROVE  StatesAfter([p EXCEPT !.asked = x], s) = StatesAfter(p, s)
<1> DEFINE q == [p EXCEPT !.asked = x]
           T == {u \in Seq(Msgs) : StatesAfter(q, u) = StatesAfter(p, u)}
<1>1. q \in Shells
  BY DEF Shells
<1>2. <<>> \in T
  BY <1>1, StatesType
<1>3. ASSUME NEW u \in Seq(Msgs), NEW m \in Msgs, u \in T PROVE Append(u, m) \in T
  <2>1. Append(u, m) \in Seq(Msgs)
    OBVIOUS
  <2>2. After(q, Append(u, m)).view = After(p, Append(u, m)).view
    <3>1. After(q, Append(u, m)) = [After(p, Append(u, m)) EXCEPT !.asked = x]
      BY <2>1, AfterAsked
    <3>2. After(p, Append(u, m)) \in Shells
      BY <2>1, AfterKeeps
    <3> QED
      BY <3>1, <3>2 DEF Shells
  <2> HIDE DEF q
  <2>3. StatesAfter(q, Append(u, m)) = StatesAfter(p, Append(u, m))
    BY <1>1, <1>3, <2>2, StatesAppend
  <2> QED
    BY <2>1, <2>3
<1>4. Seq(Msgs) \subseteq T
  <2> HIDE DEF T
  <2> QED
    BY <1>2, <1>3, SequenceInduction
<1> QED
  BY <1>4

----
(* The connections as the mirror's pipes.                                  *)

Linked == {"attached", "started", "replacing", "reading", "dispatching"}

\* For a connection k with peer p: whether it is cut, the states on their
\* way, and the state its shell has.
Severed(k, p) == k.failed \/ ~p.open \/ k.step \notin Linked

Way(k, p) ==
    IF Severed(k, p) THEN <<>>
    ELSE IF k.started THEN StatesAfter(p, Outstanding(k))
    ELSE StatesAfter(NewShell, Prologue(k) \o Backlog(k))

Has(k, p) == IF Severed(k, p) THEN Seen(EmptyView) ELSE Seen(p.view)

Ways   == [c \in Sinks |-> Way(conn[c], shell[c])]
Having == [c \in Sinks |-> Has(conn[c], shell[c])]
Cuts   == [c \in Sinks |-> Severed(conn[c], shell[c])]

\* They are what the refinement maps to.
LEMMA PipesMapped ==
  /\ Ways = [c \in Sinks |-> OnTheWay(c)] /\ Ways' = [c \in Sinks |-> OnTheWay(c)]'
  /\ Having = [c \in Sinks |-> IF IsCut(c) THEN Seen(EmptyView) ELSE Seen(shell[c].view)]
  /\ Having' = [c \in Sinks |-> IF IsCut(c) THEN Seen(EmptyView) ELSE Seen(shell[c].view)]'
  /\ Cuts = [c \in Sinks |-> IsCut(c)] /\ Cuts' = [c \in Sinks |-> IsCut(c)]'
BY DEF Ways, Having, Cuts, Way, Has, Severed, Linked, OnTheWay, IsCut

\* A step of one connection.
LEMMA OnePipe ==
  ASSUME PInv, NEW c \in Sinks, NEW k, NEW p,
         conn' = [conn EXCEPT ![c] = k], shell' = [shell EXCEPT ![c] = p]
  PROVE  /\ Ways' = [Ways EXCEPT ![c] = Way(k, p)] /\ Ways[c] = Way(conn[c], shell[c])
         /\ Having' = [Having EXCEPT ![c] = Has(k, p)] /\ Having[c] = Has(conn[c], shell[c])
         /\ Cuts' = [Cuts EXCEPT ![c] = Severed(k, p)] /\ Cuts[c] = Severed(conn[c], shell[c])
<1>1. conn \in [Sinks -> Conns] /\ shell \in [Sinks -> Shells]
  BY DEF PInv, Roles
<1>2. /\ conn'[c] = k /\ shell'[c] = p
      /\ \A d \in Sinks \ {c} : conn'[d] = conn[d] /\ shell'[d] = shell[d]
  BY <1>1
<1>3. Ways' = [Ways EXCEPT ![c] = Way(k, p)] /\ Ways[c] = Way(conn[c], shell[c])
  <2>1. Ways' = [d \in Sinks |-> Way(conn'[d], shell'[d])]
    BY DEF Ways
  <2>2. [Ways EXCEPT ![c] = Way(k, p)] = [d \in Sinks |-> IF d = c THEN Way(k, p) ELSE Way(conn[d], shell[d])]
    BY DEF Ways
  <2>3. \A d \in Sinks : Way(conn'[d], shell'[d]) = IF d = c THEN Way(k, p) ELSE Way(conn[d], shell[d])
    BY <1>2
  <2> QED
    BY <2>1, <2>2, <2>3 DEF Ways
<1>4. Having' = [Having EXCEPT ![c] = Has(k, p)] /\ Having[c] = Has(conn[c], shell[c])
  <2>1. Having' = [d \in Sinks |-> Has(conn'[d], shell'[d])]
    BY DEF Having
  <2>2. [Having EXCEPT ![c] = Has(k, p)] = [d \in Sinks |-> IF d = c THEN Has(k, p) ELSE Has(conn[d], shell[d])]
    BY DEF Having
  <2>3. \A d \in Sinks : Has(conn'[d], shell'[d]) = IF d = c THEN Has(k, p) ELSE Has(conn[d], shell[d])
    BY <1>2
  <2> QED
    BY <2>1, <2>2, <2>3 DEF Having
<1>5. Cuts' = [Cuts EXCEPT ![c] = Severed(k, p)] /\ Cuts[c] = Severed(conn[c], shell[c])
  <2>1. Cuts' = [d \in Sinks |-> Severed(conn'[d], shell'[d])]
    BY DEF Cuts
  <2>2. [Cuts EXCEPT ![c] = Severed(k, p)] = [d \in Sinks |-> IF d = c THEN Severed(k, p) ELSE Severed(conn[d], shell[d])]
    BY DEF Cuts
  <2>3. \A d \in Sinks : Severed(conn'[d], shell'[d]) = IF d = c THEN Severed(k, p) ELSE Severed(conn[d], shell[d])
    BY <1>2
  <2> QED
    BY <2>1, <2>2, <2>3 DEF Cuts
<1> QED
  BY <1>3, <1>4, <1>5

\* What the owner's part of the mirror is.
LEMMA FeedMapped ==
  /\ UNCHANGED vars => UNCHANGED M!feedVars
  /\ \A c \in Sinks : Detach(c) => M!Unsubscribe
<1>1. ASSUME UNCHANGED items PROVE Published' = Published
  BY <1>1 DEF Published, KeyAt, Live
<1>2. ASSUME UNCHANGED vars PROVE UNCHANGED M!feedVars
  BY <1>1, <1>2 DEF vars, M!feedVars, Seen
<1>3. ASSUME NEW c \in Sinks, Detach(c) PROVE M!Unsubscribe
  BY <1>1, <1>3 DEF Detach, M!Unsubscribe, M!Nothing, M!State, Seen, EmptyView
<1> QED
  BY <1>2, <1>3

\* Nothing the mirror sees happens.
LEMMA PipesStay ==
  ASSUME UNCHANGED M!feedVars, Ways' = Ways, Having' = Having, Cuts' = Cuts
  PROVE  UNCHANGED M!mirrorVars
BY PipesMapped DEF M!mirrorVars

\* A pipe is cut, or was.
LEMMA PipeParts ==
  ASSUME PInv, NEW c \in Sinks, NEW k, NEW p,
         conn' = [conn EXCEPT ![c] = k], shell' = [shell EXCEPT ![c] = p],
         Severed(k, p), UNCHANGED M!feedVars \/ M!Unsubscribe
  PROVE  M!MirrorNext
<1>1. Way(k, p) = <<>> /\ Has(k, p) = Seen(EmptyView) /\ Severed(k, p) = TRUE
  BY DEF Way, Has, Severed
<1>2. Seen(EmptyView) = M!Nothing
  BY DEF Seen, EmptyView, M!Nothing, M!State
<1>3. /\ Ways' = [Ways EXCEPT ![c] = <<>>]
      /\ Having' = [Having EXCEPT ![c] = M!Nothing]
      /\ Cuts' = [Cuts EXCEPT ![c] = TRUE]
  <2>1. /\ Ways' = [Ways EXCEPT ![c] = Way(k, p)] /\ Ways[c] = Way(conn[c], shell[c])
        /\ Having' = [Having EXCEPT ![c] = Has(k, p)] /\ Having[c] = Has(conn[c], shell[c])
        /\ Cuts' = [Cuts EXCEPT ![c] = Severed(k, p)] /\ Cuts[c] = Severed(conn[c], shell[c])
    BY OnePipe
  <2> QED
    BY <1>1, <1>2, <2>1
<1>4. M!CutOff(c)
  BY <1>3, PipesMapped DEF M!CutOff
<1> QED
  BY <1>4 DEF M!Part, M!MirrorNext

\* A step of one connection that changes nothing on its way.
LEMMA PipeStays ==
  ASSUME PInv, NEW c \in Sinks, NEW k, NEW p,
         conn' = [conn EXCEPT ![c] = k], shell' = [shell EXCEPT ![c] = p],
         Severed(k, p) <=> Severed(conn[c], shell[c]),
         ~Severed(k, p) => Way(k, p) = Way(conn[c], shell[c]) /\ Seen(p.view) = Seen(shell[c].view)
  PROVE  Ways' = Ways /\ Having' = Having /\ Cuts' = Cuts
<1>1. Severed(k, p) = Severed(conn[c], shell[c])
  BY DEF Severed
<1>2. Way(k, p) = Way(conn[c], shell[c]) /\ Has(k, p) = Has(conn[c], shell[c])
  <2>1. CASE Severed(k, p)
    BY <1>1, <2>1 DEF Way, Has
  <2>2. CASE ~Severed(k, p)
    BY <1>1, <2>2 DEF Has
  <2> QED
    BY <2>1, <2>2
<1>4. /\ Ways = [d \in Sinks |-> Ways[d]] /\ Having = [d \in Sinks |-> Having[d]]
      /\ Cuts = [d \in Sinks |-> Cuts[d]]
  BY DEF Ways, Having, Cuts
<1> QED
  <2>1. /\ Ways' = [Ways EXCEPT ![c] = Way(k, p)] /\ Ways[c] = Way(conn[c], shell[c])
        /\ Having' = [Having EXCEPT ![c] = Has(k, p)] /\ Having[c] = Has(conn[c], shell[c])
        /\ Cuts' = [Cuts EXCEPT ![c] = Severed(k, p)] /\ Cuts[c] = Severed(conn[c], shell[c])
    BY OnePipe
  <2>2. /\ Ways' = [Ways EXCEPT ![c] = Ways[c]] /\ Having' = [Having EXCEPT ![c] = Having[c]]
        /\ Cuts' = [Cuts EXCEPT ![c] = Cuts[c]]
    BY <1>1, <1>2, <2>1
  <2> QED
    BY <1>4, <2>2

----
(* The steps that cut a connection, or find it cut.                        *)

\* The step of a connection's record.
LEMMA StepOf ==
  ASSUME NEW k \in Conns, NEW s
  PROVE  /\ [k EXCEPT !.step = s].step = s
         /\ [k EXCEPT !.step = s].failed = k.failed
         /\ Failed(k).failed /\ [Failed(k) EXCEPT !.step = s].failed
BY DEF Conns, Failed

\* What Local leaves alone.
LEMMA LocalLeaves ==
  ASSUME PInv, NEW c \in Sinks, NEW k, Local(c, k)
  PROVE  /\ conn' = [conn EXCEPT ![c] = k] /\ shell' = [shell EXCEPT ![c] = shell[c]]
         /\ UNCHANGED M!feedVars
<1>1. shell \in [Sinks -> Shells]
  BY DEF PInv, Roles
<1>2. UNCHANGED vars /\ shell' = shell /\ conn' = [conn EXCEPT ![c] = k]
  BY DEF Local
<1> QED
  BY <1>1, <1>2, FeedMapped

\* A handler step after which its connection is cut.
LEMMA LocalParts ==
  ASSUME PInv, NEW c \in Sinks, NEW k, Local(c, k), Severed(k, shell[c])
  PROVE  M!MirrorNext
BY LocalLeaves, PipeParts

\* A handler step the shell does not see.
LEMMA LocalStays ==
  ASSUME PInv, NEW c \in Sinks, NEW k, Local(c, k),
         Severed(k, shell[c]) <=> Severed(conn[c], shell[c]),
         ~Severed(k, shell[c]) => Way(k, shell[c]) = Way(conn[c], shell[c])
  PROVE  UNCHANGED M!mirrorVars
<1>1. /\ conn' = [conn EXCEPT ![c] = k] /\ shell' = [shell EXCEPT ![c] = shell[c]]
      /\ UNCHANGED M!feedVars
  BY LocalLeaves
<1>2. Ways' = Ways /\ Having' = Having /\ Cuts' = Cuts
  BY <1>1, PipeStays
<1> QED
  BY <1>1, <1>2, PipesStay

\* handle returns, or has not got so far.
LEMMA PartsHandler ==
  ASSUME PInv, NEW c \in Sinks,
         Abort(c) \/ acceptLoop(c) \/ HandshakeDone(c) \/ StartFailed(c)
           \/ Goto(c, "unstarted") \/ connectionDone(c) \/ DetachConn(c)
  PROVE  M!MirrorNext
<1>1. conn[c] \in Conns /\ shell[c] \in Shells /\ conn \in [Sinks -> Conns] /\ shell \in [Sinks -> Shells]
  BY OfConnection DEF PInv, Roles
<1>2. shell' = shell => shell' = [shell EXCEPT ![c] = shell[c]]
  BY <1>1
<1>3. CASE Abort(c)
  <2> DEFINE k == [Failed(conn[c]) EXCEPT !.step = "draining"]
  <2>1. Local(c, k) /\ Severed(k, shell[c])
    BY <1>1, <1>3, StepOf DEF Abort, Severed
  <2> QED
    BY <2>1, LocalParts
<1>4. ASSUME NEW s \in {"handshake", "unstarted"}, Goto(c, s) PROVE M!MirrorNext
  <2> DEFINE k == [conn[c] EXCEPT !.step = s]
  <2>1. Local(c, k) /\ Severed(k, shell[c])
    BY <1>1, <1>4, StepOf DEF Goto, Severed, Linked
  <2> QED
    BY <2>1, LocalParts
<1>5. CASE acceptLoop(c)
  BY <1>4, <1>5 DEF acceptLoop
<1>6. CASE HandshakeDone(c)
  <2> DEFINE k == [conn[c] EXCEPT !.step = "numbered", !.generation = nextGen + 1]
  <2>1. conn' = [conn EXCEPT ![c] = k] /\ UNCHANGED vars /\ shell' = shell
    BY <1>1, <1>6 DEF HandshakeDone
  <2>2. Severed(k, shell[c])
    BY <1>1 DEF Severed, Linked, Conns
  <2> HIDE DEF k
  <2> QED
    BY <1>2, <2>1, <2>2, FeedMapped, PipeParts
<1>7. CASE StartFailed(c)
  <2> DEFINE k == [Failed(conn[c]) EXCEPT !.step = "draining"]
  <2>1. conn' = [conn EXCEPT ![c] = k] /\ (Detach(c) \/ UNCHANGED vars) /\ shell' = shell
    BY <1>7 DEF StartFailed
  <2>2. Severed(k, shell[c])
    BY <1>1, StepOf DEF Severed
  <2> HIDE DEF k
  <2> QED
    BY <1>2, <2>1, <2>2, FeedMapped, PipeParts
<1>8. CASE connectionDone(c)
  <2> DEFINE k == [conn[c] EXCEPT !.step = "detaching"]
  <2>1. conn' = [conn EXCEPT ![c] = k] /\ UNCHANGED vars /\ shell' = shell
    BY <1>1, <1>8 DEF connectionDone
  <2>2. Severed(k, shell[c])
    BY <1>1, StepOf DEF Severed, Linked
  <2> HIDE DEF k
  <2> QED
    BY <1>2, <2>1, <2>2, FeedMapped, PipeParts
<1>9. CASE DetachConn(c)
  <2>1. /\ conn' = [conn EXCEPT ![c] = GoneConn] /\ (Detach(c) \/ UNCHANGED vars)
        /\ shell' = [shell EXCEPT ![c] = LeftShell]
    BY <1>9 DEF DetachConn
  <2>2. Severed(GoneConn, LeftShell)
    BY DEF Severed, GoneConn, NewConn
  <2> QED
    BY <2>1, <2>2, FeedMapped, PipeParts
<1> QED
  BY <1>3, <1>4, <1>5, <1>6, <1>7, <1>8, <1>9

\* The writer ends, or the peer leaves.
LEMMA PartsOther ==
  ASSUME PInv, NEW c \in Sinks, WriteFails(c) \/ WriterExit(c) \/ PeerLeaves(c)
  PROVE  M!MirrorNext
<1>1. conn[c] \in Conns /\ shell[c] \in Shells /\ conn \in [Sinks -> Conns] /\ shell \in [Sinks -> Shells]
  BY OfConnection DEF PInv, Roles
<1>2. CASE WriteFails(c)
  <2> DEFINE k == [Failed(conn[c]) EXCEPT !.writer = "done"]
  <2>1. Local(c, k)
    BY <1>2 DEF WriteFails
  <2>2. Severed(k, shell[c])
    BY <1>1 DEF Severed, Conns, Failed
  <2> HIDE DEF k
  <2> QED
    BY <2>1, <2>2, LocalParts
<1>3. CASE WriterExit(c)
  <2> DEFINE k == [conn[c] EXCEPT !.writer = "done"]
  <2>1. Local(c, k) /\ conn[c].failed
    BY <1>3 DEF WriterExit
  <2>2. Severed(k, shell[c])
    BY <1>1, <2>1 DEF Severed, Conns
  <2> HIDE DEF k
  <2> QED
    BY <2>1, <2>2, LocalParts
<1>4. CASE PeerLeaves(c)
  <2>1. /\ shell' = [shell EXCEPT ![c] = LeftShell] /\ conn' = [conn EXCEPT ![c] = conn[c]]
        /\ UNCHANGED vars
    BY <1>1, <1>4 DEF PeerLeaves
  <2>2. Severed(conn[c], LeftShell)
    BY DEF Severed, LeftShell, NewShell
  <2> QED
    BY <2>1, <2>2, FeedMapped, PipeParts
<1> QED
  BY <1>2, <1>3, <1>4

----
(* The steps a shell does not see.                                         *)

\* Whatever is pending before start belongs to the backlog.
LEMMA BacklogIs ==
  ASSUME NEW k \in Conns, NEW a, NEW v, Backlogged(k, a, v)
  PROVE  /\ Backlog(k) = k.pending /\ k.pending \in Seq(Msgs)
         /\ Prologue(k) \in Seq(Msgs) /\ Prologue(k) \o k.pending \in Seq(Msgs)
<1>1. k.pending \in Seq(Msgs) /\ k.baseline \in Baselines
  BY DEF Conns
<1>2. {i \in DOMAIN k.pending : k.pending[i].seq > k.baseline.sequence} = DOMAIN k.pending
  BY DEF Backlogged
<1>3. Backlog(k) = k.pending
  BY <1>1, <1>2, PickAll DEF Backlog
<1>4. HelloMsg \in Msgs /\ SnapshotMsg(k.baseline) \in Msgs
  BY <1>1 DEF Msgs, SnapshotMsg, Baselines, Pictures
<1>5. Prologue(k) \in Seq(Msgs)
  BY <1>4 DEF Prologue
<1> QED
  BY <1>1, <1>3, <1>5

\* A connection that is not cut.
LEMMA LinkedFacts ==
  ASSUME NEW k, NEW p, NEW a, NEW v, Served(k, p, a, v), ~Severed(k, p)
  PROVE  /\ k \in Conns /\ p \in Shells /\ Orderly(p) /\ ~k.failed /\ p.open /\ InStep(k)
         /\ k.started <=> k.step # "attached"
         /\ k.started => Streaming(k, p, a, v) /\ Asking(k, p) /\ k.pending = <<>>
         /\ ~k.started => Waiting(k, p) /\ Backlogged(k, a, v) /\ p = NewShell
<1>1. k.step \in Linked /\ ~k.failed /\ p.open
  BY DEF Severed
<1>2. k \in Conns /\ p \in Shells /\ Orderly(p) /\ InStep(k)
  BY <1>1 DEF Served
<1>3. k.started <=> k.step # "attached"
  BY <1>1, <1>2 DEF InStep, Linked, StartedSteps
<1>4. k.started => Streaming(k, p, a, v) /\ Asking(k, p) /\ k.pending = <<>>
  BY <1>1, <1>2 DEF Served, InStep
<1>5. ~k.started => Waiting(k, p) /\ Backlogged(k, a, v) /\ p = NewShell
  BY <1>1, <1>3 DEF Served, Waiting
<1> QED
  BY <1>1, <1>2, <1>3, <1>4, <1>5

\* start: what was promised is queued.
LEMMA StartStays ==
  ASSUME PInv, NEW c \in Sinks, start(c)
  PROVE  M!MirrorNext \/ UNCHANGED M!mirrorVars
<1> DEFINE k == conn[c]
           p == shell[c]
<1>1. k \in Conns /\ Served(k, p, sink = c, view) /\ k.step = "attached"
  BY OfConnection DEF start, At
<1>2. CASE ~StartAccepts(k)
  BY <1>2, PartsHandler DEF start
<1>3. CASE StartAccepts(k)
  <2>1. Local(c, Started(k)) /\ ~k.failed
    BY <1>3 DEF start, StartAccepts
  <2>2. /\ Started(k).step = "started" /\ Started(k).failed = k.failed /\ Started(k).started
        /\ Started(k).queue = Prologue(k) \o Backlog(k) /\ Started(k).pending = <<>>
        /\ Started(k).held = k.held
    BY <1>1 DEF Started, Reserved, Reserve, Conns
  <2>3. Severed(Started(k), p) <=> Severed(k, p)
    BY <1>1, <2>2 DEF Severed, Linked
  <2>4. ASSUME ~Severed(k, p) PROVE Way(Started(k), p) = Way(k, p)
    <3>1. /\ InStep(k) /\ ~k.started /\ p = NewShell
          /\ Backlogged(k, sink = c, view)
      BY <1>1, <2>4, LinkedFacts
    <3>2. k.held = <<>>
      BY <1>1, <3>1 DEF InStep
    <3>3. Prologue(k) \o Backlog(k) \in Seq(Msgs)
      BY <1>1, <3>1, BacklogIs
    <3>4. Outstanding(Started(k)) = <<>> \o (Prologue(k) \o Backlog(k)) \o <<>>
      BY <2>2, <3>2 DEF Outstanding
    <3>5. \A s \in Seq(Msgs) : <<>> \o s \o <<>> = s
      OBVIOUS
    <3>6. Outstanding(Started(k)) = Prologue(k) \o Backlog(k)
      BY <3>3, <3>4, <3>5
    <3> QED
      BY <2>2, <2>3, <2>4, <3>1, <3>6 DEF Way
  <2> QED
    BY <2>1, <2>3, <2>4, LocalStays
<1> QED
  BY <1>2, <1>3

\* The frames of two records.
LEMMA SameWay ==
  ASSUME NEW k, NEW k2, NEW p,
         Severed(k2, p) <=> Severed(k, p), k2.started = k.started, k.started,
         Outstanding(k2) = Outstanding(k)
  PROVE  Way(k2, p) = Way(k, p)
BY DEF Way

\* The presenter becomes current; the writer takes a frame.
LEMMA LoopStays ==
  ASSUME PInv, NEW c \in Sinks, Replace(c) \/ WriterTake(c)
  PROVE  UNCHANGED M!mirrorVars
<1> DEFINE k == conn[c]
           p == shell[c]
<1>1. /\ k \in Conns /\ p \in Shells /\ Served(k, p, sink = c, view)
      /\ conn \in [Sinks -> Conns] /\ shell \in [Sinks -> Shells]
  BY OfConnection DEF PInv, Roles
<1>2. CASE Replace(c)
  <2> DEFINE k2 == [k EXCEPT !.step = "replacing", !.old = current]
  <2>1. /\ conn' = [conn EXCEPT ![c] = k2] /\ shell' = [shell EXCEPT ![c] = p]
        /\ UNCHANGED vars /\ k.step = "started"
    BY <1>1, <1>2 DEF Replace, At
  <2>2. /\ k2.step = "replacing" /\ k2.failed = k.failed /\ k2.started = k.started
        /\ k2.held = k.held /\ k2.queue = k.queue /\ k2.pending = k.pending
    BY <1>1 DEF Conns
  <2> HIDE DEF k2
  <2>3. Severed(k2, p) <=> Severed(k, p)
    BY <2>1, <2>2 DEF Severed, Linked
  <2>4. ASSUME ~Severed(k2, p) PROVE Way(k2, p) = Way(k, p)
    <3>1. k.started
      BY <1>1, <2>1, <2>3, <2>4, LinkedFacts
    <3>2. Outstanding(k2) = Outstanding(k)
      BY <2>2 DEF Outstanding
    <3> QED
      BY <2>2, <2>3, <3>1, <3>2, SameWay
  <2>5. Ways' = Ways /\ Having' = Having /\ Cuts' = Cuts
    BY <2>1, <2>3, <2>4, PipeStays
  <2> QED
    BY <2>1, <2>5, FeedMapped, PipesStay
<1>3. CASE WriterTake(c)
  <2> DEFINE k2 == [k EXCEPT !.writer = "writing", !.held = <<Head(k.queue)>>, !.queue = Tail(k.queue)]
  <2>1. Local(c, k2) /\ k.writer = "idle" /\ k.queue # <<>>
    BY <1>3 DEF WriterTake
  <2>2. /\ k2.step = k.step /\ k2.failed = k.failed /\ k2.started = k.started
        /\ k2.held = <<Head(k.queue)>> /\ k2.queue = Tail(k.queue) /\ k2.pending = k.pending
    BY <1>1 DEF Conns
  <2> HIDE DEF k2
  <2>3. Severed(k2, p) <=> Severed(k, p)
    BY <2>2 DEF Severed
  <2>4. ASSUME ~Severed(k2, p) PROVE Way(k2, p) = Way(k, p)
    <3>1. InStep(k) /\ k.started
      <4>1. InStep(k) /\ (k.started <=> k.step # "attached")
        BY <1>1, <2>3, <2>4, LinkedFacts
      <4>2. k.step \in {"reading", "dispatching"}
        BY <2>1, <4>1 DEF InStep
      <4> QED
        BY <4>1, <4>2
    <3>2. k.held = <<>> /\ k.queue \in Seq(Msgs) /\ k.pending \in Seq(Msgs)
      BY <1>1, <2>1, <3>1 DEF InStep, Conns
    <3>3. <<Head(k.queue)>> \o Tail(k.queue) = k.queue /\ <<>> \o k.queue = k.queue
      BY <2>1, <3>2
    <3>4. Outstanding(k2) = Outstanding(k)
      BY <2>2, <3>2, <3>3 DEF Outstanding
    <3> QED
      BY <2>2, <2>3, <3>1, <3>4, SameWay
  <2> QED
    BY <2>1, <2>3, <2>4, LocalStays
<1> QED
  BY <1>2, <1>3

\* A command is read.
LEMMA CommandStays ==
  ASSUME PInv, NEW c \in Sinks, NEW id \in Nat, ReadCommand(c, id)
  PROVE  UNCHANGED M!mirrorVars
<1> DEFINE k == conn[c]
           p == shell[c]
           k2 == [k EXCEPT !.step = "dispatching", !.lastRequestID = id]
           p2 == [p EXCEPT !.asked = Append(p.asked, id)]
<1>1. /\ k \in Conns /\ p \in Shells /\ Served(k, p, sink = c, view)
      /\ conn \in [Sinks -> Conns] /\ shell \in [Sinks -> Shells]
  BY OfConnection DEF PInv, Roles
<1>2. /\ conn' = [conn EXCEPT ![c] = k2] /\ shell' = [shell EXCEPT ![c] = p2]
      /\ UNCHANGED vars /\ k.step = "reading" /\ ~k.failed /\ p.open
  BY <1>1 DEF ReadCommand, At
<1>3. /\ k2.step = "dispatching" /\ k2.failed = k.failed /\ k2.started = k.started
      /\ k2.held = k.held /\ k2.queue = k.queue /\ k2.pending = k.pending
      /\ p2.open = p.open /\ p2.view = p.view
  BY <1>1 DEF Conns, Shells
<1>4. ~Severed(k, p) /\ ~Severed(k2, p2)
  BY <1>2, <1>3 DEF Severed, Linked
<1>5. k.started
  BY <1>1, <1>2, <1>4, LinkedFacts
<1>6. Outstanding(k2) = Outstanding(k) /\ Outstanding(k) \in Seq(Msgs)
  BY <1>1, <1>3, OutstandingType DEF Outstanding
<1>7. Append(p.asked, id) \in Seq(Nat)
  BY <1>1 DEF Shells
<1>8. StatesAfter(p2, Outstanding(k)) = StatesAfter(p, Outstanding(k))
  BY <1>1, <1>6, <1>7, StatesAsked
<1>9. Way(k2, p2) = Way(k, p)
  <2> HIDE DEF k2, p2
  <2> QED
    BY <1>3, <1>4, <1>5, <1>6, <1>8 DEF Way
<1> HIDE DEF k2, p2
<1>10. Ways' = Ways /\ Having' = Having /\ Cuts' = Cuts
  BY <1>2, <1>3, <1>4, <1>9, PipeStays
<1> QED
  BY <1>2, <1>10, FeedMapped, PipesStay

\* A reply is queued: it brings no state.
LEMMA ReplyStays ==
  ASSUME PInv, NEW c \in Sinks, reply(c)
  PROVE  M!MirrorNext \/ UNCHANGED M!mirrorVars
<1> DEFINE k == conn[c]
           p == shell[c]
           m == ReplyMsg(k.lastRequestID)
           k2 == [Reserve(k, m) EXCEPT !.queue = Append(@, m), !.step = "reading"]
<1>1. k \in Conns /\ p \in Shells /\ Served(k, p, sink = c, view) /\ k.step = "dispatching"
  BY OfConnection DEF reply, At
<1>2. m \in Msgs /\ ~Carries(m)
  BY <1>1 DEF Msgs, ReplyMsg, Conns, Carries
<1>3. /\ k2.step = "reading" /\ k2.failed = k.failed /\ k2.started = k.started
      /\ k2.held = k.held /\ k2.queue = Append(k.queue, m) /\ k2.pending = k.pending
  BY <1>1 DEF Conns, Reserve
<1>4. CASE Abort(c)
  BY <1>4, PartsHandler
<1>5. CASE Local(c, k2)
  <2> HIDE DEF k2, m
  <2>1. Severed(k2, p) <=> Severed(k, p)
    BY <1>1, <1>3 DEF Severed, Linked
  <2>2. ASSUME ~Severed(k2, p) PROVE Way(k2, p) = Way(k, p)
    <3>1. k.started /\ k.pending = <<>>
      BY <1>1, <2>1, <2>2, LinkedFacts
    <3>2. k.held \in Seq(Msgs) /\ k.queue \in Seq(Msgs) /\ k.held \o k.queue \in Seq(Msgs)
      BY <1>1 DEF Conns
    <3>3. k.held \o Append(k.queue, m) = Append(k.held \o k.queue, m)
      <4>1. \A s, t \in Seq(Msgs) : s \o Append(t, m) = Append(s \o t, m)
        BY <1>2, AppendLast
      <4> QED
        BY <3>2, <4>1
    <3>4. \A s \in Seq(Msgs) : s \o <<>> = s
      OBVIOUS
    <3>5. Append(k.held \o k.queue, m) \in Seq(Msgs)
      BY <1>2, <3>2
    <3>6. Outstanding(k) = k.held \o k.queue /\ Outstanding(k2) = Append(Outstanding(k), m)
      BY <1>3, <3>1, <3>2, <3>3, <3>4, <3>5 DEF Outstanding
    <3>7. StatesAfter(p, Append(Outstanding(k), m)) = StatesAfter(p, Outstanding(k))
      BY <1>1, <1>2, <3>2, <3>6, StatesAppend
    <3> QED
      BY <1>3, <2>1, <2>2, <3>1, <3>6, <3>7 DEF Way
  <2> QED
    BY <1>5, <2>1, <2>2, LocalStays
<1> QED
  BY <1>4, <1>5 DEF reply

----
(* The steps the mirror sees.                                              *)

\* A frame is written: the state it carries, if it carries one, arrives.
LEMMA WriteArrives ==
  ASSUME PInv, NEW c \in Sinks, WriteFrame(c)
  PROVE  M!MirrorNext \/ UNCHANGED M!mirrorVars
<1> DEFINE k == conn[c]
           p == shell[c]
           m == Head(k.held)
           k2 == Written(k, m)
           p2 == Understand(p, m)
<1>1. /\ k \in Conns /\ p \in Shells /\ Served(k, p, sink = c, view)
      /\ conn \in [Sinks -> Conns] /\ shell \in [Sinks -> Shells]
  BY OfConnection DEF PInv, Roles
<1>2. /\ conn' = [conn EXCEPT ![c] = k2] /\ shell' = [shell EXCEPT ![c] = p2]
      /\ UNCHANGED vars /\ k.writer = "writing" /\ ~k.failed /\ p.open
  BY <1>1 DEF WriteFrame
<1>3. InStep(k) /\ k.step \in {"reading", "dispatching"}
  BY <1>1, <1>2 DEF Served, InStep
<1>4. ~Severed(k, p)
  BY <1>2, <1>3 DEF Severed, Linked
<1>5. k.started /\ k.pending = <<>>
  BY <1>1, <1>3, <1>4, LinkedFacts
<1>6. k.held = <<m>> /\ m \in Msgs /\ k.queue \in Seq(Msgs)
  <2>1. k.held \in Seq(Msgs) /\ Len(k.held) = 1 /\ k.queue \in Seq(Msgs)
    BY <1>1, <1>2, <1>3 DEF InStep, Conns
  <2> QED
    BY <2>1
<1>7. /\ k2.step = k.step /\ k2.failed = k.failed /\ k2.started = k.started
      /\ k2.held = <<>> /\ k2.queue = k.queue /\ k2.pending = k.pending
  BY <1>1 DEF Conns, Written, Release
<1> HIDE DEF k2, m
<1>8. Outstanding(k) = <<m>> \o k.queue /\ Outstanding(k2) = k.queue
  <2>1. \A s \in Seq(Msgs) : s \o <<>> = s /\ <<>> \o s = s
    OBVIOUS
  <2>2. <<m>> \o k.queue \in Seq(Msgs)
    BY <1>6
  <2> QED
    BY <1>5, <1>6, <1>7, <2>1, <2>2 DEF Outstanding
<1>9. p2 \in Shells /\ p2.open = p.open
  BY <1>1, <1>6, UnderstandCases
<1>10. ~Severed(k2, p2)
  BY <1>4, <1>7, <1>9 DEF Severed
<1>11. After(p, <<m>>) = p2
  BY <1>6, AfterOne
<1> HIDE DEF p2
<1>12. Way(k, p) = StatesAfter(p, <<m>>) \o Way(k2, p2)
  <2>1. <<m>> \in Seq(Msgs)
    BY <1>6
  <2>2. StatesAfter(p, <<m>> \o k.queue) = StatesAfter(p, <<m>>) \o StatesAfter(p2, k.queue)
    BY <1>1, <1>6, <1>11, <2>1, StatesConcat
  <2> QED
    BY <1>4, <1>5, <1>7, <1>8, <1>10, <2>2 DEF Way
<1>13. Way(k2, p2) \in Seq(Glimpses)
  BY <1>5, <1>6, <1>7, <1>8, <1>9, <1>10, StatesType DEF Way
<1>14. CASE Carries(m)
  <2>1. StatesAfter(p, <<m>>) = <<Seen(p2.view)>> /\ Seen(p2.view) \in Glimpses
    <3>1. p2.view \in Pictures
      BY <1>9 DEF Shells
    <3> QED
      BY <1>1, <1>6, <1>14, <3>1, StatesOne DEF Glimpses, p2
  <2>2. Way(k, p) # <<>> /\ Head(Way(k, p)) = Has(k2, p2) /\ Tail(Way(k, p)) = Way(k2, p2)
    <3>1. Has(k2, p2) = Seen(p2.view)
      BY <1>10 DEF Has
    <3>2. \A e \in Glimpses, w \in Seq(Glimpses) :
             <<e>> \o w # <<>> /\ Head(<<e>> \o w) = e /\ Tail(<<e>> \o w) = w
      <4> TAKE e \in Glimpses, w \in Seq(Glimpses)
      <4>1. <<e>> \o w \in Seq(Glimpses) /\ Len(<<e>> \o w) = Len(w) + 1 /\ Len(w) \in Nat
        OBVIOUS
      <4>2. (<<e>> \o w)[1] = e /\ \A i \in 1..Len(w) : (<<e>> \o w)[i + 1] = w[i]
        OBVIOUS
      <4>3. <<e>> \o w # <<>> /\ Head(<<e>> \o w) = e
        BY <4>1, <4>2
      <4>4. Tail(<<e>> \o w) = w
        BY <4>1, <4>2, <4>3, HeadTailProperties, SeqEqual
      <4> QED
        BY <4>3, <4>4
    <3> QED
      BY <1>12, <1>13, <2>1, <3>1, <3>2
  <2>3. /\ Ways' = [Ways EXCEPT ![c] = Way(k2, p2)] /\ Ways[c] = Way(k, p)
        /\ Having' = [Having EXCEPT ![c] = Has(k2, p2)] /\ Having[c] = Has(k, p)
        /\ Cuts' = [Cuts EXCEPT ![c] = Severed(k2, p2)] /\ Cuts[c] = Severed(k, p)
    BY <1>2, OnePipe
  <2>4. Cuts' = Cuts
    <3>1. Cuts = [d \in Sinks |-> Cuts[d]]
      BY DEF Cuts
    <3>2. Severed(k2, p2) = Severed(k, p)
      BY <1>4, <1>10 DEF Severed
    <3>3. Cuts' = [Cuts EXCEPT ![c] = Cuts[c]]
      BY <2>3, <3>2
    <3> QED
      BY <3>1, <3>3
  <2>5. M!Arrive(c)
    <3>1. /\ Ways[c] # <<>> /\ Having' = [Having EXCEPT ![c] = Head(Ways[c])]
          /\ Ways' = [Ways EXCEPT ![c] = Tail(Ways[c])]
      BY <2>2, <2>3
    <3>2. UNCHANGED M!feedVars
      BY <1>2, FeedMapped
    <3> QED
      BY <2>4, <3>1, <3>2, PipesMapped DEF M!Arrive
  <2> QED
    BY <2>5 DEF M!MirrorNext
<1>15. CASE ~Carries(m)
  <2>1. Way(k, p) = Way(k2, p2)
    <3>1. StatesAfter(p, <<m>>) = <<>>
      BY <1>1, <1>6, <1>15, StatesOne
    <3>2. \A w \in Seq(Glimpses) : <<>> \o w = w
      OBVIOUS
    <3> QED
      BY <1>12, <1>13, <3>1, <3>2
  <2>2. p2.view = p.view
    <3>1. m.kind \notin {"snapshot", "delta"}
      BY <1>15 DEF Carries
    <3> QED
      BY <1>1, <3>1 DEF p2, Understand, Shells
  <2>3. Ways' = Ways /\ Having' = Having /\ Cuts' = Cuts
    BY <1>2, <1>4, <1>10, <2>1, <2>2, PipeStays
  <2> QED
    BY <1>2, <2>3, FeedMapped, PipesStay
<1> QED
  BY <1>14, <1>15

\* A connection is subscribed and given the state of this moment.
LEMMA AttachJoins ==
  ASSUME PInv, PInv', NEW c \in Sinks, AttachConn(c)
  PROVE  M!MirrorNext
<1> DEFINE k == conn[c]
           p == shell[c]
           k2 == [k EXCEPT !.step = "attached", !.baseline = snapshotLocked]
<1>1. /\ k \in Conns /\ p \in Shells /\ Served(k, p, sink = c, view)
      /\ conn \in [Sinks -> Conns] /\ shell \in [Sinks -> Shells]
  BY OfConnection DEF PInv, Roles
<1>2. /\ conn' = [conn EXCEPT ![c] = k2] /\ shell' = [shell EXCEPT ![c] = p]
      /\ Attach(c) /\ k.step = "numbered"
  BY <1>1 DEF AttachConn, At
<1>3. /\ k2.step = "attached" /\ k2.failed = k.failed /\ k2.started = k.started
      /\ k2.pending = k.pending /\ k2.baseline = snapshotLocked
  BY <1>1 DEF Conns
<1> HIDE DEF k2
<1>4. M!Subscribe /\ Seen(snapshotLocked) = M!State(sequence, Published) /\ sink' = c
  <2>1. sink' = c /\ view' = snapshotLocked /\ sequence' = sequence /\ items' = items
    BY <1>2 DEF Attach
  <2>2. Published' = Published
    BY <2>1 DEF Published, KeyAt, Live
  <2>3. view'.sequence = sequence' /\ view'.items = Published'
    BY <2>1, DistinctAssumption DEF PInv, Inv, SinkConverges
  <2>4. Seen(snapshotLocked) = M!State(sequence, Published)
    BY <2>1, <2>2, <2>3 DEF Seen, M!State
  <2> QED
    BY <2>1, <2>2, <2>4 DEF M!Subscribe
<1>5. Severed(k, p)
  BY <1>2 DEF Severed, Linked
<1>6. /\ Ways' = [Ways EXCEPT ![c] = Way(k2, p)] /\ Ways[c] = Way(k, p)
      /\ Having' = [Having EXCEPT ![c] = Has(k2, p)] /\ Having[c] = Has(k, p)
      /\ Cuts' = [Cuts EXCEPT ![c] = Severed(k2, p)] /\ Cuts[c] = Severed(k, p)
  BY <1>2, OnePipe
<1>7. CASE Severed(k2, p)
  <2>1. Ways' = Ways /\ Having' = Having /\ Cuts' = Cuts
    BY <1>2, <1>5, <1>7, PipeStays
  <2>2. M!Join
    BY <1>4, <2>1, PipesMapped DEF M!Join
  <2> QED
    BY <2>2 DEF M!MirrorNext
<1>8. CASE ~Severed(k2, p)
  <2>1. ~k.failed /\ p.open
    BY <1>3, <1>8 DEF Severed
  <2>2. ~k.started /\ k.pending = <<>> /\ p = NewShell
    <3>1. InStep(k)
      BY <1>1, <2>1 DEF Served
    <3>2. ~k.started /\ k.pending = <<>>
      BY <1>2, <3>1 DEF InStep, StartedSteps
    <3> QED
      BY <1>1, <2>1, <3>2 DEF Served, Waiting
  <2>3. Backlog(k2) = <<>>
    <3>1. {i \in DOMAIN <<>> : <<>>[i].seq > k2.baseline.sequence} = {}
      OBVIOUS
    <3>2. Picked(<<>>, {}) = <<>>
      <4>1. <<>> \in Seq(Msgs)
        OBVIOUS
      <4> QED
        BY <4>1, PickAll
    <3> QED
      BY <1>3, <2>2, <3>1, <3>2 DEF Backlog
  <2>4. snapshotLocked \in Baselines
    <3>1. conn'[c] = k2
      BY <1>1, <1>2
    <3> QED
      BY <1>3, <3>1 DEF PInv, Roles, Conns
  <2>5. StatesAfter(NewShell, Prologue(k2) \o Backlog(k2)) = <<Seen(snapshotLocked)>>
    <3> DEFINE h == HelloMsg
               b == SnapshotMsg(snapshotLocked)
    <3>1. /\ h \in Msgs /\ b \in Msgs /\ ~Carries(h) /\ Carries(b)
          /\ h.kind = "hello" /\ b.kind = "snapshot" /\ b.body = snapshotLocked
      BY <2>4 DEF Msgs, HelloMsg, SnapshotMsg, Baselines, Pictures, Carries
    <3>2. Prologue(k2) = <<h, b>>
      BY <1>3 DEF Prologue
    <3> HIDE DEF h, b
    <3>3. /\ <<h, b>> = <<h>> \o <<b>> /\ <<h, b>> \o <<>> = <<h, b>>
          /\ <<h>> \in Seq(Msgs) /\ <<b>> \in Seq(Msgs)
      <4>1. <<h, b>> = <<h>> \o <<b>>
        <5>1. <<h, b>> = Append(<<h>>, b) /\ <<h>> \in Seq(Msgs)
          BY <3>1
        <5> QED
          BY <3>1, <5>1, AppendIsConcat
      <4>2. <<h>> \in Seq(Msgs) /\ <<b>> \in Seq(Msgs) /\ <<h, b>> \in Seq(Msgs)
        BY <3>1
      <4> QED
        BY <4>1, <4>2, ConcatEmptySeq
    <3> DEFINE g == Understand(NewShell, h)
    <3>4. g \in Shells /\ g.stage = "greeted" /\ Understand(g, b).view = snapshotLocked
      <4>1. g = [NewShell EXCEPT !.stage = "greeted"]
        BY <3>1, NewShellType DEF Understand
      <4>2. g \in Shells /\ g.stage = "greeted"
        BY <4>1, NewShellType DEF Shells
      <4> HIDE DEF g
      <4>3. Understand(g, b) = [g EXCEPT !.stage = "live", !.view = snapshotLocked]
        BY <3>1, <4>2 DEF Understand
      <4> QED
        BY <4>2, <4>3 DEF Shells
    <3>5. StatesAfter(NewShell, <<h>>) = <<>> /\ After(NewShell, <<h>>) = g
      BY <3>1, NewShellType, StatesOne, AfterOne
    <3> HIDE DEF g
    <3>6. StatesAfter(g, <<b>>) = <<Seen(snapshotLocked)>>
      BY <3>1, <3>4, StatesOne
    <3>7. StatesAfter(NewShell, <<h>> \o <<b>>) = <<>> \o <<Seen(snapshotLocked)>>
      BY <3>3, <3>5, <3>6, NewShellType, StatesConcat
    <3>8. <<>> \o <<Seen(snapshotLocked)>> = <<Seen(snapshotLocked)>>
      OBVIOUS
    <3> QED
      BY <2>3, <3>2, <3>3, <3>7, <3>8
  <2>6. Way(k2, p) = <<M!State(sequence, Published)>>
    BY <1>3, <1>4, <1>8, <2>2, <2>5 DEF Way
  <2>7. Has(k2, p) = Has(k, p)
    BY <1>5, <1>8, <2>2 DEF Has, NewShell
  <2>8. Having' = Having
    <3>1. Having = [d \in Sinks |-> Having[d]] /\ Having' = [Having EXCEPT ![c] = Having[c]]
      BY <1>6, <2>7 DEF Having
    <3> QED
      BY <3>1
  <2>9. Severed(k2, p) = FALSE /\ Cuts[c]
    BY <1>5, <1>6, <1>8 DEF Severed
  <2>10. M!Join
    <3>1. /\ Cuts[sink'] /\ Cuts' = [Cuts EXCEPT ![sink'] = FALSE]
          /\ Ways' = [Ways EXCEPT ![sink'] = <<M!State(sequence, Published)>>]
      BY <1>4, <1>6, <2>6, <2>9
    <3> QED
      BY <1>4, <2>8, <3>1, PipesMapped DEF M!Join
  <2> QED
    BY <2>10 DEF M!MirrorNext
<1> QED
  BY <1>7, <1>8

\* The presenter that was replaced is cut; the one that replaced it goes on.
LEMMA FailOldParts ==
  ASSUME PInv, NEW c \in Sinks, FailOld(c)
  PROVE  M!MirrorNext \/ UNCHANGED M!mirrorVars
<1> DEFINE k == conn[c]
           o == k.old
           k2 == [k EXCEPT !.step = "reading", !.writer = "idle", !.old = NoSink]
<1>1. /\ k \in Conns /\ shell[c] \in Shells /\ Served(k, shell[c], sink = c, view)
      /\ conn \in [Sinks -> Conns] /\ shell \in [Sinks -> Shells]
  BY OfConnection DEF PInv, Roles
<1>2. /\ conn' = [d \in Sinks |-> IF d = c THEN k2 ELSE IF d = o THEN Failed(conn[d]) ELSE conn[d]]
      /\ UNCHANGED vars /\ shell' = shell /\ k.step = "replacing"
  BY DEF FailOld, At
<1>3. /\ k2.step = "reading" /\ k2.failed = k.failed /\ k2.started = k.started
      /\ k2.held = k.held /\ k2.queue = k.queue /\ k2.pending = k.pending
  BY <1>1 DEF Conns
<1> HIDE DEF k2
<1>4. Severed(k2, shell[c]) <=> Severed(k, shell[c])
  BY <1>2, <1>3 DEF Severed, Linked
<1>5. ASSUME ~Severed(k2, shell[c]) PROVE Way(k2, shell[c]) = Way(k, shell[c])
  <2>1. k.started
    BY <1>1, <1>2, <1>4, <1>5, LinkedFacts
  <2>2. Outstanding(k2) = Outstanding(k)
    BY <1>3 DEF Outstanding
  <2> QED
    BY <1>3, <1>4, <2>1, <2>2, SameWay
<1>6. CASE o \in Sinks \ {c}
  <2>1. \A d \in Sinks \ {o} :
           /\ Way(conn'[d], shell'[d]) = Way(conn[d], shell[d])
           /\ Has(conn'[d], shell'[d]) = Has(conn[d], shell[d])
           /\ Severed(conn'[d], shell'[d]) = Severed(conn[d], shell[d])
    <3> TAKE d \in Sinks \ {o}
    <3>1. CASE d # c
      BY <1>2, <3>1
    <3>2. CASE d = c
      <4>1. Severed(k2, shell[c]) = Severed(k, shell[c])
        BY <1>4 DEF Severed
      <4>2. Way(k2, shell[c]) = Way(k, shell[c])
        <5>1. CASE Severed(k2, shell[c])
          BY <4>1, <5>1 DEF Way
        <5> QED
          BY <1>5, <5>1
      <4>3. Has(k2, shell[c]) = Has(k, shell[c])
        BY <4>1 DEF Has
      <4>4. conn'[d] = k2 /\ shell'[d] = shell[c]
        BY <1>2, <3>2
      <4> QED
        BY <3>2, <4>1, <4>2, <4>3, <4>4
    <3> QED
      BY <3>1, <3>2
  <2>2. Severed(conn'[o], shell'[o]) = TRUE
    <3>1. conn[o] \in Conns /\ conn'[o] = Failed(conn[o])
      BY <1>1, <1>2, <1>6
    <3>2. Failed(conn[o]).failed
      BY <3>1, StepOf
    <3> QED
      BY <3>1, <3>2 DEF Severed
  <2>3. Way(conn'[o], shell'[o]) = <<>> /\ Has(conn'[o], shell'[o]) = M!Nothing
    BY <2>2 DEF Way, Has, Seen, EmptyView, M!Nothing, M!State
  <2>4. Ways' = [Ways EXCEPT ![o] = <<>>]
    <3>1. Ways' = [d \in Sinks |-> Way(conn'[d], shell'[d])]
      BY DEF Ways
    <3>2. [Ways EXCEPT ![o] = <<>>] = [d \in Sinks |-> IF d = o THEN <<>> ELSE Way(conn[d], shell[d])]
      BY DEF Ways
    <3> QED
      BY <2>1, <2>3, <3>1, <3>2
  <2>5. Having' = [Having EXCEPT ![o] = M!Nothing]
    <3>1. Having' = [d \in Sinks |-> Has(conn'[d], shell'[d])]
      BY DEF Having
    <3>2. [Having EXCEPT ![o] = M!Nothing] = [d \in Sinks |-> IF d = o THEN M!Nothing ELSE Has(conn[d], shell[d])]
      BY DEF Having
    <3> QED
      BY <2>1, <2>3, <3>1, <3>2
  <2>6. Cuts' = [Cuts EXCEPT ![o] = TRUE]
    <3>1. Cuts' = [d \in Sinks |-> Severed(conn'[d], shell'[d])]
      BY DEF Cuts
    <3>2. [Cuts EXCEPT ![o] = TRUE] = [d \in Sinks |-> IF d = o THEN TRUE ELSE Severed(conn[d], shell[d])]
      BY DEF Cuts
    <3> QED
      BY <2>1, <2>2, <3>1, <3>2
  <2>7. M!CutOff(o)
    BY <2>4, <2>5, <2>6, PipesMapped DEF M!CutOff
  <2>8. UNCHANGED M!feedVars
    BY <1>2, FeedMapped
  <2>9. M!Part(o)
    BY <2>7, <2>8 DEF M!Part
  <2> QED
    BY <1>6, <2>9 DEF M!MirrorNext
<1>7. CASE o \notin Sinks \ {c}
  <2>1. conn' = [conn EXCEPT ![c] = k2] /\ shell' = [shell EXCEPT ![c] = shell[c]]
    <3>1. conn' = [d \in Sinks |-> IF d = c THEN k2 ELSE conn[d]]
      BY <1>2, <1>7
    <3> QED
      BY <1>1, <1>2, <3>1
  <2>2. Ways' = Ways /\ Having' = Having /\ Cuts' = Cuts
    BY <1>4, <1>5, <2>1, PipeStays
  <2> QED
    BY <1>2, <2>2, FeedMapped, PipesStay
<1> QED
  BY <1>6, <1>7

\* Close.
LEMMA CloseParts ==
  ASSUME PInv, CloseBegin \/ CloseStep
  PROVE  M!MirrorNext \/ UNCHANGED M!mirrorVars
<1>1. conn \in [Sinks -> Conns] /\ shell \in [Sinks -> Shells]
  BY DEF PInv, Roles
<1>2. CASE UNCHANGED <<vars, conn, shell>>
  <2>1. Ways' = Ways /\ Having' = Having /\ Cuts' = Cuts
    BY <1>2 DEF Ways, Having, Cuts
  <2> QED
    BY <1>2, <2>1, FeedMapped, PipesStay
<1>3. CASE CloseFail /\ closeSaw \in Sinks
  <2> DEFINE k == Failed(conn[closeSaw])
  <2>1. /\ conn' = [conn EXCEPT ![closeSaw] = k]
        /\ shell' = [shell EXCEPT ![closeSaw] = shell[closeSaw]] /\ UNCHANGED vars
    BY <1>1, <1>3 DEF CloseFail
  <2>2. Severed(k, shell[closeSaw])
    BY <1>1, <1>3 DEF Severed, Failed, Conns
  <2> HIDE DEF k
  <2> QED
    BY <1>3, <2>1, <2>2, FeedMapped, PipeParts
<1>4. CASE CloseFail /\ closeSaw \notin Sinks
  <2>1. UNCHANGED <<vars, conn, shell>>
    BY <1>1, <1>4 DEF CloseFail
  <2> QED
    BY <1>2, <2>1
<1> QED
  BY <1>2, <1>3, <1>4 DEF CloseBegin, CloseStep, CloseDone

\* What Send makes of a connection's record.
LEMMA SentRecord ==
  ASSUME NEW k \in Conns, NEW m \in Msgs
  PROVE  LET k2 == Sent(k, m)
         IN  /\ k2.step = k.step /\ k2.failed = k.failed /\ k2.started = k.started
             /\ k2.held = k.held /\ k2.baseline = k.baseline
             /\ k2.queue = IF k.started THEN Append(k.queue, m) ELSE k.queue
             /\ k2.pending = IF k.started THEN k.pending ELSE Append(k.pending, m)
<1>1. CASE k.started
  BY <1>1 DEF Sent, Reserve, Conns
<1>2. CASE ~k.started
  BY <1>2 DEF Sent, Reserve, Conns
<1> QED
  BY <1>1, <1>2

\* An accepted Send puts the state that is published then at the end of what
\* is on the way.
LEMMA SendExtends ==
  ASSUME NEW k, NEW p, NEW a, NEW v, Served(k, p, a, v), ~Severed(k, p),
         NEW m \in Msgs, Carries(m), NEW w, Served(Sent(k, m), p, TRUE, w)
  PROVE  /\ ~Severed(Sent(k, m), p)
         /\ Way(Sent(k, m), p) = Append(Way(k, p), Seen(w))
<1> DEFINE k2 == Sent(k, m)
<1>1. /\ k \in Conns /\ p \in Shells /\ InStep(k)
      /\ k.started => k.pending = <<>>
      /\ ~k.started => Backlogged(k, a, v) /\ p = NewShell
  BY LinkedFacts
<1>2. /\ k2.step = k.step /\ k2.failed = k.failed /\ k2.started = k.started
      /\ k2.held = k.held /\ k2.baseline = k.baseline
      /\ k2.queue = IF k.started THEN Append(k.queue, m) ELSE k.queue
      /\ k2.pending = IF k.started THEN k.pending ELSE Append(k.pending, m)
  BY <1>1, SentRecord
<1> HIDE DEF k2
<1>3. ~Severed(k2, p)
  BY <1>2 DEF Severed
<1>4. k2 \in Conns /\ (k2.started => Streaming(k2, p, TRUE, w)) /\ (~k2.started => Backlogged(k2, TRUE, w))
  <2>1. Served(k2, p, TRUE, w)
    BY DEF k2
  <2> QED
    BY <1>3, <2>1, LinkedFacts
<1>5. CASE k.started
  <2>1. k.held \in Seq(Msgs) /\ k.queue \in Seq(Msgs) /\ k.held \o k.queue \in Seq(Msgs)
    BY <1>1 DEF Conns
  <2>2. k.held \o Append(k.queue, m) = Append(k.held \o k.queue, m)
    <3>1. \A s, t \in Seq(Msgs) : s \o Append(t, m) = Append(s \o t, m)
      BY AppendLast
    <3> QED
      BY <2>1, <3>1
  <2>3. \A s \in Seq(Msgs) : s \o <<>> = s
    OBVIOUS
  <2>4. Append(k.held \o k.queue, m) \in Seq(Msgs)
    BY <2>1
  <2>5. Outstanding(k) = k.held \o k.queue /\ Outstanding(k2) = Append(Outstanding(k), m)
    <3>1. Outstanding(k) = (k.held \o k.queue) \o <<>>
      BY <1>1, <1>5, Zenon DEF Outstanding
    <3>2. Outstanding(k) = k.held \o k.queue
      BY <2>1, <2>3, <3>1, Zenon
    <3>3. k2.held = k.held /\ k2.queue = Append(k.queue, m) /\ k2.pending = <<>>
      BY <1>1, <1>2, <1>5
    <3>4. Outstanding(k2) = Append(k.held \o k.queue, m) \o <<>>
      BY <2>2, <3>3, Zenon DEF Outstanding
    <3>5. Outstanding(k2) = Append(k.held \o k.queue, m)
      BY <2>3, <2>4, <3>4, Zenon
    <3> QED
      BY <3>2, <3>5, Zenon
  <2>6. After(p, Append(Outstanding(k), m)).view = w
    BY <1>2, <1>4, <1>5, <2>5 DEF Streaming
  <2>7. StatesAfter(p, Append(Outstanding(k), m)) = Append(StatesAfter(p, Outstanding(k)), Seen(w))
    BY <1>1, <2>1, <2>5, <2>6, StatesAppend
  <2> QED
    BY <1>2, <1>3, <1>5, <2>5, <2>7 DEF Way, k2
<1>6. CASE ~k.started
  <2>1. /\ Backlog(k) = k.pending /\ Backlog(k2) = k2.pending /\ Prologue(k2) = Prologue(k)
        /\ Prologue(k) \in Seq(Msgs) /\ k.pending \in Seq(Msgs) /\ k2.pending \in Seq(Msgs)
        /\ Prologue(k) \o k.pending \in Seq(Msgs)
    BY <1>1, <1>2, <1>4, <1>6, BacklogIs DEF Prologue
  <2>2. Prologue(k) \o k2.pending = Append(Prologue(k) \o k.pending, m)
    <3>1. \A s, t \in Seq(Msgs) : s \o Append(t, m) = Append(s \o t, m)
      BY AppendLast
    <3> QED
      BY <1>2, <1>6, <2>1, <3>1
  <2>3. After(NewShell, Prologue(k2) \o k2.pending).view = w
    <3>1. After(NewShell, Prologue(k2) \o k2.pending) = After(After(NewShell, Prologue(k2)), k2.pending)
      BY <2>1, AfterConcat
    <3>2. After(NewShell, Prologue(k2)) = Primed(k2)
      BY <1>4, PrologueRead
    <3> QED
      BY <1>2, <1>4, <1>6, <3>1, <3>2 DEF Backlogged
  <2>4. StatesAfter(NewShell, Append(Prologue(k) \o k.pending, m))
          = Append(StatesAfter(NewShell, Prologue(k) \o k.pending), Seen(w))
    <3> DEFINE s == Prologue(k) \o k.pending
    <3>1. s \in Seq(Msgs) /\ After(NewShell, Append(s, m)).view = w
      BY <2>1, <2>2, <2>3
    <3> HIDE DEF s
    <3>2. StatesAfter(NewShell, Append(s, m)) = Append(StatesAfter(NewShell, s), Seen(w))
      BY <3>1, NewShellType, StatesAppend
    <3> QED
      BY <3>2 DEF s
  <2> QED
    BY <1>2, <1>3, <1>6, <2>1, <2>2, <2>4 DEF Way, k2
<1> QED
  BY <1>5, <1>6

\* The owner publishes: the state goes to the sink, or the sink is cut.
LEMMA DeliverForwards ==
  ASSUME PInv, PInv', NEW d, Explains(d), publish(d), Deliver(d)
  PROVE  M!MirrorNext \/ UNCHANGED M!mirrorVars
<1>1. SinkConverges' /\ shell' = shell
  BY DEF PInv, Inv, Deliver
<1>2. conn \in [Sinks -> Conns] /\ shell \in [Sinks -> Shells]
  BY DEF PInv, Roles
<1>3. IF d = NoDelta THEN UNCHANGED F!feedVars ELSE F!Event
  BY <1>1, PublishIsEvent
<1>4. CASE d = NoDelta
  <2>1. UNCHANGED M!feedVars
    BY <1>3, <1>4 DEF F!feedVars, M!feedVars, Seen
  <2>2. Ways' = Ways /\ Having' = Having /\ Cuts' = Cuts
    BY <1>1, <1>4 DEF Deliver, Ways, Having, Cuts
  <2> QED
    BY <2>1, <2>2, PipesStay
<1>5. CASE d # NoDelta
  <2>1. M!Event
    BY <1>3, <1>5 DEF F!Event, M!Event, F!State, M!State, F!OneChange, M!OneChange,
                      F!Unambiguous, M!Unambiguous, F!Nothing, M!Nothing, Seen
  <2>2. ASSUME Ways' = Ways, Having' = Having, Cuts' = Cuts, sink = NoSink \/ Cuts[sink]
        PROVE  M!MirrorNext
    <3>1. M!Forward
      BY <2>1, <2>2, PipesMapped DEF M!Forward
    <3> QED
      BY <3>1 DEF M!MirrorNext
  <2>3. CASE sink = NoSink
    <3>1. Ways' = Ways /\ Having' = Having /\ Cuts' = Cuts
      BY <1>1, <2>3 DEF Deliver, Ways, Having, Cuts
    <3> QED
      BY <2>2, <2>3, <3>1
  <2>4. CASE sink # NoSink
    <3> DEFINE c == sink
               m == DeltaMsg(sequence + 1, d)
               k == conn[c]
               p == shell[c]
    <3>1. c \in Sinks /\ sequence \in Nat /\ d \in Deltas
      BY <2>4, BoundsAssumption DEF PInv, Inv, TypeOK, Explains
    <3>2. k \in Conns /\ p \in Shells /\ Served(k, p, sink = c, view)
      BY <3>1, OfConnection
    <3>3. m \in Msgs /\ Carries(m)
      BY <1>5, <3>1 DEF Msgs, DeltaMsg, Carries
    <3>4. Send(c, m) /\ shell' = [shell EXCEPT ![c] = p]
      BY <1>1, <1>2, <1>5, <2>4 DEF Deliver
    <3> HIDE DEF m
    <3>5. CASE SendAccepts(k, m)
      <4> DEFINE k2 == Sent(k, m)
      <4>1. conn' = [conn EXCEPT ![c] = k2] /\ sink' = sink
        BY <3>4, <3>5 DEF Send
      <4>2. /\ Ways' = [Ways EXCEPT ![c] = Way(k2, p)] /\ Ways[c] = Way(k, p)
            /\ Having' = [Having EXCEPT ![c] = Has(k2, p)] /\ Having[c] = Has(k, p)
            /\ Cuts' = [Cuts EXCEPT ![c] = Severed(k2, p)] /\ Cuts[c] = Severed(k, p)
        BY <3>1, <3>4, <4>1, OnePipe
      <4>3. Severed(k2, p) = Severed(k, p)
        <5>1. k2.step = k.step /\ k2.failed = k.failed
          BY <3>2, <3>3, SentRecord
        <5> HIDE DEF k2
        <5> QED
          BY <5>1 DEF Severed
      <4> HIDE DEF k2
      <4>4. Cuts' = Cuts
        <5>1. Cuts = [e \in Sinks |-> Cuts[e]] /\ Cuts' = [Cuts EXCEPT ![c] = Cuts[c]]
          BY <4>2, <4>3 DEF Cuts
        <5> QED
          BY <5>1
      <4>5. Having' = Having
        <5>1. Has(k2, p) = Has(k, p)
          BY <4>3 DEF Has
        <5>2. Having = [e \in Sinks |-> Having[e]] /\ Having' = [Having EXCEPT ![c] = Having[c]]
          BY <4>2, <5>1 DEF Having
        <5> QED
          BY <5>2
      <4>6. CASE Severed(k, p)
        <5>1. Way(k2, p) = Way(k, p)
          BY <4>3, <4>6 DEF Way
        <5>2. Ways = [e \in Sinks |-> Ways[e]] /\ Ways' = [Ways EXCEPT ![c] = Ways[c]]
          BY <4>2, <5>1 DEF Ways
        <5>3. Ways' = Ways /\ Cuts[sink]
          BY <4>2, <4>6, <5>2
        <5> QED
          BY <2>2, <4>4, <4>5, <5>3
      <4>7. CASE ~Severed(k, p)
        <5>1. Served(k2, p, TRUE, view')
          <6>1. conn'[c] = k2 /\ shell'[c] = p
            BY <1>1, <1>2, <3>1, <4>1
          <6>2. Served(conn'[c], shell'[c], sink' = c, view')
            BY <3>1 DEF PInv
          <6>3. Served(k2, p, sink' = c, view')
            BY <6>1, <6>2
          <6>4. (sink' = c) = TRUE
            BY <4>1
          <6> HIDE DEF c, k, p
          <6> QED
            BY <6>3, <6>4
        <5>2. Way(k2, p) = Append(Way(k, p), Seen(view'))
          <6> DEFINE a == sink = c
                     w == view'
          <6>1. Served(k, p, a, view) /\ Served(Sent(k, m), p, TRUE, w)
            BY <3>2, <5>1 DEF k2
          <6> HIDE DEF c, k, p, a, w
          <6>2. ~Severed(Sent(k, m), p) /\ Way(Sent(k, m), p) = Append(Way(k, p), Seen(w))
            <7>1. \A x \in Msgs : Carries(x) =>
                     \A v : Served(Sent(k, x), p, TRUE, v) =>
                        /\ ~Severed(Sent(k, x), p)
                        /\ Way(Sent(k, x), p) = Append(Way(k, p), Seen(v))
              BY <4>7, <6>1, SendExtends
            <7> QED
              BY <3>3, <6>1, <7>1
          <6> QED
            BY <6>2 DEF k2, w
        <5>3. Seen(view') = M!State(sequence', Published')
          BY <1>1, <2>4, <4>1 DEF SinkConverges, Seen, M!State
        <5>4. /\ ~Cuts[sink]
              /\ Ways' = [Ways EXCEPT ![sink] = Append(Ways[sink], M!State(sequence', Published'))]
          BY <4>2, <4>7, <5>2, <5>3
        <5>5. M!Forward
          BY <2>1, <2>4, <4>1, <4>4, <4>5, <5>4, PipesMapped DEF M!Forward
        <5> QED
          BY <5>5 DEF M!MirrorNext
      <4> QED
        BY <4>6, <4>7
    <3>6. CASE ~SendAccepts(k, m)
      <4> DEFINE k2 == Failed(k)
      <4>1. conn' = [conn EXCEPT ![c] = k2] /\ sink' = NoSink
        BY <3>4, <3>6 DEF Send
      <4>2. Severed(k2, p)
        BY <3>2, StepOf DEF Severed
      <4> HIDE DEF k2
      <4>3. /\ Ways' = [Ways EXCEPT ![c] = Way(k2, p)] /\ Ways[c] = Way(k, p)
            /\ Having' = [Having EXCEPT ![c] = Has(k2, p)] /\ Having[c] = Has(k, p)
            /\ Cuts' = [Cuts EXCEPT ![c] = Severed(k2, p)] /\ Cuts[c] = Severed(k, p)
        BY <3>1, <3>4, <4>1, OnePipe
      <4>4. CASE Severed(k, p)
        <5>1. Ways' = Ways /\ Having' = Having /\ Cuts' = Cuts
          BY <3>1, <3>4, <4>1, <4>2, <4>4, PipeStays
        <5> QED
          BY <2>2, <4>3, <4>4, <5>1
      <4>5. CASE ~Severed(k, p)
        <5>1. Way(k2, p) = <<>> /\ Has(k2, p) = M!Nothing /\ Severed(k2, p) = TRUE
          BY <4>2 DEF Way, Has, Severed, Seen, EmptyView, M!Nothing, M!State
        <5>2. /\ Cuts' = [Cuts EXCEPT ![sink] = TRUE] /\ ~Cuts[sink]
              /\ Ways' = [Ways EXCEPT ![sink] = <<>>]
              /\ Having' = [Having EXCEPT ![sink] = M!Nothing]
          BY <4>3, <4>5, <5>1
        <5>3. M!CutOff(sink)
          BY <5>2, PipesMapped DEF M!CutOff
        <5>4. M!Forward
          BY <2>1, <2>4, <4>1, <5>2, <5>3, PipesMapped DEF M!Forward
        <5> QED
          BY <5>4 DEF M!MirrorNext
      <4> QED
        BY <4>4, <4>5
    <3> QED
      BY <3>5, <3>6
  <2> QED
    BY <2>3, <2>4
<1> QED
  BY <1>4, <1>5

\* The commands of the owner.
LEMMA OwnerForwards ==
  ASSUME PInv, PInv', Owner
  PROVE  M!MirrorNext \/ UNCHANGED M!mirrorVars
<1>1. Inv
  BY DEF PInv
<1>2. PICK key \in Keys :
        \/ OwnerAdd(key)
        \/ \E item \in Items : OwnerUpdate(key, item)
        \/ \E menu \in Menus : OwnerUpdateMenu(key, menu)
        \/ OwnerRemove(key)
  BY DEF Owner
<1>3. CASE OwnerAdd(key)
  <2>1. Explains(AddDelta(key)) /\ publish(AddDelta(key)) /\ Deliver(AddDelta(key))
    BY <1>1, <1>3, AddExplained DEF OwnerAdd, Add
  <2> QED
    BY <2>1, DeliverForwards
<1>4. CASE \E item \in Items : OwnerUpdate(key, item)
  <2>1. PICK item \in Items : OwnerUpdate(key, item)
    BY <1>4
  <2>2. Explains(UpdateDelta(key, item)) /\ publish(UpdateDelta(key, item)) /\ Deliver(UpdateDelta(key, item))
    BY <1>1, <2>1, UpdateExplained DEF OwnerUpdate, Update
  <2> QED
    BY <2>2, DeliverForwards
<1>5. CASE \E menu \in Menus : OwnerUpdateMenu(key, menu)
  <2>1. PICK menu \in Menus : OwnerUpdateMenu(key, menu)
    BY <1>5
  <2>2. /\ Explains(UpdateMenuDelta(key, menu)) /\ publish(UpdateMenuDelta(key, menu))
        /\ Deliver(UpdateMenuDelta(key, menu))
    BY <1>1, <2>1, UpdateMenuExplained DEF OwnerUpdateMenu, UpdateMenu
  <2> QED
    BY <2>2, DeliverForwards
<1>6. CASE OwnerRemove(key)
  <2>1. Explains(RemoveDelta(key)) /\ publish(RemoveDelta(key)) /\ Deliver(RemoveDelta(key))
    BY <1>1, <1>6, RemoveExplained DEF OwnerRemove, RemoveItem
  <2> QED
    BY <2>1, DeliverForwards
<1> QED
  BY <1>2, <1>3, <1>4, <1>5, <1>6

\* Every step of the server is a step of the mirror, or none.
LEMMA StepImplementsMirror ==
  PInv /\ PInv' /\ [PNext]_pvars => [M!MirrorNext]_(M!mirrorVars)
<1> SUFFICES ASSUME PInv, PInv', [PNext]_pvars
             PROVE  M!MirrorNext \/ UNCHANGED M!mirrorVars
  OBVIOUS
<1>1. CASE Owner
  BY <1>1, OwnerForwards
<1>2. ASSUME NEW c \in Sinks, Handshake(c)
      PROVE  M!MirrorNext
  <2>1. Abort(c) \/ HandshakeDone(c)
    BY <1>2 DEF Handshake, HandshakeFails
  <2> QED
    BY <2>1, PartsHandler
<1>3. ASSUME NEW c \in Sinks, Handler(c)
      PROVE  M!MirrorNext \/ UNCHANGED M!mirrorVars
  <2>1. CASE AttachConn(c)
    BY <2>1, AttachJoins
  <2>2. CASE SnapshotInvalid(c)
    BY <2>2, PartsHandler DEF SnapshotInvalid
  <2>3. CASE start(c)
    BY <2>3, StartStays
  <2>4. CASE StartFailed(c)
    BY <2>4, PartsHandler
  <2>5. CASE Replace(c)
    BY <2>5, LoopStays
  <2>6. CASE FailOld(c)
    BY <2>6, FailOldParts
  <2>7. CASE ReadFails(c)
    BY <2>7, PartsHandler DEF ReadFails
  <2>8. CASE reply(c)
    BY <2>8, ReplyStays
  <2>9. CASE connectionDone(c)
    BY <2>9, PartsHandler
  <2>10. CASE DetachConn(c)
    BY <2>10, PartsHandler
  <2> QED
    BY <1>3, <2>1, <2>2, <2>3, <2>4, <2>5, <2>6, <2>7, <2>8, <2>9, <2>10 DEF Handler
<1>4. ASSUME NEW c \in Sinks, Writer(c)
      PROVE  M!MirrorNext \/ UNCHANGED M!mirrorVars
  <2>1. CASE WriterTake(c)
    BY <2>1, LoopStays
  <2>2. CASE WriteFails(c) \/ WriterExit(c)
    BY <2>2, PartsOther
  <2> QED
    BY <1>4, <2>1, <2>2 DEF Writer
<1>5. ASSUME NEW c \in Sinks, Peer(c)
      PROVE  M!MirrorNext \/ UNCHANGED M!mirrorVars
  <2>1. CASE acceptLoop(c)
    BY <2>1, PartsHandler
  <2>2. CASE ReadRefused(c)
    BY <2>2, PartsHandler DEF ReadRefused
  <2>3. CASE WriteFrame(c)
    BY <2>3, WriteArrives
  <2>4. CASE PeerLeaves(c)
    BY <2>4, PartsOther
  <2>5. CASE \E id \in 1..MaxRequest : ReadCommand(c, id)
    <3>1. PICK id \in 1..MaxRequest : ReadCommand(c, id)
      BY <2>5
    <3>2. id \in Nat
      BY PresenterAssumption
    <3> QED
      BY <3>1, <3>2, CommandStays
  <2> QED
    BY <1>5, <2>1, <2>2, <2>3, <2>4, <2>5 DEF Peer
<1>6. CASE CloseBegin \/ CloseStep
  BY <1>6, CloseParts
<1>7. CASE UNCHANGED pvars
  <2>1. UNCHANGED vars /\ conn' = conn /\ shell' = shell
    BY <1>7 DEF pvars
  <2>2. Ways' = Ways /\ Having' = Having /\ Cuts' = Cuts
    BY <2>1 DEF Ways, Having, Cuts
  <2> QED
    BY <2>1, <2>2, FeedMapped, PipesStay
<1> QED
  BY <1>1, <1>2, <1>3, <1>4, <1>5, <1>6, <1>7 DEF PNext, Serving

\* Nobody is connected when the server starts.
LEMMA InitMirror == PInit => M!MirrorInit
<1> SUFFICES ASSUME PInit PROVE M!MirrorInit
  OBVIOUS
<1>1. Published = {} /\ sequence = 0 /\ sink = NoSink /\ Seen(view) = M!Nothing
  <2>1. Live = {}
    BY DEF PInit, Init, Live
  <2> QED
    BY <2>1 DEF PInit, Init, Published, Seen, EmptyView, M!Nothing, M!State
<1>2. M!FeedInit
  BY <1>1 DEF M!FeedInit
<1>3. \A c \in Sinks : Severed(conn[c], shell[c])
  <2>1. \A c \in Sinks : conn[c].step = "unconnected"
    BY DEF PInit, NewConn
  <2> QED
    BY <2>1 DEF Severed, Linked
<1>4. \A c \in Sinks : /\ Way(conn[c], shell[c]) = <<>> /\ Has(conn[c], shell[c]) = M!Nothing
                       /\ Severed(conn[c], shell[c]) = TRUE
  BY <1>3 DEF Way, Has, Severed, Seen, EmptyView, M!Nothing, M!State
<1>5. /\ Ways = [c \in Sinks |-> <<>>] /\ Having = [c \in Sinks |-> M!Nothing]
      /\ Cuts = [c \in Sinks |-> TRUE]
  BY <1>4 DEF Ways, Having, Cuts
<1> QED
  BY <1>2, <1>5, PipesMapped DEF M!MirrorInit

\* The presenter implements the mirror: for any number of connections, queue
\* bounds and items, handshake, backlog, queue and writer bring each shell
\* whole states of the owner, from the one it was attached at, in order and
\* without a gap, until its connection is cut.
THEOREM PresenterImplementsMirror == PSpec => ImplementsMirror
<1>1. PInit => M!MirrorInit
  BY InitMirror
<1>2. PInv /\ PInv' /\ [PNext]_pvars => [M!MirrorNext]_(M!mirrorVars)
  BY StepImplementsMirror
<1> QED
  BY <1>1, <1>2, PresenterInvariant, PTL DEF PSpec, ImplementsMirror, M!MirrorSpec

====
