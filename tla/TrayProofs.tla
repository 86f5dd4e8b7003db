---- MODULE TrayProofs ----
(***************************************************************************)
(* The daemon behind the socket, for any addresses, owners, calls and      *)
(* relationships.  The invariant follows each operation through the        *)
(* programs of the threads: what a thread has still to run is what makes   *)
(* up for the moments in which the table of workers and the owner's items  *)
(* disagree.                                                               *)
(***************************************************************************)
EXTENDS Tray, StateOwnerProofs, SequenceTheorems

----
(* Types.                                                                  *)

KeyOps   == {"added", "insert", "removed", "delete", "retire"}
AddrOps  == {"register", "client-add", "client-remove"}
ProxyOps == {"start", "wait"}
PlainOps == {"list", "close-server", "stop-workers", "cancel", "ended"}

Ops == [op : KeyOps, key : Keys] \cup [op : AddrOps, addr : Addresses]
         \cup [op : ProxyOps, proxy : ProxyIds] \cup [op : PlainOps]

Signals == [op : {"left"}, owner : Owners] \cup [op : {"client-add", "client-remove"}, addr : Addresses]
             \cup [op : {"gone"}]

Registries == UNION {[A -> Generations] : A \in SUBSET Addresses}

Relations == [mode : {"none", "owner", "attached", "closed"}, registry : Registries,
              generation : 0..MaxGeneration, signals : Seq(Signals), gone : BOOLEAN]

NoKey == [addr |-> Absent, gen |-> 0]

ProxyTypes == [key : Keys \cup {NoKey},
               status : {"none", "new", "running", "stopping", "closed"}, errs : 0..MaxErrors]

Workers == UNION {[K -> ProxyIds] : K \in SUBSET Keys}

TTypes ==
    /\ ext \in [up : BOOLEAN, items : SUBSET Addresses, starts : Nat]
    /\ rel \in Relations
    /\ todo \in [Threads -> Seq(Ops)]
    /\ proxies \in [ProxyIds -> ProxyTypes]
    /\ \A p \in ProxyIds : proxies[p].status # "none" => proxies[p].key \in Keys
    /\ workers \in Workers

----
(* The invariant.                                                          *)

Starting(t, p) == todo[t] # <<>> /\ Head(todo[t]) = OnProxy("start", p)

\* A worker is started at once, before whatever its thread goes on with.
StartsFirst == \A t \in Threads : \A i \in DOMAIN todo[t] : i >= 2 => todo[t][i].op # "start"

\* Where Close is, and what that means for the table.
CloserAt ==
    \/ app = "running" /\ todo[Closer] = <<>>
    \/ app = "closing" /\ \E op \in {"close-server", "stop-workers"} : todo[Closer] = <<Plain(op)>>
    \/ /\ app \in {"closing", "cancelled", "done"}
       /\ workers = [k \in {} |-> 1]
       /\ \A i \in DOMAIN todo[Closer] : todo[Closer][i].op \in {"wait", "cancel", "ended"}

\* Threads that have not begun have nothing to run.
Unbegun ==
    /\ run = "choose" => todo[Main] = <<>>
    /\ \A p \in ProxyIds : proxies[p].status = "none" => proxies[p].errs = 0
    /\ \A p \in ProxyIds, n \in 1..MaxErrors : n > proxies[p].errs => todo[Drop(p, n)] = <<>>

\* A proxy is started at most once, by one thread.
StartedOnce ==
    /\ \A t, u \in Threads, p \in ProxyIds : Starting(t, p) /\ Starting(u, p) => t = u
    /\ \A t \in Threads, p \in ProxyIds : Starting(t, p) => proxies[p].status \in {"new", "closed"}

\* A proxy in the table reads under its key, or is about to, or its start
\* failed and the failure is about to be handled.
TableReads ==
    \A k \in DOMAIN workers :
        /\ proxies[workers[k]].key = k
        /\ proxies[workers[k]].status \in {"new", "running"}
        /\ proxies[workers[k]].status = "new" =>
              Pending("delete", k) \/ \E t \in Threads : Starting(t, workers[k])

\* An item in the state is in the table or on its way in or out.
Repairs == {"insert", "removed", "delete", "retire"}

ItemsServed ==
    app = "running" =>
        \A a \in Live : KeyAt(a) \in DOMAIN workers \/ \E op \in Repairs : Pending(op, KeyAt(a))

OwnerRuns == app = "running" => phase = "running"

TCore == /\ TTypes /\ StartsFirst /\ CloserAt /\ Unbegun /\ StartedOnce
         /\ TableReads /\ ItemsServed /\ OwnerRuns

TInv == Inv /\ TCore

----
(* Programs.                                                               *)

\* The operations of a program have the arguments of their kind.
LEMMA OpKinds ==
  ASSUME NEW o \in Ops
  PROVE  /\ o.op \in KeyOps => o.key \in Keys /\ o = OnKey(o.op, o.key)
         /\ o.op \in AddrOps => o.addr \in Addresses
         /\ o.op \in ProxyOps => o.proxy \in ProxyIds /\ o = OnProxy(o.op, o.proxy)
<1> HIDE DEF Keys, ProxyIds
<1> QED
  BY DEF Ops, KeyOps, AddrOps, ProxyOps, PlainOps, OnKey, OnProxy

\* Records of operations.
LEMMA OpTypes ==
  /\ \A op \in KeyOps, k \in Keys : OnKey(op, k) \in Ops /\ OnKey(op, k).op = op
  /\ \A op \in AddrOps, a \in Addresses : OnAddr(op, a) \in Ops /\ OnAddr(op, a).op = op
  /\ \A op \in ProxyOps, p \in ProxyIds : OnProxy(op, p) \in Ops /\ OnProxy(op, p).op = op
  /\ \A op \in PlainOps : Plain(op) \in Ops /\ Plain(op).op = op
BY DEF Ops, OnKey, OnAddr, OnProxy, Plain

\* A program whose first operation is replaced by others.
LEMMA Replaced ==
  ASSUME NEW S, NEW s \in Seq(S), s # <<>>, NEW more \in Seq(S), NEW r, r = more \o Tail(s)
  PROVE  /\ r \in Seq(S) /\ Len(r) = Len(more) + Len(s) - 1
         /\ \A i \in 1..Len(more) : r[i] = more[i] /\ i \in 1..Len(r)
         /\ \A i \in 2..Len(s) : r[Len(more) + i - 1] = s[i] /\ Len(more) + i - 1 \in 1..Len(r)
         /\ \A j \in 1..Len(r) : j > Len(more) => r[j] = s[j - Len(more) + 1] /\ j - Len(more) + 1 \in 2..Len(s)
<1>1. Tail(s) \in Seq(S) /\ Len(Tail(s)) = Len(s) - 1 /\ \A i \in 1..(Len(s) - 1) : Tail(s)[i] = s[i + 1]
  BY HeadTailProperties
<1>2. Len(s) \in Nat /\ Len(s) > 0 /\ Len(more) \in Nat
  BY EmptySeq, LenProperties
<1>3. r \in Seq(S) /\ Len(r) = Len(more) + Len(Tail(s))
  BY <1>1
<1>4. \A i \in 1..Len(r) : r[i] = IF i <= Len(more) THEN more[i] ELSE Tail(s)[i - Len(more)]
  BY <1>1, <1>2, <1>3, ConcatProperties
<1>5. Len(r) = Len(more) + Len(s) - 1
  BY <1>1, <1>2, <1>3
<1>6. ASSUME NEW i \in 1..Len(more) PROVE r[i] = more[i] /\ i \in 1..Len(r)
  BY <1>2, <1>4, <1>5
<1>7. ASSUME NEW j \in 1..Len(r), j > Len(more)
      PROVE  r[j] = s[j - Len(more) + 1] /\ j - Len(more) + 1 \in 2..Len(s)
  <2>1. r[j] = Tail(s)[j - Len(more)]
    BY <1>2, <1>4, <1>5, <1>7
  <2>2. j - Len(more) \in 1..(Len(s) - 1) /\ j - Len(more) + 1 \in 2..Len(s)
    BY <1>2, <1>5, <1>7
  <2> QED
    BY <1>1, <2>1, <2>2
<1>8. ASSUME NEW i \in 2..Len(s)
      PROVE  r[Len(more) + i - 1] = s[i] /\ Len(more) + i - 1 \in 1..Len(r)
  <2>1. Len(more) + i - 1 \in 1..Len(r) /\ Len(more) + i - 1 > Len(more)
        /\ Len(more) + i - 1 - Len(more) + 1 = i
    BY <1>2, <1>5
  <2> QED
    BY <1>7, <2>1
<1> QED
  BY <1>3, <1>5, <1>6, <1>7, <1>8

\* The typical step of a thread: it finishes an operation and goes on.
LEMMA ContinueFacts ==
  ASSUME todo \in [Threads -> Seq(Ops)], StartsFirst, NEW t \in Threads, ~Idle(t),
         NEW more \in Seq(Ops), Continue(t, more),
         \A i \in DOMAIN more : i >= 2 => more[i].op # "start"
  PROVE  /\ todo' \in [Threads -> Seq(Ops)]
         /\ todo' = [todo EXCEPT ![t] = more \o Tail(todo[t])]
         /\ todo'[t] = more \o Tail(todo[t])
         /\ StartsFirst'
         /\ \A u \in Threads \ {t} : todo'[u] = todo[u]
         /\ \A p : Starting(t, p)' <=> more # <<>> /\ more[1] = OnProxy("start", p)
         /\ \A op, k : Pending(op, k) /\ OnKey(op, k) # Op(t) => Pending(op, k)'
         /\ \A op, k : (\E i \in DOMAIN more : more[i] = OnKey(op, k)) => Pending(op, k)'
<1> DEFINE s == todo[t]
           r == more \o Tail(s)
<1>1. s \in Seq(Ops) /\ s # <<>>
  BY DEF Idle
<1>2. /\ r \in Seq(Ops) /\ Len(r) = Len(more) + Len(s) - 1
      /\ \A i \in 1..Len(more) : r[i] = more[i] /\ i \in 1..Len(r)
      /\ \A i \in 2..Len(s) : r[Len(more) + i - 1] = s[i] /\ Len(more) + i - 1 \in 1..Len(r)
      /\ \A j \in 1..Len(r) : j > Len(more) => r[j] = s[j - Len(more) + 1] /\ j - Len(more) + 1 \in 2..Len(s)
  BY <1>1, Replaced
<1>3. /\ DOMAIN s = 1..Len(s) /\ DOMAIN r = 1..Len(r) /\ DOMAIN more = 1..Len(more)
      /\ Len(s) \in Nat /\ Len(s) > 0 /\ Len(more) \in Nat /\ Len(r) \in Nat /\ Head(s) = s[1]
  BY <1>1, <1>2, EmptySeq, LenProperties
<1>4. todo' = [todo EXCEPT ![t] = r] /\ todo'[t] = r /\ todo' \in [Threads -> Seq(Ops)]
      /\ \A u \in Threads \ {t} : todo'[u] = todo[u]
  BY <1>2 DEF Continue
<1> HIDE DEF r
<1>5. StartsFirst'
  <2> SUFFICES ASSUME NEW u \in Threads, NEW i \in DOMAIN todo'[u], i >= 2
               PROVE  todo'[u][i].op # "start"
    BY DEF StartsFirst
  <2>1. CASE u # t
    BY <1>4, <2>1 DEF StartsFirst
  <2>2. CASE u = t
    <3>1. i \in 1..Len(r) /\ todo'[u] = r
      BY <1>3, <1>4, <2>2
    <3>2. CASE i <= Len(more)
      BY <1>2, <1>3, <3>1, <3>2
    <3>3. CASE i > Len(more)
      <4> DEFINE j == i - Len(more) + 1
      <4>1. r[i] = s[j] /\ j \in DOMAIN s /\ j >= 2
        BY <1>2, <1>3, <3>1, <3>3
      <4> HIDE DEF j
      <4>2. s[j].op # "start"
        BY <4>1 DEF StartsFirst
      <4> QED
        BY <3>1, <4>1, <4>2
    <3> QED
      BY <1>3, <3>1, <3>2, <3>3
  <2> QED
    BY <2>1, <2>2
<1>6. ASSUME NEW p PROVE Starting(t, p)' <=> more # <<>> /\ more[1] = OnProxy("start", p)
  <2>1. Starting(t, p)' <=> r # <<>> /\ Head(r) = OnProxy("start", p)
    BY <1>4 DEF Starting
  <2>2. CASE more # <<>>
    <3>1. 1 \in 1..Len(more)
      BY <1>3, <2>2, EmptySeq
    <3>2. r # <<>> /\ Head(r) = r[1] /\ r[1] = more[1]
      BY <1>2, <1>3, <3>1
    <3> QED
      BY <2>1, <2>2, <3>2
  <2>3. CASE more = <<>>
    <3>1. Len(more) = 0
      BY <2>3
    <3>2. ASSUME r # <<>>, Head(r) = OnProxy("start", p) PROVE FALSE
      <4>1. 1 \in 1..Len(r) /\ Head(r) = r[1]
        BY <1>2, <1>3, <3>2, EmptySeq
      <4>2. r[1] = s[2] /\ 2 \in DOMAIN s
        BY <1>2, <1>3, <3>1, <4>1
      <4>3. s[2].op # "start"
        BY <4>2 DEF StartsFirst
      <4> QED
        BY <3>2, <4>1, <4>2, <4>3 DEF OnProxy
    <3> QED
      BY <2>1, <2>3, <3>2
  <2> QED
    BY <2>2, <2>3
<1>7. ASSUME NEW op, NEW k, Pending(op, k), OnKey(op, k) # Op(t) PROVE Pending(op, k)'
  <2>1. PICK u \in Threads : \E i \in DOMAIN todo[u] : todo[u][i] = OnKey(op, k)
    BY <1>7 DEF Pending
  <2>2. PICK i \in DOMAIN todo[u] : todo[u][i] = OnKey(op, k)
    BY <2>1
  <2>3. CASE u # t
    BY <1>4, <2>2, <2>3 DEF Pending
  <2>4. CASE u = t
    <3>1. i \in 2..Len(s)
      BY <1>3, <1>7, <2>2, <2>4 DEF Op
    <3>2. r[Len(more) + i - 1] = OnKey(op, k) /\ Len(more) + i - 1 \in DOMAIN r
      BY <1>2, <1>3, <2>2, <2>4, <3>1
    <3> QED
      BY <1>4, <3>2 DEF Pending
  <2> QED
    BY <2>3, <2>4
<1>8. ASSUME NEW op, NEW k, NEW i \in DOMAIN more, more[i] = OnKey(op, k) PROVE Pending(op, k)'
  <2>1. r[i] = OnKey(op, k) /\ i \in DOMAIN r
    BY <1>2, <1>3, <1>8
  <2> QED
    BY <1>4, <2>1 DEF Pending
<1> QED
  BY <1>4, <1>5, <1>6, <1>7, <1>8 DEF r

\* A thread that begins a program that starts no proxy.
LEMMA BeginFacts ==
  ASSUME todo \in [Threads -> Seq(Ops)], StartsFirst, NEW t \in Threads, todo[t] = <<>>,
         NEW s \in Seq(Ops), todo' = [todo EXCEPT ![t] = s],
         \A i \in DOMAIN s : s[i].op # "start"
  PROVE  /\ todo' \in [Threads -> Seq(Ops)] /\ todo'[t] = s
         /\ StartsFirst'
         /\ \A u \in Threads \ {t} : todo'[u] = todo[u]
         /\ \A p : ~Starting(t, p)'
         /\ \A op, k : Pending(op, k) => Pending(op, k)'
         /\ \A op, k : (\E i \in DOMAIN s : s[i] = OnKey(op, k)) => Pending(op, k)'
<1>1. todo' \in [Threads -> Seq(Ops)] /\ todo'[t] = s /\ \A u \in Threads \ {t} : todo'[u] = todo[u]
  OBVIOUS
<1>2. StartsFirst'
  BY <1>1 DEF StartsFirst
<1>3. ASSUME NEW p, Starting(t, p)' PROVE FALSE
  <2>1. s # <<>> /\ Head(s) = OnProxy("start", p)
    BY <1>1, <1>3 DEF Starting
  <2>2. 1 \in DOMAIN s /\ Head(s) = s[1]
    BY <2>1, EmptySeq
  <2> QED
    BY <2>1, <2>2 DEF OnProxy
<1>4. ASSUME NEW op, NEW k, Pending(op, k) PROVE Pending(op, k)'
  <2>1. PICK u \in Threads : \E i \in DOMAIN todo[u] : todo[u][i] = OnKey(op, k)
    BY <1>4 DEF Pending
  <2>2. u # t
    BY <2>1
  <2> QED
    BY <1>1, <2>1, <2>2 DEF Pending
<1>5. ASSUME NEW op, NEW k, NEW i \in DOMAIN s, s[i] = OnKey(op, k) PROVE Pending(op, k)'
  BY <1>1, <1>5 DEF Pending
<1> QED
  BY <1>1, <1>2, <1>3, <1>4, <1>5

\* The order in which a map yields its keys.
LEMMA SeqsOf ==
  ASSUME NEW S, IsFiniteSet(S), NEW s \in SetToSeqs(S)
  PROVE  s \in Seq(S) /\ DOMAIN s = 1..Len(s) /\ Len(s) \in Nat
<1>1. Cardinality(S) \in Nat /\ s \in [1..Cardinality(S) -> S]
  BY FS_CardinalityType DEF SetToSeqs
<1> QED
  BY <1>1, SeqDef, LenProperties

\* A name is one thread.
LEMMA ThreadNames ==
  /\ {Main, Pump, Closer} \subseteq Threads /\ \A c \in Calls : Call(c) \in Threads
  /\ \A p \in ProxyIds, n \in 1..MaxErrors : Drop(p, n) \in Threads
  /\ Main # Pump /\ Main # Closer /\ Pump # Closer
  /\ \A c : Call(c) # Main /\ Call(c) # Pump /\ Call(c) # Closer
  /\ \A p, n : Drop(p, n) # Main /\ Drop(p, n) # Pump /\ Drop(p, n) # Closer
  /\ \A c, p, n : Call(c) # Drop(p, n)
  /\ \A p, n, q, m : Drop(p, n) = Drop(q, m) => p = q /\ n = m
BY DEF Main, Pump, Closer, Call, Drop, Threads

----
(* The registries.                                                         *)

\* A registry without some addresses, and with a fresh one.
LEMMA RegistryTypes ==
  ASSUME rel \in Relations
  PROVE  /\ Registered \subseteq Addresses /\ IsFiniteSet(Registered)
         /\ \A a \in Registered : RegKey(a) \in Keys
         /\ \A A : WithoutAddrs(A) \in Registries
         /\ NoRelation.registry \in Registries
         /\ \A a \in Addresses : rel.generation < MaxGeneration =>
               NewKey(a) \in Keys /\ Numbered(a) \in Relations
<1>1. PICK A \in SUBSET Addresses : rel.registry \in [A -> Generations]
  BY DEF Relations, Registries
<1>2. Registered = A /\ IsFiniteSet(A)
  BY <1>1, FiniteAssumption, FS_Subset DEF Registered
<1>3. \A a \in A : RegKey(a) \in Keys
  BY <1>1, <1>2 DEF RegKey, Keys
<1>4. ASSUME NEW B PROVE WithoutAddrs(B) \in Registries
  <2>1. WithoutAddrs(B) \in [A \ B -> Generations] /\ A \ B \in SUBSET Addresses
    BY <1>1, <1>2 DEF WithoutAddrs
  <2> QED
    BY <2>1 DEF Registries
<1>5. NoRelation.registry \in Registries
  <2>1. NoRelation.registry \in [{} -> Generations] /\ {} \in SUBSET Addresses
    BY DEF NoRelation
  <2> QED
    BY <2>1 DEF Registries
<1>6. ASSUME NEW a \in Addresses, rel.generation < MaxGeneration
      PROVE  NewKey(a) \in Keys /\ Numbered(a) \in Relations
  <2>1. rel.generation + 1 \in Generations /\ rel.generation + 1 \in 0..MaxGeneration
    BY <1>6, BoundsAssumption DEF Relations, Generations
  <2> DEFINE f == [b \in A \cup {a} |-> IF b = a THEN rel.generation + 1 ELSE rel.registry[b]]
  <2>2. f \in [A \cup {a} -> Generations] /\ A \cup {a} \in SUBSET Addresses
    BY <1>1, <2>1
  <2>3. f \in Registries
    BY <2>2 DEF Registries
  <2>4. Numbered(a) = [rel EXCEPT !.generation = rel.generation + 1, !.registry = f]
    BY <1>2 DEF Numbered
  <2> HIDE DEF f
  <2>5. Numbered(a) \in Relations
    BY <2>1, <2>3, <2>4 DEF Relations
  <2> QED
    BY <2>1, <2>5 DEF NewKey, Keys
<1> QED
  BY <1>2, <1>3, <1>4, <1>5, <1>6

\* What is reported when a set of addresses goes.
LEMMA RemovalsType ==
  ASSUME rel \in Relations, NEW A \in SUBSET Registered, NEW rs \in RemovalsOf(A)
  PROVE  rs \in Seq(Ops) /\ \A i \in DOMAIN rs : rs[i].op = "removed"
<1>1. IsFiniteSet(A) /\ A \subseteq Registered
  BY RegistryTypes, FS_Subset
<1>2. PICK s \in SetToSeqs(A) : rs = [i \in DOMAIN s |-> OnKey("removed", RegKey(s[i]))]
  BY DEF RemovalsOf
<1>3. s \in Seq(A) /\ DOMAIN s = 1..Len(s) /\ Len(s) \in Nat
  BY <1>1, <1>2, SeqsOf
<1>4. \A i \in 1..Len(s) : OnKey("removed", RegKey(s[i])) \in Ops /\ OnKey("removed", RegKey(s[i])).op = "removed"
  <2> TAKE i \in 1..Len(s)
  <2>1. s[i] \in A
    BY <1>3
  <2>2. RegKey(s[i]) \in Keys
    BY <1>1, <2>1, RegistryTypes
  <2> QED
    BY <2>2, OpTypes DEF KeyOps
<1>5. rs \in [1..Len(s) -> Ops] /\ DOMAIN rs = 1..Len(s)
  BY <1>2, <1>3, <1>4
<1> QED
  BY <1>2, <1>3, <1>4, <1>5, SeqDef

----
(* Steps that leave the items, the proxies and the table alone.            *)

\* The closer's program is Close's.
LEMMA CloserProgram ==
  ASSUME CloserAt, todo \in [Threads -> Seq(Ops)], ~Idle(Closer)
  PROVE  /\ Op(Closer).op \in {"close-server", "stop-workers", "wait", "cancel", "ended"} /\ app # "running"
         /\ Op(Closer).op \notin {"close-server", "stop-workers"} =>
               /\ app \in {"closing", "cancelled", "done"} /\ workers = [k \in {} |-> 1]
               /\ \A i \in DOMAIN todo[Closer] : todo[Closer][i].op \in {"wait", "cancel", "ended"}
         /\ \A op \in {"close-server", "stop-workers"} :
               Op(Closer).op = op => app = "closing" /\ todo[Closer] = <<Plain(op)>>
<1>1. todo[Closer] \in Seq(Ops) /\ todo[Closer] # <<>>
  BY ThreadNames DEF Idle
<1>2. 1 \in DOMAIN todo[Closer] /\ Op(Closer) = todo[Closer][1]
  BY <1>1, EmptySeq, LenProperties DEF Op
<1>3. CASE app = "closing" /\ \E op \in {"close-server", "stop-workers"} : todo[Closer] = <<Plain(op)>>
  <2>1. PICK op \in {"close-server", "stop-workers"} : todo[Closer] = <<Plain(op)>>
    BY <1>3
  <2>2. Op(Closer).op = op
    BY <1>2, <2>1 DEF Plain
  <2> QED
    BY <1>3, <2>1, <2>2
<1> QED
  BY <1>1, <1>2, <1>3 DEF CloserAt

\* A step that nobody behind the registries sees.
LEMMA QuietKeeps ==
  ASSUME TInv, UNCHANGED <<vars, proxies, workers, app>>,
         ext' \in [up : BOOLEAN, items : SUBSET Addresses, starts : Nat], rel' \in Relations,
         todo' \in [Threads -> Seq(Ops)], StartsFirst',
         run' = "choose" => todo'[Main] = <<>>,
         \A u \in Threads, p \in ProxyIds : Starting(u, p)' <=> Starting(u, p),
         \A op \in Repairs, k \in Keys : Pending(op, k) => Pending(op, k)',
         \A p \in ProxyIds, n \in 1..MaxErrors : todo[Drop(p, n)] = <<>> => todo'[Drop(p, n)] = <<>>,
         \/ todo'[Closer] = todo[Closer]
         \/ /\ workers = [k \in {} |-> 1] /\ app \in {"closing", "cancelled", "done"}
            /\ \A i \in DOMAIN todo'[Closer] : todo'[Closer][i].op \in {"wait", "cancel", "ended"}
  PROVE  TCore'
<1>1. TTypes'
  BY DEF TInv, TCore, TTypes
<1>2. CloserAt'
  BY DEF TInv, TCore, CloserAt
<1>3. Unbegun'
  BY DEF TInv, TCore, Unbegun
<1>4. StartedOnce'
  BY DEF TInv, TCore, StartedOnce
<1>5. DOMAIN workers \subseteq Keys /\ \A k \in DOMAIN workers : workers[k] \in ProxyIds
  BY DEF TInv, TCore, TTypes, Workers
<1>6. TableReads'
  BY <1>5 DEF TInv, TCore, TableReads, Repairs
<1>7. \A a \in Live : KeyAt(a) \in Keys
  BY DEF TInv, Inv, TypeOK, KeyAt, Keys, Entry
<1>8. ItemsServed'
  <2>1. Live' = Live /\ \A a \in Live : KeyAt(a)' = KeyAt(a)
    BY DEF vars, Live, KeyAt
  <2> QED
    BY <1>7, <2>1 DEF TInv, TCore, ItemsServed
<1>9. OwnerRuns'
  BY DEF TInv, TCore, OwnerRuns, vars
<1> QED
  BY <1>1, <1>2, <1>3, <1>4, <1>6, <1>8, <1>9 DEF TCore

\* A thread finishes an operation of the registry, or a wait.
LEMMA QuietContinue ==
  ASSUME TInv, UNCHANGED <<vars, ext, proxies, workers, app>>, rel' \in Relations,
         NEW t \in Threads, ~Idle(t), Op(t).op \notin Repairs \cup {"start"},
         NEW more \in Seq(Ops), Continue(t, more), \A i \in DOMAIN more : more[i].op # "start",
         run' = "choose" => run = "choose",
         t = Closer => more = <<>> /\ Op(t).op = "wait"
  PROVE  TCore'
<1>1. /\ todo' \in [Threads -> Seq(Ops)] /\ StartsFirst'
      /\ \A u \in Threads \ {t} : todo'[u] = todo[u]
      /\ \A p : Starting(t, p)' <=> more # <<>> /\ more[1] = OnProxy("start", p)
      /\ \A op, k : Pending(op, k) /\ OnKey(op, k) # Op(t) => Pending(op, k)'
      /\ todo'[t] = more \o Tail(todo[t])
  BY ContinueFacts DEF TInv, TCore, TTypes
<1>2. \A u \in Threads, p \in ProxyIds : Starting(u, p)' <=> Starting(u, p)
  <2>1. ASSUME NEW p PROVE ~Starting(t, p)' /\ ~Starting(t, p)
    <3>1. ~Starting(t, p)
      BY DEF Starting, Op, OnProxy
    <3>2. more # <<>> => 1 \in DOMAIN more
      BY EmptySeq, LenProperties
    <3>3. more # <<>> => more[1].op # "start"
      BY <3>2
    <3>4. more # <<>> => more[1] # OnProxy("start", p)
      BY <3>3 DEF OnProxy
    <3> QED
      BY <1>1, <3>1, <3>4
  <2>2. ASSUME NEW u \in Threads \ {t}, NEW p PROVE Starting(u, p)' <=> Starting(u, p)
    BY <1>1 DEF Starting
  <2> QED
    BY <2>1, <2>2
<1>3. \A op \in Repairs, k \in Keys : Pending(op, k) => Pending(op, k)'
  BY <1>1 DEF OnKey
<1>4. \A p \in ProxyIds, n \in 1..MaxErrors : todo[Drop(p, n)] = <<>> => todo'[Drop(p, n)] = <<>>
  BY <1>1, ThreadNames DEF Idle
<1>5. run' = "choose" => todo'[Main] = <<>>
  BY <1>1, ThreadNames DEF TInv, TCore, Unbegun, Idle
<1>6. \/ todo'[Closer] = todo[Closer]
      \/ /\ workers = [k \in {} |-> 1] /\ app \in {"closing", "cancelled", "done"}
         /\ \A i \in DOMAIN todo'[Closer] : todo'[Closer][i].op \in {"wait", "cancel", "ended"}
  <2>1. CASE t # Closer
    BY <1>1, <2>1, ThreadNames
  <2>2. CASE t = Closer
    <3> DEFINE s == todo[Closer]
    <3>1. /\ workers = [k \in {} |-> 1] /\ app \in {"closing", "cancelled", "done"}
          /\ \A i \in DOMAIN s : s[i].op \in {"wait", "cancel", "ended"}
      BY <2>2, CloserProgram DEF TInv, TCore, TTypes
    <3>2. s \in Seq(Ops) /\ s # <<>>
      BY <2>2 DEF Idle, TInv, TCore, TTypes
    <3>3. Tail(s) \in Seq(Ops) /\ Len(Tail(s)) = Len(s) - 1 /\ \A i \in 1..Len(Tail(s)) : Tail(s)[i] = s[i + 1]
      BY <3>2, HeadTailProperties
    <3>4. todo'[Closer] = Tail(s)
      BY <1>1, <2>2, <3>3, ConcatEmptySeq
    <3>5. DOMAIN s = 1..Len(s) /\ DOMAIN Tail(s) = 1..Len(Tail(s)) /\ Len(s) \in Nat
      BY <3>2, <3>3, LenProperties
    <3>6. ASSUME NEW i \in DOMAIN Tail(s) PROVE Tail(s)[i].op \in {"wait", "cancel", "ended"}
      <4>1. i + 1 \in DOMAIN s /\ Tail(s)[i] = s[i + 1]
        BY <3>3, <3>5
      <4> QED
        BY <3>1, <4>1
    <3> QED
      BY <3>1, <3>4, <3>6
  <2> QED
    BY <2>1, <2>2
<1>7. ext' \in [up : BOOLEAN, items : SUBSET Addresses, starts : Nat]
  BY DEF TInv, TCore, TTypes
<1> QED
  BY <1>1, <1>2, <1>3, <1>4, <1>5, <1>6, <1>7, QuietKeeps

\* An idle thread begins a program of the registry.
LEMMA QuietBegin ==
  ASSUME TInv, UNCHANGED <<vars, ext, proxies, workers, app>>, rel' \in Relations,
         NEW t \in Threads, todo[t] = <<>>, t # Closer,
         \A p \in ProxyIds, n \in 1..MaxErrors : t # Drop(p, n),
         NEW s \in Seq(Ops), todo' = [todo EXCEPT ![t] = s], \A i \in DOMAIN s : s[i].op # "start",
         run' = "choose" => run = "choose" /\ t # Main
  PROVE  TCore'
<1>1. /\ todo' \in [Threads -> Seq(Ops)] /\ StartsFirst'
      /\ \A u \in Threads \ {t} : todo'[u] = todo[u]
      /\ \A p : ~Starting(t, p)'
      /\ \A op, k : Pending(op, k) => Pending(op, k)'
  BY BeginFacts DEF TInv, TCore, TTypes
<1>2. \A u \in Threads, p \in ProxyIds : Starting(u, p)' <=> Starting(u, p)
  BY <1>1 DEF Starting
<1>3. \A p \in ProxyIds, n \in 1..MaxErrors : todo[Drop(p, n)] = <<>> => todo'[Drop(p, n)] = <<>>
  BY <1>1, ThreadNames
<1>4. run' = "choose" => todo'[Main] = <<>>
  BY <1>1, ThreadNames DEF TInv, TCore, Unbegun
<1>5. todo'[Closer] = todo[Closer]
  BY <1>1, ThreadNames
<1>6. ext' \in [up : BOOLEAN, items : SUBSET Addresses, starts : Nat]
  BY DEF TInv, TCore, TTypes
<1> QED
  BY <1>1, <1>2, <1>3, <1>4, <1>5, <1>6, QuietKeeps

\* No thread moves.
LEMMA QuietThreads ==
  ASSUME TInv, UNCHANGED <<vars, todo, proxies, workers, app>>,
         ext' \in [up : BOOLEAN, items : SUBSET Addresses, starts : Nat], rel' \in Relations,
         run' = "choose" => todo[Main] = <<>>
  PROVE  TCore'
<1>1. StartsFirst' /\ todo' \in [Threads -> Seq(Ops)]
  BY DEF TInv, TCore, TTypes, StartsFirst
<1>2. \A u \in Threads, p \in ProxyIds : Starting(u, p)' <=> Starting(u, p)
  BY DEF Starting
<1>3. \A op \in Repairs, k \in Keys : Pending(op, k) => Pending(op, k)'
  BY DEF Pending
<1> QED
  BY <1>1, <1>2, <1>3, QuietKeeps

\* Server.register, client.add and client.remove.
LEMMA RegistryKeeps ==
  ASSUME TInv, NEW t \in Threads, register(t) \/ clientAdd(t) \/ clientRemove(t)
  PROVE  TCore'
<1>1. /\ ~Idle(t) /\ Op(t).op \in AddrOps /\ todo[t] \in Seq(Ops) /\ todo[t] # <<>>
      /\ UNCHANGED <<vars, ext, proxies, workers, app, run>>
  BY DEF register, clientAdd, clientRemove, At, Idle, AddrOps, appVars, TInv, TCore, TTypes
<1>2. Op(t) \in Ops
  BY <1>1, HeadTailProperties DEF Op
<1> DEFINE a == Op(t).addr
<1>3. a \in Addresses
  BY <1>1, <1>2, OpKinds
<1>4. t # Closer
  BY <1>1, CloserProgram DEF AddrOps, TInv, TCore, TTypes
<1>5. rel \in Relations
  BY DEF TInv, TCore, TTypes
<1>6. Op(t).op \notin Repairs \cup {"start"}
  BY <1>1 DEF AddrOps, Repairs
<1> DEFINE gone == <<OnKey("removed", RegKey(a))>>
           come == <<OnKey("added", NewKey(a))>>
<1>7. /\ <<>> \in Seq(Ops) /\ \A i \in DOMAIN <<>> : <<>>[i].op # "start"
      /\ a \in Registered => gone \in Seq(Ops) /\ \A i \in DOMAIN gone : gone[i].op # "start"
      /\ NewKey(a) \in Keys => come \in Seq(Ops) /\ \A i \in DOMAIN come : come[i].op # "start"
      /\ a \in Registered /\ NewKey(a) \in Keys =>
            gone \o come \in Seq(Ops) /\ \A i \in DOMAIN (gone \o come) : (gone \o come)[i].op # "start"
  <2>1. \A x \in Ops : x.op # "start" => <<x>> \in Seq(Ops) /\ \A i \in DOMAIN <<x>> : <<x>>[i].op # "start"
    OBVIOUS
  <2>2. ASSUME NEW s1 \in Seq(Ops), NEW s2 \in Seq(Ops),
               \A i \in DOMAIN s1 : s1[i].op # "start", \A i \in DOMAIN s2 : s2[i].op # "start"
        PROVE  s1 \o s2 \in Seq(Ops) /\ \A i \in DOMAIN (s1 \o s2) : (s1 \o s2)[i].op # "start"
    <3>1. /\ s1 \o s2 \in Seq(Ops) /\ Len(s1 \o s2) = Len(s1) + Len(s2)
          /\ DOMAIN s1 = 1..Len(s1) /\ DOMAIN s2 = 1..Len(s2) /\ Len(s1) \in Nat /\ Len(s2) \in Nat
          /\ DOMAIN (s1 \o s2) = 1..(Len(s1) + Len(s2))
      BY LenProperties, ConcatProperties
    <3>2. \A i \in 1..(Len(s1) + Len(s2)) : (s1 \o s2)[i] = IF i <= Len(s1) THEN s1[i] ELSE s2[i - Len(s1)]
      BY ConcatProperties
    <3> DEFINE r == s1 \o s2
    <3> HIDE DEF r
    <3>3. ASSUME NEW i \in 1..(Len(s1) + Len(s2)) PROVE r[i].op # "start"
      <4>0. r[i] = IF i <= Len(s1) THEN s1[i] ELSE s2[i - Len(s1)]
        BY <3>2 DEF r
      <4>1. CASE i <= Len(s1)
        <5>1. i \in DOMAIN s1 /\ r[i] = s1[i]
          BY <3>1, <4>0, <4>1
        <5> QED
          BY <2>2, <5>1
      <4>2. CASE i > Len(s1)
        <5>1. i - Len(s1) \in DOMAIN s2 /\ r[i] = s2[i - Len(s1)]
          BY <3>1, <4>0, <4>2
        <5> QED
          BY <2>2, <5>1
      <4> QED
        BY <3>1, <4>1, <4>2
    <3> QED
      BY <3>1, <3>3 DEF r
  <2>3. \A k \in Keys : /\ OnKey("removed", k) \in Ops /\ OnKey("removed", k).op # "start"
                        /\ OnKey("added", k) \in Ops /\ OnKey("added", k).op # "start"
    BY OpTypes DEF KeyOps
  <2>4. a \in Registered => RegKey(a) \in Keys
    BY <1>5, RegistryTypes
  <2>5. a \in Registered => gone \in Seq(Ops) /\ \A i \in DOMAIN gone : gone[i].op # "start"
    BY <2>1, <2>3, <2>4
  <2>6. NewKey(a) \in Keys => come \in Seq(Ops) /\ \A i \in DOMAIN come : come[i].op # "start"
    BY <2>1, <2>3
  <2>7. <<>> \in Seq(Ops) /\ \A i \in DOMAIN <<>> : <<>>[i].op # "start"
    OBVIOUS
  <2> HIDE DEF gone, come
  <2> QED
    BY <2>2, <2>5, <2>6, <2>7
<1>8. CASE register(t)
  <2>1. CASE rel.generation < MaxGeneration /\ rel' = Numbered(a) /\ Continue(t, come)
    BY <1>1, <1>3, <1>4, <1>5, <1>6, <1>7, <2>1, RegistryTypes, QuietContinue
  <2>2. CASE Continue(t, <<>>) /\ rel' = rel
    BY <1>1, <1>4, <1>5, <1>6, <1>7, <2>2, QuietContinue
  <2> QED
    BY <1>8, <2>1, <2>2 DEF register
<1>9. CASE clientAdd(t)
  <2>1. rel' \in Relations /\ NewKey(a) \in Keys
    BY <1>3, <1>5, <1>9, RegistryTypes DEF clientAdd
  <2>2. CASE a \in Registered
    <3>1. Continue(t, gone \o come)
      BY <1>9, <2>2 DEF clientAdd
    <3> QED
      BY <1>1, <1>4, <1>6, <1>7, <2>1, <2>2, <3>1, QuietContinue
  <2>3. CASE a \notin Registered
    <3>1. Continue(t, come)
      <4>1. Continue(t, <<>> \o come)
        BY <1>9, <2>3 DEF clientAdd
      <4>2. <<>> \o come = come
        BY <1>7, <2>1, ConcatEmptySeq
      <4> QED
        BY <4>1, <4>2
    <3> QED
      BY <1>1, <1>4, <1>6, <1>7, <2>1, <3>1, QuietContinue
  <2> QED
    BY <2>2, <2>3
<1>10. CASE clientRemove(t)
  <2>1. rel' \in Relations
    BY <1>5, <1>10, RegistryTypes DEF clientRemove, Relations
  <2>2. CASE a \in Registered
    <3>1. Continue(t, gone)
      BY <1>10, <2>2 DEF clientRemove
    <3> QED
      BY <1>1, <1>4, <1>6, <1>7, <2>1, <2>2, <3>1, QuietContinue
  <2>3. CASE a \notin Registered
    <3>1. Continue(t, <<>>)
      BY <1>10, <2>3 DEF clientRemove
    <3> QED
      BY <1>1, <1>4, <1>6, <1>7, <2>1, <3>1, QuietContinue
  <2> QED
    BY <2>2, <2>3
<1> QED
  BY <1>8, <1>9, <1>10

\* The wait for a proxy's goroutines.
LEMMA WaitKeeps ==
  ASSUME TInv, NEW t \in Threads, waitProxy(t)
  PROVE  TCore'
<1>1. /\ ~Idle(t) /\ Op(t).op = "wait" /\ Continue(t, <<>>)
      /\ UNCHANGED <<vars, ext, proxies, workers, app, run, rel>>
  BY DEF waitProxy, At, AppOnly, watcherVars, appVars
<1>2. rel' \in Relations /\ <<>> \in Seq(Ops) /\ \A i \in DOMAIN <<>> : <<>>[i].op # "start"
  BY <1>1 DEF TInv, TCore, TTypes
<1> QED
  BY <1>1, <1>2, QuietContinue DEF Repairs

\* One signal.
LEMMA PumpKeeps ==
  ASSUME TInv, pump
  PROVE  TCore'
<1>1. /\ todo[Pump] = <<>> /\ rel.signals # <<>> /\ rel \in Relations
      /\ UNCHANGED <<vars, ext, proxies, workers, app, run>>
  BY DEF pump, Idle, appVars, TInv, TCore, TTypes
<1> DEFINE s == Head(rel.signals)
<1>2. s \in Signals /\ Tail(rel.signals) \in Seq(Signals)
  BY <1>1, HeadTailProperties DEF Relations
<1>3. [rel EXCEPT !.signals = Tail(rel.signals)] \in Relations
  BY <1>1, <1>2 DEF Relations
<1> HIDE DEF s
<1>4. CASE handleNameOwnerChanged(s)
  <2>1. PICK rs \in RemovalsOf(OwnedBy(s.owner)) : todo' = [todo EXCEPT ![Pump] = rs]
    BY <1>4 DEF handleNameOwnerChanged
  <2>2. rs \in Seq(Ops) /\ \A i \in DOMAIN rs : rs[i].op # "start"
    BY <1>1, <2>1, RemovalsType DEF OwnedBy
  <2>3. WithoutAddrs(OwnedBy(s.owner)) \in Registries
    BY <1>1, RegistryTypes
  <2>4. rel' \in Relations
    BY <1>1, <1>2, <1>4, <2>3 DEF handleNameOwnerChanged, Relations
  <2> QED
    BY <1>1, <2>1, <2>2, <2>4, ThreadNames, QuietBegin
<1>5. CASE handle(s)
  <2>1. CASE s.op \in {"client-add", "client-remove"} /\ todo' = [todo EXCEPT ![Pump] = <<s>>]
             /\ rel' = [rel EXCEPT !.signals = Tail(rel.signals)]
    <3>1. s \in Ops /\ s.op # "start"
      BY <1>2, <2>1 DEF Signals, Ops, AddrOps
    <3>2. <<s>> \in Seq(Ops) /\ \A i \in DOMAIN <<s>> : <<s>>[i].op # "start"
      BY <3>1
    <3> QED
      BY <1>1, <1>3, <2>1, <3>2, ThreadNames, QuietBegin
  <2>2. CASE UNCHANGED todo /\ (\/ rel' = [rel EXCEPT !.signals = Tail(rel.signals)]
                                \/ rel' = [rel EXCEPT !.signals = Tail(rel.signals), !.gone = TRUE])
    <3>1. rel' \in Relations
      BY <1>1, <1>2, <2>2 DEF Relations
    <3> QED
      BY <1>1, <2>2, <3>1, QuietThreads DEF TInv, TCore, TTypes, Unbegun
  <2> QED
    BY <1>5, <2>1, <2>2 DEF handle
<1> QED
  BY <1>4, <1>5 DEF pump, s

\* Watcher.Run and serveOnce.
LEMMA RelationshipKeeps ==
  ASSUME TInv, Relationship
  PROVE  TCore'
<1>1. /\ rel \in Relations /\ ext \in [up : BOOLEAN, items : SUBSET Addresses, starts : Nat]
      /\ todo \in [Threads -> Seq(Ops)] /\ UNCHANGED <<vars, ext, proxies, workers, app>>
      /\ (run = "choose" => todo[Main] = <<>>)
  BY DEF Relationship, Serve, attach, list, attached, lost, closeRelation, again, Quiet, appVars,
         TInv, TCore, TTypes, Unbegun
<1>2. /\ NoRelation \in Relations
      /\ \A m \in {"owner", "attached"} : [NoRelation EXCEPT !.mode = m] \in Relations
  <2>1. NoRelation.registry \in Registries /\ 0 \in 0..MaxGeneration
    BY <1>1, RegistryTypes, BoundsAssumption
  <2> DEFINE g == [a \in {} |-> 1]
  <2>2. NoRelation.registry = g
    BY DEF NoRelation
  <2> HIDE DEF g
  <2>3. \A m \in {"none", "owner", "attached"}, f \in Registries, n \in 0..MaxGeneration, q \in Seq(Signals) :
          [mode |-> m, registry |-> f, generation |-> n, signals |-> q, gone |-> FALSE] \in Relations
    BY DEF Relations
  <2>4. <<>> \in Seq(Signals)
    OBVIOUS
  <2>5. \A m \in {"none", "owner", "attached"} :
          [mode |-> m, registry |-> g, generation |-> 0, signals |-> <<>>, gone |-> FALSE] \in Relations
    BY <2>1, <2>2, <2>3, <2>4
  <2>6. NoRelation = [mode |-> "none", registry |-> g, generation |-> 0, signals |-> <<>>, gone |-> FALSE]
    BY DEF NoRelation, g
  <2>7. \A r \in Relations, m \in {"owner", "attached"} : [r EXCEPT !.mode = m] \in Relations
    BY DEF Relations
  <2>8. NoRelation \in Relations
    BY <2>5, <2>6
  <2> QED
    BY <2>7, <2>8
<1>3. CASE Serve
  BY <1>1, <1>2, <1>3, QuietThreads DEF Serve
<1>4. CASE attach
  <2>1. todo[Main] = <<>> /\ todo' = [todo EXCEPT ![Main] = <<Plain("list")>>] /\ run' # "choose"
        /\ rel' \in Relations
    BY <1>1, <1>2, <1>4 DEF attach
  <2>2. Plain("list") \in Ops /\ Plain("list").op # "start"
    BY OpTypes DEF PlainOps
  <2>3. <<Plain("list")>> \in Seq(Ops) /\ \A i \in DOMAIN <<Plain("list")>> : <<Plain("list")>>[i].op # "start"
    BY <2>2
  <2> QED
    BY <1>1, <2>1, <2>3, ThreadNames, QuietBegin
<1>5. CASE list
  <2>1. ~Idle(Main) /\ Op(Main).op = "list" /\ run # "choose" /\ rel' = rel
    BY <1>1, <1>5 DEF list, At, Idle
  <2>2. run' # "choose"
    BY <1>5, <2>1 DEF list
  <2>3. CASE ext.up
    <3>1. PICK s \in SetToSeqs(ext.items) : Continue(Main, [i \in DOMAIN s |-> OnAddr("client-add", s[i])])
      BY <1>5, <2>3 DEF list
    <3> DEFINE more == [i \in DOMAIN s |-> OnAddr("client-add", s[i])]
    <3>2. ext.items \subseteq Addresses
      BY <1>1
    <3>3. s \in Seq(ext.items) /\ DOMAIN s = 1..Len(s) /\ Len(s) \in Nat
      BY <3>1, <3>2, SeqsOf, FiniteAssumption, FS_Subset
    <3>4. \A i \in 1..Len(s) : s[i] \in Addresses
      BY <3>2, <3>3
    <3>5. \A i \in 1..Len(s) : OnAddr("client-add", s[i]) \in Ops /\ OnAddr("client-add", s[i]).op = "client-add"
      BY <3>4, OpTypes DEF AddrOps
    <3>6. more \in [1..Len(s) -> Ops] /\ \A i \in DOMAIN more : more[i].op # "start"
      BY <3>3, <3>5
    <3>7. more \in Seq(Ops)
      BY <3>3, <3>6, SeqDef
    <3> HIDE DEF more
    <3>8. Continue(Main, more)
      BY <3>1 DEF more
    <3> QED
      BY <1>1, <2>1, <2>2, <3>6, <3>7, <3>8, ThreadNames, QuietContinue DEF Repairs
  <2>4. CASE ~ext.up
    <3>1. Continue(Main, <<>>) /\ <<>> \in Seq(Ops) /\ \A i \in DOMAIN <<>> : <<>>[i].op # "start"
      BY <1>5, <2>4 DEF list
    <3> QED
      BY <1>1, <2>1, <2>2, <3>1, ThreadNames, QuietContinue DEF Repairs
  <2> QED
    BY <2>3, <2>4
<1>6. CASE attached \/ lost
  BY <1>1, <1>6, QuietThreads DEF attached, lost
<1>7. CASE closeRelation
  <2>1. todo[Main] = <<>> /\ run' # "choose"
    BY <1>7 DEF closeRelation, Idle
  <2>2. CASE rel.mode = "attached"
    <3>1. PICK rs \in RemovalsOf(Registered) : todo' = [todo EXCEPT ![Main] = rs]
      BY <1>7, <2>2 DEF closeRelation
    <3>2. rs \in Seq(Ops) /\ \A i \in DOMAIN rs : rs[i].op # "start"
      BY <1>1, <3>1, RemovalsType
    <3>3. rel' \in Relations
      BY <1>2, <1>7, <2>2 DEF closeRelation
    <3> QED
      BY <1>1, <2>1, <3>1, <3>2, <3>3, ThreadNames, QuietBegin
  <2>3. CASE rel.mode = "owner"
    <3>1. rel' = [rel EXCEPT !.mode = "closed", !.signals = <<>>] /\ UNCHANGED todo
      BY <1>7, <2>3 DEF closeRelation
    <3>2. \A q \in Seq(Signals) : [rel EXCEPT !.mode = "closed", !.signals = q] \in Relations
      BY <1>1 DEF Relations
    <3>3. <<>> \in Seq(Signals)
      OBVIOUS
    <3>4. rel' \in Relations
      BY <3>1, <3>2, <3>3
    <3> QED
      BY <1>1, <2>1, <3>1, <3>4, QuietThreads
  <2> QED
    BY <1>7, <2>2, <2>3 DEF closeRelation
<1>8. CASE again
  BY <1>1, <1>8, QuietThreads DEF again, Idle
<1> QED
  BY <1>3, <1>4, <1>5, <1>6, <1>7, <1>8 DEF Relationship

\* The bus, the applications and the external watcher.
LEMMA BusKeeps ==
  ASSUME TInv, Bus
  PROVE  TCore'
<1>1. /\ rel \in Relations /\ ext \in [up : BOOLEAN, items : SUBSET Addresses, starts : Nat]
      /\ todo \in [Threads -> Seq(Ops)] /\ UNCHANGED <<vars, proxies, workers, app, run>>
      /\ (run' = "choose" => todo[Main] = <<>>)
  BY DEF Bus, OwnerLeaves, CallRegister, WatcherStarts, WatcherLeaves, WatcherReplaced, WatcherAdds,
         WatcherRemoves, BusOnly, appVars, TInv, TCore, TTypes, Unbegun
<1>2. ASSUME NEW s \in Signals, Emit(s) PROVE rel' \in Relations
  <2>1. Append(rel.signals, s) \in Seq(Signals)
    BY <1>1 DEF Relations
  <2> QED
    BY <1>1, <1>2, <2>1 DEF Emit, Signalled, Relations
<1>3. ASSUME NEW o \in Owners, OwnerLeaves(o) PROVE TCore'
  <2>1. [op |-> "left", owner |-> o] \in Signals
    BY DEF Signals
  <2>2. rel' \in Relations /\ UNCHANGED <<ext, todo>>
    BY <1>2, <1>3, <2>1 DEF OwnerLeaves
  <2> QED
    BY <1>1, <2>2, QuietThreads
<1>4. ASSUME NEW c \in Calls, NEW a \in Addresses, CallRegister(c, a) PROVE TCore'
  <2>1. /\ todo[Call(c)] = <<>> /\ todo' = [todo EXCEPT ![Call(c)] = <<OnAddr("register", a)>>]
        /\ UNCHANGED <<ext, rel>>
    BY <1>4 DEF CallRegister, Idle
  <2>2. OnAddr("register", a) \in Ops /\ OnAddr("register", a).op # "start"
    BY OpTypes DEF AddrOps
  <2> DEFINE s == <<OnAddr("register", a)>>
  <2>3. s \in Seq(Ops) /\ \A i \in DOMAIN s : s[i].op # "start"
    BY <2>2
  <2> QED
    BY <1>1, <2>1, <2>3, ThreadNames, QuietBegin
<1>5. CASE WatcherStarts \/ WatcherReplaced
  <2>1. ext' \in [up : BOOLEAN, items : SUBSET Addresses, starts : Nat] /\ UNCHANGED <<rel, todo>>
    <3>1. NewWatcher(ext.starts + 1) \in [up : BOOLEAN, items : SUBSET Addresses, starts : Nat]
      <4>1. NoWatcher(ext.starts + 1) \in [up : BOOLEAN, items : SUBSET Addresses, starts : Nat]
        BY <1>1 DEF NoWatcher
      <4> QED
        BY <4>1 DEF NewWatcher
    <3>2. ext.starts \in Nat /\ [ext EXCEPT !.items = {}] \in [up : BOOLEAN, items : SUBSET Addresses, starts : Nat]
      BY <1>1
    <3> QED
      BY <1>1, <1>5, <3>1, <3>2 DEF WatcherStarts, WatcherReplaced
  <2> QED
    BY <1>1, <2>1, QuietThreads
<1>6. CASE WatcherLeaves
  <2>1. Plain("gone") \in Signals
    BY DEF Signals, Plain
  <2>2. ext' \in [up : BOOLEAN, items : SUBSET Addresses, starts : Nat] /\ rel' \in Relations /\ UNCHANGED todo
    BY <1>1, <1>2, <1>6, <2>1 DEF WatcherLeaves, NoWatcher
  <2> QED
    BY <1>1, <2>2, QuietThreads
<1>7. ASSUME NEW a \in Addresses, WatcherAdds(a) \/ WatcherRemoves(a) PROVE TCore'
  <2>1. OnAddr("client-add", a) \in Signals /\ OnAddr("client-remove", a) \in Signals
    BY DEF Signals, OnAddr
  <2>2. ext' \in [up : BOOLEAN, items : SUBSET Addresses, starts : Nat] /\ rel' \in Relations /\ UNCHANGED todo
    BY <1>1, <1>2, <1>7, <2>1 DEF WatcherAdds, WatcherRemoves
  <2> QED
    BY <1>1, <2>2, QuietThreads
<1> QED
  BY <1>3, <1>4, <1>5, <1>6, <1>7 DEF Bus

----
(* Steps of App as the watcher's observer.                                 *)

\* A thread of the registries steps: Close's program, Watcher.Run's and
\* those that have not begun are left alone.
LEMMA StepThread ==
  ASSUME TInv, NEW t \in Threads, ~Idle(t), Op(t).op \in KeyOps \cup {"start"},
         NEW more \in Seq(Ops), Continue(t, more), run' = run,
         \A i \in DOMAIN more : i >= 2 => more[i].op # "start"
  PROVE  /\ todo' \in [Threads -> Seq(Ops)] /\ StartsFirst'
         /\ \A u \in Threads \ {t} : \A p : Starting(u, p)' <=> Starting(u, p)
         /\ \A p : Starting(t, p)' <=> more # <<>> /\ more[1] = OnProxy("start", p)
         /\ \A op, k : Pending(op, k) /\ OnKey(op, k) # Op(t) => Pending(op, k)'
         /\ \A op, k : (\E i \in DOMAIN more : more[i] = OnKey(op, k)) => Pending(op, k)'
         /\ todo'[Closer] = todo[Closer]
         /\ run' = "choose" => todo'[Main] = <<>>
         /\ \A p \in ProxyIds, n \in 1..MaxErrors : todo[Drop(p, n)] = <<>> => todo'[Drop(p, n)] = <<>>
<1>1. /\ todo' \in [Threads -> Seq(Ops)] /\ StartsFirst'
      /\ \A u \in Threads \ {t} : todo'[u] = todo[u]
      /\ \A p : Starting(t, p)' <=> more # <<>> /\ more[1] = OnProxy("start", p)
      /\ \A op, k : Pending(op, k) /\ OnKey(op, k) # Op(t) => Pending(op, k)'
      /\ \A op, k : (\E i \in DOMAIN more : more[i] = OnKey(op, k)) => Pending(op, k)'
  BY ContinueFacts DEF TInv, TCore, TTypes
<1>2. t # Closer
  BY CloserProgram DEF KeyOps, TInv, TCore, TTypes
<1>3. \A u \in Threads \ {t} : \A p : Starting(u, p)' <=> Starting(u, p)
  BY <1>1 DEF Starting
<1>4. todo'[Closer] = todo[Closer]
  BY <1>1, <1>2, ThreadNames
<1>5. run' = "choose" => todo'[Main] = <<>>
  BY <1>1, ThreadNames DEF TInv, TCore, Unbegun, Idle
<1>6. \A p \in ProxyIds, n \in 1..MaxErrors : todo[Drop(p, n)] = <<>> => todo'[Drop(p, n)] = <<>>
  BY <1>1, ThreadNames DEF Idle
<1> QED
  BY <1>1, <1>3, <1>4, <1>5, <1>6

\* The operation at hand, and what the table holds.
LEMMA AtHand ==
  ASSUME TInv
  PROVE  /\ \A t \in Threads : ~Idle(t) =>
              /\ Op(t) \in Ops
              /\ Op(t).op \in KeyOps => Op(t).key \in Keys /\ Op(t) = OnKey(Op(t).op, Op(t).key)
              /\ Op(t).op = "start" => Op(t).proxy \in ProxyIds /\ Op(t) = OnProxy("start", Op(t).proxy)
              /\ \A p : Starting(t, p) <=> Op(t) = OnProxy("start", p)
         /\ DOMAIN workers \in SUBSET Keys /\ \A k \in DOMAIN workers : workers[k] \in ProxyIds
         /\ \A a \in Live : KeyAt(a) \in Keys
<1>1. ASSUME NEW t \in Threads, ~Idle(t)
      PROVE  /\ Op(t) \in Ops
             /\ Op(t).op \in KeyOps => Op(t).key \in Keys /\ Op(t) = OnKey(Op(t).op, Op(t).key)
             /\ Op(t).op = "start" => Op(t).proxy \in ProxyIds /\ Op(t) = OnProxy("start", Op(t).proxy)
             /\ \A p : Starting(t, p) <=> Op(t) = OnProxy("start", p)
  <2>1. todo[t] \in Seq(Ops) /\ todo[t] # <<>>
    BY <1>1 DEF Idle, TInv, TCore, TTypes
  <2>2. Op(t) \in Ops
    BY <2>1, HeadTailProperties DEF Op
  <2>3. \A p : Starting(t, p) <=> Op(t) = OnProxy("start", p)
    BY <2>1 DEF Starting, Op
  <2> QED
    BY <2>2, <2>3, OpKinds DEF ProxyOps
<1>2. DOMAIN workers \in SUBSET Keys /\ \A k \in DOMAIN workers : workers[k] \in ProxyIds
  BY DEF TInv, TCore, TTypes, Workers
<1>3. \A a \in Live : KeyAt(a) \in Keys
  BY DEF TInv, Inv, TypeOK, KeyAt, Keys, Entry
<1> QED
  BY <1>1, <1>2, <1>3

\* owner.Add and owner.Remove leave the table alone.
LEMMA OwnerCallKeeps ==
  ASSUME TInv, UNCHANGED <<ext, rel, run, proxies, workers, app, phase>>,
         NEW t \in Threads, ~Idle(t), Op(t).op \in KeyOps \ {"delete"},
         NEW more \in Seq(Ops), Continue(t, more), \A i \in DOMAIN more : more[i].op # "start",
         ItemsServed'
  PROVE  TCore'
<1>1. /\ todo' \in [Threads -> Seq(Ops)] /\ StartsFirst'
      /\ \A u \in Threads \ {t} : \A p : Starting(u, p)' <=> Starting(u, p)
      /\ \A p : Starting(t, p)' <=> more # <<>> /\ more[1] = OnProxy("start", p)
      /\ \A op, k : Pending(op, k) /\ OnKey(op, k) # Op(t) => Pending(op, k)'
      /\ todo'[Closer] = todo[Closer]
      /\ run' = "choose" => todo'[Main] = <<>>
      /\ \A p \in ProxyIds, n \in 1..MaxErrors : todo[Drop(p, n)] = <<>> => todo'[Drop(p, n)] = <<>>
  BY StepThread
<1>2. ASSUME NEW p PROVE ~Starting(t, p)' /\ ~Starting(t, p)
  <2>1. ~Starting(t, p)
    BY AtHand DEF OnProxy, KeyOps
  <2>2. more # <<>> => 1 \in DOMAIN more
    BY EmptySeq, LenProperties
  <2>3. more # <<>> => more[1] # OnProxy("start", p)
    BY <2>2 DEF OnProxy
  <2> QED
    BY <1>1, <2>1, <2>3
<1>3. \A u \in Threads : \A p : Starting(u, p)' <=> Starting(u, p)
  BY <1>1, <1>2
<1>4. \A k : Pending("delete", k) => Pending("delete", k)'
  BY <1>1 DEF OnKey
<1>5. StartedOnce' /\ TableReads'
  BY <1>3, <1>4, AtHand DEF TInv, TCore, StartedOnce, TableReads
<1>6. Unbegun' /\ CloserAt'
  BY <1>1 DEF TInv, TCore, Unbegun, CloserAt
<1>7. TTypes' /\ OwnerRuns'
  BY <1>1 DEF TInv, TCore, TTypes, OwnerRuns
<1> QED
  BY <1>1, <1>5, <1>6, <1>7 DEF TCore

\* ItemAdded, up to owner.Add.
LEMMA ItemAddedKeeps ==
  ASSUME TInv, NEW t \in Threads, ItemAddedCall(t)
  PROVE  TCore'
<1>0. PICK k \in Keys : ~Idle(t) /\ Op(t).key = k /\ Op(t) = OnKey("added", k)
  BY AtHand DEF ItemAddedCall, At, KeyOps
<1> DEFINE more == <<OnKey("insert", k)>>
<1>1. /\ ~Idle(t) /\ Op(t).op = "added" /\ k \in Keys /\ Op(t) = OnKey("added", k)
      /\ UNCHANGED <<ext, rel, run, proxies, workers, app>>
  BY <1>0, AtHand DEF ItemAddedCall, At, AppOnly, watcherVars, appVars, KeyOps
<1>2. more \in Seq(Ops) /\ \A i \in DOMAIN more : more[i].op # "start" /\ i < 2
  <2>1. OnKey("insert", k) \in Ops /\ OnKey("insert", k).op # "start"
    BY <1>1, OpTypes DEF KeyOps
  <2> QED
    BY <2>1
<1>3. CASE app = "running"
  <2>1. OwnerAdd(k) /\ Continue(t, more)
    BY <1>0, <1>3 DEF ItemAddedCall
  <2>2. /\ \A op, j : Pending(op, j) /\ OnKey(op, j) # Op(t) => Pending(op, j)'
        /\ Pending("insert", k)'
    <3>1. \E i \in DOMAIN more : more[i] = OnKey("insert", k)
      OBVIOUS
    <3> HIDE DEF more
    <3>2. /\ \A op, j : Pending(op, j) /\ OnKey(op, j) # Op(t) => Pending(op, j)'
          /\ \A op, j : (\E i \in DOMAIN more : more[i] = OnKey(op, j)) => Pending(op, j)'
      BY <1>1, <1>2, <2>1, StepThread DEF KeyOps
    <3> QED
      BY <3>1, <3>2
  <2>3. phase' = phase
    BY <2>1 DEF OwnerAdd, Add, vars
  <2>4. ASSUME NEW a \in Live' PROVE (a \in Live /\ KeyAt(a)' = KeyAt(a)) \/ KeyAt(a)' = k
    <3>1. CASE Add(k)
      <4>1. Live' = Live \cup {k.addr} /\ items'[a] = IF a = k.addr THEN NewEntry(k.gen) ELSE items[a]
        BY <3>1 DEF Add, WithItem, Live
      <4>2. NewEntry(k.gen).gen = k.gen /\ k = [addr |-> k.addr, gen |-> k.gen]
        BY <1>1 DEF NewEntry, Keys
      <4> QED
        BY <4>1, <4>2 DEF KeyAt
    <3>2. CASE UNCHANGED vars
      BY <3>2 DEF vars, Live, KeyAt
    <3> QED
      BY <2>1, <3>1, <3>2 DEF OwnerAdd
  <2>5. ItemsServed'
    <3> SUFFICES ASSUME NEW a \in Live'
                 PROVE  KeyAt(a)' \in DOMAIN workers' \/ \E op \in Repairs : Pending(op, KeyAt(a))'
      BY DEF ItemsServed
    <3>1. CASE KeyAt(a)' = k
      BY <2>2, <3>1 DEF Repairs
    <3>2. CASE a \in Live /\ KeyAt(a)' = KeyAt(a)
      <4>1. CASE KeyAt(a) \in DOMAIN workers
        BY <1>1, <3>2, <4>1
      <4>2. ASSUME NEW op \in Repairs, Pending(op, KeyAt(a)) PROVE Pending(op, KeyAt(a))'
        <5>1. OnKey(op, KeyAt(a)) # Op(t)
          BY <1>1 DEF OnKey, Repairs
        <5> QED
          BY <2>2, <3>2, <4>2, <5>1
      <4> QED
        BY <1>3, <3>2, <4>1, <4>2 DEF TInv, TCore, ItemsServed
    <3> QED
      BY <2>4, <3>1, <3>2
  <2> HIDE DEF more
  <2> QED
    BY <1>1, <1>2, <2>1, <2>3, <2>5, OwnerCallKeeps DEF KeyOps
<1>4. CASE app # "running"
  <2>1. Continue(t, <<>>) /\ phase' = phase /\ <<>> \in Seq(Ops) /\ \A i \in DOMAIN <<>> : <<>>[i].op # "start"
    BY <1>4 DEF ItemAddedCall, vars
  <2>2. ItemsServed'
    BY <1>1, <1>4 DEF ItemsServed
  <2> QED
    BY <1>1, <2>1, <2>2, OwnerCallKeeps DEF KeyOps
<1> QED
  BY <1>3, <1>4

\* dropWorker's owner.Remove: a stale key is refused, the live one goes.
LEMMA RetireKeeps ==
  ASSUME TInv, NEW t \in Threads, retire(t)
  PROVE  TCore'
<1> DEFINE k == Op(t).key
<1>1. /\ ~Idle(t) /\ Op(t).op = "retire" /\ k \in Keys /\ Op(t) = OnKey("retire", k)
      /\ UNCHANGED <<ext, rel, run, proxies, workers, app>> /\ OwnerRemove(k) /\ Continue(t, <<>>)
  BY AtHand DEF retire, At, AppOnly, watcherVars, appVars, KeyOps
<1>2. <<>> \in Seq(Ops) /\ \A i \in DOMAIN <<>> : <<>>[i].op # "start"
  OBVIOUS
<1>3. \A op, j : Pending(op, j) /\ OnKey(op, j) # Op(t) => Pending(op, j)'
  BY <1>1, <1>2, StepThread DEF KeyOps
<1>4. phase' = phase
  BY <1>1 DEF OwnerRemove, RemoveItem, vars
<1>5. ASSUME app = "running", NEW a \in Live' PROVE a \in Live /\ KeyAt(a)' = KeyAt(a) /\ KeyAt(a) # k
  <2>1. Accepting
    BY <1>5 DEF TInv, TCore, OwnerRuns, Accepting
  <2>2. CASE RemoveItem(k)
    <3>1. Live' = Live \ {k.addr} /\ items'[a] = items[a]
      BY <2>2 DEF RemoveItem, WithoutItem, Live
    <3> QED
      BY <3>1 DEF KeyAt
  <2>3. CASE UNCHANGED vars /\ ~Current(k)
    <3>1. Live' = Live /\ items' = items
      BY <2>3 DEF vars, Live
    <3>2. KeyAt(a) # k
      BY <2>3, <3>1 DEF Current, KeyAt
    <3> QED
      BY <3>1, <3>2 DEF KeyAt
  <2> QED
    BY <1>1, <2>1, <2>2, <2>3 DEF OwnerRemove, RemoveItem
<1>6. ItemsServed'
  BY <1>1, <1>3, <1>5 DEF TInv, TCore, ItemsServed, OnKey
<1> QED
  BY <1>1, <1>2, <1>4, <1>6, OwnerCallKeeps DEF KeyOps

\* ItemAdded puts a proxy that was not made before in the table, unless Close
\* has begun.
LEMMA InsertKeeps ==
  ASSUME TInv, NEW t \in Threads, insert(t)
  PROVE  TCore'
<1>0. PICK k \in Keys : ~Idle(t) /\ Op(t).key = k /\ Op(t) = OnKey("insert", k)
  BY AtHand DEF insert, At, KeyOps
<1>1. /\ Op(t).op = "insert" /\ UNCHANGED <<vars, ext, rel, run, app>>
      /\ Op(t).op \in KeyOps \cup {"start"}
  BY <1>0 DEF insert, AppOnly, watcherVars, appVars, OnKey, KeyOps
<1>2. Live' = Live /\ \A a \in Live : KeyAt(a) \in Keys /\ KeyAt(a)' = KeyAt(a)
  BY <1>1, AtHand DEF vars, KeyAt, Live
<1>3. CASE app # "running"
  <2>1. Continue(t, <<>>) /\ UNCHANGED <<proxies, workers>>
    BY <1>3 DEF insert, MayInsert
  <2>2. <<>> \in Seq(Ops) /\ \A i \in DOMAIN <<>> : <<>>[i].op # "start"
    OBVIOUS
  <2>3. ItemsServed'
    BY <1>1, <1>3 DEF ItemsServed
  <2> QED
    BY <1>0, <1>1, <2>1, <2>2, <2>3, OwnerCallKeeps DEF KeyOps, vars
<1>4. CASE app = "running"
  <2>0. Unmade # {} /\ NextProxy \in Unmade
    BY <1>4 DEF insert, MayInsert, NextProxy
  <2>1. PICK p \in ProxyIds : p = NextProxy /\ proxies[p].status = "none"
    BY <2>0 DEF Unmade
  <2> DEFINE more == <<OnProxy("start", p)>>
             made == [key |-> k, status |-> "new", errs |-> 0]
  <2>2. /\ Continue(t, more) /\ proxies' = [proxies EXCEPT ![p] = made]
        /\ workers' = [j \in DOMAIN workers \cup {k} |-> IF j = k THEN p ELSE workers[j]]
    BY <1>0, <1>4, <2>1 DEF insert, MayInsert
  <2>3. more \in Seq(Ops) /\ (\A i \in DOMAIN more : i < 2) /\ more # <<>> /\ more[1] = OnProxy("start", p)
    <3>1. OnProxy("start", p) \in Ops
      BY OpTypes DEF ProxyOps
    <3> QED
      BY <3>1
  <2> HIDE DEF more
  <2>4. /\ todo' \in [Threads -> Seq(Ops)] /\ StartsFirst'
        /\ \A u \in Threads \ {t} : \A q : Starting(u, q)' <=> Starting(u, q)
        /\ \A q : Starting(t, q)' <=> OnProxy("start", p) = OnProxy("start", q)
        /\ \A op, j : Pending(op, j) /\ OnKey(op, j) # Op(t) => Pending(op, j)'
        /\ todo'[Closer] = todo[Closer]
        /\ run' = "choose" => todo'[Main] = <<>>
        /\ \A q \in ProxyIds, n \in 1..MaxErrors : todo[Drop(q, n)] = <<>> => todo'[Drop(q, n)] = <<>>
    BY <1>0, <1>1, <2>2, <2>3, StepThread
  <2>5. \A q : Starting(t, q)' <=> q = p
    BY <2>4 DEF OnProxy
  <2>6. \A q : ~Starting(t, q)
    BY <1>0, <1>1, AtHand DEF OnProxy, OnKey
  <2>7. \A u \in Threads : ~Starting(u, p)
    BY <2>1 DEF TInv, TCore, StartedOnce
  <2>8. /\ proxies \in [ProxyIds -> ProxyTypes] /\ proxies'[p] = made
        /\ \A q \in ProxyIds \ {p} : proxies'[q] = proxies[q]
        /\ made \in ProxyTypes
    <3>1. 0 \in 0..MaxErrors
      BY TrayAssumption
    <3> QED
      BY <2>2, <3>1 DEF ProxyTypes, TInv, TCore, TTypes
  <2>9. /\ DOMAIN workers' = DOMAIN workers \cup {k} /\ workers'[k] = p
        /\ \A j \in DOMAIN workers \ {k} : workers'[j] = workers[j] /\ workers[j] # p
    BY <2>1, <2>2 DEF TInv, TCore, TableReads
  <2>10. TTypes'
    <3>1. workers' \in [DOMAIN workers \cup {k} -> ProxyIds] /\ DOMAIN workers \cup {k} \in SUBSET Keys
      BY <2>2, AtHand
    <3>2. workers' \in Workers
      BY <3>1 DEF Workers
    <3>3. proxies' \in [ProxyIds -> ProxyTypes]
      BY <2>2, <2>8
    <3>4. \A q \in ProxyIds : proxies'[q].status # "none" => proxies'[q].key \in Keys
      BY <2>8 DEF TInv, TCore, TTypes
    <3> QED
      BY <1>1, <2>4, <3>2, <3>3, <3>4 DEF TInv, TCore, TTypes
  <2>11. CloserAt'
    BY <1>1, <1>4, <2>4 DEF TInv, TCore, CloserAt
  <2>12. Unbegun'
    <3>1. proxies[p].errs = 0 /\ proxies'[p].errs = 0 /\ proxies'[p].status # "none"
      BY <2>1, <2>8 DEF TInv, TCore, Unbegun
    <3>2. \A q \in ProxyIds : proxies'[q].errs = proxies[q].errs
      BY <2>8, <3>1
    <3> QED
      BY <2>4, <2>8, <3>1, <3>2 DEF TInv, TCore, Unbegun
  <2>13. StartedOnce'
    <3>1. \A u \in Threads, q \in ProxyIds : Starting(u, q)' => IF q = p THEN u = t ELSE Starting(u, q) /\ u # t
      BY <2>4, <2>5, <2>7
    <3>2. proxies'[p].status = "new"
      BY <2>8
    <3> QED
      BY <2>8, <3>1, <3>2 DEF TInv, TCore, StartedOnce
  <2>14. TableReads'
    <3> SUFFICES ASSUME NEW j \in DOMAIN workers', NEW q, q = workers'[j]
                 PROVE  /\ proxies'[q].key = j
                        /\ proxies'[q].status \in {"new", "running"}
                        /\ proxies'[q].status = "new" =>
                              Pending("delete", j)' \/ \E u \in Threads : Starting(u, q)'
      BY DEF TableReads, Starting
    <3>1. CASE j = k
      BY <2>5, <2>8, <2>9, <3>1
    <3>2. CASE j # k
      <4>1. j \in DOMAIN workers /\ q = workers[j] /\ q \in ProxyIds /\ proxies'[q] = proxies[q]
        BY <2>8, <2>9, <3>2, AtHand
      <4>2. OnKey("delete", j) # Op(t)
        BY <1>0 DEF OnKey
      <4>3. \A u \in Threads : Starting(u, q) => Starting(u, q)'
        BY <2>4, <2>6
      <4>4. /\ proxies[q].key = j /\ proxies[q].status \in {"new", "running"}
            /\ proxies[q].status = "new" => Pending("delete", j) \/ \E u \in Threads : Starting(u, q)
        BY <4>1 DEF TInv, TCore, TableReads
      <4> QED
        BY <2>4, <4>1, <4>2, <4>3, <4>4
    <3> QED
      BY <3>1, <3>2
  <2>15. ItemsServed'
    <3> SUFFICES ASSUME NEW a \in Live'
                 PROVE  KeyAt(a)' \in DOMAIN workers' \/ \E op \in Repairs : Pending(op, KeyAt(a))'
      BY DEF ItemsServed
    <3>0. PICK j \in Keys : j = KeyAt(a) /\ j = KeyAt(a)' /\ a \in Live
      BY <1>2
    <3>1. CASE j = k \/ j \in DOMAIN workers
      BY <2>9, <3>0, <3>1
    <3>2. ASSUME j # k, NEW op \in Repairs, Pending(op, j) PROVE Pending(op, j)'
      <4>1. OnKey(op, j) # Op(t)
        BY <1>0, <3>2 DEF OnKey
      <4> QED
        BY <2>4, <3>2, <4>1
    <3> QED
      BY <1>4, <3>0, <3>1, <3>2 DEF TInv, TCore, ItemsServed
  <2>16. OwnerRuns'
    BY <1>1 DEF TInv, TCore, OwnerRuns, vars
  <2> QED
    BY <2>4, <2>10, <2>11, <2>12, <2>13, <2>14, <2>15, <2>16 DEF TCore
<1> QED
  BY <1>3, <1>4

\* Proxy.Start, or a Start that the bus refuses.
LEMMA StartKeeps ==
  ASSUME TInv, NEW t \in Threads, start(t)
  PROVE  TCore'
<1>0. PICK p \in ProxyIds : ~Idle(t) /\ Op(t).proxy = p /\ Op(t) = OnProxy("start", p)
  BY AtHand DEF start, At
<1>1. /\ Op(t).op = "start" /\ UNCHANGED <<vars, ext, rel, run, app, workers>>
      /\ Op(t).op \in KeyOps \cup {"start"}
  BY <1>0 DEF start, AppOnly, watcherVars, appVars, OnProxy
<1>2. Live' = Live /\ \A a \in Live : KeyAt(a) \in Keys /\ KeyAt(a)' = KeyAt(a)
  BY <1>1, AtHand DEF vars, KeyAt, Live
<1>3. /\ Starting(t, p) /\ proxies[p].status \in {"new", "closed"} /\ proxies[p].key \in Keys
      /\ \A u \in Threads \ {t} : ~Starting(u, p)
      /\ \A q : Starting(t, q) => q = p
  <2>1. \A q : Starting(t, q) <=> q = p
    BY <1>0, AtHand DEF OnProxy
  <2> QED
    BY <2>1 DEF TInv, TCore, StartedOnce, TTypes
<1>4. PICK more \in Seq(Ops) :
        /\ Continue(t, more) /\ \A i \in DOMAIN more : more[i].op # "start" /\ i < 2
        /\ \/ more = <<>> /\ proxies' = [proxies EXCEPT ![p].status = IF @ = "new" THEN "running" ELSE "stopping"]
           \/ more = <<OnKey("delete", proxies[p].key)>> /\ UNCHANGED proxies
  <2>1. CASE Continue(t, <<>>) /\ proxies' = [proxies EXCEPT ![p].status = IF @ = "new" THEN "running" ELSE "stopping"]
    <3>1. <<>> \in Seq(Ops) /\ \A i \in DOMAIN <<>> : <<>>[i].op # "start" /\ i < 2
      OBVIOUS
    <3> QED
      BY <2>1, <3>1
  <2>2. CASE Continue(t, <<OnKey("delete", proxies[p].key)>>) /\ UNCHANGED proxies
    <3>1. OnKey("delete", proxies[p].key) \in Ops /\ OnKey("delete", proxies[p].key).op # "start"
      BY <1>3, OpTypes DEF KeyOps
    <3>2. \A o \in Ops : o.op # "start" => <<o>> \in Seq(Ops) /\ \A i \in DOMAIN <<o>> : <<o>>[i].op # "start" /\ i < 2
      OBVIOUS
    <3> QED
      BY <2>2, <3>1, <3>2
  <2> QED
    BY <1>0, <2>1, <2>2 DEF start
<1>5. /\ todo' \in [Threads -> Seq(Ops)] /\ StartsFirst'
      /\ \A u \in Threads \ {t} : \A q : Starting(u, q)' <=> Starting(u, q)
      /\ \A q : Starting(t, q)' <=> more # <<>> /\ more[1] = OnProxy("start", q)
      /\ \A op, j : Pending(op, j) /\ OnKey(op, j) # Op(t) => Pending(op, j)'
      /\ \A op, j : (\E i \in DOMAIN more : more[i] = OnKey(op, j)) => Pending(op, j)'
      /\ todo'[Closer] = todo[Closer]
      /\ run' = "choose" => todo'[Main] = <<>>
      /\ \A q \in ProxyIds, n \in 1..MaxErrors : todo[Drop(q, n)] = <<>> => todo'[Drop(q, n)] = <<>>
  BY <1>0, <1>1, <1>4, StepThread
<1>6. \A u \in Threads : \A q : Starting(u, q)' <=> u # t /\ Starting(u, q)
  <2>1. more # <<>> => 1 \in DOMAIN more
    BY EmptySeq, LenProperties
  <2>2. ASSUME NEW q, more # <<>>, more[1] = OnProxy("start", q) PROVE FALSE
    <3>1. more[1].op # "start"
      BY <1>4, <2>1, <2>2
    <3> QED
      BY <2>2, <3>1 DEF OnProxy
  <2>3. \A q : ~Starting(t, q)'
    BY <1>5, <2>2
  <2> QED
    BY <1>5, <2>3
<1>7. \A op \in Repairs : \A j : Pending(op, j) => Pending(op, j)'
  <2> SUFFICES ASSUME NEW op \in Repairs, NEW j, Pending(op, j) PROVE Pending(op, j)'
    OBVIOUS
  <2>1. OnKey(op, j) # Op(t)
    BY <1>1 DEF OnKey, Repairs
  <2> QED
    BY <1>5, <2>1
<1>8. /\ proxies' \in [ProxyIds -> ProxyTypes]
      /\ \A q \in ProxyIds \ {p} : proxies'[q] = proxies[q]
      /\ proxies'[p].key = proxies[p].key /\ proxies'[p].errs = proxies[p].errs /\ proxies'[p].status # "none"
      /\ \/ proxies'[p].status = IF proxies[p].status = "new" THEN "running" ELSE "stopping"
         \/ proxies'[p] = proxies[p] /\ Pending("delete", proxies[p].key)'
  <2>1. proxies \in [ProxyIds -> ProxyTypes]
    BY DEF TInv, TCore, TTypes
  <2>2. CASE proxies' = [proxies EXCEPT ![p].status = IF @ = "new" THEN "running" ELSE "stopping"]
    BY <2>1, <2>2 DEF ProxyTypes
  <2>3. CASE more = <<OnKey("delete", proxies[p].key)>> /\ UNCHANGED proxies
    <3>1. PICK j \in Keys : j = proxies[p].key
      BY <1>3
    <3>2. Pending("delete", j)'
      BY <1>5, <2>3, <3>1
    <3>3. Pending("delete", proxies[p].key)'
      BY <2>3, <3>1, <3>2
    <3> QED
      BY <1>3, <2>1, <2>3, <3>3
  <2> QED
    BY <1>4, <2>2, <2>3
<1>9. TTypes'
  BY <1>1, <1>3, <1>5, <1>8 DEF TInv, TCore, TTypes
<1>10. CloserAt' /\ OwnerRuns'
  BY <1>1, <1>5 DEF TInv, TCore, CloserAt, OwnerRuns, vars
<1>11. Unbegun'
  BY <1>3, <1>5, <1>8 DEF TInv, TCore, Unbegun
<1>12. StartedOnce'
  BY <1>3, <1>6, <1>8 DEF TInv, TCore, StartedOnce
<1>13. TableReads'
  <2> SUFFICES ASSUME NEW j \in DOMAIN workers, NEW q, q = workers[j]
               PROVE  /\ proxies'[q].key = j
                      /\ proxies'[q].status \in {"new", "running"}
                      /\ proxies'[q].status = "new" =>
                            Pending("delete", j)' \/ \E u \in Threads : Starting(u, q)'
    BY <1>1 DEF TableReads, Starting
  <2>1. /\ q \in ProxyIds /\ proxies[q].key = j
        /\ proxies[q].status \in {"new", "running"}
        /\ proxies[q].status = "new" =>
              Pending("delete", j) \/ \E u \in Threads : Starting(u, q)
    BY AtHand DEF TInv, TCore, TableReads
  <2>2. CASE q = p
    <3>1. CASE proxies'[p].status = IF proxies[p].status = "new" THEN "running" ELSE "stopping"
      BY <1>3, <1>8, <2>1, <2>2, <3>1
    <3>2. CASE proxies'[p] = proxies[p] /\ Pending("delete", proxies[p].key)'
      <4>1. Pending("delete", j)'
        BY <1>8, <2>1, <2>2, <3>2
      <4> QED
        BY <2>1, <2>2, <3>2, <4>1
    <3> QED
      BY <1>8, <3>1, <3>2
  <2>3. CASE q # p
    BY <1>3, <1>6, <1>7, <1>8, <2>1, <2>3 DEF Repairs
  <2> QED
    BY <2>2, <2>3
<1>14. ItemsServed'
  <2> SUFFICES ASSUME app = "running", NEW a \in Live'
               PROVE  KeyAt(a)' \in DOMAIN workers' \/ \E op \in Repairs : Pending(op, KeyAt(a))'
    BY <1>1 DEF ItemsServed
  <2>1. PICK j \in Keys : j = KeyAt(a) /\ j = KeyAt(a)' /\ a \in Live
    BY <1>2
  <2> QED
    BY <1>1, <1>7, <2>1 DEF TInv, TCore, ItemsServed
<1> QED
  BY <1>5, <1>9, <1>10, <1>11, <1>12, <1>13, <1>14 DEF TCore

\* What a thread has to do after it has dropped a worker.
LEMMA DropProgram ==
  ASSUME NEW x \in Ops, NEW y \in Ops, x.op # "start", y.op # "start", NEW b \in BOOLEAN, NEW c \in BOOLEAN
  PROVE  LET more == (IF b THEN <<x>> ELSE <<>>) \o (IF c THEN <<y>> ELSE <<>>)
         IN  /\ more \in Seq(Ops) /\ \A i \in DOMAIN more : more[i].op # "start"
             /\ c => \E i \in DOMAIN more : more[i] = y
<1> DEFINE Plainly(s) == s \in Seq(Ops) /\ \A i \in DOMAIN s : s[i].op # "start"
           Has(s) == \E i \in DOMAIN s : s[i] = y
<1>1. Plainly(<<>> \o <<>>)
  BY ConcatEmptySeq
<1>2. Plainly(<<x>> \o <<>>)
  <2>1. <<x>> \in Seq(Ops) /\ <<x>> \o <<>> = <<x>>
    BY ConcatEmptySeq
  <2> QED
    BY <2>1
<1>3. Plainly(<<>> \o <<y>>) /\ Has(<<>> \o <<y>>)
  <2>1. <<y>> \in Seq(Ops) /\ <<>> \o <<y>> = <<y>> /\ DOMAIN <<y>> = {1} /\ <<y>>[1] = y
    BY ConcatEmptySeq
  <2> QED
    BY <2>1
<1>4. Plainly(<<x>> \o <<y>>) /\ Has(<<x>> \o <<y>>)
  <2>1. <<x>> \in Seq(Ops) /\ <<y>> \in Seq(Ops) /\ Len(<<x>>) = 1 /\ Len(<<y>>) = 1
    OBVIOUS
  <2> DEFINE r == <<x>> \o <<y>>
  <2>2. /\ r \in Seq(Ops) /\ Len(r) = 2
        /\ \A i \in 1..2 : r[i] = IF i <= 1 THEN <<x>>[i] ELSE <<y>>[i - 1]
    BY <2>1, ConcatProperties
  <2> HIDE DEF r
  <2>3. DOMAIN r = 1..2 /\ r[1] = x /\ r[2] = y
    BY <2>2
  <2>4. Plainly(r) /\ Has(r)
    BY <2>2, <2>3
  <2> QED
    BY <2>4 DEF r
<1> HIDE DEF Plainly, Has
<1>5. LET more == (IF b THEN <<x>> ELSE <<>>) \o (IF c THEN <<y>> ELSE <<>>)
      IN  Plainly(more) /\ (c => Has(more))
  BY <1>1, <1>2, <1>3, <1>4
<1> QED
  BY <1>5 DEF Plainly, Has

\* A closed proxy.
LEMMA StoppedFacts ==
  /\ Stopped("new") = "closed" /\ Stopped("running") = "stopping"
  /\ \A s \in {"none", "new", "running", "stopping", "closed"} :
        /\ Stopped(s) \in {"none", "new", "running", "stopping", "closed"}
        /\ s = "none" <=> Stopped(s) = "none"
        /\ s \in {"new", "closed"} => Stopped(s) = "closed"
BY DEF Stopped

\* Closing some proxies disturbs nothing but the table.
LEMMA ClosedProxies ==
  ASSUME TInv, NEW P \in SUBSET ProxyIds,
         proxies' = [p \in ProxyIds |->
                       IF p \in P THEN [proxies[p] EXCEPT !.status = Stopped(@)] ELSE proxies[p]]
  PROVE  /\ proxies' \in [ProxyIds -> ProxyTypes]
         /\ \A p \in ProxyIds : /\ proxies'[p].key = proxies[p].key /\ proxies'[p].errs = proxies[p].errs
                                /\ proxies'[p].status = "none" <=> proxies[p].status = "none"
                                /\ proxies[p].status \in {"new", "closed"} => proxies'[p].status \in {"new", "closed"}
                                /\ p \notin P => proxies'[p] = proxies[p]
<1>1. proxies \in [ProxyIds -> ProxyTypes]
  BY DEF TInv, TCore, TTypes
<1>2. ASSUME NEW p \in ProxyIds
      PROVE  /\ proxies'[p] \in ProxyTypes /\ proxies'[p].key = proxies[p].key /\ proxies'[p].errs = proxies[p].errs
             /\ proxies'[p].status = "none" <=> proxies[p].status = "none"
             /\ proxies[p].status \in {"new", "closed"} => proxies'[p].status \in {"new", "closed"}
             /\ p \notin P => proxies'[p] = proxies[p]
  <2>1. proxies[p] \in ProxyTypes
    BY <1>1
  <2>2. CASE p \notin P
    BY <2>1, <2>2
  <2>3. CASE p \in P
    <3>1. proxies'[p] = [proxies[p] EXCEPT !.status = Stopped(proxies[p].status)]
      BY <2>3
    <3>2. proxies[p].status \in {"none", "new", "running", "stopping", "closed"}
      BY <2>1 DEF ProxyTypes
    <3>3. \A s \in {"none", "new", "running", "stopping", "closed"} :
             LET q == [proxies[p] EXCEPT !.status = s]
             IN  q \in ProxyTypes /\ q.key = proxies[p].key /\ q.errs = proxies[p].errs /\ q.status = s
      BY <2>1 DEF ProxyTypes
    <3> QED
      BY <2>3, <3>1, <3>2, <3>3, StoppedFacts
  <2> QED
    BY <2>2, <2>3
<1> QED
  BY <1>2

\* ItemRemoved and dropWorker: the worker leaves the table and is told to
\* stop; the thread retires the item next.
LEMMA DropKeeps ==
  ASSUME TInv, NEW t \in Threads, dropWorker(t)
  PROVE  TCore'
<1>0. PICK k \in Keys : ~Idle(t) /\ Op(t).key = k /\ Op(t).op \in {"removed", "delete"} /\ Op(t) = OnKey(Op(t).op, k)
  BY AtHand DEF dropWorker, At, KeyOps
<1>1. UNCHANGED <<vars, ext, rel, run, app>>
  BY DEF dropWorker, AppOnly, watcherVars, appVars
<1>2. Live' = Live /\ \A a \in Live : KeyAt(a) \in Keys /\ KeyAt(a)' = KeyAt(a)
  BY <1>1, AtHand DEF vars, KeyAt, Live
<1> DEFINE P == IF k \in DOMAIN workers THEN {workers[k]} ELSE {}
           more == (IF k \in DOMAIN workers THEN <<OnProxy("wait", workers[k])>> ELSE <<>>)
                     \o (IF app = "running" THEN <<OnKey("retire", k)>> ELSE <<>>)
<1>3. /\ workers' = [j \in DOMAIN workers \ {k} |-> workers[j]] /\ Continue(t, more)
      /\ P \in SUBSET ProxyIds
      /\ proxies' = [p \in ProxyIds |-> IF p \in P THEN [proxies[p] EXCEPT !.status = Stopped(@)] ELSE proxies[p]]
  <2>1. P \in SUBSET ProxyIds
    BY AtHand
  <2>2. \A p : p \in P <=> k \in DOMAIN workers /\ p = workers[k]
    OBVIOUS
  <2>3. proxies' = [p \in ProxyIds |-> IF k \in DOMAIN workers /\ p = workers[k]
                                       THEN [proxies[p] EXCEPT !.status = Stopped(@)] ELSE proxies[p]]
    BY <1>0 DEF dropWorker
  <2> HIDE DEF P
  <2>4. proxies' = [p \in ProxyIds |-> IF p \in P THEN [proxies[p] EXCEPT !.status = Stopped(@)] ELSE proxies[p]]
    BY <2>2, <2>3
  <2> QED
    BY <1>0, <2>1, <2>4 DEF dropWorker
<1>4. /\ more \in Seq(Ops) /\ \A i \in DOMAIN more : more[i].op # "start"
      /\ app = "running" => \E i \in DOMAIN more : more[i] = OnKey("retire", k)
  <2>1. OnKey("retire", k) \in Ops /\ OnKey("retire", k).op # "start"
    BY OpTypes DEF KeyOps
  <2>2. CASE k \in DOMAIN workers
    <3>1. OnProxy("wait", workers[k]) \in Ops /\ OnProxy("wait", workers[k]).op # "start"
      BY <2>2, AtHand, OpTypes DEF ProxyOps
    <3> QED
      BY <2>1, <2>2, <3>1, DropProgram
  <2>3. CASE k \notin DOMAIN workers
    BY <2>1, <2>3, DropProgram
  <2> QED
    BY <2>2, <2>3
<1> HIDE DEF more
<1>5. /\ proxies' \in [ProxyIds -> ProxyTypes]
      /\ \A p \in ProxyIds : /\ proxies'[p].key = proxies[p].key /\ proxies'[p].errs = proxies[p].errs
                             /\ proxies'[p].status = "none" <=> proxies[p].status = "none"
                             /\ proxies[p].status \in {"new", "closed"} => proxies'[p].status \in {"new", "closed"}
                             /\ p \notin P => proxies'[p] = proxies[p]
  BY <1>3, ClosedProxies
<1>6. \A j \in DOMAIN workers : j # k => workers[j] \notin P
  BY DEF TInv, TCore, TableReads
<1> HIDE DEF P
<1>7. /\ todo' \in [Threads -> Seq(Ops)] /\ StartsFirst'
      /\ \A u \in Threads \ {t} : \A p : Starting(u, p)' <=> Starting(u, p)
      /\ \A p : Starting(t, p)' <=> more # <<>> /\ more[1] = OnProxy("start", p)
      /\ \A op, j : Pending(op, j) /\ OnKey(op, j) # Op(t) => Pending(op, j)'
      /\ \A op, j : (\E i \in DOMAIN more : more[i] = OnKey(op, j)) => Pending(op, j)'
      /\ todo'[Closer] = todo[Closer]
      /\ run' = "choose" => todo'[Main] = <<>>
      /\ \A p \in ProxyIds, n \in 1..MaxErrors : todo[Drop(p, n)] = <<>> => todo'[Drop(p, n)] = <<>>
  <2>1. Op(t).op \in KeyOps \cup {"start"} /\ run' = run
    BY <1>0, <1>1 DEF KeyOps
  <2> QED
    BY <1>0, <1>3, <1>4, <2>1, StepThread
<1>8. \A u \in Threads : \A p : Starting(u, p)' <=> Starting(u, p)
  <2>1. ASSUME NEW p PROVE ~Starting(t, p)' /\ ~Starting(t, p)
    <3>1. ~Starting(t, p)
      BY <1>0, AtHand DEF OnProxy
    <3>2. more # <<>> => 1 \in DOMAIN more
      BY <1>4, EmptySeq, LenProperties
    <3>3. more # <<>> => more[1] # OnProxy("start", p)
      BY <1>4, <3>2 DEF OnProxy
    <3> QED
      BY <1>7, <3>1, <3>3
  <2> QED
    BY <1>7, <2>1
<1>9. DOMAIN workers' = DOMAIN workers \ {k} /\ \A j \in DOMAIN workers' : workers'[j] = workers[j]
  BY <1>3
<1>10. TTypes'
  <2>1. workers' \in [DOMAIN workers \ {k} -> ProxyIds] /\ DOMAIN workers \ {k} \in SUBSET Keys
    BY <1>3, AtHand
  <2>2. workers' \in Workers
    BY <2>1 DEF Workers
  <2>3. proxies \in [ProxyIds -> ProxyTypes] /\ \A p \in ProxyIds : proxies[p].status # "none" => proxies[p].key \in Keys
    BY DEF TInv, TCore, TTypes
  <2>4. \A p \in ProxyIds : proxies'[p].status # "none" => proxies'[p].key \in Keys
    BY <1>5, <2>3
  <2>5. ext' = ext /\ rel' = rel
    BY <1>1
  <2> QED
    BY <1>5, <1>7, <2>2, <2>4, <2>5 DEF TInv, TCore, TTypes
<1>11. CloserAt'
  <2>1. ASSUME workers = [j \in {} |-> 1] PROVE workers' = [j \in {} |-> 1]
    <3>1. DOMAIN workers = {}
      BY <2>1
    <3>2. DOMAIN workers \ {k} = {}
      BY <3>1
    <3> QED
      BY <1>3, <3>2
  <2> QED
    BY <1>1, <1>7, <2>1 DEF TInv, TCore, CloserAt
<1>12. Unbegun'
  BY <1>5, <1>7 DEF TInv, TCore, Unbegun
<1>13. StartedOnce'
  BY <1>5, <1>8 DEF TInv, TCore, StartedOnce
<1>14. TableReads'
  <2> SUFFICES ASSUME NEW j \in DOMAIN workers', NEW q, q = workers'[j]
               PROVE  /\ proxies'[q].key = j
                      /\ proxies'[q].status \in {"new", "running"}
                      /\ proxies'[q].status = "new" =>
                            Pending("delete", j)' \/ \E u \in Threads : Starting(u, q)'
    BY DEF TableReads, Starting
  <2>1. j \in DOMAIN workers /\ j # k /\ q = workers[j] /\ q \in ProxyIds /\ proxies'[q] = proxies[q]
    BY <1>5, <1>6, <1>9, AtHand
  <2>2. /\ proxies[q].key = j /\ proxies[q].status \in {"new", "running"}
        /\ proxies[q].status = "new" => Pending("delete", j) \/ \E u \in Threads : Starting(u, q)
    BY <2>1 DEF TInv, TCore, TableReads
  <2>3. OnKey("delete", j) # Op(t)
    BY <1>0, <2>1 DEF OnKey
  <2> QED
    BY <1>7, <1>8, <2>1, <2>2, <2>3
<1>15. ItemsServed'
  <2> SUFFICES ASSUME app = "running", NEW a \in Live'
               PROVE  KeyAt(a)' \in DOMAIN workers' \/ \E op \in Repairs : Pending(op, KeyAt(a))'
    BY <1>1 DEF ItemsServed
  <2>1. PICK j \in Keys : j = KeyAt(a) /\ j = KeyAt(a)' /\ a \in Live
    BY <1>2
  <2>2. CASE j = k
    BY <1>4, <1>7, <2>1, <2>2 DEF Repairs
  <2>3. ASSUME j # k, NEW op \in Repairs, Pending(op, j) PROVE Pending(op, j)'
    <3>1. OnKey(op, j) # Op(t)
      BY <1>0, <2>3 DEF OnKey
    <3> QED
      BY <1>7, <2>3, <3>1
  <2> QED
    BY <1>9, <2>1, <2>2, <2>3 DEF TInv, TCore, ItemsServed
<1>16. OwnerRuns'
  BY <1>1 DEF TInv, TCore, OwnerRuns, vars
<1> QED
  BY <1>7, <1>10, <1>11, <1>12, <1>13, <1>14, <1>15, <1>16 DEF TCore

----
(* The proxies' goroutines.                                                *)

\* A reading changes no generation.
LEMMA ReadingKeeps ==
  ASSUME TInv, NEW p \in ProxyIds, NEW item \in Items, onItem(p, item)
  PROVE  TCore'
<1>1. /\ UNCHANGED <<ext, rel, run, todo, proxies, workers, app>> /\ phase' = phase
      /\ items' = [items EXCEPT ![proxies[p].key.addr].item = item, ![proxies[p].key.addr].published = TRUE]
  BY DEF onItem, Update, AppOnly, watcherVars, appVars
<1>2. Live' = Live /\ \A a \in Live : KeyAt(a)' = KeyAt(a)
  <2>1. items \in [Live -> Entry]
    BY DEF TInv, Inv, TypeOK, Live
  <2> DEFINE b == proxies[p].key.addr
  <2> HIDE DEF b
  <2>2. items' = [items EXCEPT ![b].item = item, ![b].published = TRUE]
    BY <1>1 DEF b
  <2>3. DOMAIN items' = Live /\ \A a \in Live : items'[a].gen = items[a].gen
    BY <2>1, <2>2 DEF Entry
  <2> QED
    BY <2>3 DEF Live, KeyAt
<1>3. TTypes' /\ StartsFirst' /\ CloserAt' /\ Unbegun' /\ OwnerRuns'
  BY <1>1 DEF TInv, TCore, TTypes, StartsFirst, CloserAt, Unbegun, OwnerRuns
<1>4. StartedOnce' /\ TableReads'
  BY <1>1 DEF TInv, TCore, StartedOnce, TableReads, Starting, Pending
<1>5. ItemsServed'
  <2> SUFFICES ASSUME app = "running", NEW a \in Live'
               PROVE  KeyAt(a)' \in DOMAIN workers' \/ \E op \in Repairs : Pending(op, KeyAt(a))'
    BY <1>1 DEF ItemsServed
  <2>1. PICK j \in Keys : j = KeyAt(a) /\ j = KeyAt(a)' /\ a \in Live
    BY <1>2, AtHand
  <2>2. \A op : Pending(op, j)' <=> Pending(op, j)
    BY <1>1 DEF Pending
  <2> QED
    BY <1>1, <2>1, <2>2 DEF TInv, TCore, ItemsServed
<1> QED
  BY <1>3, <1>4, <1>5 DEF TCore

\* A failed read starts a thread to drop the worker.
LEMMA FailedReadKeeps ==
  ASSUME TInv, NEW p \in ProxyIds, onItemErr(p)
  PROVE  TCore'
<1>1. /\ UNCHANGED <<vars, ext, rel, run, workers, app>>
      /\ proxies \in [ProxyIds -> ProxyTypes] /\ proxies[p].status \in {"running", "stopping"}
      /\ proxies[p].errs < MaxErrors /\ proxies[p].errs \in 0..MaxErrors
  BY DEF onItemErr, Reading, AppOnly, watcherVars, appVars, TInv, TCore, TTypes, ProxyTypes
<1> DEFINE n == proxies[p].errs + 1
<1>2. n \in 1..MaxErrors /\ n > proxies[p].errs /\ proxies[p].key \in Keys
  BY <1>1, TrayAssumption DEF TInv, TCore, TTypes
<1>3. PICK k \in Keys, t \in Threads : k = proxies[p].key /\ t = Drop(p, n)
  BY <1>2, ThreadNames
<1> DEFINE s == <<OnKey("delete", k)>>
<1>4. todo[t] = <<>> /\ todo' = [todo EXCEPT ![t] = s] /\ todo \in [Threads -> Seq(Ops)]
  BY <1>2, <1>3 DEF onItemErr, TInv, TCore, TTypes, Unbegun
<1>5. s \in Seq(Ops) /\ \A i \in DOMAIN s : s[i].op # "start"
  <2>1. OnKey("delete", k) \in Ops /\ OnKey("delete", k).op # "start"
    BY OpTypes DEF KeyOps
  <2> QED
    BY <2>1
<1> HIDE DEF s
<1>6. /\ todo' \in [Threads -> Seq(Ops)] /\ todo'[t] = s
      /\ StartsFirst'
      /\ \A u \in Threads \ {t} : todo'[u] = todo[u]
      /\ \A q : ~Starting(t, q)'
      /\ \A op, j : Pending(op, j) => Pending(op, j)'
  BY <1>4, <1>5, BeginFacts DEF TInv, TCore
<1>7. \A u \in Threads : \A q : Starting(u, q)' <=> Starting(u, q)
  BY <1>4, <1>6 DEF Starting
<1>8. t # Closer /\ t # Main /\ \A q \in ProxyIds, m \in 1..MaxErrors : Drop(q, m) = t => q = p /\ m = n
  BY <1>3, ThreadNames
<1>9. /\ proxies' \in [ProxyIds -> ProxyTypes]
      /\ proxies'[p].errs = n /\ proxies'[p].status = proxies[p].status /\ proxies'[p].key = proxies[p].key
      /\ \A q \in ProxyIds \ {p} : proxies'[q] = proxies[q]
  <2>1. proxies' = [proxies EXCEPT ![p].errs = n]
    BY DEF onItemErr
  <2>2. n \in 0..MaxErrors
    BY <1>2
  <2> HIDE DEF n
  <2>3. proxies'[p] = [proxies[p] EXCEPT !.errs = n]
    BY <1>1, <2>1
  <2> QED
    BY <1>1, <2>1, <2>2, <2>3 DEF ProxyTypes
<1>10. TTypes'
  BY <1>1, <1>2, <1>6, <1>9 DEF TInv, TCore, TTypes
<1>11. CloserAt' /\ OwnerRuns'
  BY <1>1, <1>6, <1>8, ThreadNames DEF TInv, TCore, CloserAt, OwnerRuns, vars
<1>12. Unbegun'
  <2>1. ASSUME NEW q \in ProxyIds, NEW m \in 1..MaxErrors, m > proxies'[q].errs PROVE todo'[Drop(q, m)] = <<>>
    <3>1. m > proxies[q].errs /\ ~(q = p /\ m = n)
      BY <1>1, <1>9, <2>1
    <3>2. todo[Drop(q, m)] = <<>> /\ Drop(q, m) # t /\ Drop(q, m) \in Threads
      BY <1>8, <3>1, ThreadNames DEF TInv, TCore, Unbegun
    <3> QED
      BY <1>6, <3>2
  <2>2. run' = "choose" => todo'[Main] = <<>>
    BY <1>1, <1>6, <1>8, ThreadNames DEF TInv, TCore, Unbegun
  <2>3. \A q \in ProxyIds : proxies'[q].status = "none" => proxies'[q].errs = 0
    BY <1>1, <1>9 DEF TInv, TCore, Unbegun
  <2> QED
    BY <2>1, <2>2, <2>3 DEF Unbegun
<1>13. StartedOnce'
  BY <1>7, <1>9 DEF TInv, TCore, StartedOnce
<1>14. TableReads'
  <2> SUFFICES ASSUME NEW j \in DOMAIN workers', NEW q, q = workers'[j]
               PROVE  /\ proxies'[q].key = j
                      /\ proxies'[q].status \in {"new", "running"}
                      /\ proxies'[q].status = "new" =>
                            Pending("delete", j)' \/ \E u \in Threads : Starting(u, q)'
    BY DEF TableReads, Starting
  <2>1. j \in DOMAIN workers /\ q = workers[j] /\ q \in ProxyIds
    BY <1>1, AtHand
  <2>2. proxies'[q].key = proxies[q].key /\ proxies'[q].status = proxies[q].status
    BY <1>9, <2>1
  <2> QED
    BY <1>6, <1>7, <2>1, <2>2 DEF TInv, TCore, TableReads
<1>15. ItemsServed'
  <2> SUFFICES ASSUME app = "running", NEW a \in Live'
               PROVE  KeyAt(a)' \in DOMAIN workers' \/ \E op \in Repairs : Pending(op, KeyAt(a))'
    BY <1>1 DEF ItemsServed
  <2>1. PICK j \in Keys : j = KeyAt(a) /\ j = KeyAt(a)' /\ a \in Live
    BY <1>1, AtHand DEF vars, Live, KeyAt
  <2> QED
    BY <1>1, <1>6, <2>1 DEF TInv, TCore, ItemsServed
<1> QED
  BY <1>6, <1>10, <1>11, <1>12, <1>13, <1>14, <1>15 DEF TCore

\* A closed proxy's goroutines return; it is in no table and never starts.
LEMMA ProxyStopsKeeps ==
  ASSUME TInv, NEW p \in ProxyIds, ProxyStops(p)
  PROVE  TCore'
<1>1. /\ UNCHANGED <<vars, ext, rel, run, todo, workers, app>>
      /\ proxies \in [ProxyIds -> ProxyTypes] /\ proxies[p].status = "stopping"
      /\ proxies' = [proxies EXCEPT ![p].status = "closed"]
  BY DEF ProxyStops, AppOnly, watcherVars, appVars, TInv, TCore, TTypes
<1>2. /\ proxies' \in [ProxyIds -> ProxyTypes]
      /\ proxies'[p].status = "closed" /\ proxies'[p].key = proxies[p].key /\ proxies'[p].errs = proxies[p].errs
      /\ \A q \in ProxyIds \ {p} : proxies'[q] = proxies[q]
  <2>1. proxies'[p] = [proxies[p] EXCEPT !.status = "closed"]
    BY <1>1
  <2> QED
    BY <1>1, <2>1 DEF ProxyTypes
<1>3. \A k \in DOMAIN workers : workers[k] \in ProxyIds \ {p}
  BY <1>1, AtHand DEF TInv, TCore, TableReads
<1>4. TTypes'
  BY <1>1, <1>2 DEF TInv, TCore, TTypes
<1>5. StartsFirst' /\ CloserAt' /\ OwnerRuns'
  BY <1>1 DEF TInv, TCore, StartsFirst, CloserAt, OwnerRuns, vars
<1>6. Unbegun'
  BY <1>1, <1>2 DEF TInv, TCore, Unbegun
<1>7. StartedOnce'
  BY <1>1, <1>2 DEF TInv, TCore, StartedOnce, Starting
<1>8. TableReads'
  <2>1. \A k \in DOMAIN workers : proxies'[workers[k]] = proxies[workers[k]]
    BY <1>2, <1>3
  <2> QED
    BY <1>1, <2>1 DEF TInv, TCore, TableReads, Pending, Starting
<1>9. ItemsServed'
  BY <1>1 DEF TInv, TCore, ItemsServed, Live, KeyAt, Pending, vars
<1> QED
  BY <1>4, <1>5, <1>6, <1>7, <1>8, <1>9 DEF TCore

----
(* App.Close and unwind.                                                   *)

\* The closer's steps: the state goes on as it was, Close's program shrinks,
\* and what is left of it is waiting.
LEMMA CloserKeeps ==
  ASSUME TInv, UNCHANGED <<ext, rel, run, workers>>, workers = [k \in {} |-> 1],
         proxies' \in [ProxyIds -> ProxyTypes],
         \A p \in ProxyIds : /\ proxies'[p].key = proxies[p].key /\ proxies'[p].errs = proxies[p].errs
                             /\ proxies'[p].status = "none" <=> proxies[p].status = "none"
                             /\ proxies[p].status \in {"new", "closed"} => proxies'[p].status \in {"new", "closed"},
         app' \in {"closing", "cancelled", "done"},
         todo' \in [Threads -> Seq(Ops)], StartsFirst', \A u \in Threads \ {Closer} : todo'[u] = todo[u],
         \A i \in DOMAIN todo'[Closer] : todo'[Closer][i].op \in {"wait", "cancel", "ended"}
  PROVE  TCore'
<1>1. TTypes'
  BY DEF TInv, TCore, TTypes
<1>2. CloserAt' /\ OwnerRuns' /\ ItemsServed'
  BY DEF CloserAt, OwnerRuns, ItemsServed
<1>3. Unbegun'
  <2>1. run' = "choose" => todo'[Main] = <<>>
    BY ThreadNames DEF TInv, TCore, Unbegun
  <2>2. ASSUME NEW p \in ProxyIds, NEW n \in 1..MaxErrors, n > proxies'[p].errs PROVE todo'[Drop(p, n)] = <<>>
    <3>1. todo[Drop(p, n)] = <<>>
      BY <2>2 DEF TInv, TCore, Unbegun
    <3>2. Drop(p, n) \in Threads \ {Closer}
      BY ThreadNames
    <3> QED
      BY <3>1, <3>2
  <2>3. \A p \in ProxyIds : proxies'[p].status = "none" => proxies'[p].errs = 0
    BY DEF TInv, TCore, Unbegun
  <2> QED
    BY <2>1, <2>2, <2>3 DEF Unbegun
<1>4. \A p : ~Starting(Closer, p)'
  <2> SUFFICES ASSUME NEW p, Starting(Closer, p)' PROVE FALSE
    OBVIOUS
  <2>1. todo'[Closer] \in Seq(Ops) /\ todo'[Closer] # <<>> /\ Head(todo'[Closer]) = OnProxy("start", p)
    BY ThreadNames DEF Starting
  <2>2. 1 \in DOMAIN todo'[Closer] /\ Head(todo'[Closer]) = todo'[Closer][1]
    BY <2>1, EmptySeq, LenProperties
  <2> QED
    BY <2>1, <2>2 DEF OnProxy
<1>5. \A u \in Threads \ {Closer} : \A p : Starting(u, p)' <=> Starting(u, p)
  BY DEF Starting
<1>6. StartedOnce'
  BY <1>4, <1>5 DEF TInv, TCore, StartedOnce
<1>7. TableReads'
  BY DEF TableReads
<1> QED
  BY <1>1, <1>2, <1>3, <1>6, <1>7 DEF TCore

\* Close's goroutine comes to an operation that only it runs.
LEMMA ClosingKeeps ==
  ASSUME TInv, UNCHANGED <<vars, ext, rel, run, proxies, workers>>, app' = "closing",
         NEW op \in {"close-server", "stop-workers"}, todo' = [todo EXCEPT ![Closer] = <<Plain(op)>>],
         \A i \in DOMAIN todo[Closer] : todo[Closer][i].op \in PlainOps
  PROVE  TCore'
<1> DEFINE s == <<Plain(op)>>
<1>1. s \in Seq(Ops) /\ DOMAIN s = {1} /\ s[1].op = op /\ s # <<>> /\ Head(s) = s[1]
  <2>1. Plain(op) \in Ops /\ Plain(op).op = op
    BY OpTypes DEF PlainOps
  <2> QED
    BY <2>1
<1>2. /\ todo \in [Threads -> Seq(Ops)] /\ todo'[Closer] = s /\ todo' \in [Threads -> Seq(Ops)]
      /\ \A u \in Threads \ {Closer} : todo'[u] = todo[u]
  BY <1>1, ThreadNames DEF TInv, TCore, TTypes
<1>3. todo'[Closer] = <<Plain(op)>>
  BY <1>2
<1> HIDE DEF s
<1>4. StartsFirst'
  BY <1>1, <1>2 DEF TInv, TCore, StartsFirst
<1>5. ASSUME NEW p PROVE ~Starting(Closer, p)' /\ ~Starting(Closer, p)
  <2>1. ~Starting(Closer, p)'
    BY <1>1, <1>2 DEF Starting, OnProxy
  <2>2. ASSUME Starting(Closer, p) PROVE FALSE
    <3>1. todo[Closer] \in Seq(Ops) /\ todo[Closer] # <<>> /\ Head(todo[Closer]) = OnProxy("start", p)
      BY <1>2, <2>2, ThreadNames DEF Starting
    <3>2. 1 \in DOMAIN todo[Closer] /\ Head(todo[Closer]) = todo[Closer][1]
      BY <3>1, EmptySeq, LenProperties
    <3> QED
      BY <3>1, <3>2 DEF OnProxy, PlainOps
  <2> QED
    BY <2>1, <2>2
<1>6. ASSUME NEW u \in Threads, NEW p PROVE Starting(u, p)' <=> Starting(u, p)
  BY <1>2, <1>5 DEF Starting
<1>7. ASSUME NEW k, Pending("delete", k) PROVE Pending("delete", k)'
  <2>1. PICK u \in Threads : \E i \in DOMAIN todo[u] : todo[u][i] = OnKey("delete", k)
    BY <1>7 DEF Pending
  <2>2. u # Closer
    BY <2>1 DEF OnKey, PlainOps
  <2> QED
    BY <1>2, <2>1, <2>2 DEF Pending
<1>8. TTypes'
  BY <1>2 DEF TInv, TCore, TTypes
<1>9. CloserAt' /\ OwnerRuns' /\ ItemsServed'
  BY <1>3 DEF CloserAt, OwnerRuns, ItemsServed
<1>10. Unbegun'
  BY <1>2, ThreadNames DEF TInv, TCore, Unbegun
<1>11. StartedOnce'
  BY <1>6 DEF TInv, TCore, StartedOnce
<1>12. TableReads'
  <2> SUFFICES ASSUME NEW j \in DOMAIN workers', NEW q, q = workers'[j]
               PROVE  /\ proxies'[q].key = j
                      /\ proxies'[q].status \in {"new", "running"}
                      /\ proxies'[q].status = "new" =>
                            Pending("delete", j)' \/ \E u \in Threads : Starting(u, q)'
    BY DEF TableReads, Starting
  <2>1. j \in DOMAIN workers /\ q = workers[j]
    OBVIOUS
  <2> QED
    BY <1>6, <1>7, <2>1 DEF TInv, TCore, TableReads
<1> QED
  BY <1>4, <1>8, <1>9, <1>10, <1>11, <1>12 DEF TCore

\* SIGINT, Close, and the end of the presenter server.
LEMMA CloseKeeps ==
  ASSUME TInv, Interrupt \/ CloseApp \/ serverClosed
  PROVE  TCore'
<1>0. /\ UNCHANGED <<vars, ext, rel, run, proxies, workers>>
      /\ rel \in Relations /\ ext \in [up : BOOLEAN, items : SUBSET Addresses, starts : Nat]
      /\ todo \in [Threads -> Seq(Ops)]
      /\ run = "choose" => todo[Main] = <<>>
  BY DEF Interrupt, CloseApp, serverClosed, AppOnly, watcherVars, TInv, TCore, TTypes, Unbegun
<1>1. CASE Interrupt
  <2>1. UNCHANGED <<todo, app>>
    BY <1>1 DEF Interrupt
  <2> QED
    BY <1>0, <2>1, QuietThreads
<1>2. CASE CloseApp
  <2>1. todo[Closer] = <<>>
    BY <1>2 DEF CloseApp, TInv, TCore, CloserAt
  <2>2. app' = "closing" /\ todo' = [todo EXCEPT ![Closer] = <<Plain("close-server")>>]
    BY <1>2 DEF CloseApp
  <2> QED
    BY <1>0, <2>1, <2>2, ClosingKeeps
<1>3. CASE serverClosed
  <2> DEFINE s == <<Plain("stop-workers")>>
             was == <<Plain("close-server")>>
  <2>1. ~Idle(Closer) /\ Op(Closer).op = "close-server" /\ UNCHANGED app
    BY <1>3 DEF serverClosed, At, appVars
  <2>2. app = "closing" /\ todo[Closer] = was
    BY <1>0, <2>1, CloserProgram DEF TInv, TCore
  <2>3. todo' = [todo EXCEPT ![Closer] = s \o Tail(was)]
    BY <1>3, <2>2 DEF serverClosed, Continue
  <2>4. s \o Tail(was) = s
    OBVIOUS
  <2>5. \A i \in DOMAIN todo[Closer] : todo[Closer][i].op \in PlainOps
    BY <2>2 DEF Plain, PlainOps
  <2> QED
    BY <1>0, <2>1, <2>2, <2>3, <2>4, <2>5, ClosingKeeps
<1> QED
  BY <1>1, <1>2, <1>3

\* stopWorkers empties the table and tells its proxies to stop.
LEMMA StopWorkersKeeps ==
  ASSUME TInv, stopWorkers
  PROVE  TCore'
<1> DEFINE stopped == {workers[k] : k \in DOMAIN workers}
<1>1. /\ ~Idle(Closer) /\ Op(Closer).op = "stop-workers" /\ UNCHANGED <<vars, ext, rel, run, app>>
      /\ workers' = [k \in {} |-> 1]
      /\ proxies' = [p \in ProxyIds |->
                       IF p \in stopped THEN [proxies[p] EXCEPT !.status = Stopped(@)] ELSE proxies[p]]
  BY DEF stopWorkers, At, AppOnly, watcherVars, appVars
<1>2. PICK s \in SetToSeqs(stopped) : Continue(Closer, [i \in DOMAIN s |-> OnProxy("wait", s[i])] \o <<Plain("cancel")>>)
  BY DEF stopWorkers
<1>3. stopped \in SUBSET ProxyIds /\ IsFiniteSet(stopped)
  <2>1. stopped \in SUBSET ProxyIds
    BY AtHand
  <2>2. IsFiniteSet(ProxyIds)
    <3>1. MaxRelations * MaxGeneration \in Int /\ 1 \in Int
      BY TrayAssumption, BoundsAssumption
    <3> QED
      BY <3>1, FS_Interval DEF ProxyIds
  <2> QED
    BY <2>1, <2>2, FS_Subset
<1> DEFINE w == [i \in DOMAIN s |-> OnProxy("wait", s[i])]
           more == w \o <<Plain("cancel")>>
<1>4. w \in Seq(Ops) /\ \A i \in DOMAIN w : w[i].op = "wait"
  <2>1. s \in Seq(stopped) /\ DOMAIN s = 1..Len(s) /\ Len(s) \in Nat
    BY <1>3, SeqsOf
  <2>2. \A i \in 1..Len(s) : s[i] \in ProxyIds
    BY <1>3, <2>1
  <2>3. \A i \in 1..Len(s) : OnProxy("wait", s[i]) \in Ops /\ OnProxy("wait", s[i]).op = "wait"
    BY <2>2, OpTypes DEF ProxyOps
  <2>4. w \in [1..Len(s) -> Ops] /\ \A i \in DOMAIN w : w[i].op = "wait"
    BY <2>1, <2>3
  <2> QED
    BY <2>1, <2>4, SeqDef
<1> HIDE DEF stopped, w
<1>5. /\ more \in Seq(Ops) /\ \A i \in DOMAIN more : more[i].op \in {"wait", "cancel"}
  <2>1. Plain("cancel") \in Ops /\ Plain("cancel").op = "cancel"
    BY OpTypes DEF PlainOps
  <2>2. <<Plain("cancel")>> \in Seq(Ops) /\ Len(<<Plain("cancel")>>) = 1
    BY <2>1
  <2>3. /\ more \in Seq(Ops) /\ Len(more) = Len(w) + 1
        /\ \A i \in 1..(Len(w) + 1) : more[i] = IF i <= Len(w) THEN w[i] ELSE <<Plain("cancel")>>[i - Len(w)]
    BY <1>4, <2>2, ConcatProperties
  <2>4. DOMAIN w = 1..Len(w) /\ Len(w) \in Nat /\ DOMAIN more = 1..(Len(w) + 1)
    BY <1>4, <2>3, LenProperties
  <2> HIDE DEF more
  <2>5. ASSUME NEW i \in DOMAIN more PROVE more[i].op \in {"wait", "cancel"}
    <3>1. CASE i <= Len(w)
      BY <1>4, <2>3, <2>4, <3>1
    <3>2. CASE i > Len(w)
      <4>1. i = Len(w) + 1 /\ more[i] = <<Plain("cancel")>>[1]
        BY <2>3, <2>4, <3>2
      <4> QED
        BY <2>1, <4>1
    <3> QED
      BY <2>4, <3>1, <3>2
  <2> QED
    BY <2>3, <2>5
<1> HIDE DEF more
<1>6. Continue(Closer, more)
  BY <1>2 DEF more, w
<1>7. /\ todo' \in [Threads -> Seq(Ops)] /\ StartsFirst'
      /\ todo'[Closer] = more \o Tail(todo[Closer])
      /\ \A u \in Threads \ {Closer} : todo'[u] = todo[u]
  BY <1>1, <1>5, <1>6, ThreadNames, ContinueFacts DEF TInv, TCore, TTypes
<1>8. app = "closing" /\ todo'[Closer] = more
  <2>1. app = "closing" /\ todo[Closer] = <<Plain("stop-workers")>>
    BY <1>1, CloserProgram DEF TInv, TCore, TTypes
  <2>2. Tail(todo[Closer]) = <<>>
    BY <2>1
  <2> QED
    BY <1>5, <1>7, <2>1, <2>2, ConcatEmptySeq
<1>9. /\ proxies' \in [ProxyIds -> ProxyTypes]
      /\ \A p \in ProxyIds : /\ proxies'[p].key = proxies[p].key /\ proxies'[p].errs = proxies[p].errs
                             /\ proxies'[p].status = "none" <=> proxies[p].status = "none"
                             /\ proxies[p].status \in {"new", "closed"} => proxies'[p].status \in {"new", "closed"}
  BY <1>1, <1>3, ClosedProxies
<1>10. TTypes'
  <2>1. workers' \in [{} -> ProxyIds] /\ {} \in SUBSET Keys
    BY <1>1
  <2>2. workers' \in Workers
    BY <2>1 DEF Workers
  <2>3. \A p \in ProxyIds : proxies'[p].status # "none" => proxies'[p].key \in Keys
    BY <1>9 DEF TInv, TCore, TTypes
  <2>4. ext' = ext /\ rel' = rel
    BY <1>1
  <2> QED
    BY <1>7, <1>9, <2>2, <2>3, <2>4 DEF TInv, TCore, TTypes
<1>11. CloserAt' /\ OwnerRuns' /\ ItemsServed'
  BY <1>1, <1>5, <1>8 DEF CloserAt, OwnerRuns, ItemsServed
<1>12. Unbegun'
  <2>1. run' = "choose" => todo'[Main] = <<>>
    BY <1>1, <1>7, ThreadNames DEF TInv, TCore, Unbegun
  <2>2. ASSUME NEW p \in ProxyIds, NEW n \in 1..MaxErrors, n > proxies'[p].errs PROVE todo'[Drop(p, n)] = <<>>
    <3>1. todo[Drop(p, n)] = <<>>
      BY <1>9, <2>2 DEF TInv, TCore, Unbegun
    <3>2. Drop(p, n) \in Threads \ {Closer}
      BY ThreadNames
    <3> QED
      BY <1>7, <3>1, <3>2
  <2>3. \A p \in ProxyIds : proxies'[p].status = "none" => proxies'[p].errs = 0
    BY <1>9 DEF TInv, TCore, Unbegun
  <2> QED
    BY <2>1, <2>2, <2>3 DEF Unbegun
<1>13. StartedOnce'
  <2>1. \A p : ~Starting(Closer, p)'
    <3>1. more # <<>> => 1 \in DOMAIN more /\ Head(more) = more[1]
      BY <1>5, EmptySeq, LenProperties
    <3> QED
      BY <1>5, <1>8, <3>1 DEF Starting, OnProxy
  <2>2. \A u \in Threads \ {Closer} : \A p : Starting(u, p)' <=> Starting(u, p)
    BY <1>7 DEF Starting
  <2> QED
    BY <1>9, <2>1, <2>2 DEF TInv, TCore, StartedOnce
<1>14. TableReads'
  BY <1>1 DEF TableReads
<1> QED
  BY <1>7, <1>10, <1>11, <1>12, <1>13, <1>14 DEF TCore

\* cancel, and unwind once Run has returned.
LEMMA UnwoundKeeps ==
  ASSUME TInv, cancel \/ unwound
  PROVE  TCore'
<1>1. PICK more \in {<<>>, <<Plain("ended")>>} :
         /\ ~Idle(Closer) /\ Op(Closer).op \in {"cancel", "ended"} /\ Continue(Closer, more)
         /\ UNCHANGED <<ext, rel, run, proxies, workers>> /\ app' \in {"cancelled", "done"}
  BY DEF cancel, unwound, At, AppOnly, watcherVars
<1>2. more \in Seq(Ops) /\ \A i \in DOMAIN more : more[i].op = "ended"
  <2>1. Plain("ended") \in Ops /\ Plain("ended").op = "ended"
    BY OpTypes DEF PlainOps
  <2>2. CASE more = <<>>
    BY <2>2
  <2>3. CASE more = <<Plain("ended")>>
    BY <2>1, <2>3
  <2> QED
    BY <1>1, <2>2, <2>3
<1>3. /\ todo' \in [Threads -> Seq(Ops)] /\ StartsFirst'
      /\ todo'[Closer] = more \o Tail(todo[Closer])
      /\ \A u \in Threads \ {Closer} : todo'[u] = todo[u]
  BY <1>1, <1>2, ThreadNames, ContinueFacts DEF TInv, TCore, TTypes
<1> DEFINE s == todo[Closer]
           r == todo'[Closer]
<1>4. /\ workers = [k \in {} |-> 1] /\ \A i \in DOMAIN s : s[i].op \in {"wait", "cancel", "ended"}
      /\ s \in Seq(Ops) /\ s # <<>>
  BY <1>1, CloserProgram, ThreadNames DEF TInv, TCore, TTypes, Idle
<1>5. /\ r \in Seq(Ops) /\ DOMAIN r = 1..Len(r) /\ DOMAIN s = 1..Len(s) /\ DOMAIN more = 1..Len(more)
      /\ \A i \in 1..Len(more) : r[i] = more[i]
      /\ \A j \in 1..Len(r) : j > Len(more) => r[j] = s[j - Len(more) + 1] /\ j - Len(more) + 1 \in 2..Len(s)
  <2> HIDE DEF s, r
  <2>1. r = more \o Tail(s)
    BY <1>3 DEF s, r
  <2>2. /\ r \in Seq(Ops)
        /\ \A i \in 1..Len(more) : r[i] = more[i] /\ i \in 1..Len(r)
        /\ \A j \in 1..Len(r) : j > Len(more) => r[j] = s[j - Len(more) + 1] /\ j - Len(more) + 1 \in 2..Len(s)
    BY <1>2, <1>4, <2>1, Replaced
  <2> QED
    BY <1>2, <1>4, <2>2, LenProperties
<1>6. \A i \in DOMAIN r : r[i].op \in {"wait", "cancel", "ended"}
  <2> HIDE DEF s, r
  <2> SUFFICES ASSUME NEW i \in DOMAIN r PROVE r[i].op \in {"wait", "cancel", "ended"}
    OBVIOUS
  <2>0. i \in Int /\ Len(more) \in Nat /\ Len(r) \in Nat
    BY <1>2, <1>5, LenProperties
  <2>1. CASE i <= Len(more)
    <3>1. i \in DOMAIN more /\ r[i] = more[i]
      BY <1>5, <2>0, <2>1
    <3> QED
      BY <1>2, <3>1
  <2>2. CASE i > Len(more)
    <3>1. r[i] = s[i - Len(more) + 1] /\ i - Len(more) + 1 \in DOMAIN s
      BY <1>2, <1>4, <1>5, <2>0, <2>2, LenProperties
    <3> QED
      BY <1>4, <3>1
  <2> QED
    BY <2>0, <2>1, <2>2
<1> QED
  BY <1>1, <1>3, <1>4, <1>6, CloserKeeps DEF TInv, TCore, TTypes

\* The owner's goroutine returns.
LEMMA ExitKeeps ==
  ASSUME TInv, OwnerExit
  PROVE  TCore'
<1>1. /\ UNCHANGED <<ext, rel, run, todo, proxies, workers, app>> /\ app # "running"
  BY DEF OwnerExit, Exit, AppOnly, watcherVars, appVars, TInv, TCore, OwnerRuns
<1>2. TTypes' /\ StartsFirst' /\ CloserAt' /\ Unbegun' /\ OwnerRuns' /\ ItemsServed'
  BY <1>1 DEF TInv, TCore, TTypes, StartsFirst, CloserAt, Unbegun, OwnerRuns, ItemsServed
<1>3. StartedOnce' /\ TableReads'
  BY <1>1 DEF TInv, TCore, StartedOnce, TableReads, Starting, Pending
<1> QED
  BY <1>2, <1>3 DEF TCore

----
(* The invariant, and the owner behind it.                                 *)

\* A step of the daemon is a step of the state owner, or none.
LEMMA TrayStepsOwner ==
  ASSUME TInv, [TNext]_tvars
  PROVE  [Next]_vars
<1>1. ASSUME NEW t \in Threads, ItemAddedCall(t) \/ retire(t) PROVE [Next]_vars
  <2>1. Op(t).key \in Keys
    BY <1>1, AtHand DEF ItemAddedCall, retire, At, KeyOps
  <2> QED
    BY <1>1, <2>1 DEF ItemAddedCall, retire, OwnerAdd, OwnerRemove, Next
<1>2. ASSUME NEW t \in Threads, Step(t) PROVE [Next]_vars
  BY <1>1, <1>2 DEF Step, register, clientAdd, clientRemove, insert, start, dropWorker, waitProxy
<1>3. ASSUME pump \/ Relationship \/ Bus PROVE [Next]_vars
  BY <1>3 DEF pump, Relationship, Serve, attach, list, attached, lost, closeRelation, again, Quiet,
              Bus, BusOnly, OwnerLeaves, CallRegister, WatcherStarts, WatcherLeaves, WatcherReplaced,
              WatcherAdds, WatcherRemoves
<1>4. ASSUME NEW p \in ProxyIds, NEW item \in Items, onItem(p, item) PROVE [Next]_vars
  <2>1. Update(proxies[p].key, item) /\ proxies[p].key \in Keys
    BY <1>4 DEF onItem, Reading, TInv, TCore, TTypes
  <2> QED
    BY <2>1 DEF Next
<1>5. ASSUME NEW p \in ProxyIds, onItemErr(p) \/ OwnerLost(p) \/ ProxyStops(p) PROVE [Next]_vars
  BY <1>5 DEF onItemErr, OwnerLost, ProxyStops
<1>6. ASSUME Interrupt \/ CloseApp \/ serverClosed \/ Unwind \/ OwnerExit PROVE [Next]_vars
  BY <1>6 DEF Interrupt, CloseApp, serverClosed, Unwind, stopWorkers, cancel, unwound, OwnerExit, Next
<1>7. CASE UNCHANGED tvars
  BY <1>7 DEF tvars
<1> QED
  BY <1>2, <1>3, <1>4, <1>5, <1>6, <1>7 DEF TNext

\* The daemon starts in it.
LEMMA InitTInv ==
  ASSUME TInit
  PROVE  TInv
<1>1. Inv
  BY InitInv DEF TInit
<1>2. /\ ext = [up |-> FALSE, items |-> {}, starts |-> 0] /\ rel = NoRelation
      /\ todo = [t \in Threads |-> <<>>] /\ proxies = [p \in ProxyIds |-> [key |-> NoKey, status |-> "none", errs |-> 0]]
      /\ workers = [k \in {} |-> 1] /\ app = "running" /\ phase = "running"
      /\ Live = {}
  BY DEF TInit, Init, NoWatcher, NoKey, Live
<1>3. rel \in Relations
  <2>1. [a \in {} |-> 1] \in [{} -> Generations] /\ {} \in SUBSET Addresses
    OBVIOUS
  <2>2. [a \in {} |-> 1] \in Registries
    BY <2>1 DEF Registries
  <2>3. 0 \in 0..MaxGeneration /\ <<>> \in Seq(Signals)
    BY BoundsAssumption
  <2> DEFINE g == [a \in {} |-> 1]
  <2> HIDE DEF g
  <2>4. rel = [mode |-> "none", registry |-> g, generation |-> 0, signals |-> <<>>, gone |-> FALSE]
    BY <1>2 DEF NoRelation, g
  <2>5. g \in Registries
    BY <2>2 DEF g
  <2> QED
    BY <2>3, <2>4, <2>5 DEF Relations
<1>4. TTypes
  <2>1. ext \in [up : BOOLEAN, items : SUBSET Addresses, starts : Nat]
    BY <1>2
  <2>2. todo \in [Threads -> Seq(Ops)]
    BY <1>2
  <2>3. [key |-> NoKey, status |-> "none", errs |-> 0] \in ProxyTypes
    BY TrayAssumption DEF ProxyTypes
  <2>4. proxies \in [ProxyIds -> ProxyTypes] /\ \A p \in ProxyIds : proxies[p].status = "none" /\ proxies[p].errs = 0
    BY <1>2, <2>3
  <2>5. workers \in [{} -> ProxyIds] /\ {} \in SUBSET Keys
    BY <1>2
  <2>6. workers \in Workers
    BY <2>5 DEF Workers
  <2> QED
    BY <1>3, <2>1, <2>2, <2>4, <2>6 DEF TTypes
<1>5. StartsFirst /\ CloserAt
  BY <1>2, ThreadNames DEF StartsFirst, CloserAt
<1>6. Unbegun
  BY <1>2, ThreadNames DEF Unbegun
<1>7. StartedOnce
  BY <1>2 DEF StartedOnce, Starting
<1>8. TableReads /\ ItemsServed /\ OwnerRuns
  BY <1>2 DEF TableReads, ItemsServed, OwnerRuns
<1> QED
  BY <1>1, <1>4, <1>5, <1>6, <1>7, <1>8 DEF TInv, TCore

\* Every step keeps it.
LEMMA NextTInv ==
  ASSUME TInv, [TNext]_tvars
  PROVE  TInv'
<1>1. Inv'
  BY TrayStepsOwner, NextInv DEF TInv
<1> SUFFICES TCore'
  BY <1>1 DEF TInv
<1>2. ASSUME NEW t \in Threads, Step(t) PROVE TCore'
  BY <1>2, RegistryKeeps, ItemAddedKeeps, InsertKeeps, StartKeeps, DropKeeps, WaitKeeps, RetireKeeps DEF Step
<1>3. ASSUME pump \/ Relationship \/ Bus PROVE TCore'
  BY <1>3, PumpKeeps, RelationshipKeeps, BusKeeps
<1>4. ASSUME NEW p \in ProxyIds, NEW item \in Items, onItem(p, item) PROVE TCore'
  BY <1>4, ReadingKeeps
<1>5. ASSUME NEW p \in ProxyIds, onItemErr(p) \/ OwnerLost(p) \/ ProxyStops(p) PROVE TCore'
  BY <1>5, FailedReadKeeps, ProxyStopsKeeps DEF OwnerLost
<1>6. ASSUME Interrupt \/ CloseApp \/ serverClosed \/ Unwind \/ OwnerExit PROVE TCore'
  BY <1>6, CloseKeeps, StopWorkersKeeps, UnwoundKeeps, ExitKeeps DEF Unwind
<1>7. CASE UNCHANGED tvars
  <2>1. /\ UNCHANGED <<vars, ext, rel, run, todo, proxies, workers, app>>
    BY <1>7 DEF tvars, watcherVars, appVars
  <2>2. /\ ext \in [up : BOOLEAN, items : SUBSET Addresses, starts : Nat] /\ rel \in Relations
        /\ run = "choose" => todo[Main] = <<>>
    BY DEF TInv, TCore, TTypes, Unbegun
  <2>3. /\ ext' \in [up : BOOLEAN, items : SUBSET Addresses, starts : Nat] /\ rel' \in Relations
        /\ run' = "choose" => todo[Main] = <<>>
    BY <2>1, <2>2
  <2> QED
    BY <2>1, <2>3, QuietThreads
<1>8. CASE TNext
  <2> HIDE DEF TCore, TInv
  <2>1. CASE \E t \in Threads : Step(t)
    BY <1>2, <2>1
  <2>2. CASE \E p \in ProxyIds : \E item \in Items : onItem(p, item)
    BY <1>4, <2>2
  <2>3. CASE \E p \in ProxyIds : onItemErr(p) \/ OwnerLost(p) \/ ProxyStops(p)
    BY <1>5, <2>3
  <2> QED
    BY <1>3, <1>6, <1>8, <2>1, <2>2, <2>3 DEF TNext
<1> QED
  BY <1>7, <1>8

\* The inductive invariant of the daemon.
THEOREM TrayInvariant == TSpec => []TInv
<1>1. TInit => TInv
  BY InitTInv
<1>2. TInv /\ [TNext]_tvars => TInv'
  BY NextTInv
<1> QED
  BY <1>1, <1>2, PTL DEF TSpec

\* What the daemon does to the state owner are the owner's own steps: what
\* StateOwnerProofs proves of the owner holds in the daemon.
THEOREM TrayOwnerIsOwner == TSpec => Spec
<1>1. TInit => Init
  BY DEF TInit
<1>2. TInv /\ [TNext]_tvars => [Next]_vars
  BY TrayStepsOwner
<1> QED
  BY <1>1, <1>2, TrayInvariant, PTL DEF TSpec, Spec

\* App keeps the owner's items and its table of workers in step: an item in
\* the state has a worker that reads it, or a thread is about to give it one
\* or to retire it (ItemAdded, ItemRemoved, dropWorker).
THEOREM TrayNoOrphanItem == TSpec => []NoOrphanItem
<1>1. ASSUME TInv PROVE NoOrphanItem
  <2> SUFFICES ASSUME app = "running", NEW a \in Live,
                      ~\E op \in {"insert", "removed", "delete", "retire"} : Pending(op, KeyAt(a))
               PROVE  /\ KeyAt(a) \in DOMAIN workers
                      /\ \/ Reading(workers[KeyAt(a)])
                         \/ \E t \in Threads : todo[t] # <<>> /\ Op(t) = OnProxy("start", workers[KeyAt(a)])
    BY DEF NoOrphanItem
  <2>1. KeyAt(a) \in DOMAIN workers
    BY <1>1 DEF TInv, TCore, ItemsServed, Repairs
  <2>2. /\ proxies[workers[KeyAt(a)]].status \in {"new", "running"}
        /\ proxies[workers[KeyAt(a)]].status = "new" => \E t \in Threads : Starting(t, workers[KeyAt(a)])
    BY <1>1, <2>1 DEF TInv, TCore, TableReads
  <2> QED
    BY <2>1, <2>2 DEF Reading, Starting, Op
<1>2. TInv => NoOrphanItem
  BY <1>1
<1> QED
  BY <1>2, TrayInvariant, PTL

\* Once stopWorkers has emptied the table no late ItemAdded puts a worker in
\* it again (App.closing is looked at again under the lock).
THEOREM TrayNoWorkerAfterStop == TSpec => []NoWorkerAfterStop
<1>1. TInv => NoWorkerAfterStop
  BY DEF TInv, TCore, CloserAt, NoWorkerAfterStop
<1> QED
  BY <1>1, TrayInvariant, PTL

====
