---- MODULE StateOwnerProofs ----
(***************************************************************************)
(* Proofs that StateOwner keeps its invariants for every set of addresses, *)
(* items, menus and sinks and every bound.  The inductive invariant is the *)
(* conjunction of the checked invariants: SinkConverges needs OrderExact   *)
(* (a snapshot lists every published item) and MenuAfterItem (an item that *)
(* is retired without an event has left nothing in the view).  The action  *)
(* property EventsAreChanges and the refinement of Feed follow from it and *)
(* from Explains, what each command shows of the delta it publishes.       *)
(***************************************************************************)
EXTENDS StateOwner, FiniteSetTheorems, TLAPS

Inv == TypeOK /\ OrderExact /\ ItemCap /\ MenuAfterItem /\ SinkConverges

Distinct(s) == \A i, j \in DOMAIN s : s[i] = s[j] => i = j
Elements(s) == {s[i] : i \in DOMAIN s}

\* Cutting an element out of a list without repetitions leaves such a list
\* of the other elements (the loop of retire).
LEMMA CutDistinct ==
  ASSUME NEW S, NEW s \in Seq(S), Distinct(s), NEW e \in Elements(s)
  PROVE  LET t == Splice(s, FirstIndex(s, e))
         IN  t \in Seq(S) /\ Distinct(t) /\ Elements(t) = Elements(s) \ {e}
<1> DEFINE k == FirstIndex(s, e)
           t == Splice(s, k)
<1>1. \E i \in 1..Len(s) : s[i] = e /\ \A j \in 1..(i - 1) : s[j] # e
  <2>1. PICK i \in 1..Len(s) : s[i] = e
    BY DEF Elements
  <2>2. \A j \in 1..(i - 1) : s[j] # e
    BY <2>1 DEF Distinct
  <2> QED
    BY <2>1, <2>2
<1>2. k \in 1..Len(s) /\ s[k] = e
  BY <1>1 DEF FirstIndex
<1> HIDE DEF k
<1>3. /\ Len(s) \in Nat /\ DOMAIN s = 1..Len(s) /\ \A i \in 1..Len(s) : s[i] \in S
      /\ Len(s) - 1 \in Nat
  BY <1>2
<1>4. t = [j \in 1..(Len(s) - 1) |-> IF j < k THEN s[j] ELSE s[j + 1]]
  BY DEF Splice
<1> HIDE DEF t
<1>5. t \in Seq(S) /\ DOMAIN t = 1..(Len(s) - 1)
  <2>1. t \in [1..(Len(s) - 1) -> S]
    BY <1>2, <1>3, <1>4
  <2> QED
    BY <1>3, <2>1
<1>6. Distinct(t)
  <2> SUFFICES ASSUME NEW i \in 1..(Len(s) - 1), NEW j \in 1..(Len(s) - 1), t[i] = t[j]
               PROVE  i = j
    BY <1>5 DEF Distinct
  <2>1. \A p, q \in 1..Len(s) : s[p] = s[q] => p = q
    BY <1>3 DEF Distinct
  <2>2. i \in 1..Len(s) /\ i + 1 \in 1..Len(s) /\ j \in 1..Len(s) /\ j + 1 \in 1..Len(s)
    BY <1>3
  <2>3. CASE i < k /\ j < k
    BY <1>4, <2>1, <2>2, <2>3
  <2>4. CASE i < k /\ ~(j < k)
    BY <1>2, <1>4, <2>1, <2>2, <2>4
  <2>5. CASE ~(i < k) /\ j < k
    BY <1>2, <1>4, <2>1, <2>2, <2>5
  <2>6. CASE ~(i < k) /\ ~(j < k)
    BY <1>4, <2>1, <2>2, <2>6
  <2> QED
    BY <2>3, <2>4, <2>5, <2>6
<1>7. Elements(t) \subseteq Elements(s) \ {e}
  BY <1>2, <1>3, <1>4, <1>5 DEF Distinct, Elements
<1>8. ASSUME NEW x \in Elements(s), x # e
      PROVE  x \in Elements(t)
  <2>1. PICK i \in 1..Len(s) : s[i] = x
    BY <1>3 DEF Elements
  <2>2. CASE i < k
    <3>1. i \in 1..(Len(s) - 1) /\ t[i] = x
      BY <1>2, <1>3, <1>4, <2>1, <2>2
    <3> QED
      BY <1>5, <3>1 DEF Elements
  <2>3. CASE i > k
    <3>1. i - 1 \in 1..(Len(s) - 1) /\ t[i - 1] = x
      BY <1>2, <1>3, <1>4, <2>1, <2>3
    <3> QED
      BY <1>5, <3>1 DEF Elements
  <2> QED
    BY <1>2, <1>8, <2>1, <2>2, <2>3
<1> QED
  BY <1>5, <1>6, <1>7, <1>8 DEF t, k

\* Appending a new element keeps a list free of repetitions (Add).
LEMMA AppendDistinct ==
  ASSUME NEW S, NEW s \in Seq(S), Distinct(s), NEW e \in S, e \notin Elements(s)
  PROVE  /\ Append(s, e) \in Seq(S)
         /\ Distinct(Append(s, e))
         /\ Elements(Append(s, e)) = Elements(s) \cup {e}
<1> DEFINE t == Append(s, e)
<1>1. /\ t \in Seq(S) /\ Len(s) \in Nat
      /\ DOMAIN s = 1..Len(s) /\ DOMAIN t = 1..(Len(s) + 1)
      /\ \A i \in 1..Len(s) : t[i] = s[i]
      /\ t[Len(s) + 1] = e
  OBVIOUS
<1> HIDE DEF t
<1>2. Distinct(t)
  BY <1>1 DEF Distinct, Elements
<1>3. Elements(t) = Elements(s) \cup {e}
  BY <1>1 DEF Elements
<1> QED
  BY <1>1, <1>2, <1>3 DEF t

----
(* publish *)

Deltas ==
    {NoDelta}
    \cup [kind : {"item-added", "item-changed"}, key : Keys, value : Items]
    \cup [kind : {"item-removed"}, key : Keys, value : {Absent}]
    \cup [kind : {"menu-updated"}, key : Keys, value : Menus]

\* The view stays well typed under every delta.
LEMMA ApplyType ==
  ASSUME NEW v \in Views, NEW d \in Deltas, d # NoDelta, v.sequence < MaxSequence
  PROVE  Apply(v, d) \in Views
<1>1. v.sequence + 1 \in 0..MaxSequence
  BY BoundsAssumption DEF Views
<1>2. ApplyItems(v.items, d) \in SUBSET [key : Keys, item : Items]
  BY DEF Views, Deltas, ApplyItems, Without
<1>3. ApplyMenus(v.menus, d) \in SUBSET [key : Keys, menu : Menus]
  BY DEF Views, Deltas, ApplyMenus, Without
<1> QED
  BY <1>1, <1>2, <1>3 DEF Apply, Views

\* What a command must show about its delta for publish to keep the types
\* and the sink's view in step with the items: an event that is sent changes
\* the published items as the presenter does on receipt, and a command that
\* sends none leaves them alone.
Explains(d) ==
    /\ d \in Deltas
    /\ d = NoDelta => Published' = Published /\ PublishedMenus \subseteq PublishedMenus'
    /\ d # NoDelta => ApplyItems(Published, d) = Published'
    /\ d # NoDelta => \A M \in SUBSET PublishedMenus : ApplyMenus(M, d) \subseteq PublishedMenus'

\* publish keeps the sink's view equal to the items it was told of, whether
\* Send accepts, refuses or there is nothing to send.
LEMMA PublishKeepsView ==
  ASSUME TypeOK, SinkConverges, NEW d, Explains(d), publish(d)
  PROVE  /\ sequence' \in 0..MaxSequence
         /\ sink' \in Sinks \cup {NoSink}
         /\ view' \in Views
         /\ SinkConverges'
<1> USE DEF Explains
<1>1. CASE d = NoDelta
  BY <1>1 DEF publish, TypeOK, SinkConverges
<1>2. CASE d # NoDelta /\ sink # NoSink /\ sink' = sink /\ view' = Apply(view, d)
  <2>1. /\ sequence < MaxSequence /\ sequence' = sequence + 1
        /\ sequence \in Nat /\ view \in Views
        /\ view.sequence = sequence /\ view.items = Published
        /\ view.menus \in SUBSET PublishedMenus
    BY <1>2, BoundsAssumption DEF publish, TypeOK, SinkConverges
  <2>2. view' \in Views
    BY <1>2, <2>1, ApplyType
  <2>3. /\ view'.sequence = sequence'
        /\ view'.items = Published'
        /\ view'.menus \subseteq PublishedMenus'
    BY <1>2, <2>1 DEF Apply
  <2> QED
    BY <1>2, <2>1, <2>2, <2>3, BoundsAssumption DEF TypeOK, SinkConverges
<1>3. CASE d # NoDelta /\ sink' = NoSink /\ view' = EmptyView
  BY <1>3, BoundsAssumption DEF publish, TypeOK, SinkConverges, EmptyView, Views
<1> QED
  BY <1>1, <1>2, <1>3 DEF publish

----
(* What the commands do to the items a presenter should hold. *)

\* Replacing or forgetting the entry at an address takes exactly that
\* address out of what is published, when the new entry, if there is one, is
\* unpublished and without a menu.
LEMMA UnpublishAt ==
  ASSUME TypeOK, MenuAfterItem, NEW a \in Addresses,
         \A b \in Live \ {a} : b \in Live' /\ items'[b] = items[b],
         Live' \subseteq Live \cup {a},
         a \in Live' => ~items'[a].published /\ items'[a].menu = Absent
  PROVE  /\ a \in Live /\ items[a].published =>
              /\ Published' = Without(Published, KeyAt(a))
              /\ \A M \in SUBSET PublishedMenus :
                    Without(M, KeyAt(a)) \subseteq PublishedMenus'
         /\ ~(a \in Live /\ items[a].published) =>
              /\ Published' = Published
              /\ PublishedMenus \subseteq PublishedMenus'
<1>1. \A x : x \in Published' <=>
         \E b \in Live \ {a} : items[b].published /\ x = [key |-> KeyAt(b), item |-> items[b].item]
  BY DEF Published, KeyAt, Live
<1>2. \A x : x \in Published <=>
         \E b \in Live : items[b].published /\ x = [key |-> KeyAt(b), item |-> items[b].item]
  BY DEF Published
<1>3. \A x : x \in PublishedMenus' <=>
         \E b \in Live \ {a} : items[b].menu # Absent /\ x = [key |-> KeyAt(b), menu |-> items[b].menu]
  BY DEF PublishedMenus, KeyAt, Live
<1>4. \A x : x \in PublishedMenus <=>
         \E b \in Live : items[b].menu # Absent /\ x = [key |-> KeyAt(b), menu |-> items[b].menu]
  BY DEF PublishedMenus
<1>5. \A b \in Live : KeyAt(b) = KeyAt(a) <=> b = a
  BY DEF KeyAt
<1>6. ASSUME a \in Live, items[a].published
      PROVE  /\ Published' = Without(Published, KeyAt(a))
             /\ \A M \in SUBSET PublishedMenus : Without(M, KeyAt(a)) \subseteq PublishedMenus'
  BY <1>1, <1>2, <1>3, <1>4, <1>5, <1>6 DEF Without
<1>7. ASSUME ~(a \in Live /\ items[a].published)
      PROVE  /\ Published' = Published
             /\ PublishedMenus \subseteq PublishedMenus'
  <2>1. \A b \in Live : items[b].published => b # a
    BY <1>7
  <2>2. \A b \in Live : items[b].menu # Absent => b # a
    BY <2>1 DEF MenuAfterItem
  <2>3. Published' = Published
    BY <1>1, <1>2, <2>1
  <2> QED
    BY <1>3, <1>4, <2>2, <2>3
<1> QED
  BY <1>6, <1>7

\* retire's change to `order`, and the delta it sends.
LEMMA RetireFacts ==
  ASSUME TypeOK, OrderExact, NEW a \in Live
  PROVE  /\ RetireOrder(a) \in Seq(Addresses)
         /\ Distinct(RetireOrder(a))
         /\ Elements(RetireOrder(a)) = Live \ {a}
         /\ RetireDelta(a) \in Deltas
         /\ RetireDelta(a) = NoDelta <=> ~items[a].published
<1>1. order \in Seq(Addresses) /\ Distinct(order) /\ a \in Elements(order) /\ Elements(order) = Live
  BY DEF TypeOK, OrderExact, Distinct, Elements, Listed
<1>2. KeyAt(a) \in Keys
  BY DEF TypeOK, KeyAt, Keys, Entry
<1>3. RetireDelta(a) \in Deltas /\ (RetireDelta(a) = NoDelta <=> ~items[a].published)
  BY <1>2 DEF RetireDelta, ItemRemoved, NoDelta, Deltas
<1> QED
  BY <1>1, <1>3, CutDistinct DEF RetireOrder

\* A presenter that receives the event of a retirement forgets that key.
LEMMA RetireApplies ==
  ASSUME NEW a \in Live, items[a].published
  PROVE  /\ \A S : ApplyItems(S, RetireDelta(a)) = Without(S, KeyAt(a))
         /\ \A S : ApplyMenus(S, RetireDelta(a)) = Without(S, KeyAt(a))
BY DEF RetireDelta, ItemRemoved, ApplyItems, ApplyMenus

----
(* One lemma per command. *)

\* Add sends exactly the retirement of what it replaces.
LEMMA AddExplained ==
  ASSUME Inv, NEW key \in Keys, Add(key)
  PROVE  Explains(AddDelta(key))
<1> DEFINE a == key.addr
<1> USE DEF Inv
<1>1. a \in Addresses
  BY DEF Keys
<1>2. /\ Live' = Live \cup {a}
      /\ \A b \in Live \ {a} : b \in Live' /\ items'[b] = items[b]
      /\ items'[a] = NewEntry(key.gen)
  BY DEF Add, WithItem, Live
<1>3. AddDelta(key) \in Deltas
  BY RetireFacts DEF AddDelta, Deltas
<1>4. AddDelta(key) = NoDelta <=> ~(a \in Live /\ items[a].published)
  BY RetireFacts DEF AddDelta
<1>5. /\ a \in Live /\ items[a].published =>
            /\ Published' = Without(Published, KeyAt(a))
            /\ \A M \in SUBSET PublishedMenus :
                  Without(M, KeyAt(a)) \subseteq PublishedMenus'
      /\ ~(a \in Live /\ items[a].published) =>
            /\ Published' = Published
            /\ PublishedMenus \subseteq PublishedMenus'
  <2>1. ~items'[a].published /\ items'[a].menu = Absent
    BY <1>2 DEF NewEntry
  <2> QED
    BY <1>1, <1>2, <2>1, UnpublishAt
<1>6. ASSUME AddDelta(key) # NoDelta
      PROVE  /\ ApplyItems(Published, AddDelta(key)) = Published'
             /\ \A M \in SUBSET PublishedMenus :
                   ApplyMenus(M, AddDelta(key)) \subseteq PublishedMenus'
  BY <1>4, <1>5, <1>6, RetireApplies DEF AddDelta
<1> QED
  BY <1>3, <1>4, <1>5, <1>6 DEF Explains

\* Add keeps the invariant: the replacement reuses its slot and is listed
\* last, a new address takes a free one.
LEMMA AddKeepsInv ==
  ASSUME Inv, NEW key \in Keys, Add(key)
  PROVE  Inv'
<1> DEFINE a == key.addr
<1> USE DEF Inv
<1>1. a \in Addresses /\ key.gen \in Generations
  BY DEF Keys
<1>2. /\ Live' = Live \cup {a}
      /\ items' \in [Live' -> Entry]
      /\ \A b \in Live \ {a} : items'[b] = items[b]
      /\ items'[a] = NewEntry(key.gen)
      /\ NewEntry(key.gen) \in Entry
  BY <1>1 DEF Add, WithItem, Live, TypeOK, NewEntry, Entry
<1>3. /\ order' \in Seq(Addresses)
      /\ Distinct(order')
      /\ Elements(order') = Live'
  <2>1. CASE a \in Live /\ order' = Append(RetireOrder(a), a)
    <3>1. /\ RetireOrder(a) \in Seq(Addresses)
          /\ Distinct(RetireOrder(a))
          /\ Elements(RetireOrder(a)) = Live \ {a}
      BY <2>1, RetireFacts
    <3> QED
      BY <1>1, <1>2, <2>1, <3>1, AppendDistinct
  <2>2. CASE a \notin Live /\ order' = Append(order, a)
    <3>1. order \in Seq(Addresses) /\ Distinct(order) /\ Elements(order) = Live
      BY DEF TypeOK, OrderExact, Distinct, Elements, Listed
    <3> QED
      BY <1>1, <1>2, <2>2, <3>1, AppendDistinct
  <2> QED
    BY <2>1, <2>2 DEF Add, Replaces, Fits
<1>4. /\ sequence' \in 0..MaxSequence
      /\ sink' \in Sinks \cup {NoSink}
      /\ view' \in Views
      /\ SinkConverges'
  BY AddExplained, PublishKeepsView DEF Add
<1>5. ItemCap'
  <2>1. IsFiniteSet(Live)
    BY FiniteAssumption, FS_Subset DEF TypeOK
  <2>2. CASE a \in Live
    BY <1>2, <2>2 DEF ItemCap
  <2>3. CASE a \notin Live
    <3>1. Cardinality(Live) < MaxItems
      BY <2>3 DEF Add, Replaces, Fits, HasRoom
    <3>2. Cardinality(Live \cup {a}) = Cardinality(Live) + 1 /\ Cardinality(Live) \in Nat
      BY <2>1, <2>3, FS_AddElement, FS_CardinalityType
    <3> QED
      BY <1>2, <3>1, <3>2, BoundsAssumption DEF ItemCap
  <2> QED
    BY <2>2, <2>3
<1>6. MenuAfterItem'
  BY <1>2 DEF MenuAfterItem, NewEntry
<1>7. TypeOK'
  BY <1>1, <1>2, <1>3, <1>4 DEF TypeOK, Add
<1>8. OrderExact'
  BY <1>3 DEF OrderExact, Distinct, Elements, Listed
<1> QED
  BY <1>4, <1>5, <1>6, <1>7, <1>8

\* Remove sends exactly the retirement of the live generation.
LEMMA RemoveExplained ==
  ASSUME Inv, NEW key \in Keys, RemoveItem(key)
  PROVE  Explains(RemoveDelta(key))
<1> DEFINE a == key.addr
<1> USE DEF Inv
<1>1. a \in Live /\ a \in Addresses
  BY DEF RemoveItem, Current, TypeOK
<1>2. Live' = Live \ {a} /\ \A b \in Live \ {a} : items'[b] = items[b]
  BY <1>1 DEF RemoveItem, WithoutItem, Live
<1>3. RemoveDelta(key) \in Deltas /\ (RemoveDelta(key) = NoDelta <=> ~items[a].published)
  BY <1>1, RetireFacts DEF RemoveDelta
<1>4. /\ items[a].published =>
            /\ Published' = Without(Published, KeyAt(a))
            /\ \A M \in SUBSET PublishedMenus :
                  Without(M, KeyAt(a)) \subseteq PublishedMenus'
      /\ ~items[a].published =>
            /\ Published' = Published
            /\ PublishedMenus \subseteq PublishedMenus'
  BY <1>1, <1>2, UnpublishAt
<1>5. ASSUME RemoveDelta(key) # NoDelta
      PROVE  /\ ApplyItems(Published, RemoveDelta(key)) = Published'
             /\ \A M \in SUBSET PublishedMenus :
                   ApplyMenus(M, RemoveDelta(key)) \subseteq PublishedMenus'
  BY <1>1, <1>3, <1>4, <1>5, RetireApplies DEF RemoveDelta
<1> QED
  BY <1>3, <1>4, <1>5 DEF Explains

\* Remove keeps the invariant.
LEMMA RemoveKeepsInv ==
  ASSUME Inv, NEW key \in Keys, RemoveItem(key)
  PROVE  Inv'
<1> DEFINE a == key.addr
<1> USE DEF Inv
<1>1. a \in Live /\ a \in Addresses
  BY DEF RemoveItem, Current, TypeOK
<1>2. /\ Live' = Live \ {a}
      /\ items' \in [Live' -> Entry]
      /\ \A b \in Live \ {a} : items'[b] = items[b]
  BY <1>1 DEF RemoveItem, WithoutItem, Live, TypeOK
<1>3. /\ order' \in Seq(Addresses)
      /\ Distinct(order')
      /\ Elements(order') = Live'
  BY <1>1, <1>2, RetireFacts DEF RemoveItem
<1>4. /\ sequence' \in 0..MaxSequence
      /\ sink' \in Sinks \cup {NoSink}
      /\ view' \in Views
      /\ SinkConverges'
  BY RemoveExplained, PublishKeepsView DEF RemoveItem
<1>5. ItemCap'
  <2>1. IsFiniteSet(Live)
    BY FiniteAssumption, FS_Subset DEF TypeOK
  <2>2. Cardinality(Live \ {a}) \in Nat /\ Cardinality(Live \ {a}) <= Cardinality(Live)
    BY <2>1, FS_Subset, FS_CardinalityType
  <2>3. Cardinality(Live) \in Nat
    BY <2>1, FS_CardinalityType
  <2> QED
    BY <1>2, <2>2, <2>3, BoundsAssumption DEF ItemCap
<1>6. MenuAfterItem'
  BY <1>2 DEF MenuAfterItem
<1>7. TypeOK'
  BY <1>2, <1>3, <1>4 DEF TypeOK, RemoveItem
<1>8. OrderExact'
  BY <1>3 DEF OrderExact, Distinct, Elements, Listed
<1> QED
  BY <1>4, <1>5, <1>6, <1>7, <1>8

\* Update sends the item it has just stored, as added the first time and as
\* changed from then on.
LEMMA UpdateExplained ==
  ASSUME Inv, NEW key \in Keys, NEW item, Update(key, item)
  PROVE  Explains(UpdateDelta(key, item))
<1> DEFINE a == key.addr
           d == UpdateDelta(key, item)
<1> USE DEF Inv
<1>1. a \in Live /\ a \in Addresses /\ item \in Items /\ KeyAt(a) = key /\ items[a] \in Entry
  BY DEF Update, Current, TypeOK, KeyAt, Keys
<1>2. /\ Live' = Live
      /\ items'[a] = [items[a] EXCEPT !.item = item, !.published = TRUE]
      /\ \A b \in Live \ {a} : items'[b] = items[b]
  BY <1>1 DEF Update, Live, TypeOK, Entry
<1>3. d \in Deltas /\ d # NoDelta
  BY <1>1 DEF UpdateDelta, ItemChanged, ItemAdded, Deltas, NoDelta
<1>4. /\ items'[a].item = item /\ items'[a].published = TRUE
      /\ items'[a].gen = items[a].gen /\ items'[a].menu = items[a].menu
  BY <1>1, <1>2 DEF Entry
<1>5. \A b \in Live : (KeyAt(b))' = KeyAt(b) /\ items'[b].menu = items[b].menu
  BY <1>2, <1>4 DEF KeyAt
<1>6. \A x : x \in Published' <=>
        \/ x = [key |-> key, item |-> item]
        \/ \E b \in Live \ {a} : items[b].published /\ x = [key |-> KeyAt(b), item |-> items[b].item]
  <2>1. \A x : x \in Published' <=>
          \E b \in Live : items'[b].published /\ x = [key |-> KeyAt(b), item |-> items'[b].item]
    BY <1>2, <1>5 DEF Published
  <2>2. \A x : (\E b \in Live \ {a} : items'[b].published /\ x = [key |-> KeyAt(b), item |-> items'[b].item])
           <=> (\E b \in Live \ {a} : items[b].published /\ x = [key |-> KeyAt(b), item |-> items[b].item])
    BY <1>2
  <2>3. \A x : (items'[a].published /\ x = [key |-> KeyAt(a), item |-> items'[a].item])
           <=> x = [key |-> key, item |-> item]
    BY <1>1, <1>4
  <2>4. ASSUME NEW x
        PROVE  (\E b \in Live : items'[b].published /\ x = [key |-> KeyAt(b), item |-> items'[b].item])
           <=> \/ items'[a].published /\ x = [key |-> KeyAt(a), item |-> items'[a].item]
               \/ \E b \in Live \ {a} :
                    items'[b].published /\ x = [key |-> KeyAt(b), item |-> items'[b].item]
    BY <1>1
  <2> QED
    BY <2>1, <2>2, <2>3, <2>4
<1>7. ApplyItems(Published, d) = Published'
  <2>1. \A x : x \in Published <=>
          \E b \in Live : items[b].published /\ x = [key |-> KeyAt(b), item |-> items[b].item]
    BY DEF Published
  <2>2. \A b \in Live : KeyAt(b) = key <=> b = a
    BY <1>1 DEF KeyAt
  <2>3. CASE items[a].published
    <3>1. ApplyItems(Published, d) = Without(Published, key) \cup {[key |-> key, item |-> item]}
      BY <2>3 DEF UpdateDelta, ItemChanged, ApplyItems
    <3>2. \A x : x \in Without(Published, key) <=>
            \E b \in Live \ {a} : items[b].published /\ x = [key |-> KeyAt(b), item |-> items[b].item]
      BY <2>1, <2>2 DEF Without
    <3> QED
      BY <1>6, <3>1, <3>2
  <2>4. CASE ~items[a].published
    <3>1. ApplyItems(Published, d) = Published \cup {[key |-> key, item |-> item]}
      BY <2>4 DEF UpdateDelta, ItemAdded, ApplyItems
    <3>2. \A x : x \in Published <=>
            \E b \in Live \ {a} : items[b].published /\ x = [key |-> KeyAt(b), item |-> items[b].item]
      BY <2>1, <2>4
    <3> QED
      BY <1>6, <3>1, <3>2
  <2> QED
    BY <2>3, <2>4
<1>8. PublishedMenus' = PublishedMenus /\ \A M : ApplyMenus(M, d) = M
  <2>1. PublishedMenus' = PublishedMenus
    BY <1>2, <1>5 DEF PublishedMenus
  <2>2. \A M : ApplyMenus(M, d) = M
    BY DEF UpdateDelta, ItemChanged, ItemAdded, ApplyMenus
  <2> QED
    BY <2>1, <2>2
<1> QED
  BY <1>3, <1>7, <1>8 DEF Explains

\* Update keeps the invariant.
LEMMA UpdateKeepsInv ==
  ASSUME Inv, NEW key \in Keys, NEW item, Update(key, item)
  PROVE  Inv'
<1> DEFINE a == key.addr
<1> USE DEF Inv
<1>1. a \in Live /\ a \in Addresses /\ item \in Items /\ KeyAt(a) = key /\ items[a] \in Entry
  BY DEF Update, Current, TypeOK, KeyAt, Keys
<1>2. /\ Live' = Live
      /\ items'[a] = [items[a] EXCEPT !.item = item, !.published = TRUE]
      /\ \A b \in Live \ {a} : items'[b] = items[b]
      /\ items' \in [Live' -> Entry]
  BY <1>1 DEF Update, Live, TypeOK, Entry
<1>3. /\ items'[a].item = item /\ items'[a].published = TRUE
      /\ items'[a].gen = items[a].gen /\ items'[a].menu = items[a].menu
  BY <1>1, <1>2 DEF Entry
<1>4. /\ sequence' \in 0..MaxSequence
      /\ sink' \in Sinks \cup {NoSink}
      /\ view' \in Views
      /\ SinkConverges'
  BY UpdateExplained, PublishKeepsView DEF Update
<1>5. TypeOK'
  BY <1>2, <1>4 DEF TypeOK, Update
<1>6. OrderExact' /\ ItemCap'
  BY <1>2 DEF OrderExact, Listed, ItemCap, Update
<1>7. MenuAfterItem'
  <2>1. item # Absent
    BY <1>1, DistinctAssumption
  <2> QED
    BY <1>2, <1>3, <2>1 DEF MenuAfterItem
<1> QED
  BY <1>4, <1>5, <1>6, <1>7

\* UpdateMenu sends the tree it has just stored and leaves the items alone.
LEMMA UpdateMenuExplained ==
  ASSUME Inv, NEW key \in Keys, NEW menu, UpdateMenu(key, menu)
  PROVE  Explains(UpdateMenuDelta(key, menu))
<1> DEFINE a == key.addr
           d == UpdateMenuDelta(key, menu)
<1> USE DEF Inv
<1>1. a \in Live /\ menu \in Menus /\ KeyAt(a) = key /\ items[a] \in Entry /\ items[a].published
  BY DEF UpdateMenu, Current, TypeOK, KeyAt, Keys
<1>2. /\ Live' = Live
      /\ items'[a] = [items[a] EXCEPT !.menu = menu]
      /\ \A b \in Live \ {a} : items'[b] = items[b]
      /\ items' \in [Live' -> Entry]
  BY <1>1 DEF UpdateMenu, Live, TypeOK, Entry
<1>3. d \in Deltas /\ d # NoDelta
  BY <1>1 DEF UpdateMenuDelta, MenuUpdated, Deltas, NoDelta
<1>4. /\ items'[a].item = items[a].item /\ items'[a].published = items[a].published
      /\ items'[a].gen = items[a].gen /\ items'[a].menu = menu
  BY <1>1, <1>2 DEF Entry
<1>5. \A b \in Live : /\ (KeyAt(b))' = KeyAt(b)
                      /\ items'[b].item = items[b].item
                      /\ items'[b].published = items[b].published
  BY <1>2, <1>4 DEF KeyAt
<1>6. menu # Absent
  BY <1>1, DistinctAssumption
<1>7. Published' = Published /\ ApplyItems(Published, d) = Published
  <2>1. Published' = Published
    BY <1>2, <1>5 DEF Published
  <2>2. ApplyItems(Published, d) = Published
    BY DEF UpdateMenuDelta, MenuUpdated, ApplyItems
  <2> QED
    BY <2>1, <2>2
<1>8. ASSUME NEW M \in SUBSET PublishedMenus
      PROVE  ApplyMenus(M, d) \subseteq PublishedMenus'
  <2>1. ApplyMenus(M, d) = Without(M, key) \cup {[key |-> key, menu |-> menu]}
    BY DEF UpdateMenuDelta, MenuUpdated, ApplyMenus
  <2>2. \A x : x \in PublishedMenus' <=>
          \E b \in Live : items'[b].menu # Absent /\ x = [key |-> KeyAt(b), menu |-> items'[b].menu]
    BY <1>2, <1>5 DEF PublishedMenus
  <2>3. [key |-> key, menu |-> menu] \in PublishedMenus'
    BY <1>1, <1>4, <1>6, <2>2
  <2>4. ASSUME NEW x \in Without(M, key) PROVE x \in PublishedMenus'
    <3>1. PICK b \in Live : items[b].menu # Absent /\ x = [key |-> KeyAt(b), menu |-> items[b].menu]
      BY <2>4 DEF PublishedMenus, Without
    <3>2. b # a
      BY <1>1, <2>4, <3>1 DEF Without
    <3> QED
      BY <1>2, <2>2, <3>1, <3>2
  <2> QED
    BY <2>1, <2>3, <2>4
<1> QED
  BY <1>3, <1>7, <1>8 DEF Explains

\* UpdateMenu keeps the invariant.
LEMMA UpdateMenuKeepsInv ==
  ASSUME Inv, NEW key \in Keys, NEW menu, UpdateMenu(key, menu)
  PROVE  Inv'
<1> DEFINE a == key.addr
<1> USE DEF Inv
<1>1. a \in Live /\ menu \in Menus /\ KeyAt(a) = key /\ items[a] \in Entry /\ items[a].published
  BY DEF UpdateMenu, Current, TypeOK, KeyAt, Keys
<1>2. /\ Live' = Live
      /\ items'[a] = [items[a] EXCEPT !.menu = menu]
      /\ \A b \in Live \ {a} : items'[b] = items[b]
      /\ items' \in [Live' -> Entry]
  BY <1>1 DEF UpdateMenu, Live, TypeOK, Entry
<1>3. /\ items'[a].item = items[a].item /\ items'[a].published = items[a].published
      /\ items'[a].gen = items[a].gen /\ items'[a].menu = menu
  BY <1>1, <1>2 DEF Entry
<1>4. /\ sequence' \in 0..MaxSequence
      /\ sink' \in Sinks \cup {NoSink}
      /\ view' \in Views
      /\ SinkConverges'
  BY UpdateMenuExplained, PublishKeepsView DEF UpdateMenu
<1>5. TypeOK'
  BY <1>2, <1>4 DEF TypeOK, UpdateMenu
<1>6. OrderExact' /\ ItemCap'
  BY <1>2 DEF OrderExact, Listed, ItemCap, UpdateMenu
<1>7. MenuAfterItem'
  <2> SUFFICES ASSUME NEW b \in Live
               PROVE  /\ items'[b].published <=> items'[b].item # Absent
                      /\ items'[b].menu # Absent => items'[b].published
    BY <1>2 DEF MenuAfterItem
  <2>1. /\ items[b].published <=> items[b].item # Absent
        /\ items[b].menu # Absent => items[b].published
    BY DEF MenuAfterItem
  <2>2. CASE b = a
    BY <1>1, <1>3, <2>1, <2>2
  <2>3. CASE b # a
    BY <1>2, <2>1, <2>3
  <2> QED
    BY <2>2, <2>3
<1> QED
  BY <1>4, <1>5, <1>6, <1>7

----
(* The theorems. *)

\* The owner starts empty, with nobody attached.
LEMMA InitInv == Init => Inv
<1> SUFFICES ASSUME Init PROVE Inv
  OBVIOUS
<1>1. Live = {} /\ items \in [Live -> Entry] /\ order = <<>>
  BY DEF Init, Live
<1>2. TypeOK
  BY <1>1, BoundsAssumption DEF Init, TypeOK, EmptyView, Views
<1>3. OrderExact
  BY <1>1 DEF OrderExact, Listed
<1>4. ItemCap
  BY <1>1, FS_EmptySet, BoundsAssumption DEF ItemCap
<1>5. MenuAfterItem /\ SinkConverges
  BY <1>1 DEF Init, MenuAfterItem, SinkConverges
<1> QED
  BY <1>2, <1>3, <1>4, <1>5 DEF Inv

\* Attach hands over a baseline that is exactly what is published.
LEMMA AttachKeepsInv ==
  ASSUME Inv, NEW s \in Sinks, Attach(s)
  PROVE  Inv'
<1> USE DEF Inv
<1>1. UNCHANGED <<items, order, sequence, phase>> /\ sink' = s /\ view' = snapshotLocked
  BY DEF Attach
<1>2. snapshotLocked.items = Published /\ snapshotLocked.menus = {} /\ snapshotLocked.sequence = sequence
  BY DEF snapshotLocked, Published, PublishedAt, OrderExact
<1>3. Published \subseteq [key : Keys, item : Items]
  <2> SUFFICES ASSUME NEW b \in Live, items[b].published
               PROVE  [key |-> KeyAt(b), item |-> items[b].item] \in [key : Keys, item : Items]
    BY DEF Published
  <2>1. items[b] \in Entry /\ b \in Addresses /\ items[b].item # Absent
    BY DEF TypeOK, MenuAfterItem
  <2> QED
    BY <2>1 DEF Entry, KeyAt, Keys
<1>4. snapshotLocked \in Views
  <2>1. sequence \in 0..MaxSequence
    BY DEF TypeOK
  <2> QED
    BY <1>2, <1>3, <2>1 DEF snapshotLocked, Views
<1>5. TypeOK'
  BY <1>1, <1>4 DEF TypeOK, Live
<1>6. OrderExact' /\ ItemCap' /\ MenuAfterItem'
  BY <1>1 DEF OrderExact, Listed, Live, ItemCap, MenuAfterItem
<1>7. SinkConverges'
  BY <1>1, <1>2 DEF SinkConverges, Published, PublishedMenus, KeyAt, Live
<1> QED
  BY <1>5, <1>6, <1>7

\* Inv is inductive: every command of the owner keeps it.
LEMMA NextInv == Inv /\ [Next]_vars => Inv'
<1> SUFFICES ASSUME Inv, [Next]_vars PROVE Inv'
  OBVIOUS
<1>1. ASSUME NEW key \in Keys, Add(key) PROVE Inv'
  BY <1>1, AddKeepsInv
<1>2. ASSUME NEW key \in Keys, NEW item \in Items \cup BadItems, Update(key, item) PROVE Inv'
  BY <1>2, UpdateKeepsInv
<1>3. ASSUME NEW key \in Keys, NEW menu \in Menus \cup BadMenus, UpdateMenu(key, menu) PROVE Inv'
  BY <1>3, UpdateMenuKeepsInv
<1>4. ASSUME NEW key \in Keys, RemoveItem(key) PROVE Inv'
  BY <1>4, RemoveKeepsInv
<1>5. ASSUME NEW s \in Sinks, Attach(s) PROVE Inv'
  BY <1>5, AttachKeepsInv
<1>6. ASSUME UNCHANGED <<items, order, sequence>>, phase' \in {"running", "stopping", "done"},
             \/ UNCHANGED <<sink, view>>
             \/ sink' = NoSink /\ view' = EmptyView
      PROVE  Inv'
  <2>1. TypeOK'
    BY <1>6, BoundsAssumption DEF Inv, TypeOK, Live, EmptyView, Views
  <2>2. OrderExact' /\ ItemCap' /\ MenuAfterItem'
    BY <1>6 DEF Inv, OrderExact, Listed, Live, ItemCap, MenuAfterItem
  <2>3. SinkConverges'
    BY <1>6 DEF Inv, SinkConverges, Published, PublishedMenus, KeyAt, Live
  <2> QED
    BY <2>1, <2>2, <2>3 DEF Inv
<1>7. ASSUME NEW s \in Sinks, Detach(s) PROVE Inv'
  BY <1>6, <1>7 DEF Detach, Inv, TypeOK
<1>8. CASE Close
  BY <1>6, <1>8 DEF Close
<1>9. CASE Exit
  BY <1>6, <1>9 DEF Exit
<1>10. CASE UNCHANGED vars
  BY <1>6, <1>10 DEF vars, Inv, TypeOK
<1> QED
  BY <1>1, <1>2, <1>3, <1>4, <1>5, <1>7, <1>8, <1>9, <1>10 DEF Next

\* The owner's variables keep their types: in particular no malformed item
\* or menu is ever stored or sent (Item.Validate and Menu.Validate come
\* before every store).
THEOREM OwnerTypes == Spec => []TypeOK
<1>1. Spec => []Inv
  BY InitInv, NextInv, PTL DEF Spec
<1>2. Inv => TypeOK
  BY DEF Inv
<1> QED
  BY <1>1, <1>2, PTL

\* An attached presenter that applies its snapshot and then every delta holds
\* exactly the published items, at every moment and for any number of items:
\* no event is lost, doubled or misordered between Attach and publish.
THEOREM OwnerSinkConverges == Spec => []SinkConverges
<1>1. Spec => []Inv
  BY InitInv, NextInv, PTL DEF Spec
<1>2. Inv => SinkConverges
  BY DEF Inv
<1> QED
  BY <1>1, <1>2, PTL

\* `order` lists each live address once: retire cuts out exactly the address
\* it retires and Add appends one that is not listed.
THEOREM OwnerOrderExact == Spec => []OrderExact
<1>1. Spec => []Inv
  BY InitInv, NextInv, PTL DEF Spec
<1>2. Inv => OrderExact
  BY DEF Inv
<1> QED
  BY <1>1, <1>2, PTL

\* The item cap is never passed, whichever registrations are replaced.
THEOREM OwnerItemCap == Spec => []ItemCap
<1>1. Spec => []Inv
  BY InitInv, NextInv, PTL DEF Spec
<1>2. Inv => ItemCap
  BY DEF Inv
<1> QED
  BY <1>1, <1>2, PTL

\* A menu is held only for an item that was published in its generation.
THEOREM OwnerMenuAfterItem == Spec => []MenuAfterItem
<1>1. Spec => []Inv
  BY InitInv, NextInv, PTL DEF Spec
<1>2. Inv => MenuAfterItem
  BY DEF Inv
<1> QED
  BY <1>1, <1>2, PTL

----
(* Events are changes. *)

\* A command whose delta explains it numbers an event exactly when it has
\* one to send.
LEMMA PublishNumbers ==
  ASSUME TypeOK, NEW d, Explains(d), publish(d)
  PROVE  /\ Published' # Published => sequence' = sequence + 1
         /\ sequence' # sequence => d # NoDelta
BY DEF Explains, publish

\* The event of a retirement takes something out of what is published.
LEMMA RetireChanges ==
  ASSUME NEW a \in Live, items[a].published
  PROVE  ApplyItems(Published, RetireDelta(a)) # Published
<1>1. [key |-> KeyAt(a), item |-> items[a].item] \in Published
  BY DEF Published
<1>2. ApplyItems(Published, RetireDelta(a)) = Without(Published, KeyAt(a))
  BY RetireApplies
<1> QED
  BY <1>1, <1>2 DEF Without

\* The event of a reading changes what is published: Update returns early on
\* a reading that found nothing new.
LEMMA UpdateChanges ==
  ASSUME Inv, NEW key \in Keys, NEW item, Update(key, item)
  PROVE  ApplyItems(Published, UpdateDelta(key, item)) # Published
<1>1. key.addr \in Live /\ ~(items[key.addr].published /\ items[key.addr].item = item)
  BY DEF Update, Current
<1>2. [key |-> key, item |-> item] \notin Published
  <2> SUFFICES ASSUME NEW b \in Live, items[b].published,
                      [key |-> key, item |-> item] = [key |-> KeyAt(b), item |-> items[b].item]
               PROVE  FALSE
    BY DEF Published
  <2>1. key = KeyAt(b) /\ item = items[b].item
    OBVIOUS
  <2>2. key.addr = b
    BY <2>1 DEF KeyAt
  <2> QED
    BY <1>1, <2>1, <2>2
<1>3. [key |-> key, item |-> item] \in ApplyItems(Published, UpdateDelta(key, item))
  BY DEF UpdateDelta, ItemChanged, ItemAdded, ApplyItems
<1> QED
  BY <1>2, <1>3

\* A sequence number is spent exactly on a change of what is published, or on
\* a menu: a shell that counts events misses none and is never woken by a
\* reading that found nothing new.
THEOREM OwnerEventsAreChanges == Spec => EventsAreChanges
<1> DEFINE MenuStep == \E key \in Keys, menu \in Menus : UpdateMenu(key, menu)
           Honest == /\ Published' # Published => sequence' = sequence + 1
                     /\ sequence' # sequence => Published' # Published \/ MenuStep
<1>1. ASSUME Inv, [Next]_vars PROVE Honest
  <2> USE <1>1
  <2>0. TypeOK
    BY DEF Inv
  <2>1. ASSUME NEW key \in Keys, Add(key) PROVE Honest
    <3>1. Explains(AddDelta(key)) /\ publish(AddDelta(key))
      BY <2>1, AddExplained DEF Add
    <3>2. ASSUME AddDelta(key) # NoDelta PROVE Published' # Published
      <4>1. key.addr \in Live /\ items[key.addr].published
        BY <3>2 DEF AddDelta, RetireDelta
      <4>2. ApplyItems(Published, AddDelta(key)) # Published
        BY <4>1, RetireChanges DEF AddDelta
      <4> QED
        BY <3>1, <3>2, <4>2 DEF Explains
    <3> QED
      BY <2>0, <3>1, <3>2, PublishNumbers
  <2>2. ASSUME NEW key \in Keys, NEW item \in Items \cup BadItems, Update(key, item)
        PROVE  Honest
    <3>1. Explains(UpdateDelta(key, item)) /\ publish(UpdateDelta(key, item))
      BY <2>2, UpdateExplained DEF Update
    <3>2. UpdateDelta(key, item) # NoDelta => Published' # Published
      BY <2>2, <3>1, UpdateChanges DEF Explains
    <3> QED
      BY <2>0, <3>1, <3>2, PublishNumbers
  <2>3. ASSUME NEW key \in Keys, NEW menu \in Menus \cup BadMenus, UpdateMenu(key, menu)
        PROVE  Honest
    <3>1. Explains(UpdateMenuDelta(key, menu)) /\ publish(UpdateMenuDelta(key, menu))
      BY <2>3, UpdateMenuExplained DEF UpdateMenu
    <3>2. MenuStep
      BY <2>3 DEF UpdateMenu
    <3> QED
      BY <2>0, <3>1, <3>2, PublishNumbers
  <2>4. ASSUME NEW key \in Keys, RemoveItem(key) PROVE Honest
    <3>1. Explains(RemoveDelta(key)) /\ publish(RemoveDelta(key))
      BY <2>4, RemoveExplained DEF RemoveItem
    <3>2. ASSUME RemoveDelta(key) # NoDelta PROVE Published' # Published
      <4>1. key.addr \in Live /\ items[key.addr].published
        BY <2>4, <3>2 DEF RemoveItem, Current, RemoveDelta, RetireDelta
      <4>2. ApplyItems(Published, RemoveDelta(key)) # Published
        BY <4>1, RetireChanges DEF RemoveDelta
      <4> QED
        BY <3>1, <3>2, <4>2 DEF Explains
    <3> QED
      BY <2>0, <3>1, <3>2, PublishNumbers
  <2>5. ASSUME UNCHANGED <<items, sequence>> PROVE Honest
    BY <2>5 DEF Published, KeyAt, Live
  <2>6. CASE (\E s \in Sinks : Attach(s) \/ Detach(s)) \/ Close \/ Exit \/ UNCHANGED vars
    BY <2>5, <2>6 DEF Attach, Detach, Close, Exit, vars
  <2> QED
    BY <2>1, <2>2, <2>3, <2>4, <2>6 DEF Next
<1>2. Inv /\ [Next]_vars => [Honest]_vars
  BY <1>1
<1> QED
  BY <1>2, InitInv, NextInv, PTL DEF Spec, EventsAreChanges

----
(* The owner implements the feed. *)

\* A delta changes the items of its own key and of no other.
LEMMA OneKey ==
  ASSUME NEW S, NEW d \in Deltas, d # NoDelta
  PROVE  Without(ApplyItems(S, d), d.key) = Without(S, d.key)
<1>1. CASE d \in [kind : {"item-added", "item-changed"}, key : Keys, value : Items]
  <2>1. CASE d.kind = "item-added"
    BY <2>1 DEF ApplyItems, Without
  <2>2. CASE d.kind = "item-changed"
    BY <2>2 DEF ApplyItems, Without
  <2> QED
    BY <1>1, <2>1, <2>2
<1>2. CASE d \in [kind : {"item-removed"}, key : Keys, value : {Absent}]
  <2>1. d.kind = "item-removed"
    BY <1>2
  <2> QED
    BY <2>1 DEF ApplyItems, Without
<1>3. CASE d \in [kind : {"menu-updated"}, key : Keys, value : Menus]
  <2>1. d.kind = "menu-updated"
    BY <1>3
  <2> QED
    BY <2>1 DEF ApplyItems
<1> QED
  BY <1>1, <1>2, <1>3 DEF Deltas

\* Two sets that agree outside one key are the same or one change apart.
LEMMA SameOrOneChange ==
  ASSUME NEW S, NEW T, NEW k, Without(S, k) = Without(T, k)
  PROVE  S = T \/ F!OneChange(S, T)
<1> SUFFICES ASSUME S # T PROVE F!OneChange(S, T)
  OBVIOUS
<1>1. PICK e \in S \cup T : ~(e \in S /\ e \in T)
  OBVIOUS
<1>2. e.key = k
  BY <1>1 DEF Without
<1>3. k \in {f.key : f \in S \cup T}
  BY <1>2
<1> QED
  BY <1>3 DEF F!OneChange, Without

\* publish of a delta that explains the step is an event of the feed, or
\* nothing at all.
LEMMA PublishIsEvent ==
  ASSUME SinkConverges', NEW d, Explains(d), publish(d)
  PROVE  IF d = NoDelta THEN UNCHANGED F!feedVars ELSE F!Event
<1>1. CASE d = NoDelta
  BY <1>1 DEF Explains, publish, F!feedVars
<1>2. CASE d # NoDelta
  <2>1. sequence' = sequence + 1
    BY <1>2 DEF publish
  <2>2. Published' = Published \/ F!OneChange(Published, Published')
    <3>1. d \in Deltas /\ ApplyItems(Published, d) = Published'
      BY <1>2 DEF Explains
    <3>2. Without(Published, d.key) = Without(Published', d.key)
      BY <1>2, <3>1, OneKey
    <3> QED
      BY <3>2, SameOrOneChange
  <2>3. F!Unambiguous(Published')
    BY DEF F!Unambiguous, Published, KeyAt
  <2>4. \/ /\ sink # NoSink /\ sink' = sink
           /\ [sequence |-> view'.sequence, items |-> view'.items]
                = F!State(sequence', Published')
        \/ /\ sink' = NoSink
           /\ [sequence |-> view'.sequence, items |-> view'.items] = F!Nothing
    <3>1. CASE sink # NoSink /\ sink' = sink
      BY <3>1 DEF SinkConverges, F!State
    <3>2. CASE sink' = NoSink /\ view' = EmptyView
      BY <3>2 DEF EmptyView, F!Nothing, F!State
    <3> QED
      BY <1>2, <3>1, <3>2 DEF publish
  <2> QED
    BY <1>2, <2>1, <2>2, <2>3, <2>4 DEF F!Event
<1> QED
  BY <1>1, <1>2

\* Publishing is a step of the feed, or none.
LEMMA PublishImplementsEvent ==
  ASSUME SinkConverges', NEW d, Explains(d), publish(d)
  PROVE  [F!FeedNext]_(F!feedVars)
BY PublishIsEvent DEF F!FeedNext

\* Every step of the owner is a step of the feed or leaves it alone.
LEMMA StepImplementsFeed ==
  Inv /\ Inv' /\ [Next]_vars => [F!FeedNext]_(F!feedVars)
<1> SUFFICES ASSUME Inv, Inv', [Next]_vars PROVE [F!FeedNext]_(F!feedVars)
  OBVIOUS
<1>1. SinkConverges'
  BY DEF Inv
<1>2. ASSUME NEW key \in Keys, Add(key) PROVE [F!FeedNext]_(F!feedVars)
  BY <1>1, <1>2, AddExplained, PublishImplementsEvent DEF Add
<1>3. ASSUME NEW key \in Keys, NEW item \in Items \cup BadItems, Update(key, item)
      PROVE  [F!FeedNext]_(F!feedVars)
  BY <1>1, <1>3, UpdateExplained, PublishImplementsEvent DEF Update
<1>4. ASSUME NEW key \in Keys, NEW menu \in Menus \cup BadMenus, UpdateMenu(key, menu)
      PROVE  [F!FeedNext]_(F!feedVars)
  BY <1>1, <1>4, UpdateMenuExplained, PublishImplementsEvent DEF UpdateMenu
<1>5. ASSUME NEW key \in Keys, RemoveItem(key) PROVE [F!FeedNext]_(F!feedVars)
  BY <1>1, <1>5, RemoveExplained, PublishImplementsEvent DEF RemoveItem
<1>6. ASSUME UNCHANGED items PROVE Published' = Published
  BY <1>6 DEF Published, KeyAt, Live
<1>7. ASSUME NEW s \in Sinks, Attach(s) PROVE [F!FeedNext]_(F!feedVars)
  <2>1. Published' = Published /\ sequence' = sequence /\ sink' = s
    BY <1>6, <1>7 DEF Attach
  <2>2. view'.sequence = sequence' /\ view'.items = Published'
    BY <1>1, <2>1, DistinctAssumption DEF SinkConverges
  <2> QED
    BY <2>1, <2>2 DEF F!Subscribe, F!State, F!FeedNext
<1>8. ASSUME NEW s \in Sinks, Detach(s) PROVE [F!FeedNext]_(F!feedVars)
  <2>1. Published' = Published
    BY <1>6, <1>8 DEF Detach
  <2> QED
    BY <1>8, <2>1 DEF Detach, EmptyView, F!Unsubscribe, F!Nothing, F!State, F!FeedNext
<1>9. ASSUME UNCHANGED <<items, sequence, sink, view>> PROVE [F!FeedNext]_(F!feedVars)
  BY <1>6, <1>9 DEF F!feedVars
<1>10. CASE Close \/ Exit \/ UNCHANGED vars
  BY <1>9, <1>10 DEF Close, Exit, vars
<1> QED
  BY <1>2, <1>3, <1>4, <1>5, <1>7, <1>8, <1>10 DEF Next

\* The owner implements the feed: for any number of addresses, items and
\* sinks its commands amount to one published set, changed by one item at a
\* time and numbered, and to a reader that holds all of it or is cut off.
THEOREM OwnerImplementsFeed == Spec => ImplementsFeed
<1>1. Init => F!FeedInit
  <2> SUFFICES ASSUME Init PROVE F!FeedInit
    OBVIOUS
  <2>1. Published = {}
    BY DEF Init, Published, Live
  <2> QED
    BY <2>1 DEF Init, EmptyView, F!FeedInit, F!Nothing, F!State
<1> QED
  BY <1>1, InitInv, NextInv, StepImplementsFeed, PTL DEF Spec, ImplementsFeed, F!FeedSpec
====
