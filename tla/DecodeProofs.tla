---- MODULE DecodeProofs ----
(***************************************************************************)
(* The two decoders of what an application answers, for any limits.        *)
(*                                                                         *)
(* Menus.  While convertLayout walks, the nodes it has converted have a    *)
(* place in the heap, and every frame knows the place of its parent.  The  *)
(* frames keep it because a node is appended only when the frame on top is *)
(* its own: the frames below are no deeper, so none of them is for a child *)
(* of a node that append moves.  Then Validate meets each node once.       *)
(*                                                                         *)
(* Pixmaps.  What is left of the budget and what this set has used of it   *)
(* always add up, with everything kept before, to the item's whole budget; *)
(* that makes decodePixmaps' test of one set the test of the whole item.   *)
(***************************************************************************)
EXTENDS MenuTree, Pixmaps, InductionFacts

----
(* Menus: the layout.                                                      *)

Parent(i) == layout.parent[i]

\* An answer the application may give.
LayoutOK ==
    /\ Size \in Nat \ {0}
    /\ layout.parent \in [1..Size -> 0..Size]
    /\ \A i \in 2..Size : Parent(i) \in 1..(i - 1)
    /\ Parent(1) = 0
    /\ layout.id \in [1..Size -> Int]
    /\ layout.icon \in [1..Size -> Nat]

\* One answer is such a layout.
LEMMA AnswerOK == TreeInit => LayoutOK
<1> SUFFICES ASSUME TreeInit PROVE LayoutOK
  OBVIOUS
<1>0. PICK n \in 1..MaxLayout : \E f \in Parents(n) : layout \in Answers(f)
  BY DEF TreeInit
<1>1. PICK f \in Parents(n) : layout \in Answers(f)
  BY <1>0
<1>2. n \in Nat \ {0}
  BY MenuTreeAssumption
<1>3. f \in [1..n -> 0..(n - 1)] /\ f[1] = 0 /\ \A i \in 2..n : f[i] \in 1..(i - 1)
  BY DEF Parents
<1>4. f \in Seq(0..(n - 1)) /\ Len(f) = n
  BY <1>2, <1>3
<1>5. PlainIds(n) \in [1..n -> Int]
  BY <1>2 DEF PlainIds
<1>6. \A ids \in Ids(n) : ids \in [1..n -> Int]
  <2> TAKE ids \in Ids(n)
  <2>1. CASE ids = PlainIds(n)
    BY <1>5, <2>1
  <2>2. ASSUME NEW i \in 1..n, NEW x \in -1..1, ids = [PlainIds(n) EXCEPT ![i] = x]
        PROVE  ids \in [1..n -> Int]
    <3>1. x \in Int
      OBVIOUS
    <3> QED
      BY <1>5, <2>2, <3>1
  <2> QED
    BY <2>1, <2>2 DEF Ids
<1>7. NoIcons(n) \in [1..n -> Nat]
  BY DEF NoIcons
<1>8. \A ics \in Icons(n) : ics \in [1..n -> Nat]
  <2> TAKE ics \in Icons(n)
  <2>1. ASSUME NEW i \in 1..n, NEW j \in 1..n, NEW x \in IconSizes, NEW y \in IconSizes,
               ics = [NoIcons(n) EXCEPT ![i] = x, ![j] = y]
        PROVE  ics \in [1..n -> Nat]
    <3>1. x \in Nat /\ y \in Nat
      BY MenuTreeAssumption
    <3> QED
      BY <1>7, <2>1, <3>1
  <2> QED
    BY <1>7, <2>1 DEF Icons
<1>9. layout.parent = f /\ layout.id \in [1..n -> Int] /\ layout.icon \in [1..n -> Nat]
  <2> DEFINE Of(ids, ics, junk) == [parent |-> f, id |-> ids, icon |-> ics, junk |-> junk]
  <2>1. \/ \E ids \in Ids(n) : layout = Of(ids, NoIcons(n), {})
        \/ \E ics \in Icons(n) : layout = Of(PlainIds(n), ics, {})
        \/ \E i \in 1..n : layout = Of(PlainIds(n), NoIcons(n), {i})
    BY <1>1, <1>4 DEF Answers
  <2>2. ASSUME NEW ids \in Ids(n), layout = Of(ids, NoIcons(n), {})
        PROVE  layout.parent = f /\ layout.id \in [1..n -> Int] /\ layout.icon \in [1..n -> Nat]
    BY <1>6, <1>7, <2>2
  <2>3. ASSUME NEW ics \in Icons(n), layout = Of(PlainIds(n), ics, {})
        PROVE  layout.parent = f /\ layout.id \in [1..n -> Int] /\ layout.icon \in [1..n -> Nat]
    BY <1>5, <1>8, <2>3
  <2>4. ASSUME NEW i \in 1..n, layout = Of(PlainIds(n), NoIcons(n), {i})
        PROVE  layout.parent = f /\ layout.id \in [1..n -> Int] /\ layout.icon \in [1..n -> Nat]
    BY <1>5, <1>7, <2>4
  <2> HIDE DEF Of
  <2> QED
    BY <2>1, <2>2, <2>3, <2>4, Zenon
<1>10. Size = n
  BY <1>4, <1>9 DEF Size
<1> QED
  BY <1>2, <1>3, <1>9, <1>10 DEF LayoutOK, Parent

\* What an induction from parents to children reaches: every node.
LEMMA TreeInduction ==
  ASSUME LayoutOK, NEW T, 1 \in T, \A i \in 2..Size : Parent(i) \in T => i \in T
  PROVE  1..Size \subseteq T
<1>1. Size \in Nat
  BY DEF LayoutOK
<1> DEFINE R == (1..Size) \ T
<1> SUFFICES ASSUME R # {} PROVE FALSE
  OBVIOUS
<1>2. PICK i \in R : \A j \in R : ~(j < i)
  <2>1. R \in SUBSET Nat
    BY <1>1
  <2> QED
    BY <2>1, NatMin
<1>3. i \in 2..Size
  BY <1>1
<1>4. Parent(i) \in 1..(i - 1)
  BY <1>3 DEF LayoutOK
<1>5. Parent(i) \in 1..Size /\ Parent(i) < i
  BY <1>1, <1>3, <1>4
<1> QED
  BY <1>2, <1>3, <1>5

\* The children of a node are numbered from 1.
LEMMA KidsAre ==
  ASSUME LayoutOK, NEW i \in 1..Size
  PROVE  /\ Kids(i) = {c \in 2..Size : Parent(c) = i}
         /\ Kids(i) \in SUBSET (1..Size) /\ Cardinality(Kids(i)) \in Nat
         /\ \A c \in Kids(i) : Nth(c) = Rank(Kids(i), c) /\ Nth(c) \in 1..Cardinality(Kids(i))
         /\ \A n \in 1..Cardinality(Kids(i)) : \E c \in Kids(i) : Nth(c) = n
<1>1. Size \in Nat /\ Parent(1) = 0 /\ i \in Nat /\ i # 0
  BY DEF LayoutOK
<1>2. Kids(i) = {c \in 2..Size : Parent(c) = i}
  BY <1>1 DEF Kids, Parent
<1>3. Kids(i) \in SUBSET (1..Size)
  BY DEF Kids
<1>4. IsFiniteSet(Kids(i)) /\ Cardinality(Kids(i)) \in Nat
  BY <1>1, <1>3, RankMore
<1>5. ASSUME NEW c \in Kids(i)
      PROVE  Nth(c) = Rank(Kids(i), c) /\ Nth(c) \in 1..Cardinality(Kids(i))
  <2>1. layout.parent[c] = i
    BY DEF Kids
  <2>2. Nth(c) = Rank(Kids(i), c)
    BY <2>1 DEF Nth, Rank
  <2>3. Rank(Kids(i), c) \in Nat /\ Rank(Kids(i), c) <= Cardinality(Kids(i))
    BY <1>1, <1>3, RankMore
  <2>4. Rank(Kids(i), c) # 0
    <3> DEFINE W == {d \in Kids(i) : d <= c}
    <3>1. c \in W
      BY <1>3, <1>1
    <3>2. IsFiniteSet(W)
      BY <1>4, FS_Subset
    <3>3. Cardinality(W) # 0
      BY <3>1, <3>2, FS_EmptySet
    <3> QED
      BY <3>3 DEF Rank
  <2> QED
    BY <1>4, <2>2, <2>3, <2>4
<1>6. ASSUME NEW n \in 1..Cardinality(Kids(i)) PROVE \E c \in Kids(i) : Nth(c) = n
  <2>1. \E c \in Kids(i) : Rank(Kids(i), c) = n
    BY <1>1, <1>3, RankTaken
  <2> QED
    BY <1>5, <2>1
<1> QED
  BY <1>2, <1>3, <1>4, <1>5, <1>6

\* Siblings have their numbers in the order of the layout.
LEMMA SiblingsApart ==
  ASSUME LayoutOK, NEW i \in 1..Size, NEW c \in Kids(i), NEW d \in Kids(i), c < d
  PROVE  Nth(c) < Nth(d)
<1>1. Size \in Nat /\ Kids(i) \in SUBSET (1..Size) /\ Cardinality(Kids(i)) \in Nat
  BY KidsAre DEF LayoutOK
<1> DEFINE U == {e \in Kids(i) : e <= c}
           W == {e \in Kids(i) : e <= d}
<1>2. U \in SUBSET W /\ d \in W /\ d \notin U
  BY <1>1
<1>3. IsFiniteSet(W) /\ IsFiniteSet(U)
  <2>1. IsFiniteSet(Kids(i))
    BY <1>1, RankMore
  <2> QED
    BY <2>1, FS_Subset
<1>4. Cardinality(U) <= Cardinality(W) /\ Cardinality(U) # Cardinality(W)
  BY <1>2, <1>3, FS_Subset
<1>5. Nth(c) = Cardinality(U) /\ Nth(d) = Cardinality(W) /\ Nth(c) \in Nat /\ Nth(d) \in Nat
  <2>1. layout.parent[c] = i /\ layout.parent[d] = i
    BY DEF Kids
  <2>2. Nth(c) = Cardinality(U) /\ Nth(d) = Cardinality(W)
    BY <2>1 DEF Nth
  <2> QED
    BY <1>3, <2>2, FS_CardinalityType
<1> QED
  BY <1>4, <1>5

\* Different siblings have different numbers.
LEMMA SiblingsOrder ==
  ASSUME LayoutOK, NEW i \in 1..Size, NEW c \in Kids(i), NEW d \in Kids(i)
  PROVE  /\ Nth(c) \in Nat /\ Nth(d) \in Nat /\ c \in Nat /\ d \in Nat
         /\ Nth(c) = Nth(d) <=> c = d
         /\ Nth(c) < Nth(d) <=> c < d
<1>1. c \in Nat /\ d \in Nat /\ Nth(c) \in Nat /\ Nth(d) \in Nat
  <2>1. \A e \in Kids(i) : e \in 1..Size /\ Nth(e) \in 1..Cardinality(Kids(i))
    BY KidsAre
  <2> QED
    BY <2>1
<1>2. (c < d => Nth(c) < Nth(d)) /\ (d < c => Nth(d) < Nth(c))
  BY SiblingsApart
<1> QED
  BY <1>1, <1>2

\* Children lists a node's children, each at its number.
LEMMA ChildrenAre ==
  ASSUME LayoutOK, NEW i \in 1..Size
  PROVE  /\ Children(i) \in Seq(1..Size) /\ Len(Children(i)) = Cardinality(Kids(i))
         /\ \A n \in 1..Cardinality(Kids(i)) : Children(i)[n] \in Kids(i) /\ Nth(Children(i)[n]) = n
         /\ \A c \in Kids(i) : Children(i)[Nth(c)] = c
<1> DEFINE N == Cardinality(Kids(i))
<1>1. N \in Nat /\ Kids(i) \in SUBSET (1..Size)
  BY KidsAre
<1>2. \A n \in 1..N : \E c \in Kids(i) : Nth(c) = n
  BY KidsAre
<1>3. Children(i) = [n \in 1..N |-> CHOOSE c \in Kids(i) : Nth(c) = n]
  BY DEF Children
<1> HIDE DEF N
<1>4. \A n \in 1..N : Children(i)[n] \in Kids(i) /\ Nth(Children(i)[n]) = n
  BY <1>2, <1>3
<1>5. Children(i) \in Seq(1..Size) /\ Len(Children(i)) = N
  BY <1>1, <1>3, <1>4
<1>6. \A c \in Kids(i) : Children(i)[Nth(c)] = c
  <2> TAKE c \in Kids(i)
  <2>1. Nth(c) \in 1..N
    BY KidsAre DEF N
  <2>2. Children(i)[Nth(c)] \in Kids(i) /\ Nth(Children(i)[Nth(c)]) = Nth(c)
    BY <1>4, <2>1
  <2> QED
    BY <2>2, SiblingsOrder
<1> QED
  BY <1>4, <1>5, <1>6 DEF N

\* Depth counts the steps from the root.
LEMMA DepthIs ==
  ASSUME LayoutOK
  PROVE  /\ \A i \in 1..Size : Depth[i] \in Nat
         /\ Depth[1] = 0
         /\ \A i \in 2..Size : Depth[i] = 1 + Depth[Parent(i)]
<1>1. Size \in Nat \ {0} /\ \A i \in 2..Size : Parent(i) \in 1..(i - 1)
  BY DEF LayoutOK
<1> DEFINE Upto(g, n) == g = [i \in 1..n |-> IF i = 1 THEN 0 ELSE 1 + g[Parent(i)]]
           S == {n \in Nat : n <= Size => \E g : Upto(g, n)}
<1>2. 0 \in S
  <2>1. Upto(<<>>, 0)
    OBVIOUS
  <2> QED
    BY <2>1
<1>3. ASSUME NEW n \in Nat, n \in S PROVE n + 1 \in S
  <2> SUFFICES ASSUME n + 1 <= Size PROVE \E g : Upto(g, n + 1)
    OBVIOUS
  <2>1. PICK g : Upto(g, n)
    BY <1>1, <1>3
  <2> DEFINE h == [i \in 1..(n + 1) |-> IF i = 1 THEN 0 ELSE
                      IF i = n + 1 THEN 1 + g[Parent(i)] ELSE g[i]]
  <2>2. \A i \in 1..(n + 1) : h[i] = IF i = 1 THEN 0 ELSE 1 + h[Parent(i)]
    <3> TAKE i \in 1..(n + 1)
    <3>1. CASE i = 1
      BY <3>1
    <3>2. CASE i # 1
      <4>1. Parent(i) \in 1..(i - 1)
        BY <1>1, <3>2
      <4>2. Parent(i) \in 1..n /\ Parent(i) \in 1..(n + 1) /\ Parent(i) # n + 1
        BY <4>1
      <4>3. g[Parent(i)] = IF Parent(i) = 1 THEN 0 ELSE 1 + g[Parent(Parent(i))]
        BY <2>1, <4>2
      <4>4. h[Parent(i)] = g[Parent(i)]
        BY <4>2, <4>3
      <4>5. CASE i = n + 1
        BY <3>2, <4>4, <4>5
      <4>6. CASE i # n + 1
        <5>1. i \in 1..n
          BY <4>6
        <5>2. g[i] = 1 + g[Parent(i)]
          BY <2>1, <3>2, <5>1
        <5> QED
          BY <3>2, <4>4, <4>6, <5>2
      <4> QED
        BY <4>5, <4>6
    <3> QED
      BY <3>1, <3>2
  <2>3. Upto(h, n + 1)
    <3> HIDE DEF h
    <3>1. h = [i \in 1..(n + 1) |-> h[i]]
      BY DEF h
    <3> QED
      BY <2>2, <3>1
  <2> HIDE DEF Upto
  <2> QED
    BY <2>3
<1>4. \E g : Upto(g, Size)
  <2>1. \A n \in Nat : n \in S
    <3> HIDE DEF S
    <3> QED
      BY <1>2, <1>3, SetInduction
  <2>2. Size \in S
    BY <1>1, <2>1
  <2> HIDE DEF Upto
  <2> QED
    BY <1>1, <2>2
<1>5. Depth = CHOOSE g : Upto(g, Size)
  BY DEF Depth, Parent
<1> HIDE DEF Upto
<1>6. Upto(Depth, Size)
  BY <1>4, <1>5
<1>7. \A i \in 1..Size : Depth[i] = IF i = 1 THEN 0 ELSE 1 + Depth[Parent(i)]
  BY <1>6 DEF Upto
<1>8. 1..Size \subseteq {i \in 1..Size : Depth[i] \in Nat}
  <2> DEFINE T == {i \in 1..Size : Depth[i] \in Nat}
  <2>1. 1 \in T
    BY <1>1, <1>7
  <2>2. \A i \in 2..Size : Parent(i) \in T => i \in T
    BY <1>1, <1>7
  <2> HIDE DEF T
  <2>3. 1..Size \subseteq T
    BY <2>1, <2>2, TreeInduction
  <2> QED
    BY <2>3 DEF T
<1> QED
  BY <1>1, <1>7, <1>8

----
(* Menus: the icon bytes of a set of nodes.                                *)

\* The data of a node's icon has a length.
LEMMA IconDataType ==
  ASSUME LayoutOK, NEW i \in 1..Size
  PROVE  IconData(i) \in Nat
  BY DEF LayoutOK, IconData

\* One node more brings its bytes, and more nodes never fewer.
LEMMA IconBytesAre ==
  ASSUME LayoutOK, NEW V \in SUBSET (1..Size)
  PROVE  /\ IconBytes({}) = 0 /\ IconBytes(V) \in Nat
         /\ \A i \in (1..Size) \ V : IconBytes(V \cup {i}) = IconBytes(V) + IconData(i)
         /\ IconBytes(V) <= IconBytes(1..Size)
<1> DEFINE Bytes(i) == {i} \X (1..IconData(i))
           Of(W) == UNION {Bytes(i) : i \in W}
<1>1. \A W : IconBytes(W) = Cardinality(Of(W))
  BY DEF IconBytes
<1>2. Size \in Nat
  BY DEF LayoutOK
<1>3. ASSUME NEW i \in 1..Size
      PROVE  IsFiniteSet(Bytes(i)) /\ Cardinality(Bytes(i)) = IconData(i)
  <2>1. IconData(i) \in Nat
    BY IconDataType
  <2>2. IsFiniteSet(1..IconData(i)) /\ Cardinality(1..IconData(i)) = IconData(i)
    BY <2>1, FS_Interval
  <2>3. IsFiniteSet({i}) /\ Cardinality({i}) = 1
    BY FS_Singleton
  <2>4. IsFiniteSet(Bytes(i)) /\ Cardinality(Bytes(i)) = Cardinality({i}) * Cardinality(1..IconData(i))
    BY <2>2, <2>3, FS_Product
  <2> QED
    BY <2>1, <2>2, <2>3, <2>4
<1>4. ASSUME NEW W, NEW i, i \notin W PROVE Of(W \cup {i}) = Of(W) \cup Bytes(i) /\ Of(W) \cap Bytes(i) = {}
  <2>1. \A x, j : x \in Bytes(j) => x[1] = j
    OBVIOUS
  <2> HIDE DEF Bytes
  <2>2. Of(W) \cap Bytes(i) = {}
    BY <1>4, <2>1
  <2>3. Of(W \cup {i}) = Of(W) \cup Bytes(i)
    OBVIOUS
  <2> QED
    BY <2>2, <2>3
<1> HIDE DEF Bytes
<1>5. ASSUME NEW W \in SUBSET (1..Size) PROVE IsFiniteSet(Of(W))
  <2>1. IsFiniteSet(1..Size)
    BY <1>2, FS_Interval
  <2>2. IsFiniteSet(W)
    BY <2>1, FS_Subset
  <2> DEFINE F == [i \in W |-> Bytes(i)]
             Y == {Bytes(i) : i \in W}
  <2>3. F \in Surjection(W, Y)
    BY DEF Surjection
  <2>4. IsFiniteSet(Y)
    <3> HIDE DEF F, Y
    <3> QED
      BY <2>2, <2>3, FS_Surjection
  <2>5. \A T \in Y : IsFiniteSet(T)
    BY <1>3
  <2>6. IsFiniteSet(UNION Y)
    <3> HIDE DEF Y
    <3> QED
      BY <2>4, <2>5, FS_UNION
  <2> QED
    BY <2>6
<1>6. ASSUME NEW W \in SUBSET (1..Size), NEW i \in (1..Size) \ W
      PROVE  IconBytes(W \cup {i}) = IconBytes(W) + IconData(i)
  <2>1. Of(W \cup {i}) = Of(W) \cup Bytes(i) /\ Of(W) \cap Bytes(i) = {}
    BY <1>4
  <2>2. IsFiniteSet(Of(W)) /\ IsFiniteSet(Bytes(i)) /\ Cardinality(Bytes(i)) = IconData(i)
    BY <1>3, <1>5
  <2> HIDE DEF Of
  <2>3. Cardinality(Of(W) \cup Bytes(i)) = Cardinality(Of(W)) + Cardinality(Bytes(i)) - Cardinality({})
    BY <2>1, <2>2, FS_Union
  <2>4. Cardinality({}) = 0 /\ Cardinality(Of(W)) \in Nat /\ IconData(i) \in Nat
    BY <2>2, FS_EmptySet, FS_CardinalityType, IconDataType
  <2>5. Cardinality(Of(W) \cup Bytes(i)) = Cardinality(Of(W)) + IconData(i)
    BY <2>2, <2>3, <2>4
  <2> QED
    BY <1>1, <2>1, <2>5
<1>7. IconBytes({}) = 0
  <2>1. Of({}) = {}
    OBVIOUS
  <2> QED
    BY <1>1, <2>1, FS_EmptySet
<1>8. IconBytes(V) \in Nat /\ IconBytes(V) <= IconBytes(1..Size)
  <2>1. Of(V) \in SUBSET Of(1..Size)
    OBVIOUS
  <2>2. IsFiniteSet(Of(1..Size)) /\ IsFiniteSet(Of(V))
    BY <1>5
  <2> HIDE DEF Of
  <2> QED
    BY <1>1, <2>1, <2>2, FS_Subset, FS_CardinalityType
<1> QED
  BY <1>6, <1>7, <1>8

----
(* Menus: the heap while convertLayout fills it.                           *)

\* The cell at a place of the heap h, and the places h has.
In(h, p) == h[p.array][p.index]

Has(h, p) == p.array \in 1..Len(h) /\ p.index \in 1..Len(h[p.array])

Cells == [node : Nat, array : Nat, len : Nat]

Places == [array : Nat, index : Nat]

\* A cell that node i may have in the heap h.
Sound(h, i, cell) ==
    /\ cell.node = i
    /\ cell.len <= Cardinality(Kids(i))
    /\ IF cell.array = 0 THEN cell.len = 0
       ELSE cell.array \in 2..Len(h) /\ cell.len <= Len(h[cell.array])

\* The nodes D are in the heap h at the places L: each has in its slice those
\* of its children that are in D, in order, and no two slices share an array.
Placed(h, D, L) ==
    /\ h \in Seq(Seq(Cells)) /\ Len(h) >= 1 /\ Len(h[1]) = 1
    /\ D \in SUBSET (1..Size) /\ 1 \in D
    /\ \A i \in D \ {1} : Parent(i) \in D
    /\ L \in [1..Size -> Places] /\ L[1] = Root
    /\ \A i \in D : Has(h, L[i]) /\ Sound(h, i, In(h, L[i]))
    /\ \A i \in D \ {1} : L[i] = [array |-> In(h, L[Parent(i)]).array, index |-> Nth(i)]
    /\ \A i \in 2..Size : Parent(i) \in D =>
          (i \in D <=> Nth(i) <= In(h, L[Parent(i)]).len)
    /\ \A i, j \in D : i # j /\ In(h, L[i]).array = In(h, L[j]).array => In(h, L[i]).array = 0

\* The heap after the root.
LEMMA RootPlaced ==
  ASSUME LayoutOK
  PROVE  Placed(<<<<Cell(1)>>>>, {1}, [i \in 1..Size |-> Root])
<1> DEFINE h == <<<<Cell(1)>>>>
           L == [i \in 1..Size |-> Root]
<1>1. Size \in Nat \ {0} /\ \A i \in 2..Size : Parent(i) \in 1..(i - 1)
  BY DEF LayoutOK
<1>2. Cell(1) \in Cells /\ Root \in Places
  BY DEF Cell, Cells, Root, Places
<1>3. h \in Seq(Seq(Cells)) /\ Len(h) = 1 /\ Len(h[1]) = 1
  BY <1>2
<1>4. L[1] = Root /\ In(h, L[1]) = Cell(1)
  BY <1>1 DEF In, Root
<1>5. Has(h, L[1]) /\ Sound(h, 1, In(h, L[1]))
  <2>1. Cardinality(Kids(1)) \in Nat
    BY <1>1, KidsAre
  <2> QED
    BY <1>3, <1>4, <2>1 DEF Has, Sound, Cell, Root
<1>6. ASSUME NEW i \in 2..Size, Parent(i) = 1
      PROVE  ~(Nth(i) <= In(h, L[1]).len)
  <2>1. i \in Kids(1)
    BY <1>1, <1>6 DEF Kids, Parent
  <2>2. Nth(i) \in 1..Cardinality(Kids(1)) /\ Cardinality(Kids(1)) \in Nat
    BY <1>1, <2>1, KidsAre
  <2> QED
    BY <1>4, <2>2 DEF Cell
<1>7. L \in [1..Size -> Places]
  BY <1>2
<1>8. \A i \in 2..Size : i \notin {1}
  OBVIOUS
<1>9. Placed(h, {1}, L)
  <2> HIDE DEF h, L
  <2> QED
    BY <1>1, <1>3, <1>4, <1>5, <1>6, <1>7, <1>8 DEF Placed
<1> QED
  BY <1>9

\* A cell that append may be called on: p is in the heap, with a slice that is
\* not the one p itself is in.
Appendable(p) ==
    /\ heap \in Seq(Seq(Cells)) /\ Len(heap) >= 1
    /\ p \in Places /\ Has(heap, p)
    /\ In(heap, p).array # p.array
    /\ IF In(heap, p).array = 0 THEN In(heap, p).len = 0
       ELSE In(heap, p).array \in 2..Len(heap) /\ In(heap, p).len <= Len(heap[In(heap, p).array])

\* The heap h has one cell more in the slice of p, which may have moved; the
\* cells that are not in that slice are as they were.
Appended(h, p, cell) ==
    LET s == In(heap, p)
        t == In(h, p)
    IN  /\ h \in Seq(Seq(Cells)) /\ Len(h) >= Len(heap)
        /\ \A a \in 1..Len(heap) : Len(h[a]) = Len(heap[a])
        /\ t.node = s.node /\ t.len = s.len + 1
        /\ t.array \in 2..Len(h) /\ t.len <= Len(h[t.array])
        /\ t.array = s.array \/ t.array > Len(heap)
        /\ h[t.array][s.len + 1] = cell
        /\ \A k \in 1..s.len : h[t.array][k] = heap[s.array][k]
        /\ \A a \in 1..Len(heap) : \A k \in 1..Len(heap[a]) :
              ~(a = p.array /\ k = p.index) /\ ~(a = s.array /\ k = s.len + 1)
              => h[a][k] = heap[a][k]

\* A row of the heap with one cell changed.
LEMMA RowChanged ==
  ASSUME NEW h \in Seq(Seq(Cells)), NEW a \in 1..Len(h), NEW k \in 1..Len(h[a]), NEW x \in Cells,
         NEW g, g = [h EXCEPT ![a][k] = x]
  PROVE  /\ g \in Seq(Seq(Cells)) /\ Len(g) = Len(h)
         /\ \A b \in 1..Len(h) : Len(g[b]) = Len(h[b])
         /\ g[a][k] = x
         /\ \A b \in 1..Len(h) : \A j \in 1..Len(h[b]) : ~(b = a /\ j = k) => g[b][j] = h[b][j]
<1> DEFINE row == [h[a] EXCEPT ![k] = x]
<1>1. h[a] \in Seq(Cells)
  OBVIOUS
<1>2. row \in Seq(Cells) /\ Len(row) = Len(h[a]) /\ row[k] = x
  BY <1>1
<1>3. \A j \in 1..Len(h[a]) : j # k => row[j] = h[a][j]
  BY <1>1
<1>4. g = [h EXCEPT ![a] = row]
  OBVIOUS
<1> HIDE DEF row
<1>5. g \in Seq(Seq(Cells)) /\ Len(g) = Len(h) /\ g[a] = row /\ \A b \in 1..Len(h) : b # a => g[b] = h[b]
  BY <1>2, <1>4
<1> QED
  BY <1>2, <1>3, <1>5

\* append does that: in place while the array has room, else in a larger one.
LEMMA AppendDoes ==
  ASSUME NEW p, Appendable(p), NEW cell \in Cells
  PROVE  Appended(Append1(p, cell), p, cell)
<1> DEFINE s == In(heap, p)
           cap == IF s.array = 0 THEN 0 ELSE Len(heap[s.array])
           x == [s EXCEPT !.len = s.len + 1]
<1>1. /\ heap \in Seq(Seq(Cells)) /\ Len(heap) \in Nat /\ Len(heap) >= 1
      /\ p \in Places /\ p.array \in 1..Len(heap) /\ p.index \in 1..Len(heap[p.array])
      /\ s.array # p.array
  BY DEF Appendable, Has
<1>2. heap[p.array] \in Seq(Cells)
  BY <1>1
<1>3. s \in Cells
  BY <1>1, <1>2 DEF In
<1>4. s.array \in Nat /\ s.len \in Nat /\ s.node \in Nat
  BY <1>3 DEF Cells
<1>5. s = heap[p.array][p.index] /\ s = At(p)
  BY DEF In, At
<1>6. IF s.array = 0 THEN s.len = 0 ELSE s.array \in 2..Len(heap) /\ s.len <= Len(heap[s.array])
  BY DEF Appendable
<1>7. cap \in Nat /\ s.len <= cap /\ (s.array # 0 => heap[s.array] \in Seq(Cells))
  BY <1>1, <1>4, <1>6
<1>8. CASE s.len < cap
  <2> DEFINE h0 == [heap EXCEPT ![s.array][s.len + 1] = cell]
             h == [h0 EXCEPT ![p.array][p.index] = x]
  <2>1. s.array # 0 /\ s.array \in 2..Len(heap) /\ s.array \in 1..Len(heap) /\ s.len + 1 \in 1..Len(heap[s.array])
    BY <1>4, <1>6, <1>8
  <2>2. /\ h0 \in Seq(Seq(Cells)) /\ Len(h0) = Len(heap)
        /\ \A b \in 1..Len(heap) : Len(h0[b]) = Len(heap[b])
        /\ h0[s.array][s.len + 1] = cell
        /\ \A b \in 1..Len(heap) : \A j \in 1..Len(heap[b]) :
              ~(b = s.array /\ j = s.len + 1) => h0[b][j] = heap[b][j]
    <3> HIDE DEF s
    <3> QED
      <4>1. heap \in Seq(Seq(Cells))
        BY <1>1
      <4> HIDE DEF h0
      <4>2. ASSUME NEW g, g = [heap EXCEPT ![s.array][s.len + 1] = cell]
            PROVE  /\ g \in Seq(Seq(Cells)) /\ Len(g) = Len(heap)
                   /\ \A b \in 1..Len(heap) : Len(g[b]) = Len(heap[b])
                   /\ g[s.array][s.len + 1] = cell
                   /\ \A b \in 1..Len(heap) : \A j \in 1..Len(heap[b]) :
                         ~(b = s.array /\ j = s.len + 1) => g[b][j] = heap[b][j]
        BY <2>1, <4>1, <4>2, RowChanged
      <4> QED
        BY <4>2, Zenon DEF h0
  <2>3. x \in Cells /\ x.node = s.node /\ x.array = s.array /\ x.len = s.len + 1
    BY <1>3, <1>4 DEF Cells
  <2>4. h0[p.array][p.index] = s
    BY <1>1, <1>5, <2>2
  <2>5. Append1(p, cell) = h
    <3>1. Append1(p, cell) = [heap EXCEPT ![s.array][s.len + 1] = cell,
                                          ![p.array][p.index].len = s.len + 1]
      BY <1>5, <1>8 DEF Append1
    <3>2. Append1(p, cell) = [h0 EXCEPT ![p.array][p.index].len = s.len + 1]
      BY <3>1
    <3> HIDE DEF h0, s
    <3> QED
      BY <2>4, <3>2
  <2> HIDE DEF x, h0
  <2>6. p.array \in 1..Len(h0) /\ p.index \in 1..Len(h0[p.array])
    BY <1>1, <2>2
  <2>7. /\ h \in Seq(Seq(Cells)) /\ Len(h) = Len(h0)
        /\ \A b \in 1..Len(h0) : Len(h[b]) = Len(h0[b])
        /\ h[p.array][p.index] = x
        /\ \A b \in 1..Len(h0) : \A j \in 1..Len(h0[b]) :
              ~(b = p.array /\ j = p.index) => h[b][j] = h0[b][j]
    <3>1. h0 \in Seq(Seq(Cells)) /\ x \in Cells
      BY <2>2, <2>3
    <3> QED
      BY <2>6, <3>1, RowChanged
  <2> HIDE DEF h
  <2>8. In(h, p) = x
    BY <2>7 DEF In
  <2>9. \A k \in 1..(s.len + 1) : k \in 1..Len(heap[s.array]) /\ k \in 1..Len(h0[s.array])
    <3>1. Len(h0[s.array]) = Len(heap[s.array])
      BY <2>1, <2>2
    <3>2. Len(heap[s.array]) \in Nat
      BY <1>7, <2>1
    <3> HIDE DEF s, h0
    <3>3. \A k \in 1..(s.len + 1) : k \in 1..Len(heap[s.array])
      BY <1>4, <2>1, <3>2
    <3> QED
      BY <3>1, <3>3
  <2>10. h[s.array][s.len + 1] = cell /\ \A k \in 1..s.len : h[s.array][k] = heap[s.array][k]
    <3>1. s.len + 1 \in 1..(s.len + 1) /\ s.array \in 1..Len(h0)
      BY <1>4, <2>1, <2>2
    <3>2. \A k \in 1..s.len : k \in 1..(s.len + 1) /\ k # s.len + 1
      BY <1>4
    <3>3. \A k \in 1..(s.len + 1) : h[s.array][k] = h0[s.array][k]
      <4> TAKE k \in 1..(s.len + 1)
      <4>1. k \in 1..Len(h0[s.array]) /\ ~(s.array = p.array /\ k = p.index)
        BY <1>1, <2>9
      <4> HIDE DEF s
      <4> QED
        BY <2>7, <3>1, <4>1
    <3>4. \A k \in 1..s.len : h0[s.array][k] = heap[s.array][k]
      <4> TAKE k \in 1..s.len
      <4>1. k \in 1..Len(heap[s.array]) /\ ~(s.array = s.array /\ k = s.len + 1)
        BY <2>9, <3>2
      <4> HIDE DEF s
      <4> QED
        BY <2>1, <2>2, <4>1
    <3> HIDE DEF s
    <3> QED
      BY <2>2, <3>1, <3>2, <3>3, <3>4
  <2>11. \A a \in 1..Len(heap) : \A k \in 1..Len(heap[a]) :
            ~(a = p.array /\ k = p.index) /\ ~(a = s.array /\ k = s.len + 1)
            => h[a][k] = heap[a][k]
    BY <2>2, <2>7
  <2>12. \A a \in 1..Len(heap) : Len(h[a]) = Len(heap[a])
    BY <2>2, <2>7
  <2>13. Appended(h, p, cell)
    <3>1. x.len <= Len(h[x.array]) /\ x.array \in 2..Len(h) /\ Len(h) >= Len(heap)
      <4>1. Len(h[s.array]) = Len(heap[s.array]) /\ Len(h) = Len(heap)
        BY <1>1, <2>1, <2>2, <2>7, <2>12
      <4>2. s.len + 1 <= Len(heap[s.array])
        BY <2>1
      <4> HIDE DEF s
      <4> QED
        BY <1>1, <2>1, <2>3, <4>1, <4>2
    <3> HIDE DEF s
    <3> QED
      BY <2>3, <2>7, <2>8, <2>10, <2>11, <2>12, <3>1 DEF Appended, s
  <2> QED
    BY <2>5, <2>13
<1>9. CASE ~(s.len < cap)
  <2> DEFINE n == Len(heap) + 1
             y == [s EXCEPT !.array = n, !.len = s.len + 1]
             size == IF cap = 0 THEN 1 ELSE 2 * cap
             more == [k \in 1..size |-> IF k <= s.len THEN heap[s.array][k] ELSE Unused]
             row == [more EXCEPT ![s.len + 1] = cell]
             h0 == [heap EXCEPT ![p.array][p.index] = y]
             h == Append(h0, row)
  <2>1. Append1(p, cell) = h
    BY <1>5, <1>9 DEF Append1
  <2>2. s.len = cap /\ size \in Nat /\ s.len + 1 \in 1..size
    BY <1>4, <1>7, <1>9
  <2>3. Unused \in Cells
    BY DEF Unused, Cell, Cells
  <2>4. \A k \in 1..size : k <= s.len => heap[s.array][k] \in Cells
    <3> TAKE k \in 1..size
    <3> HAVE k <= s.len
    <3>1. s.array # 0 /\ k \in 1..Len(heap[s.array])
      BY <1>4, <2>2
    <3> QED
      BY <1>7, <3>1
  <2>5. y \in Cells /\ y.node = s.node /\ y.array = n /\ y.len = s.len + 1
    <3>1. n \in Nat /\ s.len + 1 \in Nat
      BY <1>1, <1>4
    <3> HIDE DEF n, s
    <3> QED
      BY <1>3, <1>4, <3>1 DEF Cells
  <2> HIDE DEF s, size, y, cap
  <2>6. more \in Seq(Cells) /\ Len(more) = size /\ \A k \in 1..s.len : more[k] = heap[s.array][k]
    <3>1. \A k \in 1..size : more[k] \in Cells
      BY <2>3, <2>4
    <3>2. \A k \in 1..s.len : k \in 1..size /\ k <= s.len
      BY <1>4, <2>2
    <3> QED
      BY <2>2, <3>1, <3>2
  <2> HIDE DEF more
  <2>7. /\ row \in Seq(Cells) /\ Len(row) = size /\ row[s.len + 1] = cell
        /\ \A k \in 1..s.len : row[k] = heap[s.array][k]
    <3>1. \A k \in 1..s.len : k # s.len + 1 /\ k \in 1..size
      BY <1>4, <2>2
    <3> QED
      BY <2>2, <2>6, <3>1
  <2> HIDE DEF row
  <2>8. /\ h0 \in Seq(Seq(Cells)) /\ Len(h0) = Len(heap)
        /\ \A b \in 1..Len(heap) : Len(h0[b]) = Len(heap[b])
        /\ h0[p.array][p.index] = y
        /\ \A b \in 1..Len(heap) : \A j \in 1..Len(heap[b]) :
              ~(b = p.array /\ j = p.index) => h0[b][j] = heap[b][j]
    BY <1>1, <2>5, RowChanged
  <2> HIDE DEF h0
  <2>9. h \in Seq(Seq(Cells)) /\ Len(h) = n /\ h[n] = row /\ \A a \in 1..Len(heap) : h[a] = h0[a]
    <3>1. Len(heap) \in Nat /\ row \in Seq(Cells) /\ h0 \in Seq(Seq(Cells)) /\ Len(h0) = Len(heap)
      BY <1>1, <2>7, <2>8
    <3> QED
      BY <3>1
  <2> HIDE DEF h
  <2>10. In(h, p) = y
    BY <1>1, <2>8, <2>9 DEF In
  <2>11. Appended(h, p, cell)
    <3>1. y.len <= Len(h[y.array]) /\ y.array \in 2..Len(h) /\ Len(h) >= Len(heap) /\ y.array > Len(heap)
      <4>1. Len(heap) \in Nat /\ Len(heap) >= 1 /\ Len(h) = n /\ h[n] = row /\ Len(row) = size
        BY <1>1, <2>7, <2>9
      <4>2. y.array = n /\ y.len = s.len + 1 /\ s.len \in Nat /\ size \in Nat /\ s.len + 1 \in 1..size
        BY <1>4, <2>2, <2>5
      <4>3. y.len <= Len(h[y.array])
        BY <4>1, <4>2
      <4>4. n = Len(heap) + 1
        OBVIOUS
      <4> HIDE DEF n, h
      <4> QED
        BY <4>1, <4>2, <4>3, <4>4
    <3>2. \A a \in 1..Len(heap) : Len(h[a]) = Len(heap[a])
      BY <2>8, <2>9
    <3>3. \A a \in 1..Len(heap) : \A k \in 1..Len(heap[a]) :
            ~(a = p.array /\ k = p.index) => h[a][k] = heap[a][k]
      BY <2>8, <2>9
    <3>4. h[y.array] = row
      BY <2>5, <2>9
    <3> HIDE DEF n
    <3> QED
      BY <2>5, <2>7, <2>9, <2>10, <3>1, <3>2, <3>3, <3>4 DEF Appended, s
  <2> QED
    BY <2>1, <2>11
<1> QED
  BY <1>8, <1>9

\* Where the nodes are once the slice of q is the one it has in h.
Moved(h, L, q) ==
    [i \in 1..Size |-> IF i # 1 /\ Parent(i) = q
                       THEN [array |-> In(h, L[q]).array, index |-> Nth(i)] ELSE L[i]]

\* Appending the next child of a node puts it at its place; of the nodes that
\* were there only children of the same node may move.
LEMMA AppendMore ==
  ASSUME LayoutOK, NEW D, NEW L, Placed(heap, D, L),
         NEW c \in (2..Size) \ D, NEW q \in D, Parent(c) = q,
         NEW p, p = L[q], NEW s, s = In(heap, p), Nth(c) = s.len + 1,
         NEW h, h = Append1(p, Cell(c)), NEW t, t = In(h, p),
         NEW M, M = Moved(h, L, q), NEW E, E = D \cup {c}
  PROVE  Placed(h, E, M) /\ M[c] = [array |-> t.array, index |-> t.len]
<1>1. /\ Size \in Nat \ {0} /\ \A i \in 2..Size : Parent(i) \in 1..Size /\ Parent(i) # i /\ Parent(i) < i
      /\ Parent(1) = 0
  <2>1. Size \in Nat \ {0} /\ Parent(1) = 0 /\ \A i \in 2..Size : Parent(i) \in 1..(i - 1)
    BY DEF LayoutOK
  <2> QED
    BY <2>1
<1>2. /\ heap \in Seq(Seq(Cells)) /\ Len(heap) >= 1 /\ Len(heap) \in Nat /\ Len(heap[1]) = 1
      /\ D \in SUBSET (1..Size) /\ 1 \in D
      /\ \A i \in D \ {1} : Parent(i) \in D
      /\ L \in [1..Size -> Places] /\ L[1] = Root
  BY DEF Placed
<1>3. \A i \in D : Has(heap, L[i]) /\ Sound(heap, i, In(heap, L[i]))
  BY DEF Placed
<1>4. \A i \in D \ {1} : L[i] = [array |-> In(heap, L[Parent(i)]).array, index |-> Nth(i)]
  BY DEF Placed
<1>5. \A i \in 2..Size : Parent(i) \in D => (i \in D <=> Nth(i) <= In(heap, L[Parent(i)]).len)
  BY DEF Placed
<1>6. \A i, j \in D : i # j /\ In(heap, L[i]).array = In(heap, L[j]).array => In(heap, L[i]).array = 0
  BY DEF Placed
<1>7. \A i \in 2..Size : i \in Kids(Parent(i)) /\ Nth(i) \in 1..Cardinality(Kids(Parent(i)))
  <2> TAKE i \in 2..Size
  <2>1. Parent(i) \in 1..Size
    BY <1>1
  <2>2. i \in Kids(Parent(i))
    BY <1>1 DEF Kids, Parent
  <2> QED
    BY <2>1, <2>2, KidsAre
<1>8. \A i \in 1..Size : Cardinality(Kids(i)) \in Nat
  BY KidsAre
<1>9. \A i \in 2..Size : Nth(i) \in Nat /\ Nth(i) >= 1 /\ Nth(i) <= Cardinality(Kids(Parent(i)))
  BY <1>1, <1>7, <1>8
<1>10. \A i \in D : /\ L[i].array \in 1..Len(heap) /\ L[i].index \in 1..Len(heap[L[i].array])
                    /\ In(heap, L[i]) \in Cells /\ In(heap, L[i]).node = i
                    /\ In(heap, L[i]).array \in Nat /\ In(heap, L[i]).len \in Nat
  <2> TAKE i \in D
  <2>1. L[i].array \in 1..Len(heap) /\ L[i].index \in 1..Len(heap[L[i].array]) /\ In(heap, L[i]).node = i
    BY <1>3 DEF Has, Sound
  <2>2. heap[L[i].array] \in Seq(Cells)
    BY <1>2, <2>1
  <2>3. In(heap, L[i]) \in Cells
    BY <2>1, <2>2 DEF In
  <2> QED
    BY <2>1, <2>3 DEF Cells
<1>11. p \in Places /\ q \in 1..Size
  BY <1>2
<1>12. s.array # p.array
  <2>1. CASE q = 1
    BY <1>2, <1>3, <2>1 DEF Sound, Root
  <2>2. CASE q # 1
    <3>1. q \in 2..Size
      BY <1>2, <2>2
    <3>2. Parent(q) \in D /\ Parent(q) # q /\ p.array = In(heap, L[Parent(q)]).array
      <4>1. L[q] = [array |-> In(heap, L[Parent(q)]).array, index |-> Nth(q)]
        BY <1>4, <2>2
      <4>2. L[q].array = In(heap, L[Parent(q)]).array
        BY <4>1
      <4> QED
        BY <1>1, <1>2, <2>2, <3>1, <4>2
    <3>3. p.array # 0
      BY <1>10
    <3> QED
      BY <1>6, <3>2, <3>3
  <2> QED
    BY <2>1, <2>2
<1>13. Appended(h, p, Cell(c))
  <2>1. Appendable(p)
    BY <1>2, <1>3, <1>11, <1>12 DEF Appendable, Sound
  <2>2. Cell(c) \in Cells
    BY DEF Cell, Cells
  <2> QED
    BY <2>1, <2>2, AppendDoes
<1>14. /\ h \in Seq(Seq(Cells)) /\ Len(h) >= Len(heap) /\ Len(h) \in Nat
       /\ \A a \in 1..Len(heap) : Len(h[a]) = Len(heap[a])
       /\ t.node = s.node /\ t.len = s.len + 1
       /\ t.array \in 2..Len(h) /\ t.len <= Len(h[t.array])
       /\ t.array = s.array \/ t.array > Len(heap)
       /\ h[t.array][s.len + 1] = Cell(c)
       /\ \A k \in 1..s.len : h[t.array][k] = heap[s.array][k]
  <2> QED
    BY <1>13 DEF Appended
<1>15. \A a \in 1..Len(heap) : \A k \in 1..Len(heap[a]) :
         ~(a = p.array /\ k = p.index) /\ ~(a = s.array /\ k = s.len + 1) => h[a][k] = heap[a][k]
  <2> QED
    BY <1>13 DEF Appended
<1>16. s \in Cells /\ s.node = q /\ s.array \in Nat /\ s.len \in Nat
  BY <1>10
\* What they say of lengths.
<1>len. /\ Len(heap) \in Nat /\ Len(heap) >= 1 /\ Len(h) \in Nat /\ Len(h) >= Len(heap)
        /\ t.array \in 2..Len(h) /\ t.len = s.len + 1 /\ s.len \in Nat
        /\ Len(h[t.array]) \in Nat /\ t.len <= Len(h[t.array])
  <2>1. h \in Seq(Seq(Cells)) /\ t.array \in 1..Len(h)
    <3>1. Len(h) \in Nat /\ t.array \in 2..Len(h)
      BY <1>14
    <3> QED
      BY <1>14, <3>1
  <2>2. h[t.array] \in Seq(Cells)
    BY <2>1
  <2>3. Len(h[t.array]) \in Nat
    BY <2>2
  <2> QED
    BY <1>2, <1>14, <1>16, <2>3, Zenon
<1>17. ASSUME NEW i \in D \ {q}
       PROVE  ~(L[i].array = s.array /\ L[i].index = s.len + 1) /\ ~(L[i].array = p.array /\ L[i].index = p.index)
  <2>1. i \in 1..Size /\ (i # 1 => i \in 2..Size)
    BY <1>2
  <2>2. ASSUME L[i].array = s.array, L[i].index = s.len + 1 PROVE FALSE
    <3>1. s.array # 0
      BY <1>10, <2>2
    <3>2. i # 1
      BY <1>2, <1>3, <2>2, <3>1 DEF Root, Sound
    <3>3. Parent(i) \in D /\ In(heap, L[Parent(i)]).array = s.array /\ Nth(i) = s.len + 1
      <4>1. L[i] = [array |-> In(heap, L[Parent(i)]).array, index |-> Nth(i)] /\ Parent(i) \in D
        BY <1>2, <1>4, <3>2
      <4>2. L[i].array = In(heap, L[Parent(i)]).array /\ L[i].index = Nth(i)
        BY <4>1
      <4> QED
        BY <2>2, <4>1, <4>2
    <3>4. Parent(i) = q
      BY <1>6, <3>1, <3>3
    <3>5. Nth(i) <= s.len
      BY <1>5, <2>1, <3>2, <3>4
    <3> QED
      BY <1>16, <3>3, <3>5
  <2>3. L[i].array = p.array /\ L[i].index = p.index => In(heap, L[i]) = s
    BY DEF In
  <2> QED
    BY <1>10, <1>16, <2>2, <2>3
<1>18. \A i \in D : Has(h, L[i])
  <2> TAKE i \in D
  <2>1. L[i].array \in 1..Len(heap) /\ L[i].index \in 1..Len(heap[L[i].array])
    BY <1>10
  <2>2. Len(h[L[i].array]) = Len(heap[L[i].array])
    BY <1>14, <2>1
  <2>3. L[i].array \in 1..Len(h)
    BY <1>len, <2>1
  <2> QED
    BY <2>1, <2>2, <2>3 DEF Has
<1>19. \A i \in D \ {q} : In(h, L[i]) = In(heap, L[i])
  <2> TAKE i \in D \ {q}
  <2>1. L[i].array \in 1..Len(heap) /\ L[i].index \in 1..Len(heap[L[i].array])
    BY <1>10
  <2>2. h[L[i].array][L[i].index] = heap[L[i].array][L[i].index]
    BY <1>15, <1>17, <2>1
  <2> QED
    BY <2>2 DEF In
<1>20. \A i \in 1..Size : M[i] = IF i # 1 /\ Parent(i) = q THEN [array |-> t.array, index |-> Nth(i)] ELSE L[i]
  BY DEF Moved
<1>21. M \in [1..Size -> Places]
  <2>1. t.array \in Nat
    BY <1>14
  <2>2. \A i \in 1..Size : i # 1 => [array |-> t.array, index |-> Nth(i)] \in Places
    BY <1>9, <2>1 DEF Places
  <2>3. \A i \in 1..Size : M[i] \in Places
    BY <1>2, <1>20, <2>2
  <2>4. M = [i \in 1..Size |-> M[i]]
    BY DEF Moved
  <2> QED
    BY <2>3, <2>4
<1>22. M[q] = p /\ M[1] = Root
  <2>1. q # 1 => Parent(q) # q
    BY <1>1, <1>2
  <2>2. 1 \in 1..Size
    BY <1>2
  <2> QED
    BY <1>2, <1>11, <1>20, <2>1, <2>2
<1>23. M[c] = [array |-> t.array, index |-> s.len + 1]
  BY <1>20
<1>24. ASSUME NEW i \in D \ {q}
       PROVE  In(h, M[i]) = In(heap, L[i]) /\ Has(h, M[i])
  <2>1. i \in 1..Size /\ (i # 1 => i \in 2..Size)
    BY <1>2
  <2>2. CASE i # 1 /\ Parent(i) = q
    <3>1. M[i] = [array |-> t.array, index |-> Nth(i)]
      BY <1>20, <2>1, <2>2
    <3>2. L[i] = [array |-> s.array, index |-> Nth(i)]
      BY <1>4, <2>2
    <3>3. Nth(i) \in 1..s.len
      BY <1>5, <1>9, <1>16, <2>1, <2>2
    <3>4. h[t.array][Nth(i)] = heap[s.array][Nth(i)]
      BY <1>14, <3>3
    <3>5. Nth(i) \in 1..Len(h[t.array]) /\ t.array \in 1..Len(h)
      <4>1. t.array \in 1..Len(h)
        BY <1>len
      <4>2. /\ Len(h[t.array]) \in Nat /\ s.len \in Nat
            /\ t.len = s.len + 1 /\ t.len <= Len(h[t.array])
        BY <1>len, Zenon
      <4>3. Nth(i) \in 1..Len(h[t.array])
        BY <3>3, <4>2
      <4> QED
        BY <4>1, <4>3
    <3>6. In(h, M[i]) = h[t.array][Nth(i)] /\ Has(h, M[i])
      <4>1. M[i].array = t.array /\ M[i].index = Nth(i)
        BY <3>1
      <4> QED
        BY <3>5, <4>1, Zenon DEF In, Has
    <3>7. In(heap, L[i]) = heap[s.array][Nth(i)]
      BY <3>2 DEF In
    <3> QED
      BY <3>4, <3>6, <3>7
  <2>3. CASE ~(i # 1 /\ Parent(i) = q)
    <3>1. M[i] = L[i]
      BY <1>20, <2>1, <2>3, Zenon
    <3>2. Has(h, L[i])
      BY <1>18
    <3> QED
      BY <1>19, <3>1, <3>2
  <2> QED
    BY <2>2, <2>3
<1>25. In(h, M[q]) = t /\ Has(h, M[q])
  <2>1. Has(h, p)
    BY <1>18, Zenon
  <2> QED
    BY <1>22, <2>1
<1>26. In(h, M[c]) = Cell(c) /\ Has(h, M[c])
  <2>1. s.len + 1 \in 1..Len(h[t.array]) /\ t.array \in 1..Len(h)
    BY <1>len
  <2>2. h[t.array][s.len + 1] = Cell(c)
    BY <1>14
  <2>3. M[c].array = t.array /\ M[c].index = s.len + 1
    BY <1>23
  <2> QED
    BY <2>1, <2>2, <2>3, Zenon DEF In, Has
<1>27. Nth(c) = s.len + 1 /\ t.len = Nth(c) /\ c \in 1..Size /\ c # q /\ c # 1
  BY <1>1, <1>14
<1>28. E \in SUBSET (1..Size) /\ 1 \in E /\ \A i \in E \ {1} : Parent(i) \in E
  BY <1>2, <1>27
<1>29. ASSUME NEW i \in E PROVE Has(h, M[i]) /\ Sound(h, i, In(h, M[i]))
  <2>1. CASE i = c
    BY <1>8, <1>26, <1>27, <2>1 DEF Sound, Cell
  <2>2. CASE i = q
    <3>1. t.len <= Cardinality(Kids(q))
      BY <1>9, <1>27
    <3>2. t.array # 0 /\ t.array \in 2..Len(h)
      BY <1>14
    <3> QED
      BY <1>14, <1>16, <1>25, <2>2, <3>1, <3>2 DEF Sound
  <2>3. CASE i # c /\ i # q
    <3>1. i \in D \ {q}
      BY <2>3
    <3>2. In(h, M[i]) = In(heap, L[i]) /\ Has(h, M[i])
      BY <1>24, <3>1
    <3>3. Sound(h, i, In(heap, L[i]))
      <4>1. Sound(heap, i, In(heap, L[i]))
        BY <1>3, <3>1
      <4> DEFINE x == In(heap, L[i])
      <4>2. x.array \in 2..Len(heap) => x.array \in 2..Len(h) /\ Len(h[x.array]) = Len(heap[x.array])
        <5>1. x.array \in 2..Len(heap) => x.array \in 1..Len(heap) /\ x.array \in 2..Len(h)
          <6> HIDE DEF x
          <6> QED
            BY <1>len
        <5> HIDE DEF x
        <5> QED
          BY <1>14, <5>1
      <4> HIDE DEF x
      <4> QED
        BY <4>1, <4>2 DEF Sound, x
    <3> QED
      BY <3>2, <3>3
  <2> QED
    BY <2>1, <2>2, <2>3
<1>30. \A i \in D \ {q} : In(h, M[i]).array = In(heap, L[i]).array /\ In(h, M[i]).len = In(heap, L[i]).len
  BY <1>24
<1>31. ASSUME NEW i \in E \ {1} PROVE M[i] = [array |-> In(h, M[Parent(i)]).array, index |-> Nth(i)]
  <2>1. i \in 2..Size
    BY <1>28
  <2>2. CASE Parent(i) = q
    BY <1>20, <1>25, <2>1, <2>2
  <2>3. CASE Parent(i) # q
    <3>1. i \in D \ {1} /\ M[i] = L[i] /\ Parent(i) \in D \ {q}
      BY <1>2, <1>20, <2>1, <2>3
    <3> QED
      BY <1>4, <1>30, <3>1
  <2> QED
    BY <2>2, <2>3
<1>32. ASSUME NEW i \in 2..Size, Parent(i) \in E
       PROVE  i \in E <=> Nth(i) <= In(h, M[Parent(i)]).len
  <2>1. CASE Parent(i) = c
    <3>1. In(h, M[Parent(i)]).len = 0 /\ i # c
      BY <1>1, <1>26, <2>1 DEF Cell
    <3>2. i \notin D
      BY <1>2, <2>1
    <3> QED
      BY <1>9, <3>1, <3>2
  <2>2. CASE Parent(i) = q
    <3>1. i \in Kids(q) /\ c \in Kids(q)
      BY <1>7, <2>2
    <3>2. Nth(i) = Nth(c) <=> i = c
      BY <1>11, <3>1, SiblingsOrder
    <3>3. i \in D <=> Nth(i) <= s.len
      BY <1>5, <2>2
    <3> QED
      BY <1>9, <1>16, <1>25, <1>27, <2>2, <3>2, <3>3
  <2>3. CASE Parent(i) # c /\ Parent(i) # q
    <3>1. Parent(i) \in D \ {q} /\ i # c
      BY <1>32, <2>3
    <3> QED
      BY <1>5, <1>30, <3>1
  <2> QED
    BY <2>1, <2>2, <2>3
<1>33. ASSUME NEW i \in E, NEW j \in E, i # j, In(h, M[i]).array = In(h, M[j]).array
       PROVE  In(h, M[i]).array = 0
  <2>1. \A k \in D \ {q} : In(h, M[k]).array # t.array
    <3>0. /\ Len(heap) \in Nat /\ t.array \in Nat /\ t.array # 0
          /\ t.array = s.array \/ t.array > Len(heap)
      <4>1. Len(h) \in Nat /\ t.array \in 2..Len(h) /\ (t.array = s.array \/ t.array > Len(heap))
        BY <1>14
      <4>2. Len(heap) \in Nat
        BY <1>2
      <4> QED
        BY <4>1, <4>2
    <3> TAKE k \in D \ {q}
    <3>1. In(h, M[k]).array = In(heap, L[k]).array
      BY <1>30
    <3>2. In(heap, L[k]).array <= Len(heap) /\ In(heap, L[k]).array \in Nat
      BY <1>2, <1>3, <1>10 DEF Sound
    <3>3. In(heap, L[k]).array = s.array => s.array = 0
      BY <1>6
    <3> QED
      BY <3>0, <3>1, <3>2, <3>3
  <2>2. In(h, M[q]).array = t.array /\ In(h, M[c]).array = 0
    BY <1>25, <1>26 DEF Cell
  <2>3. CASE i \in D \ {q} /\ j \in D \ {q}
    BY <1>6, <1>30, <1>33, <2>3
  <2>4. CASE ~(i \in D \ {q} /\ j \in D \ {q})
    BY <1>33, <2>1, <2>2, <2>4
  <2> QED
    BY <2>3, <2>4
<1>34. Len(h) >= 1 /\ Len(h[1]) = 1
  <2>1. Len(h) >= 1 /\ 1 \in 1..Len(heap)
    <3>1. Len(heap) \in Nat /\ Len(heap) >= 1 /\ Len(h) \in Nat /\ Len(h) >= Len(heap)
      BY <1>len, Zenon
    <3> QED
      BY <3>1
  <2>2. Len(h[1]) = Len(heap[1])
    <3>1. \A a \in 1..Len(heap) : Len(h[a]) = Len(heap[a])
      BY <1>14, Zenon
    <3> QED
      BY <2>1, <3>1, Zenon
  <2> QED
    BY <1>2, <2>1, <2>2, Zenon
<1>35. Placed(h, E, M)
  <2> QED
    BY <1>14, <1>21, <1>22, <1>28, <1>29, <1>31, <1>32, <1>33, <1>34 DEF Placed
<1> QED
  BY <1>23, <1>27, <1>35

\* The same, of the cells of the heap and of what append answers.
LEMMA AppendPlaced ==
  ASSUME LayoutOK, NEW D, NEW L, Placed(heap, D, L),
         NEW c \in (2..Size) \ D, NEW q \in D, Parent(c) = q,
         Nth(c) = In(heap, L[q]).len + 1,
         NEW h, h = Append1(L[q], Cell(c))
  PROVE  /\ Placed(h, D \cup {c}, Moved(h, L, q))
         /\ Moved(h, L, q)[c] = [array |-> In(h, L[q]).array, index |-> In(h, L[q]).len]
  BY AppendMore

----
(* Menus: the frames of convertLayout.                                     *)

ConvertFrames == [source : 1..Size, target : Places, depth : Nat]

\* The children to come: every child of a node that is there has a frame,
\* which knows its parent's place, and the deepest are on top, the first of
\* siblings uppermost.
Queued(s, D, L) ==
    /\ s \in Seq(ConvertFrames)
    /\ \A a \in 1..Len(s) :
          /\ s[a].source \in (2..Size) \ D /\ Parent(s[a].source) \in D
          /\ s[a].target = L[Parent(s[a].source)]
          /\ s[a].depth = Depth[s[a].source]
    /\ \A i \in (2..Size) \ D : Parent(i) \in D => \E a \in 1..Len(s) : s[a].source = i
    /\ \A a, b \in 1..Len(s) : a < b =>
          /\ Depth[s[a].source] <= Depth[s[b].source]
          /\ Parent(s[a].source) = Parent(s[b].source) => s[b].source < s[a].source

\* What is left of a stack whose top frame is taken.
LEMMA PopIs ==
  ASSUME NEW S, NEW s \in Seq(S), s # <<>>
  PROVE  /\ Len(s) \in Nat \ {0} /\ Last(s) = s[Len(s)] /\ Last(s) \in S
         /\ Front(s) \in Seq(S) /\ Len(Front(s)) = Len(s) - 1
         /\ \A a \in 1..(Len(s) - 1) : Front(s)[a] = s[a]
<1>1. Len(s) \in Nat \ {0}
  OBVIOUS
<1>2. Last(s) = s[Len(s)] /\ Last(s) \in S
  BY <1>1 DEF Last
<1>3. /\ Front(s) \in Seq(S) /\ Len(Front(s)) = Len(s) - 1
      /\ \A a \in 1..(Len(s) - 1) : Front(s)[a] = s[a]
  <2> DEFINE n == Len(s) - 1
  <2>1. n \in Nat /\ Front(s) = SubSeq(s, 1, n)
    BY <1>1 DEF Front
  <2>2. \A a \in 1..n : s[a] \in S
    BY <1>1
  <2>3. SubSeq(s, 1, n) \in Seq(S) /\ Len(SubSeq(s, 1, n)) = n /\ \A a \in 1..n : SubSeq(s, 1, n)[a] = s[a]
    <3> HIDE DEF n
    <3>1. SubSeq(s, 1, n) = [a \in 1..n |-> s[a]]
      BY <2>1, <2>2
    <3> QED
      BY <2>1, <2>2, <3>1
  <2> QED
    BY <2>1, <2>3
<1> QED
  BY <1>1, <1>2, <1>3

\* F has a frame for each child of i, the first child's last.
Lists(F, i, target, depth) ==
    /\ F \in Seq(ConvertFrames) /\ Len(F) \in Nat
    /\ \A k \in 1..Len(F) : F[k].source \in Kids(i) /\ F[k].target = target /\ F[k].depth = depth
    /\ \A c \in Kids(i) : \E k \in 1..Len(F) : F[k].source = c
    /\ \A a, b \in 1..Len(F) : a < b => F[b].source < F[a].source

\* The frames that convertLayout pushes for a node are such a list.
LEMMA FramesAre ==
  ASSUME LayoutOK, NEW i \in 1..Size, NEW target \in Places, NEW depth \in Nat
  PROVE  Lists(Frames(i, target, depth), i, target, depth)
<1> DEFINE N == Cardinality(Kids(i))
           kids == Children(i)
           F == Frames(i, target, depth)
<1>1. N \in Nat /\ Kids(i) \in SUBSET (1..Size)
  BY KidsAre
<1>2. /\ Len(kids) = N
      /\ \A n \in 1..N : kids[n] \in Kids(i) /\ Nth(kids[n]) = n
      /\ \A c \in Kids(i) : kids[Nth(c)] = c /\ Nth(c) \in 1..N
  <2>1. \A c \in Kids(i) : Nth(c) \in 1..N
    BY KidsAre
  <2> QED
    BY <2>1, ChildrenAre
<1>3. F = [k \in 1..N |-> [source |-> kids[N + 1 - k], target |-> target, depth |-> depth]]
  BY <1>2 DEF Frames
<1> HIDE DEF N, kids, F
<1>4. \A k \in 1..N : N + 1 - k \in 1..N /\ N + 1 - (N + 1 - k) = k
  BY <1>1
<1>5. \A k \in 1..N : F[k].source = kids[N + 1 - k] /\ F[k].target = target /\ F[k].depth = depth
  BY <1>3
<1>6. \A k \in 1..N : F[k].source \in Kids(i)
  BY <1>2, <1>4, <1>5
<1>7. \A k \in 1..N : F[k] \in ConvertFrames
  BY <1>1, <1>2, <1>3, <1>4 DEF ConvertFrames
<1>8. F \in Seq(ConvertFrames) /\ Len(F) = N
  <2>1. F = [k \in 1..N |-> F[k]]
    BY <1>3
  <2> QED
    BY <1>1, <1>7, <2>1
<1>9. ASSUME NEW c \in Kids(i) PROVE \E k \in 1..N : F[k].source = c
  <2>1. Nth(c) \in 1..N /\ kids[Nth(c)] = c
    BY <1>2
  <2>2. N + 1 - Nth(c) \in 1..N /\ N + 1 - (N + 1 - Nth(c)) = Nth(c)
    BY <1>4, <2>1
  <2>3. F[N + 1 - Nth(c)].source = c
    BY <1>5, <2>1, <2>2
  <2> QED
    BY <2>2, <2>3
<1>10. ASSUME NEW a \in 1..N, NEW b \in 1..N, a < b PROVE F[b].source < F[a].source
  <2>1. F[a].source = kids[N + 1 - a] /\ F[b].source = kids[N + 1 - b]
    BY <1>5
  <2>2. N + 1 - a \in 1..N /\ N + 1 - b \in 1..N /\ N + 1 - b < N + 1 - a
    BY <1>1, <1>10
  <2>3. Nth(kids[N + 1 - b]) < Nth(kids[N + 1 - a])
    BY <1>2, <2>2
  <2>4. kids[N + 1 - b] \in Kids(i) /\ kids[N + 1 - a] \in Kids(i)
    BY <1>2, <2>2
  <2> QED
    BY <2>1, <2>3, <2>4, SiblingsOrder
<1>11. Lists(F, i, target, depth)
  BY <1>1, <1>5, <1>6, <1>8, <1>9, <1>10 DEF Lists
<1> QED
  BY <1>11 DEF F

\* Without frames every node is there.
LEMMA QueuedEmpty ==
  ASSUME LayoutOK, NEW D, NEW L, Placed(heap, D, L), Queued(<<>>, D, L)
  PROVE  D = 1..Size
<1>1. D \in SUBSET (1..Size) /\ 1 \in D
  BY DEF Placed
<1>2. \A i \in 2..Size : Parent(i) \in D => i \in D
  BY DEF Queued
<1> QED
  BY <1>1, <1>2, TreeInduction

\* The top frame is for the next child of its node.
LEMMA QueuedTop ==
  ASSUME LayoutOK, NEW D, NEW L, Placed(heap, D, L),
         NEW s, Queued(s, D, L), s # <<>>, NEW c, c = Last(s).source
  PROVE  /\ c \in (2..Size) \ D /\ Parent(c) \in D
         /\ Last(s).target = L[Parent(c)] /\ Last(s).depth = Depth[c]
         /\ Nth(c) = In(heap, L[Parent(c)]).len + 1
<1> DEFINE n == Len(s)
           q == Parent(c)
           m == In(heap, L[q]).len
<1>1. s \in Seq(ConvertFrames)
  BY DEF Queued
<1>2. n \in Nat \ {0} /\ Last(s) = s[n]
  BY <1>1, PopIs
<1>3. c \in (2..Size) \ D /\ q \in D /\ Last(s).target = L[q] /\ Last(s).depth = Depth[c]
  BY <1>2 DEF Queued
<1>4. D \in SUBSET (1..Size) /\ Size \in Nat
  BY DEF Placed, LayoutOK
<1>5. c \in Kids(q)
  BY <1>3 DEF Kids, Parent
<1>6. Nth(c) \in 1..Cardinality(Kids(q)) /\ Cardinality(Kids(q)) \in Nat
  BY <1>3, <1>4, <1>5, KidsAre
<1>7. m \in Nat
  <2>1. Has(heap, L[q]) /\ heap \in Seq(Seq(Cells))
    BY <1>3 DEF Placed
  <2>2. heap[L[q].array] \in Seq(Cells) /\ L[q].index \in 1..Len(heap[L[q].array])
    BY <2>1 DEF Has
  <2>3. In(heap, L[q]) \in Cells
    BY <2>2 DEF In
  <2> QED
    BY <2>3 DEF Cells
<1>8. ~(Nth(c) <= m)
  BY <1>3 DEF Placed
<1>9. ASSUME m + 1 < Nth(c) PROVE FALSE
  <2>1. m + 1 \in 1..Cardinality(Kids(q))
    BY <1>6, <1>7, <1>9
  <2>2. PICK d \in Kids(q) : Nth(d) = m + 1
    BY <1>3, <1>4, <2>1, KidsAre
  <2>3. d \in 2..Size /\ Parent(d) = q
    BY <1>3, <1>4, <2>2, KidsAre
  <2>4. d \notin D
    <3>1. ~(Nth(d) <= m)
      BY <1>7, <2>2
    <3> QED
      BY <1>3, <2>3, <3>1 DEF Placed
  <2>5. PICK a \in 1..n : s[a].source = d
    BY <1>3, <2>3, <2>4 DEF Queued
  <2>6. d < c
    <3>1. Nth(d) < Nth(c)
      BY <1>9, <2>2
    <3> QED
      BY <1>3, <1>4, <1>5, <3>1, SiblingsOrder
  <2>7. a < n
    <3>1. a # n
      BY <1>2, <1>4, <2>3, <2>5, <2>6, <1>3
    <3> QED
      BY <1>2, <3>1
  <2>8. s[n].source < s[a].source
    <3>1. \A x, y \in 1..Len(s) : x < y =>
            (Parent(s[x].source) = Parent(s[y].source) => s[y].source < s[x].source)
      BY DEF Queued
    <3>2. n \in 1..Len(s) /\ Parent(s[a].source) = Parent(s[n].source)
      BY <1>2, <2>3, <2>5
    <3> QED
      BY <2>7, <3>1, <3>2
  <2> QED
    BY <1>2, <1>3, <1>4, <2>3, <2>5, <2>6, <2>8
<1>10. Nth(c) = m + 1
  BY <1>6, <1>7, <1>8, <1>9
<1> QED
  BY <1>3, <1>10

\* The stack s with the frames F in the place of its top frame.
Popped(s, F) == Front(s) \o F

\* The stack rest of frames S is the first n - 1 frames of s with the frames F on
\* top.
Spliced(S, rest, s, n, F) ==
    /\ rest \in Seq(S) /\ Len(rest) = n - 1 + Len(F)
    /\ \A a \in 1..(n - 1) : rest[a] = s[a]
    /\ \A a \in n..Len(rest) : rest[a] = F[a - n + 1] /\ a - n + 1 \in 1..Len(F)

\* Taking the top frame off and pushing its node's frames is such a splice.
LEMMA PoppedSpliced ==
  ASSUME NEW S, NEW s \in Seq(S), s # <<>>, NEW F \in Seq(S)
  PROVE  Spliced(S, Popped(s, F), s, Len(s), F)
<1> DEFINE n == Len(s)
<1>1. n \in Nat \ {0}
  BY PopIs
<1>2. /\ Front(s) \in Seq(S) /\ Len(Front(s)) = n - 1
      /\ \A a \in 1..(n - 1) : Front(s)[a] = s[a]
  BY <1>1, PopIs
<1>3. PICK p \in Seq(S) : p = Front(s)
  BY <1>2
<1>4. /\ p \in Seq(S) /\ Len(p) = n - 1
      /\ \A a \in 1..(n - 1) : p[a] = s[a]
  BY <1>2, <1>3
<1>5. Len(F) \in Nat
  OBVIOUS
<1> HIDE DEF n
<1>6. /\ p \o F \in Seq(S) /\ Len(p \o F) = n - 1 + Len(F)
      /\ \A k \in 1..(n - 1 + Len(F)) : (p \o F)[k] = IF k <= n - 1 THEN p[k] ELSE F[k - (n - 1)]
  <2>1. /\ p \o F \in Seq(S) /\ Len(p \o F) = Len(p) + Len(F)
        /\ \A k \in 1..(Len(p) + Len(F)) : (p \o F)[k] = IF k <= Len(p) THEN p[k] ELSE F[k - Len(p)]
    BY <1>4, ConcatProperties, Zenon
  <2> QED
    BY <1>4, <2>1, Zenon
<1>7. PICK r : r = p \o F
  OBVIOUS
<1>8. /\ r \in Seq(S) /\ Len(r) = n - 1 + Len(F)
      /\ \A k \in 1..(n - 1 + Len(F)) : r[k] = IF k <= n - 1 THEN p[k] ELSE F[k - (n - 1)]
  BY <1>6, <1>7
<1>9. ASSUME NEW a \in 1..(n - 1) PROVE r[a] = s[a]
  <2>1. a \in 1..(n - 1 + Len(F)) /\ a <= n - 1
    BY <1>1, <1>5
  <2> QED
    BY <1>4, <1>8, <2>1
<1>10. ASSUME NEW a \in n..Len(r) PROVE r[a] = F[a - n + 1] /\ a - n + 1 \in 1..Len(F)
  <2>1. /\ a \in 1..(n - 1 + Len(F)) /\ ~(a <= n - 1)
        /\ a - (n - 1) = a - n + 1 /\ a - n + 1 \in 1..Len(F)
    BY <1>1, <1>5, <1>8
  <2> QED
    BY <1>8, <2>1
<1>11. Spliced(S, r, s, n, F)
  BY <1>8, <1>9, <1>10 DEF Spliced
<1> QED
  BY <1>3, <1>7, <1>11 DEF n, Popped

\* The frames that are left still know their parents' places when the top
\* frame's node is appended: only frames for its children would not, and they
\* were deeper than the top.
LEMMA QueuedMore ==
  ASSUME LayoutOK, NEW D, NEW L, Placed(heap, D, L),
         NEW s, Queued(s, D, L), NEW n \in Nat \ {0}, n = Len(s),
         NEW c \in (2..Size) \ D, Parent(c) \in D, c = s[n].source, s[n].depth = Depth[c],
         NEW h, NEW M, M = Moved(h, L, Parent(c)), NEW target, target = M[c],
         NEW F, NEW d, d = Depth[c] + 1, Lists(F, c, target, d),
         NEW rest, Spliced(ConvertFrames, rest, s, n, F),
         NEW E, E = D \cup {c}
  PROVE  Queued(rest, E, M)
<1> DEFINE q == Parent(c)
<1>1. n \in Nat \ {0}
  OBVIOUS
<1>3. c \in (2..Size) \ D /\ q \in D /\ c = s[n].source
  OBVIOUS
<1>4. /\ D \in SUBSET (1..Size) /\ Size \in Nat
      /\ \A i \in 2..Size : Parent(i) \in 1..Size /\ Parent(i) # i
      /\ \A i \in D \ {1} : Parent(i) \in D
  <2>1. D \in SUBSET (1..Size) /\ Size \in Nat /\ \A i \in D \ {1} : Parent(i) \in D
    BY DEF Placed, LayoutOK
  <2>2. \A i \in 2..Size : Parent(i) \in 1..(i - 1)
    BY DEF LayoutOK
  <2> QED
    BY <2>1, <2>2
<1>5. c \in 1..Size /\ Depth[c] \in Nat /\ d = Depth[c] + 1 /\ d \in Nat
  <2>1. c \in 1..Size
    BY <1>3, <1>4
  <2> QED
    BY <1>3, <2>1, DepthIs
<1>6. /\ F \in Seq(ConvertFrames) /\ Len(F) \in Nat
      /\ \A k \in 1..Len(F) : F[k].source \in Kids(c) /\ F[k].target = target /\ F[k].depth = d
      /\ \A i \in Kids(c) : \E k \in 1..Len(F) : F[k].source = i
      /\ \A a, b \in 1..Len(F) : a < b => F[b].source < F[a].source
  BY DEF Lists
<1>7. Kids(c) = {i \in 2..Size : Parent(i) = c}
  BY <1>5, KidsAre
<1>8. /\ rest \in Seq(ConvertFrames) /\ Len(rest) = n - 1 + Len(F)
      /\ \A a \in 1..(n - 1) : rest[a] = s[a]
      /\ \A a \in n..Len(rest) : rest[a] = F[a - n + 1] /\ a - n + 1 \in 1..Len(F)
  BY DEF Spliced
<1>9. \A i \in 1..Size : M[i] = IF i # 1 /\ Parent(i) = q
                               THEN [array |-> In(h, L[q]).array, index |-> Nth(i)] ELSE L[i]
  BY DEF Moved
<1>10. target = M[c]
  OBVIOUS
\* The frames that were there.
<1>11. ASSUME NEW a \in 1..(n - 1)
       PROVE  /\ s[a].source \in (2..Size) \ D /\ Parent(s[a].source) \in D
              /\ s[a].target = L[Parent(s[a].source)] /\ s[a].depth = Depth[s[a].source]
              /\ Depth[s[a].source] <= Depth[c]
              /\ Parent(s[a].source) = q => c < s[a].source
  <2>1. a \in 1..n /\ n \in 1..n /\ a < n
    BY <1>1
  <2> HIDE DEF q
  <2> QED
    BY <1>3, <2>1 DEF Queued, q
<1>12. ASSUME NEW a \in 1..(n - 1)
       PROVE  s[a].source # c /\ s[a].target = M[Parent(s[a].source)]
  <2> DEFINE i == s[a].source
             j == Parent(i)
  <2>1. i \in (2..Size) \ D /\ j \in D /\ s[a].target = L[j] /\ Depth[i] <= Depth[c] /\ (j = q => c < i)
    BY <1>11
  <2> HIDE DEF i
  <2>2. i # c
    BY <1>4, <2>1, <1>5
  <2>3. ~(j # 1 /\ Parent(j) = q)
    <3> SUFFICES ASSUME j # 1, Parent(j) = q PROVE FALSE
      OBVIOUS
    <3>1. j \in 2..Size /\ q \in 1..Size
      BY <1>3, <1>4, <2>1
    <3>2. Depth[j] = 1 + Depth[q] /\ Depth[i] = 1 + Depth[j] /\ Depth[c] = 1 + Depth[q] /\ Depth[q] \in Nat
      BY <1>3, <2>1, <3>1, DepthIs
    <3> QED
      BY <2>1, <3>2
  <2>4. M[j] = L[j]
    BY <1>4, <1>9, <2>1, <2>3
  <2> QED
    BY <2>1, <2>2, <2>4 DEF i
\* The frames of the new node's children.
<1>13. ASSUME NEW a \in n..Len(rest)
       PROVE  /\ rest[a].source \in (2..Size) \ E /\ Parent(rest[a].source) = c
              /\ rest[a].target = M[c] /\ rest[a].depth = Depth[rest[a].source]
              /\ Depth[rest[a].source] = Depth[c] + 1
  <2> DEFINE i == rest[a].source
  <2>1. i \in Kids(c) /\ rest[a].target = target /\ rest[a].depth = d
    <3>1. PICK k \in 1..Len(F) : rest[a] = F[k]
      BY <1>8
    <3> QED
      BY <1>6, <3>1
  <2>2. i \in 2..Size /\ Parent(i) = c /\ i # c
    BY <1>4, <1>7, <2>1
  <2>3. i \notin D
    <3>1. i # 1
      BY <2>2
    <3> HIDE DEF i
    <3> QED
      BY <1>3, <1>4, <2>2, <3>1
  <2>4. Depth[i] = Depth[c] + 1
    <3>1. Depth[i] = 1 + Depth[Parent(i)]
      BY <2>2, DepthIs
    <3> QED
      BY <1>5, <2>2, <3>1
  <2> QED
    BY <1>5, <1>10, <2>1, <2>2, <2>3, <2>4
<1>14. \A a \in 1..Len(rest) : a \in 1..(n - 1) \/ a \in n..Len(rest)
  BY <1>1
<1>15. ASSUME NEW a \in 1..Len(rest)
       PROVE  /\ rest[a].source \in (2..Size) \ E /\ Parent(rest[a].source) \in E
              /\ rest[a].target = M[Parent(rest[a].source)] /\ rest[a].depth = Depth[rest[a].source]
  <2>1. CASE a \in 1..(n - 1)
    BY <1>8, <1>11, <1>12, <2>1
  <2>2. CASE a \in n..Len(rest)
    BY <1>13, <2>2
  <2> QED
    BY <1>14, <2>1, <2>2
<1>16. ASSUME NEW i \in (2..Size) \ E, Parent(i) \in E
       PROVE  \E a \in 1..Len(rest) : rest[a].source = i
  <2>1. CASE Parent(i) = c
    <3>1. PICK k \in 1..Len(F) : F[k].source = i
      BY <1>6, <1>7, <2>1
    <3>2. n - 1 + k \in n..Len(rest) /\ n - 1 + k \in 1..Len(rest) /\ (n - 1 + k) - n + 1 = k
      BY <1>1, <1>6, <1>8
    <3>3. rest[n - 1 + k] = F[k]
      BY <1>8, <3>2
    <3> QED
      BY <3>1, <3>2, <3>3
  <2>2. CASE Parent(i) # c
    <3>1. PICK a \in 1..n : s[a].source = i
      <4>1. i \in (2..Size) \ D /\ Parent(i) \in D
        BY <1>16, <2>2
      <4> QED
        BY <4>1 DEF Queued
    <3>2. a \in 1..(n - 1)
      BY <1>1, <1>3, <3>1, <1>16
    <3>3. a \in 1..Len(rest)
      BY <1>1, <1>6, <1>8, <3>2
    <3>4. rest[a].source = i
      BY <1>8, <3>1, <3>2
    <3> QED
      BY <3>3, <3>4
  <2> QED
    BY <2>1, <2>2
<1>17. ASSUME NEW a \in 1..Len(rest), NEW b \in 1..Len(rest), a < b
       PROVE  /\ Depth[rest[a].source] <= Depth[rest[b].source]
              /\ Parent(rest[a].source) = Parent(rest[b].source) => rest[b].source < rest[a].source
  <2>1. CASE b \in 1..(n - 1)
    <3>1. a \in 1..(n - 1) /\ a \in 1..n /\ b \in 1..n
      BY <1>1, <1>17, <2>1
    <3>2. /\ Depth[s[a].source] <= Depth[s[b].source]
          /\ Parent(s[a].source) = Parent(s[b].source) => s[b].source < s[a].source
      BY <1>17, <3>1 DEF Queued
    <3> QED
      BY <1>8, <2>1, <3>1, <3>2
  <2>2. CASE a \in 1..(n - 1) /\ b \in n..Len(rest)
    <3>1. rest[a] = s[a] /\ Depth[rest[b].source] = Depth[c] + 1 /\ Parent(rest[b].source) = c
      BY <1>8, <1>13, <2>2
    <3>2. Depth[s[a].source] <= Depth[c] /\ Parent(s[a].source) \in D
      BY <1>11, <2>2
    <3>3. Depth[s[a].source] \in Nat
      <4>1. s[a].source \in 2..Size
        BY <1>11, <2>2
      <4>2. s[a].source \in 1..Size
        BY <4>1
      <4> QED
        BY <4>2, DepthIs
    <3>4. Parent(s[a].source) # c
      BY <1>3, <3>2
    <3>5. Depth[s[a].source] <= Depth[c] + 1
      <4>1. \A x, y \in Nat : x <= y => x <= y + 1
        OBVIOUS
      <4> QED
        BY <1>5, <3>2, <3>3, <4>1, Zenon
    <3> QED
      BY <3>1, <3>4, <3>5
  <2>3. CASE a \in n..Len(rest) /\ b \in n..Len(rest)
    <3>1. a - n + 1 < b - n + 1 /\ a - n + 1 \in 1..Len(F) /\ b - n + 1 \in 1..Len(F)
      BY <1>1, <1>8, <1>17, <2>3
    <3>2. rest[b].source < rest[a].source
      <4>1. PICK x \in 1..Len(F), y \in 1..Len(F) : x = a - n + 1 /\ y = b - n + 1
        BY <3>1
      <4>2. rest[a] = F[x] /\ rest[b] = F[y] /\ x < y
        BY <1>8, <2>3, <3>1, <4>1, Zenon
      <4> QED
        BY <1>6, <4>2, Zenon
    <3>3. Depth[rest[a].source] = Depth[c] + 1 /\ Depth[rest[b].source] = Depth[c] + 1
      BY <1>13, <2>3
    <3> QED
      BY <1>5, <3>2, <3>3
  <2>4. ~(a \in n..Len(rest) /\ b \in 1..(n - 1))
    BY <1>1, <1>17
  <2> QED
    BY <1>14, <2>1, <2>2, <2>3, <2>4
<1>18. Queued(rest, E, M)
  <2> QED
    BY <1>8, <1>15, <1>16, <1>17 DEF Queued
<1> QED
  BY <1>18

\* The same, of the stack as convertLayout leaves it.
LEMMA QueuedAfter ==
  ASSUME LayoutOK, NEW D, NEW L, Placed(heap, D, L),
         NEW s, Queued(s, D, L), s # <<>>, NEW c, c = Last(s).source,
         NEW h, NEW target \in Places, target = Moved(h, L, Parent(c))[c],
         NEW rest, rest = Popped(s, Frames(c, target, Last(s).depth + 1))
  PROVE  Queued(rest, D \cup {c}, Moved(h, L, Parent(c)))
<1> DEFINE n == Len(s)
           d == Last(s).depth + 1
           F == Frames(c, target, d)
<1>1. s \in Seq(ConvertFrames) /\ n \in Nat \ {0} /\ Last(s) = s[n]
  <2>1. s \in Seq(ConvertFrames)
    BY DEF Queued
  <2> QED
    BY <2>1, PopIs
<1>2. c \in (2..Size) \ D /\ Parent(c) \in D /\ Last(s).depth = Depth[c] /\ c = s[n].source
  BY <1>1, QueuedTop
<1>3. c \in 1..Size /\ Depth[c] \in Nat /\ d = Depth[c] + 1 /\ d \in Nat
  <2>1. c \in 1..Size
    BY <1>2
  <2> QED
    BY <1>2, <2>1, DepthIs
<1> HIDE DEF d
<1>4. Lists(F, c, target, d)
  BY <1>3, FramesAre
<1>5. F \in Seq(ConvertFrames)
  BY <1>4 DEF Lists
<1>6. rest = Popped(s, F)
  BY DEF F, d
<1>7. Spliced(ConvertFrames, rest, s, n, F)
  <2> HIDE DEF F
  <2> QED
    BY <1>1, <1>5, <1>6, PoppedSpliced
<1> HIDE DEF F, n
<1>8. s[n].depth = Depth[c]
  BY <1>1, <1>2
<1>9. n = Len(s)
  BY DEF n
<1> QED
  BY <1>1, <1>2, <1>3, <1>4, <1>7, <1>8, <1>9, QueuedMore

----
(* Menus: the layout does not change.                                      *)

\* What is defined on the layout is the same after a step that keeps it.
LEMMA LayoutKept ==
  ASSUME layout' = layout
  PROVE  /\ Size' = Size /\ LayoutOK' = LayoutOK /\ Depth' = Depth /\ MenuValid' = MenuValid
         /\ \A i : Parent(i)' = Parent(i) /\ Kids(i)' = Kids(i) /\ Nth(i)' = Nth(i)
         /\ \A i : IconData(i)' = IconData(i)
         /\ \A V : IconBytes(V)' = IconBytes(V)
<1>1. Size' = Size
  BY DEF Size
<1>2. ASSUME NEW i PROVE Parent(i)' = Parent(i) /\ Kids(i)' = Kids(i)
  BY <1>1 DEF Parent, Kids
<1>3. ASSUME NEW i PROVE Nth(i)' = Nth(i)
  BY <1>1 DEF Nth, Kids
<1>4. Depth' = Depth
  BY <1>1 DEF Depth
<1>5. LayoutOK' = LayoutOK
  BY <1>1 DEF LayoutOK, Parent
<1>6. ASSUME NEW i PROVE IconData(i)' = IconData(i) /\ Converts(i)' = Converts(i)
  BY DEF IconData, Converts
<1>7. ASSUME NEW V PROVE IconBytes(V)' = IconBytes(V)
  BY <1>6 DEF IconBytes
<1>8. MenuValid' = MenuValid
  BY <1>1, <1>4, <1>6, <1>7 DEF MenuValid
<1> QED
  BY <1>1, <1>2, <1>3, <1>4, <1>5, <1>6, <1>7, <1>8

----
(* Menus: the inductive invariant.                                         *)

\* Nothing against these nodes, as far as each goes by itself.
Accepted(D) == \A i \in D : Converts(i) /\ Depth[i] <= MaxMenuDepth

\* convertLayout has placed the nodes D.
Converting(D, L) ==
    /\ Placed(heap, D, L) /\ Queued(stack, D, L)
    /\ nodes = Cardinality(D) /\ Accepted(D)

WalkFrames == [target : Places, depth : Nat]

\* The node a frame of Validate is for.
NodeOf(f) == In(heap, f.target).node

\* Validate has been at the nodes V: every other child of one of them has one
\* frame, with the child's place.
Walked(s, V, L) ==
    /\ s \in Seq(WalkFrames)
    /\ V \in SUBSET (1..Size)
    /\ \A i \in V \ {1} : Parent(i) \in V
    /\ \A a \in 1..Len(s) :
          /\ NodeOf(s[a]) \in (1..Size) \ V
          /\ NodeOf(s[a]) # 1 => Parent(NodeOf(s[a])) \in V
          /\ s[a].target = L[NodeOf(s[a])] /\ s[a].depth = Depth[NodeOf(s[a])]
    /\ \A i \in (1..Size) \ V : i = 1 \/ Parent(i) \in V => \E a \in 1..Len(s) : NodeOf(s[a]) = i
    /\ \A a, b \in 1..Len(s) : NodeOf(s[a]) = NodeOf(s[b]) => a = b

\* What Validate has counted of the nodes V, nothing of it against the menu.
Checked(V) ==
    /\ nodes = Cardinality(V) /\ nodes <= MaxMenuNodes
    /\ seen = {layout.id[i] : i \in V}
    /\ \A i, j \in V : layout.id[i] = layout.id[j] => i = j
    /\ icons = IconBytes(V) /\ icons <= MaxMenuIconBytes

\* The whole layout is converted, and Validate has been at the nodes V.
Validating(V, L) ==
    /\ Placed(heap, 1..Size, L) /\ Accepted(1..Size) /\ layout.id[1] = 0
    /\ Walked(stack, V, L) /\ Checked(V)

TreeInv ==
    /\ LayoutOK
    /\ phase \in {"root", "converting"} => seen = {} /\ icons = 0
    /\ phase = "converting" => \E D, L : Converting(D, L)
    /\ phase = "validating" => \E V, L : Validating(V, L)
    /\ phase = "published" => MenuValid /\ \E L : Placed(heap, 1..Size, L)
    /\ phase = "refused" => ~MenuValid

\* What convertLayout has done, told of the state after a step.
LEMMA ConvertingAfter ==
  ASSUME layout' = layout, NEW D, NEW L, NEW h, NEW s,
         heap' = h, stack' = s, nodes' = Cardinality(D),
         Placed(h, D, L), Queued(s, D, L), Accepted(D)
  PROVE  Converting(D, L)'
<1>1. Placed(heap, D, L)'
  <2>1. Size' = Size /\ \A i : Parent(i)' = Parent(i) /\ Kids(i)' = Kids(i) /\ Nth(i)' = Nth(i)
    BY LayoutKept
  <2> QED
    BY <2>1 DEF Placed, Sound
<1>2. Queued(stack, D, L)'
  <2>1. Size' = Size /\ Depth' = Depth /\ \A i : Parent(i)' = Parent(i)
    BY LayoutKept
  <2> QED
    BY <2>1 DEF Queued, ConvertFrames
<1>3. Accepted(D)'
  <2>1. Depth' = Depth
    BY LayoutKept
  <2> QED
    BY <2>1 DEF Accepted, Converts
<1> QED
  BY <1>1, <1>2, <1>3 DEF Converting

\* The same of the tree, and of what Validate has done.
LEMMA ValidatingAfter ==
  ASSUME layout' = layout, heap' = heap, NEW V, NEW L, NEW s, stack' = s,
         Placed(heap, 1..Size, L)
  PROVE  /\ Placed(heap, 1..Size, L)'
         /\ Accepted(1..Size) /\ layout.id[1] = 0 /\ Walked(s, V, L) /\ Checked(V)' => Validating(V, L)'
<1>1. /\ Size' = Size /\ Depth' = Depth
      /\ \A i : Parent(i)' = Parent(i) /\ Kids(i)' = Kids(i) /\ Nth(i)' = Nth(i)
  BY LayoutKept
<1>2. Placed(heap, 1..Size, L)'
  BY <1>1 DEF Placed, Sound
<1>3. ASSUME Accepted(1..Size) PROVE Accepted(1..Size)'
  BY <1>1, <1>3 DEF Accepted, Converts
<1>4. ASSUME Walked(s, V, L) PROVE Walked(stack, V, L)'
  BY <1>1, <1>4 DEF Walked, NodeOf
<1> QED
  BY <1>2, <1>3, <1>4 DEF Validating

\* Some of the nodes are no more than all.
LEMMA NodesCount ==
  ASSUME LayoutOK, NEW D \in SUBSET (1..Size)
  PROVE  /\ Cardinality(1..Size) = Size /\ Cardinality(D) \in Nat
         /\ \A i \in (1..Size) \ D : Cardinality(D \cup {i}) = Cardinality(D) + 1 /\ Cardinality(D) + 1 <= Size
<1>1. Size \in Nat \ {0}
  BY DEF LayoutOK
<1>2. IsFiniteSet(1..Size) /\ Cardinality(1..Size) = Size
  BY <1>1, FS_Interval
<1>3. IsFiniteSet(D) /\ Cardinality(D) \in Nat
  BY <1>2, FS_Subset, FS_CardinalityType
<1>4. ASSUME NEW i \in (1..Size) \ D
      PROVE  Cardinality(D \cup {i}) = Cardinality(D) + 1 /\ Cardinality(D) + 1 <= Size
  <2>1. Cardinality(D \cup {i}) = Cardinality(D) + 1
    BY <1>3, FS_AddElement
  <2>2. D \cup {i} \in SUBSET (1..Size)
    OBVIOUS
  <2>3. Cardinality(D \cup {i}) <= Cardinality(1..Size)
    BY <1>2, <2>2, FS_Subset
  <2> QED
    BY <1>2, <2>1, <2>3
<1> QED
  BY <1>2, <1>3, <1>4

\* convertLayout's first step.
LEMMA RootInv == TreeInv /\ ConvertRoot => TreeInv'
<1> SUFFICES ASSUME TreeInv, ConvertRoot PROVE TreeInv'
  OBVIOUS
<1> DEFINE F == Frames(1, Root, 1)
<1>1. LayoutOK /\ layout' = layout /\ phase' = "converting" /\ seen' = {} /\ icons' = 0
  BY DEF TreeInv, ConvertRoot
<1>2. heap' = <<<<Cell(1)>>>> /\ stack' = F /\ nodes' = 1 /\ Converts(1)
  BY DEF ConvertRoot
<1>3. Size \in Nat \ {0} /\ 1 \in 1..Size /\ Parent(1) = 0
  BY <1>1 DEF LayoutOK
<1>4. PICK L : Placed(<<<<Cell(1)>>>>, {1}, L)
  BY <1>1, RootPlaced
<1>5. /\ Depth[1] = 0
      /\ \A i \in 2..Size : Depth[i] = 1 + Depth[Parent(i)]
  BY <1>1, DepthIs
<1>6. Queued(F, {1}, L)
  <2>1. Lists(F, 1, Root, 1)
    <3>1. Root \in Places
      BY DEF Root, Places
    <3> QED
      BY <1>1, <1>3, <3>1, FramesAre
  <2>2. Kids(1) = {c \in 2..Size : Parent(c) = 1}
    BY <1>1, <1>3, KidsAre
  <2>3. L[1] = Root
    BY <1>4 DEF Placed
  <2> HIDE DEF F
  <2>4. F \in Seq(ConvertFrames) /\ Len(F) \in Nat
    BY <2>1 DEF Lists
  <2>5. ASSUME NEW a \in 1..Len(F)
        PROVE  /\ F[a].source \in (2..Size) \ {1} /\ Parent(F[a].source) = 1
               /\ F[a].target = L[Parent(F[a].source)]
               /\ F[a].depth = Depth[F[a].source] /\ Depth[F[a].source] = 1
    <3>1. F[a].source \in 2..Size /\ Parent(F[a].source) = 1 /\ F[a].target = Root /\ F[a].depth = 1
      BY <2>1, <2>2 DEF Lists
    <3>2. F[a].source # 1
      BY <3>1
    <3>3. Depth[F[a].source] = 1
      BY <1>5, <3>1
    <3> QED
      BY <2>3, <3>1, <3>2, <3>3
  <2>6. ASSUME NEW i \in (2..Size) \ {1}, Parent(i) \in {1} PROVE \E a \in 1..Len(F) : F[a].source = i
    BY <2>1, <2>2, <2>6 DEF Lists
  <2>7. ASSUME NEW a \in 1..Len(F), NEW b \in 1..Len(F), a < b
        PROVE  /\ Depth[F[a].source] <= Depth[F[b].source]
               /\ Parent(F[a].source) = Parent(F[b].source) => F[b].source < F[a].source
    BY <2>1, <2>5, <2>7 DEF Lists
  <2> QED
    BY <2>4, <2>5, <2>6, <2>7 DEF Queued
<1>7. Accepted({1})
  BY <1>2, <1>5, MenuTreeAssumption DEF Accepted
<1>8. Cardinality({1}) = 1
  BY FS_Singleton
<1> HIDE DEF F
<1>9. Converting({1}, L)'
  BY <1>1, <1>2, <1>4, <1>6, <1>7, <1>8, ConvertingAfter
<1>10. LayoutOK'
  BY <1>1, LayoutKept
<1>11. \E D, M : Converting(D, M)'
  BY <1>9
<1> QED
  BY <1>1, <1>10, <1>11 DEF TreeInv

\* A node that is too deep, or that convertNode refuses, is in no valid menu,
\* and a node too many neither.
LEMMA RefusedMenu ==
  ASSUME LayoutOK, NEW D \in SUBSET (1..Size), NEW i \in (1..Size) \ D,
         TooDeep(Depth[i]) \/ Cardinality(D) + 1 > MaxMenuNodes \/ ~Converts(i)
  PROVE  ~MenuValid
<1> SUFFICES ASSUME MenuValid PROVE FALSE
  OBVIOUS
<1>1. Depth[i] <= MaxMenuDepth /\ Converts(i) /\ Size <= MaxMenuNodes
  BY DEF MenuValid
<1>2. Depth[i] \in Nat /\ MaxMenuDepth \in Nat /\ MaxMenuNodes \in Nat /\ Size \in Nat
  BY MenuTreeAssumption, DepthIs DEF LayoutOK
<1>3. Cardinality(D) \in Nat /\ Cardinality(D) + 1 <= Size
  BY NodesCount
<1> QED
  BY <1>1, <1>2, <1>3 DEF TooDeep

\* convertLayout refuses.
LEMMA ConvertRefuseInv == TreeInv /\ ConvertRefuse => TreeInv'
<1> SUFFICES ASSUME TreeInv, ConvertRefuse PROVE TreeInv'
  OBVIOUS
<1>1. LayoutOK /\ layout' = layout /\ phase' = "refused" /\ ConvertRefuses
  BY DEF TreeInv, ConvertRefuse
<1>2. ~MenuValid
  <2>1. CASE phase = "root" /\ ~Converts(1)
    <3>1. 1 \in 1..Size
      BY <1>1 DEF LayoutOK
    <3> QED
      BY <2>1, <3>1 DEF MenuValid
  <2>2. CASE phase = "converting" /\ stack # <<>>
             /\ (TooDeep(Last(stack).depth) \/ nodes + 1 > MaxMenuNodes \/ ~Converts(Last(stack).source))
    <3>1. PICK D, L : Converting(D, L)
      BY <2>2 DEF TreeInv
    <3> DEFINE c == Last(stack).source
    <3>2. c \in (2..Size) \ D /\ Last(stack).depth = Depth[c]
      BY <1>1, <2>2, <3>1, QueuedTop DEF Converting
    <3>3. D \in SUBSET (1..Size) /\ c \in (1..Size) \ D /\ nodes = Cardinality(D)
      BY <3>1, <3>2 DEF Converting, Placed
    <3> HIDE DEF c
    <3>4. TooDeep(Depth[c]) \/ Cardinality(D) + 1 > MaxMenuNodes \/ ~Converts(c)
      BY <2>2, <3>2, <3>3 DEF c
    <3> QED
      BY <1>1, <3>3, <3>4, RefusedMenu
  <2> QED
    BY <1>1, <2>1, <2>2 DEF ConvertRefuses, Pop
<1>3. LayoutOK' /\ ~MenuValid'
  BY <1>1, <1>2, LayoutKept
<1> QED
  BY <1>1, <1>3 DEF TreeInv

\* convertLayout takes the top frame.
LEMMA ConvertNextInv == TreeInv /\ ConvertNext => TreeInv'
<1> SUFFICES ASSUME TreeInv, ConvertNext PROVE TreeInv'
  OBVIOUS
<1>1. /\ LayoutOK /\ layout' = layout /\ phase = "converting" /\ phase' = "converting"
      /\ stack # <<>> /\ seen = {} /\ icons = 0 /\ seen' = seen /\ icons' = icons
      /\ ~ConvertRefuses
  BY Zenon DEF TreeInv, ConvertNext
<1>2. PICK D, L : Converting(D, L)
  BY <1>1 DEF TreeInv
<1>3. Placed(heap, D, L) /\ Queued(stack, D, L) /\ nodes = Cardinality(D) /\ Accepted(D)
  BY <1>2 DEF Converting
<1>4. PICK c : c = Last(stack).source
  OBVIOUS
<1>5. PICK q : q = Parent(c)
  OBVIOUS
<1>6. /\ c \in (2..Size) \ D /\ q \in D /\ Parent(c) = q
      /\ Last(stack).target = L[q] /\ Last(stack).depth = Depth[c]
      /\ Nth(c) = In(heap, L[q]).len + 1
  BY <1>1, <1>3, <1>4, <1>5, QueuedTop
<1>7. PICK h : h = Append1(L[q], Cell(c))
  OBVIOUS
<1>8. PICK M : M = Moved(h, L, q)
  OBVIOUS
<1>9. Placed(h, D \cup {c}, M) /\ M[c] = [array |-> In(h, L[q]).array, index |-> In(h, L[q]).len]
  <2>1. /\ Placed(h, D \cup {c}, Moved(h, L, q))
        /\ Moved(h, L, q)[c] = [array |-> In(h, L[q]).array, index |-> In(h, L[q]).len]
    <3>1. LayoutOK /\ Placed(heap, D, L) /\ Parent(c) = q /\ Nth(c) = In(heap, L[q]).len + 1
      BY <1>1, <1>3, <1>6
    <3>2. c \in (2..Size) \ D /\ q \in D
      BY <1>6
    <3> QED
      BY <1>7, <3>1, <3>2, AppendPlaced, SMTT(30)
  <2> QED
    BY <1>8, <2>1
<1>10. c \in 1..Size /\ D \in SUBSET (1..Size) /\ M[c] \in Places
  BY <1>3, <1>6, <1>9 DEF Placed
<1>11. PICK rest : rest = Popped(stack, Frames(c, M[c], Last(stack).depth + 1))
  OBVIOUS
<1>12. heap' = h /\ stack' = rest /\ nodes' = nodes + 1
  <2>1. /\ heap' = Append1(Last(stack).target, Cell(Last(stack).source))
        /\ nodes' = nodes + 1
    BY Zenon DEF ConvertNext, Pop
  <2>2. heap' = h
    BY <1>4, <1>6, <1>7, <2>1, Zenon
  <2>3. stack' = Popped(stack,
          Frames(c, [array |-> In(h, L[q]).array, index |-> In(h, L[q]).len], Last(stack).depth + 1))
    BY <1>4, <1>6, <1>7, Zenon DEF ConvertNext, Pop, In, Popped
  <2> QED
    BY <1>9, <1>11, <2>1, <2>2, <2>3
<1>13. Queued(rest, D \cup {c}, M)
  BY <1>1, <1>3, <1>4, <1>5, <1>8, <1>10, <1>11, QueuedAfter
<1>14. nodes' = Cardinality(D \cup {c})
  <2>1. c \in (1..Size) \ D
    BY <1>6, <1>10
  <2> QED
    BY <1>1, <1>3, <1>10, <1>12, <2>1, NodesCount
<1>15. Accepted(D \cup {c})
  <2>1. ~TooDeep(Depth[c]) /\ Converts(c)
    BY <1>1, <1>4, <1>6 DEF ConvertRefuses, Pop
  <2>2. Depth[c] \in Nat /\ MaxMenuDepth \in Nat
    BY <1>1, <1>10, DepthIs, MenuTreeAssumption
  <2>3. Depth[c] <= MaxMenuDepth
    BY <2>1, <2>2 DEF TooDeep
  <2> QED
    BY <1>3, <2>1, <2>3 DEF Accepted
<1>16. PICK E : E = D \cup {c}
  OBVIOUS
<1>17. Converting(E, M)'
  <2>1. Placed(h, E, M) /\ Queued(rest, E, M) /\ nodes' = Cardinality(E) /\ Accepted(E)
    BY <1>9, <1>13, <1>14, <1>15, <1>16
  <2> QED
    BY <1>1, <1>12, <2>1, ConvertingAfter
<1>18. LayoutOK'
  BY <1>1, LayoutKept
<1>19. \E C, P : Converting(C, P)'
  BY <1>17
<1> QED
  BY <1>1, <1>18, <1>19 DEF TreeInv

\* convertLayout ends, and Validate begins at the root.
LEMMA ConvertedInv == TreeInv /\ Converted => TreeInv'
<1> SUFFICES ASSUME TreeInv, Converted PROVE TreeInv'
  OBVIOUS
<1>1. /\ LayoutOK /\ layout' = layout /\ heap' = heap /\ phase = "converting" /\ stack = <<>>
      /\ seen' = {} /\ icons' = 0 /\ nodes' = 0
      /\ stack' = <<[target |-> Root, depth |-> 0]>>
      /\ phase' = IF layout.id[1] = 0 THEN "validating" ELSE "refused"
  BY DEF TreeInv, Converted
<1>2. LayoutOK'
  BY <1>1, LayoutKept
<1>3. PICK D, L : Converting(D, L)
  BY <1>1 DEF TreeInv
<1>4. D = 1..Size
  BY <1>1, <1>3, QueuedEmpty DEF Converting
<1>5. Placed(heap, 1..Size, L) /\ Accepted(1..Size)
  BY <1>3, <1>4 DEF Converting
<1>6. Size \in Nat \ {0} /\ 1 \in 1..Size /\ Depth[1] = 0 /\ L[1] = Root
  BY <1>1, <1>5, DepthIs DEF LayoutOK, Placed
<1>7. CASE layout.id[1] # 0
  <2>1. ~MenuValid'
    <3>1. ~MenuValid
      BY <1>7 DEF MenuValid
    <3> QED
      BY <1>1, <3>1, LayoutKept
  <2> QED
    BY <1>1, <1>2, <1>7, <2>1 DEF TreeInv
<1>8. CASE layout.id[1] = 0
  <2>1. PICK s : s = <<[target |-> Root, depth |-> 0]>>
    OBVIOUS
  <2>2. s \in Seq(WalkFrames) /\ Len(s) = 1 /\ s[1].target = Root /\ s[1].depth = 0
    BY <2>1 DEF WalkFrames, Root, Places
  <2>3. NodeOf(s[1]) = 1
    <3>1. In(heap, L[1]).node = 1
      BY <1>5, <1>6 DEF Placed, Sound
    <3> QED
      BY <1>6, <2>2, <3>1 DEF NodeOf
  <2>4. Walked(s, {}, L)
    BY <1>6, <2>2, <2>3 DEF Walked
  <2>5. Checked({})'
    <3>1. Cardinality({}) = 0
      BY FS_EmptySet
    <3>2. IconBytes({})' = 0
      <4>1. IconBytes({}) = 0
        BY <1>1, IconBytesAre
      <4> QED
        BY <1>1, <4>1, LayoutKept
    <3> QED
      BY <1>1, <3>1, <3>2, MenuTreeAssumption DEF Checked
  <2>6. Validating({}, L)'
    BY <1>1, <1>5, <1>8, <2>1, <2>4, <2>5, ValidatingAfter
  <2>7. \E V, P : Validating(V, P)'
    BY <2>6
  <2> QED
    BY <1>1, <1>2, <1>8, <2>7 DEF TreeInv
<1> QED
  BY <1>7, <1>8

\* The place of each node, once all are there: all its children are in its
\* slice, the k-th child at k.
LEMMA PlacedAll ==
  ASSUME LayoutOK, NEW h, NEW L, Placed(h, 1..Size, L), NEW i \in 1..Size
  PROVE  /\ In(h, L[i]).node = i /\ In(h, L[i]).len = Cardinality(Kids(i))
         /\ In(h, L[i]).array \in Nat
         /\ \A k \in Kids(i) : L[k] = [array |-> In(h, L[i]).array, index |-> Nth(k)]
         /\ \A k \in 1..In(h, L[i]).len : \E j \in Kids(i) : Nth(j) = k
<1> DEFINE x == In(h, L[i])
<1>1. Has(h, L[i]) /\ Sound(h, i, x) /\ h \in Seq(Seq(Cells))
  BY DEF Placed
<1>2. x \in Cells
  <2>1. h[L[i].array] \in Seq(Cells) /\ L[i].index \in 1..Len(h[L[i].array])
    BY <1>1 DEF Has
  <2> QED
    BY <2>1 DEF In
<1>3. x.node = i /\ x.len \in Nat /\ x.array \in Nat /\ x.len <= Cardinality(Kids(i))
  BY <1>1, <1>2 DEF Sound, Cells
<1>4. Kids(i) = {k \in 2..Size : Parent(k) = i} /\ Cardinality(Kids(i)) \in Nat
  BY KidsAre
<1>5. \A k \in Kids(i) : Nth(k) <= x.len
  <2> TAKE k \in Kids(i)
  <2>1. k \in 2..Size /\ Parent(k) = i /\ k \in 1..Size
    BY <1>4
  <2> QED
    BY <2>1 DEF Placed
<1>6. \A n \in 1..Cardinality(Kids(i)) : \E k \in Kids(i) : Nth(k) = n
  BY KidsAre
<1>7. x.len = Cardinality(Kids(i))
  <2>1. CASE Cardinality(Kids(i)) = 0
    BY <1>3, <2>1
  <2>2. CASE Cardinality(Kids(i)) # 0
    <3>1. Cardinality(Kids(i)) \in 1..Cardinality(Kids(i))
      BY <1>4, <2>2
    <3>2. \E k \in Kids(i) : Nth(k) = Cardinality(Kids(i))
      BY <1>6, <3>1
    <3>3. Cardinality(Kids(i)) <= x.len
      BY <1>5, <3>2
    <3> HIDE DEF x
    <3> QED
      BY <1>3, <1>4, <3>3
  <2> QED
    BY <2>1, <2>2
<1>8. \A k \in Kids(i) : L[k] = [array |-> x.array, index |-> Nth(k)]
  <2> TAKE k \in Kids(i)
  <2>1. k \in (1..Size) \ {1} /\ Parent(k) = i
    BY <1>4
  <2> QED
    BY <2>1 DEF Placed
<1> QED
  BY <1>3, <1>6, <1>7, <1>8

\* The top frame of Validate.
LEMMA WalkedTop ==
  ASSUME LayoutOK, NEW V, NEW L, NEW s, Walked(s, V, L), s # <<>>, NEW i, i = NodeOf(Last(s))
  PROVE  /\ i \in (1..Size) \ V /\ (i # 1 => Parent(i) \in V) /\ V \in SUBSET (1..Size)
         /\ Last(s).target = L[i] /\ Last(s).depth = Depth[i]
         /\ Len(s) \in Nat \ {0} /\ Last(s) = s[Len(s)]
<1>1. s \in Seq(WalkFrames)
  BY DEF Walked
<1>2. Len(s) \in Nat \ {0} /\ Last(s) = s[Len(s)]
  BY <1>1, PopIs
<1> QED
  BY <1>2 DEF Walked

\* Without frames Validate has been at every node.
LEMMA WalkedEmpty ==
  ASSUME LayoutOK, NEW V, NEW L, Walked(<<>>, V, L)
  PROVE  V = 1..Size
<1>1. V \in SUBSET (1..Size) /\ 1 \in V /\ \A i \in 2..Size : Parent(i) \in V => i \in V
  <2>1. 1 \in 1..Size
    BY DEF LayoutOK
  <2>2. \A i \in 2..Size : i \in 1..Size
    OBVIOUS
  <2> QED
    BY <2>1, <2>2 DEF Walked
<1> QED
  BY <1>1, TreeInduction

\* The frames that Validate pushes for a node's children, given the node's cell.
VisitFrames(p, depth) == [k \in 1..At(p).len |-> [target |-> Child(p, k), depth |-> depth + 1]]

\* F lists the children of node i, the k-th in the k-th frame.
Visits(F, N, i, L) ==
    /\ F \in Seq(WalkFrames) /\ Len(F) = N /\ N = Cardinality(Kids(i)) /\ N \in Nat
    /\ \A k \in 1..N : \E j \in Kids(i) :
          Nth(j) = k /\ F[k].target = L[j] /\ F[k].depth = Depth[j] /\ NodeOf(F[k]) = j

\* The frames that Validate pushes for a node are such a list.
LEMMA VisitFramesAre ==
  ASSUME LayoutOK, NEW L, Placed(heap, 1..Size, L), NEW i \in 1..Size
  PROVE  Visits(VisitFrames(L[i], Depth[i]), At(L[i]).len, i, L)
<1> DEFINE N == At(L[i]).len
           F == [k \in 1..N |-> [target |-> Child(L[i], k), depth |-> Depth[i] + 1]]
<1>1. i \in 1..Size
  OBVIOUS
<1>5. At(L[i]) = In(heap, L[i])
  BY DEF At, In
<1>6. /\ In(heap, L[i]).len = Cardinality(Kids(i))
      /\ In(heap, L[i]).array \in Nat
      /\ \A k \in Kids(i) : L[k] = [array |-> In(heap, L[i]).array, index |-> Nth(k)]
      /\ \A k \in 1..In(heap, L[i]).len : \E j \in Kids(i) : Nth(j) = k
  BY <1>1, PlacedAll
<1>7. /\ Kids(i) = {k \in 2..Size : Parent(k) = i} /\ Cardinality(Kids(i)) \in Nat
      /\ \A k \in Kids(i) : Nth(k) \in 1..Cardinality(Kids(i))
  BY <1>1, KidsAre
<1>8. Depth[i] \in Nat /\ \A k \in Kids(i) : Depth[k] = Depth[i] + 1
  <2>1. \A k \in 2..Size : Depth[k] = 1 + Depth[Parent(k)]
    BY DepthIs
  <2>2. Depth[i] \in Nat
    BY <1>1, DepthIs
  <2> QED
    BY <1>7, <2>1, <2>2
<1>9. N \in Nat /\ N = Cardinality(Kids(i))
  BY <1>5, <1>6, <1>7
\* The k-th new frame is for the k-th child.
<1>10. ASSUME NEW k \in 1..N
      PROVE  \E j \in Kids(i) : Nth(j) = k /\ F[k].target = L[j] /\ F[k].depth = Depth[j] /\ NodeOf(F[k]) = j
  <2>1. PICK j \in Kids(i) : Nth(j) = k
    BY <1>5, <1>6
  <2>2. L[j] = Child(L[i], k)
    BY <1>5, <1>6, <2>1 DEF Child
  <2>3. F[k].target = L[j] /\ F[k].depth = Depth[j]
    BY <1>1, <1>8, <2>2
  <2>4. j \in 1..Size
    BY <1>7
  <2>5. In(heap, L[j]).node = j
    BY <2>4, PlacedAll
  <2> HIDE DEF F
  <2>6. NodeOf(F[k]) = j
    BY <2>3, <2>5 DEF NodeOf
  <2> QED
    BY <2>1, <2>3, <2>6
<1>11. F \in Seq(WalkFrames) /\ Len(F) = N
  <2>1. L \in [1..Size -> Places]
    BY DEF Placed
  <2>2. \A k \in 1..N : F[k] \in WalkFrames
    <3> TAKE k \in 1..N
    <3>1. PICK j \in Kids(i) : L[j] = Child(L[i], k)
      <4>1. PICK j \in Kids(i) : Nth(j) = k
        BY <1>5, <1>6
      <4> QED
        BY <1>5, <1>6, <4>1 DEF Child
    <3>2. Child(L[i], k) \in Places /\ Depth[i] + 1 \in Nat
      BY <1>1, <1>7, <1>8, <2>1, <3>1
    <3> QED
      BY <3>2 DEF WalkFrames
  <2>3. F = [k \in 1..N |-> F[k]]
    OBVIOUS
  <2> HIDE DEF F, N
  <2> QED
    BY <1>9, <2>2, <2>3
<1>12. F = VisitFrames(L[i], Depth[i])
  BY DEF VisitFrames
<1> HIDE DEF F, N
<1>13. Visits(F, N, i, L)
  BY <1>9, <1>10, <1>11 DEF Visits
<1> QED
  BY <1>12, <1>13 DEF N

\* The frames once the top one's node is done: the others, and its children's.
LEMMA WalkedMore ==
  ASSUME LayoutOK, NEW V, NEW L, Placed(heap, 1..Size, L),
         NEW s, Walked(s, V, L), NEW n \in Nat \ {0}, n = Len(s),
         NEW i \in (1..Size) \ V, i # 1 => Parent(i) \in V, i = NodeOf(s[n]),
         NEW F, NEW N, Visits(F, N, i, L),
         NEW rest, Spliced(WalkFrames, rest, s, n, F),
         NEW W, W = V \cup {i}
  PROVE  Walked(rest, W, L)
<1>1. i \in (1..Size) \ V /\ (i # 1 => Parent(i) \in V) /\ V \in SUBSET (1..Size)
  BY DEF Walked
<1>2. n \in Nat \ {0} /\ n = Len(s)
  OBVIOUS
<1>3. s \in Seq(WalkFrames) /\ \A j \in V \ {1} : Parent(j) \in V
  BY DEF Walked
<1>7. /\ Kids(i) = {k \in 2..Size : Parent(k) = i} /\ Cardinality(Kids(i)) \in Nat
      /\ \A k \in Kids(i) : Nth(k) \in 1..Cardinality(Kids(i))
  BY <1>1, KidsAre
<1>9. N \in Nat /\ N = Cardinality(Kids(i)) /\ Len(F) = N
  BY DEF Visits
<1>10. \A k \in 1..N : \E j \in Kids(i) :
          Nth(j) = k /\ F[k].target = L[j] /\ F[k].depth = Depth[j] /\ NodeOf(F[k]) = j
  BY DEF Visits
<1>13. /\ rest \in Seq(WalkFrames) /\ Len(rest) = n - 1 + N
       /\ \A a \in 1..(n - 1) : rest[a] = s[a]
       /\ \A a \in n..Len(rest) : rest[a] = F[a - n + 1] /\ a - n + 1 \in 1..N
  BY <1>9 DEF Spliced
<1>14. /\ \A a \in 1..Len(rest) : a \in 1..(n - 1) \/ a \in n..Len(rest)
       /\ \A a \in 1..(n - 1) : a \in 1..n /\ a # n /\ a \in 1..Len(rest)
       /\ \A k \in 1..N : /\ n - 1 + k \in n..Len(rest) /\ n - 1 + k \in 1..Len(rest)
                          /\ (n - 1 + k) - n + 1 = k
  <2>1. \A x \in Nat \ {0}, y \in Nat :
          /\ \A a \in 1..(x - 1 + y) : a \in 1..(x - 1) \/ a \in x..(x - 1 + y)
          /\ \A a \in 1..(x - 1) : a \in 1..x /\ a # x /\ a \in 1..(x - 1 + y)
          /\ \A k \in 1..y : /\ x - 1 + k \in x..(x - 1 + y) /\ x - 1 + k \in 1..(x - 1 + y)
                             /\ (x - 1 + k) - x + 1 = k
    OBVIOUS
  <2>2. n \in Nat \ {0} /\ N \in Nat /\ Len(rest) = n - 1 + N
    BY <1>2, <1>9, <1>13
  <2>3. /\ \A a \in 1..(n - 1 + N) : a \in 1..(n - 1) \/ a \in n..(n - 1 + N)
        /\ \A a \in 1..(n - 1) : a \in 1..n /\ a # n /\ a \in 1..(n - 1 + N)
        /\ \A k \in 1..N : /\ n - 1 + k \in n..(n - 1 + N) /\ n - 1 + k \in 1..(n - 1 + N)
                           /\ (n - 1 + k) - n + 1 = k
    <3>1. \A a \in 1..(n - 1 + N) : a \in 1..(n - 1) \/ a \in n..(n - 1 + N)
      BY <2>1, <2>2, Zenon
    <3>2. \A a \in 1..(n - 1) : a \in 1..n /\ a # n /\ a \in 1..(n - 1 + N)
      BY <2>1, <2>2, Zenon
    <3>3. \A k \in 1..N : /\ n - 1 + k \in n..(n - 1 + N) /\ n - 1 + k \in 1..(n - 1 + N)
                           /\ (n - 1 + k) - n + 1 = k
      BY <2>1, <2>2, ZenonT(40)
    <3> QED
      BY <3>1, <3>2, <3>3, Zenon
  <2> QED
    BY <2>2, <2>3, Zenon
\* The frames that were there.
<1>15. ASSUME NEW a \in 1..n
       PROVE  /\ NodeOf(s[a]) \in (1..Size) \ V
              /\ NodeOf(s[a]) # 1 => Parent(NodeOf(s[a])) \in V
              /\ s[a].target = L[NodeOf(s[a])] /\ s[a].depth = Depth[NodeOf(s[a])]
              /\ NodeOf(s[a]) = i => a = n
  <2>1. n \in 1..n
    BY <1>2
  <2> QED
    BY <1>2, <2>1 DEF Walked
\* The frames of the children.
<1>16. ASSUME NEW a \in n..Len(rest)
       PROVE  /\ NodeOf(rest[a]) \in (2..Size) \ W /\ Parent(NodeOf(rest[a])) = i
              /\ rest[a].target = L[NodeOf(rest[a])] /\ rest[a].depth = Depth[NodeOf(rest[a])]
              /\ Nth(NodeOf(rest[a])) = a - n + 1
  <2>1. rest[a] = F[a - n + 1] /\ a - n + 1 \in 1..N
    BY <1>13
  <2>2. PICK j \in Kids(i) : /\ Nth(j) = a - n + 1 /\ NodeOf(rest[a]) = j
                             /\ rest[a].target = L[j] /\ rest[a].depth = Depth[j]
    BY <1>10, <2>1
  <2>3. j \in 2..Size /\ Parent(j) = i /\ j # i /\ j # 1
    <3>1. j \in 2..Size /\ Parent(j) = i
      BY <1>7
    <3>2. Parent(j) \in 1..(j - 1)
      BY <3>1 DEF LayoutOK
    <3> QED
      BY <3>1, <3>2
  <2>4. j \notin V
    BY <1>1, <1>3, <2>3
  <2> QED
    BY <2>2, <2>3, <2>4
<1>17. ASSUME NEW a \in 1..Len(rest)
       PROVE  /\ NodeOf(rest[a]) \in (1..Size) \ W
              /\ NodeOf(rest[a]) # 1 => Parent(NodeOf(rest[a])) \in W
              /\ rest[a].target = L[NodeOf(rest[a])] /\ rest[a].depth = Depth[NodeOf(rest[a])]
  <2>1. CASE a \in 1..(n - 1)
    <3>1. rest[a] = s[a] /\ a \in 1..n /\ a # n
      BY <1>13, <1>14, <2>1
    <3> QED
      BY <1>15, <3>1
  <2>2. CASE a \in n..Len(rest)
    <3>1. \A j \in 2..Size : j \in 1..Size
      OBVIOUS
    <3> QED
      BY <1>16, <2>2, <3>1
  <2> QED
    BY <1>14, <2>1, <2>2
<1>18. ASSUME NEW j \in (1..Size) \ W, j = 1 \/ Parent(j) \in W
       PROVE  \E a \in 1..Len(rest) : NodeOf(rest[a]) = j
  <2>1. CASE j # 1 /\ Parent(j) = i
    <3>1. j \in Kids(i)
      <4>1. j \in 2..Size
        BY <2>1
      <4> QED
        BY <1>7, <2>1, <4>1
    <3>2. Nth(j) \in 1..N
      BY <1>7, <1>9, <3>1
    <3>3. PICK k \in Kids(i) : Nth(k) = Nth(j) /\ NodeOf(F[Nth(j)]) = k
      BY <1>10, <3>2
    <3>4. k = j
      <4>1. i \in 1..Size
        BY <1>1
      <4>2. \A x \in Kids(i), y \in Kids(i) : Nth(x) = Nth(y) <=> x = y
        BY <4>1, SiblingsOrder
      <4> QED
        BY <3>1, <3>3, <4>2, Zenon
    <3>5. /\ n - 1 + Nth(j) \in n..Len(rest) /\ n - 1 + Nth(j) \in 1..Len(rest)
          /\ (n - 1 + Nth(j)) - n + 1 = Nth(j)
      BY <1>14, <3>2
    <3>6. rest[n - 1 + Nth(j)] = F[Nth(j)]
      BY <1>13, <3>5
    <3> QED
      BY <3>3, <3>4, <3>5, <3>6
  <2>2. CASE ~(j # 1 /\ Parent(j) = i)
    <3>1. j \in (1..Size) \ V /\ (j = 1 \/ Parent(j) \in V) /\ j # i
      BY <1>18, <2>2
    <3>2. PICK a \in 1..n : NodeOf(s[a]) = j
      BY <1>2, <3>1 DEF Walked
    <3>3. a # n
      BY <1>2, <3>1, <3>2
    <3>4. a \in 1..(n - 1) /\ a \in 1..Len(rest)
      <4>1. a \in 1..(n - 1)
        <5>1. \A x \in Nat \ {0} : \A y \in 1..x : y # x => y \in 1..(x - 1)
          OBVIOUS
        <5> QED
          BY <1>2, <3>2, <3>3, <5>1
      <4> QED
        BY <1>14, <4>1
    <3> QED
      BY <1>13, <3>2, <3>4
  <2> QED
    BY <2>1, <2>2
<1>19. ASSUME NEW a \in 1..Len(rest), NEW b \in 1..Len(rest), NodeOf(rest[a]) = NodeOf(rest[b])
       PROVE  a = b
  <2>1. CASE a \in 1..(n - 1) /\ b \in 1..(n - 1)
    <3>1. a \in 1..n /\ b \in 1..n /\ NodeOf(s[a]) = NodeOf(s[b])
      BY <1>13, <1>14, <1>19, <2>1
    <3> QED
      BY <1>2, <3>1 DEF Walked
  <2>2. \A x \in 1..(n - 1), y \in n..Len(rest) : NodeOf(rest[x]) # NodeOf(rest[y])
    <3> TAKE x \in 1..(n - 1), y \in n..Len(rest)
    <3>1. rest[x] = s[x] /\ x \in 1..n
      BY <1>13, <1>14
    <3>2. NodeOf(s[x]) # 1 => Parent(NodeOf(s[x])) \in V
      BY <1>15, <3>1
    <3>3. NodeOf(rest[y]) \in 2..Size /\ NodeOf(rest[y]) # 1 /\ Parent(NodeOf(rest[y])) = i
      <4>1. NodeOf(rest[y]) \in 2..Size /\ Parent(NodeOf(rest[y])) = i
        BY <1>16
      <4>2. \A j \in 2..Size : j # 1
        OBVIOUS
      <4> QED
        BY <4>1, <4>2
    <3> QED
      BY <1>1, <3>1, <3>2, <3>3
  <2>3. CASE a \in n..Len(rest) /\ b \in n..Len(rest)
    <3>1. Nth(NodeOf(rest[a])) = a - n + 1 /\ Nth(NodeOf(rest[b])) = b - n + 1
      BY <1>16, <2>3
    <3>2. a - n + 1 = b - n + 1
      BY <1>19, <3>1
    <3> QED
      BY <1>2, <2>3, <3>2
  <2> QED
    BY <1>14, <1>19, <2>1, <2>2, <2>3
<1>20. W \in SUBSET (1..Size) /\ \A j \in W \ {1} : Parent(j) \in W
  BY <1>1, <1>3
<1>21. Walked(rest, W, L)
  <2> QED
    BY <1>13, <1>17, <1>18, <1>19, <1>20 DEF Walked
<1> QED
  BY <1>21

\* The same, of the stack as Validate leaves it.
LEMMA WalkedAfter ==
  ASSUME LayoutOK, NEW V, NEW L, Placed(heap, 1..Size, L),
         NEW s, Walked(s, V, L), s # <<>>, NEW i, i = NodeOf(Last(s)),
         NEW rest, rest = Popped(s, VisitFrames(L[i], Last(s).depth))
  PROVE  Walked(rest, V \cup {i}, L)
<1>1. /\ i \in (1..Size) \ V /\ (i # 1 => Parent(i) \in V)
      /\ Last(s).depth = Depth[i]
      /\ Len(s) \in Nat \ {0} /\ Last(s) = s[Len(s)]
  BY WalkedTop
<1>2. PICK F : F = VisitFrames(L[i], Depth[i])
  OBVIOUS
<1>3. PICK N : N = At(L[i]).len
  OBVIOUS
<1>4. Visits(F, N, i, L)
  BY <1>1, <1>2, <1>3, VisitFramesAre
<1>5. F \in Seq(WalkFrames) /\ s \in Seq(WalkFrames)
  BY <1>4 DEF Visits, Walked
<1>6. rest = Popped(s, F)
  BY <1>1, <1>2
<1>7. PICK n : n = Len(s)
  OBVIOUS
<1>8. Spliced(WalkFrames, rest, s, n, F)
  BY <1>5, <1>6, <1>7, PoppedSpliced
<1>9. n \in Nat \ {0} /\ i = NodeOf(s[n])
  BY <1>1, <1>7
<1> QED
  BY <1>1, <1>4, <1>7, <1>8, <1>9, WalkedMore

\* Validate refuses.
LEMMA ValidateRefuseInv == TreeInv /\ ValidateRefuse => TreeInv'
<1> SUFFICES ASSUME TreeInv, ValidateRefuse PROVE TreeInv'
  OBVIOUS
<1>1. /\ LayoutOK /\ layout' = layout /\ phase = "validating" /\ phase' = "refused" /\ stack # <<>>
      /\ ValidateRefuses
  BY DEF TreeInv, ValidateRefuse
<1>2. PICK V, L : Validating(V, L)
  BY <1>1 DEF TreeInv
<1>3. Walked(stack, V, L) /\ Checked(V)
  BY <1>2 DEF Validating
<1>4. PICK i : i = NodeOf(Last(stack))
  OBVIOUS
<1>5. /\ i \in (1..Size) \ V /\ V \in SUBSET (1..Size) /\ Last(stack).depth = Depth[i]
  BY <1>1, <1>3, <1>4, WalkedTop
<1>6. \/ TooDeep(Depth[i]) \/ Cardinality(V) + 1 > MaxMenuNodes
      \/ layout.id[i] \in seen \/ icons + IconData(i) > MaxMenuIconBytes
  <2>1. At(Last(stack).target).node = i
    BY <1>4 DEF NodeOf, At, In
  <2>2. nodes = Cardinality(V)
    BY <1>3 DEF Checked
  <2> QED
    BY <1>1, <1>5, <2>1, <2>2 DEF ValidateRefuses
<1>7. ~MenuValid
  <2>1. CASE TooDeep(Depth[i]) \/ Cardinality(V) + 1 > MaxMenuNodes
    BY <1>1, <1>5, <2>1, RefusedMenu
  <2>2. CASE layout.id[i] \in seen
    <3>1. PICK j \in V : layout.id[i] = layout.id[j]
      BY <1>3, <2>2 DEF Checked
    <3>2. j \in 1..Size /\ i \in 1..Size /\ i # j
      BY <1>5
    <3> QED
      BY <3>1, <3>2 DEF MenuValid
  <2>3. CASE icons + IconData(i) > MaxMenuIconBytes
    <3>1. IconBytes(V \cup {i}) = icons + IconData(i)
      BY <1>1, <1>3, <1>5, IconBytesAre DEF Checked
    <3>2. /\ IconBytes(V \cup {i}) \in Nat /\ IconBytes(V \cup {i}) <= IconBytes(1..Size)
          /\ IconBytes(1..Size) \in Nat
      <4>1. V \cup {i} \in SUBSET (1..Size) /\ 1..Size \in SUBSET (1..Size)
        BY <1>5
      <4> QED
        BY <1>1, <4>1, IconBytesAre
    <3>3. ~(IconBytes(1..Size) <= MaxMenuIconBytes)
      <4>1. MaxMenuIconBytes \in Nat
        BY MenuTreeAssumption
      <4> QED
        BY <2>3, <3>1, <3>2, <4>1
    <3> QED
      BY <3>3 DEF MenuValid
  <2> QED
    BY <1>6, <2>1, <2>2, <2>3
<1>8. LayoutOK' /\ ~MenuValid'
  BY <1>1, <1>7, LayoutKept
<1> QED
  BY <1>1, <1>8 DEF TreeInv

\* Validate takes the top frame.
LEMMA ValidateNextInv == TreeInv /\ ValidateNext => TreeInv'
<1> SUFFICES ASSUME TreeInv, ValidateNext PROVE TreeInv'
  OBVIOUS
<1>1. /\ LayoutOK /\ layout' = layout /\ heap' = heap /\ stack # <<>>
      /\ phase = "validating" /\ phase' = "validating"
      /\ nodes' = nodes + 1 /\ ~ValidateRefuses
  BY DEF TreeInv, ValidateNext
<1>2. PICK V, L : Validating(V, L)
  BY <1>1 DEF TreeInv
<1>3. /\ Placed(heap, 1..Size, L) /\ Accepted(1..Size) /\ layout.id[1] = 0
      /\ Walked(stack, V, L) /\ Checked(V)
  BY <1>2 DEF Validating
<1>4. PICK i : i = NodeOf(Last(stack))
  OBVIOUS
<1>5. /\ i \in (1..Size) \ V /\ V \in SUBSET (1..Size)
      /\ Last(stack).target = L[i] /\ Last(stack).depth = Depth[i]
  BY <1>1, <1>3, <1>4, WalkedTop
<1>6. At(Last(stack).target).node = i
  BY <1>4 DEF NodeOf, At, In
<1>7. PICK rest : rest = Popped(stack, VisitFrames(L[i], Last(stack).depth))
  OBVIOUS
<1>8. stack' = rest /\ seen' = seen \cup {layout.id[i]} /\ icons' = icons + IconData(i)
  BY <1>5, <1>6, <1>7, Zenon DEF ValidateNext, Popped, VisitFrames
<1>9. PICK W : W = V \cup {i}
  OBVIOUS
<1>10. Walked(rest, W, L)
  <2>1. Walked(rest, V \cup {i}, L)
    BY <1>1, <1>3, <1>4, <1>7, WalkedAfter
  <2> QED
    BY <1>9, <2>1
<1>11. Checked(W)'
  <2>1. /\ nodes = Cardinality(V) /\ nodes <= MaxMenuNodes
        /\ seen = {layout.id[j] : j \in V}
        /\ \A j, k \in V : layout.id[j] = layout.id[k] => j = k
        /\ icons = IconBytes(V) /\ icons <= MaxMenuIconBytes
    BY <1>3 DEF Checked
  <2>2. /\ ~(nodes + 1 > MaxMenuNodes) /\ layout.id[i] \notin seen
        /\ ~(icons + IconData(i) > MaxMenuIconBytes)
    BY <1>1, <1>6 DEF ValidateRefuses
  <2>3. Cardinality(W) = nodes + 1 /\ nodes \in Nat
    BY <1>1, <1>5, <1>9, <2>1, NodesCount
  <2>4. IconBytes(W) = icons + IconData(i)
    BY <1>1, <1>5, <1>9, <2>1, IconBytesAre
  <2>5. icons \in Nat /\ IconData(i) \in Nat /\ MaxMenuNodes \in Nat /\ MaxMenuIconBytes \in Nat
    BY <1>1, <1>5, <2>1, IconBytesAre, IconDataType, MenuTreeAssumption
  <2>6. seen' = {layout.id[j] : j \in W}
    BY <1>8, <1>9, <2>1
  <2>7. \A j, k \in W : layout.id[j] = layout.id[k] => j = k
    BY <1>9, <2>1, <2>2
  <2>8. icons' = IconBytes(W)'
    BY <1>1, <1>8, <2>4, LayoutKept
  <2>9. nodes' <= MaxMenuNodes /\ icons' <= MaxMenuIconBytes
    BY <1>1, <1>8, <2>2, <2>3, <2>5
  <2> QED
    BY <1>1, <2>3, <2>6, <2>7, <2>8, <2>9 DEF Checked
<1>12. Validating(W, L)'
  BY <1>1, <1>3, <1>8, <1>10, <1>11, ValidatingAfter
<1>13. LayoutOK'
  BY <1>1, LayoutKept
<1>14. \E X, P : Validating(X, P)'
  BY <1>12
<1> QED
  BY <1>1, <1>13, <1>14 DEF TreeInv

\* Validate ends and the tree is published.
LEMMA PublishInv == TreeInv /\ PublishTree => TreeInv'
<1> SUFFICES ASSUME TreeInv, PublishTree PROVE TreeInv'
  OBVIOUS
<1>1. /\ LayoutOK /\ layout' = layout /\ heap' = heap /\ stack = <<>>
      /\ phase = "validating" /\ phase' = "published"
  BY DEF TreeInv, PublishTree
<1>2. PICK V, L : Validating(V, L)
  BY <1>1 DEF TreeInv
<1>3. /\ Placed(heap, 1..Size, L) /\ Accepted(1..Size) /\ layout.id[1] = 0
      /\ Walked(<<>>, V, L) /\ Checked(V)
  BY <1>1, <1>2 DEF Validating
<1>4. V = 1..Size
  BY <1>1, <1>3, WalkedEmpty
<1>5. MenuValid
  <2>1. Cardinality(1..Size) = Size
    BY <1>1, NodesCount
  <2> QED
    BY <1>3, <1>4, <2>1 DEF MenuValid, Accepted, Checked
<1>6. MenuValid' /\ LayoutOK'
  BY <1>1, <1>5, LayoutKept
<1>7. Placed(heap, 1..Size, L)'
  <2>1. PICK s : s = stack'
    OBVIOUS
  <2> QED
    BY <1>1, <1>3, <2>1, ValidatingAfter
<1>8. \E P : Placed(heap, 1..Size, P)'
  BY <1>7
<1> QED
  BY <1>1, <1>6, <1>8 DEF TreeInv

\* The invariant holds of every state: each step of either walk keeps it.
THEOREM TreeInvariant == TreeSpec => []TreeInv
<1>1. TreeInit => TreeInv
  BY AnswerOK DEF TreeInit, TreeInv
<1>2. TreeInv /\ [TreeNext]_treeVars => TreeInv'
  <2> SUFFICES ASSUME TreeInv, [TreeNext]_treeVars PROVE TreeInv'
    OBVIOUS
  <2>1. CASE UNCHANGED treeVars
    <3>1. layout' = layout /\ phase' = phase /\ heap' = heap /\ stack' = stack /\ nodes' = nodes
          /\ seen' = seen /\ icons' = icons
      BY <2>1 DEF treeVars
    <3>2. LayoutOK' = LayoutOK /\ MenuValid' = MenuValid
      BY <3>1, LayoutKept
    <3>3. ASSUME NEW D, NEW L, Converting(D, L) PROVE Converting(D, L)'
      BY <3>1, <3>3, ConvertingAfter DEF Converting
    <3>4. ASSUME NEW V, NEW L, Validating(V, L) PROVE Validating(V, L)'
      <4>1. Checked(V)'
        <5>1. Checked(V)
          BY <3>4 DEF Validating
        <5> QED
          BY <3>1, <5>1, LayoutKept DEF Checked
      <4> QED
        BY <3>1, <3>4, <4>1, ValidatingAfter DEF Validating
    <3>5. ASSUME NEW L, Placed(heap, 1..Size, L) PROVE Placed(heap, 1..Size, L)'
      BY <3>1, <3>5, ValidatingAfter
    <3> QED
      BY <3>1, <3>2, <3>3, <3>4, <3>5 DEF TreeInv
  <2> QED
    BY <2>1, RootInv, ConvertRefuseInv, ConvertNextInv, ConvertedInv,
       ValidateRefuseInv, ValidateNextInv, PublishInv DEF TreeNext
<1> QED
  BY <1>1, <1>2, PTL DEF TreeSpec

\* Where a node is placed is where the tree has it.
LEMMA LocatedIs ==
  ASSUME LayoutOK, NEW L, Placed(heap, 1..Size, L)
  PROVE  \A i \in 1..Size : Located[i] = L[i]
<1> DEFINE At_L(g) == g = [i \in 1..Size |->
              IF i = 1 THEN Root
              ELSE LET p == g[layout.parent[i]]
                   IN  IF p.array # 0 /\ Nth(i) <= At(p).len THEN Child(p, Nth(i))
                       ELSE [array |-> 0, index |-> 0]]
<1>1. Size \in Nat \ {0} /\ 1 \in 1..Size /\ L \in [1..Size -> Places] /\ L[1] = Root
  BY DEF LayoutOK, Placed
<1>2. ASSUME NEW i \in 2..Size
      PROVE  LET p == L[layout.parent[i]]
             IN  p.array # 0 /\ Nth(i) <= At(p).len /\ Child(p, Nth(i)) = L[i]
  <2> DEFINE q == Parent(i)
             p == L[q]
  <2>1. q \in 1..(i - 1) /\ q = layout.parent[i]
    BY DEF LayoutOK, Parent
  <2>2. q \in 1..Size
    <3> HIDE DEF q
    <3> QED
      BY <1>1, <2>1
  <2>3. Kids(q) = {k \in 2..Size : Parent(k) = q} /\ \A k \in Kids(q) : Nth(k) \in 1..Cardinality(Kids(q))
    BY <2>2, KidsAre
  <2>4. i \in Kids(q)
    BY <2>3
  <2>5. In(heap, p).len = Cardinality(Kids(q)) /\ L[i] = [array |-> In(heap, p).array, index |-> Nth(i)]
    BY <2>2, <2>4, PlacedAll
  <2>6. Cardinality(Kids(q)) \in Nat
    BY <2>2, KidsAre
  <2>7. Nth(i) <= Cardinality(Kids(q))
    BY <2>3, <2>4, <2>6
  <2>8. p.array # 0
    BY <2>2 DEF Placed, Has
  <2>9. At(p) = In(heap, p)
    BY DEF At, In
  <2> HIDE DEF q, p
  <2>10. p.array # 0 /\ Nth(i) <= At(p).len /\ Child(p, Nth(i)) = L[i]
    BY <2>5, <2>7, <2>8, <2>9 DEF Child
  <2> QED
    BY <2>1, <2>10 DEF p
<1>3. At_L(L)
  <2>1. \A i \in 1..Size : i # 1 => i \in 2..Size
    BY <1>1
  <2>2. \A i \in 1..Size : L[i] =
              IF i = 1 THEN Root
              ELSE LET p == L[layout.parent[i]]
                   IN  IF p.array # 0 /\ Nth(i) <= At(p).len THEN Child(p, Nth(i))
                       ELSE [array |-> 0, index |-> 0]
    BY <1>1, <1>2, <2>1
  <2>3. L = [i \in 1..Size |-> L[i]]
    BY <1>1
  <2> QED
    BY <2>2, <2>3
<1>4. Located = CHOOSE g : At_L(g)
  BY DEF Located
<1>5. At_L(Located)
  <2> HIDE DEF At_L
  <2> QED
    BY <1>3, <1>4
<1>6. 1..Size \subseteq {i \in 1..Size : Located[i] = L[i]}
  <2> DEFINE T == {i \in 1..Size : Located[i] = L[i]}
  <2>1. 1 \in T
    BY <1>1, <1>5
  <2>2. ASSUME NEW i \in 2..Size, Parent(i) \in T PROVE i \in T
    <3>1. i \in 1..Size /\ i # 1
      OBVIOUS
    <3>2. Located[layout.parent[i]] = L[layout.parent[i]]
      BY <2>2, Zenon DEF Parent
    <3>3. Located[i] = LET p == Located[layout.parent[i]]
                       IN  IF p.array # 0 /\ Nth(i) <= At(p).len THEN Child(p, Nth(i))
                           ELSE [array |-> 0, index |-> 0]
      BY <1>5, <3>1, Zenon
    <3>4. Located[i] = L[i]
      <4> HIDE DEF At_L
      <4> QED
        BY <1>2, <3>2, <3>3
    <3> QED
      BY <3>1, <3>4
  <2> HIDE DEF T
  <2>3. 1..Size \subseteq T
    BY <2>1, <2>2, TreeInduction
  <2> QED
    BY <2>3 DEF T
<1> QED
  BY <1>6

\* model.go, convertLayout: whatever the layout, the pointers its frames keep
\* are never into a slice that append has moved since, and every node ends at
\* its place.
THEOREM TreeIsFaithful == TreeSpec => []TreeFaithful
<1>1. ASSUME TreeInv PROVE TreeFaithful
  <2> SUFFICES ASSUME phase \in {"validating", "published"}, NEW i \in 1..Size
               PROVE  /\ Located[i].array # 0
                      /\ At(Located[i]).node = i
                      /\ At(Located[i]).len = Len(Children(i))
    BY DEF TreeFaithful
  <2>1. LayoutOK
    BY <1>1 DEF TreeInv
  <2>2. PICK L : Placed(heap, 1..Size, L)
    <3>1. CASE phase = "validating"
      BY <1>1, <3>1 DEF TreeInv, Validating
    <3>2. CASE phase = "published"
      BY <1>1, <3>2 DEF TreeInv
    <3> QED
      BY <3>1, <3>2
  <2>3. Located[i] = L[i]
    BY <2>1, <2>2, LocatedIs
  <2>4. In(heap, L[i]).node = i /\ In(heap, L[i]).len = Cardinality(Kids(i))
    BY <2>1, <2>2, PlacedAll
  <2>5. Len(Children(i)) = Cardinality(Kids(i))
    BY <2>1, ChildrenAre
  <2>6. L[i].array # 0
    BY <2>2 DEF Placed, Has
  <2> QED
    BY <2>3, <2>4, <2>5, <2>6 DEF At, In
<1>2. TreeInv => TreeFaithful
  BY <1>1
<1> QED
  BY <1>2, TreeInvariant, PTL

\* model.go, convertLayout, and validate.go: for any limits the two walks,
\* each with its own counting, publish the layouts within them and no other.
THEOREM TreeLimitsExact == TreeSpec => []LimitsExact
<1>1. TreeInv => LimitsExact
  BY DEF TreeInv, LimitsExact
<1> QED
  BY <1>1, TreeInvariant, PTL

----
(* Pixmaps: the sum that pixmapBytes computes.                             *)

Decodings == [candidate : Candidates, kept : BOOLEAN]

\* What one candidate adds.
Share(d) == IF d.kept THEN d.candidate.len ELSE 0

\* The data of a candidate has a length.
LEMMA LenType ==
  ASSUME NEW c \in Candidates
  PROVE  c.len \in Nat
<1>1. MaxPixmapDimension \in Nat
  BY PixmapAssumption
<1>2. \A w, h \in Nat : w * h * 4 \in Nat
  OBVIOUS
<1>3. CASE c \in {[tuple |-> TRUE, width |-> w, height |-> h, len |-> w * h * 4] :
                    w, h \in 1..MaxPixmapDimension}
  <2>1. PICK w, h \in 1..MaxPixmapDimension : c.len = w * h * 4
    BY <1>3
  <2>2. w \in Nat /\ h \in Nat
    BY <1>1
  <2> QED
    BY <1>2, <2>1, <2>2
<1>4. CASE c.len \in {0, (MaxPixmapDimension + 1) * 4, 8}
  BY <1>1, <1>4
<1> QED
  BY <1>3, <1>4 DEF Candidates

\* The recursion that pixmapBytes names exists.
LEMMA BytesAre ==
  ASSUME NEW ds \in Seq(Decodings)
  PROVE  pixmapBytes(ds) = [n \in 0..Len(ds) |->
            IF n = 0 THEN 0 ELSE pixmapBytes(ds)[n - 1] + Share(ds[n])]
<1> DEFINE Upto(g, l) == g = [n \in 0..l |-> IF n = 0 THEN 0 ELSE g[n - 1] + Share(ds[n])]
           S == {l \in Nat : \E g : Upto(g, l)}
<1>1. 0 \in S
  <2>1. Upto([n \in 0..0 |-> 0], 0)
    OBVIOUS
  <2> QED
    BY <2>1
<1>2. ASSUME NEW l \in Nat, l \in S PROVE l + 1 \in S
  <2>1. PICK g : Upto(g, l)
    BY <1>2
  <2> DEFINE h == [n \in 0..(l + 1) |-> IF n = l + 1 THEN g[l] + Share(ds[l + 1]) ELSE g[n]]
  <2>2. \A n \in 0..(l + 1) : h[n] = IF n = 0 THEN 0 ELSE h[n - 1] + Share(ds[n])
    <3> TAKE n \in 0..(l + 1)
    <3>1. CASE n = 0
      BY <2>1, <3>1
    <3>2. CASE n \in 1..l
      BY <2>1, <3>2
    <3>3. CASE n = l + 1
      BY <3>3
    <3> QED
      BY <3>1, <3>2, <3>3
  <2>3. Upto(h, l + 1)
    <3> HIDE DEF h
    <3>1. h = [n \in 0..(l + 1) |-> h[n]]
      BY DEF h
    <3> QED
      BY <2>2, <3>1
  <2> HIDE DEF Upto
  <2> QED
    BY <2>3
<1>3. \E g : Upto(g, Len(ds))
  <2> HIDE DEF S
  <2>1. \A n \in Nat : n \in S
    BY <1>1, <1>2, SetInduction
  <2> QED
    BY <2>1 DEF S
<1>4. pixmapBytes(ds) = CHOOSE g : Upto(g, Len(ds))
  BY DEF pixmapBytes, Share
<1> HIDE DEF Upto
<1>5. Upto(pixmapBytes(ds), Len(ds))
  BY <1>3, <1>4
<1> QED
  BY <1>5 DEF Upto

\* One more candidate leaves the sums before it alone and adds its share.
LEMMA BytesAppended ==
  ASSUME NEW ds \in Seq(Decodings), NEW d \in Decodings
  PROVE  /\ \A n \in 0..Len(ds) : pixmapBytes(Append(ds, d))[n] = pixmapBytes(ds)[n]
         /\ pixmapBytes(Append(ds, d))[Len(ds) + 1] = pixmapBytes(ds)[Len(ds)] + Share(d)
<1> DEFINE es == Append(ds, d)
           S == {n \in Nat : n \leq Len(ds) => pixmapBytes(es)[n] = pixmapBytes(ds)[n]}
<1>1. /\ es \in Seq(Decodings) /\ Len(es) = Len(ds) + 1 /\ Len(ds) \in Nat
      /\ es[Len(ds) + 1] = d /\ \A n \in 1..Len(ds) : es[n] = ds[n]
  OBVIOUS
<1> HIDE DEF es
<1>2. \A n \in 0..(Len(ds) + 1) :
        pixmapBytes(es)[n] = IF n = 0 THEN 0 ELSE pixmapBytes(es)[n - 1] + Share(es[n])
  BY <1>1, BytesAre
<1>3. \A n \in 0..Len(ds) :
        pixmapBytes(ds)[n] = IF n = 0 THEN 0 ELSE pixmapBytes(ds)[n - 1] + Share(ds[n])
  BY <1>1, BytesAre
<1>4. 0 \in S
  BY <1>1, <1>2, <1>3
<1>5. ASSUME NEW n \in Nat, n \in S PROVE n + 1 \in S
  <2> SUFFICES ASSUME n + 1 \leq Len(ds) PROVE pixmapBytes(es)[n + 1] = pixmapBytes(ds)[n + 1]
    OBVIOUS
  <2>1. n + 1 \in 1..Len(ds) /\ n + 1 \in 0..Len(ds) /\ n + 1 \in 0..(Len(ds) + 1) /\ n + 1 # 0 /\ (n + 1) - 1 = n
    BY <1>1
  <2>2. pixmapBytes(es)[n] = pixmapBytes(ds)[n] /\ es[n + 1] = ds[n + 1]
    BY <1>1, <1>5, <2>1
  <2>3. pixmapBytes(es)[n + 1] = pixmapBytes(es)[n] + Share(es[n + 1])
    BY <1>2, <2>1
  <2>4. pixmapBytes(ds)[n + 1] = pixmapBytes(ds)[n] + Share(ds[n + 1])
    BY <1>3, <2>1
  <2> QED
    BY <2>2, <2>3, <2>4
<1>6. \A n \in Nat : n \in S
  <2> HIDE DEF S
  <2> QED
    BY <1>4, <1>5, SetInduction
<1>7. \A n \in 0..Len(ds) : pixmapBytes(es)[n] = pixmapBytes(ds)[n]
  BY <1>1, <1>6
<1>8. pixmapBytes(es)[Len(ds) + 1] = pixmapBytes(ds)[Len(ds)] + Share(d)
  <2>1. Len(ds) + 1 \in 0..(Len(ds) + 1) /\ Len(ds) + 1 # 0 /\ (Len(ds) + 1) - 1 = Len(ds) /\ Len(ds) \in 0..Len(ds)
    BY <1>1
  <2> QED
    BY <1>1, <1>2, <1>7, <2>1
<1> QED
  BY <1>7, <1>8 DEF es

----
(* Pixmaps: the budget.                                                    *)

PixInv ==
    /\ set \in 1..5 /\ budget \in Nat /\ total \in Nat
    /\ decoded \in Seq(Decodings)
    /\ total <= budget
    /\ pixmapBytes(decoded)[Len(decoded)] + budget = MaxPixmapBytesPerItem + total
    /\ \A k \in 1..Len(decoded) :
         decoded[k].kept <=>
            /\ WellFormed(decoded[k].candidate)
            /\ pixmapBytes(decoded)[k - 1] + decoded[k].candidate.len <= MaxPixmapBytesPerItem
    /\ \A k \in 0..Len(decoded) : pixmapBytes(decoded)[k] \in Nat

\* The budget begins whole.
LEMMA PixInitInv == PixInit => PixInv
<1> SUFFICES ASSUME PixInit PROVE PixInv
  OBVIOUS
<1>1. <<>> \in Seq(Decodings) /\ Len(<<>>) = 0
  OBVIOUS
<1>2. pixmapBytes(<<>>)[0] = 0
  <2>1. \A ds \in Seq(Decodings) : pixmapBytes(ds)[0] = 0
    <3> TAKE ds \in Seq(Decodings)
    <3>1. 0 \in 0..Len(ds)
      OBVIOUS
    <3> QED
      BY <3>1, BytesAre
  <2> QED
    BY <1>1, <2>1
<1>3. MaxPixmapBytesPerItem \in Nat
  BY PixmapAssumption
<1>4. \A k \in 0..0 : k = 0
  OBVIOUS
<1>5. decoded = <<>> /\ set = 1 /\ budget = MaxPixmapBytesPerItem /\ total = 0
  BY DEF PixInit
<1>6. pixmapBytes(decoded)[Len(decoded)] = 0 /\ Len(decoded) = 0
  BY <1>1, <1>2, <1>5
<1>7. \A k \in 0..Len(decoded) : pixmapBytes(decoded)[k] \in Nat
  BY <1>4, <1>6
<1> QED
  BY <1>1, <1>3, <1>5, <1>6, <1>7 DEF PixInv

\* A candidate, and the hand-over from one set to the next.
LEMMA PixNextInv == PixInv /\ [PixNext]_pixVars => PixInv'
<1> SUFFICES ASSUME PixInv, [PixNext]_pixVars PROVE PixInv'
  OBVIOUS
<1> USE DEF PixInv
<1>0. MaxPixmapBytesPerItem \in Nat /\ Len(decoded) \in Nat
  BY PixmapAssumption
<1>1. ASSUME NEW c \in Candidates, Decode(c) PROVE PixInv'
  <2> DEFINE kept == WellFormed(c) /\ Fits(c)
             d == [candidate |-> c, kept |-> kept]
             n == Len(decoded)
  <2>1. c.len \in Nat
    BY LenType
  <2>2. d \in Decodings /\ d.candidate = c /\ (d.kept <=> kept)
    BY DEF Decodings, WellFormed, pixmapFields
  <2>3. /\ total' = total + Share(d) /\ decoded' = Append(decoded, d)
        /\ set' = set /\ budget' = budget
    BY <1>1 DEF Decode, Share
  <2>4. Share(d) \in Nat /\ (kept => total + c.len <= budget /\ Share(d) = c.len) /\ (~kept => Share(d) = 0)
    BY <2>1, <2>2 DEF Share, Fits
  <2> HIDE DEF d
  <2>5. /\ decoded' \in Seq(Decodings) /\ Len(decoded') = n + 1 /\ decoded'[n + 1] = d
        /\ \A k \in 1..n : decoded'[k] = decoded[k]
    BY <2>2, <2>3
  <2>6. /\ \A k \in 0..n : pixmapBytes(decoded')[k] = pixmapBytes(decoded)[k]
        /\ pixmapBytes(decoded')[n + 1] = pixmapBytes(decoded)[n] + Share(d)
    BY <2>2, <2>3, BytesAppended
  <2>7. n \in 0..n /\ pixmapBytes(decoded)[n] \in Nat
    BY <1>0
  <2> HIDE DEF kept
  <2>8. total' \in Nat /\ total' <= budget'
    BY <2>1, <2>3, <2>4
  <2>9. pixmapBytes(decoded')[Len(decoded')] + budget' = MaxPixmapBytesPerItem + total'
    <3>1. \A x, y, z, w, s \in Nat : x + y = z + w => (x + s) + y = z + (w + s)
      OBVIOUS
    <3>2. budget \in Nat /\ total \in Nat /\ pixmapBytes(decoded)[n] + budget = MaxPixmapBytesPerItem + total
      OBVIOUS
    <3>3. (pixmapBytes(decoded)[n] + Share(d)) + budget = MaxPixmapBytesPerItem + (total + Share(d))
      <4> HIDE DEF PixInv, n
      <4> QED
        BY <1>0, <2>4, <2>7, <3>1, <3>2
    <3> QED
      BY <2>3, <2>5, <2>6, <3>3
  <2>10. ASSUME NEW k \in 1..Len(decoded')
         PROVE  decoded'[k].kept <=>
                  /\ WellFormed(decoded'[k].candidate)
                  /\ pixmapBytes(decoded')[k - 1] + decoded'[k].candidate.len <= MaxPixmapBytesPerItem
    <3>1. CASE k \in 1..n
      <4>1. k - 1 \in 0..n /\ decoded'[k] = decoded[k]
        BY <1>0, <2>5, <3>1
      <4>2. pixmapBytes(decoded')[k - 1] = pixmapBytes(decoded)[k - 1]
        BY <2>6, <4>1
      <4> QED
        BY <3>1, <4>1, <4>2
    <3>2. CASE k = n + 1
      <4>1. k - 1 = n /\ decoded'[k] = d
        BY <1>0, <2>5, <3>2
      <4>2. pixmapBytes(decoded')[k - 1] = pixmapBytes(decoded)[n]
        BY <2>6, <2>7, <4>1
      <4>3. Fits(c) <=> pixmapBytes(decoded)[n] + c.len <= MaxPixmapBytesPerItem
        BY <1>0, <2>1, <2>7 DEF Fits
      <4> QED
        BY <2>2, <4>1, <4>2, <4>3 DEF kept
    <3> QED
      BY <1>0, <2>5, <3>1, <3>2
  <2>11. ASSUME NEW k \in 0..Len(decoded') PROVE pixmapBytes(decoded')[k] \in Nat
    <3>1. CASE k \in 0..n
      BY <2>6, <3>1
    <3>2. CASE k = n + 1
      BY <2>4, <2>6, <2>7, <3>2
    <3> QED
      BY <1>0, <2>5, <3>1, <3>2
  <2> QED
    BY <2>3, <2>5, <2>8, <2>9, <2>10, <2>11
<1>2. CASE NextSet
  <2>1. /\ set' = set + 1 /\ set <= 4 /\ budget' = budget - total /\ total' = 0 /\ decoded' = decoded
    BY <1>2 DEF NextSet
  <2>2. Len(decoded) \in 0..Len(decoded) /\ pixmapBytes(decoded)[Len(decoded)] \in Nat
    BY <1>0
  <2> QED
    BY <1>0, <2>1, <2>2
<1>3. CASE UNCHANGED pixVars
  BY <1>3 DEF pixVars
<1> QED
  BY <1>1, <1>2, <1>3 DEF PixNext

\* model.go, normalize, and pixmap.go, decodePixmaps: over all four sets of an
\* item exactly the well formed candidates that still fit are kept, and they
\* pass Item.Validate's one budget.
THEOREM PixmapsWithinBudget == PixSpec => []PixmapsFit
<1>1. ASSUME PixInv PROVE PixmapsFit
  <2>1. Len(decoded) \in 0..Len(decoded) /\ MaxPixmapBytesPerItem \in Nat
    BY <1>1, PixmapAssumption DEF PixInv
  <2>2. pixmapBytes(decoded)[Len(decoded)] <= MaxPixmapBytesPerItem
    BY <1>1, <2>1 DEF PixInv
  <2> QED
    BY <1>1, <2>2 DEF PixInv, PixmapsFit
<1>2. PixInv => PixmapsFit
  BY <1>1
<1> QED
  BY <1>2, PixInitInv, PixNextInv, PTL DEF PixSpec

====
