---- MODULE MenuTree ----
(***************************************************************************)
(* How a menu reader turns a DBusMenu layout into the tree it publishes:   *)
(* convertLayout (internal/menu/model.go) and Validate                     *)
(* (internal/menu/validate.go).  Both walk with a stack.  convertLayout's  *)
(* frames point into Go slices that append moves: a slice is an array of   *)
(* the heap with a length, and append copies the cells to an array twice   *)
(* as large when it is full.  (The allocator may round the size up, and    *)
(* then moves the cells less often.)                                       *)
(*                                                                         *)
(* A layout is a tree of numbered nodes, the parent of each being an       *)
(* earlier one; a node's children are in the order of their numbers.       *)
(***************************************************************************)
EXTENDS Integers, Sequences, FiniteSets, SequencesExt

CONSTANTS MaxMenuDepth, MaxMenuNodes, MaxMenuIconBytes, \* limits of the protocol
          MaxLayout,    \* bound: nodes of a layout
          IconSizes     \* bound: sizes of a node's icon data, beside none

ASSUME MenuTreeAssumption ==
    /\ {MaxMenuDepth, MaxMenuNodes, MaxMenuIconBytes} \subseteq Nat
    /\ MaxLayout \in Nat \ {0} /\ IconSizes \subseteq Nat

VARIABLES
    layout,     \* the layout the application answered with
    phase,      \* "root", "converting", "validating", "published", "refused"
    heap,       \* the arrays of child nodes; the first one holds the root
    stack,      \* frames of the walk
    nodes,      \* nodes counted by the walk
    seen, icons \* Validate's: identities met, icon bytes so far

treeVars == <<layout, phase, heap, stack, nodes, seen, icons>>

----
(* Layouts.                                                                *)

Parents(n) == {f \in [1..n -> 0..(n - 1)] : f[1] = 0 /\ \A i \in 2..n : f[i] \in 1..(i - 1)}

\* Identities as the application gives them, one of them possibly wrong.
PlainIds(n) == [i \in 1..n |-> i - 1]
Ids(n) == {PlainIds(n)} \cup {[PlainIds(n) EXCEPT ![i] = x] : i \in 1..n, x \in -1..1}

NoIcons(n) == [i \in 1..n |-> 0]
Icons(n) == {NoIcons(n)} \cup
            {[NoIcons(n) EXCEPT ![i] = x, ![j] = y] : i, j \in 1..n, x, y \in IconSizes}

\* What an application may answer with a tree of this shape: one thing at a
\* time goes wrong, an identity, the icons, or a node that is no DBusMenu tuple.
Answers(f) ==
    LET n == Len(f)
        Of(ids, ics, junk) == [parent |-> f, id |-> ids, icon |-> ics, junk |-> junk]
    IN  {Of(ids, NoIcons(n), {}) : ids \in Ids(n)} \cup
        {Of(PlainIds(n), ics, {}) : ics \in Icons(n)} \cup
        {Of(PlainIds(n), NoIcons(n), {i}) : i \in 1..n}

Size == Len(layout.parent)

Kids(i) == {c \in 1..Size : layout.parent[c] = i}

\* Which child of its parent node c is.
Nth(c) == Cardinality({d \in Kids(layout.parent[c]) : d <= c})

\* dbusval.Elements of a node's third field, in order.
Children(i) == [k \in 1..Cardinality(Kids(i)) |-> CHOOSE c \in Kids(i) : Nth(c) = k]

----
(* Go's slices.  A cell is a node: which one, and its Children slice.      *)

Cell(i) == [node |-> i, array |-> 0, len |-> 0]

Unused == Cell(0)

At(p) == heap[p.array][p.index]

\* Where p's k-th child is.
Child(p, k) == [array |-> At(p).array, index |-> k]

\* append(p.Children, cell): in place while there is room, else in an array
\* of twice the capacity that becomes p's.
Append1(p, cell) ==
    LET s    == At(p)
        cap  == IF s.array = 0 THEN 0 ELSE Len(heap[s.array])
        more == [k \in 1..(IF cap = 0 THEN 1 ELSE 2 * cap) |->
                    IF k <= s.len THEN heap[s.array][k] ELSE Unused]
    IN  IF s.len < cap
        THEN [heap EXCEPT ![s.array][s.len + 1] = cell,
                          ![p.array][p.index].len = s.len + 1]
        ELSE Append([heap EXCEPT ![p.array][p.index] =
                        [s EXCEPT !.array = Len(heap) + 1, !.len = s.len + 1]],
                    [more EXCEPT ![s.len + 1] = cell])

----
(* convertLayout.                                                          *)

\* convertNode refuses what is no tuple, and a negative identity.
Converts(i) == i \notin layout.junk /\ layout.id[i] >= 0

\* Icon data over the limit is left out of the node.
IconData(i) == IF layout.icon[i] <= MaxMenuIconBytes THEN layout.icon[i] ELSE 0

\* A frame per child, the first child on top.
Frames(i, target, depth) ==
    LET kids == Children(i)
    IN  [k \in 1..Len(kids) |-> [source |-> kids[Len(kids) + 1 - k], target |-> target,
                                 depth |-> depth]]

\* Faulty variant: the walk is breadth first.
Pop_First(s) == [frame |-> Head(s), rest |-> Tail(s)]

Pop(s) == [frame |-> Last(s), rest |-> Front(s)]

Root == [array |-> 1, index |-> 1]

ConvertRoot ==
    /\ phase = "root" /\ Converts(1)
    /\ heap' = <<<<Cell(1)>>>>
    /\ stack' = Frames(1, Root, 1)
    /\ nodes' = 1
    /\ phase' = "converting"
    /\ UNCHANGED <<layout, seen, icons>>

\* Faulty variant: the limit itself is too deep.
TooDeep_At(depth) == depth >= MaxMenuDepth

TooDeep(depth) == depth > MaxMenuDepth

ConvertRefuses ==
    \/ phase = "root" /\ ~Converts(1)
    \/ /\ phase = "converting" /\ stack # <<>>
       /\ \/ TooDeep(Pop(stack).frame.depth)
          \/ nodes + 1 > MaxMenuNodes
          \/ ~Converts(Pop(stack).frame.source)

ConvertRefuse ==
    /\ ConvertRefuses
    /\ phase' = "refused"
    /\ UNCHANGED <<layout, heap, stack, nodes, seen, icons>>

\* The node is appended to its parent's children, and its own children are
\* to go where it is now.
ConvertNext ==
    /\ phase = "converting" /\ stack # <<>> /\ ~ConvertRefuses
    /\ LET f == Pop(stack).frame
           h == Append1(f.target, Cell(f.source))
           s == h[f.target.array][f.target.index]
       IN  /\ heap' = h
           /\ stack' = Pop(stack).rest \o
                       Frames(f.source, [array |-> s.array, index |-> s.len], f.depth + 1)
    /\ nodes' = nodes + 1
    /\ UNCHANGED <<layout, phase, seen, icons>>

Converted ==
    /\ phase = "converting" /\ stack = <<>>
    /\ phase' = IF layout.id[1] = 0 THEN "validating" ELSE "refused"
    /\ stack' = <<[target |-> Root, depth |-> 0]>>
    /\ nodes' = 0
    /\ UNCHANGED <<layout, heap, seen, icons>>

----
(* Validate, on the tree in the heap.                                      *)

ValidateRefuses ==
    LET f == Last(stack)
        i == At(f.target).node
    IN  \/ TooDeep(f.depth)
        \/ nodes + 1 > MaxMenuNodes
        \/ layout.id[i] \in seen
        \/ icons + IconData(i) > MaxMenuIconBytes

ValidateRefuse ==
    /\ phase = "validating" /\ stack # <<>> /\ ValidateRefuses
    /\ phase' = "refused"
    /\ UNCHANGED <<layout, heap, stack, nodes, seen, icons>>

ValidateNext ==
    /\ phase = "validating" /\ stack # <<>> /\ ~ValidateRefuses
    /\ LET f == Last(stack)
           i == At(f.target).node
       IN  /\ stack' = Front(stack) \o
                       [k \in 1..At(f.target).len |->
                           [target |-> Child(f.target, k), depth |-> f.depth + 1]]
           /\ seen' = seen \cup {layout.id[i]}
           /\ icons' = icons + IconData(i)
    /\ nodes' = nodes + 1
    /\ UNCHANGED <<layout, phase, heap>>

PublishTree ==
    /\ phase = "validating" /\ stack = <<>>
    /\ phase' = "published"
    /\ UNCHANGED <<layout, heap, stack, nodes, seen, icons>>

----
TreeInit ==
    /\ \E n \in 1..MaxLayout : \E f \in Parents(n) : layout \in Answers(f)
    /\ phase = "root"
    /\ heap = <<>>
    /\ stack = <<>>
    /\ nodes = 0
    /\ seen = {}
    /\ icons = 0

TreeNext == ConvertRoot \/ ConvertRefuse \/ ConvertNext \/ Converted
            \/ ValidateRefuse \/ ValidateNext \/ PublishTree

TreeSpec == TreeInit /\ [][TreeNext]_treeVars

----
(* Properties.                                                             *)

\* Where the k-th child's k-th child ... of the root is that node i is in the
\* layout; array 0 where the tree has no such cell.
Located[i \in 1..Size] ==
    IF i = 1 THEN Root
    ELSE LET p == Located[layout.parent[i]]
         IN  IF p.array # 0 /\ Nth(i) <= At(p).len THEN Child(p, Nth(i))
             ELSE [array |-> 0, index |-> 0]

\* convertLayout keeps pointers into slices it goes on appending to.  Depth
\* first, no slice grows while a frame points into it, and every node of the
\* layout ends at its place in the tree, with nothing beside them.
TreeFaithful ==
    phase \in {"validating", "published"} =>
        \A i \in 1..Size : /\ Located[i].array # 0
                           /\ At(Located[i]).node = i
                           /\ At(Located[i]).len = Len(Children(i))

\* What protocol.Menu.Validate accepts, defined on the layout.
Depth[i \in 1..Size] == IF i = 1 THEN 0 ELSE 1 + Depth[layout.parent[i]]

\* The icon bytes of the nodes V: <<i, b>> is byte b of node i.
IconBytes(V) == Cardinality(UNION {{i} \X (1..IconData(i)) : i \in V})

MenuValid ==
    /\ Size <= MaxMenuNodes
    /\ \A i \in 1..Size : Depth[i] <= MaxMenuDepth /\ Converts(i)
    /\ layout.id[1] = 0
    /\ \A i, j \in 1..Size : layout.id[i] = layout.id[j] => i = j
    /\ IconBytes(1..Size) <= MaxMenuIconBytes

\* Two walks share the limits, each with its own counting: together they
\* publish exactly the layouts within them, and what they publish is what
\* the protocol's recursive check accepts of a menu.
LimitsExact ==
    /\ phase = "published" => MenuValid
    /\ phase = "refused" => ~MenuValid

====
