---- MODULE Pixmaps ----
(***************************************************************************)
(* The pixmap budget of an item: normalize, icon and tooltip               *)
(* (internal/item/model.go) decode four sets of candidates with            *)
(* decodePixmaps (internal/item/pixmap.go), which counts what it keeps of  *)
(* one set; what is left of the budget is handed from set to set.          *)
(***************************************************************************)
EXTENDS Naturals, Sequences

CONSTANTS MaxPixmapDimension, MaxPixmapBytesPerItem,    \* limits of the protocol
          MaxCandidates     \* bound: candidates of one item

ASSUME PixmapAssumption ==
    {MaxPixmapDimension, MaxPixmapBytesPerItem, MaxCandidates} \subseteq Nat

VARIABLES
    set,        \* which set: icon, attention icon, overlay icon, tooltip, 5 when done
    budget,     \* normalize's budget
    total,      \* decodePixmaps' total: bytes kept of this set
    decoded     \* history: the candidates so far and whether each was kept

pixVars == <<set, budget, total, decoded>>

\* Candidates as the bus may bring them: every size within the limits, and one
\* candidate for each check that can fail: no tuple, an empty or too large
\* dimension, data of another size.
Candidates ==
    {[tuple |-> TRUE, width |-> w, height |-> h, len |-> w * h * 4] :
        w, h \in 1..MaxPixmapDimension} \cup
    {[tuple |-> FALSE, width |-> 0, height |-> 0, len |-> 0],
     [tuple |-> TRUE, width |-> 0, height |-> 1, len |-> 0],
     [tuple |-> TRUE, width |-> MaxPixmapDimension + 1, height |-> 1,
      len |-> (MaxPixmapDimension + 1) * 4],
     [tuple |-> TRUE, width |-> 1, height |-> 1, len |-> 8]}

\* Three fields: two integers and bytes.
pixmapFields(c) == c.tuple

\* The checks of one candidate; the dimensions are checked before they are
\* multiplied, so that the product needs no width.
WellFormed(c) ==
    /\ pixmapFields(c)
    /\ c.width > 0 /\ c.height > 0
    /\ c.width <= MaxPixmapDimension /\ c.height <= MaxPixmapDimension
    /\ c.width * c.height * 4 = c.len

----
Fits(c) == total + c.len <= budget

\* One candidate of decodePixmaps' loop: kept, or passed over while its
\* siblings survive.
Decode(c) ==
    /\ set <= 4 /\ Len(decoded) < MaxCandidates
    /\ LET kept == WellFormed(c) /\ Fits(c)
       IN  /\ total' = total + IF kept THEN c.len ELSE 0
           /\ decoded' = Append(decoded, [candidate |-> c, kept |-> kept])
    /\ UNCHANGED <<set, budget>>

\* Faulty variant: every set has the whole budget.
NextSet_Whole ==
    /\ set <= 4
    /\ set' = set + 1
    /\ total' = 0
    /\ UNCHANGED <<budget, decoded>>

\* icon or tooltip takes what was kept off the budget, and the next begins.
NextSet ==
    /\ set <= 4
    /\ set' = set + 1
    /\ budget' = budget - total
    /\ total' = 0
    /\ UNCHANGED decoded

PixInit ==
    /\ set = 1
    /\ budget = MaxPixmapBytesPerItem
    /\ total = 0
    /\ decoded = <<>>

PixNext == NextSet \/ \E c \in Candidates : Decode(c)

PixSpec == PixInit /\ [][PixNext]_pixVars

----
(* Properties.                                                             *)

\* Item.pixmapBytes, after each number of candidates.
pixmapBytes(ds) ==
    LET sum[n \in 0..Len(ds)] ==
            IF n = 0 THEN 0 ELSE sum[n - 1] + IF ds[n].kept THEN ds[n].candidate.len ELSE 0
    IN  sum

\* decodePixmaps' comment: "A malformed candidate is dropped and its healthy
\* siblings survive".  Over all four sets, a candidate is kept exactly when
\* it is well formed and fits beside everything kept before it, so that the
\* item passes Item.Validate's one budget and loses no pixmap without need.
PixmapsFit ==
    /\ pixmapBytes(decoded)[Len(decoded)] <= MaxPixmapBytesPerItem
    /\ \A k \in 1..Len(decoded) :
         LET d == decoded[k]
         IN  d.kept <=> /\ WellFormed(d.candidate)
                        /\ pixmapBytes(decoded)[k - 1] + d.candidate.len
                               <= MaxPixmapBytesPerItem

====
