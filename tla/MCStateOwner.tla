---- MODULE MCStateOwner ----
(***************************************************************************)
(* StateOwner on a small instance: more addresses than slots, so that the  *)
(* item cap is met; three generations, so that stale calls are; two        *)
(* presenters, so that one replaces the other.                             *)
(***************************************************************************)
EXTENDS StateOwner, TLC

CONSTANTS a1, a2, a3, i1, i2, badItem, m1, badMenu, s1, s2

AddressSet == {a1, a2, a3}
ItemSet == {i1, i2}
BadItemSet == {badItem}
MenuSet == {m1}
BadMenuSet == {badMenu}
SinkSet == {s1, s2}

Symmetry == Permutations(AddressSet) \cup Permutations(ItemSet) \cup Permutations(SinkSet)
====
