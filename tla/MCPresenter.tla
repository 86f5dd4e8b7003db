---- MODULE MCPresenter ----
(***************************************************************************)
(* Presenter on small instances: one connection with everything the owner  *)
(* and the shell can do, and two connections that race each other.         *)
(***************************************************************************)
EXTENDS Presenter, TLC

CONSTANTS a1, a2, i1, i2, m1, c1, c2

OneAddress == {a1}
TwoAddresses == {a1, a2}
OneItem == {i1}
TwoItems == {i1, i2}
MenuSet == {m1}
OneConn == {c1}
TwoConns == {c1, c2}
UnitPixmaps == [i \in Items |-> 1]

Symmetry == Permutations(Sinks) \cup Permutations(Addresses) \cup Permutations(Items)

====
