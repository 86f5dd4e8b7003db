---- MODULE MCTray ----
(* Small instances of Tray for TLC. *)
EXTENDS Tray, TLC

CONSTANTS a1, a2, o1, i1, p1, p2

OneAddress == {a1}
TwoAddresses == {a1, a2}
OneOwner   == {o1}
OneItem    == {i1}
OneCall    == {p1}
TwoCalls   == {p1, p2}
Nothing    == {}

OwnedByOne == [a \in Addresses |-> o1]

\* Sound where one name owns every address.  Not used with liveness.
Symmetry == Permutations(Calls) \cup Permutations(Addresses)

====
