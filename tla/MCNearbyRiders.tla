----------------------------- MODULE MCNearbyRiders -----------------------------
(* A search among five riders, who are alike. Of the states in which it    *)
(* starts it is therefore enough to take those where they come in the      *)
(* order of their distances: in any other one they have other names.       *)
EXTENDS NearbyRiders, TLC

CONSTANTS r1, r2, r3, r4, r5

Symmetry == Permutations(Rider)

Far(r) == IF dist[r] = Nowhere THEN MaxKm + 1 ELSE dist[r]
InOrder == Far(r1) <= Far(r2) /\ Far(r2) <= Far(r3) /\ Far(r3) <= Far(r4) /\ Far(r4) <= Far(r5)

InitInOrder == Init /\ InOrder
SpecInOrder == InitInOrder /\ [][Next]_vars
===============================================================================
