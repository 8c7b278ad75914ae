----------------------------- MODULE MCDispatchOps -----------------------------
(* DispatchOps on small instances.                                         *)
EXTENDS DispatchOpsProps, FiniteSets, TLC

Symmetry ==
  Permutations(Rider) \cup Permutations(Offer) \cup Permutations(Handler)
    \cup Permutations(Delivery)
===============================================================================
