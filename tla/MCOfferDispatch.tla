---------------------------- MODULE MCOfferDispatch ----------------------------
(* OfferDispatch on small instances.                                       *)
EXTENDS OfferDispatchProps, FiniteSets, TLC

(* Identifiers are interchangeable. Used for safety only: symmetry is not  *)
(* sound for the liveness runs.                                            *)
Symmetry ==
  Permutations(Rider) \cup Permutations(Offer) \cup Permutations(Handler)
    \cup Permutations(Delivery)
===============================================================================
