---------------------------- MODULE MCDispatchClaims ----------------------------
(***************************************************************************)
(* What a document of the project says of dispatching and the code does    *)
(* not do: the property is expected to be violated.                        *)
(***************************************************************************)
EXTENDS MCOfferDispatch

(* dev/done/offer-timeout/offer-timeout-tasks.md:64, dispatching stops     *)
(* after MAX_DISPATCH_ATTEMPTS redispatches. Every new offer also gets the *)
(* job of create, which is numbered 1 whatever came before.                *)
DispatchStops ==
  \A d \in Delivery : Cardinality(OffersOf(d)) <= MaxDispatchAttempts + 1
===============================================================================
