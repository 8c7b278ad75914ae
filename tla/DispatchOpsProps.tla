---------------------------- MODULE DispatchOpsProps ----------------------------
(***************************************************************************)
(* What the admin's and the riders' operations must do, one after another  *)
(* and beside each other.                                                  *)
(***************************************************************************)
EXTENDS DispatchOps, OfferDispatchProps

Idle == \A t \in Task : At(t, "idle")

(* When every operation ran to its end, a delivery is ASSIGNED exactly     *)
(* when an accepted offer owns it (unless it went on to pickup, delivery   *)
(* or cancellation), and never PENDING beside an accepted offer: accept,   *)
(* cancel, assign, reassign and cancelByRider undo each other completely.  *)
OwnedWhenIdle ==
  Idle /\ faults = 0 => \A d \in Delivery :
    /\ delivery[d] = "ASSIGNED" => AcceptedOffers(d) # {}
    /\ delivery[d] = "PENDING" => AcceptedOffers(d) = {}

(* When every operation ran to its end, the rider who has a delivery is    *)
(* BUSY, in the table and in Redis, where dispatch looks: what happens to  *)
(* his other offers and to other riders' deliveries does not free him. Not *)
(* so when he has accepted two deliveries at once, or when a delivery he   *)
(* has done is reported delivered again, cancelled or reassigned: that     *)
(* frees him for a third while he has the other.                           *)
AssignedIsBusy ==
  Idle /\ faults = 0 => \A o \in Offer :
    /\ offer[o].status = "ACCEPTED" /\ delivery[offer[o].delivery] = "ASSIGNED"
    /\ offer[o].rider \notin excused
    => rider[offer[o].rider] = "BUSY" /\ redis[offer[o].rider] = "BUSY"

(* Operations that withdraw or answer an offer hold its lock, one at a     *)
(* time, from the moment they acquired it until they release it.           *)
InsideLock(t) ==
  \/ HoldsAdminLock(t)
  \/ loc[t].op \in HoldsLock /\ pc[t] \notin {"idle", "landing"}
OneInsideLock ==
  \A t, u \in Task : InsideLock(t) /\ InsideLock(u) /\ loc[t].offer = loc[u].offer => t = u
===============================================================================
