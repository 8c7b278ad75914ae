-------------------------- MODULE OfferDispatchProps ---------------------------
(***************************************************************************)
(* What OfferDispatch must do: its invariants, action properties and       *)
(* liveness properties, the inductive invariant that explains them, and    *)
(* the mapping under which it implements Matching.                         *)
(***************************************************************************)
EXTENDS OfferDispatch

(* Every variable has its type.                                            *)
Steps ==
  {"idle", "read", "expire", "assign", "busy", "sync", "accept", "landing", "reject", "release",
   "exclude", "nearby", "checkDelivery", "checkRider", "checkPending", "insert",
   "schedule", "count", "reschedule"}

Ops == {"none", "create", "accept", "reject", "timeout"}

Row == [status : OfferStatus, delivery : Delivery \cup {None},
        rider : Rider \cup {None}, attemptCount : Nat]

Locals == [op : Ops, delivery : Delivery \cup {None}, offer : Offer \cup {None},
           rider : Rider \cup {None}, snap : Nat, attempt : Nat,
           exclude : SUBSET (Rider \cup {None}), fresh : Offer \cup {None}]

(* An operation under a lock is about an offer; a timer is for a new one.  *)
TasksRefer ==
  \A t \in Task :
    /\ loc[t].op \in HoldsLock => loc[t].offer \in Offer
    /\ pc[t] \in {"read", "assign", "busy", "sync", "accept", "landing"}
         => loc[t].op \in HoldsLock
    /\ pc[t] \in {"schedule", "count", "reschedule"} => loc[t].fresh \in Offer

TypeOK ==
  /\ delivery \in [Delivery -> DeliveryStatus]
  /\ rider \in [Rider -> RiderStatus]
  /\ redis \in [Rider -> RiderStatus]
  /\ offer \in [Offer -> Row]
  /\ due \in [Offer -> BOOLEAN]
  /\ lock \in [Offer -> Task \cup {"free", "orphan"}]
  /\ jobs \subseteq [offer : Offer, attempt : Nat]
  /\ pc \in [Task -> Steps]
  /\ loc \in [Task -> Locals]
  /\ TasksRefer
  /\ faults \in Nat

-------------------------------------------------------------------------------
(* Safety                                                                  *)

SameDelivery(o, p) == offer[o].delivery = offer[p].delivery

(* A delivery is never open to, or held by, two riders at once, whatever   *)
(* answers, timeout checks, crashes and failed calls interleave: the lock  *)
(* and the re-read of the status in respond and handleTimeoutCheck let     *)
(* only one task close an offer, and only that task dispatches again.      *)
OneLiveOffer ==
  \A o, p \in Offer : IsLive(o) /\ IsLive(p) /\ SameDelivery(o, p) => o = p

(* No rider is offered the same delivery twice: triggerRedispatch excludes *)
(* everyone asked before, and nobody else is asked while it dispatches.    *)
OncePerRider ==
  \A o, p \in Offer :
    Exists(o) /\ Exists(p) /\ SameDelivery(o, p) /\ offer[o].rider = offer[p].rider
      => o = p

(* An accepted offer has its delivery ASSIGNED and its rider BUSY, in the  *)
(* table and in the Redis key the next search filters by: respond writes   *)
(* them first and the offer last, so a crash in between never leaves an    *)
(* accepted offer whose rider is still proposed to others.                 *)
AcceptedIsAssigned ==
  \A o \in Offer : offer[o].status = "ACCEPTED" =>
    /\ delivery[offer[o].delivery] = "ASSIGNED"
    /\ rider[offer[o].rider] = "BUSY"
    /\ redis[offer[o].rider] = "BUSY"

(* A closed offer stays closed, whatever late answer, second click or      *)
(* stale timeout job comes, except for an acceptance already under way:    *)
(* its save is not awaited and may land after the offer was closed.        *)
Lands(t, o) == At(t, "landing") /\ loc[t].offer = o
ClosedIsFinal ==
  [][\A o \in Offer : Exists(o) /\ ~IsLive(o) /\ (\A t \in Task : ~Lands(t, o))
       => offer'[o].status = offer[o].status]_vars

(* Without faults every pending offer is watched: a timeout job for it is  *)
(* queued, or a task is about to queue one, or a task holds its lock, or   *)
(* its acceptance is under way. So skipping a check on a held lock is safe.*)
IsScheduling(t, o) == At(t, "schedule") /\ loc[t].fresh = o
PendingIsWatched ==
  \A o \in Offer : IsPending(o) /\ faults = 0 =>
    \/ \E j \in jobs : j.offer = o
    \/ \E t \in Task : IsScheduling(t, o) \/ lock[o] = t \/ Lands(t, o)

-------------------------------------------------------------------------------
(* Why it is safe: an inductive invariant, for locks that are not outlived *)

AnswerSteps == {"expire", "assign", "busy", "sync", "accept", "reject"}
DispatchSteps ==
  {"exclude", "nearby", "checkDelivery", "checkRider", "checkPending", "insert"}
Excluding == DispatchSteps \ {"exclude"}
Choosing == Excluding \ {"nearby"}

Dispatching(t) == pc[t] \in DispatchSteps

(* A row refers to a delivery that was created and to a rider; only rows   *)
(* that exist come due.                                                    *)
RowsRefer ==
  \A o \in Offer :
    /\ Exists(o) => /\ offer[o].delivery \in Delivery /\ offer[o].rider \in Rider
                   /\ delivery[offer[o].delivery] # "NONE"
    /\ due[o] => Exists(o)

(* A task inside respond or handleTimeoutCheck holds its offer's lock, but *)
(* for an acceptance that is about to land.                                *)
LockIsHeld ==
  \A t \in Task :
    /\ pc[t] # "idle" /\ loc[t].op \in HoldsLock =>
         /\ loc[t].offer \in Offer
         /\ At(t, "landing") \/ lock[loc[t].offer] = t
         /\ Exists(loc[t].offer)
         /\ loc[t].delivery = offer[loc[t].offer].delivery
    /\ pc[t] \in AnswerSteps \cup {"read", "release"} => loc[t].op \in HoldsLock

(* What it read under the lock stays true, but for an acceptance that      *)
(* lands: the offer is still live ...                                      *)
ReadStaysTrue == \A t \in Task : pc[t] \in AnswerSteps => IsLive(loc[t].offer)

(* ... and what an acceptance has written so far is still there.           *)
Accepting(t) == pc[t] \in {"busy", "sync", "accept", "landing"}
WrittenSoFar ==
  \A t \in Task :
    LET r == offer[loc[t].offer].rider IN
    /\ Accepting(t) => delivery[loc[t].delivery] = "ASSIGNED"
    /\ pc[t] \in {"sync", "accept", "landing"} => rider[r] = "BUSY"
    /\ pc[t] \in {"accept", "landing"} => redis[r] = "BUSY"

(* An acceptance under way is about the one live offer of its delivery, if *)
(* it has one, so landing late makes no second offer live.                 *)
AcceptsTheLiveOne ==
  \A t \in Task : Accepting(t) =>
    /\ \A o \in OffersOf(loc[t].delivery) : IsLive(o) => o = loc[t].offer
    /\ \A u \in Task : Accepting(u) /\ loc[u].delivery = loc[t].delivery
                       => loc[u].offer = loc[t].offer

(* The right to dispatch a delivery while it is PENDING is a token: either *)
(* one live offer or one dispatching task has it.                          *)
OneDispatcher ==
  \A t \in Task : Dispatching(t) =>
    /\ loc[t].delivery \in Delivery
    /\ delivery[loc[t].delivery] # "NONE"
    /\ delivery[loc[t].delivery] = "PENDING" =>
         /\ \A o \in OffersOf(loc[t].delivery) : ~IsLive(o)
         /\ \A u \in Task : Dispatching(u) /\ loc[u].delivery = loc[t].delivery => u = t

(* The status that create checks first is still true when it inserts.      *)
CheckedIsPending ==
  \A t \in Task : pc[t] \in {"checkRider", "checkPending", "insert"}
    => delivery[loc[t].delivery] = "PENDING"

(* The dispatcher excludes everyone who was asked, and chose none of them. *)
AskedAreExcluded ==
  \A t \in Task :
    /\ pc[t] \in Excluding => PreviousRiders(loc[t].delivery) \subseteq loc[t].exclude
    /\ pc[t] \in Choosing => loc[t].rider \in Rider \ loc[t].exclude

(* The inductive invariant of OfferDispatchProofs: all of it together is   *)
(* kept by every step, although no part of it is by itself.                *)
DispatchInv ==
  /\ TypeOK /\ RowsRefer /\ LockIsHeld /\ ReadStaysTrue /\ WrittenSoFar
  /\ AcceptsTheLiveOne /\ OneDispatcher /\ CheckedIsPending /\ AskedAreExcluded
  /\ OneLiveOffer /\ OncePerRider /\ AcceptedIsAssigned

-------------------------------------------------------------------------------
(* Liveness                                                                *)

(* No lock is held for ever, even when its holder dies: the release in     *)
(* `finally', or else the TTL, returns it.                                 *)
LockIsReturned == \A o \in Offer : lock[o] # "free" ~> lock[o] = "free"

-------------------------------------------------------------------------------
(* What is promised to stores and riders                                   *)

(* The riders whose offer for d stands: open, accepted or about to be.     *)
Stands(o) == IsLive(o) \/ \E t \in Task : Lands(t, o)
Standing(d) == {offer[o].rider : o \in {p \in OffersOf(d) : Stands(p)}}

(* Forgetting locks, jobs and tasks, dispatching implements Matching: one  *)
(* rider at a time, nobody twice, nobody else once the delivery is         *)
(* ASSIGNED.                                                               *)
Promise == INSTANCE Matching WITH
  asked   <- [d \in Delivery |-> PreviousRiders(d)],
  holder  <- [d \in Delivery |-> Standing(d)],
  settled <- [d \in Delivery |-> delivery[d] = "ASSIGNED"]

ImplementsMatching == Promise!Spec

(* As long as no call fails and nothing crashes, the promise is kept with  *)
(* its fairness: an offer that stands for a delivery that is not settled   *)
(* is answered, or runs out, in the end.                                   *)
NoFaultYet == faults = 0
AnswersInTheEnd == []NoFaultYet => Promise!Fairness
===============================================================================
