-------------------------- MODULE OfferDispatchProofs --------------------------
(***************************************************************************)
(* Proofs about OfferDispatch, for any number of deliveries, riders,       *)
(* offers, handlers, workers and faults.                                   *)
(***************************************************************************)
EXTENDS OfferDispatchProps, FiniteSetTheorems, TLAPS

USE DEF rows, Exists, At, Goto, Local, Begin, Done

-------------------------------------------------------------------------------
(* The invariants hold initially.                                          *)

LEMMA InitTypeOK == Init => TypeOK
  BY DEF Init, TypeOK, TasksRefer, HoldsLock, NoOffer, Blank, Row, Locals, Ops, Steps, OfferStatus,
         DeliveryStatus, RiderStatus

LEMMA ReturnTypeOK ==
  ASSUME NEW t \in Task, pc \in [Task -> Steps], loc \in [Task -> Locals], TasksRefer,
         Return(t)
  PROVE  pc' \in [Task -> Steps] /\ loc' \in [Task -> Locals] /\ TasksRefer'
  BY DEF Return, UnderLock, Steps, Blank, Locals, Ops, HoldsLock, TasksRefer

LEMMA RedispatchTypeOK ==
  ASSUME NEW t \in Task, NEW n \in Nat, pc \in [Task -> Steps], loc \in [Task -> Locals],
         TasksRefer, RedispatchOrReturn(t, n)
  PROVE  pc' \in [Task -> Steps] /\ loc' \in [Task -> Locals] /\ TasksRefer'
  <1>1. CASE MayRedispatch(n) /\ Goto(t, "exclude")
             /\ Local(t, [loc[t] EXCEPT !.attempt = n])
    <2>1. [loc[t] EXCEPT !.attempt = n] \in Locals
      BY DEF Locals
    <2>2. pc' \in [Task -> Steps] /\ loc' \in [Task -> Locals]
      BY <1>1, <2>1 DEF Steps
    <2>3. TasksRefer'
      BY <1>1, <2>1 DEF TasksRefer, Locals
    <2> QED
      BY <2>2, <2>3
  <1>2. CASE Return(t)
    BY <1>2, ReturnTypeOK
  <1> QED
    BY <1>1, <1>2 DEF RedispatchOrReturn

LEMMA SavedTypeOK ==
  ASSUME NEW t \in Task, NEW s \in OfferStatus,
         offer \in [Offer -> Row], loc \in [Task -> Locals]
  PROVE  Saved(t, s) \in [Offer -> Row]
  <1>1. loc[t].snap \in Nat
    BY DEF Locals
  <1>2. \A x \in Row : [x EXCEPT !.status = s, !.attemptCount = loc[t].snap] \in Row
    BY <1>1 DEF Row
  <1> QED
    BY <1>2 DEF Saved

-------------------------------------------------------------------------------
(* Every step keeps the types.                                             *)

LEMMA TypeStep == ASSUME TypeOK, [Next]_vars PROVE TypeOK'
  <1> USE DEF TypeOK, TasksRefer, HoldsLock
  <1>1. ASSUME NEW t \in Handler, NEW d \in Delivery, CreateDelivery(t, d) PROVE TypeOK'
    BY <1>1 DEF CreateDelivery, Task, DeliveryStatus, Blank, Locals, Ops, Steps
  <1>2. ASSUME NEW t \in Handler, NEW o \in Offer, NEW op \in {"accept", "reject"},
               Respond(t, o, op)
        PROVE  TypeOK'
    <2>1. offer[o].delivery \in Delivery \cup {None}
      BY DEF Row
    <2> QED
      BY <1>2, <2>1 DEF Respond, Task, Acquired, Blank, Locals, Ops, Steps
  <1>3. ASSUME NEW t \in Worker, NEW j \in jobs, TimeoutCheck(t, j) PROVE TypeOK'
    <2>1. /\ j.offer \in Offer /\ j.attempt \in Nat
          /\ offer[j.offer].delivery \in Delivery \cup {None}
      BY DEF Row
    <2> QED
      BY <1>3, <2>1 DEF TimeoutCheck, Task, Acquired, Blank, Locals, Ops, Steps
  <1>4. ASSUME NEW t \in Worker, NEW j \in jobs, SkipTimeoutCheck(t, j) PROVE TypeOK'
    BY <1>4 DEF SkipTimeoutCheck
  <1>5. ASSUME NEW t \in Task, Answer(t) PROVE TypeOK'
    <2>1. CASE ReadOffer(t)
      <3>1. loc[t].offer \in Offer => offer[loc[t].offer].attemptCount \in Nat
        BY DEF Row
      <3>2. AfterRead(t) \in Steps
        BY DEF AfterRead, Steps
      <3>3. [loc[t] EXCEPT !.snap = offer[loc[t].offer].attemptCount] \in Locals
        <4>1. offer[loc[t].offer].attemptCount \in Nat
          BY <2>1, <3>1 DEF ReadOffer, TasksRefer
        <4>2. \A x \in Locals, n \in Nat : [x EXCEPT !.snap = n] \in Locals
          BY DEF Locals
        <4> QED
          BY <4>1, <4>2
      <3>4. TasksRefer'
        BY <2>1 DEF ReadOffer, AfterRead, Locals
      <3> QED
        BY <2>1, <3>2, <3>3, <3>4 DEF ReadOffer
    <2>2. CASE Expire(t)
      BY <2>2, SavedTypeOK, RedispatchTypeOK, ReturnTypeOK DEF Expire, OfferStatus, Locals
    <2>3. CASE SetAssigned(t)
      BY <2>3 DEF SetAssigned, DeliveryStatus, Steps
    <2>4. CASE SetBusy(t)
      BY <2>4 DEF SetBusy, RiderStatus, Steps
    <2>5. CASE SyncBusy(t)
      BY <2>5 DEF SyncBusy, RiderStatus, Steps
    <2>6. CASE SaveAccepted(t)
      BY <2>6, SavedTypeOK, ReturnTypeOK DEF SaveAccepted, OfferStatus
    <2>7. CASE ReleaseBeforeSave(t)
      BY <2>7 DEF ReleaseBeforeSave, Released, Steps
    <2>8. CASE SaveRejected(t)
      BY <2>8, SavedTypeOK, RedispatchTypeOK DEF SaveRejected, OfferStatus, Locals
    <2>9. CASE Release(t)
      BY <2>9 DEF Release, Released, Blank, Locals, Ops, Steps
    <2> QED
      BY <1>5, <2>1, <2>2, <2>3, <2>4, <2>5, <2>6, <2>7, <2>8, <2>9 DEF Answer
  <1>6. ASSUME NEW t \in Task, Dispatch(t) PROVE TypeOK'
    <2>1. CASE ExcludePrevious(t)
      <3> DEFINE asked == PreviousRiders(loc[t].delivery)
      <3>1. asked \in SUBSET (Rider \cup {None})
        BY DEF PreviousRiders, OffersOf, Row
      <3>2. /\ pc[t] = "exclude" /\ pc' = [pc EXCEPT ![t] = "nearby"]
            /\ loc' = [loc EXCEPT ![t] = [loc[t] EXCEPT !.exclude = asked]]
        BY <2>1 DEF ExcludePrevious
      <3> HIDE DEF asked
      <3>3. [loc[t] EXCEPT !.exclude = asked] \in Locals
        BY <3>1 DEF Locals
      <3>4. loc' \in [Task -> Locals] /\ pc' \in [Task -> Steps]
        BY <3>2, <3>3 DEF Steps
      <3>5. TasksRefer'
        BY <3>2 DEF Locals
      <3> QED
        BY <2>1, <3>4, <3>5 DEF ExcludePrevious
    <2>2. CASE PickRider(t)
      <3>1. PICK r \in NearbyAvailable \ loc[t].exclude :
              Local(t, [loc[t] EXCEPT !.rider = r])
        BY <2>2 DEF PickRider
      <3>2. [loc[t] EXCEPT !.rider = r] \in Locals
        BY DEF NearbyAvailable, Locals
      <3>3. loc' \in [Task -> Locals] /\ pc' \in [Task -> Steps]
        BY <2>2, <3>1, <3>2 DEF PickRider, Steps
      <3>4. TasksRefer'
        BY <2>2, <3>1 DEF PickRider, Locals
      <3> QED
        BY <2>2, <3>3, <3>4 DEF PickRider
    <2>3. CASE NoRider(t)
      BY <2>3, ReturnTypeOK DEF NoRider
    <2>4. CASE CheckDelivery(t)
      BY <2>4, ReturnTypeOK DEF CheckDelivery, Check, Steps
    <2>5. CASE CheckRider(t)
      BY <2>5, ReturnTypeOK DEF CheckRider, Check, Steps
    <2>6. CASE CheckPending(t)
      BY <2>6, ReturnTypeOK DEF CheckPending, Check, Steps
    <2>7. CASE InsertOffer(t)
      <3>1. NewOffer(loc[t].delivery, loc[t].rider) \in Row
        BY DEF NewOffer, Row, Locals, OfferStatus
      <3>2. PICK o \in Offer :
              /\ offer' = [offer EXCEPT ![o] = NewOffer(loc[t].delivery, loc[t].rider)]
              /\ loc' = [loc EXCEPT ![t] = [loc[t] EXCEPT !.fresh = o]]
        BY <2>7 DEF InsertOffer
      <3>3. offer' \in [Offer -> Row] /\ pc' \in [Task -> Steps]
        BY <2>7, <3>1, <3>2 DEF InsertOffer, Steps
      <3>4. \A x \in Locals : [x EXCEPT !.fresh = o] \in Locals /\ [x EXCEPT !.fresh = o].fresh = o
        BY DEF Locals
      <3>5. loc' \in [Task -> Locals] /\ loc'[t].fresh = o /\ loc'[t].op = loc[t].op
            /\ loc'[t].offer = loc[t].offer
        BY <3>2, <3>4
      <3>6. TasksRefer'
        BY <2>7, <3>2, <3>5 DEF InsertOffer, TasksRefer
      <3> QED
        BY <2>7, <3>3, <3>5, <3>6 DEF InsertOffer
    <2>8. CASE Schedule(t)
      BY <2>8, ReturnTypeOK DEF Schedule, Enqueue, Job, Locals, Steps
    <2>9. CASE CountAttempt(t)
      <3>1. loc[t].attempt + 1 \in Nat /\ loc[t].fresh \in Offer
        BY <2>9 DEF CountAttempt, Locals
      <3>2. offer' \in [Offer -> Row]
        BY <2>9, <3>1 DEF CountAttempt, Row
      <3>3. TasksRefer' /\ pc' \in [Task -> Steps]
        BY <2>9 DEF CountAttempt, Steps
      <3> QED
        BY <2>9, <3>2, <3>3 DEF CountAttempt
    <2>10. CASE Reschedule(t)
      BY <2>10, ReturnTypeOK DEF Reschedule, Enqueue, Job, Locals
    <2> QED
      BY <1>6, <2>1, <2>2, <2>3, <2>4, <2>5, <2>6, <2>7, <2>8, <2>9, <2>10 DEF Dispatch
  <1>7. ASSUME NEW o \in Offer, Deadline(o) \/ LockExpires(o) PROVE TypeOK'
    BY <1>7 DEF Deadline, LockExpires
  <1>8. ASSUME NEW t \in Task, Fail(t) PROVE TypeOK'
    BY <1>8, FaultsAreCounted, ReturnTypeOK DEF Fail
  <1>9. ASSUME NEW t \in Task, Crash(t) PROVE TypeOK'
    BY <1>9, FaultsAreCounted DEF Crash, Job, Blank, Locals, Ops, Steps
  <1>10. CASE UNCHANGED vars
    BY <1>10 DEF vars
  <1> QED
    BY <1>1, <1>2, <1>3, <1>4, <1>5, <1>6, <1>7, <1>8, <1>9, <1>10
    DEF Next, Request, Work, Step, Environment

(* Type correctness: every table, key, queue and local variable of the     *)
(* dispatch code stays within its type, for any instance.                  *)
THEOREM TypeCorrect == Spec => []TypeOK
  <1>1. Init => TypeOK
    BY InitTypeOK
  <1>2. TypeOK /\ [Next]_vars => TypeOK'
    BY TypeStep
  <1> QED
    BY <1>1, <1>2, PTL DEF Spec

-------------------------------------------------------------------------------
(* Two facts the actions share.                                            *)

(* A save changes the status of one row, not whom it was offered to.       *)
LEMMA SavedRow ==
  ASSUME TypeOK, NEW t \in Task, loc[t].offer \in Offer, Exists(loc[t].offer),
         NEW s \in OfferStatus \ {"NONE"}, offer' = Saved(t, s)
  PROVE  /\ offer'[loc[t].offer].status = s
         /\ \A o \in Offer \ {loc[t].offer} : offer'[o] = offer[o]
         /\ \A o \in Offer : /\ Exists(o)' <=> Exists(o)
                             /\ offer'[o].delivery = offer[o].delivery
                             /\ offer'[o].rider = offer[o].rider
         /\ \A d \in Delivery : OffersOf(d)' = OffersOf(d)
         /\ \A d \in Delivery : PreviousRiders(d)' = PreviousRiders(d)
  <1>1. \A o \in Offer : offer[o] \in Row
    BY DEF TypeOK
  <1>2. /\ offer'[loc[t].offer].status = s
        /\ \A o \in Offer \ {loc[t].offer} : offer'[o] = offer[o]
        /\ \A o \in Offer : /\ offer'[o].delivery = offer[o].delivery
                            /\ offer'[o].rider = offer[o].rider
    BY <1>1 DEF TypeOK, Saved, Row
  <1>3. \A o \in Offer : Exists(o)' <=> Exists(o)
    BY <1>2
  <1>4. \A d \in Delivery : OffersOf(d)' = OffersOf(d)
    BY <1>2, <1>3 DEF OffersOf
  <1>5. \A d \in Delivery : PreviousRiders(d)' = PreviousRiders(d)
    BY <1>2, <1>4 DEF PreviousRiders, OffersOf
  <1> QED
    BY <1>2, <1>3, <1>4, <1>5

(* Leaving an operation keeps the invariant.                               *)
LEMMA ReturnKeeps ==
  ASSUME DispatchInv, TypeOK', NEW t \in Task, pc[t] # "idle", Return(t),
         UNCHANGED <<rows, due, lock>>
  PROVE  DispatchInv'
  <1>1. pc' \in {[pc EXCEPT ![t] = "release"], [pc EXCEPT ![t] = "idle"]}
    BY DEF Return, UnderLock
  <1>2. \A u \in Task : pc'[u] = pc[u] \/ (u = t /\ pc'[u] \in {"release", "idle"})
    BY <1>1 DEF DispatchInv, TypeOK
  <1>3. \A u \in Task : loc'[u] = loc[u] \/ (u = t /\ pc'[u] = "idle")
    BY DEF Return, UnderLock, DispatchInv, TypeOK
  <1>4. RowsRefer' /\ OneLiveOffer' /\ OncePerRider' /\ AcceptedIsAssigned'
    BY DEF DispatchInv, RowsRefer, OneLiveOffer, OncePerRider, AcceptedIsAssigned,
           IsLive, SameDelivery
  <1>5. LockIsHeld'
    BY DEF Return, UnderLock, DispatchInv, TypeOK, LockIsHeld, Blank, HoldsLock, AnswerSteps
  <1>6. ReadStaysTrue' /\ WrittenSoFar'
    BY <1>2, <1>3 DEF DispatchInv, ReadStaysTrue, WrittenSoFar, Accepting, IsLive, AnswerSteps, IsPending
  <1>7. AcceptsTheLiveOne' /\ OneDispatcher' /\ CheckedIsPending' /\ AskedAreExcluded'
    BY <1>2, <1>3 DEF DispatchInv, AcceptsTheLiveOne, Accepting, OneDispatcher,
       CheckedIsPending, AskedAreExcluded, Dispatching,
       DispatchSteps, Excluding, Choosing, OffersOf, PreviousRiders, IsLive
  <1> QED
    BY <1>4, <1>5, <1>6, <1>7 DEF DispatchInv

(* Closing a pending offer hands the right to dispatch its delivery to the *)
(* task that closed it, or to nobody.                                      *)
LEMMA CloseKeeps ==
  ASSUME DispatchInv, TypeOK', NEW t \in Task, pc[t] \in {"expire", "reject"},
         NEW s \in {"REJECTED", "EXPIRED"}, offer' = Saved(t, s),
         NEW n \in Nat, RedispatchOrReturn(t, n) \/ Return(t),
         UNCHANGED <<delivery, rider, redis, due, lock>>
  PROVE  DispatchInv'
  <1> DEFINE o == loc[t].offer
  <1>1. /\ loc[t].op \in HoldsLock /\ o \in Offer /\ lock[o] = t /\ Exists(o)
        /\ IsLive(o) /\ loc[t].delivery = offer[o].delivery
        /\ loc[t].delivery \in Delivery /\ delivery[loc[t].delivery] # "NONE"
    BY DEF DispatchInv, LockIsHeld, ReadStaysTrue, AnswerSteps, RowsRefer
  <1>2. /\ offer'[o].status = s
        /\ \A p \in Offer \ {o} : offer'[p] = offer[p]
        /\ \A p \in Offer : /\ Exists(p)' <=> Exists(p)
                            /\ offer'[p].delivery = offer[p].delivery
                            /\ offer'[p].rider = offer[p].rider
        /\ \A d \in Delivery : OffersOf(d)' = OffersOf(d)
        /\ \A d \in Delivery : PreviousRiders(d)' = PreviousRiders(d)
    BY <1>1, SavedRow DEF DispatchInv, OfferStatus
  <1>3. /\ pc'[t] \in {"exclude", "release"}
        /\ loc'[t].op = loc[t].op /\ loc'[t].offer = o /\ loc'[t].delivery = loc[t].delivery
        /\ \A u \in Task \ {t} : pc'[u] = pc[u] /\ loc'[u] = loc[u]
    BY <1>1 DEF RedispatchOrReturn, Return, UnderLock, DispatchInv, TypeOK, Locals
  <1>4. RowsRefer' /\ OneLiveOffer' /\ AcceptedIsAssigned'
    BY <1>2 DEF DispatchInv, RowsRefer, OneLiveOffer, AcceptedIsAssigned, IsLive, SameDelivery
  <1>5. OncePerRider'
    BY <1>2 DEF DispatchInv, OncePerRider, SameDelivery
  <1>6. LockIsHeld'
    BY <1>1, <1>2, <1>3 DEF DispatchInv, LockIsHeld, AnswerSteps
  <1>7. ReadStaysTrue'
    <2>1. \A u \in Task \ {t} : pc[u] \in AnswerSteps => loc[u].offer \in Offer \ {o}
      BY <1>1 DEF DispatchInv, LockIsHeld, AnswerSteps
    <2> QED
      BY <1>2, <1>3, <2>1 DEF DispatchInv, ReadStaysTrue, AnswerSteps, IsLive
  <1>8. \A u \in Task : Accepting(u) => u # t /\ loc[u].offer \in Offer
    BY DEF DispatchInv, LockIsHeld, TypeOK, TasksRefer, Accepting
  <1>9. WrittenSoFar' /\ AcceptsTheLiveOne'
    <2>1. \A u \in Task : Accepting(u)' => Accepting(u) /\ u # t
      BY <1>3, <1>8 DEF Accepting
    <2>2. \A u \in Task : Accepting(u) => loc[u].delivery \in Delivery
      BY <1>8 DEF DispatchInv, LockIsHeld, RowsRefer, TypeOK, TasksRefer, Accepting
    <2>3. \A p \in Offer : IsLive(p)' => IsLive(p)
      BY <1>2 DEF IsLive
    <2>4. WrittenSoFar'
      BY <1>2, <1>3, <1>8, <2>1 DEF DispatchInv, WrittenSoFar, Accepting
    <2>5. AcceptsTheLiveOne'
      BY <1>2, <1>3, <2>1, <2>2, <2>3 DEF DispatchInv, AcceptsTheLiveOne, OffersOf
    <2> QED
      BY <2>4, <2>5
  <1>10. OneDispatcher'
    <2>1. delivery[loc[t].delivery] = "PENDING" =>
            \A u \in Task : Dispatching(u) => loc[u].delivery # loc[t].delivery
      BY <1>1 DEF DispatchInv, OneDispatcher, OffersOf
    <2>2. \A p \in Offer : Exists(p) /\ offer[p].delivery = loc[t].delivery => ~IsLive(p)'
      BY <1>1, <1>2 DEF DispatchInv, OneLiveOffer, IsLive, SameDelivery
    <2>3. \A u \in Task \ {t} : Dispatching(u) /\ delivery[loc[u].delivery] = "PENDING" =>
            \A p \in OffersOf(loc[u].delivery) : ~IsLive(p)'
      BY <1>1, <1>2 DEF DispatchInv, OneDispatcher, OffersOf, IsLive
    <2>4. \A u \in Task \ {t} : Dispatching(u)' => Dispatching(u)
      BY <1>3 DEF Dispatching
    <2> QED
      BY <1>1, <1>2, <1>3, <2>1, <2>2, <2>3, <2>4 DEF DispatchInv, OneDispatcher, OffersOf
  <1>11. CheckedIsPending' /\ AskedAreExcluded'
    BY <1>2, <1>3 DEF DispatchInv, CheckedIsPending, AskedAreExcluded, Excluding, Choosing,
       DispatchSteps, OneDispatcher, Dispatching
  <1> QED
    BY <1>4, <1>5, <1>6, <1>7, <1>9, <1>10, <1>11 DEF DispatchInv

-------------------------------------------------------------------------------
(* Each action keeps the invariant. The first leaf of a proof is about the *)
(* rows, the second about locks, the third about who may dispatch.         *)

LEMMA CreateDeliveryKeeps ==
  ASSUME DispatchInv, TypeOK', NEW t \in Handler, NEW d \in Delivery, CreateDelivery(t, d)
  PROVE  DispatchInv'
  <1> USE DEF DispatchInv, TypeOK, CreateDelivery, Task, Blank
  <1>1. RowsRefer' /\ OneLiveOffer' /\ OncePerRider' /\ AcceptedIsAssigned'
    BY DEF RowsRefer, OneLiveOffer, OncePerRider, AcceptedIsAssigned, IsLive, SameDelivery
  <1>2. LockIsHeld' /\ ReadStaysTrue' /\ WrittenSoFar'
    BY DEF LockIsHeld, ReadStaysTrue, WrittenSoFar, Accepting, IsLive, AnswerSteps, HoldsLock, IsPending
  <1>3. AcceptsTheLiveOne' /\ OneDispatcher' /\ CheckedIsPending' /\ AskedAreExcluded'
    BY DEF AcceptsTheLiveOne, Accepting, OneDispatcher,
       CheckedIsPending, AskedAreExcluded, Dispatching, DispatchSteps, Excluding, Choosing,
           OffersOf, PreviousRiders, RowsRefer, IsLive
  <1> QED
    BY <1>1, <1>2, <1>3

LEMMA RespondKeeps ==
  ASSUME DispatchInv, TypeOK', NEW t \in Handler, NEW o \in Offer,
         NEW op \in {"accept", "reject"}, Respond(t, o, op)
  PROVE  DispatchInv'
  <1> USE DEF DispatchInv, TypeOK, Respond, Task, Blank
  <1>1. RowsRefer' /\ OneLiveOffer' /\ OncePerRider' /\ AcceptedIsAssigned'
    BY DEF RowsRefer, OneLiveOffer, OncePerRider, AcceptedIsAssigned, IsLive, SameDelivery
  <1>2. LockIsHeld' /\ ReadStaysTrue' /\ WrittenSoFar'
    <2>1. LockIsHeld'
      BY LockWords DEF LockIsHeld, AnswerSteps, HoldsLock, Acquired, LockIsFree
    <2>2. ReadStaysTrue'
      BY LockWords DEF ReadStaysTrue, IsPending, IsLive, AnswerSteps, Accepting
    <2>3. WrittenSoFar'
      BY LockWords DEF WrittenSoFar, Accepting
    <2> QED
      BY <2>1, <2>2, <2>3
  <1>3. AcceptsTheLiveOne' /\ OneDispatcher' /\ CheckedIsPending' /\ AskedAreExcluded'
    BY DEF AcceptsTheLiveOne, Accepting, OneDispatcher,
       CheckedIsPending, AskedAreExcluded, Dispatching, DispatchSteps, Excluding, Choosing,
           OffersOf, PreviousRiders, IsLive
  <1> QED
    BY <1>1, <1>2, <1>3

LEMMA TimeoutCheckKeeps ==
  ASSUME DispatchInv, TypeOK', NEW t \in Worker, NEW j \in jobs, TimeoutCheck(t, j)
  PROVE  DispatchInv'
  <1> USE DEF DispatchInv, TypeOK, TimeoutCheck, Task, Blank
  <1>1. RowsRefer' /\ OneLiveOffer' /\ OncePerRider' /\ AcceptedIsAssigned'
    BY DEF RowsRefer, OneLiveOffer, OncePerRider, AcceptedIsAssigned, IsLive, SameDelivery
  <1>2. LockIsHeld' /\ ReadStaysTrue' /\ WrittenSoFar'
    <2>1. LockIsHeld'
      BY LockWords DEF LockIsHeld, AnswerSteps, HoldsLock, Acquired, LockIsFree, RowsRefer
    <2>2. ReadStaysTrue'
      BY LockWords DEF ReadStaysTrue, IsPending, IsLive, AnswerSteps, Accepting, RowsRefer
    <2>3. WrittenSoFar'
      BY LockWords DEF WrittenSoFar, Accepting, RowsRefer
    <2> QED
      BY <2>1, <2>2, <2>3
  <1>3. AcceptsTheLiveOne' /\ OneDispatcher' /\ CheckedIsPending' /\ AskedAreExcluded'
    BY DEF AcceptsTheLiveOne, Accepting, OneDispatcher,
       CheckedIsPending, AskedAreExcluded, Dispatching, DispatchSteps, Excluding, Choosing,
           OffersOf, PreviousRiders, IsLive
  <1> QED
    BY <1>1, <1>2, <1>3

LEMMA ReadOfferKeeps ==
  ASSUME DispatchInv, TypeOK', NEW t \in Task, ReadOffer(t)
  PROVE  DispatchInv'
  <1> USE DEF DispatchInv, TypeOK, ReadOffer
  <1>1. RowsRefer' /\ OneLiveOffer' /\ OncePerRider' /\ AcceptedIsAssigned'
    BY DEF RowsRefer, OneLiveOffer, OncePerRider, AcceptedIsAssigned, IsLive, SameDelivery
  <1>2. /\ pc'[t] \in {"release", "expire", "assign", "reject"}
        /\ pc'[t] # "release" => IsPending(loc[t].offer)
        /\ loc'[t].op = loc[t].op /\ loc'[t].offer = loc[t].offer
        /\ loc'[t].delivery = loc[t].delivery
    BY DEF AfterRead, Locals
  <1>3. \A u \in Task \ {t} : pc'[u] = pc[u] /\ loc'[u] = loc[u]
    OBVIOUS
  <1>4. LockIsHeld'
    BY <1>2, <1>3 DEF LockIsHeld, AnswerSteps
  <1>5. ReadStaysTrue' /\ WrittenSoFar'
    BY <1>2, <1>3 DEF ReadStaysTrue, WrittenSoFar, Accepting, IsLive, AnswerSteps, IsPending
  <1>6. AcceptsTheLiveOne' /\ OneDispatcher' /\ CheckedIsPending' /\ AskedAreExcluded'
    BY <1>2, <1>3 DEF AcceptsTheLiveOne, Accepting, OneDispatcher,
       CheckedIsPending, AskedAreExcluded, Dispatching, DispatchSteps, Excluding,
       Choosing, OffersOf, PreviousRiders, IsLive
  <1> QED
    BY <1>1, <1>4, <1>5, <1>6

(* The offer to be accepted is live, so it is the only one of its delivery *)
(* and nobody else is about to make another: the delivery was PENDING.     *)
LEMMA SetAssignedKeeps ==
  ASSUME DispatchInv, TypeOK', NEW t \in Task, SetAssigned(t)
  PROVE  DispatchInv'
  <1> DEFINE o == loc[t].offer
             d == loc[t].delivery
  <1>1. /\ loc[t].op \in HoldsLock /\ o \in Offer /\ Exists(o) /\ IsLive(o)
        /\ d = offer[o].delivery /\ d \in Delivery
    BY DEF SetAssigned, DispatchInv, LockIsHeld, ReadStaysTrue, AnswerSteps, RowsRefer
  <1>2. /\ pc[t] = "assign" /\ pc'[t] = "busy" /\ \A u \in Task \ {t} : pc'[u] = pc[u]
        /\ delivery'[d] = "ASSIGNED" /\ \A e \in Delivery \ {d} : delivery'[e] = delivery[e]
        /\ UNCHANGED <<rider, redis, offer, due, lock, loc>>
    BY <1>1 DEF SetAssigned, DispatchInv, TypeOK
  <1>3. \A e \in Delivery : OffersOf(e)' = OffersOf(e) /\ PreviousRiders(e)' = PreviousRiders(e)
    BY <1>2 DEF OffersOf, PreviousRiders
  <1>4. RowsRefer' /\ OneLiveOffer' /\ OncePerRider' /\ AcceptedIsAssigned'
    BY <1>2 DEF DispatchInv, RowsRefer, OneLiveOffer, OncePerRider, AcceptedIsAssigned, IsLive,
       SameDelivery
  <1>5. LockIsHeld' /\ ReadStaysTrue'
    BY <1>1, <1>2 DEF DispatchInv, LockIsHeld, ReadStaysTrue, AnswerSteps, IsLive
  <1>6. \A u \in Task : Accepting(u) => /\ loc[u].offer \in Offer /\ Exists(loc[u].offer)
                                       /\ loc[u].delivery = offer[loc[u].offer].delivery
                                       /\ loc[u].delivery \in Delivery
    BY DEF DispatchInv, LockIsHeld, TypeOK, TasksRefer, Accepting, RowsRefer
  <1>7. WrittenSoFar'
    BY <1>1, <1>2, <1>6 DEF DispatchInv, WrittenSoFar, Accepting
  <1>8. AcceptsTheLiveOne'
    <2>1. \A p \in OffersOf(d) : IsLive(p) => p = o
      BY <1>1 DEF DispatchInv, OneLiveOffer, OffersOf, SameDelivery
    <2>2. \A u \in Task : Accepting(u) /\ loc[u].delivery = d => loc[u].offer = o
      BY <1>1, <1>6 DEF DispatchInv, AcceptsTheLiveOne, OffersOf
    <2>3. \A u \in Task : Accepting(u)' <=> Accepting(u) \/ u = t
      BY <1>2 DEF Accepting
    <2> QED
      BY <1>1, <1>2, <1>3, <1>6, <2>1, <2>2, <2>3 DEF DispatchInv, AcceptsTheLiveOne, IsLive
  <1>9. OneDispatcher'
    BY <1>1, <1>2, <1>3 DEF DispatchInv, OneDispatcher, Dispatching, DispatchSteps, IsLive
  <1>10. CheckedIsPending'
    <2>1. \A u \in Task : pc[u] \in {"checkRider", "checkPending", "insert"} =>
            loc[u].delivery \in Delivery \ {d}
      BY <1>1 DEF DispatchInv, CheckedIsPending, OneDispatcher, Dispatching, DispatchSteps,
         OffersOf
    <2> QED
      BY <1>2, <2>1 DEF DispatchInv, CheckedIsPending
  <1>11. AskedAreExcluded'
    BY <1>2, <1>3 DEF DispatchInv, AskedAreExcluded, Excluding, Choosing, DispatchSteps,
       OneDispatcher, Dispatching
  <1> QED
    BY <1>4, <1>5, <1>7, <1>8, <1>9, <1>10, <1>11 DEF DispatchInv

LEMMA AcceptingKeeps ==
  ASSUME DispatchInv, TypeOK', NEW t \in Task,
         SetBusy(t) \/ SyncBusy(t) \/ ReleaseBeforeSave(t)
  PROVE  DispatchInv'
  <1> USE DEF DispatchInv, TypeOK, SetBusy, SyncBusy, ReleaseBeforeSave, Released
  <1>1. RowsRefer' /\ OneLiveOffer' /\ OncePerRider' /\ AcceptedIsAssigned'
    BY DEF RowsRefer, OneLiveOffer, OncePerRider, AcceptedIsAssigned, IsLive, SameDelivery
  <1>2. LockIsHeld' /\ ReadStaysTrue'
    BY DEF LockIsHeld, ReadStaysTrue, IsLive, AnswerSteps
  <1>3. \A u \in Task : Accepting(u) => /\ loc[u].offer \in Offer /\ Exists(loc[u].offer)
                                       /\ offer[loc[u].offer].rider \in Rider
    BY DEF LockIsHeld, TasksRefer, Accepting, RowsRefer
  <1>4. WrittenSoFar'
    BY <1>3 DEF WrittenSoFar, Accepting
  <1>5. AcceptsTheLiveOne'
    BY DEF AcceptsTheLiveOne, Accepting, OffersOf, IsLive
  <1>6. OneDispatcher' /\ CheckedIsPending' /\ AskedAreExcluded'
    BY DEF OneDispatcher, CheckedIsPending, AskedAreExcluded, Dispatching, DispatchSteps,
           Excluding, Choosing, OffersOf, PreviousRiders, IsLive
  <1> QED
    BY <1>1, <1>2, <1>4, <1>5, <1>6

(* The saved offer was the only one that could be live, whether or not it  *)
(* was closed meanwhile; its delivery and rider were written before.       *)
LEMMA SaveAcceptedKeeps ==
  ASSUME DispatchInv, TypeOK', NEW t \in Task, SaveAccepted(t)
  PROVE  DispatchInv'
  <1> DEFINE o == loc[t].offer
             d == loc[t].delivery
  <1>1. /\ pc[t] \in {"accept", "landing"} /\ loc[t].op \in HoldsLock
        /\ o \in Offer /\ Exists(o) /\ d = offer[o].delivery /\ d \in Delivery
        /\ delivery[d] = "ASSIGNED"
        /\ rider[offer[o].rider] = "BUSY" /\ redis[offer[o].rider] = "BUSY"
        /\ \A p \in OffersOf(d) : IsLive(p) => p = o
    BY DEF SaveAccepted, DispatchInv, TypeOK, TasksRefer, LockIsHeld, WrittenSoFar, RowsRefer,
       AcceptsTheLiveOne, Accepting
  <1>2. /\ offer'[o].status = "ACCEPTED"
        /\ \A p \in Offer \ {o} : offer'[p] = offer[p]
        /\ \A p \in Offer : /\ Exists(p)' <=> Exists(p)
                            /\ offer'[p].delivery = offer[p].delivery
                            /\ offer'[p].rider = offer[p].rider
        /\ \A e \in Delivery : OffersOf(e)' = OffersOf(e)
        /\ \A e \in Delivery : PreviousRiders(e)' = PreviousRiders(e)
    BY <1>1, SavedRow DEF SaveAccepted, DispatchInv, OfferStatus
  <1>3. /\ UNCHANGED <<delivery, rider, redis, due, lock>>
        /\ \A u \in Task \ {t} : pc'[u] = pc[u] /\ loc'[u] = loc[u]
        /\ \/ pc'[t] = "release" /\ pc[t] = "accept" /\ loc'[t] = loc[t]
           \/ pc'[t] = "idle" /\ loc'[t] = Blank
    BY <1>1 DEF SaveAccepted, Return, UnderLock, DispatchInv, TypeOK
  <1>4. RowsRefer' /\ AcceptedIsAssigned'
    BY <1>1, <1>2, <1>3 DEF DispatchInv, RowsRefer, AcceptedIsAssigned
  <1>5. OneLiveOffer'
    <2>1. \A p \in Offer : IsLive(p)' => Exists(p) /\ (p = o \/ IsLive(p))
      BY <1>1, <1>2 DEF IsLive
    <2>2. \A p \in Offer : IsLive(p)' /\ offer[p].delivery = d => p = o
      BY <1>1, <2>1 DEF OffersOf
    <2> QED
      BY <1>1, <1>2, <2>1, <2>2 DEF DispatchInv, OneLiveOffer, SameDelivery
  <1>6. OncePerRider'
    BY <1>2 DEF DispatchInv, OncePerRider, SameDelivery
  <1>7. LockIsHeld' /\ ReadStaysTrue'
    BY <1>1, <1>2, <1>3 DEF DispatchInv, LockIsHeld, ReadStaysTrue, AnswerSteps, IsLive, Blank
  <1>8. \A u \in Task : Accepting(u) => /\ loc[u].offer \in Offer
                                       /\ loc[u].delivery \in Delivery
    BY DEF DispatchInv, LockIsHeld, TypeOK, TasksRefer, Accepting, RowsRefer
  <1>9. \A u \in Task : Accepting(u)' => u # t /\ Accepting(u)
    BY <1>3 DEF Accepting
  <1>10. WrittenSoFar'
    BY <1>2, <1>3, <1>8, <1>9 DEF DispatchInv, WrittenSoFar, Accepting
  <1>11. AcceptsTheLiveOne'
    <2>1. \A u \in Task : Accepting(u) /\ loc[u].delivery = d => loc[u].offer = o
      BY <1>1 DEF DispatchInv, AcceptsTheLiveOne, Accepting
    <2>2. \A p \in Offer : IsLive(p)' => p = o \/ IsLive(p)
      BY <1>2 DEF IsLive
    <2>3. \A p \in Offer : p \in OffersOf(d) <=> Exists(p) /\ offer[p].delivery = d
      BY DEF OffersOf
    <2> QED
      BY <1>1, <1>2, <1>3, <1>8, <1>9, <2>1, <2>2, <2>3
      DEF DispatchInv, AcceptsTheLiveOne, OffersOf
  <1>12. OneDispatcher'
    <2>1. \A u \in Task : Dispatching(u)' => u # t /\ Dispatching(u)
      BY <1>3 DEF Dispatching, DispatchSteps
    <2>2. \A p \in Offer : IsLive(p)' => p = o \/ IsLive(p)
      BY <1>2 DEF IsLive
    <2> QED
      BY <1>1, <1>2, <1>3, <2>1, <2>2 DEF DispatchInv, OneDispatcher, OffersOf
  <1>13. CheckedIsPending' /\ AskedAreExcluded'
    BY <1>2, <1>3 DEF DispatchInv, CheckedIsPending, AskedAreExcluded, Excluding, Choosing,
       DispatchSteps, OneDispatcher, Dispatching
  <1> QED
    BY <1>4, <1>5, <1>6, <1>7, <1>10, <1>11, <1>12, <1>13 DEF DispatchInv

LEMMA ReleaseKeeps ==
  ASSUME DispatchInv, TypeOK', NEW t \in Task, Release(t)
  PROVE  DispatchInv'
  <1> USE DEF DispatchInv, TypeOK, Release, Blank
  <1>1. RowsRefer' /\ OneLiveOffer' /\ OncePerRider' /\ AcceptedIsAssigned'
    BY DEF RowsRefer, OneLiveOffer, OncePerRider, AcceptedIsAssigned, IsLive, SameDelivery
  <1>2. LockIsHeld' /\ ReadStaysTrue' /\ WrittenSoFar'
    BY DEF LockIsHeld, ReadStaysTrue, WrittenSoFar, Accepting, IsLive, AnswerSteps, HoldsLock, IsPending, Released
  <1>3. AcceptsTheLiveOne' /\ OneDispatcher' /\ CheckedIsPending' /\ AskedAreExcluded'
    BY DEF AcceptsTheLiveOne, Accepting, OneDispatcher,
       CheckedIsPending, AskedAreExcluded, Dispatching, DispatchSteps, Excluding, Choosing,
           OffersOf, PreviousRiders, IsLive
  <1> QED
    BY <1>1, <1>2, <1>3

LEMMA ChoosingKeeps ==
  ASSUME DispatchInv, TypeOK', NEW t \in Task, ExcludePrevious(t) \/ PickRider(t)
  PROVE  DispatchInv'
  <1> USE DEF DispatchInv, TypeOK
  <1>1. UNCHANGED <<rows, due, lock>>
    BY DEF ExcludePrevious, PickRider
  <1>2. PICK l \in Locals :
          /\ loc' = [loc EXCEPT ![t] = l]
          /\ l.op = loc[t].op /\ l.offer = loc[t].offer /\ l.delivery = loc[t].delivery
          /\ \/ /\ pc[t] = "exclude" /\ pc' = [pc EXCEPT ![t] = "nearby"]
                /\ l.exclude = PreviousRiders(loc[t].delivery)
             \/ /\ pc[t] = "nearby" /\ pc' = [pc EXCEPT ![t] = "checkDelivery"]
                /\ l.exclude = loc[t].exclude /\ l.rider \in Rider \ l.exclude
    <2>1. loc'[t] \in Locals
      OBVIOUS
    <2>2. CASE ExcludePrevious(t)
      <3> DEFINE asked == PreviousRiders(loc[t].delivery)
      <3>1. /\ pc[t] = "exclude" /\ pc' = [pc EXCEPT ![t] = "nearby"]
            /\ loc' = [loc EXCEPT ![t] = [loc[t] EXCEPT !.exclude = asked]]
        BY <2>2 DEF ExcludePrevious
      <3> HIDE DEF asked
      <3>2. /\ loc' = [loc EXCEPT ![t] = loc'[t]]
            /\ loc'[t].op = loc[t].op /\ loc'[t].offer = loc[t].offer
            /\ loc'[t].delivery = loc[t].delivery /\ loc'[t].exclude = asked
        BY <3>1 DEF Locals
      <3> QED
        BY <2>1, <3>1, <3>2 DEF asked
    <2>3. CASE PickRider(t)
      <3>1. PICK r \in NearbyAvailable \ loc[t].exclude :
              loc' = [loc EXCEPT ![t] = [loc[t] EXCEPT !.rider = r]]
        BY <2>3 DEF PickRider
      <3>2. /\ loc' = [loc EXCEPT ![t] = loc'[t]]
            /\ loc'[t].op = loc[t].op /\ loc'[t].offer = loc[t].offer
            /\ loc'[t].delivery = loc[t].delivery /\ loc'[t].exclude = loc[t].exclude
            /\ loc'[t].rider = r
        BY <3>1 DEF Locals
      <3>3. pc[t] = "nearby" /\ pc' = [pc EXCEPT ![t] = "checkDelivery"]
        BY <2>3 DEF PickRider
      <3>4. r \in Rider \ loc'[t].exclude
        BY <3>1, <3>2 DEF NearbyAvailable
      <3> QED
        BY <2>1, <3>2, <3>3, <3>4
    <2> QED
      BY <2>2, <2>3
  <1>3. /\ loc'[t] = l /\ pc'[t] \in {"nearby", "checkDelivery"}
        /\ \A u \in Task \ {t} : pc'[u] = pc[u] /\ loc'[u] = loc[u]
    BY <1>2
  <1>4. RowsRefer' /\ OneLiveOffer' /\ OncePerRider' /\ AcceptedIsAssigned'
    BY <1>1 DEF RowsRefer, OneLiveOffer, OncePerRider, AcceptedIsAssigned, IsLive, SameDelivery
  <1>5. LockIsHeld' /\ ReadStaysTrue' /\ WrittenSoFar'
    BY <1>1, <1>2, <1>3 DEF LockIsHeld, ReadStaysTrue, WrittenSoFar, Accepting, IsLive, AnswerSteps, IsPending
  <1>6. OneDispatcher'
    BY <1>1, <1>2, <1>3 DEF OneDispatcher, Dispatching, DispatchSteps, OffersOf, IsLive
  <1>7. \A d \in Delivery : PreviousRiders(d)' = PreviousRiders(d)
    BY <1>1 DEF PreviousRiders, OffersOf
  <1>8. AskedAreExcluded'
    BY <1>2, <1>3, <1>7 DEF AskedAreExcluded, DispatchSteps, Excluding, Choosing,
       OneDispatcher, Dispatching
  <1>9. AcceptsTheLiveOne' /\ CheckedIsPending'
    BY <1>1, <1>2, <1>3 DEF AcceptsTheLiveOne, CheckedIsPending, Accepting, OffersOf, IsLive
  <1> QED
    BY <1>4, <1>5, <1>6, <1>8, <1>9

LEMMA CheckKeeps ==
  ASSUME DispatchInv, TypeOK', NEW t \in Task,
         CheckDelivery(t) \/ CheckRider(t) \/ CheckPending(t)
  PROVE  DispatchInv'
  <1>1. CASE Return(t)
    BY <1>1, ReturnKeeps DEF CheckDelivery, CheckRider, CheckPending, Check
  <1>2. CASE /\ pc[t] \in Choosing /\ UNCHANGED loc
             /\ pc' \in {[pc EXCEPT ![t] = step] : step \in Choosing}
             /\ pc[t] = "checkDelivery" => delivery[loc[t].delivery] = "PENDING"
    <2> USE <1>2 DEF DispatchInv, TypeOK, CheckDelivery, CheckRider, CheckPending, Check,
            Choosing, Excluding, DispatchSteps
    <2>1. RowsRefer' /\ OneLiveOffer' /\ OncePerRider' /\ AcceptedIsAssigned'
      BY DEF RowsRefer, OneLiveOffer, OncePerRider, AcceptedIsAssigned, IsLive, SameDelivery
    <2>2. LockIsHeld' /\ ReadStaysTrue' /\ WrittenSoFar'
      BY DEF LockIsHeld, ReadStaysTrue, WrittenSoFar, Accepting, IsLive, AnswerSteps, IsPending
    <2>3. OneDispatcher' /\ CheckedIsPending' /\ AcceptsTheLiveOne'
      BY DEF OneDispatcher, CheckedIsPending, AcceptsTheLiveOne, Accepting, Dispatching,
             OffersOf, IsLive
    <2>4. AskedAreExcluded'
      BY DEF AskedAreExcluded, OffersOf, PreviousRiders
    <2> QED
      BY <2>1, <2>2, <2>3, <2>4
  <1> QED
    BY <1>1, <1>2 DEF CheckDelivery, CheckRider, CheckPending, Check, Choosing, Excluding,
       DispatchSteps

(* The dispatcher spends its right: the new row is the one live offer of   *)
(* the delivery, and its rider is new to it.                               *)
LEMMA InsertOfferKeeps ==
  ASSUME DispatchInv, TypeOK', NEW t \in Task, InsertOffer(t)
  PROVE  DispatchInv'
  <1>1. PICK o \in Offer :
          /\ ~Exists(o)
          /\ offer' = [offer EXCEPT ![o] = NewOffer(loc[t].delivery, loc[t].rider)]
          /\ loc' = [loc EXCEPT ![t] = [loc[t] EXCEPT !.fresh = o]]
          /\ pc[t] = "insert" /\ pc' = [pc EXCEPT ![t] = "schedule"]
          /\ UNCHANGED <<delivery, rider, redis, due, lock>>
    BY DEF InsertOffer
  <1> USE DEF DispatchInv, TypeOK
  <1>2. /\ loc[t].delivery \in Delivery /\ delivery[loc[t].delivery] # "NONE"
        /\ loc[t].rider \in Rider
        /\ \A p \in OffersOf(loc[t].delivery) : ~IsLive(p) /\ offer[p].rider # loc[t].rider
        /\ \A u \in Task : Dispatching(u) /\ loc[u].delivery = loc[t].delivery => u = t
        /\ \A u \in Task : Accepting(u) => loc[u].delivery # loc[t].delivery
    BY <1>1 DEF OneDispatcher, CheckedIsPending, AskedAreExcluded, Dispatching, DispatchSteps,
       Excluding, Choosing, PreviousRiders, WrittenSoFar, Accepting
  <1>3. /\ offer'[o] = NewOffer(loc[t].delivery, loc[t].rider)
        /\ \A p \in Offer \ {o} : offer'[p] = offer[p]
        /\ \A u \in Task \ {t} : pc'[u] = pc[u] /\ loc'[u] = loc[u]
        /\ pc'[t] = "schedule" /\ loc'[t].op = loc[t].op /\ loc'[t].offer = loc[t].offer
        /\ loc'[t].delivery = loc[t].delivery
    BY <1>1 DEF Locals
  <1>4. RowsRefer' /\ AcceptedIsAssigned'
    BY <1>1, <1>2, <1>3 DEF RowsRefer, AcceptedIsAssigned, NewOffer
  <1>5. OneLiveOffer' /\ OncePerRider'
    BY <1>1, <1>2, <1>3 DEF OneLiveOffer, OncePerRider, NewOffer, SameDelivery, OffersOf,
       IsLive
  <1>6. LockIsHeld'
    BY <1>1, <1>3 DEF LockIsHeld, AnswerSteps, NewOffer
  <1>7. \A u \in Task : Accepting(u) \/ pc[u] \in AnswerSteps =>
          u # t /\ loc[u].offer \in Offer \ {o}
    BY <1>1 DEF LockIsHeld, TasksRefer, AnswerSteps, Accepting
  <1>8. ReadStaysTrue' /\ WrittenSoFar'
    BY <1>1, <1>3, <1>7 DEF ReadStaysTrue, WrittenSoFar, Accepting, AnswerSteps, IsLive
  <1>9. AcceptsTheLiveOne'
    <2>1. \A u \in Task : Accepting(u)' => Accepting(u) /\ u # t
      BY <1>3 DEF Accepting
    <2>2. \A u \in Task : Accepting(u) => o \notin OffersOf(loc[u].delivery)'
      BY <1>2, <1>3 DEF OffersOf, NewOffer
    <2> QED
      BY <1>3, <2>1, <2>2 DEF AcceptsTheLiveOne, OffersOf, IsLive
  <1>10. OneDispatcher' /\ CheckedIsPending'
    BY <1>1, <1>2, <1>3 DEF OneDispatcher, CheckedIsPending, Dispatching, DispatchSteps,
       OffersOf, IsLive, NewOffer
  <1>11. AskedAreExcluded'
    BY <1>1, <1>2, <1>3 DEF AskedAreExcluded, Dispatching, DispatchSteps, Excluding, Choosing,
       OffersOf, PreviousRiders, NewOffer
  <1> QED
    BY <1>4, <1>5, <1>6, <1>8, <1>9, <1>10, <1>11

LEMMA ScheduleKeeps ==
  ASSUME DispatchInv, TypeOK', NEW t \in Task, Schedule(t)
  PROVE  DispatchInv'
  <1>1. CASE Return(t)
    BY <1>1, ReturnKeeps DEF Schedule
  <1>2. CASE Goto(t, "count") /\ UNCHANGED loc
    <2> USE <1>2 DEF DispatchInv, TypeOK, Schedule
    <2>1. RowsRefer' /\ OneLiveOffer' /\ OncePerRider' /\ AcceptedIsAssigned'
      BY DEF RowsRefer, OneLiveOffer, OncePerRider, AcceptedIsAssigned, IsLive, SameDelivery
    <2>2. LockIsHeld' /\ ReadStaysTrue' /\ WrittenSoFar'
      BY DEF LockIsHeld, ReadStaysTrue, WrittenSoFar, Accepting, IsLive, AnswerSteps, IsPending
    <2>3. AcceptsTheLiveOne' /\ OneDispatcher' /\ CheckedIsPending' /\ AskedAreExcluded'
      BY DEF AcceptsTheLiveOne, Accepting, OneDispatcher,
       CheckedIsPending, AskedAreExcluded, Dispatching, DispatchSteps, Excluding, Choosing,
             OffersOf, PreviousRiders, IsLive
    <2> QED
      BY <2>1, <2>2, <2>3
  <1> QED
    BY <1>1, <1>2 DEF Schedule

LEMMA CountAttemptKeeps ==
  ASSUME DispatchInv, TypeOK', NEW t \in Task, CountAttempt(t)
  PROVE  DispatchInv'
  (* Nobody looks at the number but the redispatch itself.                 *)
  <1>1. /\ \A u \in Task : pc'[u] = pc[u] \/ (pc[u] = "count" /\ pc'[u] = "reschedule")
        /\ UNCHANGED <<delivery, rider, redis, due, lock, jobs, loc>>
    BY DEF CountAttempt, DispatchInv, TypeOK
  <1>2. \A o : /\ offer'[o].status = offer[o].status
               /\ offer'[o].delivery = offer[o].delivery
               /\ offer'[o].rider = offer[o].rider
    <2>1. loc[t].fresh \in Offer /\ offer[loc[t].fresh] \in Row /\ DOMAIN offer = Offer
      BY DEF CountAttempt, DispatchInv, TypeOK, TasksRefer
    <2>2. offer' = [offer EXCEPT ![loc[t].fresh].attemptCount = loc[t].attempt + 1]
      BY DEF CountAttempt
    <2> QED
      BY <2>1, <2>2 DEF Row
  <1>3. /\ \A o : IsLive(o)' <=> IsLive(o)
        /\ \A d : OffersOf(d)' = OffersOf(d)
    BY <1>2 DEF IsLive, OffersOf
  <1>4. \A d : PreviousRiders(d)' = PreviousRiders(d)
    BY <1>2, <1>3 DEF PreviousRiders
  <1>5. RowsRefer' /\ AcceptedIsAssigned'
    BY <1>1, <1>2 DEF DispatchInv, RowsRefer, AcceptedIsAssigned
  <1>6. OneLiveOffer' /\ OncePerRider'
    BY <1>2, <1>3 DEF DispatchInv, OneLiveOffer, OncePerRider, SameDelivery
  <1>7. LockIsHeld'
    BY <1>1, <1>2 DEF DispatchInv, LockIsHeld, AnswerSteps, HoldsLock
  <1>8. ReadStaysTrue' /\ WrittenSoFar'
    BY <1>1, <1>2, <1>3 DEF DispatchInv, ReadStaysTrue, WrittenSoFar, Accepting, AnswerSteps
  <1>9. AcceptsTheLiveOne'
    BY <1>1, <1>3 DEF DispatchInv, AcceptsTheLiveOne, Accepting
  <1>10. OneDispatcher'
    BY <1>1, <1>3 DEF DispatchInv, OneDispatcher, Dispatching, DispatchSteps
  <1>11. CheckedIsPending' /\ AskedAreExcluded'
    BY <1>1, <1>4 DEF DispatchInv, CheckedIsPending, AskedAreExcluded, Excluding, Choosing, DispatchSteps
  <1> QED
    BY <1>5, <1>6, <1>7, <1>8, <1>9, <1>10, <1>11 DEF DispatchInv

(* The only place where the TTL matters: it frees nobody's lock.           *)
LEMMA EnvironmentKeeps ==
  ASSUME DispatchInv, TypeOK', ~SlowHandlers, NEW o \in Offer, Deadline(o) \/ LockExpires(o)
  PROVE  DispatchInv'
  <1> USE DEF DispatchInv, TypeOK, Deadline, LockExpires
  <1>1. RowsRefer' /\ OneLiveOffer' /\ OncePerRider' /\ AcceptedIsAssigned'
    BY DEF RowsRefer, OneLiveOffer, OncePerRider, AcceptedIsAssigned, IsLive, SameDelivery
  <1>2. LockIsHeld' /\ ReadStaysTrue' /\ WrittenSoFar'
    BY LockWords DEF LockIsHeld, ReadStaysTrue, WrittenSoFar, Accepting, IsLive, AnswerSteps, IsPending
  <1>3. AcceptsTheLiveOne' /\ OneDispatcher' /\ CheckedIsPending' /\ AskedAreExcluded'
    BY DEF AcceptsTheLiveOne, Accepting, OneDispatcher,
       CheckedIsPending, AskedAreExcluded, Dispatching, OffersOf, PreviousRiders, IsLive
  <1> QED
    BY <1>1, <1>2, <1>3

LEMMA CrashKeeps ==
  ASSUME DispatchInv, TypeOK', NEW t \in Task, Crash(t)
  PROVE  DispatchInv'
  <1> USE DEF DispatchInv, TypeOK, Crash, Blank
  <1>1. RowsRefer' /\ OneLiveOffer' /\ OncePerRider' /\ AcceptedIsAssigned'
    BY DEF RowsRefer, OneLiveOffer, OncePerRider, AcceptedIsAssigned, IsLive, SameDelivery
  <1>2. LockIsHeld' /\ ReadStaysTrue' /\ WrittenSoFar'
    BY DEF LockIsHeld, ReadStaysTrue, WrittenSoFar, Accepting, IsLive, AnswerSteps, HoldsLock, IsPending
  <1>3. AcceptsTheLiveOne' /\ OneDispatcher' /\ CheckedIsPending' /\ AskedAreExcluded'
    BY DEF AcceptsTheLiveOne, Accepting, OneDispatcher,
       CheckedIsPending, AskedAreExcluded, Dispatching, DispatchSteps, Excluding, Choosing,
           OffersOf, PreviousRiders, IsLive
  <1> QED
    BY <1>1, <1>2, <1>3

-------------------------------------------------------------------------------
(* The invariant of every execution                                        *)

LEMMA InitKeeps == Init => DispatchInv
  BY InitTypeOK DEF Init, NoOffer, DispatchInv, RowsRefer, LockIsHeld, ReadStaysTrue,
     WrittenSoFar, AcceptsTheLiveOne, Accepting, OneDispatcher,
       CheckedIsPending, AskedAreExcluded, OneLiveOffer, OncePerRider,
     AcceptedIsAssigned, Dispatching, DispatchSteps, Excluding, Choosing, AnswerSteps, IsLive

LEMMA NextKeeps ==
  ASSUME DispatchInv, [Next]_vars, ~SlowHandlers
  PROVE  DispatchInv'
  <1>1. TypeOK'
    BY TypeStep DEF DispatchInv
  <1>2. ASSUME NEW t \in Handler, Request(t) PROVE DispatchInv'
    BY <1>1, <1>2, CreateDeliveryKeeps, RespondKeeps DEF Request
  <1>3. ASSUME NEW t \in Worker, NEW j \in jobs, SkipTimeoutCheck(t, j) PROVE DispatchInv'
    <2> USE DEF DispatchInv
    <2>1. RowsRefer' /\ OneLiveOffer' /\ OncePerRider' /\ AcceptedIsAssigned'
      BY <1>3 DEF SkipTimeoutCheck, RowsRefer, OneLiveOffer, OncePerRider, AcceptedIsAssigned, IsLive, SameDelivery
    <2>2. LockIsHeld' /\ ReadStaysTrue' /\ WrittenSoFar'
      BY <1>3 DEF SkipTimeoutCheck, LockIsHeld, ReadStaysTrue, WrittenSoFar, Accepting, IsLive, IsPending
    <2>3. AcceptsTheLiveOne' /\ OneDispatcher' /\ CheckedIsPending' /\ AskedAreExcluded'
      BY <1>3 DEF SkipTimeoutCheck, AcceptsTheLiveOne, Accepting, OneDispatcher,
       CheckedIsPending, AskedAreExcluded, Dispatching, OffersOf,
         PreviousRiders, IsLive
    <2> QED
      BY <1>1, <2>1, <2>2, <2>3
  <1>4. ASSUME NEW t \in Worker, Work(t) PROVE DispatchInv'
    BY <1>1, <1>3, <1>4, TimeoutCheckKeeps DEF Work
  <1>5. ASSUME NEW t \in Task, Answer(t) PROVE DispatchInv'
    <2>1. CASE Expire(t)
      <3>1. loc[t].attempt \in Nat
        BY DEF DispatchInv, TypeOK, Locals
      <3> QED
        BY <1>1, <2>1, <3>1, CloseKeeps DEF Expire
    <2>2. CASE SaveRejected(t)
      <3>1. loc[t].snap \in Nat
        BY DEF DispatchInv, TypeOK, Locals
      <3> QED
        BY <1>1, <2>2, <3>1, CloseKeeps DEF SaveRejected
    <2> QED
      BY <1>1, <1>5, <2>1, <2>2, ReadOfferKeeps, SetAssignedKeeps, AcceptingKeeps, SaveAcceptedKeeps,
         ReleaseKeeps DEF Answer
  <1>6. ASSUME NEW t \in Task, Dispatch(t) PROVE DispatchInv'
    <2>1. CASE NoRider(t) \/ Reschedule(t)
      BY <1>1, <2>1, ReturnKeeps DEF NoRider, Reschedule
    <2> QED
      BY <1>1, <1>6, <2>1, ChoosingKeeps, CheckKeeps, InsertOfferKeeps, ScheduleKeeps,
         CountAttemptKeeps DEF Dispatch
  <1>7. ASSUME NEW t \in Task, Fail(t) PROVE DispatchInv'
    BY <1>1, <1>7, ReturnKeeps DEF Fail, CannotFail
  <1>8. CASE UNCHANGED vars
    <2> USE <1>8 DEF DispatchInv, vars
    <2>1. RowsRefer' /\ OneLiveOffer' /\ OncePerRider' /\ AcceptedIsAssigned'
      BY DEF RowsRefer, OneLiveOffer, OncePerRider, AcceptedIsAssigned, IsLive, SameDelivery
    <2>2. LockIsHeld' /\ ReadStaysTrue' /\ WrittenSoFar'
      BY DEF LockIsHeld, ReadStaysTrue, WrittenSoFar, Accepting, IsLive, IsPending
    <2>3. AcceptsTheLiveOne' /\ OneDispatcher' /\ CheckedIsPending' /\ AskedAreExcluded'
      BY DEF AcceptsTheLiveOne, Accepting, OneDispatcher,
       CheckedIsPending, AskedAreExcluded, Dispatching, OffersOf, PreviousRiders, IsLive
    <2> QED
      BY <1>1, <2>1, <2>2, <2>3
  <1> QED
    BY <1>1, <1>2, <1>4, <1>5, <1>6, <1>7, <1>8, EnvironmentKeeps, CrashKeeps
    DEF Next, Step, Environment

(* As long as no handler outlives its lock, the strengthening holds in     *)
(* every reachable state, crashes and failed calls included.               *)
THEOREM DispatchInvariant == ASSUME ~SlowHandlers PROVE Spec => []DispatchInv
  <1>1. Init => DispatchInv
    BY InitKeeps
  <1>2. DispatchInv /\ [Next]_vars => DispatchInv'
    BY NextKeeps
  <1> QED
    BY <1>1, <1>2, PTL DEF Spec

(* A delivery is never open to, or held by, two riders at once.            *)
THEOREM OneLiveOfferAlways == ASSUME ~SlowHandlers PROVE Spec => []OneLiveOffer
  <1>1. DispatchInv => OneLiveOffer
    BY DEF DispatchInv
  <1> QED
    BY <1>1, DispatchInvariant, PTL

(* No rider is offered the same delivery twice.                            *)
THEOREM OncePerRiderAlways == ASSUME ~SlowHandlers PROVE Spec => []OncePerRider
  <1>1. DispatchInv => OncePerRider
    BY DEF DispatchInv
  <1> QED
    BY <1>1, DispatchInvariant, PTL

(* The delivery of an accepted offer is ASSIGNED and its rider BUSY, in    *)
(* the database and in Redis.                                              *)
THEOREM AcceptedIsAssignedAlways == ASSUME ~SlowHandlers PROVE Spec => []AcceptedIsAssigned
  <1>1. DispatchInv => AcceptedIsAssigned
    BY DEF DispatchInv
  <1> QED
    BY <1>1, DispatchInvariant, PTL

-------------------------------------------------------------------------------
(* Pending offers are watched. Three more facts make that inductive.       *)

(* Whoever has a lock is inside the operation that acquired it, ...        *)
HoldersKnow ==
  \A o \in Offer, t \in Task : lock[o] = t =>
    loc[t].offer = o /\ loc[t].op \in HoldsLock /\ pc[t] \notin {"idle", "landing"}

(* ... no lock outlives its holder before the first fault, ...             *)
NoneOrphaned == faults = 0 => \A o \in Offer : lock[o] # "orphan"

(* ... and who is past the answer has closed the offer, or found it closed.*)
ClosedByHolder ==
  faults = 0 => \A t \in Task :
    /\ loc[t].op \in HoldsLock
    /\ pc[t] \notin AnswerSteps \cup {"idle", "read", "landing"}
    => ~IsPending(loc[t].offer)

Watched == HoldersKnow /\ NoneOrphaned /\ ClosedByHolder /\ PendingIsWatched

WatchInv == DispatchInv /\ Watched

(* The steps of a task that leave the locks alone. Its part is to close    *)
(* the offer before it goes on, and to queue the timer before it leaves.   *)
LEMMA StepWatched ==
  ASSUME WatchInv, TypeOK', NEW t \in Task, pc[t] # "idle",
         UNCHANGED lock, jobs \subseteq jobs', faults' \in {faults, faults + 1},
         \A u \in Task \ {t} : pc'[u] = pc[u] /\ loc'[u] = loc[u],
         \A o \in Offer : IsPending(o)' => IsPending(o),
         \/ /\ pc'[t] \notin {"idle", "landing"}
            /\ loc'[t].op = loc[t].op /\ loc'[t].offer = loc[t].offer
         \/ pc'[t] = "idle" /\ ~UnderLock(t),
         faults' = 0 =>
           /\ /\ loc[t].op \in HoldsLock
              /\ At(t, "landing") \/ pc'[t] \notin AnswerSteps \cup {"idle", "read"}
              => offer'[loc[t].offer].status # "PENDING"
           /\ At(t, "schedule") => \E j \in jobs' : j.offer = loc[t].fresh
  PROVE  Watched'
  <1> USE DEF WatchInv, Watched, DispatchInv, TypeOK
  <1>1. faults' = 0 => faults = 0
    OBVIOUS
  <1>2. HoldersKnow'
    BY DEF HoldersKnow, UnderLock
  <1>3. NoneOrphaned'
    BY <1>1 DEF NoneOrphaned
  <1>4. ClosedByHolder'
    <2> SUFFICES ASSUME faults' = 0, NEW u \in Task, loc'[u].op \in HoldsLock,
                        pc'[u] \notin AnswerSteps \cup {"idle", "read", "landing"}
                 PROVE  offer'[loc[u].offer].status # "PENDING" /\ loc'[u].offer = loc[u].offer
      BY DEF ClosedByHolder, IsPending
    <2>1. CASE u = t
      BY <2>1
    <2>2. CASE u # t
      <3>1. ~IsPending(loc[u].offer) /\ loc[u].offer \in Offer
        BY <1>1, <2>2 DEF ClosedByHolder, TasksRefer
      <3> QED
        BY <2>2, <3>1 DEF IsPending
    <2> QED
      BY <2>1, <2>2
  <1>5. PendingIsWatched'
    <2> SUFFICES ASSUME NEW o \in Offer, IsPending(o)', faults' = 0
                 PROVE  \/ \E j \in jobs' : j.offer = o
                        \/ \E u \in Task : IsScheduling(u, o)' \/ lock[o] = u \/ Lands(u, o)'
      BY DEF PendingIsWatched
    <2>1. \/ \E j \in jobs : j.offer = o
          \/ \E u \in Task : IsScheduling(u, o) \/ lock[o] = u \/ Lands(u, o)
      BY <1>1 DEF PendingIsWatched
    <2>2. ~Lands(t, o)
      BY DEF Lands, TasksRefer, IsPending
    <2> QED
      BY <2>1, <2>2 DEF IsScheduling, Lands
  <1> QED
    BY <1>2, <1>3, <1>4, <1>5

LEMMA AnswerWatched ==
  ASSUME WatchInv, TypeOK', NEW t \in Task, Answer(t)
  PROVE  Watched'
  <1> USE DEF WatchInv, Watched, DispatchInv, TypeOK
  <1> USE FaultsAreCounted
  <1>1. CASE ReadOffer(t)
    <2>1. /\ pc'[t] \in {"release", "expire", "assign", "reject"}
          /\ pc'[t] = "release" => ~IsPending(loc[t].offer)
          /\ loc'[t].op = loc[t].op /\ loc'[t].offer = loc[t].offer
      BY <1>1 DEF ReadOffer, AfterRead, Locals
    <2>2. \A o \in Offer : IsPending(o)' <=> IsPending(o)
      BY <1>1 DEF ReadOffer, IsPending
    <2>3. ~IsPending(loc[t].offer) => offer'[loc[t].offer].status # "PENDING"
      BY <1>1 DEF ReadOffer, IsPending
    <2> QED
      BY <1>1, <2>1, <2>2, <2>3, StepWatched DEF ReadOffer, AnswerSteps
  <1>2. ASSUME NEW s \in OfferStatus \ {"NONE", "PENDING"}, offer' = Saved(t, s),
               loc[t].op \in HoldsLock, pc[t] # "idle"
        PROVE  offer'[loc[t].offer].status # "PENDING" /\ \A o \in Offer : IsPending(o)' => IsPending(o)
    <2>1. loc[t].offer \in Offer /\ Exists(loc[t].offer) /\ s \in OfferStatus \ {"NONE"}
      BY <1>2 DEF LockIsHeld
    <2>2. /\ offer'[loc[t].offer].status = s
          /\ \A o \in Offer \ {loc[t].offer} : offer'[o] = offer[o]
      BY <1>2, <2>1, SavedRow
    <2> QED
      BY <2>1, <2>2 DEF IsPending
  <1>3. CASE Expire(t)
    <2>1. offer'[loc[t].offer].status # "PENDING" /\ \A o \in Offer : IsPending(o)' => IsPending(o)
      BY <1>2, <1>3 DEF Expire, LockIsHeld, AnswerSteps, OfferStatus
    <2>2. /\ pc'[t] \in {"exclude", "release"}
          /\ loc'[t].op = loc[t].op /\ loc'[t].offer = loc[t].offer
      BY <1>3 DEF Expire, RedispatchOrReturn, Return, UnderLock, LockIsHeld, AnswerSteps, Locals
    <2>3. \A u \in Task \ {t} : pc'[u] = pc[u] /\ loc'[u] = loc[u]
      BY <1>3 DEF Expire, RedispatchOrReturn, Return, UnderLock
    <2> QED
      BY <1>3, <2>1, <2>2, <2>3, StepWatched DEF Expire
  <1>4. CASE SaveRejected(t)
    <2>1. offer'[loc[t].offer].status # "PENDING" /\ \A o \in Offer : IsPending(o)' => IsPending(o)
      BY <1>2, <1>4 DEF SaveRejected, LockIsHeld, AnswerSteps, OfferStatus
    <2>2. /\ pc'[t] \in {"exclude", "release"}
          /\ loc'[t].op = loc[t].op /\ loc'[t].offer = loc[t].offer
      BY <1>4 DEF SaveRejected, RedispatchOrReturn, Return, UnderLock, LockIsHeld, AnswerSteps, Locals
    <2>3. \A u \in Task \ {t} : pc'[u] = pc[u] /\ loc'[u] = loc[u]
      BY <1>4 DEF SaveRejected, RedispatchOrReturn, Return, UnderLock
    <2> QED
      BY <1>4, <2>1, <2>2, <2>3, StepWatched DEF SaveRejected
  <1>5. CASE SaveAccepted(t)
    <2>1. offer'[loc[t].offer].status # "PENDING" /\ \A o \in Offer : IsPending(o)' => IsPending(o)
      BY <1>2, <1>5 DEF SaveAccepted, TasksRefer, OfferStatus
    <2>2. \/ /\ pc'[t] = "release"
             /\ loc'[t].op = loc[t].op /\ loc'[t].offer = loc[t].offer
          \/ pc'[t] = "idle" /\ ~UnderLock(t)
      BY <1>5 DEF SaveAccepted, Return
    <2>3. \A u \in Task \ {t} : pc'[u] = pc[u] /\ loc'[u] = loc[u]
      BY <1>5 DEF SaveAccepted, Return
    <2> QED
      BY <1>5, <2>1, <2>2, <2>3, StepWatched DEF SaveAccepted
  <1>6. CASE SetAssigned(t) \/ SetBusy(t) \/ SyncBusy(t)
    <2>1. /\ \A o \in Offer : IsPending(o)' => IsPending(o)
          /\ pc'[t] \in {"busy", "sync", "accept"} /\ pc[t] \notin {"idle", "landing", "schedule"}
          /\ UNCHANGED <<lock, jobs, loc, faults>>
          /\ \A u \in Task \ {t} : pc'[u] = pc[u]
      BY <1>6 DEF SetAssigned, SetBusy, SyncBusy, IsPending
    <2> QED
      BY <2>1, StepWatched DEF AnswerSteps
  <1>7. CASE ReleaseBeforeSave(t)
    <2> USE <1>7 DEF ReleaseBeforeSave, Released
    <2>1. HoldersKnow' /\ NoneOrphaned'
      BY LockWords DEF HoldersKnow, NoneOrphaned
    <2>2. ClosedByHolder'
      BY DEF ClosedByHolder, IsPending
    <2>3. lock[loc[t].offer] = t /\ loc[t].offer \in Offer
      BY DEF LockIsHeld, AnswerSteps
    <2>4. PendingIsWatched'
      BY <2>3, LockWords DEF PendingIsWatched, IsPending, IsScheduling, Lands
    <2> QED
      BY <2>1, <2>2, <2>4
  <1>8. CASE Release(t)
    <2> USE <1>8 DEF Release, Released, Blank
    <2>1. HoldersKnow' /\ NoneOrphaned'
      BY LockWords DEF HoldersKnow, NoneOrphaned, LockIsHeld
    <2>2. ClosedByHolder'
      BY DEF ClosedByHolder, IsPending
    <2>3. /\ lock[loc[t].offer] = t /\ loc[t].offer \in Offer
          /\ faults = 0 => ~IsPending(loc[t].offer)
      BY DEF LockIsHeld, ClosedByHolder, AnswerSteps
    <2>4. PendingIsWatched'
      BY <2>3, LockWords DEF PendingIsWatched, IsPending, IsScheduling, Lands, HoldersKnow
    <2> QED
      BY <2>1, <2>2, <2>4
  <1> QED
    BY <1>1, <1>3, <1>4, <1>5, <1>6, <1>7, <1>8 DEF Answer

(* Leaving from the dispatch: the offer under the lock was closed before.  *)
LEMMA ReturnWatched ==
  ASSUME WatchInv, TypeOK', NEW t \in Task, Return(t), UNCHANGED <<lock, offer>>,
         pc[t] \notin {"idle", "landing"} \/ faults' # 0, pc[t] # "idle",
         jobs \subseteq jobs', faults' \in {faults, faults + 1},
         faults' = 0 => /\ pc[t] \notin AnswerSteps \cup {"read"}
                        /\ At(t, "schedule") => \E j \in jobs' : j.offer = loc[t].fresh
  PROVE  Watched'
  <1> USE DEF WatchInv, Watched, DispatchInv, TypeOK
  <1>1. \A o \in Offer : IsPending(o)' <=> IsPending(o)
    BY DEF IsPending
  <1>2. faults' = 0 /\ loc[t].op \in HoldsLock => offer'[loc[t].offer].status # "PENDING"
    BY FaultsAreCounted DEF ClosedByHolder, IsPending
  <1>3. \/ /\ pc'[t] = "release"
           /\ loc'[t].op = loc[t].op /\ loc'[t].offer = loc[t].offer
        \/ pc'[t] = "idle" /\ ~UnderLock(t)
    BY DEF Return
  <1>4. \A u \in Task \ {t} : pc'[u] = pc[u] /\ loc'[u] = loc[u]
    BY DEF Return
  <1> QED
    BY <1>1, <1>2, <1>3, <1>4, StepWatched

LEMMA DispatchWatched ==
  ASSUME WatchInv, TypeOK', NEW t \in Task, Dispatch(t)
  PROVE  Watched'
  <1> USE DEF WatchInv, Watched, DispatchInv, TypeOK
  <1>1. faults = 0 /\ loc[t].op \in HoldsLock /\ pc[t] \notin AnswerSteps \cup {"idle", "read", "landing"}
          => ~IsPending(loc[t].offer)
    BY DEF ClosedByHolder
  <1>2. CASE ExcludePrevious(t) \/ PickRider(t)
    <2>1. /\ pc[t] \in {"exclude", "nearby"} /\ pc'[t] \in {"nearby", "checkDelivery"}
          /\ loc'[t].op = loc[t].op /\ loc'[t].offer = loc[t].offer
          /\ \A u \in Task \ {t} : pc'[u] = pc[u] /\ loc'[u] = loc[u]
          /\ UNCHANGED <<offer, lock, jobs, faults>>
      BY <1>2 DEF ExcludePrevious, PickRider, Locals
    <2>2. \A o \in Offer : IsPending(o)' <=> IsPending(o)
      BY <2>1 DEF IsPending
    <2>3. ~IsPending(loc[t].offer) => offer'[loc[t].offer].status # "PENDING"
      BY <2>1 DEF IsPending
    <2> QED
      BY <1>1, <2>1, <2>2, <2>3, StepWatched DEF AnswerSteps
  <1>3. CASE NoRider(t)
    BY <1>3, ReturnWatched, FaultsAreCounted DEF NoRider, AnswerSteps
  <1>4. ASSUME NEW step \in {"checkDelivery", "checkRider", "checkPending"}, NEW ok \in BOOLEAN,
               NEW next \in {"checkRider", "checkPending", "insert"}, Check(t, step, ok, next)
        PROVE  Watched'
    <2>1. CASE Return(t)
      BY <1>4, <2>1, ReturnWatched DEF Check, AnswerSteps
    <2>2. CASE Goto(t, next) /\ UNCHANGED loc
      <3>1. \A o \in Offer : IsPending(o)' <=> IsPending(o)
        BY <1>4 DEF Check, IsPending
      <3>2. ~IsPending(loc[t].offer) => offer'[loc[t].offer].status # "PENDING"
        BY <1>4 DEF Check, IsPending
      <3> QED
        BY <1>1, <1>4, <2>2, <3>1, <3>2, StepWatched DEF Check, AnswerSteps
    <2> QED
      BY <1>4, <2>1, <2>2 DEF Check
  <1>5. CASE CheckDelivery(t) \/ CheckRider(t) \/ CheckPending(t)
    BY <1>4, <1>5 DEF CheckDelivery, CheckRider, CheckPending, HasPendingOffer
  <1>6. CASE InsertOffer(t)
    <2> PICK o \in Offer : /\ ~Exists(o)
                           /\ offer' = [offer EXCEPT ![o] = NewOffer(loc[t].delivery, loc[t].rider)]
                           /\ loc' = [loc EXCEPT ![t] = [loc[t] EXCEPT !.fresh = o]]
      BY <1>6 DEF InsertOffer
    <2>1. /\ loc'[t].op = loc[t].op /\ loc'[t].offer = loc[t].offer /\ loc'[t].fresh = o
          /\ At(t, "insert") /\ At(t, "schedule")' /\ UNCHANGED <<lock, jobs, faults>>
          /\ \A u \in Task \ {t} : pc'[u] = pc[u] /\ loc'[u] = loc[u]
      BY <1>6 DEF InsertOffer, Locals
    <2>2. \A p \in Offer \ {o} : IsPending(p)' <=> IsPending(p)
      BY DEF IsPending
    <2>3. HoldersKnow' /\ NoneOrphaned'
      BY <2>1 DEF HoldersKnow, NoneOrphaned
    <2>4. ClosedByHolder'
      <3>1. \A u \in Task : loc[u].op \in HoldsLock /\ pc[u] # "idle" => loc[u].offer \in Offer \ {o}
        BY DEF LockIsHeld
      <3>2. \A u \in Task : loc[u].op \in HoldsLock /\ pc[u] # "idle" =>
              (~IsPending(loc[u].offer) => offer'[loc[u].offer].status # "PENDING")
        BY <3>1 DEF IsPending
      <3> QED
        BY <2>1, <3>2, <1>1 DEF ClosedByHolder, IsPending, AnswerSteps
    <2>5. PendingIsWatched'
      BY <2>1, <2>2 DEF PendingIsWatched, IsScheduling, Lands
    <2> QED
      BY <2>3, <2>4, <2>5
  <1>7. ASSUME NEW n \in Nat, Enqueue(Job(loc[t].fresh, n))
        PROVE  /\ jobs \subseteq jobs' /\ faults' \in {faults, faults + 1}
               /\ faults' = 0 => \E j \in jobs' : j.offer = loc[t].fresh
    <2>1. Job(loc[t].fresh, n).offer = loc[t].fresh
      BY DEF Job
    <2> QED
      BY <1>7, <2>1 DEF Enqueue
  <1>8. CASE Schedule(t)
    <2>1. /\ jobs \subseteq jobs' /\ faults' \in {faults, faults + 1}
          /\ faults' = 0 => \E j \in jobs' : j.offer = loc[t].fresh
      BY <1>7, <1>8 DEF Schedule
    <2>2. CASE Return(t)
      BY <1>8, <2>1, <2>2, ReturnWatched DEF Schedule, AnswerSteps
    <2>3. CASE Goto(t, "count") /\ UNCHANGED loc
      <3>1. \A o \in Offer : IsPending(o)' <=> IsPending(o)
        BY <1>8 DEF Schedule, IsPending
      <3>2. ~IsPending(loc[t].offer) => offer'[loc[t].offer].status # "PENDING"
        BY <1>8 DEF Schedule, IsPending
      <3> QED
        BY <1>1, <1>8, <2>1, <2>3, <3>1, <3>2, StepWatched DEF Schedule, AnswerSteps
    <2> QED
      BY <1>8, <2>2, <2>3 DEF Schedule
  <1>9. CASE CountAttempt(t)
    <2>1. loc[t].fresh \in Offer /\ offer[loc[t].fresh] \in Row
      BY <1>9 DEF CountAttempt, TasksRefer
    <2>2. \A o \in Offer : IsPending(o)' <=> IsPending(o)
      BY <1>9, <2>1 DEF CountAttempt, IsPending, Row
    <2>3. loc[t].op \in HoldsLock /\ ~IsPending(loc[t].offer) => offer'[loc[t].offer].status # "PENDING"
      BY <2>2 DEF TasksRefer, IsPending
    <2> QED
      BY <1>1, <1>9, <2>2, <2>3, StepWatched DEF CountAttempt, AnswerSteps
  <1>10. CASE Reschedule(t)
    <2>1. jobs \subseteq jobs' /\ faults' \in {faults, faults + 1} /\ loc[t].attempt + 1 \in Nat
      BY <1>10 DEF Reschedule, Enqueue, Locals
    <2> QED
      BY <1>10, <2>1, ReturnWatched DEF Reschedule, AnswerSteps
  <1> QED
    BY <1>2, <1>3, <1>5, <1>6, <1>8, <1>9, <1>10 DEF Dispatch

LEMMA EntryWatched ==
  ASSUME WatchInv, TypeOK',
         (\E t \in Handler : Request(t)) \/ (\E t \in Worker : Work(t))
  PROVE  Watched'
  <1> USE DEF WatchInv, Watched, DispatchInv, TypeOK
  <1>1. ASSUME NEW t \in Handler, NEW d \in Delivery, CreateDelivery(t, d) PROVE Watched'
    <2> USE <1>1 DEF CreateDelivery, Task, Blank
    <2>1. HoldersKnow' /\ NoneOrphaned'
      BY DEF HoldersKnow, NoneOrphaned
    <2>2. ClosedByHolder'
      BY DEF ClosedByHolder, IsPending, HoldsLock
    <2>3. PendingIsWatched'
      BY DEF PendingIsWatched, IsPending, IsScheduling, Lands
    <2> QED
      BY <2>1, <2>2, <2>3
  <1>2. ASSUME NEW t \in Handler, NEW o \in Offer, NEW op \in {"accept", "reject"},
               Respond(t, o, op)
        PROVE  Watched'
    <2> USE <1>2 DEF Respond, Task, Blank, LockIsFree, Acquired
    <2>1. HoldersKnow' /\ NoneOrphaned'
      BY LockWords DEF HoldersKnow, NoneOrphaned, HoldsLock
    <2>2. ClosedByHolder'
      BY DEF ClosedByHolder, IsPending, HoldsLock
    <2>3. PendingIsWatched'
      BY LockWords DEF PendingIsWatched, IsPending, IsScheduling, Lands
    <2> QED
      BY <2>1, <2>2, <2>3
  <1>3. ASSUME NEW t \in Worker, NEW j \in jobs, TimeoutCheck(t, j) PROVE Watched'
    <2> USE <1>3 DEF TimeoutCheck, Task, Blank, LockIsFree, Acquired
    <2>1. HoldersKnow' /\ NoneOrphaned'
      BY LockWords DEF HoldersKnow, NoneOrphaned, HoldsLock
    <2>2. ClosedByHolder'
      BY DEF ClosedByHolder, IsPending, HoldsLock
    <2>3. PendingIsWatched'
      BY LockWords DEF PendingIsWatched, IsPending, IsScheduling, Lands
    <2> QED
      BY <2>1, <2>2, <2>3
  <1>4. ASSUME NEW t \in Worker, NEW j \in jobs, SkipTimeoutCheck(t, j) PROVE Watched'
    <2> USE <1>4 DEF SkipTimeoutCheck, LockIsFree
    <2>1. HoldersKnow' /\ NoneOrphaned' /\ ClosedByHolder'
      BY DEF HoldersKnow, NoneOrphaned, ClosedByHolder, IsPending
    <2>2. faults = 0 => \E u \in Task : lock[j.offer] = u
      BY DEF NoneOrphaned
    <2>3. PendingIsWatched'
      BY <2>2 DEF PendingIsWatched, IsPending, IsScheduling, Lands
    <2> QED
      BY <2>1, <2>3
  <1> QED
    BY <1>1, <1>2, <1>3, <1>4 DEF Request, Work

LEMMA EnvironmentWatched ==
  ASSUME WatchInv, TypeOK', Environment, ~SlowHandlers
  PROVE  Watched'
  <1> USE DEF WatchInv, Watched, DispatchInv, TypeOK
  <1>1. ASSUME NEW o \in Offer, Deadline(o) PROVE Watched'
    BY <1>1 DEF Deadline, HoldersKnow, NoneOrphaned, ClosedByHolder, PendingIsWatched,
       IsPending, IsScheduling, Lands
  <1>2. ASSUME NEW o \in Offer, LockExpires(o) PROVE Watched'
    BY <1>2, LockWords DEF LockExpires, HoldersKnow, NoneOrphaned, ClosedByHolder,
       PendingIsWatched, IsPending, IsScheduling, Lands
  <1>3. ASSUME NEW t \in Task, Fail(t) PROVE Watched'
    BY <1>3, ReturnWatched, FaultsAreCounted DEF Fail, CannotFail
  <1>4. ASSUME NEW t \in Task, Crash(t) PROVE Watched'
    <2>1. faults' # 0
      BY <1>4, FaultsAreCounted DEF Crash
    <2>2. HoldersKnow'
      BY <1>4, LockWords DEF Crash, HoldersKnow
    <2> QED
      BY <2>1, <2>2 DEF NoneOrphaned, ClosedByHolder, PendingIsWatched
  <1> QED
    BY <1>1, <1>2, <1>3, <1>4 DEF Environment

LEMMA WatchStep ==
  ASSUME WatchInv, [Next]_vars, ~SlowHandlers
  PROVE  WatchInv'
  <1>1. DispatchInv'
    BY NextKeeps DEF WatchInv
  <1>2. TypeOK'
    BY <1>1 DEF DispatchInv
  <1>3. ASSUME UNCHANGED vars PROVE Watched'
    BY <1>3 DEF vars, WatchInv, Watched, HoldersKnow, NoneOrphaned, ClosedByHolder,
       PendingIsWatched, IsPending, IsScheduling, Lands
  <1>4. Watched'
    BY <1>2, <1>3, EntryWatched, AnswerWatched, DispatchWatched, EnvironmentWatched
    DEF Next, Step, WatchInv
  <1> QED
    BY <1>1, <1>4 DEF WatchInv

(* Before the first fault, no pending offer is left without a timer, a     *)
(* task that is about to set one, a holder of its lock, or an acceptance   *)
(* on its way: skipping a timeout check on a held lock loses nothing.      *)
THEOREM PendingIsWatchedAlways == ASSUME ~SlowHandlers PROVE Spec => []PendingIsWatched
  <1>1. Init => Watched
    BY LockWords, InitTypeOK DEF Init, Watched, HoldersKnow, NoneOrphaned, ClosedByHolder,
       PendingIsWatched, IsPending, NoOffer, Blank, HoldsLock
  <1>2. Init => WatchInv
    BY <1>1, InitKeeps DEF WatchInv
  <1>3. WatchInv /\ [Next]_vars => WatchInv'
    BY WatchStep
  <1>4. WatchInv => PendingIsWatched
    BY DEF WatchInv, Watched
  <1> QED
    BY <1>2, <1>3, <1>4, PTL DEF Spec

-------------------------------------------------------------------------------
(* Dispatching keeps its promises: a closed offer stays closed, and        *)
(* OfferDispatch implements Matching under the mapping of                  *)
(* OfferDispatchProps.                                                     *)

(* What a step may do to the offers that stand: leave them as they are,    *)
(* end one, or add one to a PENDING delivery that has none.                *)
SameIdentity(o) ==
  /\ Exists(o)' <=> Exists(o)
  /\ offer'[o].delivery = offer[o].delivery /\ offer'[o].rider = offer[o].rider

Keeps(o) == SameIdentity(o) /\ (Stands(o)' <=> Stands(o))

Ends(o) ==
  /\ Stands(o) /\ ~Stands(o)' /\ SameIdentity(o)
  /\ \A p \in Offer \ {o} : Keeps(p)
  /\ UNCHANGED delivery

Settles(d) ==
  /\ \A o \in Offer : Keeps(o)
  /\ \E o \in OffersOf(d) : Stands(o)
  /\ delivery' = [delivery EXCEPT ![d] = "ASSIGNED"]

Proposes(o) ==
  /\ ~Exists(o) /\ Exists(o)' /\ Stands(o)' /\ offer'[o].delivery \in Delivery /\ offer'[o].rider \in Rider
  /\ delivery[offer'[o].delivery] = "PENDING"
  /\ \A p \in Offer \ {o} : Keeps(p)
  /\ \A p \in OffersOf(offer'[o].delivery) : ~Stands(p) /\ offer[p].rider # offer'[o].rider
  /\ UNCHANGED delivery

SameAssigned == \A d \in Delivery : delivery'[d] = "ASSIGNED" <=> delivery[d] = "ASSIGNED"

DispatchStep ==
  \/ SameAssigned /\ \A o \in Offer : Keeps(o)
  \/ \E o \in Offer : Ends(o)
  \/ \E d \in Delivery : Settles(d)
  \/ \E o \in Offer : Proposes(o)

-------------------------------------------------------------------------------
(* Every step is one of these.                                             *)

(* Only an offer that stands is saved, and landing makes it live.          *)
LEMMA SavedStands ==
  ASSUME DispatchInv, NEW t \in Task, pc[t] \in AnswerSteps \cup {"landing"}
  PROVE  loc[t].offer \in Offer /\ Exists(loc[t].offer) /\ Stands(loc[t].offer)
  <1>1. loc[t].offer \in Offer /\ Exists(loc[t].offer)
    BY DEF DispatchInv, LockIsHeld, TypeOK, TasksRefer, AnswerSteps
  <1>2. Stands(loc[t].offer)
    BY DEF DispatchInv, ReadStaysTrue, AnswerSteps, Stands, Lands
  <1> QED
    BY <1>1, <1>2

(* No offer changes its status and no task starts or ends landing.         *)
LEMMA QuietStep ==
  ASSUME UNCHANGED offer, \A t \in Task, o \in Offer : Lands(t, o)' <=> Lands(t, o)
  PROVE  \A o \in Offer : Keeps(o)
  BY DEF Keeps, SameIdentity, Stands, IsLive

(* A task at any other step starts and ends no landing.                    *)
LEMMA LandsUnchanged ==
  ASSUME TypeOK, NEW t \in Task, pc[t] # "landing", pc'[t] # "landing",
         \A u \in Task \ {t} : pc'[u] = pc[u] /\ loc'[u] = loc[u]
  PROVE  \A u \in Task, o \in Offer : Lands(u, o)' <=> Lands(u, o)
  BY DEF Lands

LEMMA CloseSteps ==
  ASSUME DispatchInv, NEW t \in Task, Expire(t) \/ SaveRejected(t)
  PROVE  DispatchStep
  <1>0. PICK o \in Offer : o = loc[t].offer
    BY SavedStands DEF Expire, SaveRejected, AnswerSteps
  <1>1. PICK s \in {"REJECTED", "EXPIRED"} : offer' = Saved(t, s)
    BY DEF Expire, SaveRejected
  <1>2. Exists(o) /\ Stands(o)
    BY <1>0, SavedStands DEF Expire, SaveRejected, AnswerSteps
  <1>3. /\ offer'[o].status = s
        /\ \A p \in Offer \ {o} : offer'[p] = offer[p]
        /\ \A p \in Offer : SameIdentity(p)
    BY <1>0, <1>1, <1>2, SavedRow DEF DispatchInv, OfferStatus, SameIdentity
  <1>4. /\ pc[t] \in {"expire", "reject"} /\ pc'[t] # "landing" /\ UNCHANGED delivery
        /\ \A u \in Task \ {t} : pc'[u] = pc[u] /\ loc'[u] = loc[u]
    BY DEF Expire, SaveRejected, RedispatchOrReturn, Return, UnderLock, DispatchInv, TypeOK
  <1>5. \A u \in Task, p \in Offer : Lands(u, p)' <=> Lands(u, p)
    BY <1>4, LandsUnchanged DEF DispatchInv
  <1>6. \A p \in Offer \ {o} : Keeps(p)
    BY <1>3, <1>5 DEF Keeps, Stands, IsLive
  <1>7. CASE Stands(o)'
    BY <1>2, <1>3, <1>4, <1>6, <1>7 DEF DispatchStep, SameAssigned, Keeps
  <1>8. CASE ~Stands(o)'
    BY <1>2, <1>3, <1>4, <1>6, <1>8 DEF DispatchStep, Ends
  <1> QED
    BY <1>7, <1>8

LEMMA AcceptSteps ==
  ASSUME DispatchInv, NEW t \in Task, ReleaseBeforeSave(t) \/ SaveAccepted(t)
  PROVE  DispatchStep
  <1>0. PICK o \in Offer : o = loc[t].offer
    BY SavedStands DEF ReleaseBeforeSave, SaveAccepted, AnswerSteps
  <1>1. pc[t] \in {"accept", "landing"} /\ Exists(o) /\ Stands(o)
    BY <1>0, SavedStands DEF ReleaseBeforeSave, SaveAccepted, AnswerSteps
  <1>2. /\ UNCHANGED delivery
        /\ \A u \in Task \ {t} : pc'[u] = pc[u] /\ loc'[u] = loc[u]
    BY DEF ReleaseBeforeSave, SaveAccepted, Return, UnderLock, DispatchInv, TypeOK
  <1>3. \A p \in Offer \ {o}, u \in Task : Lands(u, p)' <=> Lands(u, p)
    <2>1. pc'[t] = "landing" => loc'[t].offer = o
      BY <1>0, <1>1 DEF ReleaseBeforeSave, SaveAccepted, Return, UnderLock, DispatchInv, TypeOK
    <2> QED
      BY <1>0, <1>1, <1>2, <2>1 DEF Lands
  <1>4. CASE ReleaseBeforeSave(t)
    <2>1. Stands(o)'
      BY <1>0, <1>1, <1>4 DEF ReleaseBeforeSave, Stands, Lands, DispatchInv, TypeOK
    <2>2. UNCHANGED offer
      BY <1>4 DEF ReleaseBeforeSave
    <2>3. \A p \in Offer : Keeps(p)
      BY <1>1, <1>3, <2>1, <2>2 DEF Keeps, SameIdentity, Stands, IsLive
    <2> QED
      BY <1>2, <2>3 DEF DispatchStep, SameAssigned
  <1>5. CASE SaveAccepted(t)
    <2>1. /\ offer'[o].status = "ACCEPTED"
          /\ \A p \in Offer \ {o} : offer'[p] = offer[p]
          /\ \A p \in Offer : SameIdentity(p)
      BY <1>0, <1>1, <1>5, SavedRow DEF SaveAccepted, DispatchInv, OfferStatus, SameIdentity
    <2>2. \A p \in Offer : Keeps(p)
      BY <1>1, <1>3, <2>1 DEF Keeps, Stands, IsLive
    <2> QED
      BY <1>2, <2>2 DEF DispatchStep, SameAssigned
  <1> QED
    BY <1>4, <1>5

LEMMA SettleSteps ==
  ASSUME DispatchInv, NEW t \in Task, SetAssigned(t)
  PROVE  DispatchStep
  <1> DEFINE o == loc[t].offer
             d == loc[t].delivery
  <1>1. /\ o \in Offer /\ Exists(o) /\ Stands(o)
        /\ d = offer[o].delivery /\ d \in Delivery
    BY SavedStands DEF SetAssigned, AnswerSteps, DispatchInv, LockIsHeld, RowsRefer
  <1>2. \A p \in Offer : Keeps(p)
    BY LandsUnchanged, QuietStep DEF SetAssigned, DispatchInv, TypeOK
  <1>3. PICK e \in Delivery : e = d
    BY <1>1
  <1>4. Settles(e)
    BY <1>1, <1>2, <1>3 DEF Settles, SetAssigned, OffersOf
  <1> QED
    BY <1>4 DEF DispatchStep

LEMMA ProposeSteps ==
  ASSUME DispatchInv, NEW t \in Task, InsertOffer(t)
  PROVE  DispatchStep
  <1>1. PICK o \in Offer :
          /\ ~Exists(o) /\ pc[t] = "insert" /\ UNCHANGED delivery
          /\ pc' = [pc EXCEPT ![t] = "schedule"]
          /\ loc' = [loc EXCEPT ![t] = [loc[t] EXCEPT !.fresh = o]]
          /\ offer' = [offer EXCEPT ![o] = NewOffer(loc[t].delivery, loc[t].rider)]
    BY DEF InsertOffer
  <1> DEFINE d == loc[t].delivery
  <1>2. /\ d \in Delivery /\ delivery[d] = "PENDING" /\ loc[t].rider \in Rider
        /\ \A p \in OffersOf(d) : ~IsLive(p) /\ offer[p].rider # loc[t].rider
    BY <1>1 DEF DispatchInv, OneDispatcher, CheckedIsPending, AskedAreExcluded, Dispatching,
       DispatchSteps, Excluding, Choosing, PreviousRiders
  <1>3. \A p \in OffersOf(d), u \in Task : ~Lands(u, p)
    BY <1>2 DEF Lands, OffersOf, DispatchInv, WrittenSoFar, Accepting, LockIsHeld, TypeOK,
       TasksRefer
  <1>4. \A u \in Task, p \in Offer : Lands(u, p)' <=> Lands(u, p)
    <2>1. \A u \in Task \ {t} : pc'[u] = pc[u] /\ loc'[u] = loc[u]
      BY <1>1 DEF DispatchInv, TypeOK
    <2> QED
      BY <1>1, <2>1, LandsUnchanged DEF DispatchInv, TypeOK
  <1>5. /\ offer'[o] = NewOffer(d, loc[t].rider)
        /\ \A p \in Offer \ {o} : offer'[p] = offer[p]
    BY <1>1 DEF DispatchInv, TypeOK
  <1>6. \A p \in Offer \ {o} : Keeps(p)
    BY <1>4, <1>5 DEF Keeps, SameIdentity, Stands, IsLive
  <1>7. Proposes(o)
    BY <1>1, <1>2, <1>3, <1>5, <1>6 DEF Proposes, Stands, IsLive, NewOffer
  <1> QED
    BY <1>7 DEF DispatchStep

(* A task that leaves while it lands gives its offer up, perhaps.          *)
LEMMA LeaveSteps ==
  ASSUME DispatchInv, NEW t \in Task, pc'[t] # "landing", UNCHANGED <<offer, delivery>>,
         \A u \in Task \ {t} : pc'[u] = pc[u] /\ loc'[u] = loc[u]
  PROVE  DispatchStep
  <1>1. CASE pc[t] # "landing"
    <2>1. \A o \in Offer : Keeps(o)
      BY <1>1, LandsUnchanged, QuietStep DEF DispatchInv
    <2> QED
      BY <2>1 DEF DispatchStep, SameAssigned
  <1>2. CASE pc[t] = "landing"
    <2>0. PICK o \in Offer : o = loc[t].offer
      BY <1>2, SavedStands
    <2>1. Exists(o) /\ Stands(o)
      BY <1>2, <2>0, SavedStands
    <2>2. \A p \in Offer \ {o} : Keeps(p)
      BY <1>2, <2>0 DEF Keeps, SameIdentity, Stands, Lands, IsLive
    <2>3. SameIdentity(o)
      BY DEF SameIdentity
    <2>4. CASE Stands(o)'
      BY <2>1, <2>2, <2>3, <2>4 DEF DispatchStep, SameAssigned, Keeps
    <2>5. CASE ~Stands(o)'
      BY <2>1, <2>2, <2>3, <2>5 DEF DispatchStep, Ends
    <2> QED
      BY <2>4, <2>5
  <1> QED
    BY <1>1, <1>2

LEMMA EveryStep ==
  ASSUME DispatchInv, [Next]_vars
  PROVE  DispatchStep
  <1> USE DEF DispatchInv, TypeOK
  <1>1. ASSUME NEW t \in Handler, NEW d \in Delivery, CreateDelivery(t, d) PROVE DispatchStep
    <2>1. \A o \in Offer : Keeps(o)
      BY <1>1, LandsUnchanged, QuietStep DEF CreateDelivery, Task
    <2> QED
      BY <1>1, <2>1 DEF CreateDelivery, DispatchStep, SameAssigned
  <1>2. ASSUME NEW t \in Handler, Request(t) PROVE DispatchStep
    BY <1>1, <1>2, LeaveSteps DEF Request, Respond, Task
  <1>3. ASSUME NEW t \in Worker, Work(t) PROVE DispatchStep
    BY <1>3, LeaveSteps DEF Work, TimeoutCheck, SkipTimeoutCheck, Task
  <1>4. ASSUME NEW t \in Task, Answer(t) PROVE DispatchStep
    <2>1. CASE ReadOffer(t)
      BY <2>1, LeaveSteps DEF ReadOffer, AfterRead
    <2>2. CASE SetBusy(t) \/ SyncBusy(t) \/ Release(t)
      BY <2>2, LeaveSteps DEF SetBusy, SyncBusy, Release
    <2> QED
      BY <1>4, <2>1, <2>2, CloseSteps, AcceptSteps, SettleSteps DEF Answer
  <1>5. ASSUME NEW t \in Task, CountAttempt(t) PROVE DispatchStep
    <2>1. /\ UNCHANGED delivery
          /\ \A o \in Offer : SameIdentity(o) /\ offer'[o].status = offer[o].status
      BY <1>5 DEF CountAttempt, SameIdentity, Row
    <2>2. \A u \in Task, o \in Offer : Lands(u, o)' <=> Lands(u, o)
      BY <1>5, LandsUnchanged DEF CountAttempt
    <2> QED
      BY <2>1, <2>2 DEF DispatchStep, SameAssigned, Keeps, Stands, IsLive
  <1>6. ASSUME NEW t \in Task, Dispatch(t) PROVE DispatchStep
    <2>1. CASE NoRider(t) \/ Schedule(t) \/ Reschedule(t)
      BY <2>1, LeaveSteps DEF NoRider, Schedule, Reschedule, Return, UnderLock
    <2>2. CASE ExcludePrevious(t) \/ PickRider(t)
      BY <2>2, LeaveSteps DEF ExcludePrevious, PickRider
    <2>3. CASE CheckDelivery(t) \/ CheckRider(t) \/ CheckPending(t)
      BY <2>3, LeaveSteps DEF CheckDelivery, CheckRider, CheckPending, Check, Return, UnderLock
    <2> QED
      BY <1>5, <1>6, <2>1, <2>2, <2>3, ProposeSteps DEF Dispatch
  <1>7. ASSUME NEW t \in Task, Fail(t) \/ Crash(t) PROVE DispatchStep
    BY <1>7, LeaveSteps DEF Fail, Crash, Return, UnderLock
  <1>8. CASE UNCHANGED <<delivery, offer, pc, loc>>
    <2>1. \A o \in Offer : Keeps(o)
      BY <1>8, QuietStep DEF Lands
    <2> QED
      BY <1>8, <2>1 DEF DispatchStep, SameAssigned
  <1>9. ASSUME NEW o \in Offer, Deadline(o) \/ LockExpires(o) PROVE DispatchStep
    BY <1>8, <1>9 DEF Deadline, LockExpires
  <1> QED
    BY <1>2, <1>3, <1>4, <1>6, <1>7, <1>8, <1>9 DEF Next, Step, Environment, vars

-------------------------------------------------------------------------------
(* A closed offer stays closed, unless an acceptance of it is landing:     *)
(* every other save is under the lock and of an offer that is still live.  *)
THEOREM ClosedIsFinalAlways == ASSUME ~SlowHandlers PROVE Spec => ClosedIsFinal
  <1> DEFINE Final == \A o \in Offer : Exists(o) /\ ~IsLive(o) /\ (\A t \in Task : ~Lands(t, o))
                        => offer'[o].status = offer[o].status
  <1>1. ASSUME DispatchInv, NEW t \in Task, NEW s \in OfferStatus \ {"NONE"},
               pc[t] \in AnswerSteps \cup {"landing"}, offer' = Saved(t, s)
        PROVE  Final
    BY <1>1, SavedStands, SavedRow DEF DispatchInv, Stands
  <1>2. DispatchInv /\ [Next]_vars => Final
    <2> SUFFICES ASSUME DispatchInv, [Next]_vars PROVE Final
      OBVIOUS
    <2>1. CASE UNCHANGED offer
      BY <2>1
    <2>2. ASSUME NEW t \in Task, Expire(t) \/ SaveRejected(t) \/ SaveAccepted(t) PROVE Final
      BY <1>1, <2>2 DEF Expire, SaveRejected, SaveAccepted, AnswerSteps, OfferStatus
    <2>3. ASSUME NEW t \in Task, InsertOffer(t) \/ CountAttempt(t) PROVE Final
      BY <2>3, SMTT(30) DEF InsertOffer, CountAttempt, DispatchInv, TypeOK, Row
    <2> QED
      BY <2>1, <2>2, <2>3
      DEF Next, vars, Request, CreateDelivery, Respond, Work, TimeoutCheck, SkipTimeoutCheck,
          Step, Answer, ReadOffer, SetAssigned, SetBusy, SyncBusy, ReleaseBeforeSave, Release,
          Dispatch, ExcludePrevious, PickRider, NoRider, CheckDelivery, CheckRider,
          CheckPending, Check, Schedule, Reschedule, Environment, Deadline, LockExpires, Fail,
          Crash
  <1>3. DispatchInv /\ [Next]_vars => [Final]_vars
    BY <1>2
  <1> QED
    BY <1>3, DispatchInvariant, PTL DEF Spec, ClosedIsFinal

-------------------------------------------------------------------------------
(* OfferDispatch implements Matching.                                      *)

(* Of one delivery at most one offer stands.                               *)
LEMMA OneStands ==
  ASSUME DispatchInv, NEW d \in Delivery, NEW o \in OffersOf(d), NEW p \in OffersOf(d),
         Stands(o), Stands(p)
  PROVE  o = p
  <1>1. o \in Offer /\ p \in Offer /\ SameDelivery(o, p) /\ offer[o].delivery = d
    BY DEF OffersOf, SameDelivery
  <1>2. \A t \in Task, q \in OffersOf(d) : Lands(t, q) =>
          Accepting(t) /\ loc[t].offer = q /\ loc[t].delivery = d
    BY DEF Lands, Accepting, DispatchInv, LockIsHeld, TypeOK, TasksRefer, OffersOf
  <1>3. CASE IsLive(o) /\ IsLive(p)
    BY <1>1, <1>3 DEF DispatchInv, OneLiveOffer
  <1>4. ASSUME NEW t \in Task, Lands(t, o) PROVE o = p
    BY <1>2, <1>4 DEF DispatchInv, AcceptsTheLiveOne, Stands
  <1>5. ASSUME NEW t \in Task, Lands(t, p) PROVE o = p
    BY <1>2, <1>5 DEF DispatchInv, AcceptsTheLiveOne, Stands
  <1> QED
    BY <1>3, <1>4, <1>5 DEF Stands

(* Keeping the offers of a delivery keeps who was asked and who holds it.  *)
LEMMA SameDeliveryState ==
  ASSUME NEW d \in Delivery, OffersOf(d)' = OffersOf(d), \A o \in OffersOf(d) : Keeps(o)
  PROVE  PreviousRiders(d)' = PreviousRiders(d) /\ Standing(d)' = Standing(d)
  <1>1. PreviousRiders(d)' = PreviousRiders(d)
    BY DEF PreviousRiders, Keeps, SameIdentity
  <1>2. Standing(d)' = Standing(d)
    BY DEF Standing, Keeps, SameIdentity
  <1> QED
    BY <1>1, <1>2

LEMMA ImplementsStep ==
  ASSUME DispatchInv, [Next]_vars
  PROVE  [Promise!Next]_(Promise!promise)
  <1> DEFINE asked   == [d \in Delivery |-> PreviousRiders(d)]
             holder  == [d \in Delivery |-> Standing(d)]
             settled == [d \in Delivery |-> delivery[d] = "ASSIGNED"]
             same(d) == PreviousRiders(d)' = PreviousRiders(d) /\ Standing(d)' = Standing(d)
  <1>1. CASE SameAssigned /\ \A o \in Offer : Keeps(o)
    <2>1. \A d \in Delivery : OffersOf(d)' = OffersOf(d)
      BY <1>1 DEF OffersOf, Keeps, SameIdentity
    <2>2. \A d \in Delivery : same(d)
      BY <1>1, <2>1, SameDeliveryState DEF OffersOf
    <2> QED
      BY <1>1, <2>2 DEF Promise!promise, SameAssigned
  <1>2. ASSUME NEW o \in Offer, Ends(o) PROVE Promise!Next
    <2>1. \A d \in Delivery : OffersOf(d)' = OffersOf(d)
      BY <1>2 DEF OffersOf, Ends, Keeps, SameIdentity
    <2>2. Exists(o)
      BY <1>2 DEF Ends, Stands, IsLive, Lands, DispatchInv, LockIsHeld, TypeOK, TasksRefer
    <2>3. PICK d \in Delivery : d = offer[o].delivery /\ o \in OffersOf(d)
      BY <2>2 DEF DispatchInv, RowsRefer, OffersOf
    <2>4. \A e \in Delivery \ {d} : same(e)
      <3>1. \A e \in Delivery \ {d} : o \notin OffersOf(e)
        BY <2>3 DEF OffersOf
      <3> QED
        BY <1>2, <2>1, <3>1, SameDeliveryState DEF Ends, OffersOf
    <2>5. PreviousRiders(d)' = PreviousRiders(d)
      BY <1>2, <2>1 DEF PreviousRiders, OffersOf, Ends, Keeps, SameIdentity
    <2>6. \A p \in OffersOf(d) : Stands(p) => p = o
      BY <1>2, <2>3, OneStands DEF Ends
    <2>7. Standing(d) # {} /\ Standing(d)' = {}
      <3>1. \A p \in OffersOf(d) : ~Stands(p)'
        BY <1>2, <2>6 DEF Ends, Keeps, OffersOf
      <3> QED
        BY <1>2, <2>1, <2>3, <3>1 DEF Standing, Ends
    <2>8. asked' = asked /\ holder' = [holder EXCEPT ![d] = {}] /\ holder[d] # {}
      BY <2>4, <2>5, <2>7
    <2> QED
      BY <1>2, <2>8 DEF Promise!Next, Promise!Close, Ends
  <1>3. ASSUME NEW d \in Delivery, Settles(d) PROVE [Promise!Next]_(Promise!promise)
    <2>1. \A e \in Delivery : OffersOf(e)' = OffersOf(e)
      BY <1>3 DEF OffersOf, Settles, Keeps, SameIdentity
    <2>2. \A e \in Delivery : same(e)
      BY <1>3, <2>1, SameDeliveryState DEF Settles, OffersOf
    <2>3. Standing(d) # {}
      BY <1>3 DEF Settles, Standing
    <2>4. asked' = asked /\ holder' = holder /\ holder[d] # {}
      BY <2>2, <2>3
    <2>5. settled' = [settled EXCEPT ![d] = TRUE]
      BY <1>3 DEF Settles, DispatchInv, TypeOK
    <2>6. CASE settled[d]
      <3>1. settled' = settled
        BY <2>5, <2>6
      <3> QED
        BY <2>4, <3>1 DEF Promise!promise
    <2>7. CASE ~settled[d]
      BY <2>4, <2>5, <2>7 DEF Promise!Next, Promise!Settle
    <2> QED
      BY <2>6, <2>7
  <1>4. ASSUME NEW o \in Offer, Proposes(o) PROVE Promise!Next
    <2>1. PICK d \in Delivery, r \in Rider : d = offer'[o].delivery /\ r = offer'[o].rider
      BY <1>4 DEF Proposes
    <2>2. /\ OffersOf(d)' = OffersOf(d) \cup {o} /\ o \notin OffersOf(d)
          /\ \A e \in Delivery \ {d} : OffersOf(e)' = OffersOf(e) /\ o \notin OffersOf(e)
      BY <1>4, <2>1 DEF Proposes, OffersOf, Keeps, SameIdentity
    <2>3. \A e \in Delivery \ {d} : same(e)
      BY <1>4, <2>2, SameDeliveryState DEF Proposes, OffersOf
    <2>4. \A p \in OffersOf(d) : /\ ~Stands(p) /\ ~Stands(p)' /\ offer[p].rider # r
                                 /\ offer'[p].rider = offer[p].rider
      BY <1>4, <2>1, <2>2 DEF Proposes, OffersOf, Keeps, SameIdentity
    <2>5. Standing(d) = {} /\ r \notin PreviousRiders(d)
      BY <2>4 DEF Standing, PreviousRiders
    <2>6. PreviousRiders(d)' = PreviousRiders(d) \cup {r}
      BY <2>1, <2>2, <2>4 DEF PreviousRiders
    <2>7. Standing(d)' = {r}
      BY <1>4, <2>1, <2>2, <2>4 DEF Standing, Proposes
    <2>8. /\ asked' = [asked EXCEPT ![d] = @ \cup {r}]
          /\ holder' = [holder EXCEPT ![d] = {r}] /\ settled' = settled
          /\ holder[d] = {} /\ ~settled[d] /\ r \notin asked[d]
      BY <1>4, <2>1, <2>3, <2>5, <2>6, <2>7 DEF Proposes
    <2> QED
      BY <2>1, <2>8 DEF Promise!Next, Promise!Ask
  <1> QED
    BY <1>1, <1>2, <1>3, <1>4, EveryStep DEF DispatchStep

(* One rider at a time, nobody twice, nobody else once it is settled:      *)
(* every behaviour of the dispatch code, with its locks, jobs, crashes and *)
(* failed calls, is a behaviour of Matching.                               *)
THEOREM DispatchImplementsMatching == ASSUME ~SlowHandlers PROVE Spec => ImplementsMatching
  <1>1. Init => Promise!Init
    <2> SUFFICES ASSUME Init PROVE Promise!Init
      OBVIOUS
    <2>1. \A d \in Delivery : OffersOf(d) = {} /\ delivery[d] # "ASSIGNED"
      BY DEF Init, NoOffer, OffersOf
    <2>2. \A d \in Delivery : PreviousRiders(d) = {} /\ Standing(d) = {}
      BY <2>1 DEF PreviousRiders, Standing
    <2> QED
      BY <2>1, <2>2 DEF Promise!Init
  <1>2. DispatchInv /\ [Next]_vars => [Promise!Next]_(Promise!promise)
    BY ImplementsStep
  <1> QED
    BY <1>1, <1>2, DispatchInvariant, PTL DEF Spec, ImplementsMatching, Promise!Spec
-------------------------------------------------------------------------------
(* Chains of offers. The number that a row carries is not the length of    *)
(* the chain: a job numbered 1 is queued for every offer, and a save may   *)
(* write an older number back. What the code does guarantee is this.       *)

LastAttempt == IF MaxDispatchAttempts > 1 THEN MaxDispatchAttempts ELSE 1
AttemptsInRange ==
  /\ \A o \in Offer : offer[o].attemptCount <= LastAttempt
  /\ \A j \in jobs : j.attempt <= LastAttempt

(* Whoever redispatches has tested the number that he is about to raise.   *)
Raises(t) == pc[t] \in {"count", "reschedule"}
             \/ (loc[t].op \in Redispatches /\ pc[t] \in DispatchSteps \cup {"schedule"})
NumbersAtHand ==
  \A t \in Task : /\ loc[t].snap <= LastAttempt /\ loc[t].attempt <= LastAttempt
                  /\ Raises(t) => loc[t].attempt < MaxDispatchAttempts

AttemptInv == TypeOK /\ AttemptsInRange /\ NumbersAtHand

(* Numbers start at 1, and one that may be raised stays in range.          *)
LEMMA LastIsNumber ==
  /\ LastAttempt \in Nat /\ 1 <= LastAttempt
  /\ \A n \in Nat : n < MaxDispatchAttempts => n + 1 <= LastAttempt
  BY AttemptsAreCounted DEF LastAttempt

(* A step of one task, or of none.                                         *)
LEMMA NumbersKept ==
  ASSUME AttemptInv, TypeOK', NEW t \in Task,
         \A u \in Task \ {t} : pc'[u] = pc[u] /\ loc'[u] = loc[u],
         \A o \in Offer : offer'[o].attemptCount <= LastAttempt,
         \A j \in jobs' \ jobs : j.attempt <= LastAttempt,
         loc'[t].snap <= LastAttempt, loc'[t].attempt <= LastAttempt,
         Raises(t)' => loc'[t].attempt < MaxDispatchAttempts
  PROVE  AttemptInv'
  <1>1. \A u \in Task \ {t} : Raises(u)' <=> Raises(u)
    BY DEF Raises
  <1>2. LastAttempt' = LastAttempt
    BY DEF LastAttempt
  <1> QED
    BY <1>1, <1>2 DEF AttemptInv, AttemptsInRange, NumbersAtHand

LEMMA ReturnNumbers ==
  ASSUME AttemptInv, TypeOK', NEW t \in Task, Return(t) \/ Done(t),
         \A o \in Offer : offer'[o].attemptCount <= LastAttempt,
         \A j \in jobs' \ jobs : j.attempt <= LastAttempt
  PROVE  AttemptInv'
  <1>1. /\ \A u \in Task \ {t} : pc'[u] = pc[u] /\ loc'[u] = loc[u]
        /\ pc'[t] \in {"idle", "release"} /\ loc'[t] \in {Blank, loc[t]}
    BY DEF Return, AttemptInv, TypeOK
  <1>2. loc'[t].snap <= LastAttempt /\ loc'[t].attempt <= LastAttempt
    BY <1>1, LastIsNumber DEF Blank, AttemptInv, NumbersAtHand
  <1>3. ~Raises(t)'
    BY <1>1 DEF Raises, DispatchSteps
  <1> QED
    BY <1>1, <1>2, <1>3, NumbersKept

LEMMA EntriesNumbered ==
  ASSUME AttemptInv, TypeOK', NEW t \in Task, NEW l, NEW step \in {"read", "nearby"}, Begin(t, l, step),
         l.op \in Redispatches => step = "read", l.snap <= LastAttempt, l.attempt <= LastAttempt,
         UNCHANGED offer, jobs' \subseteq jobs
  PROVE  AttemptInv'
  <1>1. /\ \A u \in Task \ {t} : pc'[u] = pc[u] /\ loc'[u] = loc[u]
        /\ pc'[t] = step /\ loc'[t] = l
    BY DEF AttemptInv, TypeOK
  <1>2. ~Raises(t)'
    BY <1>1 DEF Raises, DispatchSteps
  <1>3. \A o \in Offer : offer'[o].attemptCount <= LastAttempt
    BY DEF AttemptInv, AttemptsInRange
  <1> QED
    BY <1>1, <1>2, <1>3, NumbersKept

(* A task goes on, with the numbers it has.                                *)
LEMMA GoesOnNumbered ==
  ASSUME AttemptInv, TypeOK', NEW t \in Task, NEW step, Goto(t, step),
         \A u \in Task \ {t} : loc'[u] = loc[u],
         loc'[t].op = loc[t].op, loc'[t].attempt = loc[t].attempt, loc'[t].snap <= LastAttempt,
         step \in DispatchSteps \cup {"schedule"} => pc[t] \in DispatchSteps,
         step \in {"count", "reschedule"} => Raises(t),
         \A o \in Offer : offer'[o].attemptCount <= LastAttempt,
         \A j \in jobs' \ jobs : j.attempt <= LastAttempt
  PROVE  AttemptInv'
  <1>1. pc'[t] = step /\ \A u \in Task \ {t} : pc'[u] = pc[u]
    BY DEF AttemptInv, TypeOK
  <1>2. Raises(t)' => Raises(t)
    BY <1>1 DEF Raises
  <1>3. loc'[t].attempt <= LastAttempt /\ (Raises(t)' => loc'[t].attempt < MaxDispatchAttempts)
    BY <1>2 DEF AttemptInv, NumbersAtHand
  <1> QED
    BY <1>1, <1>3, NumbersKept

LEMMA AnswerNumbered ==
  ASSUME AttemptInv, TypeOK', NEW t \in Task, Answer(t) PROVE AttemptInv'
  <1>1. /\ \A o \in Offer : offer[o].attemptCount <= LastAttempt
        /\ loc[t].snap <= LastAttempt /\ loc[t].attempt <= LastAttempt
        /\ loc[t].snap \in Nat /\ loc[t].attempt \in Nat
    BY DEF AttemptInv, AttemptsInRange, NumbersAtHand, TypeOK, Locals
  <1>2. ASSUME NEW s, offer' = Saved(t, s) PROVE \A o \in Offer : offer'[o].attemptCount <= LastAttempt
    <2>1. \A x \in Row : [x EXCEPT !.status = s, !.attemptCount = loc[t].snap].attemptCount = loc[t].snap
      BY DEF Row
    <2> QED
      BY <1>1, <1>2, <2>1 DEF Saved, AttemptInv, TypeOK
  <1>3. ASSUME NEW n \in Nat, n <= LastAttempt, RedispatchOrReturn(t, n), UNCHANGED jobs,
               \A o \in Offer : offer'[o].attemptCount <= LastAttempt
        PROVE  AttemptInv'
    <2>1. CASE Return(t)
      BY <1>3, <2>1, ReturnNumbers
    <2>2. CASE MayRedispatch(n) /\ Goto(t, "exclude") /\ Local(t, [loc[t] EXCEPT !.attempt = n])
      <3>1. loc'[t].snap = loc[t].snap /\ loc'[t].attempt = n /\ \A u \in Task \ {t} : pc'[u] = pc[u] /\ loc'[u] = loc[u]
        BY <2>2 DEF AttemptInv, TypeOK, Locals
      <3> QED
        BY <1>1, <1>3, <2>2, <3>1, NumbersKept DEF MayRedispatch
    <2> QED
      BY <1>3, <2>1, <2>2 DEF RedispatchOrReturn
  <1>4. CASE ReadOffer(t)
    <2>1. loc[t].offer \in Offer
      BY <1>4 DEF ReadOffer, AttemptInv, TypeOK, TasksRefer
    <2>2. /\ loc'[t].op = loc[t].op /\ loc'[t].attempt = loc[t].attempt /\ loc'[t].snap <= LastAttempt
          /\ \A u \in Task \ {t} : loc'[u] = loc[u]
      BY <1>1, <1>4, <2>1 DEF ReadOffer, AttemptInv, TypeOK, Locals
    <2>3. AfterRead(t) \notin DispatchSteps \cup {"schedule", "count", "reschedule"}
      BY DEF AfterRead, DispatchSteps
    <2> HIDE DEF Goto
    <2>4. Goto(t, AfterRead(t)) /\ UNCHANGED <<offer, jobs>>
      BY <1>4 DEF ReadOffer
    <2> QED
      BY <1>1, <2>2, <2>3, <2>4, GoesOnNumbered
  <1>5. CASE Expire(t)
    BY <1>1, <1>2, <1>3, <1>5, ReturnNumbers DEF Expire
  <1>6. CASE SetAssigned(t) \/ SetBusy(t) \/ SyncBusy(t) \/ ReleaseBeforeSave(t)
    <2>1. \E step \in {"busy", "sync", "accept", "landing"} : Goto(t, step)
      BY <1>6 DEF SetAssigned, SetBusy, SyncBusy, ReleaseBeforeSave
    <2>2. UNCHANGED <<offer, jobs, loc>>
      BY <1>6 DEF SetAssigned, SetBusy, SyncBusy, ReleaseBeforeSave
    <2> QED
      BY <1>1, <2>1, <2>2, GoesOnNumbered DEF DispatchSteps
  <1>7. CASE SaveAccepted(t)
    BY <1>2, <1>7, ReturnNumbers DEF SaveAccepted
  <1>8. CASE SaveRejected(t)
    BY <1>1, <1>2, <1>3, <1>8 DEF SaveRejected
  <1>9. CASE Release(t)
    BY <1>1, <1>9, ReturnNumbers DEF Release
  <1> QED
    BY <1>4, <1>5, <1>6, <1>7, <1>8, <1>9 DEF Answer

LEMMA DispatchNumbered ==
  ASSUME AttemptInv, TypeOK', NEW t \in Task, Dispatch(t) PROVE AttemptInv'
  <1>1. /\ \A o \in Offer : offer[o].attemptCount <= LastAttempt
        /\ loc[t].snap <= LastAttempt /\ loc[t].attempt \in Nat
        /\ Raises(t) => loc[t].attempt + 1 <= LastAttempt
    BY LastIsNumber DEF AttemptInv, AttemptsInRange, NumbersAtHand, TypeOK, Locals
  <1>2. CASE ExcludePrevious(t) \/ PickRider(t)
    <2>1. /\ loc'[t].op = loc[t].op /\ loc'[t].attempt = loc[t].attempt /\ loc'[t].snap = loc[t].snap
          /\ \A u \in Task \ {t} : loc'[u] = loc[u]
      BY <1>2 DEF ExcludePrevious, PickRider, AttemptInv, TypeOK, Locals
    <2>2. pc[t] \in DispatchSteps /\ UNCHANGED <<offer, jobs>>
          /\ \E step \in DispatchSteps : Goto(t, step)
      BY <1>2 DEF ExcludePrevious, PickRider, DispatchSteps
    <2> QED
      BY <1>1, <2>1, <2>2, GoesOnNumbered DEF DispatchSteps
  <1>3. CASE NoRider(t)
    BY <1>1, <1>3, ReturnNumbers DEF NoRider
  <1>4. ASSUME NEW step \in DispatchSteps, NEW ok, NEW next \in DispatchSteps, Check(t, step, ok, next)
        PROVE  AttemptInv'
    <2>1. CASE Return(t)
      BY <1>1, <1>4, <2>1, ReturnNumbers DEF Check
    <2>2. CASE Goto(t, next) /\ UNCHANGED loc
      BY <1>1, <1>4, <2>2, GoesOnNumbered DEF Check, DispatchSteps
    <2> QED
      BY <1>4, <2>1, <2>2 DEF Check
  <1>5. CASE CheckDelivery(t) \/ CheckRider(t) \/ CheckPending(t)
    BY <1>4, <1>5 DEF CheckDelivery, CheckRider, CheckPending, DispatchSteps
  <1>6. CASE InsertOffer(t)
    <2>1. PICK o \in Offer : /\ offer' = [offer EXCEPT ![o] = NewOffer(loc[t].delivery, loc[t].rider)]
                             /\ loc' = [loc EXCEPT ![t] = [loc[t] EXCEPT !.fresh = o]]
      BY <1>6 DEF InsertOffer
    <2>2. \A p \in Offer : offer'[p].attemptCount <= LastAttempt
      BY <1>1, <2>1, LastIsNumber DEF NewOffer, AttemptInv, TypeOK
    <2>3. /\ loc'[t].op = loc[t].op /\ loc'[t].attempt = loc[t].attempt /\ loc'[t].snap = loc[t].snap
          /\ \A u \in Task \ {t} : loc'[u] = loc[u]
      BY <2>1 DEF AttemptInv, TypeOK, Locals
    <2> QED
      BY <1>1, <1>6, <2>2, <2>3, GoesOnNumbered DEF InsertOffer, DispatchSteps
  <1>7. ASSUME NEW n \in Nat, n <= LastAttempt, Enqueue(Job(loc[t].fresh, n))
        PROVE  \A j \in jobs' \ jobs : j.attempt <= LastAttempt
    BY <1>7 DEF Enqueue, Job
  <1>8. CASE Schedule(t)
    <2>1. \A j \in jobs' \ jobs : j.attempt <= LastAttempt
      BY <1>7, <1>8, LastIsNumber DEF Schedule
    <2>2. CASE Return(t)
      BY <1>1, <1>8, <2>1, <2>2, ReturnNumbers DEF Schedule
    <2>3. CASE loc[t].op \in Redispatches /\ Goto(t, "count") /\ UNCHANGED loc
      BY <1>1, <1>8, <2>1, <2>3, GoesOnNumbered DEF Schedule, Raises, DispatchSteps
    <2> QED
      BY <1>8, <2>2, <2>3 DEF Schedule
  <1>9. CASE CountAttempt(t)
    <2>1. Raises(t)
      BY <1>9 DEF CountAttempt, Raises
    <2>2. \A o \in Offer : offer'[o].attemptCount <= LastAttempt
      <3>1. \A x \in Row : [x EXCEPT !.attemptCount = loc[t].attempt + 1].attemptCount = loc[t].attempt + 1
        BY DEF Row
      <3> QED
        BY <1>1, <1>9, <2>1, <3>1 DEF CountAttempt, AttemptInv, TypeOK
    <2> QED
      BY <1>1, <1>9, <2>1, <2>2, GoesOnNumbered DEF CountAttempt, DispatchSteps
  <1>10. CASE Reschedule(t)
    <2>1. Raises(t) /\ Enqueue(Job(loc[t].fresh, loc[t].attempt + 1)) /\ Return(t) /\ UNCHANGED offer
      BY <1>10 DEF Reschedule, Raises
    <2>2. \A j \in jobs' \ jobs : j.attempt <= LastAttempt
      BY <1>1, <1>7, <2>1
    <2> QED
      BY <1>1, <2>1, <2>2, ReturnNumbers
  <1> QED
    BY <1>2, <1>3, <1>5, <1>6, <1>8, <1>9, <1>10 DEF Dispatch

LEMMA AttemptStep == ASSUME AttemptInv, [Next]_vars PROVE AttemptInv'
  <1>1. TypeOK'
    BY TypeStep DEF AttemptInv
  <1>2. ASSUME UNCHANGED <<pc, loc, offer>>, jobs' \subseteq jobs PROVE AttemptInv'
    BY <1>1, <1>2 DEF AttemptInv, AttemptsInRange, NumbersAtHand, Raises, LastAttempt
  <1>3. ASSUME NEW t \in Handler, Request(t) PROVE AttemptInv'
    <2>1. ASSUME NEW d \in Delivery, CreateDelivery(t, d) PROVE AttemptInv'
      <3> DEFINE l == [Blank EXCEPT !.op = "create", !.delivery = d]
      <3>1. l.op \notin Redispatches /\ l.snap <= LastAttempt /\ l.attempt <= LastAttempt
        BY LastIsNumber DEF Blank, Redispatches
      <3>2. Begin(t, l, "nearby") /\ UNCHANGED <<offer, jobs>>
        BY <2>1 DEF CreateDelivery
      <3> HIDE DEF l
      <3> QED
        BY <1>1, <3>1, <3>2, EntriesNumbered DEF Task
    <2>2. ASSUME NEW o \in Offer, NEW op, Respond(t, o, op) PROVE AttemptInv'
      <3> DEFINE l == [Blank EXCEPT !.op = op, !.offer = o, !.delivery = offer[o].delivery]
      <3>1. l.snap <= LastAttempt /\ l.attempt <= LastAttempt
        BY LastIsNumber DEF Blank
      <3>2. Begin(t, l, "read") /\ UNCHANGED <<offer, jobs>>
        BY <2>2 DEF Respond
      <3> HIDE DEF l
      <3> QED
        BY <1>1, <3>1, <3>2, EntriesNumbered DEF Task
    <2> QED
      BY <1>3, <2>1, <2>2 DEF Request
  <1>4. ASSUME NEW t \in Worker, NEW j \in jobs, TimeoutCheck(t, j) PROVE AttemptInv'
    <2> DEFINE l == [Blank EXCEPT !.op = "timeout", !.offer = j.offer,
                                  !.delivery = offer[j.offer].delivery, !.attempt = j.attempt]
    <2>1. l.snap <= LastAttempt /\ l.attempt <= LastAttempt
      BY LastIsNumber DEF Blank, AttemptInv, AttemptsInRange
    <2>2. Begin(t, l, "read") /\ UNCHANGED offer /\ jobs' \subseteq jobs
      BY <1>4 DEF TimeoutCheck
    <2> HIDE DEF l
    <2> QED
      BY <1>1, <2>1, <2>2, EntriesNumbered DEF Task
  <1>5. ASSUME NEW t \in Task, Fail(t) \/ Crash(t) PROVE AttemptInv'
    <2>1. \A j \in jobs' \ jobs : j.attempt <= LastAttempt
      BY <1>5 DEF Fail, Crash, Job, AttemptInv, NumbersAtHand
    <2>2. (Return(t) \/ Done(t)) /\ \A o \in Offer : offer'[o].attemptCount <= LastAttempt
      BY <1>5 DEF Fail, Crash, AttemptInv, AttemptsInRange
    <2> QED
      BY <1>1, <2>1, <2>2, ReturnNumbers
  <1>6. CASE \E o \in Offer : Deadline(o) \/ LockExpires(o)
    BY <1>2, <1>6 DEF Deadline, LockExpires
  <1>7. CASE \E t \in Worker : \E j \in jobs : SkipTimeoutCheck(t, j)
    BY <1>2, <1>7 DEF SkipTimeoutCheck
  <1>8. CASE UNCHANGED vars
    BY <1>2, <1>8 DEF vars
  <1> QED
    BY <1>1, <1>3, <1>4, <1>5, <1>6, <1>7, <1>8, AnswerNumbered, DispatchNumbered
       DEF Next, Work, Step, Environment

(* The number of an attempt, in a row or a job, never passes the maximum,  *)
(* whichever save writes an older one back, and whatever job is repeated.  *)
THEOREM AttemptsInRangeAlways == Spec => []AttemptsInRange
  <1>1. Init => AttemptInv
    BY InitTypeOK, LastIsNumber DEF Init, NoOffer, Blank, AttemptInv, AttemptsInRange, NumbersAtHand,
       Raises, DispatchSteps
  <1>2. AttemptInv /\ [Next]_vars => AttemptInv'
    BY AttemptStep
  <1>3. AttemptInv => AttemptsInRange
    BY DEF AttemptInv
  <1> QED
    BY <1>1, <1>2, <1>3, PTL DEF Spec

(* A delivery has no more offers than there are riders.                    *)
ChainsEnd == \A d \in Delivery : Cardinality(OffersOf(d)) <= Cardinality(Rider)

(* The chain itself may be longer than the maximum allows (DispatchStops), *)
(* but it ends: however often a delivery is redispatched, in time there is *)
(* nobody left to ask, because nobody is asked twice.                      *)
THEOREM ChainsEndAlways ==
  ASSUME ~SlowHandlers, IsFiniteSet(Rider) PROVE Spec => []ChainsEnd
  <1>1. ASSUME RowsRefer, OncePerRider PROVE ChainsEnd
    <2> SUFFICES ASSUME NEW d \in Delivery PROVE Cardinality(OffersOf(d)) <= Cardinality(Rider)
      BY DEF ChainsEnd
    <2> DEFINE f == [o \in OffersOf(d) |-> offer[o].rider]
    <2>1. f \in Injection(OffersOf(d), Rider)
      BY <1>1 DEF RowsRefer, OncePerRider, SameDelivery, OffersOf, Injection, IsInjective
    <2> HIDE DEF f
    <2> QED
      BY <2>1, FS_Injection
  <1>2. DispatchInv => ChainsEnd
    BY <1>1 DEF DispatchInv
  <1> QED
    BY <1>2, DispatchInvariant, PTL
===============================================================================
