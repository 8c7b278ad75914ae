--------------------------- MODULE DispatchOpsProofs ---------------------------
(***************************************************************************)
(* Proofs about DispatchOps, for any number of deliveries, riders, offers, *)
(* requests, workers and failed calls, and whichever endpoints are called. *)
(***************************************************************************)
EXTENDS DispatchOpsProps, TLAPS

USE DEF rows, Exists, At, Goto, Local, Begin, Done

-------------------------------------------------------------------------------
(* The types of the tasks of both modules.                                 *)

OpsSteps == Steps \cup Operations

OpsOps ==
  Ops \cup {"manual", "assign", "reassign", "riderCancel", "deliver"}
    \cup {"cancelPending", "cancelAccepted"} \cup {"goAvailable", "goBusy", "goOffline"}

OpsLocals ==
  [op : OpsOps, delivery : Delivery \cup {None}, offer : Offer \cup {None},
   rider : Rider \cup {None}, snap : Nat, attempt : Nat,
   exclude : SUBSET (Rider \cup {None}), fresh : Offer \cup {None}]

OpsTypeOK ==
  /\ offer \in [Offer -> Row]
  /\ lock \in [Offer -> Task \cup {"free", "orphan"}]
  /\ jobs \subseteq [offer : Offer, attempt : Nat]
  /\ pc \in [Task -> OpsSteps]
  /\ loc \in [Task -> OpsLocals]
  /\ found \in [Task -> SUBSET [offer : Offer, snap : Nat]]

(* Which operation is where: what an answer or a dispatch does under its   *)
(* lock, and what an admin's operation does before and under its own.      *)
Answering == {"read", "expire", "assign", "busy", "sync", "accept", "landing", "reject"}
Placing ==
  {"exclude", "nearby", "checkDelivery", "checkRider", "checkPending", "insert",
   "schedule", "count", "reschedule"}
Deciding == {"findAccepted", "checkNewRider", "acquire"}
Withdrawing == {"revoke", "free", "freeSync", "reopen", "replace"}

InItsPlace(t) ==
  /\ pc[t] = "idle" => loc[t] = Blank
  /\ loc[t].op \in HoldsLock =>
       loc[t].offer \in Offer /\ pc[t] \in Answering \cup Placing \cup {"release"}
  /\ loc[t].op \in AdminUnderLock =>
       /\ pc[t] \in Deciding \cup Withdrawing \cup {"release"}
       /\ loc[t].offer \in Offer \/ pc[t] = "findAccepted"
  /\ pc[t] \in Answering => loc[t].op \in HoldsLock
  /\ pc[t] = "release" => loc[t].op \in HoldsLock \cup AdminUnderLock
  /\ pc[t] = "acquire" => loc[t].op \in AdminUnderLock
  /\ pc[t] = "checkNewRider" => loc[t].op \in {"assign", "reassign"}
  /\ pc[t] \in {"findPending", "cancelPending"} => loc[t].op = "assign"
  /\ pc[t] = "findAccepted" => loc[t].op \in {"reassign", "riderCancel", "deliver"}
  /\ pc[t] = "replace" => loc[t].op \in {"assign", "reassign"}
  /\ pc[t] \in {"schedule", "count", "reschedule"} => loc[t].fresh \in Offer

EachInItsPlace == \A t \in Task : InItsPlace(t)

(* Who is inside has the lock of its offer.                                *)
InsideHolds ==
  \A t \in Task : InsideLock(t) => loc[t].offer \in Offer /\ lock[loc[t].offer] = t

OpsInv == OpsTypeOK /\ EachInItsPlace /\ InsideHolds

LEMMA StatusOps == DOMAIN StatusCalls = {"goAvailable", "goBusy", "goOffline"}
  BY DEF StatusCalls

(* Where each plan goes on: operation, step and next step.                 *)
PlanSteps ==
  {<<"riderCancel", "revoke", "free">>, <<"riderCancel", "free", "freeSync">>,
   <<"riderCancel", "freeSync", "reopen">>, <<"riderCancel", "reopen", "nearby">>,
   <<"reassign", "revoke", "free">>, <<"reassign", "free", "freeSync">>,
   <<"reassign", "freeSync", "reopen">>, <<"reassign", "reopen", "replace">>,
   <<"reassign", "replace", "release">>,
   <<"cancelAccepted", "revoke", "reopen">>, <<"cancelAccepted", "reopen", "free">>,
   <<"cancelAccepted", "free", "freeSync">>, <<"cancelAccepted", "freeSync", "release">>,
   <<"cancelPending", "revoke", "release">>,
   <<"deliver", "free", "freeSync">>, <<"deliver", "freeSync", "finish">>}
  \cup {<<op, "free", "freeSync">> : op \in DOMAIN StatusCalls}
  \cup {<<op, "freeSync", "end">> : op \in DOMAIN StatusCalls}

LEMMA AdvanceFits ==
  ASSUME OpsTypeOK, NEW t \in Task, Advance(t)
  PROVE  /\ <<loc[t].op, pc[t], pc'[t]>> \in PlanSteps
         /\ loc[t].op \in {"riderCancel", "deliver", "goAvailable", "goBusy", "goOffline"}
                            \cup AdminUnderLock
         /\ pc' = [pc EXCEPT ![t] = pc'[t]]
         /\ pc'[t] \in Withdrawing \cup {"release", "nearby", "finish", "end"}
         /\ loc[t].op \in AdminUnderLock => pc'[t] \in Withdrawing \cup {"release"}
         /\ pc'[t] = "release" => loc[t].op \in AdminUnderLock
         /\ pc'[t] = "replace" => loc[t].op = "reassign"
  <1> DEFINE P == Plan(loc[t].op)
  <1>1. PICK i \in 1..(Len(P) - 1) : pc[t] = P[i] /\ pc' = [pc EXCEPT ![t] = P[i + 1]]
    BY DEF Advance
  <1>2. loc[t].op \in OpsOps /\ pc'[t] = P[i + 1]
    BY <1>1 DEF OpsTypeOK, OpsLocals
  <1>3. CASE loc[t].op = "riderCancel"
    <2>1. P = <<"revoke", "free", "freeSync", "reopen", "nearby">>
      BY <1>3, StatusOps DEF Plan
    <2>2. i \in 1..4
      BY <1>1, <2>1
    <2>3. \/ P[i] = "revoke" /\ P[i + 1] = "free"
          \/ P[i] = "free" /\ P[i + 1] = "freeSync"
          \/ P[i] = "freeSync" /\ P[i + 1] = "reopen"
          \/ P[i] = "reopen" /\ P[i + 1] = "nearby"
      BY <2>1, <2>2
    <2> HIDE DEF P
    <2> QED
      BY <1>1, <1>2, <1>3, <2>3 DEF AdminUnderLock, Withdrawing, PlanSteps
  <1>4. CASE loc[t].op = "reassign"
    <2>1. P = <<"revoke", "free", "freeSync", "reopen", "replace", "release">>
      BY <1>4, StatusOps DEF Plan
    <2>2. i \in 1..5
      BY <1>1, <2>1
    <2>3. \/ P[i] = "revoke" /\ P[i + 1] = "free"
          \/ P[i] = "free" /\ P[i + 1] = "freeSync"
          \/ P[i] = "freeSync" /\ P[i + 1] = "reopen"
          \/ P[i] = "reopen" /\ P[i + 1] = "replace"
          \/ P[i] = "replace" /\ P[i + 1] = "release"
      BY <2>1, <2>2
    <2> HIDE DEF P
    <2> QED
      BY <1>1, <1>2, <1>4, <2>3 DEF AdminUnderLock, Withdrawing, PlanSteps
  <1>5. CASE loc[t].op = "cancelAccepted"
    <2>1. P = <<"revoke", "reopen", "free", "freeSync", "release">>
      BY <1>5, StatusOps DEF Plan
    <2>2. i \in 1..4
      BY <1>1, <2>1
    <2>3. \/ P[i] = "revoke" /\ P[i + 1] = "reopen"
          \/ P[i] = "reopen" /\ P[i + 1] = "free"
          \/ P[i] = "free" /\ P[i + 1] = "freeSync"
          \/ P[i] = "freeSync" /\ P[i + 1] = "release"
      BY <2>1, <2>2
    <2> HIDE DEF P
    <2> QED
      BY <1>1, <1>2, <1>5, <2>3 DEF AdminUnderLock, Withdrawing, PlanSteps
  <1>6. CASE loc[t].op = "cancelPending"
    <2>1. P = <<"revoke", "release">>
      BY <1>6, StatusOps DEF Plan
    <2>2. i \in 1..1
      BY <1>1, <2>1
    <2>3. P[i] = "revoke" /\ P[i + 1] = "release"
      BY <2>1, <2>2
    <2> HIDE DEF P
    <2> QED
      BY <1>1, <1>2, <1>6, <2>3 DEF AdminUnderLock, Withdrawing, PlanSteps
  <1>7. CASE loc[t].op = "deliver"
    <2>1. P = <<"free", "freeSync", "finish">>
      BY <1>7, StatusOps DEF Plan
    <2>2. i \in 1..2
      BY <1>1, <2>1
    <2>3. \/ P[i] = "free" /\ P[i + 1] = "freeSync"
          \/ P[i] = "freeSync" /\ P[i + 1] = "finish"
      BY <2>1, <2>2
    <2> HIDE DEF P
    <2> QED
      BY <1>1, <1>2, <1>7, <2>3 DEF AdminUnderLock, Withdrawing, PlanSteps
  <1>8. CASE loc[t].op \in DOMAIN StatusCalls
    <2>1. P = <<"free", "freeSync", "end">>
      BY <1>8, StatusOps DEF Plan
    <2>2. i \in 1..2
      BY <1>1, <2>1
    <2>3. \/ P[i] = "free" /\ P[i + 1] = "freeSync"
          \/ P[i] = "freeSync" /\ P[i + 1] = "end"
      BY <2>1, <2>2
    <2> HIDE DEF P
    <2> QED
      BY <1>1, <1>2, <1>8, <2>3, StatusOps DEF AdminUnderLock, Withdrawing, PlanSteps
  <1>9. CASE loc[t].op \notin {"riderCancel", "reassign", "cancelAccepted", "cancelPending", "deliver"}
                                \cup DOMAIN StatusCalls
    <2>1. P = << >>
      BY <1>9, StatusOps DEF Plan
    <2> QED
      BY <1>1, <2>1
  <1> QED
    BY <1>3, <1>4, <1>5, <1>6, <1>7, <1>8, <1>9

(* A task that leaves: through `release' with its lock, else at once.      *)
LEMMA ReturnFits ==
  ASSUME OpsTypeOK, EachInItsPlace, NEW t \in Task, Return(t)
  PROVE  /\ pc' \in [Task -> OpsSteps] /\ loc' \in [Task -> OpsLocals]
         /\ InItsPlace(t)'
         /\ \A u \in Task \ {t} : pc'[u] = pc[u] /\ loc'[u] = loc[u]
         /\ \/ pc'[t] = "idle"
            \/ UnderLock(t) /\ loc' = loc
  <1> USE DEF OpsTypeOK, EachInItsPlace, InItsPlace
  <1>1. CASE UnderLock(t) /\ Goto(t, "release") /\ UNCHANGED loc
    BY <1>1 DEF UnderLock, HoldsLock, AdminUnderLock, Answering, Placing, Deciding, Withdrawing,
       OpsSteps, Steps
  <1>2. CASE ~UnderLock(t) /\ Done(t)
    <2>1. Blank \in OpsLocals
      BY DEF Blank, OpsLocals, OpsOps, Ops
    <2> QED
      BY <1>2, <2>1 DEF Blank, HoldsLock, AdminUnderLock, Answering, OpsSteps, Steps
  <1> QED
    BY <1>1, <1>2 DEF Return

-------------------------------------------------------------------------------
(* A step of one task, by what it does to the locks: nothing, ...          *)
LEMMA LocksStay ==
  ASSUME OpsInv, NEW t \in Task, OpsTypeOK', InItsPlace(t)', UNCHANGED lock,
         \A u \in Task \ {t} : pc'[u] = pc[u] /\ loc'[u] = loc[u],
         InsideLock(t)' => InsideLock(t) /\ loc'[t].offer = loc[t].offer
  PROVE  OpsInv'
  <1>1. EachInItsPlace'
    BY DEF OpsInv, EachInItsPlace, InItsPlace
  <1>2. InsideHolds'
    BY DEF OpsInv, InsideHolds, InsideLock, HoldsAdminLock
  <1> QED
    BY <1>1, <1>2 DEF OpsInv

(* ... it acquires one, ...                                                *)
LEMMA LockTaken ==
  ASSUME OpsInv, NEW t \in Task, OpsTypeOK', InItsPlace(t)', NEW o \in Offer,
         LockIsFree(o), lock' = Acquired(o, t), loc'[t].offer = o, ~InsideLock(t),
         \A u \in Task \ {t} : pc'[u] = pc[u] /\ loc'[u] = loc[u]
  PROVE  OpsInv'
  <1>1. EachInItsPlace'
    BY DEF OpsInv, EachInItsPlace, InItsPlace
  <1>2. lock'[o] = t /\ \A p \in Offer \ {o} : lock'[p] = lock[p]
    BY DEF OpsInv, OpsTypeOK, Acquired
  <1>3. InsideHolds'
    BY <1>2, LockWords DEF OpsInv, InsideHolds, InsideLock, HoldsAdminLock, LockIsFree
  <1> QED
    BY <1>1, <1>3 DEF OpsInv

(* ... or it releases its own.                                             *)
LEMMA LockReleased ==
  ASSUME OpsInv, NEW t \in Task, OpsTypeOK', InItsPlace(t)',
         lock' = Released(loc[t].offer, t), ~InsideLock(t)',
         \A u \in Task \ {t} : pc'[u] = pc[u] /\ loc'[u] = loc[u]
  PROVE  OpsInv'
  <1>1. EachInItsPlace'
    BY DEF OpsInv, EachInItsPlace, InItsPlace
  <1>2. \A p \in Offer : lock'[p] = lock[p] \/ lock[p] = t
    BY DEF OpsInv, OpsTypeOK, Released
  <1>3. InsideHolds'
    BY <1>2 DEF OpsInv, InsideHolds, InsideLock, HoldsAdminLock
  <1> QED
    BY <1>1, <1>3 DEF OpsInv

(* Writing the offers keeps their type.                                    *)
LEMMA SavedRows ==
  ASSUME NEW t \in Task, NEW s \in OfferStatus, OpsTypeOK
  PROVE  Saved(t, s) \in [Offer -> Row]
  <1>1. loc[t].snap \in Nat /\ offer \in [Offer -> Row]
    BY DEF OpsTypeOK, OpsLocals
  <1> QED
    BY <1>1 DEF Saved, Row

LEMMA NewOfferRow ==
  ASSUME NEW t \in Task, OpsTypeOK
  PROVE  NewOffer(loc[t].delivery, loc[t].rider) \in Row
  BY DEF NewOffer, Row, OpsTypeOK, OpsLocals, OfferStatus

-------------------------------------------------------------------------------
(* The entry points of both modules.                                       *)
LEMMA DispatchEntryKeeps ==
  ASSUME OpsInv, StartDispatch, UNCHANGED found PROVE OpsInv'
  <1> USE DEF OpsInv, OpsTypeOK
  <1>1. \A t \in Task, u \in Task : At(t, "idle") => ~InsideLock(t)
    BY DEF InsideLock, HoldsAdminLock
  <1>2. ASSUME NEW t \in Handler, NEW d \in Delivery, CreateDelivery(t, d) PROVE OpsInv'
    <2> USE <1>2 DEF CreateDelivery, Task
    <2>1. OpsTypeOK'
      BY DEF Blank, OpsLocals, OpsOps, Ops, OpsSteps, Steps
    <2>2. InItsPlace(t)' /\ ~InsideLock(t)'
      BY DEF InItsPlace, InsideLock, HoldsAdminLock, Blank, HoldsLock, AdminUnderLock, Answering
    <2> QED
      BY <2>1, <2>2, LocksStay
  <1>3. ASSUME NEW t \in Handler, NEW o \in Offer, NEW op \in {"accept", "reject"},
               Respond(t, o, op)
        PROVE  OpsInv'
    <2> USE <1>3 DEF Respond, Task
    <2>1. offer[o].delivery \in Delivery \cup {None}
      BY DEF Row
    <2>2. OpsTypeOK'
      BY <2>1 DEF Acquired, Blank, OpsLocals, OpsOps, Ops, OpsSteps, Steps
    <2>3. InItsPlace(t)' /\ loc'[t].offer = o
      BY DEF InItsPlace, Blank, HoldsLock, AdminUnderLock, Answering
    <2> QED
      BY <1>1, <2>2, <2>3, LockTaken
  <1>4. ASSUME NEW t \in Worker, NEW j \in jobs, TimeoutCheck(t, j) PROVE OpsInv'
    <2> USE <1>4 DEF TimeoutCheck, Task
    <2>1. j.offer \in Offer /\ j.attempt \in Nat /\ offer[j.offer].delivery \in Delivery \cup {None}
      BY DEF Row
    <2>2. OpsTypeOK'
      BY <2>1 DEF Acquired, Blank, OpsLocals, OpsOps, Ops, OpsSteps, Steps
    <2>3. InItsPlace(t)' /\ loc'[t].offer = j.offer
      BY <2>1 DEF InItsPlace, Blank, HoldsLock, AdminUnderLock, Answering
    <2> QED
      BY <1>1, <2>1, <2>2, <2>3, LockTaken
  <1>5. ASSUME NEW t \in Worker, NEW j \in jobs, SkipTimeoutCheck(t, j) PROVE OpsInv'
    BY <1>5 DEF SkipTimeoutCheck, EachInItsPlace, InItsPlace, InsideHolds, InsideLock, HoldsAdminLock
  <1> QED
    BY <1>2, <1>3, <1>4, <1>5 DEF StartDispatch, Work

(* How an operation may begin.                                             *)
Beginnings ==
  {<<"manual", "checkDelivery">>, <<"assign", "checkNewRider">>, <<"reassign", "findAccepted">>,
   <<"cancelPending", "acquire">>, <<"cancelAccepted", "acquire">>,
   <<"riderCancel", "findAccepted">>, <<"deliver", "findAccepted">>,
   <<"goAvailable", "free">>, <<"goBusy", "free">>, <<"goOffline", "free">>}

LEMMA BeginKeeps ==
  ASSUME OpsInv, NEW t \in Task, NEW l \in OpsLocals, NEW step, Begin(t, l, step),
         <<l.op, step>> \in Beginnings, step = "acquire" => l.offer \in Offer,
         UNCHANGED <<offer, lock, jobs, found>>
  PROVE  OpsInv'
  <1> USE DEF OpsInv, OpsTypeOK
  <1>1. step \in {"checkDelivery", "checkNewRider", "findAccepted", "acquire", "free"}
    BY DEF Beginnings
  <1>2. OpsTypeOK'
    BY <1>1 DEF OpsSteps, Steps, Operations
  <1>3. pc'[t] = step /\ loc'[t] = l
    OBVIOUS
  <1>4. InItsPlace(t)' /\ ~InsideLock(t)'
    BY <1>3 DEF Beginnings, InItsPlace, InsideLock, HoldsAdminLock, HoldsLock, AdminUnderLock,
                Answering, Deciding
  <1> QED
    BY <1>2, <1>4, LocksStay

LEMMA StartOperationKeeps ==
  ASSUME OpsInv, NEW t \in Handler, StartOperation(t) PROVE OpsInv'
  <1>1. t \in Task
    BY DEF Task
  <1>2. ASSUME NEW d \in Delivery, NEW r \in Rider, ManualOffer(t, d, r) PROVE OpsInv'
    <2> DEFINE l == [Blank EXCEPT !.op = "manual", !.delivery = d, !.rider = r]
    <2>1. l \in OpsLocals /\ l.op = "manual"
      BY DEF Blank, OpsLocals, OpsOps, Ops
    <2> QED
      BY <1>1, <1>2, <2>1, BeginKeeps DEF ManualOffer, Beginnings
  <1>3. ASSUME NEW d \in Delivery, NEW r \in Rider, AssignDelivery(t, d, r) PROVE OpsInv'
    <2> DEFINE l == [Blank EXCEPT !.op = "assign", !.delivery = d, !.rider = r]
    <2>1. l \in OpsLocals /\ l.op = "assign"
      BY DEF Blank, OpsLocals, OpsOps, Ops
    <2> QED
      BY <1>1, <1>3, <2>1, BeginKeeps DEF AssignDelivery, Beginnings
  <1>4. ASSUME NEW d \in Delivery, NEW r \in Rider, ReassignDelivery(t, d, r) PROVE OpsInv'
    <2> DEFINE l == [Blank EXCEPT !.op = "reassign", !.delivery = d, !.rider = r]
    <2>1. l \in OpsLocals /\ l.op = "reassign"
      BY DEF Blank, OpsLocals, OpsOps, Ops
    <2> QED
      BY <1>1, <1>4, <2>1, BeginKeeps DEF ReassignDelivery, Beginnings
  <1>5. ASSUME NEW d \in Delivery, NEW r \in Rider, CancelByRider(t, d, r) PROVE OpsInv'
    <2> DEFINE l == [Blank EXCEPT !.op = "riderCancel", !.delivery = d, !.rider = r]
    <2>1. l \in OpsLocals /\ l.op = "riderCancel"
      BY DEF Blank, OpsLocals, OpsOps, Ops
    <2> QED
      BY <1>1, <1>5, <2>1, BeginKeeps DEF CancelByRider, Beginnings
  <1>6. ASSUME NEW d \in Delivery, SetDelivered(t, d) PROVE OpsInv'
    <2> DEFINE l == [Blank EXCEPT !.op = "deliver", !.delivery = d]
    <2>1. l \in OpsLocals /\ l.op = "deliver"
      BY DEF Blank, OpsLocals, OpsOps, Ops
    <2> QED
      BY <1>1, <1>6, <2>1, BeginKeeps DEF SetDelivered, Beginnings
  <1>7. ASSUME NEW o \in Offer, CancelOffer(t, o) PROVE OpsInv'
    <2> DEFINE op == IF IsPending(o) THEN "cancelPending" ELSE "cancelAccepted"
               l == [Blank EXCEPT !.op = op, !.offer = o, !.delivery = offer[o].delivery,
                                  !.snap = offer[o].attemptCount]
    <2>1. offer[o].delivery \in Delivery \cup {None} /\ offer[o].attemptCount \in Nat
      BY DEF OpsInv, OpsTypeOK, Row
    <2>2. op \in {"cancelPending", "cancelAccepted"}
      OBVIOUS
    <2>3. l \in OpsLocals /\ l.op = op /\ l.offer = o
      BY <2>1, <2>2 DEF Blank, OpsLocals, OpsOps, Ops
    <2>4. <<l.op, "acquire">> \in Beginnings
      BY <2>2, <2>3 DEF Beginnings
    <2>5. Begin(t, l, "acquire") /\ UNCHANGED <<offer, lock, jobs, found>>
      BY <1>7 DEF CancelOffer
    <2> HIDE DEF l, op
    <2> QED
      BY <1>1, <2>3, <2>4, <2>5, BeginKeeps
  <1>8. ASSUME NEW r \in Rider, NEW op \in DOMAIN StatusCalls, UpdateRider(t, r, op) PROVE OpsInv'
    <2> DEFINE l == [Blank EXCEPT !.op = op, !.rider = r]
    <2>1. op \in {"goAvailable", "goBusy", "goOffline"}
      BY StatusOps
    <2>2. l \in OpsLocals /\ l.op = op
      BY <2>1 DEF Blank, OpsLocals, OpsOps, Ops
    <2>3. <<l.op, "free">> \in Beginnings
      BY <2>1, <2>2 DEF Beginnings
    <2>4. Begin(t, l, "free") /\ UNCHANGED <<offer, lock, jobs, found>>
      BY <1>8 DEF UpdateRider
    <2> HIDE DEF l
    <2> QED
      BY <1>1, <2>2, <2>3, <2>4, BeginKeeps
  <1> QED
    BY <1>2, <1>3, <1>4, <1>5, <1>6, <1>7, <1>8 DEF StartOperation

-------------------------------------------------------------------------------
(* The steps of the operations.                                            *)
LEMMA OperateKeeps ==
  ASSUME OpsInv, NEW t \in Handler, Operate(t) PROVE OpsInv'
  <1> USE DEF OpsInv, OpsTypeOK
  <1>1. t \in Task /\ InItsPlace(t) /\ (InsideLock(t) => loc[t].op \in HoldsLock \cup AdminUnderLock)
    BY DEF Task, EachInItsPlace, InsideLock, HoldsAdminLock
  <1>2. Blank \in OpsLocals
    BY DEF Blank, OpsLocals, OpsOps, Ops
  <1> USE <1>1
  (* The plans.                                                            *)
  <1>3. ASSUME At(t, "revoke") \/ At(t, "free") \/ At(t, "freeSync") \/ At(t, "reopen"),
               Advance(t), offer' \in [Offer -> Row], UNCHANGED <<lock, jobs, loc, found>>
        PROVE  OpsInv'
    <2>1. /\ pc' = [pc EXCEPT ![t] = pc'[t]]
          /\ pc'[t] \in Withdrawing \cup {"release", "nearby", "finish", "end"}
          /\ loc[t].op \in {"riderCancel", "deliver", "goAvailable", "goBusy", "goOffline"}
                             \cup AdminUnderLock
          /\ loc[t].op \in AdminUnderLock => pc'[t] \in Withdrawing \cup {"release"}
          /\ pc'[t] = "release" => loc[t].op \in AdminUnderLock
          /\ pc'[t] = "replace" => loc[t].op = "reassign"
      BY <1>3, AdvanceFits
    <2>2. OpsTypeOK'
      BY <1>3, <2>1 DEF Withdrawing, OpsSteps, Steps, Operations
    <2>3. InItsPlace(t)'
      BY <1>3, <2>1 DEF InItsPlace, HoldsLock, AdminUnderLock, Answering, Withdrawing
    <2>4. InsideLock(t)' => InsideLock(t)
      BY <1>3, <2>1 DEF InsideLock, HoldsAdminLock, HoldsLock, AdminUnderLock
    <2> QED
      BY <1>3, <2>1, <2>2, <2>3, <2>4, LocksStay
  <1>4. CASE Revoke(t)
    <2>1. offer' \in [Offer -> Row]
      BY <1>4, SavedRows DEF Revoke, OfferStatus
    <2> QED
      BY <1>3, <1>4, <2>1 DEF Revoke
  <1>5. CASE FreeRider(t) \/ FreeSync(t) \/ Reopen(t)
    BY <1>3, <1>5 DEF FreeRider, FreeSync, Reopen
  (* A task that is done, or goes on outside of a lock.                    *)
  <1>6. ASSUME Done(t), offer' \in [Offer -> Row], UNCHANGED <<lock, jobs>>,
               found' \in [Task -> SUBSET [offer : Offer, snap : Nat]]
        PROVE  OpsInv'
    <2>1. OpsTypeOK'
      BY <1>2, <1>6 DEF OpsSteps, Steps
    <2>2. InItsPlace(t)' /\ ~InsideLock(t)'
      BY <1>6 DEF InItsPlace, InsideLock, HoldsAdminLock, Blank, HoldsLock, AdminUnderLock, Answering
    <2> QED
      BY <1>6, <2>1, <2>2, LocksStay
  <1>7. CASE Finish(t) \/ End(t)
    BY <1>6, <1>7 DEF Finish, End
  <1>8. CASE FindAccepted(t)
    <2>1. ASSUME NEW o \in OfferSought(t),
                 Local(t, [loc[t] EXCEPT !.offer = o, !.snap = offer[o].attemptCount]),
                 Goto(t, AfterFound[loc[t].op])
          PROVE  OpsInv'
      <3>1. o \in Offer /\ offer[o].attemptCount \in Nat
        BY DEF OfferSought, AcceptedOffers, OffersOf, Row
      <3>2. loc[t].op \in {"reassign", "riderCancel", "deliver"}
        BY <1>8 DEF FindAccepted, InItsPlace
      <3>3. \/ loc[t].op = "reassign" /\ AfterFound[loc[t].op] = "checkNewRider"
            \/ loc[t].op = "riderCancel" /\ AfterFound[loc[t].op] = "revoke"
            \/ loc[t].op = "deliver" /\ AfterFound[loc[t].op] = "free"
        BY <3>2 DEF AfterFound
      <3>4. /\ loc'[t] \in OpsLocals /\ loc'[t].op = loc[t].op /\ loc'[t].offer = o
            /\ loc' = [loc EXCEPT ![t] = loc'[t]]
        BY <2>1, <3>1, ZenonT(40) DEF OpsLocals
      <3>5. pc'[t] = AfterFound[loc[t].op] /\ pc' = [pc EXCEPT ![t] = pc'[t]]
        BY <2>1
      <3>6. pc'[t] \in OpsSteps
        BY <3>3, <3>5 DEF OpsSteps, Operations
      <3>7. OpsTypeOK'
        <4>1. loc' \in [Task -> OpsLocals] /\ pc' \in [Task -> OpsSteps]
          BY <3>4, <3>5, <3>6
        <4>2. offer' = offer /\ UNCHANGED <<lock, jobs, found>>
          BY <1>8 DEF FindAccepted
        <4> QED
          BY <4>1, <4>2
      <3>8. InItsPlace(t)' /\ ~InsideLock(t)'
        BY <3>1, <3>3, <3>4, <3>5 DEF InItsPlace, InsideLock, HoldsAdminLock, HoldsLock,
           AdminUnderLock, Answering, Deciding
      <3> QED
        BY <1>8, <3>4, <3>5, <3>7, <3>8, LocksStay DEF FindAccepted
    <2>2. CASE loc[t].op = "deliver" /\ Goto(t, "finish") /\ UNCHANGED loc
      <3>1. OpsTypeOK'
        BY <1>8, <2>2 DEF FindAccepted, OpsSteps, Operations
      <3>2. InItsPlace(t)' /\ ~InsideLock(t)'
        BY <2>2 DEF InItsPlace, InsideLock, HoldsAdminLock, HoldsLock, AdminUnderLock, Answering
      <3> QED
        BY <1>8, <2>2, <3>1, <3>2, LocksStay DEF FindAccepted
    <2> QED
      BY <1>6, <1>8, <2>1, <2>2 DEF FindAccepted
  <1>9. CASE CheckNewRider(t)
    <2>1. ASSUME Goto(t, IF loc[t].op = "assign" THEN "findPending" ELSE "acquire"), UNCHANGED loc
          PROVE  OpsInv'
      <3>1. \/ loc[t].op = "assign" /\ pc' = [pc EXCEPT ![t] = "findPending"]
            \/ loc[t].op = "reassign" /\ pc' = [pc EXCEPT ![t] = "acquire"]
        BY <1>9, <2>1 DEF CheckNewRider, InItsPlace
      <3>2. OpsTypeOK'
        BY <1>9, <2>1, <3>1 DEF CheckNewRider, OpsSteps, Operations
      <3>3. InItsPlace(t)' /\ ~InsideLock(t)'
        BY <1>9, <2>1, <3>1 DEF CheckNewRider, InItsPlace, InsideLock, HoldsAdminLock, HoldsLock,
           AdminUnderLock, Answering, Deciding
      <3> QED
        BY <1>9, <2>1, <3>2, <3>3, LocksStay DEF CheckNewRider
    <2> QED
      BY <1>6, <1>9, <2>1 DEF CheckNewRider
  <1>10. CASE Acquire(t)
    <2>1. loc[t].op \in AdminUnderLock /\ loc[t].offer \in Offer /\ ~InsideLock(t)
      BY <1>10 DEF Acquire, InItsPlace, InsideLock, HoldsAdminLock, HoldsLock, AdminUnderLock
    <2>2. CASE LockIsFree(loc[t].offer) /\ Goto(t, "revoke") /\ UNCHANGED loc
      <3>1. lock' = Acquired(loc[t].offer, t)
        BY <1>10, <2>2 DEF Acquire, Acquired, LockIsFree
      <3>2. OpsTypeOK'
        BY <1>10, <2>1, <2>2, <3>1 DEF Acquire, Acquired, OpsSteps, Operations
      <3>3. InItsPlace(t)'
        BY <2>1, <2>2 DEF InItsPlace, HoldsLock, AdminUnderLock, Answering, Withdrawing
      <3> QED
        BY <1>10, <2>1, <2>2, <3>1, <3>2, <3>3, LockTaken DEF Acquire
    <2>3. CASE Done(t) /\ UNCHANGED lock
      BY <1>6, <1>10, <2>3 DEF Acquire
    <2> QED
      BY <1>10, <2>2, <2>3 DEF Acquire
  <1>11. CASE FindPending(t)
    <2>1. OpsTypeOK' /\ loc[t].op \notin AdminUnderLock \cup HoldsLock
      BY <1>11 DEF FindPending, AsRead, OffersOf, OpsSteps, Operations, InItsPlace, Deciding,
         Withdrawing, Answering, Placing, Row
    <2>2. InItsPlace(t)' /\ ~InsideLock(t)'
      BY <1>11, <2>1 DEF FindPending, InItsPlace, InsideLock, HoldsAdminLock, Answering
    <2> QED
      BY <1>11, <2>1, <2>2, LocksStay DEF FindPending
  <1>12. CASE CancelPending(t)
    <2>1. loc[t].op \notin AdminUnderLock \cup HoldsLock
      BY <1>12 DEF CancelPending, InItsPlace, Deciding, Withdrawing, Answering, Placing
    <2>2. ASSUME NEW f \in found[t],
                 offer' = [offer EXCEPT ![f.offer] =
                   [@ EXCEPT !.status = "CANCELLED_BY_ADMIN", !.attemptCount = f.snap]],
                 found' = [found EXCEPT ![t] = @ \ {f}], UNCHANGED pc
          PROVE  OpsInv'
      <3>1. f.offer \in Offer /\ f.snap \in Nat /\ offer[f.offer] \in Row
        OBVIOUS
      <3>2. offer' \in [Offer -> Row]
        BY <2>2, <3>1 DEF Row, OfferStatus
      <3>3. OpsTypeOK' /\ InItsPlace(t)' /\ UNCHANGED <<lock, loc>>
        BY <1>12, <2>2, <3>2 DEF CancelPending, InItsPlace
      <3> QED
        BY <2>2, <3>3, LocksStay DEF InsideLock, HoldsAdminLock
    <2>3. CASE Goto(t, "replace") /\ UNCHANGED <<offer, found>>
      <3>1. OpsTypeOK'
        BY <1>12, <2>3 DEF CancelPending, OpsSteps, Operations
      <3>2. InItsPlace(t)' /\ ~InsideLock(t)'
        BY <1>12, <2>1, <2>3 DEF CancelPending, InItsPlace, InsideLock, HoldsAdminLock, Answering
      <3> QED
        BY <1>12, <2>3, <3>1, <3>2, LocksStay DEF CancelPending
    <2> QED
      BY <1>12, <2>2, <2>3 DEF CancelPending
  <1>13. CASE Replace(t)
    <2>1. offer' \in [Offer -> Row]
      BY <1>13, NewOfferRow DEF Replace
    <2>2. CASE loc[t].op = "reassign" /\ Goto(t, "release") /\ UNCHANGED loc
      <3>1. OpsTypeOK'
        BY <1>13, <2>1, <2>2 DEF Replace, OpsSteps, Steps
      <3>2. InItsPlace(t)'
        BY <1>13, <2>2 DEF Replace, InItsPlace, HoldsLock, AdminUnderLock, Answering, Deciding
      <3>3. InsideLock(t)
        BY <1>13, <2>2 DEF Replace, InsideLock, HoldsAdminLock, AdminUnderLock
      <3> QED
        BY <1>13, <2>2, <3>1, <3>2, <3>3, LocksStay DEF Replace
    <2>3. CASE Done(t)
      BY <1>6, <1>13, <2>1, <2>3 DEF Replace
    <2> QED
      BY <1>13, <2>2, <2>3 DEF Replace
  <1>14. CASE FailOperation(t)
    <2>1. found' \in [Task -> SUBSET [offer : Offer, snap : Nat]]
      BY <1>14 DEF FailOperation
    <2>2. CASE HoldsAdminLock(t) /\ Goto(t, "release") /\ UNCHANGED loc
      <3>1. OpsTypeOK'
        BY <1>14, <2>1, <2>2 DEF FailOperation, OpsSteps, Steps
      <3>2. InItsPlace(t)'
        BY <2>2 DEF HoldsAdminLock, InItsPlace, HoldsLock, AdminUnderLock, Answering, Deciding
      <3>3. InsideLock(t)
        BY <2>2 DEF InsideLock
      <3> QED
        BY <1>14, <2>2, <3>1, <3>2, <3>3, LocksStay DEF FailOperation
    <2>3. CASE Done(t)
      BY <1>6, <1>14, <2>1, <2>3 DEF FailOperation
    <2> QED
      BY <1>14, <2>2, <2>3 DEF FailOperation
  <1> QED
    BY <1>4, <1>5, <1>7, <1>8, <1>9, <1>10, <1>11, <1>12, <1>13, <1>14 DEF Operate

-------------------------------------------------------------------------------
(* The steps of OfferDispatch.                                             *)

(* Leaving an operation.                                                   *)
LEMMA ReturnKeepsOps ==
  ASSUME OpsInv, NEW t \in Task, Return(t), pc[t] # "idle", UNCHANGED <<lock, found>>,
         offer' \in [Offer -> Row], jobs' \subseteq [offer : Offer, attempt : Nat]
  PROVE  OpsInv'
  <1>1. /\ pc' \in [Task -> OpsSteps] /\ loc' \in [Task -> OpsLocals]
        /\ InItsPlace(t)'
        /\ \A u \in Task \ {t} : pc'[u] = pc[u] /\ loc'[u] = loc[u]
        /\ \/ pc'[t] = "idle"
           \/ UnderLock(t) /\ loc' = loc
    BY ReturnFits DEF OpsInv
  <1>2. OpsTypeOK'
    BY <1>1 DEF OpsInv, OpsTypeOK
  <1>3. InsideLock(t)' => InsideLock(t) /\ loc'[t].offer = loc[t].offer
    BY <1>1 DEF InsideLock, HoldsAdminLock, UnderLock, InItsPlace, Blank, HoldsLock, AdminUnderLock
  <1> QED
    BY <1>1, <1>2, <1>3, LocksStay

(* Going on under the same lock, or outside of any.                        *)
LEMMA GoesOnKeeps ==
  ASSUME OpsInv, NEW t \in Task, NEW l \in OpsLocals, NEW step \in OpsSteps \ {"idle"},
         pc' = [pc EXCEPT ![t] = step], loc' = [loc EXCEPT ![t] = l],
         l.op = loc[t].op, l.offer = loc[t].offer, loc[t].op \notin AdminUnderLock,
         \/ pc[t] \in Answering \ {"landing"} /\ step \in Answering \cup {"exclude", "release"}
         \/ pc[t] \in Placing /\ step \in Placing,
         step \in {"schedule", "count", "reschedule"} => l.fresh \in Offer,
         UNCHANGED <<lock, found>>,
         offer' \in [Offer -> Row], jobs' \subseteq [offer : Offer, attempt : Nat]
  PROVE  OpsInv'
  <1> USE DEF OpsInv, OpsTypeOK
  <1>1. OpsTypeOK'
    OBVIOUS
  <1>2. pc'[t] = step /\ loc'[t] = l /\ InItsPlace(t)
    BY DEF EachInItsPlace
  <1>3. InItsPlace(t)'
    BY <1>2 DEF InItsPlace, HoldsLock, AdminUnderLock, Answering, Placing
  <1>4. InsideLock(t)' => InsideLock(t)
    BY <1>2 DEF InsideLock, HoldsAdminLock, Answering, Placing, InItsPlace
  <1> QED
    BY <1>1, <1>2, <1>3, <1>4, LocksStay

LEMMA AnswerKeeps ==
  ASSUME OpsInv, NEW t \in Task, Answer(t), UNCHANGED found PROVE OpsInv'
  <1> USE DEF OpsInv, OpsTypeOK
  <1>1. /\ InItsPlace(t) /\ loc[t] \in OpsLocals
        /\ loc' = loc => loc' = [loc EXCEPT ![t] = loc[t]]
    BY DEF EachInItsPlace
  <1>2. pc[t] \in Answering => loc[t].op \in HoldsLock /\ loc[t].op \notin AdminUnderLock
                                /\ loc[t].offer \in Offer
    BY <1>1 DEF InItsPlace, HoldsLock, AdminUnderLock
  <1>3. Answering \cup {"exclude", "release"} \subseteq OpsSteps \ {"idle"}
    BY DEF Answering, OpsSteps, Steps
  <1>4. CASE ReadOffer(t)
    <2> DEFINE l == [loc[t] EXCEPT !.snap = offer[loc[t].offer].attemptCount]
    <2>1. At(t, "read") /\ pc[t] \in Answering
      BY <1>4 DEF ReadOffer, Answering
    <2>2. AfterRead(t) \in {"release", "expire", "assign", "reject"}
      BY DEF AfterRead
    <2>3. l \in OpsLocals /\ l.op = loc[t].op /\ l.offer = loc[t].offer
      BY <1>1, <1>2, <2>1 DEF OpsLocals, Row
    <2>4. /\ loc' = [loc EXCEPT ![t] = l] /\ pc' = [pc EXCEPT ![t] = AfterRead(t)]
          /\ UNCHANGED <<offer, lock, jobs>>
      BY <1>4 DEF ReadOffer
    <2> HIDE DEF l
    <2> QED
      BY <1>2, <1>3, <2>1, <2>2, <2>3, <2>4, GoesOnKeeps DEF Answering
  <1>5. ASSUME NEW s \in {"EXPIRED", "REJECTED"}, NEW n \in Nat, offer' = Saved(t, s),
               pc[t] \in {"expire", "reject"}, RedispatchOrReturn(t, n) \/ Return(t),
               UNCHANGED <<lock, jobs>>
        PROVE  OpsInv'
    <2>1. offer' \in [Offer -> Row]
      BY <1>5, SavedRows DEF OfferStatus
    <2>2. CASE Return(t)
      BY <1>5, <2>1, <2>2, ReturnKeepsOps
    <2>3. CASE Goto(t, "exclude") /\ Local(t, [loc[t] EXCEPT !.attempt = n])
      <3> DEFINE l == [loc[t] EXCEPT !.attempt = n]
      <3>1. l \in OpsLocals /\ l.op = loc[t].op /\ l.offer = loc[t].offer
        BY <1>1 DEF OpsLocals
      <3>2. pc[t] \in Answering \ {"landing"}
        BY <1>5 DEF Answering
      <3>3. loc' = [loc EXCEPT ![t] = l] /\ pc' = [pc EXCEPT ![t] = "exclude"]
        BY <2>3
      <3> HIDE DEF l
      <3> QED
        BY <1>2, <1>3, <1>5, <2>1, <3>1, <3>2, <3>3, GoesOnKeeps
    <2> QED
      BY <1>5, <2>2, <2>3 DEF RedispatchOrReturn
  <1>6. CASE Expire(t)
    <2>1. loc[t].attempt \in Nat
      BY <1>1 DEF OpsLocals
    <2> QED
      BY <1>5, <1>6, <2>1 DEF Expire
  <1>7. CASE SaveRejected(t)
    <2>1. loc[t].snap \in Nat
      BY <1>1 DEF OpsLocals
    <2> QED
      BY <1>5, <1>7, <2>1 DEF SaveRejected
  <1>8. CASE SetAssigned(t) \/ SetBusy(t) \/ SyncBusy(t)
    <2>1. /\ pc[t] \in Answering \ {"landing"} /\ UNCHANGED <<offer, lock, jobs, loc>>
          /\ \E step \in {"busy", "sync", "accept"} : pc' = [pc EXCEPT ![t] = step]
      BY <1>8 DEF SetAssigned, SetBusy, SyncBusy, Answering
    <2> QED
      BY <1>1, <1>2, <1>3, <2>1, GoesOnKeeps DEF Answering
  <1>9. CASE SaveAccepted(t)
    <2>1. offer' \in [Offer -> Row]
      BY <1>9, SavedRows DEF SaveAccepted, OfferStatus
    <2> QED
      BY <1>9, <2>1, ReturnKeepsOps DEF SaveAccepted
  <1>10. CASE ReleaseBeforeSave(t)
    <2>1. pc[t] \in Answering /\ pc'[t] = "landing" /\ loc' = loc
      BY <1>10 DEF ReleaseBeforeSave, Answering
    <2>2. OpsTypeOK'
      BY <1>10 DEF ReleaseBeforeSave, Released, OpsSteps, Steps
    <2>3. InItsPlace(t)' /\ ~InsideLock(t)'
      BY <1>2, <2>1 DEF InItsPlace, InsideLock, HoldsAdminLock, HoldsLock, AdminUnderLock, Answering
    <2> QED
      BY <1>10, <2>1, <2>2, <2>3, LockReleased DEF ReleaseBeforeSave
  <1>11. CASE Release(t)
    <2>1. OpsTypeOK'
      BY <1>11 DEF Release, Released, Blank, OpsLocals, OpsOps, Ops, OpsSteps, Steps
    <2>2. InItsPlace(t)' /\ ~InsideLock(t)'
      BY <1>11 DEF Release, InItsPlace, InsideLock, HoldsAdminLock, Blank, HoldsLock, AdminUnderLock,
         Answering
    <2> QED
      BY <1>11, <2>1, <2>2, LockReleased DEF Release
  <1> QED
    BY <1>4, <1>6, <1>7, <1>8, <1>9, <1>10, <1>11 DEF Answer

LEMMA DispatchKeeps ==
  ASSUME OpsInv, NEW t \in Task, Dispatch(t), UNCHANGED found PROVE OpsInv'
  <1> USE DEF OpsInv, OpsTypeOK
  <1>1. /\ InItsPlace(t) /\ loc[t] \in OpsLocals
        /\ loc' = loc => loc' = [loc EXCEPT ![t] = loc[t]]
    BY DEF EachInItsPlace
  <1>2. pc[t] \in Placing => loc[t].op \notin AdminUnderLock
    BY <1>1 DEF InItsPlace, Placing, Deciding, Withdrawing
  <1>3. Placing \subseteq OpsSteps \ {"idle"}
    BY DEF Placing, OpsSteps, Steps
  <1>4. \A x \in OpsLocals :
          /\ x.delivery \in Delivery \cup {None} /\ x.rider \in Rider \cup {None}
          /\ x.attempt \in Nat /\ x.fresh \in Offer \cup {None}
    BY DEF OpsLocals
  <1>5. CASE ExcludePrevious(t)
    <2> DEFINE l == [loc[t] EXCEPT !.exclude = PreviousRiders(loc[t].delivery)]
    <2>1. l \in OpsLocals /\ l.op = loc[t].op /\ l.offer = loc[t].offer
      <3>1. PreviousRiders(loc[t].delivery) \subseteq Rider \cup {None}
        BY DEF PreviousRiders, OffersOf, Row
      <3> QED
        BY <1>1, <3>1 DEF OpsLocals
    <2>2. pc[t] \in Placing
      BY <1>5 DEF ExcludePrevious, Placing
    <2>3. /\ loc' = [loc EXCEPT ![t] = l] /\ pc' = [pc EXCEPT ![t] = "nearby"]
          /\ UNCHANGED <<offer, lock, jobs>>
      BY <1>5 DEF ExcludePrevious
    <2> HIDE DEF l
    <2> QED
      BY <1>2, <1>3, <2>1, <2>2, <2>3, GoesOnKeeps DEF Placing
  <1>6. CASE PickRider(t)
    <2>1. PICK r \in Rider : loc' = [loc EXCEPT ![t] = [loc[t] EXCEPT !.rider = r]]
      BY <1>6 DEF PickRider, NearbyAvailable
    <2> DEFINE l == [loc[t] EXCEPT !.rider = r]
    <2>2. l \in OpsLocals /\ l.op = loc[t].op /\ l.offer = loc[t].offer
      BY <1>1 DEF OpsLocals
    <2>3. pc[t] \in Placing
      BY <1>6 DEF PickRider, Placing
    <2>4. /\ loc' = [loc EXCEPT ![t] = l] /\ pc' = [pc EXCEPT ![t] = "checkDelivery"]
          /\ UNCHANGED <<offer, lock, jobs>>
      BY <1>6, <2>1 DEF PickRider
    <2> HIDE DEF l
    <2> QED
      BY <1>2, <1>3, <2>2, <2>3, <2>4, GoesOnKeeps DEF Placing
  <1>7. CASE NoRider(t)
    BY <1>7, ReturnKeepsOps DEF NoRider
  <1>8. ASSUME NEW step \in {"checkDelivery", "checkRider", "checkPending"}, NEW ok,
               NEW next \in {"checkRider", "checkPending", "insert"}, Check(t, step, ok, next)
        PROVE  OpsInv'
    <2>1. CASE Return(t)
      BY <1>8, <2>1, ReturnKeepsOps DEF Check
    <2>2. CASE Goto(t, next) /\ UNCHANGED loc
      BY <1>1, <1>2, <1>3, <1>8, <2>2, GoesOnKeeps, ZenonT(40) DEF Check, Placing
    <2> QED
      BY <1>8, <2>1, <2>2 DEF Check
  <1>9. CASE CheckDelivery(t) \/ CheckRider(t) \/ CheckPending(t)
    BY <1>8, <1>9 DEF CheckDelivery, CheckRider, CheckPending
  <1>10. CASE InsertOffer(t)
    <2>1. PICK o \in Offer :
            /\ offer' = [offer EXCEPT ![o] = NewOffer(loc[t].delivery, loc[t].rider)]
            /\ loc' = [loc EXCEPT ![t] = [loc[t] EXCEPT !.fresh = o]]
      BY <1>10 DEF InsertOffer
    <2> DEFINE l == [loc[t] EXCEPT !.fresh = o]
    <2>2. l \in OpsLocals /\ l.op = loc[t].op /\ l.offer = loc[t].offer /\ l.fresh = o
      BY <1>1 DEF OpsLocals
    <2>3. pc[t] \in Placing /\ offer' \in [Offer -> Row]
      BY <1>10, <2>1, NewOfferRow DEF InsertOffer, Placing
    <2>4. /\ loc' = [loc EXCEPT ![t] = l] /\ pc' = [pc EXCEPT ![t] = "schedule"]
          /\ UNCHANGED <<lock, jobs>>
      BY <1>10, <2>1 DEF InsertOffer
    <2> HIDE DEF l
    <2> QED
      BY <1>2, <1>3, <2>2, <2>3, <2>4, GoesOnKeeps DEF Placing
  <1>11. pc[t] \in {"schedule", "count", "reschedule"} => loc[t].fresh \in Offer
    BY <1>1 DEF InItsPlace
  <1>12. ASSUME NEW n \in Nat, Enqueue(Job(loc[t].fresh, n)), loc[t].fresh \in Offer
         PROVE  jobs' \subseteq [offer : Offer, attempt : Nat]
    BY <1>12 DEF Enqueue, Job
  <1>13. CASE Schedule(t)
    <2>1. jobs' \subseteq [offer : Offer, attempt : Nat]
      BY <1>11, <1>12, <1>13 DEF Schedule
    <2>2. CASE Return(t)
      BY <1>13, <2>1, <2>2, ReturnKeepsOps DEF Schedule
    <2>3. CASE Goto(t, "count") /\ UNCHANGED loc
      BY <1>1, <1>2, <1>3, <1>11, <1>13, <2>1, <2>3, GoesOnKeeps DEF Schedule, Placing
    <2> QED
      BY <1>13, <2>2, <2>3 DEF Schedule
  <1>14. CASE CountAttempt(t)
    <2>1. loc[t].fresh \in Offer /\ loc[t].attempt + 1 \in Nat
      BY <1>1, <1>4, <1>11, <1>14 DEF CountAttempt
    <2>2. offer' \in [Offer -> Row]
      BY <1>14, <2>1 DEF CountAttempt, Row
    <2> QED
      BY <1>1, <1>2, <1>3, <1>14, <2>1, <2>2, GoesOnKeeps DEF CountAttempt, Placing
  <1>15. CASE Reschedule(t)
    <2>1. loc[t].attempt + 1 \in Nat
      BY <1>1, <1>4
    <2>2. jobs' \subseteq [offer : Offer, attempt : Nat]
      BY <1>11, <1>12, <1>15, <2>1 DEF Reschedule
    <2> QED
      BY <1>15, <2>2, ReturnKeepsOps DEF Reschedule
  <1> QED
    BY <1>5, <1>6, <1>7, <1>9, <1>10, <1>13, <1>14, <1>15 DEF Dispatch

-------------------------------------------------------------------------------
(* Who dies is not inside any more; nobody else loses a lock.              *)
LEMMA CrashKeepsOps ==
  ASSUME OpsInv, NEW t \in Task, CrashOperation(t) PROVE OpsInv'
  <1>1. /\ pc' = [pc EXCEPT ![t] = "idle"] /\ loc' = [loc EXCEPT ![t] = Blank]
        /\ pc'[t] = "idle" /\ loc'[t] = Blank /\ UNCHANGED rows
        /\ \A u \in Task \ {t} : pc'[u] = pc[u] /\ loc'[u] = loc[u]
    BY DEF CrashOperation, Crash, Done, Goto, Local, OpsInv, OpsTypeOK
  <1>2. Blank \in OpsLocals /\ "idle" \in OpsSteps
    BY DEF Blank, OpsLocals, OpsOps, Ops, OpsSteps, Steps
  <1>3. \A o \in Offer : lock'[o] = IF lock[o] = t THEN "orphan" ELSE lock[o]
    BY DEF CrashOperation, Crash
  <1>4. lock' \in [Offer -> Task \cup {"free", "orphan"}]
    BY DEF CrashOperation, Crash, OpsInv, OpsTypeOK
  <1>5. jobs' \subseteq [offer : Offer, attempt : Nat]
    <2>1. loc[t].op = "timeout" => loc[t].offer \in Offer /\ loc[t].attempt \in Nat
      BY DEF OpsInv, EachInItsPlace, InItsPlace, HoldsLock, OpsTypeOK, OpsLocals
    <2> QED
      BY <2>1 DEF CrashOperation, Crash, Job, OpsInv, OpsTypeOK
  <1>6. found' \in [Task -> SUBSET [offer : Offer, snap : Nat]]
    BY DEF CrashOperation, OpsInv, OpsTypeOK
  <1>7. OpsTypeOK'
    BY <1>1, <1>2, <1>4, <1>5, <1>6 DEF rows, OpsInv, OpsTypeOK
  <1>8. EachInItsPlace'
    <2>1. InItsPlace(t)'
      BY <1>1 DEF InItsPlace, Blank, HoldsLock, AdminUnderLock, Answering
    <2>2. ASSUME NEW u \in Task \ {t} PROVE InItsPlace(u)'
      BY <1>1 DEF OpsInv, EachInItsPlace, InItsPlace
    <2> QED
      BY <2>1, <2>2 DEF EachInItsPlace
  <1>9. InsideHolds'
    <2>1. ~InsideLock(t)'
      BY <1>1 DEF InsideLock, HoldsAdminLock, Blank, HoldsLock, AdminUnderLock
    <2>2. ASSUME NEW u \in Task \ {t}, InsideLock(u)'
          PROVE  loc'[u].offer \in Offer /\ lock'[loc'[u].offer] = u
      BY <1>1, <1>3, <2>2 DEF InsideLock, HoldsAdminLock, OpsInv, InsideHolds
    <2> QED
      BY <2>1, <2>2 DEF InsideHolds
  <1> QED
    BY <1>7, <1>8, <1>9 DEF OpsInv

(* And a lock that runs out was left by the dead.                          *)
LEMMA ExpiryKeepsOps ==
  ASSUME ~SlowHandlers, OpsInv, NEW o \in Offer, LockExpires(o), UNCHANGED found PROVE OpsInv'
  BY LockWords DEF LockExpires, rows, OpsInv, OpsTypeOK, EachInItsPlace, InItsPlace, InsideHolds,
     InsideLock, HoldsAdminLock

LEMMA OpsStepKeeps ==
  ASSUME ~SlowHandlers, OpsInv, [OpsNext]_opsVars PROVE OpsInv'
  <1>1. CASE DispatchStep
    <2>1. ASSUME NEW t \in Task, pc[t] \notin Operations, Fail(t), UNCHANGED found PROVE OpsInv'
      BY <2>1, ReturnKeepsOps DEF Fail, CannotFail, OpsInv, OpsTypeOK
    <2>2. ASSUME NEW o \in Offer, Deadline(o), UNCHANGED found PROVE OpsInv'
      BY <2>2 DEF Deadline, OpsInv, OpsTypeOK, EachInItsPlace, InItsPlace, InsideHolds, InsideLock,
         HoldsAdminLock
    <2> QED
      BY <1>1, <2>1, <2>2, DispatchEntryKeeps, AnswerKeeps, DispatchKeeps, ExpiryKeepsOps
         DEF DispatchStep, Step
  <1>2. ASSUME NEW d \in Delivery, NEW op, UpdateDelivery(d, op) PROVE OpsInv'
    BY <1>2 DEF UpdateDelivery, OpsInv, OpsTypeOK, EachInItsPlace, InItsPlace, InsideHolds, InsideLock,
       HoldsAdminLock
  <1>3. CASE UNCHANGED opsVars
    BY <1>3 DEF opsVars, vars, OpsInv, OpsTypeOK, EachInItsPlace, InItsPlace, InsideHolds, InsideLock,
       HoldsAdminLock
  <1> QED
    BY <1>1, <1>2, <1>3, StartOperationKeeps, OperateKeeps, CrashKeepsOps DEF OpsNext

LEMMA OpsInitKeeps == OpsInit => OpsInv
  BY DEF OpsInit, Init, OpsInv, OpsTypeOK, EachInItsPlace, InItsPlace, InsideHolds, InsideLock,
     HoldsAdminLock, Blank, NoOffer, Row, OfferStatus, OpsLocals, OpsOps, Ops, OpsSteps, Steps,
     HoldsLock, AdminUnderLock, Answering

(* Whichever requests, workers and operations run beside each other,       *)
(* whichever calls fail and whoever dies: who answers or withdraws an      *)
(* offer has its lock, as long as nobody outlives the TTL of his own.      *)
LEMMA InsideHoldsAlways ==
  ASSUME ~SlowHandlers PROVE OpsSpec => []InsideHolds
  <1>1. OpsInv => InsideHolds
    BY DEF OpsInv
  <1>2. OpsInv /\ [OpsNext]_opsVars => OpsInv'
    BY OpsStepKeeps
  <1> QED
    BY <1>1, <1>2, OpsInitKeeps, PTL DEF OpsSpec

(* So nobody else answers or withdraws it at the same time: a lock that    *)
(* the dead left runs out, and whoever takes it then is alone. (What       *)
(* happens when a living holder outlives his TTL is RedisLock's subject.)  *)
THEOREM OneInsideLockAlways ==
  ASSUME ~SlowHandlers PROVE OpsSpec => []OneInsideLock
  <1>1. InsideHolds => OneInsideLock
    BY DEF InsideHolds, OneInsideLock
  <1> QED
    BY <1>1, InsideHoldsAlways, PTL
-------------------------------------------------------------------------------
(* One operation after another (Serial): what the tables look like between *)
(* two operations, and how far the one that runs has departed from it.     *)

Setters == {"goAvailable", "goBusy", "goOffline"}
Takers == {"riderCancel", "reassign", "cancelAccepted"}  \* they take an accepted offer back

NoLive(d) == \A o \in Offer : offer[o].delivery = d => ~IsLive(o)

OneAtATime == \A t, u \in Task : ~At(t, "idle") /\ ~At(u, "idle") => t = u

TablesRefer ==
  /\ delivery \in [Delivery -> DeliveryStatus] /\ faults \in Nat
  /\ rider \in [Rider -> RiderStatus] /\ redis \in [Rider -> RiderStatus]
  /\ \A o \in Offer : Exists(o) =>
       /\ offer[o].delivery \in Delivery /\ offer[o].rider \in Rider
       /\ delivery[offer[o].delivery] # "NONE"
  /\ \A j \in jobs : Exists(j.offer)

(* A delivery that is PENDING, and so may be offered, is nobody's.         *)
PendingIsFree ==
  \A o \in Offer : offer[o].status = "ACCEPTED" => delivery[offer[o].delivery] # "PENDING"

(* What a task refers to.                                                  *)
Referring(t) ==
  /\ loc[t].offer # None =>
       Exists(loc[t].offer) /\ offer[loc[t].offer].delivery = loc[t].delivery
  /\ pc[t] \in {"revoke", "reopen"} => loc[t].offer # None
  /\ pc[t] \in {"free", "freeSync"} => loc[t].offer # None \/ loc[t].op \in Setters
  /\ \/ loc[t].op \notin Setters \cup {"none"}
     \/ pc[t] \in {"exclude", "nearby", "checkDelivery", "checkRider", "checkPending", "insert",
                 "schedule", "count"}
     => loc[t].delivery \in Delivery
  /\ \/ loc[t].op \in Setters \cup {"manual", "assign", "reassign", "riderCancel"}
     \/ pc[t] \in {"checkDelivery", "checkRider", "checkPending", "insert"}
     => loc[t].rider \in Rider
  /\ pc[t] \in {"schedule", "count", "reschedule"} => Exists(loc[t].fresh)

(* Its offer is as it read it; the accepted one it took back is closed.    *)
OfferAsRead(t) ==
  /\ \/ pc[t] \in {"expire", "assign", "busy", "sync", "accept", "landing", "reject"}
     \/ loc[t].op = "cancelPending" /\ pc[t] \in {"acquire", "revoke"}
     => IsPending(loc[t].offer)
  /\ \/ loc[t].op \in Takers /\ pc[t] \in {"checkNewRider", "acquire", "revoke"}
     \/ loc[t].op = "deliver" /\ pc[t] \in {"free", "freeSync"}
     => offer[loc[t].offer].status = "ACCEPTED"
  /\ loc[t].op \in Takers /\ pc[t] \in {"free", "freeSync", "reopen"} => ~IsLive(loc[t].offer)

(* And so is its delivery; nobody has it when it is to be offered.         *)
DeliveryAsRead(t) ==
  /\ \/ pc[t] \in {"busy", "sync", "accept", "landing"}
     \/ loc[t].op = "riderCancel" /\ pc[t] \in {"findAccepted", "revoke"}
     => delivery[loc[t].delivery] = "ASSIGNED"
  /\ loc[t].op = "assign" \/ pc[t] \in {"checkRider", "checkPending", "insert", "replace"}
     => delivery[loc[t].delivery] = "PENDING"
  /\ \/ pc[t] \in {"reopen", "insert", "replace"}
     \/ loc[t].op \in {"riderCancel", "reassign"} /\ pc[t] \in {"free", "freeSync"}
     => NoLive(loc[t].delivery)
  /\ pc[t] = "cancelPending" =>
       found[t] = {AsRead(o) : o \in {p \in OffersOf(loc[t].delivery) : IsPending(p)}}

Underway(t) == Referring(t) /\ OfferAsRead(t) /\ DeliveryAsRead(t)

SerialInv ==
  /\ OpsInv /\ OneAtATime /\ TablesRefer /\ PendingIsFree /\ OneLiveOffer
  /\ \A t \in Task : Underway(t)

(* Without failed calls an operation leaves everything as it should be.    *)
BetweenWrites(t) ==
  \/ pc[t] \in {"busy", "sync", "accept", "landing"}
  \/ loc[t].op \in {"riderCancel", "reassign"} /\ pc[t] \in {"free", "freeSync", "reopen"}
  \/ loc[t].op = "cancelAccepted" /\ pc[t] = "reopen"

Owned(d) ==
  delivery[d] = "ASSIGNED" =>
    \/ AcceptedOffers(d) # {}
    \/ \E t \in Task : BetweenWrites(t) /\ loc[t].delivery = d

Delivering(t, o) ==
  loc[t].op = "deliver" /\ pc[t] \in {"freeSync", "finish"} /\ loc[t].offer = o
HasDelivery(r, o) ==
  offer[o].rider = r /\ offer[o].status = "ACCEPTED" /\ delivery[offer[o].delivery] = "ASSIGNED"

Occupied(o) ==
  \A r \in Rider \ excused : HasDelivery(r, o) =>
    \/ rider[r] = "BUSY" /\ redis[r] = "BUSY"
    \/ \E t \in Task : Delivering(t, o)

(* An acceptance under way has set its rider BUSY; whoever is freed has no *)
(* other delivery, or is excused.                                          *)
OthersExcused(t) ==
  \A o \in Offer : o # loc[t].offer /\ HasDelivery(Freed(t), o) => Freed(t) \in excused

RiderAsSet(t) ==
  /\ pc[t] \in {"sync", "accept", "landing"} => rider[offer[loc[t].offer].rider] = "BUSY"
  /\ pc[t] \in {"accept", "landing"} => redis[offer[loc[t].offer].rider] = "BUSY"
  /\ pc[t] \in {"free", "freeSync", "reopen"} => OthersExcused(t)

Backed ==
  /\ \A d \in Delivery : Owned(d)
  /\ \A o \in Offer : Occupied(o)
  /\ \A t \in Task : RiderAsSet(t)

BackedInv ==
  /\ Overbooked \cup SetAside \subseteq excused
  /\ faults = 0 => Backed

-------------------------------------------------------------------------------
LEMMA SetterNames == DOMAIN StatusCalls = Setters
  BY DEF StatusCalls, Setters

(* Only one task runs: its step keeps the invariant when it leaves the     *)
(* tables and itself in order.                                             *)
Alone(t) == \A u \in Task \ {t} : pc[u] = "idle" /\ pc'[u] = pc[u] /\ loc'[u] = loc[u]

LEMMA StepsAlone ==
  ASSUME SerialInv, OpsInv', NEW t \in Task, Alone(t),
         TablesRefer', PendingIsFree', OneLiveOffer', Underway(t)'
  PROVE  SerialInv'
  <1>1. OneAtATime'
    BY DEF Alone, OneAtATime
  <1>2. ASSUME NEW u \in Task, u # t PROVE Underway(u)'
    <2>1. pc'[u] = "idle" /\ loc'[u] = Blank
      BY <1>2 DEF Alone, SerialInv, OpsInv, EachInItsPlace, InItsPlace
    <2> QED
      BY <2>1 DEF Underway, Referring, OfferAsRead, DeliveryAsRead, Blank, Setters, Takers
  <1> QED
    BY <1>1, <1>2 DEF SerialInv

(* It runs alone because nobody else had begun, or because it had.         *)
LEMMA RunsAlone ==
  ASSUME SerialInv, NEW t \in Task, \A u \in Task \ {t} : pc'[u] = pc[u] /\ loc'[u] = loc[u],
         pc[t] # "idle" \/ \A u \in Task : pc[u] = "idle"
  PROVE  Alone(t)
  BY DEF SerialInv, OneAtATime, Alone

LEMMA RowsStay ==
  ASSUME SerialInv, UNCHANGED rows, faults' \in Nat, \A j \in jobs' : j \in jobs \/ Exists(j.offer)
  PROVE  TablesRefer' /\ PendingIsFree' /\ OneLiveOffer'
  BY DEF SerialInv, TablesRefer, PendingIsFree, OneLiveOffer, IsLive, SameDelivery

(* Leaving an operation, or going on to its release.                       *)
LEMMA LeavesInOrder ==
  ASSUME SerialInv, OpsInv', NEW t \in Task,
         pc'[t] = "idle" \/ (pc'[t] = "release" /\ loc'[t] = loc[t]),
         \A o \in Offer : Exists(o) =>
           offer'[o].status # "NONE" /\ offer'[o].delivery = offer[o].delivery
  PROVE  Underway(t)'
  <1>1. InItsPlace(t)' /\ Referring(t) /\ (loc[t].offer # None => loc[t].offer \in Offer)
    BY DEF OpsInv, EachInItsPlace, SerialInv, Underway, OpsTypeOK, OpsLocals
  <1>2. CASE pc'[t] = "idle"
    BY <1>1, <1>2 DEF InItsPlace, Underway, Referring, OfferAsRead, DeliveryAsRead, Blank, Setters, Takers
  <1>3. CASE pc'[t] = "release" /\ loc'[t] = loc[t]
    <2>1. loc[t].op \in HoldsLock \cup AdminUnderLock
      BY <1>1, <1>3 DEF InItsPlace
    <2>2. Referring(t)'
      BY <1>1, <1>3 DEF Referring
    <2>3. OfferAsRead(t)' /\ DeliveryAsRead(t)'
      BY <1>3, <2>1 DEF OfferAsRead, DeliveryAsRead, HoldsLock, AdminUnderLock
    <2> QED
      BY <2>2, <2>3 DEF Underway
  <1> QED
    BY <1>2, <1>3

-------------------------------------------------------------------------------
(* Beginnings.                                                             *)
LEMMA BeginsInOrder ==
  ASSUME SerialInv, OpsInv', NEW t \in Task, NEW l, NEW step, Begin(t, l, step),
         \A u \in Task : pc[u] = "idle", UNCHANGED rows, faults' = faults, jobs' \subseteq jobs,
         l.offer # None => l.offer \in Offer /\ Exists(l.offer) /\ offer[l.offer].delivery = l.delivery,
         <<l.op, step>> \in Beginnings \cup {<<"accept", "read">>, <<"reject", "read">>, <<"timeout", "read">>},
         l.op \notin Setters => l.delivery \in Delivery,
         l.op \in Setters \cup {"manual", "assign", "reassign", "riderCancel"} => l.rider \in Rider,
         l.op = "cancelPending" => IsPending(l.offer),
         l.op = "cancelAccepted" => offer[l.offer].status = "ACCEPTED",
         l.op = "riderCancel" => delivery[l.delivery] = "ASSIGNED",
         l.op = "assign" => delivery[l.delivery] = "PENDING"
  PROVE  SerialInv'
  <1>1. pc'[t] = step /\ loc'[t] = l /\ \A u \in Task \ {t} : pc'[u] = pc[u] /\ loc'[u] = loc[u]
    BY DEF SerialInv, OpsInv, OpsTypeOK
  <1>2. Referring(t)'
    BY <1>1 DEF Referring, Beginnings, Setters
  <1>3. OfferAsRead(t)'
    BY <1>1 DEF OfferAsRead, Beginnings, Takers, IsPending
  <1>4. DeliveryAsRead(t)'
    BY <1>1 DEF DeliveryAsRead, Beginnings
  <1>5. faults' \in Nat
    BY DEF SerialInv, TablesRefer
  <1> QED
    BY <1>1, <1>2, <1>3, <1>4, <1>5, RunsAlone, RowsStay, StepsAlone DEF Underway

LEMMA CreatesInOrder ==
  ASSUME SerialInv, OpsInv', NEW t \in Task, NEW d \in Delivery, CreateDelivery(t, d),
         \A u \in Task : pc[u] = "idle"
  PROVE  SerialInv'
  <1> DEFINE l == [Blank EXCEPT !.op = "create", !.delivery = d]
  <1>1. l.op = "create" /\ l.delivery = d /\ l.offer = None
    BY DEF Blank
  <1>2. loc' = [loc EXCEPT ![t] = l] /\ pc' = [pc EXCEPT ![t] = "nearby"]
    BY DEF CreateDelivery
  <1> HIDE DEF l
  <1>3. pc'[t] = "nearby" /\ loc'[t] = l /\ \A u \in Task \ {t} : pc'[u] = pc[u] /\ loc'[u] = loc[u]
    BY <1>2 DEF SerialInv, OpsInv, OpsTypeOK
  <1>4. Underway(t)'
    BY <1>1, <1>3 DEF Underway, Referring, OfferAsRead, DeliveryAsRead, Setters, Takers
  <1>5. TablesRefer'
    BY DEF SerialInv, TablesRefer, CreateDelivery, DeliveryStatus
  <1>6. PendingIsFree' /\ OneLiveOffer'
    BY DEF SerialInv, TablesRefer, PendingIsFree, OneLiveOffer, IsLive, SameDelivery, CreateDelivery
  <1> QED
    BY <1>3, <1>4, <1>5, <1>6, RunsAlone, StepsAlone

LEMMA EntriesInOrder ==
  ASSUME SerialInv, OpsInv', StartDispatch, Serial
  PROVE  SerialInv'
  <1>1. \A u \in Task : pc[u] = "idle"
    BY DEF StartDispatch, Calls, MayStart
  <1>2. ASSUME NEW t \in Handler, NEW d \in Delivery, CreateDelivery(t, d) PROVE SerialInv'
    BY <1>1, <1>2, CreatesInOrder DEF Task
  <1>3. ASSUME NEW t \in Task, NEW o \in Offer, NEW l, Exists(o), Begin(t, l, "read"),
               l.op \in HoldsLock, l.offer = o, l.delivery = offer[o].delivery,
               UNCHANGED <<rows, faults>>, jobs' \subseteq jobs
        PROVE  SerialInv'
    <2>1. l.delivery \in Delivery
      BY <1>3 DEF SerialInv, TablesRefer
    <2>2. <<l.op, "read">> \in {<<"accept", "read">>, <<"reject", "read">>, <<"timeout", "read">>}
      BY <1>3 DEF HoldsLock
    <2>3. l.op \notin Setters \cup {"manual", "assign", "reassign", "riderCancel", "cancelPending",
                                   "cancelAccepted"}
      BY <1>3 DEF HoldsLock, Setters
    <2> QED
      BY <1>1, <1>3, <2>1, <2>2, <2>3, BeginsInOrder
  <1>4. ASSUME NEW t \in Handler, NEW o \in Offer, NEW op \in {"accept", "reject"}, Respond(t, o, op)
        PROVE  SerialInv'
    <2> DEFINE l == [Blank EXCEPT !.op = op, !.offer = o, !.delivery = offer[o].delivery]
    <2>1. l.op \in HoldsLock /\ l.offer = o /\ l.delivery = offer[o].delivery
      BY DEF Blank, HoldsLock
    <2>2. Exists(o) /\ Begin(t, l, "read") /\ UNCHANGED <<rows, faults, jobs>>
      BY <1>4 DEF Respond
    <2> HIDE DEF l
    <2> QED
      BY <1>3, <2>1, <2>2 DEF Task
  <1>5. ASSUME NEW t \in Worker, NEW j \in jobs, TimeoutCheck(t, j) PROVE SerialInv'
    <2> DEFINE l == [Blank EXCEPT !.op = "timeout", !.offer = j.offer,
                                  !.delivery = offer[j.offer].delivery, !.attempt = j.attempt]
    <2>1. l.op \in HoldsLock /\ l.offer = j.offer /\ l.delivery = offer[j.offer].delivery
      BY DEF Blank, HoldsLock
    <2>2. j.offer \in Offer /\ Exists(j.offer)
      BY DEF SerialInv, OpsInv, OpsTypeOK, TablesRefer
    <2>3. Begin(t, l, "read") /\ UNCHANGED <<rows, faults>> /\ jobs' \subseteq jobs
      BY <1>5 DEF TimeoutCheck
    <2> HIDE DEF l
    <2> QED
      BY <1>3, <2>1, <2>2, <2>3 DEF Task
  <1>6. ASSUME NEW t \in Worker, NEW j \in jobs, SkipTimeoutCheck(t, j) PROVE SerialInv'
    <2>1. UNCHANGED <<rows, faults, pc, loc>> /\ jobs' \subseteq jobs /\ faults' \in Nat
      BY <1>6 DEF SkipTimeoutCheck, SerialInv, TablesRefer
    <2>2. TablesRefer' /\ PendingIsFree' /\ OneLiveOffer'
      BY <2>1, RowsStay
    <2>3. OneAtATime' /\ \A u \in Task : pc'[u] = "idle" /\ loc'[u] = Blank
      BY <1>1, <2>1 DEF SerialInv, OneAtATime, OpsInv, EachInItsPlace, InItsPlace
    <2> QED
      BY <2>2, <2>3 DEF SerialInv, Underway, Referring, OfferAsRead, DeliveryAsRead, Blank, Setters, Takers
  <1> QED
    BY <1>2, <1>4, <1>5, <1>6 DEF StartDispatch, Work

LEMMA OperationsBeginInOrder ==
  ASSUME SerialInv, OpsInv', NEW t \in Handler, StartOperation(t), Serial
  PROVE  SerialInv'
  <1>1. \A u \in Task : pc[u] = "idle"
    BY DEF StartOperation, Calls, MayStart
  <1>2. t \in Task
    BY DEF Task
  <1>3. ASSUME NEW l, NEW step, Begin(t, l, step), UNCHANGED <<rows, faults, jobs>>,
               l.offer = None, l.delivery \in Delivery, l.rider \in Rider,
               <<l.op, step>> \in {<<"manual", "checkDelivery">>, <<"assign", "checkNewRider">>,
                  <<"reassign", "findAccepted">>, <<"riderCancel", "findAccepted">>},
               l.op = "riderCancel" => delivery[l.delivery] = "ASSIGNED",
               l.op = "assign" => delivery[l.delivery] = "PENDING"
        PROVE  SerialInv'
    <2>1. l.op \notin {"cancelPending", "cancelAccepted"}
      BY <1>3
    <2>2. <<l.op, step>> \in Beginnings
      BY <1>3 DEF Beginnings
    <2> QED
      BY <1>1, <1>2, <1>3, <2>1, <2>2, BeginsInOrder
  <1>4. ASSUME NEW d \in Delivery, NEW r \in Rider, ManualOffer(t, d, r) PROVE SerialInv'
    <2> DEFINE l == [Blank EXCEPT !.op = "manual", !.delivery = d, !.rider = r]
    <2>1. l.op = "manual" /\ l.delivery = d /\ l.rider = r /\ l.offer = None
      BY DEF Blank
    <2>2. Begin(t, l, "checkDelivery") /\ UNCHANGED <<rows, faults, jobs>>
      BY <1>4 DEF ManualOffer
    <2> HIDE DEF l
    <2> QED
      BY <1>3, <2>1, <2>2
  <1>5. ASSUME NEW d \in Delivery, NEW r \in Rider, AssignDelivery(t, d, r) PROVE SerialInv'
    <2> DEFINE l == [Blank EXCEPT !.op = "assign", !.delivery = d, !.rider = r]
    <2>1. l.op = "assign" /\ l.delivery = d /\ l.rider = r /\ l.offer = None
      BY DEF Blank
    <2>2. Begin(t, l, "checkNewRider") /\ UNCHANGED <<rows, faults, jobs>> /\ delivery[d] = "PENDING"
      BY <1>5 DEF AssignDelivery
    <2> HIDE DEF l
    <2> QED
      BY <1>3, <2>1, <2>2
  <1>6. ASSUME NEW d \in Delivery, NEW r \in Rider, ReassignDelivery(t, d, r) PROVE SerialInv'
    <2> DEFINE l == [Blank EXCEPT !.op = "reassign", !.delivery = d, !.rider = r]
    <2>1. l.op = "reassign" /\ l.delivery = d /\ l.rider = r /\ l.offer = None
      BY DEF Blank
    <2>2. Begin(t, l, "findAccepted") /\ UNCHANGED <<rows, faults, jobs>>
      BY <1>6 DEF ReassignDelivery
    <2> HIDE DEF l
    <2> QED
      BY <1>3, <2>1, <2>2
  <1>7. ASSUME NEW d \in Delivery, NEW r \in Rider, CancelByRider(t, d, r) PROVE SerialInv'
    <2> DEFINE l == [Blank EXCEPT !.op = "riderCancel", !.delivery = d, !.rider = r]
    <2>1. l.op = "riderCancel" /\ l.delivery = d /\ l.rider = r /\ l.offer = None
      BY DEF Blank
    <2>2. Begin(t, l, "findAccepted") /\ UNCHANGED <<rows, faults, jobs>> /\ delivery[d] = "ASSIGNED"
      BY <1>7 DEF CancelByRider
    <2> HIDE DEF l
    <2> QED
      BY <1>3, <2>1, <2>2
  <1>8. ASSUME NEW d \in Delivery, SetDelivered(t, d) PROVE SerialInv'
    <2> DEFINE l == [Blank EXCEPT !.op = "deliver", !.delivery = d]
    <2>1. l.op = "deliver" /\ l.delivery = d /\ l.offer = None
      BY DEF Blank
    <2>2. Begin(t, l, "findAccepted") /\ UNCHANGED <<rows, faults, jobs>>
      BY <1>8 DEF SetDelivered
    <2> HIDE DEF l
    <2>3. <<l.op, "findAccepted">> \in Beginnings
      BY <2>1 DEF Beginnings
    <2> QED
      BY <1>1, <1>2, <2>1, <2>2, <2>3, BeginsInOrder DEF Setters
  <1>9. ASSUME NEW o \in Offer, CancelOffer(t, o) PROVE SerialInv'
    <2> DEFINE op == IF IsPending(o) THEN "cancelPending" ELSE "cancelAccepted"
               l == [Blank EXCEPT !.op = op, !.offer = o, !.delivery = offer[o].delivery,
                                  !.snap = offer[o].attemptCount]
    <2>1. l.op = op /\ l.delivery = offer[o].delivery /\ l.offer = o
      BY DEF Blank
    <2>2. Begin(t, l, "acquire") /\ UNCHANGED <<rows, faults, jobs>> /\ IsLive(o)
      BY <1>9 DEF CancelOffer
    <2> HIDE DEF l
    <2>3. /\ op = "cancelPending" \/ op = "cancelAccepted"
          /\ op = "cancelPending" => IsPending(o)
          /\ op = "cancelAccepted" => offer[o].status = "ACCEPTED"
      BY <2>2 DEF IsLive, IsPending
    <2> HIDE DEF op
    <2>4. Exists(o) /\ offer[o].delivery \in Delivery
      BY <2>2 DEF IsLive, SerialInv, TablesRefer
    <2>5. <<l.op, "acquire">> \in Beginnings
      BY <2>1, <2>3 DEF Beginnings
    <2> QED
      BY <1>1, <1>2, <2>1, <2>2, <2>3, <2>4, <2>5, BeginsInOrder DEF Setters
  <1>10. ASSUME NEW r \in Rider, NEW op \in DOMAIN StatusCalls, UpdateRider(t, r, op) PROVE SerialInv'
    <2> DEFINE l == [Blank EXCEPT !.op = op, !.rider = r]
    <2>1. l.op = op /\ l.rider = r /\ l.offer = None
      BY DEF Blank
    <2>2. Begin(t, l, "free") /\ UNCHANGED <<rows, faults, jobs>>
      BY <1>10 DEF UpdateRider
    <2> HIDE DEF l
    <2>3. <<l.op, "free">> \in Beginnings /\ l.op \in Setters
      BY <1>10, <2>1, SetterNames DEF Beginnings, Setters
    <2> QED
      BY <1>1, <1>2, <2>1, <2>2, <2>3, BeginsInOrder DEF Setters
  <1> QED
    BY <1>4, <1>5, <1>6, <1>7, <1>8, <1>9, <1>10 DEF StartOperation

-------------------------------------------------------------------------------
(* Steps that read, acquire or give up.                                    *)
LEMMA ReadsInOrder ==
  ASSUME SerialInv, OpsInv', NEW t \in Task, Alone(t), UNCHANGED rows, faults' \in Nat,
         \A j \in jobs' : j \in jobs \/ Exists(j.offer),
         \/ pc'[t] = "idle" \/ (pc'[t] = "release" /\ loc'[t] = loc[t])
         \/ Underway(t)'
  PROVE  SerialInv'
  <1>1. Underway(t)'
    BY LeavesInOrder
  <1> QED
    BY <1>1, RowsStay, StepsAlone

(* What the invariant says of the task that runs.                          *)
LEMMA InOrder ==
  ASSUME SerialInv, NEW t \in Task
  PROVE  /\ InItsPlace(t) /\ Underway(t)
         /\ loc[t].offer \in Offer \cup {None} /\ loc[t].fresh \in Offer \cup {None}
         /\ loc[t].snap \in Nat /\ loc[t].attempt \in Nat
         /\ faults \in Nat
         /\ pc \in [Task -> OpsSteps] /\ loc \in [Task -> OpsLocals]
         /\ offer \in [Offer -> Row] /\ None \notin Offer
  BY NoneIsFresh DEF SerialInv, OpsInv, EachInItsPlace, OpsTypeOK, OpsLocals, TablesRefer

LEMMA FindAcceptedInOrder ==
  ASSUME SerialInv, OpsInv', NEW t \in Task, Alone(t), FindAccepted(t)
  PROVE  SerialInv'
  <1>1. loc[t].op \in {"reassign", "riderCancel", "deliver"} /\ pc[t] = "findAccepted"
    BY InOrder DEF FindAccepted, InItsPlace
  <1>2. UNCHANGED <<rows, jobs, faults, lock>> /\ faults \in Nat
    BY InOrder DEF FindAccepted
  <1>3. CASE Done(t)
    BY <1>2, <1>3, InOrder, ReadsInOrder
  <1>4. CASE loc[t].op = "deliver" /\ Goto(t, "finish") /\ UNCHANGED loc
    <2>1. pc'[t] = "finish"
      BY <1>4, InOrder
    <2>2. Underway(t)'
      BY <1>2, <1>4, <2>1, InOrder DEF Underway, Referring, OfferAsRead, DeliveryAsRead, Takers
    <2> QED
      BY <1>2, <2>2, ReadsInOrder
  <1>5. ASSUME NEW o \in OfferSought(t), Local(t, [loc[t] EXCEPT !.offer = o, !.snap = offer[o].attemptCount]),
               Goto(t, AfterFound[loc[t].op])
        PROVE  SerialInv'
    <2>1. /\ o \in Offer /\ Exists(o) /\ offer[o].delivery = loc[t].delivery
          /\ offer[o].status = "ACCEPTED"
      BY DEF OfferSought, AcceptedOffers, OffersOf
    <2>2. /\ loc'[t].op = loc[t].op /\ loc'[t].offer = o /\ loc'[t].delivery = loc[t].delivery
          /\ loc'[t].rider = loc[t].rider
      BY <1>5, InOrder DEF OpsLocals
    <2>3. /\ pc'[t] = AfterFound[loc[t].op]
          /\ \/ loc[t].op = "reassign" /\ pc'[t] = "checkNewRider"
             \/ loc[t].op = "riderCancel" /\ pc'[t] = "revoke"
             \/ loc[t].op = "deliver" /\ pc'[t] = "free"
      BY <1>1, <1>5, InOrder DEF AfterFound
    <2>4. Referring(t)'
      BY <1>1, <1>2, <2>1, <2>2, <2>3, InOrder DEF Underway, Referring, Setters
    <2>5. OfferAsRead(t)'
      BY <1>2, <2>1, <2>2, <2>3 DEF OfferAsRead, Takers
    <2>6. DeliveryAsRead(t)'
      BY <1>1, <1>2, <2>1, <2>2, <2>3, InOrder DEF Underway, DeliveryAsRead
    <2> QED
      BY <1>2, <2>4, <2>5, <2>6, ReadsInOrder DEF Underway
  <1> QED
    BY <1>3, <1>4, <1>5 DEF FindAccepted

(* The next step of the same operation, about the same things.             *)
SameMatter(t) ==
  /\ loc'[t].op = loc[t].op /\ loc'[t].offer = loc[t].offer
  /\ loc'[t].delivery = loc[t].delivery /\ loc'[t].rider = loc[t].rider

LEMMA CheckNewRiderInOrder ==
  ASSUME SerialInv, OpsInv', NEW t \in Task, Alone(t), CheckNewRider(t)
  PROVE  SerialInv'
  <1>1. loc[t].op \in {"assign", "reassign"} /\ pc[t] = "checkNewRider"
    BY InOrder DEF CheckNewRider, InItsPlace
  <1>2. UNCHANGED <<rows, jobs, faults, lock>> /\ faults \in Nat
    BY InOrder DEF CheckNewRider
  <1>3. CASE Done(t)
    BY <1>2, <1>3, InOrder, ReadsInOrder
  <1>4. CASE Goto(t, IF loc[t].op = "assign" THEN "findPending" ELSE "acquire") /\ UNCHANGED loc
    <2>1. pc'[t] = IF loc[t].op = "assign" THEN "findPending" ELSE "acquire"
      BY <1>4, InOrder
    <2>2. Referring(t)' /\ OfferAsRead(t)'
      BY <1>1, <1>2, <1>4, <2>1, InOrder DEF Underway, Referring, OfferAsRead, Takers
    <2>3. DeliveryAsRead(t)'
      BY <1>1, <1>2, <1>4, <2>1, InOrder DEF Underway, DeliveryAsRead
    <2> QED
      BY <1>2, <2>2, <2>3, ReadsInOrder DEF Underway
  <1> QED
    BY <1>3, <1>4 DEF CheckNewRider

LEMMA AcquireInOrder ==
  ASSUME SerialInv, OpsInv', NEW t \in Task, Alone(t), Acquire(t)
  PROVE  SerialInv'
  <1>1. loc[t].op \in AdminUnderLock /\ pc[t] = "acquire" /\ loc[t].offer # None
    BY InOrder DEF Acquire, InItsPlace
  <1>2. UNCHANGED <<rows, jobs, faults>> /\ faults \in Nat
    BY InOrder DEF Acquire
  <1>3. CASE Done(t)
    BY <1>2, <1>3, InOrder, ReadsInOrder
  <1>4. CASE Goto(t, "revoke") /\ UNCHANGED loc
    <2>1. pc'[t] = "revoke"
      BY <1>4, InOrder
    <2>2. Referring(t)' /\ OfferAsRead(t)'
      BY <1>1, <1>2, <1>4, <2>1, InOrder DEF Underway, Referring, OfferAsRead, Takers,
         AdminUnderLock, IsPending
    <2>3. DeliveryAsRead(t)'
      BY <1>1, <1>2, <1>4, <2>1, InOrder DEF Underway, DeliveryAsRead, AdminUnderLock
    <2> QED
      BY <1>2, <2>2, <2>3, ReadsInOrder DEF Underway
  <1> QED
    BY <1>3, <1>4 DEF Acquire

LEMMA FindPendingInOrder ==
  ASSUME SerialInv, OpsInv', NEW t \in Task, Alone(t), FindPending(t)
  PROVE  SerialInv'
  <1>1. loc[t].op = "assign" /\ pc[t] = "findPending"
    BY InOrder DEF FindPending, InItsPlace
  <1>2. UNCHANGED <<rows, jobs, faults, loc>> /\ faults \in Nat /\ pc'[t] = "cancelPending"
    BY InOrder DEF FindPending
  <1>3. found'[t] = {AsRead(o) : o \in {p \in OffersOf(loc[t].delivery) : IsPending(p)}}
    BY DEF FindPending, SerialInv, OpsInv, OpsTypeOK
  <1>4. Referring(t)' /\ OfferAsRead(t)'
    BY <1>1, <1>2, InOrder DEF Underway, Referring, OfferAsRead, Takers
  <1>5. DeliveryAsRead(t)'
    BY <1>1, <1>2, <1>3, InOrder DEF Underway, DeliveryAsRead, OffersOf, IsPending, AsRead
  <1> QED
    BY <1>2, <1>4, <1>5, ReadsInOrder DEF Underway

LEMMA FailOperationInOrder ==
  ASSUME SerialInv, OpsInv', NEW t \in Task, Alone(t), FailOperation(t) \/ End(t)
  PROVE  SerialInv'
  <1>1. /\ UNCHANGED <<rows, jobs>> /\ faults' \in Nat
        /\ pc'[t] = "idle" \/ (pc'[t] = "release" /\ loc'[t] = loc[t])
    BY InOrder DEF FailOperation, End
  <1> QED
    BY <1>1, ReadsInOrder

-------------------------------------------------------------------------------
(* Steps that write.                                                       *)

(* Offers change their status only; the delivery of a closed one is free.  *)
LEMMA StatusWritten ==
  ASSUME SerialInv, NEW o \in Offer, Exists(o), NEW s \in OfferStatus \ {"NONE"},
         NEW x \in Row, x.status = s, x.delivery = offer[o].delivery, x.rider = offer[o].rider,
         offer' = [offer EXCEPT ![o] = x],
         UNCHANGED <<delivery, rider, redis, jobs, faults>>,
         \/ s \notin {"PENDING", "ACCEPTED"}
         \/ s = "ACCEPTED" /\ IsPending(o) /\ delivery[offer[o].delivery] # "PENDING"
  PROVE  /\ TablesRefer' /\ PendingIsFree' /\ OneLiveOffer'
         /\ \A p \in Offer : /\ offer'[p].delivery = offer[p].delivery
                             /\ offer'[p].rider = offer[p].rider
                             /\ p # o => offer'[p].status = offer[p].status
                             /\ Exists(p) => offer'[p].status # "NONE"
         /\ offer'[o].status = s
  <1>1. DOMAIN offer = Offer
    BY InOrder DEF SerialInv, OpsInv, OpsTypeOK
  <1>2. /\ \A p \in Offer : /\ offer'[p].delivery = offer[p].delivery
                            /\ offer'[p].rider = offer[p].rider
                            /\ p # o => offer'[p].status = offer[p].status
                            /\ Exists(p) <=> offer'[p].status # "NONE"
        /\ offer'[o].status = s
    BY <1>1
  <1>3. TablesRefer'
    <2>1. \A j \in jobs : j.offer \in Offer
      BY DEF SerialInv, OpsInv, OpsTypeOK
    <2> QED
      BY <1>2, <2>1 DEF SerialInv, TablesRefer
  <1>4. \A p \in Offer : IsLive(p)' => IsLive(p)
    BY <1>2 DEF IsLive, IsPending
  <1>5. OneLiveOffer'
    BY <1>2, <1>4 DEF SerialInv, OneLiveOffer, SameDelivery
  <1>6. PendingIsFree'
    BY <1>2 DEF SerialInv, PendingIsFree
  <1> QED
    BY <1>2, <1>3, <1>5, <1>6

LEMMA SavedIsWritten ==
  ASSUME SerialInv, NEW t \in Task, loc[t].offer \in Offer, NEW s \in OfferStatus
  PROVE  \E x \in Row : /\ Saved(t, s) = [offer EXCEPT ![loc[t].offer] = x]
                         /\ x.status = s /\ x.delivery = offer[loc[t].offer].delivery
                         /\ x.rider = offer[loc[t].offer].rider
  <1> DEFINE x == [offer[loc[t].offer] EXCEPT !.status = s, !.attemptCount = loc[t].snap]
  <1>1. offer[loc[t].offer] \in Row /\ loc[t].snap \in Nat
    BY InOrder
  <1>2. /\ x \in Row /\ x.status = s /\ x.delivery = offer[loc[t].offer].delivery
        /\ x.rider = offer[loc[t].offer].rider
    BY <1>1 DEF Row
  <1>3. Saved(t, s) = [offer EXCEPT ![loc[t].offer] = x]
    BY DEF Saved
  <1> QED
    BY <1>2, <1>3

LEMMA RevokeInOrder ==
  ASSUME SerialInv, OpsInv', NEW t \in Task, Alone(t), Revoke(t)
  PROVE  SerialInv'
  <1> DEFINE o == loc[t].offer
             s == IF loc[t].op = "riderCancel" THEN "REJECTED" ELSE "CANCELLED_BY_ADMIN"
  <1>1. pc[t] = "revoke" /\ Advance(t) /\ offer' = Saved(t, s)
        /\ UNCHANGED <<delivery, rider, redis, jobs, faults, loc>>
    BY DEF Revoke
  <1>2. /\ o = loc[t].offer /\ o \in Offer /\ Exists(o) /\ offer[o].delivery = loc[t].delivery
    BY <1>1, InOrder DEF Underway, Referring
  <1>3. s \in OfferStatus \ {"NONE"} /\ s \notin {"PENDING", "ACCEPTED"}
    BY DEF OfferStatus
  <1> HIDE DEF s, o
  <1>4. PICK x \in Row : /\ offer' = [offer EXCEPT ![o] = x] /\ x.status = s
                         /\ x.delivery = offer[o].delivery /\ x.rider = offer[o].rider
    BY <1>1, <1>2, <1>3, SavedIsWritten
  <1>5. /\ TablesRefer' /\ PendingIsFree' /\ OneLiveOffer'
        /\ \A p \in Offer : /\ offer'[p].delivery = offer[p].delivery
                            /\ offer'[p].rider = offer[p].rider
                            /\ p # o => offer'[p].status = offer[p].status
                            /\ Exists(p) => offer'[p].status # "NONE"
        /\ offer'[o].status = s
    BY <1>1, <1>2, <1>3, <1>4, StatusWritten
  <1>6. <<loc[t].op, "revoke", pc'[t]>> \in PlanSteps
    BY <1>1, AdvanceFits DEF SerialInv, OpsInv
  <1>7. \/ loc[t].op \in {"riderCancel", "reassign"} /\ pc'[t] = "free"
        \/ loc[t].op = "cancelAccepted" /\ pc'[t] = "reopen"
        \/ loc[t].op = "cancelPending" /\ pc'[t] = "release"
    BY <1>6 DEF PlanSteps
  <1>8. CASE loc[t].op \in Takers
    <2>1. offer[o].status = "ACCEPTED"
      BY <1>1, <1>2, <1>8, InOrder DEF Underway, OfferAsRead
    <2>2. NoLive(loc[t].delivery)'
      BY <1>1, <1>2, <1>3, <1>5, <2>1 DEF NoLive, IsLive, SerialInv, OneLiveOffer, SameDelivery
    <2>3. Referring(t)'
      BY <1>1, <1>2, <1>5, <1>7, InOrder DEF Underway, Referring
    <2>4. OfferAsRead(t)'
      BY <1>1, <1>2, <1>3, <1>5, <1>7, <1>8 DEF OfferAsRead, Takers, IsLive
    <2>5. DeliveryAsRead(t)'
      BY <1>1, <1>7, <1>8, <2>2 DEF DeliveryAsRead, Takers
    <2> QED
      BY <1>5, <2>3, <2>4, <2>5, StepsAlone DEF Underway
  <1>9. CASE loc[t].op \notin Takers
    <2>1. Underway(t)'
      BY <1>1, <1>5, <1>7, <1>9, LeavesInOrder DEF Takers
    <2> QED
      BY <1>5, <2>1, StepsAlone
  <1> QED
    BY <1>8, <1>9

LEMMA FreesInOrder ==
  ASSUME SerialInv, OpsInv', NEW t \in Task, Alone(t), FreeRider(t) \/ FreeSync(t)
  PROVE  SerialInv'
  <1>1. /\ pc[t] \in {"free", "freeSync"} /\ Advance(t)
        /\ UNCHANGED <<delivery, offer, jobs, faults, loc>>
    BY DEF FreeRider, FreeSync
  <1>2. <<loc[t].op, pc[t], pc'[t]>> \in PlanSteps
    BY <1>1, AdvanceFits DEF SerialInv, OpsInv
  <1>3. \/ pc[t] = "free" /\ pc'[t] = "freeSync" /\ loc[t].op \in Takers \cup {"deliver"} \cup Setters
        \/ pc[t] = "freeSync" /\ pc'[t] = "reopen" /\ loc[t].op \in {"riderCancel", "reassign"}
        \/ pc[t] = "freeSync" /\ pc'[t] = "finish" /\ loc[t].op = "deliver"
        \/ pc[t] = "freeSync" /\ pc'[t] = "end" /\ loc[t].op \in Setters
        \/ pc[t] = "freeSync" /\ pc'[t] = "release" /\ loc[t].op = "cancelAccepted"
    BY <1>1, <1>2, SetterNames DEF PlanSteps, Takers
  <1>4. FreedStatus(t) \in RiderStatus
    BY DEF FreedStatus, StatusCalls, RiderStatus
  <1>5. rider' \in [Rider -> RiderStatus] /\ redis' \in [Rider -> RiderStatus]
    BY <1>4 DEF FreeRider, FreeSync, SerialInv, TablesRefer
  <1>6. TablesRefer' /\ PendingIsFree' /\ OneLiveOffer'
    BY <1>1, <1>5 DEF SerialInv, TablesRefer, PendingIsFree, OneLiveOffer, IsLive, SameDelivery
  <1>7. Referring(t)'
    BY <1>1, <1>3, InOrder DEF Underway, Referring, Takers, Setters
  <1>8. OfferAsRead(t)'
    BY <1>1, <1>3, InOrder DEF Underway, OfferAsRead, Takers, Setters, IsLive
  <1>9. DeliveryAsRead(t)'
    BY <1>1, <1>3, InOrder DEF Underway, DeliveryAsRead, Takers, Setters, NoLive, IsLive
  <1> QED
    BY <1>6, <1>7, <1>8, <1>9, StepsAlone DEF Underway

(* A delivery's status is written; nobody owns one that becomes PENDING.   *)
LEMMA DeliveryWritten ==
  ASSUME SerialInv, NEW d \in Delivery, NEW s \in DeliveryStatus \ {"NONE"},
         delivery' = [delivery EXCEPT ![d] = s], UNCHANGED <<rider, redis, offer, jobs, faults>>,
         s = "PENDING" => NoLive(d)
  PROVE  /\ TablesRefer' /\ PendingIsFree' /\ OneLiveOffer'
         /\ delivery'[d] = s /\ \A p \in Delivery \ {d} : delivery'[p] = delivery[p]
  <1>1. /\ delivery'[d] = s /\ \A p \in Delivery \ {d} : delivery'[p] = delivery[p]
        /\ delivery' \in [Delivery -> DeliveryStatus]
    BY DEF SerialInv, TablesRefer
  <1>2. TablesRefer'
    BY <1>1 DEF SerialInv, TablesRefer
  <1>3. PendingIsFree'
    BY <1>1 DEF SerialInv, TablesRefer, PendingIsFree, NoLive, IsLive
  <1>4. OneLiveOffer'
    BY DEF SerialInv, OneLiveOffer, IsLive, SameDelivery
  <1> QED
    BY <1>1, <1>2, <1>3, <1>4

LEMMA ReopenInOrder ==
  ASSUME SerialInv, OpsInv', NEW t \in Task, Alone(t), Reopen(t)
  PROVE  SerialInv'
  <1> DEFINE d == loc[t].delivery
  <1>1. /\ pc[t] = "reopen" /\ Advance(t) /\ delivery' = [delivery EXCEPT ![d] = "PENDING"]
        /\ UNCHANGED <<rider, redis, offer, jobs, faults, loc>>
    BY DEF Reopen
  <1>2. <<loc[t].op, "reopen", pc'[t]>> \in PlanSteps
    BY <1>1, AdvanceFits DEF SerialInv, OpsInv
  <1>3. \/ loc[t].op = "riderCancel" /\ pc'[t] = "nearby"
        \/ loc[t].op = "reassign" /\ pc'[t] = "replace"
        \/ loc[t].op = "cancelAccepted" /\ pc'[t] = "free"
    BY <1>2 DEF PlanSteps
  <1>4. d \in Delivery /\ NoLive(d) /\ "PENDING" \in DeliveryStatus
    BY <1>1, <1>3, InOrder DEF Underway, Referring, DeliveryAsRead, Setters, DeliveryStatus
  <1>5. TablesRefer' /\ PendingIsFree' /\ OneLiveOffer' /\ delivery'[d] = "PENDING"
    BY <1>1, <1>4, DeliveryWritten
  <1>6. Referring(t)'
    BY <1>1, <1>3, InOrder DEF Underway, Referring, Setters
  <1>7. OfferAsRead(t)'
    BY <1>1, <1>3, InOrder DEF Underway, OfferAsRead, Takers, IsLive
  <1>8. DeliveryAsRead(t)'
    BY <1>1, <1>3, <1>4, <1>5 DEF DeliveryAsRead, NoLive, IsLive
  <1> QED
    BY <1>5, <1>6, <1>7, <1>8, StepsAlone DEF Underway

LEMMA FinishInOrder ==
  ASSUME SerialInv, OpsInv', NEW t \in Task, Alone(t), Finish(t)
  PROVE  SerialInv'
  <1>1. /\ pc[t] = "finish" /\ delivery' = [delivery EXCEPT ![loc[t].delivery] = "DELIVERED"]
        /\ pc'[t] = "idle" /\ UNCHANGED <<rider, redis, offer, jobs, faults>>
    BY InOrder DEF Finish
  <1>2. CASE loc[t].delivery \in Delivery
    BY <1>1, <1>2, DeliveryWritten, LeavesInOrder, StepsAlone DEF DeliveryStatus
  <1>3. CASE loc[t].delivery \notin Delivery
    <2>1. delivery' = delivery
      BY <1>1, <1>3 DEF SerialInv, TablesRefer
    <2> QED
      BY <1>1, <2>1, InOrder, ReadsInOrder
  <1> QED
    BY <1>2, <1>3

LEMMA CancelPendingInOrder ==
  ASSUME SerialInv, OpsInv', NEW t \in Task, Alone(t), CancelPending(t)
  PROVE  SerialInv'
  <1>1. /\ pc[t] = "cancelPending" /\ loc[t].op = "assign" /\ UNCHANGED <<delivery, rider, redis, jobs, faults, loc>>
        /\ loc[t].delivery \in Delivery /\ delivery[loc[t].delivery] = "PENDING"
        /\ found[t] = {AsRead(o) : o \in {p \in OffersOf(loc[t].delivery) : IsPending(p)}}
    BY InOrder DEF CancelPending, InItsPlace, Underway, Referring, DeliveryAsRead, Setters
  <1>2. CASE found[t] = {} /\ Goto(t, "replace") /\ UNCHANGED <<offer, found>>
    <2>1. pc'[t] = "replace"
      BY <1>2, InOrder
    <2>2. NoLive(loc[t].delivery)
      BY <1>1, <1>2 DEF NoLive, IsLive, OffersOf, IsPending, SerialInv, PendingIsFree
    <2>3. Underway(t)'
      BY <1>1, <1>2, <2>1, <2>2, InOrder DEF Underway, Referring, OfferAsRead, DeliveryAsRead, Takers,
         NoLive, IsLive
    <2> QED
      BY <1>1, <1>2, <2>3, InOrder, ReadsInOrder
  <1>3. ASSUME NEW f \in found[t],
               offer' = [offer EXCEPT ![f.offer] =
                 [@ EXCEPT !.status = "CANCELLED_BY_ADMIN", !.attemptCount = f.snap]],
               found' = [found EXCEPT ![t] = @ \ {f}], UNCHANGED pc
        PROVE  SerialInv'
    <2> DEFINE o == f.offer
    <2> DEFINE x == [offer[o] EXCEPT !.status = "CANCELLED_BY_ADMIN", !.attemptCount = f.snap]
    <2>1. /\ o \in Offer /\ Exists(o) /\ offer[o].delivery = loc[t].delivery
          /\ f = AsRead(o) /\ f.snap = offer[o].attemptCount
      BY <1>1 DEF OffersOf, AsRead
    <2>2. /\ x \in Row /\ x.status = "CANCELLED_BY_ADMIN" /\ x.delivery = offer[o].delivery
          /\ x.rider = offer[o].rider /\ offer' = [offer EXCEPT ![o] = x]
          /\ \A p \in Offer \ {o} : offer'[p] = offer[p]
      BY <1>3, <2>1, InOrder DEF Row, OfferStatus
    <2> HIDE DEF x, o
    <2>3. /\ TablesRefer' /\ PendingIsFree' /\ OneLiveOffer'
          /\ \A p \in Offer : /\ offer'[p].delivery = offer[p].delivery
                              /\ p # o => offer'[p].status = offer[p].status
                              /\ Exists(p) => offer'[p].status # "NONE"
          /\ offer'[o].status = "CANCELLED_BY_ADMIN"
      BY <1>1, <2>1, <2>2, StatusWritten DEF OfferStatus
    <2>4. found'[t] = found[t] \ {AsRead(o)}
      BY <1>3, <2>1 DEF SerialInv, OpsInv, OpsTypeOK
    <2>5. found'[t] = {AsRead(p) : p \in {q \in OffersOf(loc[t].delivery) : IsPending(q)}}'
      BY <1>1, <2>1, <2>2, <2>3, <2>4 DEF OffersOf, IsPending, AsRead
    <2>6. Referring(t)'
      BY <1>1, <1>3, <2>3, InOrder DEF Underway, Referring
    <2>7. OfferAsRead(t)' /\ DeliveryAsRead(t)'
      BY <1>1, <1>3, <2>5 DEF OfferAsRead, DeliveryAsRead, Takers
    <2> QED
      BY <2>3, <2>6, <2>7, StepsAlone DEF Underway
  <1> QED
    BY <1>2, <1>3 DEF CancelPending

(* A new offer, for a delivery that is nobody's and offered to nobody.     *)
LEMMA OfferInserted ==
  ASSUME SerialInv, NEW o \in Offer, ~Exists(o), NEW d \in Delivery, NEW r \in Rider,
         offer' = [offer EXCEPT ![o] = NewOffer(d, r)], NoLive(d), delivery[d] # "NONE",
         UNCHANGED <<delivery, rider, redis, jobs, faults>>
  PROVE  /\ TablesRefer' /\ PendingIsFree' /\ OneLiveOffer'
         /\ offer'[o] = NewOffer(d, r) /\ \A p \in Offer \ {o} : offer'[p] = offer[p]
         /\ Exists(o)'
  <1>1. /\ offer'[o] = NewOffer(d, r) /\ \A p \in Offer \ {o} : offer'[p] = offer[p]
        /\ offer'[o].status = "PENDING" /\ offer'[o].delivery = d /\ offer'[o].rider = r
    BY InOrder DEF NewOffer, SerialInv, OpsInv, OpsTypeOK
  <1>2. TablesRefer'
    <2>1. \A j \in jobs : j.offer \in Offer /\ Exists(j.offer)
      BY DEF SerialInv, OpsInv, OpsTypeOK, TablesRefer
    <2> QED
      BY <1>1, <2>1 DEF SerialInv, TablesRefer
  <1>3. OneLiveOffer'
    BY <1>1 DEF SerialInv, OneLiveOffer, NoLive, IsLive, SameDelivery
  <1>4. PendingIsFree'
    BY <1>1 DEF SerialInv, PendingIsFree
  <1> QED
    BY <1>1, <1>2, <1>3, <1>4

LEMMA ReplaceInOrder ==
  ASSUME SerialInv, OpsInv', NEW t \in Task, Alone(t), Replace(t)
  PROVE  SerialInv'
  <1>1. /\ pc[t] = "replace" /\ loc[t].op \in {"assign", "reassign"}
        /\ UNCHANGED <<delivery, rider, redis, jobs, faults>>
    BY InOrder DEF Replace, InItsPlace
  <1>2. /\ loc[t].delivery \in Delivery /\ loc[t].rider \in Rider /\ NoLive(loc[t].delivery)
        /\ delivery[loc[t].delivery] = "PENDING"
    BY <1>1, InOrder DEF Underway, Referring, DeliveryAsRead, Setters
  <1>3. PICK o \in Offer : ~Exists(o) /\ offer' = [offer EXCEPT ![o] = NewOffer(loc[t].delivery, loc[t].rider)]
    BY DEF Replace
  <1>4. TablesRefer' /\ PendingIsFree' /\ OneLiveOffer' /\ \A p \in Offer : Exists(p) => offer'[p] = offer[p]
    BY <1>1, <1>2, <1>3, OfferInserted
  <1>5. pc'[t] = "idle" \/ (pc'[t] = "release" /\ loc'[t] = loc[t])
    BY InOrder DEF Replace
  <1> QED
    BY <1>4, <1>5, LeavesInOrder, StepsAlone

LEMMA OperatesAlone ==
  ASSUME SerialInv, NEW t \in Task, Operate(t)
  PROVE  Alone(t)
  <1>1. pc[t] # "idle" /\ pc \in [Task -> OpsSteps] /\ loc \in [Task -> OpsLocals]
    BY InOrder DEF Operate, FindAccepted, CheckNewRider, Acquire, Revoke, FreeRider, FreeSync, Reopen,
       Finish, End, FindPending, CancelPending, Replace, FailOperation, Operations
  <1>2. \A u \in Task \ {t} : pc'[u] = pc[u] /\ loc'[u] = loc[u]
    BY <1>1 DEF Operate, FindAccepted, CheckNewRider, Acquire, Revoke, FreeRider, FreeSync, Reopen,
       Finish, End, FindPending, CancelPending, Replace, FailOperation, Advance
  <1> QED
    BY <1>1, <1>2, RunsAlone

LEMMA OperatesInOrder ==
  ASSUME SerialInv, OpsInv', NEW t \in Task, Operate(t)
  PROVE  SerialInv'
  BY OperatesAlone, FindAcceptedInOrder, CheckNewRiderInOrder, AcquireInOrder, RevokeInOrder,
     FreesInOrder, ReopenInOrder, FinishInOrder, FindPendingInOrder, CancelPendingInOrder, ReplaceInOrder,
     FailOperationInOrder DEF Operate

-------------------------------------------------------------------------------
(* Answers and timeout checks.                                             *)
LEMMA MovesAlone ==
  ASSUME SerialInv, NEW t \in Task, Step(t) \/ Fail(t) PROVE Alone(t)
  <1>1. pc[t] # "idle" /\ pc \in [Task -> OpsSteps] /\ loc \in [Task -> OpsLocals]
    BY InOrder DEF Step, Answer, Dispatch, ReadOffer, Expire, SetAssigned, SetBusy, SyncBusy,
       ReleaseBeforeSave, SaveAccepted, SaveRejected, Release, ExcludePrevious, PickRider, NoRider,
       CheckDelivery, CheckRider, CheckPending, Check, InsertOffer, Schedule, CountAttempt, Reschedule,
       Fail, CannotFail
  <1>2. Return(t) => \A u \in Task \ {t} : pc'[u] = pc[u] /\ loc'[u] = loc[u]
    BY <1>1 DEF Return
  <1>3. ASSUME NEW n, RedispatchOrReturn(t, n) PROVE \A u \in Task \ {t} : pc'[u] = pc[u] /\ loc'[u] = loc[u]
    BY <1>1, <1>2, <1>3 DEF RedispatchOrReturn
  <1>4. Answer(t) => \A u \in Task \ {t} : pc'[u] = pc[u] /\ loc'[u] = loc[u]
    BY <1>1, <1>2, <1>3 DEF Answer, ReadOffer, Expire, SetAssigned, SetBusy, SyncBusy,
       ReleaseBeforeSave, SaveAccepted, SaveRejected, Release
  <1>5. Dispatch(t) => \A u \in Task \ {t} : pc'[u] = pc[u] /\ loc'[u] = loc[u]
    BY <1>1, <1>2 DEF Dispatch, ExcludePrevious, PickRider, NoRider,
       CheckDelivery, CheckRider, CheckPending, Check, InsertOffer, Schedule, CountAttempt, Reschedule
  <1>6. Fail(t) => \A u \in Task \ {t} : pc'[u] = pc[u] /\ loc'[u] = loc[u]
    BY <1>2 DEF Fail
  <1> QED
    BY <1>1, <1>4, <1>5, <1>6, RunsAlone DEF Step

LEMMA ReturnLeaves ==
  ASSUME SerialInv, NEW t \in Task, Return(t)
  PROVE  pc'[t] = "idle" \/ (pc'[t] = "release" /\ loc'[t] = loc[t])
  BY InOrder DEF Return

LEMMA ClosesInOrder ==
  ASSUME SerialInv, OpsInv', NEW t \in Task, Alone(t), NEW s \in {"EXPIRED", "REJECTED"}, NEW n,
         pc[t] \in {"expire", "reject"}, offer' = Saved(t, s),
         Return(t) \/ RedispatchOrReturn(t, n), UNCHANGED <<delivery, rider, redis, jobs, faults>>
  PROVE  SerialInv'
  <1> DEFINE o == loc[t].offer
  <1>1. /\ loc[t].op \in HoldsLock /\ o = loc[t].offer /\ o \in Offer /\ Exists(o)
        /\ offer[o].delivery = loc[t].delivery
    BY InOrder DEF InItsPlace, Answering, Underway, Referring
  <1> HIDE DEF o
  <1>2. PICK x \in Row : /\ offer' = [offer EXCEPT ![o] = x] /\ x.status = s
                         /\ x.delivery = offer[o].delivery /\ x.rider = offer[o].rider
    BY <1>1, SavedIsWritten DEF OfferStatus
  <1>3. s \in OfferStatus \ {"NONE", "PENDING", "ACCEPTED"}
    BY DEF OfferStatus
  <1>4. /\ TablesRefer' /\ PendingIsFree' /\ OneLiveOffer'
        /\ \A p \in Offer : offer'[p].delivery = offer[p].delivery /\ (Exists(p) => offer'[p].status # "NONE")
    BY <1>1, <1>2, <1>3, StatusWritten
  <1>5. CASE Return(t)
    BY <1>4, <1>5, ReturnLeaves, LeavesInOrder, StepsAlone
  <1>6. CASE Goto(t, "exclude") /\ Local(t, [loc[t] EXCEPT !.attempt = n])
    <2>1. pc'[t] = "exclude" /\ SameMatter(t)
      BY <1>6, InOrder DEF SameMatter, OpsLocals
    <2>2. Referring(t)'
      BY <1>1, <1>4, <2>1, InOrder DEF Underway, Referring, HoldsLock, Setters, SameMatter
    <2>3. OfferAsRead(t)' /\ DeliveryAsRead(t)'
      BY <1>1, <2>1 DEF OfferAsRead, DeliveryAsRead, SameMatter, HoldsLock
    <2> QED
      BY <1>4, <2>2, <2>3, StepsAlone DEF Underway
  <1> QED
    BY <1>5, <1>6 DEF RedispatchOrReturn

LEMMA AnswersInOrder ==
  ASSUME SerialInv, OpsInv', NEW t \in Task, Answer(t)
  PROVE  SerialInv'
  <1>1. Alone(t)
    BY MovesAlone DEF Step
  <1>2. /\ pc[t] \in Answering => loc[t].op \in HoldsLock /\ loc[t].offer \in Offer /\ Exists(loc[t].offer)
                                   /\ offer[loc[t].offer].delivery = loc[t].delivery
        /\ loc[t].op \in HoldsLock => loc[t].op \notin Setters \cup Takers
             \cup {"manual", "assign", "deliver", "cancelPending", "none"}
    BY InOrder DEF InItsPlace, Underway, Referring, HoldsLock, Setters, Takers
  <1>3. CASE ReadOffer(t)
    <2>1. pc[t] = "read" /\ pc'[t] = AfterRead(t) /\ SameMatter(t) /\ UNCHANGED <<rows, jobs, faults>>
      BY <1>3, InOrder DEF ReadOffer, SameMatter, OpsLocals
    <2>2. \/ pc'[t] = "release"
          \/ pc'[t] \in {"expire", "assign", "reject"} /\ IsPending(loc[t].offer)
      BY <2>1 DEF AfterRead
    <2>3. Referring(t)'
      BY <1>2, <2>1, <2>2, InOrder DEF Underway, Referring, SameMatter, Answering
    <2>4. OfferAsRead(t)' /\ DeliveryAsRead(t)'
      BY <1>2, <2>1, <2>2 DEF OfferAsRead, DeliveryAsRead, SameMatter, Answering, IsPending
    <2> QED
      BY <1>1, <2>1, <2>3, <2>4, InOrder, ReadsInOrder DEF Underway
  <1>4. CASE Expire(t)
    BY <1>1, <1>4, ClosesInOrder DEF Expire
  <1>5. CASE SaveRejected(t)
    BY <1>1, <1>5, ClosesInOrder DEF SaveRejected
  <1>6. CASE SetAssigned(t)
    <2>1. /\ pc[t] = "assign" /\ pc'[t] = "busy" /\ delivery' = [delivery EXCEPT ![loc[t].delivery] = "ASSIGNED"]
          /\ UNCHANGED <<rider, redis, offer, jobs, faults, loc>>
      BY <1>6, InOrder DEF SetAssigned
    <2>2. loc[t].delivery \in Delivery /\ "ASSIGNED" \in DeliveryStatus \ {"NONE"}
      BY <1>2, <2>1, InOrder DEF Answering, Underway, Referring, DeliveryStatus
    <2>3. TablesRefer' /\ PendingIsFree' /\ OneLiveOffer' /\ delivery'[loc[t].delivery] = "ASSIGNED"
      BY <2>1, <2>2, DeliveryWritten
    <2>4. Referring(t)'
      BY <1>2, <2>1, InOrder DEF Underway, Referring, Answering
    <2>5. OfferAsRead(t)' /\ DeliveryAsRead(t)'
      BY <1>2, <2>1, <2>3, InOrder DEF Underway, OfferAsRead, DeliveryAsRead, Answering, IsPending
    <2> QED
      BY <1>1, <2>3, <2>4, <2>5, StepsAlone DEF Underway
  <1>7. CASE SetBusy(t) \/ SyncBusy(t)
    <2>1. /\ pc[t] \in {"busy", "sync"} /\ pc'[t] \in {"sync", "accept"}
          /\ UNCHANGED <<delivery, offer, jobs, faults, loc>>
      BY <1>7, InOrder DEF SetBusy, SyncBusy
    <2>2. TablesRefer' /\ PendingIsFree' /\ OneLiveOffer'
      BY <1>7, <2>1 DEF SetBusy, SyncBusy, SerialInv, TablesRefer, RiderStatus, PendingIsFree,
         OneLiveOffer, IsLive, SameDelivery
    <2>3. Referring(t)'
      BY <1>2, <2>1, InOrder DEF Underway, Referring, Answering
    <2>4. OfferAsRead(t)' /\ DeliveryAsRead(t)'
      BY <1>2, <2>1, InOrder DEF Underway, OfferAsRead, DeliveryAsRead, Answering, IsPending
    <2> QED
      BY <1>1, <2>2, <2>3, <2>4, StepsAlone DEF Underway
  <1>8. CASE ReleaseBeforeSave(t)
    <2>1. pc[t] = "accept" /\ pc'[t] = "landing" /\ UNCHANGED <<rows, jobs, faults, loc>>
      BY <1>8, InOrder DEF ReleaseBeforeSave
    <2>2. Referring(t)'
      BY <1>2, <2>1, InOrder DEF Underway, Referring, Answering
    <2>3. OfferAsRead(t)' /\ DeliveryAsRead(t)'
      BY <1>2, <2>1, InOrder DEF Underway, OfferAsRead, DeliveryAsRead, Answering, IsPending
    <2> QED
      BY <1>1, <2>1, <2>2, <2>3, InOrder, ReadsInOrder DEF Underway
  <1>9. CASE SaveAccepted(t)
    <2> DEFINE o == loc[t].offer
    <2>1. /\ pc[t] \in {"accept", "landing"} /\ offer' = Saved(t, "ACCEPTED") /\ Return(t)
          /\ UNCHANGED <<delivery, rider, redis, jobs, faults>>
      BY <1>9 DEF SaveAccepted
    <2>2. /\ o = loc[t].offer /\ o \in Offer /\ Exists(o) /\ IsPending(o)
          /\ delivery[offer[o].delivery] = "ASSIGNED"
      BY <1>2, <2>1, InOrder DEF Underway, OfferAsRead, DeliveryAsRead, Answering
    <2> HIDE DEF o
    <2>3. PICK x \in Row : /\ offer' = [offer EXCEPT ![o] = x] /\ x.status = "ACCEPTED"
                           /\ x.delivery = offer[o].delivery /\ x.rider = offer[o].rider
      BY <2>1, <2>2, SavedIsWritten DEF OfferStatus
    <2>4. "ACCEPTED" \in OfferStatus \ {"NONE"}
      BY DEF OfferStatus
    <2>5. /\ TablesRefer' /\ PendingIsFree' /\ OneLiveOffer'
          /\ \A p \in Offer : offer'[p].delivery = offer[p].delivery /\ (Exists(p) => offer'[p].status # "NONE")
      BY <2>1, <2>2, <2>3, <2>4, StatusWritten
    <2> QED
      BY <1>1, <2>1, <2>5, ReturnLeaves, LeavesInOrder, StepsAlone
  <1>10. CASE Release(t)
    BY <1>1, <1>10, InOrder, ReadsInOrder DEF Release
  <1> QED
    BY <1>3, <1>4, <1>5, <1>6, <1>7, <1>8, <1>9, <1>10 DEF Answer

-------------------------------------------------------------------------------
(* Dispatching.                                                            *)
LEMMA PlacesInOrder ==
  ASSUME SerialInv, NEW t \in Task, pc[t] \in Placing \ {"reschedule"}, pc'[t] \in Placing,
         loc'[t].op = loc[t].op, loc'[t].offer = loc[t].offer, loc'[t].delivery = loc[t].delivery,
         loc'[t].rider \in Rider \/ (loc'[t].rider = loc[t].rider
           /\ (pc'[t] \in {"checkDelivery", "checkRider", "checkPending", "insert"}
                 => pc[t] \in {"checkDelivery", "checkRider", "checkPending", "insert"})),
         \A o \in Offer : Exists(o) => offer'[o].status # "NONE" /\ offer'[o].delivery = offer[o].delivery,
         UNCHANGED delivery,
         pc'[t] \in {"checkRider", "checkPending", "insert"} => delivery[loc[t].delivery] = "PENDING",
         pc'[t] = "insert" => NoLive(loc[t].delivery) /\ UNCHANGED offer,
         pc'[t] \in {"schedule", "count", "reschedule"} => Exists(loc[t].fresh)'
  PROVE  Underway(t)'
  <1>1. Referring(t) /\ DeliveryAsRead(t) /\ loc[t].offer \in Offer \cup {None}
    BY InOrder DEF Underway
  <1>2. Referring(t)'
    BY <1>1 DEF Referring, Placing
  <1>3. OfferAsRead(t)'
    BY DEF OfferAsRead, Placing
  <1>4. DeliveryAsRead(t)'
    BY <1>1 DEF DeliveryAsRead, Placing, NoLive, IsLive
  <1> QED
    BY <1>2, <1>3, <1>4 DEF Underway

LEMMA ChecksInOrder ==
  ASSUME SerialInv, OpsInv', NEW t \in Task, Alone(t),
         NEW step \in {"checkDelivery", "checkRider", "checkPending"}, NEW ok, NEW next,
         Check(t, step, ok, next), next \in {"checkRider", "checkPending", "insert"},
         ok /\ step = "checkDelivery" => delivery[loc[t].delivery] = "PENDING",
         next = "insert" => step = "checkPending" /\ (ok => ~HasPendingOffer(loc[t].delivery))
  PROVE  SerialInv'
  <1>1. pc[t] = step /\ UNCHANGED <<rows, jobs, faults>> /\ faults \in Nat
    BY InOrder DEF Check
  <1>2. CASE Return(t)
    BY <1>1, <1>2, ReturnLeaves, ReadsInOrder
  <1>3. CASE ok /\ Goto(t, next) /\ UNCHANGED loc
    <2>1. pc'[t] = next
      BY <1>3, InOrder
    <2>2. delivery[loc[t].delivery] = "PENDING"
      BY <1>1, <1>3, InOrder DEF Underway, DeliveryAsRead
    <2>3. next = "insert" => NoLive(loc[t].delivery)
      BY <1>3, <2>2 DEF NoLive, HasPendingOffer, OffersOf, IsPending, IsLive, SerialInv, PendingIsFree
    <2>4. Underway(t)'
      BY <1>1, <1>3, <2>1, <2>2, <2>3, PlacesInOrder DEF Placing
    <2> QED
      BY <1>1, <2>4, ReadsInOrder
  <1> QED
    BY <1>2, <1>3 DEF Check

LEMMA InsertsInOrder ==
  ASSUME SerialInv, OpsInv', NEW t \in Task, Alone(t), InsertOffer(t)
  PROVE  SerialInv'
  <1>1. pc[t] = "insert" /\ UNCHANGED <<delivery, rider, redis, jobs, faults>> /\ pc'[t] = "schedule"
    BY InOrder DEF InsertOffer
  <1>2. PICK o \in Offer : /\ ~Exists(o)
                           /\ offer' = [offer EXCEPT ![o] = NewOffer(loc[t].delivery, loc[t].rider)]
                           /\ Local(t, [loc[t] EXCEPT !.fresh = o])
    BY DEF InsertOffer
  <1>3. SameMatter(t) /\ loc'[t].fresh = o
    BY <1>2, InOrder DEF SameMatter, OpsLocals
  <1>4. /\ NoLive(loc[t].delivery) /\ delivery[loc[t].delivery] = "PENDING" /\ loc[t].rider \in Rider
    BY <1>1, InOrder DEF Underway, Referring, DeliveryAsRead
  <1>5. loc[t].delivery \in Delivery
    BY <1>1, InOrder DEF Underway, Referring, Placing
  <1>6. /\ TablesRefer' /\ PendingIsFree' /\ OneLiveOffer'
        /\ Exists(o)' /\ \A p \in Offer \ {o} : offer'[p] = offer[p]
    BY <1>1, <1>2, <1>4, <1>5, OfferInserted
  <1>7. Exists(loc[t].fresh)'
    BY <1>3, <1>6
  <1>8. \A p \in Offer : Exists(p) => offer'[p].status # "NONE" /\ offer'[p].delivery = offer[p].delivery
    BY <1>2, <1>6
  <1>9. pc[t] \in Placing \ {"reschedule"} /\ pc'[t] \in Placing
    BY <1>1 DEF Placing
  <1>10. /\ loc'[t].op = loc[t].op /\ loc'[t].offer = loc[t].offer
         /\ loc'[t].delivery = loc[t].delivery /\ loc'[t].rider \in Rider
    BY <1>3, <1>4 DEF SameMatter
  <1>11. UNCHANGED delivery /\ pc'[t] \notin {"checkRider", "checkPending", "insert"}
    BY <1>1
  <1>12. Underway(t)'
    BY <1>7, <1>8, <1>9, <1>10, <1>11, PlacesInOrder
  <1> QED
    BY <1>6, <1>12, StepsAlone

LEMMA EnqueuesInOrder ==
  ASSUME SerialInv, OpsInv', NEW t \in Task, Alone(t), Schedule(t) \/ Reschedule(t)
  PROVE  SerialInv'
  <1>1. /\ pc[t] \in {"schedule", "reschedule"} /\ UNCHANGED rows
        /\ Exists(loc[t].fresh) /\ \E n : Enqueue(Job(loc[t].fresh, n))
    BY InOrder DEF Schedule, Reschedule, Underway, Referring
  <1>2. faults' \in Nat
    BY <1>1, InOrder DEF Enqueue
  <1>3. \A j \in jobs' : j \in jobs \/ Exists(j.offer)
    BY <1>1 DEF Enqueue, Job
  <1>4. CASE Return(t)
    BY <1>1, <1>2, <1>3, <1>4, ReturnLeaves, ReadsInOrder
  <1>5. CASE pc[t] = "schedule" /\ Goto(t, "count") /\ UNCHANGED loc
    <2>1. pc'[t] = "count"
      BY <1>5, InOrder
    <2>2. Underway(t)'
      BY <1>1, <1>5, <2>1, PlacesInOrder DEF Placing
    <2> QED
      BY <1>1, <1>2, <1>3, <2>2, ReadsInOrder
  <1> QED
    BY <1>4, <1>5 DEF Schedule, Reschedule

LEMMA CountsInOrder ==
  ASSUME SerialInv, OpsInv', NEW t \in Task, Alone(t), CountAttempt(t)
  PROVE  SerialInv'
  <1>1. /\ pc[t] = "count" /\ pc'[t] = "reschedule"
        /\ UNCHANGED <<delivery, rider, redis, jobs, faults, loc>> /\ loc[t].fresh \in Offer
        /\ Exists(loc[t].fresh)
    BY InOrder DEF CountAttempt, InItsPlace, Underway, Referring
  <1>2. \A p \in Offer : /\ offer'[p].status = offer[p].status /\ offer'[p].delivery = offer[p].delivery
                         /\ offer'[p].rider = offer[p].rider
    BY <1>1, InOrder DEF CountAttempt, Row
  <1>3. TablesRefer'
    <2>1. \A j \in jobs : j.offer \in Offer
      BY DEF SerialInv, OpsInv, OpsTypeOK
    <2> QED
      BY <1>1, <1>2, <2>1 DEF SerialInv, TablesRefer
  <1>4. PendingIsFree' /\ OneLiveOffer'
    BY <1>1, <1>2 DEF SerialInv, PendingIsFree, OneLiveOffer, IsLive, SameDelivery
  <1>5. Underway(t)'
    BY <1>1, <1>2, PlacesInOrder DEF Placing
  <1> QED
    BY <1>3, <1>4, <1>5, StepsAlone

LEMMA DispatchesInOrder ==
  ASSUME SerialInv, OpsInv', NEW t \in Task, Dispatch(t)
  PROVE  SerialInv'
  <1>1. Alone(t)
    BY MovesAlone DEF Step
  <1>2. CASE ExcludePrevious(t)
    <2>1. /\ pc[t] = "exclude" /\ pc'[t] = "nearby" /\ SameMatter(t) /\ UNCHANGED <<rows, jobs, faults>>
      BY <1>2, InOrder DEF ExcludePrevious, SameMatter, OpsLocals
    <2>2. Underway(t)'
      BY <2>1, PlacesInOrder DEF Placing, SameMatter
    <2> QED
      BY <1>1, <2>1, <2>2, InOrder, ReadsInOrder
  <1>3. CASE PickRider(t)
    <2>1. PICK r \in Rider : Local(t, [loc[t] EXCEPT !.rider = r])
      BY <1>3 DEF PickRider, NearbyAvailable
    <2>2. /\ pc[t] = "nearby" /\ pc'[t] = "checkDelivery" /\ UNCHANGED <<rows, jobs, faults>>
          /\ loc'[t].op = loc[t].op /\ loc'[t].offer = loc[t].offer
          /\ loc'[t].delivery = loc[t].delivery /\ loc'[t].rider = r
      BY <1>3, <2>1, InOrder DEF PickRider, OpsLocals
    <2>3. Underway(t)'
      BY <2>2, PlacesInOrder DEF Placing
    <2> QED
      BY <1>1, <2>2, <2>3, InOrder, ReadsInOrder
  <1>4. CASE NoRider(t)
    BY <1>1, <1>4, InOrder, ReturnLeaves, ReadsInOrder DEF NoRider
  <1>5. CASE CheckDelivery(t)
    BY <1>1, <1>5, ChecksInOrder DEF CheckDelivery
  <1>6. CASE CheckRider(t)
    BY <1>1, <1>6, ChecksInOrder DEF CheckRider
  <1>7. CASE CheckPending(t)
    BY <1>1, <1>7, ChecksInOrder DEF CheckPending
  <1> QED
    BY <1>1, <1>2, <1>3, <1>4, <1>5, <1>6, <1>7, InsertsInOrder, EnqueuesInOrder, CountsInOrder
       DEF Dispatch

-------------------------------------------------------------------------------
(* Every step, when operations take turns.                                 *)
LEMMA NobodyUnderway ==
  ASSUME OpsInv, \A u \in Task : pc[u] = "idle"
  PROVE  OneAtATime /\ \A u \in Task : Underway(u)
  <1>1. \A u \in Task : loc[u] = Blank
    BY DEF OpsInv, EachInItsPlace, InItsPlace
  <1> QED
    BY <1>1 DEF OneAtATime, Underway, Referring, OfferAsRead, DeliveryAsRead, Blank, Setters, Takers

LEMMA CrashInOrder ==
  ASSUME SerialInv, OpsInv', NEW t \in Task, CrashOperation(t) PROVE SerialInv'
  <1>1. /\ pc'[t] = "idle" /\ UNCHANGED rows /\ faults' \in Nat /\ pc[t] # "idle"
        /\ \A u \in Task \ {t} : pc'[u] = pc[u] /\ loc'[u] = loc[u]
    BY InOrder DEF CrashOperation, Crash, Done, Goto, Local
  <1>2. Alone(t)
    BY <1>1, RunsAlone
  <1>3. \A j \in jobs' : j \in jobs \/ Exists(j.offer)
    <2>1. loc[t].op = "timeout" => Exists(loc[t].offer)
      BY InOrder, NoneIsFresh DEF InItsPlace, HoldsLock, Underway, Referring
    <2> QED
      BY <2>1 DEF CrashOperation, Crash, Job
  <1>4. TablesRefer' /\ PendingIsFree' /\ OneLiveOffer'
    BY <1>1, <1>3, RowsStay
  <1>5. Underway(t)'
    BY <1>1, LeavesInOrder DEF rows, Exists
  <1> QED
    BY <1>2, <1>4, <1>5, StepsAlone

LEMMA SerialStep ==
  ASSUME ~SlowHandlers, Serial, SerialInv, [OpsNext]_opsVars PROVE SerialInv'
  <1>1. OpsInv'
    BY OpsStepKeeps DEF SerialInv
  <1>2. CASE DispatchStep
    <2>1. ASSUME NEW t \in Task, Fail(t) PROVE SerialInv'
      <3>1. Alone(t) /\ UNCHANGED <<rows, jobs>> /\ faults' \in Nat /\ Return(t)
        BY <2>1, MovesAlone, InOrder DEF Fail
      <3> QED
        BY <1>1, <3>1, ReturnLeaves, ReadsInOrder
    <2>2. ASSUME NEW o \in Offer, Deadline(o), UNCHANGED found PROVE SerialInv'
      BY <1>1, <2>2 DEF Deadline, SerialInv, OneAtATime, TablesRefer, PendingIsFree, OneLiveOffer, IsLive,
         SameDelivery, Underway, Referring, OfferAsRead, DeliveryAsRead, IsPending, NoLive, OffersOf, AsRead
    <2>3. ASSUME NEW o \in Offer, LockExpires(o), UNCHANGED found PROVE SerialInv'
      BY <1>1, <2>3 DEF LockExpires, rows, SerialInv, OneAtATime, TablesRefer, PendingIsFree, OneLiveOffer,
         IsLive, SameDelivery, Underway, Referring, OfferAsRead, DeliveryAsRead, IsPending, NoLive, OffersOf,
         AsRead
    <2> QED
      BY <1>1, <1>2, <2>1, <2>2, <2>3, EntriesInOrder, AnswersInOrder, DispatchesInOrder DEF DispatchStep, Step
  <1>3. ASSUME NEW d \in Delivery, NEW op \in DOMAIN DeliveryCalls, Calls(op), UpdateDelivery(d, op)
        PROVE  SerialInv'
    <2>1. \A u \in Task : pc'[u] = "idle"
      BY <1>3 DEF Calls, MayStart, UpdateDelivery
    <2>2. DeliveryCalls[op] \in DeliveryStatus \ {"NONE", "PENDING"}
      BY <1>3 DEF DeliveryCalls, DeliveryStatus
    <2>3. TablesRefer' /\ PendingIsFree' /\ OneLiveOffer'
      BY <1>3, <2>2, DeliveryWritten DEF UpdateDelivery
    <2>4. \A u \in Task : loc'[u] = Blank
      BY <1>1, <2>1 DEF OpsInv, EachInItsPlace, InItsPlace
    <2>5. OneAtATime' /\ \A u \in Task : Underway(u)'
      BY <2>1, <2>4 DEF OneAtATime, Underway, Referring, OfferAsRead, DeliveryAsRead, Blank, Setters, Takers
    <2> QED
      BY <1>1, <2>3, <2>5 DEF SerialInv
  <1>4. CASE UNCHANGED opsVars
    BY <1>1, <1>4 DEF opsVars, vars, SerialInv, OneAtATime, TablesRefer, PendingIsFree, OneLiveOffer, IsLive,
       SameDelivery, Underway, Referring, OfferAsRead, DeliveryAsRead, IsPending, NoLive, OffersOf, AsRead
  <1> QED
    BY <1>1, <1>2, <1>3, <1>4, OperationsBeginInOrder, OperatesInOrder, CrashInOrder DEF OpsNext, Task

LEMMA SerialInit == OpsInit => SerialInv
  <1> SUFFICES ASSUME OpsInit PROVE SerialInv
    OBVIOUS
  <1>1. OpsInv /\ \A u \in Task : pc[u] = "idle"
    BY OpsInitKeeps DEF OpsInit, Init
  <1>2. TablesRefer /\ PendingIsFree /\ OneLiveOffer
    BY DEF OpsInit, Init, NoOffer, TablesRefer, DeliveryStatus, RiderStatus, PendingIsFree, OneLiveOffer, IsLive
  <1> QED
    BY <1>1, <1>2, NobodyUnderway DEF SerialInv

(* When operations take turns, no delivery has two live offers: every      *)
(* admin's operation, cancellation and answer leaves at most one, even if  *)
(* calls fail and processes die half-way.                                  *)
THEOREM OneLiveOfferInTurn ==
  ASSUME ~SlowHandlers, Serial PROVE OpsSpec => []OneLiveOffer
  <1>1. SerialInv => OneLiveOffer
    BY DEF SerialInv
  <1>2. SerialInv /\ [OpsNext]_opsVars => SerialInv'
    BY SerialStep
  <1> QED
    BY <1>1, <1>2, SerialInit, PTL DEF OpsSpec

-------------------------------------------------------------------------------
(* The owner of a delivery, and his status, when no call has failed.       *)

(* Between their first and their last write, operations are here.          *)
Acting == {"busy", "sync", "accept", "landing", "free", "freeSync", "reopen", "finish"}

LEMMA QuietBacked ==
  ASSUME SerialInv, Backed, excused \subseteq excused', UNCHANGED <<rider, redis>>,
         \A u \in Task : pc[u] \notin Acting /\ pc'[u] \notin Acting \ {"finish"},
         \A o \in Offer : offer'[o].status = "ACCEPTED" <=> offer[o].status = "ACCEPTED",
         \A o \in Offer : offer[o].status = "ACCEPTED" =>
           offer'[o].delivery = offer[o].delivery /\ offer'[o].rider = offer[o].rider,
         \A d \in Delivery : delivery'[d] = "ASSIGNED" => delivery[d] = "ASSIGNED"
  PROVE  Backed'
  <1>1. \A o \in Offer : offer[o].status = "ACCEPTED" => offer[o].delivery \in Delivery
    BY DEF SerialInv, TablesRefer
  <1>2. ASSUME NEW d \in Delivery PROVE Owned(d)'
    <2>1. Owned(d) /\ \A u \in Task : ~BetweenWrites(u)
      BY DEF Backed, BetweenWrites, Acting
    <2> QED
      BY <2>1 DEF Owned, AcceptedOffers, OffersOf
  <1>3. ASSUME NEW o \in Offer PROVE Occupied(o)'
    <2>1. Occupied(o) /\ \A u \in Task : ~Delivering(u, o)
      BY DEF Backed, Delivering, Acting
    <2>2. \A r \in Rider : HasDelivery(r, o)' => HasDelivery(r, o)
      BY <1>1 DEF HasDelivery
    <2> QED
      BY <2>1, <2>2 DEF Occupied
  <1>4. \A u \in Task : RiderAsSet(u)'
    BY DEF RiderAsSet, Acting
  <1> QED
    BY <1>2, <1>3, <1>4 DEF Backed

(* Only t moves.                                                           *)
LEMMA QuietlyBacked ==
  ASSUME SerialInv, Backed, excused \subseteq excused', UNCHANGED <<rider, redis>>, NEW t \in Task,
         Alone(t), pc[t] \notin Acting, pc'[t] \notin Acting \ {"finish"},
         \A o \in Offer : offer'[o].status = "ACCEPTED" <=> offer[o].status = "ACCEPTED",
         \A o \in Offer : offer[o].status = "ACCEPTED" =>
           offer'[o].delivery = offer[o].delivery /\ offer'[o].rider = offer[o].rider,
         \A d \in Delivery : delivery'[d] = "ASSIGNED" => delivery[d] = "ASSIGNED"
  PROVE  Backed'
  <1>1. \A u \in Task : pc[u] \notin Acting /\ pc'[u] \notin Acting \ {"finish"}
    BY DEF Alone, Acting
  <1> QED
    BY <1>1, QuietBacked

(* Nothing is written that says who owns what.                             *)
LEMMA ReadsBacked ==
  ASSUME SerialInv, Backed, excused \subseteq excused', NEW t \in Task, Alone(t), UNCHANGED rows,
         pc[t] \notin Acting, pc'[t] \notin Acting \ {"finish"}
  PROVE  Backed'
  BY QuietlyBacked

(* What only t is doing.                                                   *)
LEMMA OnlyActor ==
  ASSUME SerialInv, NEW t \in Task, Alone(t), NEW u \in Task \ {t}
  PROVE  /\ ~BetweenWrites(u) /\ ~BetweenWrites(u)'
         /\ \A o : ~Delivering(u, o) /\ ~Delivering(u, o)'
         /\ RiderAsSet(u)'
  BY DEF Alone, BetweenWrites, Delivering, RiderAsSet

LEMMA BackedAlone ==
  ASSUME SerialInv, NEW t \in Task, Alone(t), RiderAsSet(t)',
         \A d \in Delivery : delivery'[d] = "ASSIGNED" =>
            (\E o \in AcceptedOffers(d)' : TRUE) \/ (BetweenWrites(t)' /\ loc'[t].delivery = d),
         \A o \in Offer, r \in Rider \ excused' : HasDelivery(r, o)' =>
            (rider'[r] = "BUSY" /\ redis'[r] = "BUSY") \/ Delivering(t, o)'
  PROVE  Backed'
  <1>1. \A d \in Delivery : Owned(d)'
    BY DEF Owned
  <1>2. \A o \in Offer : Occupied(o)'
    BY DEF Occupied
  <1>3. \A u \in Task : RiderAsSet(u)'
    BY OnlyActor
  <1> QED
    BY <1>1, <1>2, <1>3 DEF Backed

(* What was so before the step of t.                                       *)
LEMMA WasBacked ==
  ASSUME SerialInv, Backed, NEW t \in Task, Alone(t)
  PROVE  /\ RiderAsSet(t)
         /\ \A d \in Delivery : delivery[d] = "ASSIGNED" =>
              (\E o \in AcceptedOffers(d) : TRUE) \/ (BetweenWrites(t) /\ loc[t].delivery = d)
         /\ \A o \in Offer, r \in Rider \ excused : HasDelivery(r, o) =>
              (rider[r] = "BUSY" /\ redis[r] = "BUSY") \/ Delivering(t, o)
  BY OnlyActor DEF Backed, Owned, Occupied

(* An acceptance, from the delivery's write to the offer's.                *)
LEMMA AssignsBacked ==
  ASSUME SerialInv, Backed, excused \subseteq excused', NEW t \in Task, Alone(t), SetAssigned(t)
  PROVE  Backed'
  <1> DEFINE o == loc[t].offer
             d == loc[t].delivery
  <1>1. /\ pc[t] = "assign" /\ pc'[t] = "busy" /\ UNCHANGED <<rider, redis, offer, loc>>
        /\ delivery' = [delivery EXCEPT ![d] = "ASSIGNED"]
    BY InOrder DEF SetAssigned
  <1>2. o \in Offer /\ Exists(o) /\ offer[o].delivery = d /\ IsPending(o)
    BY <1>1, InOrder DEF InItsPlace, Answering, Underway, Referring, OfferAsRead
  <1>3. ~BetweenWrites(t) /\ \A p \in Offer : ~Delivering(t, p)
    BY <1>1 DEF BetweenWrites, Delivering
  <1>4. BetweenWrites(t)' /\ RiderAsSet(t)'
    BY <1>1 DEF BetweenWrites, RiderAsSet
  <1> HIDE DEF o, d
  <1>5. d = loc'[t].delivery /\ \A e \in Delivery \ {d} : delivery'[e] = delivery[e]
    BY <1>1 DEF d, SerialInv, TablesRefer
  <1>6. ASSUME NEW e \in Delivery, delivery'[e] = "ASSIGNED"
        PROVE  (\E p \in AcceptedOffers(e)' : TRUE) \/ loc'[t].delivery = e
    BY <1>1, <1>3, <1>5, <1>6, WasBacked DEF AcceptedOffers, OffersOf
  <1>7. ASSUME NEW p \in Offer, NEW r \in Rider \ excused', HasDelivery(r, p)'
        PROVE  rider'[r] = "BUSY" /\ redis'[r] = "BUSY"
    <2>1. offer[p].status = "ACCEPTED" /\ offer[p].rider = r /\ offer[p].delivery \in Delivery
      BY <1>1, <1>7 DEF HasDelivery, SerialInv, TablesRefer
    <2>2. offer[p].delivery # d
      BY <1>2, <2>1 DEF SerialInv, OneLiveOffer, SameDelivery, IsLive, IsPending
    <2>3. HasDelivery(r, p)
      BY <1>1, <1>5, <1>7, <2>1, <2>2 DEF HasDelivery
    <2> QED
      BY <1>1, <1>3, <2>3, WasBacked
  <1> QED
    BY <1>4, <1>6, <1>7, BackedAlone

LEMMA BusyBacked ==
  ASSUME SerialInv, Backed, excused \subseteq excused', NEW t \in Task, Alone(t),
         SetBusy(t) \/ SyncBusy(t) \/ ReleaseBeforeSave(t)
  PROVE  Backed'
  <1> DEFINE b == offer[loc[t].offer].rider
  <1>1. /\ pc[t] \in {"busy", "sync", "accept"} /\ pc'[t] \in {"sync", "accept", "landing"}
        /\ UNCHANGED <<delivery, offer, loc>>
        /\ pc[t] = "busy" => pc'[t] = "sync" /\ rider' = [rider EXCEPT ![b] = "BUSY"] /\ redis' = redis
        /\ pc[t] = "sync" => pc'[t] = "accept" /\ redis' = [redis EXCEPT ![b] = "BUSY"] /\ rider' = rider
        /\ pc[t] = "accept" => pc'[t] = "landing" /\ UNCHANGED <<rider, redis>>
    BY InOrder DEF SetBusy, SyncBusy, ReleaseBeforeSave
  <1>2. loc[t].offer \in Offer /\ Exists(loc[t].offer)
    BY <1>1, InOrder DEF InItsPlace, Answering, Underway, Referring
  <1>3. b \in Rider /\ b = offer[loc[t].offer].rider /\ rider \in [Rider -> RiderStatus] /\ redis \in [Rider -> RiderStatus]
    BY <1>2 DEF SerialInv, TablesRefer
  <1> HIDE DEF b
  <1>4. /\ \A r \in Rider : rider'[r] = rider[r] \/ rider'[r] = "BUSY"
        /\ \A r \in Rider : redis'[r] = redis[r] \/ redis'[r] = "BUSY"
        /\ pc[t] = "busy" => rider'[b] = "BUSY"
        /\ pc[t] = "sync" => redis'[b] = "BUSY"
    BY <1>1, <1>3
  <1>5. RiderAsSet(t)'
    <2>1. RiderAsSet(t)
      BY WasBacked
    <2>2. pc'[t] \in {"sync", "accept", "landing"} => rider'[b] = "BUSY"
      BY <1>1, <1>3, <1>4, <2>1 DEF RiderAsSet
    <2>3. pc'[t] \in {"accept", "landing"} => redis'[b] = "BUSY"
      BY <1>1, <1>3, <1>4, <2>1 DEF RiderAsSet
    <2> QED
      BY <1>1, <1>3, <2>2, <2>3 DEF RiderAsSet
  <1>6. BetweenWrites(t)' /\ \A p \in Offer : ~Delivering(t, p)
    BY <1>1 DEF BetweenWrites, Delivering
  <1>7. ASSUME NEW e \in Delivery, delivery'[e] = "ASSIGNED"
        PROVE  (\E p \in AcceptedOffers(e)' : TRUE) \/ loc'[t].delivery = e
    BY <1>1, <1>7, WasBacked DEF AcceptedOffers, OffersOf
  <1>8. ASSUME NEW p \in Offer, NEW r \in Rider \ excused', HasDelivery(r, p)'
        PROVE  rider'[r] = "BUSY" /\ redis'[r] = "BUSY"
    BY <1>1, <1>4, <1>6, <1>8, WasBacked DEF HasDelivery
  <1> QED
    BY <1>5, <1>6, <1>7, <1>8, BackedAlone

LEMMA AcceptsBacked ==
  ASSUME SerialInv, Backed, excused \subseteq excused', NEW t \in Task, Alone(t), SaveAccepted(t)
  PROVE  Backed'
  <1> DEFINE o == loc[t].offer
  <1>1. /\ pc[t] \in {"accept", "landing"} /\ offer' = Saved(t, "ACCEPTED") /\ Return(t)
        /\ UNCHANGED <<delivery, rider, redis>>
    BY DEF SaveAccepted
  <1>2. /\ o = loc[t].offer /\ o \in Offer /\ Exists(o) /\ IsPending(o)
        /\ offer[o].delivery = loc[t].delivery
    BY <1>1, InOrder DEF InItsPlace, Answering, Underway, Referring, OfferAsRead
  <1> HIDE DEF o
  <1>3. PICK x \in Row : /\ offer' = [offer EXCEPT ![o] = x] /\ x.status = "ACCEPTED"
                         /\ x.delivery = offer[o].delivery /\ x.rider = offer[o].rider
    BY <1>1, <1>2, SavedIsWritten DEF OfferStatus
  <1>4. /\ offer'[o].status = "ACCEPTED" /\ offer'[o].delivery = loc[t].delivery
        /\ offer'[o].rider = offer[o].rider /\ \A p \in Offer \ {o} : offer'[p] = offer[p]
    BY <1>2, <1>3, InOrder
  <1>5. pc'[t] \in {"idle", "release"}
    BY <1>1, ReturnLeaves
  <1>6. RiderAsSet(t)'
    BY <1>5 DEF RiderAsSet
  <1>7. rider[offer[o].rider] = "BUSY" /\ redis[offer[o].rider] = "BUSY"
    BY <1>1, <1>2, WasBacked DEF RiderAsSet
  <1>8. \A p \in Offer : ~Delivering(t, p)
    BY <1>1 DEF Delivering
  <1>9. ASSUME NEW e \in Delivery, delivery'[e] = "ASSIGNED"
        PROVE  \E p \in AcceptedOffers(e)' : TRUE
    <2>1. CASE e = loc[t].delivery
      <3>1. o \in AcceptedOffers(e)'
        BY <1>2, <1>4, <2>1 DEF AcceptedOffers, OffersOf
      <3> QED
        BY <3>1
    <2>2. CASE e # loc[t].delivery
      <3>1. PICK p \in AcceptedOffers(e) : TRUE
        BY <1>1, <1>9, <2>2, WasBacked
      <3>2. p # o /\ p \in AcceptedOffers(e)'
        BY <1>2, <1>4, <2>2, <3>1 DEF AcceptedOffers, OffersOf
      <3> QED
        BY <3>2
    <2> QED
      BY <2>1, <2>2
  <1>10. ASSUME NEW p \in Offer, NEW r \in Rider \ excused', HasDelivery(r, p)'
         PROVE  rider'[r] = "BUSY" /\ redis'[r] = "BUSY"
    <2>1. CASE p = o
      BY <1>1, <1>4, <1>7, <1>10, <2>1 DEF HasDelivery
    <2>2. CASE p # o
      <3>1. HasDelivery(r, p)
        BY <1>1, <1>4, <1>10, <2>2 DEF HasDelivery
      <3> QED
        BY <1>1, <1>8, <3>1, WasBacked
    <2> QED
      BY <2>1, <2>2
  <1> QED
    BY <1>6, <1>9, <1>10, BackedAlone

(* Whoever loses an accepted offer has no other delivery, unless he had    *)
(* accepted two at once, or the offer's delivery was done already.         *)
TakesFrom(t) ==
  /\ loc[t].offer \in Offer /\ offer[loc[t].offer].status = "ACCEPTED"
  /\ offer[loc[t].offer].delivery = loc[t].delivery
  /\ loc[t].op \notin Setters /\ offer[loc[t].offer].rider \in Rider
  /\ loc[t].op \in {"deliver", "cancelAccepted", "reassign"} \/ delivery[loc[t].delivery] = "ASSIGNED"

LEMMA TakenFromOne ==
  \A t \in Handler : Overbooked \cup SetAside \subseteq excused /\ TakesFrom(t) => OthersExcused(t)
  <1> SUFFICES ASSUME NEW t \in Handler, Overbooked \cup SetAside \subseteq excused, TakesFrom(t),
                      NEW p \in Offer, p # loc[t].offer, HasDelivery(Freed(t), p)
               PROVE  Freed(t) \in excused
    BY DEF OthersExcused
  <1> DEFINE o == loc[t].offer
  <1>1. Freed(t) = offer[o].rider /\ o \in Offer /\ o # None
    BY SetterNames, NoneIsFresh DEF TakesFrom, Freed
  <1>2. CASE delivery[loc[t].delivery] = "DELIVERED"
    <2>1. Freed(t) \in SetAside
      BY <1>1, <1>2 DEF SetAside, TakesFrom
    <2> QED
      BY <2>1
  <1>3. CASE delivery[loc[t].delivery] # "DELIVERED"
    <2>1. offer[o].status = "ACCEPTED" /\ delivery[offer[o].delivery] # "DELIVERED"
      BY <1>3 DEF TakesFrom
    <2>2. offer[p].rider = offer[o].rider /\ offer[p].status = "ACCEPTED" /\ delivery[offer[p].delivery] # "DELIVERED"
      BY <1>1 DEF HasDelivery
    <2> HIDE DEF o
    <2>3. Freed(t) \in Overbooked
      BY <1>1, <2>1, <2>2 DEF Overbooked, TakesFrom, o
    <2> QED
      BY <2>3
  <1> QED
    BY <1>2, <1>3

LEMMA TakenFromOneNext ==
  (\A t \in Handler : Overbooked \cup SetAside \subseteq excused /\ TakesFrom(t) => OthersExcused(t))'
  BY TakenFromOne, PTL

LEMMA FindAcceptedBacked ==
  ASSUME SerialInv, Backed, excused \subseteq excused', (Overbooked \cup SetAside \subseteq excused)',
         NEW t \in Handler, t \in Task, Alone(t), FindAccepted(t)
  PROVE  Backed'
  <1>1. loc[t].op \in {"reassign", "riderCancel", "deliver"} /\ pc[t] = "findAccepted" /\ UNCHANGED rows
    BY InOrder DEF FindAccepted, InItsPlace
  <1>2. CASE pc'[t] \notin Acting \ {"finish"}
    BY <1>1, <1>2, ReadsBacked DEF Acting
  <1>3. CASE pc'[t] \in Acting \ {"finish"}
    <2>1. PICK o \in OfferSought(t) :
            /\ Local(t, [loc[t] EXCEPT !.offer = o, !.snap = offer[o].attemptCount])
            /\ Goto(t, AfterFound[loc[t].op])
      BY <1>3, InOrder DEF FindAccepted, Acting
    <2>2. /\ o \in Offer /\ Exists(o) /\ offer[o].delivery = loc[t].delivery
          /\ offer[o].status = "ACCEPTED" /\ offer[o].rider \in Rider
      BY DEF OfferSought, AcceptedOffers, OffersOf, SerialInv, TablesRefer
    <2>3. loc'[t].op = loc[t].op /\ loc'[t].offer = o /\ loc'[t].delivery = loc[t].delivery
      BY <2>1, InOrder DEF OpsLocals
    <2>4. pc'[t] = "free" /\ loc[t].op = "deliver"
      BY <1>1, <1>3, <2>1, InOrder DEF AfterFound, Acting
    <2>5. TakesFrom(t)'
      BY <1>1, <2>2, <2>3, <2>4 DEF TakesFrom, Setters
    <2>6. OthersExcused(t)'
      BY <2>5, TakenFromOneNext
    <2>7. RiderAsSet(t)'
      BY <2>4, <2>6 DEF RiderAsSet
    <2>8. ~BetweenWrites(t) /\ \A p \in Offer : ~Delivering(t, p)
      BY <1>1 DEF BetweenWrites, Delivering
    <2>9. ASSUME NEW e \in Delivery, delivery'[e] = "ASSIGNED"
          PROVE  \E p \in AcceptedOffers(e)' : TRUE
      BY <1>1, <2>8, <2>9, WasBacked DEF AcceptedOffers, OffersOf
    <2>10. ASSUME NEW p \in Offer, NEW r \in Rider \ excused', HasDelivery(r, p)'
           PROVE  rider'[r] = "BUSY" /\ redis'[r] = "BUSY"
      BY <1>1, <2>8, <2>10, WasBacked DEF HasDelivery
    <2> QED
      BY <2>7, <2>9, <2>10, BackedAlone
  <1> QED
    BY <1>2, <1>3

LEMMA RevokeBacked ==
  ASSUME SerialInv, Backed, excused \subseteq excused', Overbooked \cup SetAside \subseteq excused,
         NEW t \in Handler, t \in Task, Alone(t), Revoke(t)
  PROVE  Backed'
  <1> DEFINE o == loc[t].offer
             s == IF loc[t].op = "riderCancel" THEN "REJECTED" ELSE "CANCELLED_BY_ADMIN"
  <1>1. pc[t] = "revoke" /\ Advance(t) /\ offer' = Saved(t, s)
        /\ UNCHANGED <<delivery, rider, redis, loc>>
    BY DEF Revoke
  <1>2. /\ o = loc[t].offer /\ o \in Offer /\ Exists(o) /\ offer[o].delivery = loc[t].delivery
        /\ offer[o].rider \in Rider
    BY <1>1, InOrder DEF Underway, Referring, SerialInv, TablesRefer
  <1>3. s \in OfferStatus /\ s # "ACCEPTED"
    BY DEF OfferStatus
  <1> HIDE DEF s, o
  <1>4. PICK x \in Row : /\ offer' = [offer EXCEPT ![o] = x] /\ x.status = s
                         /\ x.delivery = offer[o].delivery /\ x.rider = offer[o].rider
    BY <1>1, <1>2, <1>3, SavedIsWritten
  <1>5. /\ offer'[o].status # "ACCEPTED" /\ \A p \in Offer \ {o} : offer'[p] = offer[p]
        /\ offer'[o].rider = offer[o].rider
    BY <1>2, <1>3, <1>4, InOrder
  <1>6. <<loc[t].op, "revoke", pc'[t]>> \in PlanSteps
    BY <1>1, AdvanceFits DEF SerialInv, OpsInv
  <1>7. \/ loc[t].op \in {"riderCancel", "reassign"} /\ pc'[t] = "free"
        \/ loc[t].op = "cancelAccepted" /\ pc'[t] = "reopen"
        \/ loc[t].op = "cancelPending" /\ pc'[t] = "release"
    BY <1>6 DEF PlanSteps
  <1>8. CASE loc[t].op \in Takers
    <2>1. TakesFrom(t)
      BY <1>1, <1>2, <1>8, InOrder DEF Underway, OfferAsRead, DeliveryAsRead, TakesFrom, Takers, Setters
    <2>2. OthersExcused(t)
      BY <2>1, TakenFromOne
    <2>3. Freed(t)' = Freed(t) /\ loc[t].op \notin Setters
      BY <1>1, <1>2, <1>5, <1>8, SetterNames DEF Freed, Takers, Setters
    <2>4. \A p \in Offer : \A r : HasDelivery(r, p)' => HasDelivery(r, p) /\ p # o
      BY <1>1, <1>2, <1>5 DEF HasDelivery
    <2>5. OthersExcused(t)'
      BY <1>1, <1>2, <2>2, <2>3, <2>4 DEF OthersExcused
    <2>6. RiderAsSet(t)'
      BY <1>7, <2>5 DEF RiderAsSet
    <2>7. BetweenWrites(t)' /\ ~BetweenWrites(t) /\ \A p \in Offer : ~Delivering(t, p)
      BY <1>1, <1>7, <1>8 DEF BetweenWrites, Delivering, Takers
    <2>8. ASSUME NEW e \in Delivery, delivery'[e] = "ASSIGNED", e # loc[t].delivery
          PROVE  \E p \in AcceptedOffers(e)' : TRUE
      <3>1. PICK p \in AcceptedOffers(e) : TRUE
        BY <1>1, <2>7, <2>8, WasBacked
      <3>2. p \in Offer \ {o} /\ p \in AcceptedOffers(e)'
        BY <1>2, <1>5, <2>8, <3>1 DEF AcceptedOffers, OffersOf
      <3> QED
        BY <3>2
    <2>9. ASSUME NEW p \in Offer, NEW r \in Rider \ excused', HasDelivery(r, p)'
          PROVE  rider'[r] = "BUSY" /\ redis'[r] = "BUSY"
      BY <1>1, <2>4, <2>7, <2>9, WasBacked
    <2> QED
      BY <1>1, <2>6, <2>7, <2>8, <2>9, BackedAlone
  <1>9. CASE loc[t].op \notin Takers
    <2>1. loc[t].op = "cancelPending" /\ pc'[t] = "release" /\ IsPending(o)
      BY <1>1, <1>2, <1>7, <1>9, InOrder DEF Underway, OfferAsRead, Takers
    <2>2. \A p \in Offer : /\ offer'[p].status = "ACCEPTED" <=> offer[p].status = "ACCEPTED"
                           /\ offer[p].status = "ACCEPTED" => offer'[p] = offer[p]
      BY <1>5, <2>1 DEF IsPending
    <2> QED
      BY <1>1, <2>1, <2>2, QuietlyBacked DEF Acting
  <1> QED
    BY <1>8, <1>9

LEMMA FreesBacked ==
  ASSUME SerialInv, Backed, excused \subseteq excused', Overbooked \cup SetAside \subseteq excused,
         NEW t \in Handler, t \in Task, Alone(t), FreeRider(t) \/ FreeSync(t)
  PROVE  Backed'
  <1>1. /\ pc[t] \in {"free", "freeSync"} /\ Advance(t) /\ UNCHANGED <<delivery, offer, loc>>
        /\ rider' = [rider EXCEPT ![Freed(t)] = FreedStatus(t)] \/ rider' = rider
        /\ redis' = [redis EXCEPT ![Freed(t)] = FreedStatus(t)] \/ redis' = redis
    BY DEF FreeRider, FreeSync
  <1>2. <<loc[t].op, pc[t], pc'[t]>> \in PlanSteps
    BY <1>1, AdvanceFits DEF SerialInv, OpsInv
  <1>3. \/ pc[t] = "free" /\ pc'[t] = "freeSync" /\ loc[t].op \in Takers \cup {"deliver"} \cup Setters
        \/ pc[t] = "freeSync" /\ pc'[t] = "reopen" /\ loc[t].op \in {"riderCancel", "reassign"}
        \/ pc[t] = "freeSync" /\ pc'[t] = "finish" /\ loc[t].op = "deliver"
        \/ pc[t] = "freeSync" /\ pc'[t] = "end" /\ loc[t].op \in Setters
        \/ pc[t] = "freeSync" /\ pc'[t] = "release" /\ loc[t].op = "cancelAccepted"
    BY <1>1, <1>2, SetterNames DEF PlanSteps, Takers
  <1>4. RiderAsSet(t) /\ OthersExcused(t) /\ Freed(t)' = Freed(t)
    BY <1>1, WasBacked DEF RiderAsSet, Freed
  <1>5. \A p \in Offer : \A r : HasDelivery(r, p)' <=> HasDelivery(r, p)
    BY <1>1 DEF HasDelivery
  <1>6. RiderAsSet(t)'
    <2>1. OthersExcused(t)'
      BY <1>1, <1>4, <1>5 DEF OthersExcused
    <2> QED
      BY <1>3, <2>1 DEF RiderAsSet
  <1>7. ASSUME NEW e \in Delivery, delivery'[e] = "ASSIGNED"
        PROVE  (\E p \in AcceptedOffers(e)' : TRUE) \/ (BetweenWrites(t)' /\ loc'[t].delivery = e)
    <2>1. BetweenWrites(t) => BetweenWrites(t)'
      BY <1>1, <1>3 DEF BetweenWrites, Setters, Takers
    <2> QED
      BY <1>1, <1>7, <2>1, WasBacked DEF AcceptedOffers, OffersOf
  <1>8. ASSUME NEW p \in Offer, NEW r \in Rider \ excused', HasDelivery(r, p)'
        PROVE  (rider'[r] = "BUSY" /\ redis'[r] = "BUSY") \/ Delivering(t, p)'
    <2>1. HasDelivery(r, p) /\ r \notin excused
      BY <1>5, <1>8
    <2>2. CASE r # Freed(t)
      <3>1. rider'[r] = rider[r] /\ redis'[r] = redis[r]
        BY <1>1, <2>2 DEF SerialInv, TablesRefer
      <3>2. Delivering(t, p) => Delivering(t, p)'
        BY <1>1, <1>3 DEF Delivering, Takers, Setters
      <3> QED
        BY <2>1, <3>1, <3>2, WasBacked
    <2>3. CASE r = Freed(t)
      <3>1. p = loc[t].offer
        BY <1>4, <2>1, <2>3 DEF OthersExcused
      <3>2. loc[t].op \notin Setters
        <4>1. loc[t].op \in Setters => Freed(t) \in SetAside
          BY SetterNames DEF SetAside
        <4> QED
          BY <2>1, <2>3, <4>1
      <3>3. loc[t].op \notin Takers
        BY <1>1, <2>1, <3>1, InOrder DEF Underway, OfferAsRead, HasDelivery, IsLive
      <3> QED
        BY <1>1, <1>3, <3>1, <3>2, <3>3 DEF Delivering, Takers
    <2> QED
      BY <2>2, <2>3
  <1> QED
    BY <1>6, <1>7, <1>8, BackedAlone

LEMMA ReopenBacked ==
  ASSUME SerialInv, Backed, excused \subseteq excused', NEW t \in Task, Alone(t), Reopen(t)
  PROVE  Backed'
  <1> DEFINE d == loc[t].delivery
  <1>1. /\ pc[t] = "reopen" /\ Advance(t) /\ UNCHANGED <<rider, redis, offer, loc>>
        /\ delivery' = [delivery EXCEPT ![d] = "PENDING"]
    BY DEF Reopen
  <1> HIDE DEF d
  <1>2. <<loc[t].op, "reopen", pc'[t]>> \in PlanSteps
    BY <1>1, AdvanceFits DEF SerialInv, OpsInv
  <1>3. pc'[t] \in {"nearby", "replace", "free"}
    BY <1>2 DEF PlanSteps
  <1>4. \A e \in Delivery : delivery'[e] = "ASSIGNED" => delivery[e] = "ASSIGNED" /\ e # d
    BY <1>1 DEF SerialInv, TablesRefer
  <1>5. \A p \in Offer : \A r : HasDelivery(r, p)' => HasDelivery(r, p)
    BY <1>1, <1>4 DEF HasDelivery, SerialInv, TablesRefer
  <1>6. RiderAsSet(t)'
    <2>1. OthersExcused(t) /\ Freed(t)' = Freed(t)
      BY <1>1, WasBacked DEF RiderAsSet, Freed
    <2>2. OthersExcused(t)'
      BY <1>1, <1>5, <2>1 DEF OthersExcused
    <2> QED
      BY <1>3, <2>2 DEF RiderAsSet
  <1>7. ASSUME NEW e \in Delivery, delivery'[e] = "ASSIGNED"
        PROVE  \E p \in AcceptedOffers(e)' : TRUE
    BY <1>1, <1>4, <1>7, WasBacked DEF AcceptedOffers, OffersOf, d
  <1>8. ASSUME NEW p \in Offer, NEW r \in Rider \ excused', HasDelivery(r, p)'
        PROVE  rider'[r] = "BUSY" /\ redis'[r] = "BUSY"
    BY <1>1, <1>5, <1>8, WasBacked DEF Delivering
  <1> QED
    BY <1>6, <1>7, <1>8, BackedAlone

LEMMA FinishBacked ==
  ASSUME SerialInv, Backed, excused \subseteq excused', NEW t \in Task, Alone(t), Finish(t)
  PROVE  Backed'
  <1> DEFINE d == loc[t].delivery
  <1>1. /\ pc[t] = "finish" /\ pc'[t] = "idle" /\ UNCHANGED <<rider, redis, offer>>
        /\ delivery' = [delivery EXCEPT ![d] = "DELIVERED"]
    BY InOrder DEF Finish
  <1> HIDE DEF d
  <1>2. \A e \in Delivery : delivery'[e] = "ASSIGNED" => delivery[e] = "ASSIGNED" /\ e # d
    BY <1>1 DEF SerialInv, TablesRefer
  <1>3. \A p \in Offer : \A r : HasDelivery(r, p)' => HasDelivery(r, p) /\ offer[p].delivery # d
    BY <1>1, <1>2 DEF HasDelivery, SerialInv, TablesRefer
  <1>4. RiderAsSet(t)'
    BY <1>1 DEF RiderAsSet
  <1>5. \A p \in Offer : Delivering(t, p) => offer[p].delivery = d
    BY InOrder DEF Delivering, Underway, Referring, d
  <1>6. ASSUME NEW e \in Delivery, delivery'[e] = "ASSIGNED"
        PROVE  \E p \in AcceptedOffers(e)' : TRUE
    BY <1>1, <1>2, <1>6, WasBacked DEF AcceptedOffers, OffersOf, BetweenWrites
  <1>7. ASSUME NEW p \in Offer, NEW r \in Rider \ excused', HasDelivery(r, p)'
        PROVE  rider'[r] = "BUSY" /\ redis'[r] = "BUSY"
    BY <1>1, <1>3, <1>5, <1>7, WasBacked
  <1> QED
    BY <1>4, <1>6, <1>7, BackedAlone

(* The other steps of the operations.                                      *)
LEMMA OtherOperationsBacked ==
  ASSUME SerialInv, Backed, excused \subseteq excused', NEW t \in Task, Alone(t),
         CheckNewRider(t) \/ Acquire(t) \/ End(t) \/ FindPending(t) \/ CancelPending(t) \/ Replace(t)
  PROVE  Backed'
  <1>1. CASE CheckNewRider(t) \/ Acquire(t) \/ End(t) \/ FindPending(t)
    <2>1. UNCHANGED rows /\ pc[t] \notin Acting /\ pc'[t] \notin Acting
      BY <1>1, InOrder DEF CheckNewRider, Acquire, End, FindPending, Acting
    <2> QED
      BY <2>1, ReadsBacked
  <1>2. CASE CancelPending(t)
    <2>1. /\ pc[t] = "cancelPending" /\ UNCHANGED <<delivery, rider, redis>>
          /\ found[t] = {AsRead(o) : o \in {p \in OffersOf(loc[t].delivery) : IsPending(p)}}
          /\ pc'[t] \in {"cancelPending", "replace"}
      BY <1>2, InOrder DEF CancelPending, Underway, DeliveryAsRead
    <2>2. \A p \in Offer : /\ offer'[p].status = "ACCEPTED" <=> offer[p].status = "ACCEPTED"
                           /\ offer[p].status = "ACCEPTED" => offer'[p] = offer[p]
      <3>1. CASE UNCHANGED offer
        BY <3>1
      <3>2. ASSUME NEW f \in found[t],
                   offer' = [offer EXCEPT ![f.offer] =
                     [@ EXCEPT !.status = "CANCELLED_BY_ADMIN", !.attemptCount = f.snap]]
            PROVE  \A p \in Offer : /\ offer'[p].status = "ACCEPTED" <=> offer[p].status = "ACCEPTED"
                                    /\ offer[p].status = "ACCEPTED" => offer'[p] = offer[p]
        BY <2>1, <3>2, InOrder DEF IsPending, OffersOf, Row, AsRead
      <3> QED
        BY <1>2, <3>1, <3>2 DEF CancelPending
    <2> QED
      BY <2>1, <2>2, QuietlyBacked DEF Acting
  <1>3. CASE Replace(t)
    <2>1. pc[t] = "replace" /\ pc'[t] \in {"idle", "release"} /\ UNCHANGED <<delivery, rider, redis>>
      BY <1>3, InOrder DEF Replace
    <2>2. PICK o \in Offer : ~Exists(o) /\ offer' = [offer EXCEPT ![o] = NewOffer(loc[t].delivery, loc[t].rider)]
      BY <1>3 DEF Replace
    <2>3. \A p \in Offer : /\ offer'[p].status = "ACCEPTED" <=> offer[p].status = "ACCEPTED"
                           /\ offer[p].status = "ACCEPTED" => offer'[p] = offer[p]
      BY <2>2, InOrder DEF NewOffer
    <2> QED
      BY <2>1, <2>3, QuietlyBacked DEF Acting
  <1> QED
    BY <1>1, <1>2, <1>3

LEMMA BeginningsBacked ==
  ASSUME SerialInv, Backed, excused \subseteq excused', (Overbooked \cup SetAside \subseteq excused)',
         NEW t \in Handler, t \in Task, Alone(t), StartOperation(t), pc[t] = "idle"
  PROVE  Backed'
  <1>1. ASSUME NEW l, NEW step, Begin(t, l, step), UNCHANGED rows,
               step \in {"checkDelivery", "checkNewRider", "findAccepted", "acquire"}
        PROVE  Backed'
    <2>1. pc'[t] = step
      BY <1>1, InOrder
    <2> QED
      BY <1>1, <2>1, ReadsBacked DEF Acting
  <1>2. ASSUME NEW r \in Rider, NEW op \in DOMAIN StatusCalls, UpdateRider(t, r, op) PROVE Backed'
    <2>1. pc'[t] = "free" /\ loc'[t].op = op /\ UNCHANGED rows
      BY <1>2, InOrder DEF UpdateRider, Blank
    <2>2. Freed(t)' \in SetAside'
      BY <2>1 DEF SetAside
    <2>3. RiderAsSet(t)'
      BY <2>1, <2>2 DEF RiderAsSet, OthersExcused
    <2>4. ~BetweenWrites(t) /\ \A p \in Offer : ~Delivering(t, p)
      BY InOrder DEF BetweenWrites, Delivering, InItsPlace, Blank
    <2>5. ASSUME NEW e \in Delivery, delivery'[e] = "ASSIGNED"
          PROVE  \E p \in AcceptedOffers(e)' : TRUE
      BY <2>1, <2>4, <2>5, WasBacked DEF AcceptedOffers, OffersOf
    <2>6. ASSUME NEW p \in Offer, NEW x \in Rider \ excused', HasDelivery(x, p)'
          PROVE  rider'[x] = "BUSY" /\ redis'[x] = "BUSY"
      BY <2>1, <2>4, <2>6, WasBacked DEF HasDelivery
    <2> QED
      BY <2>3, <2>5, <2>6, BackedAlone
  <1>3. ASSUME NEW d \in Delivery, NEW r \in Rider,
               ManualOffer(t, d, r) \/ AssignDelivery(t, d, r) \/ ReassignDelivery(t, d, r) \/ CancelByRider(t, d, r)
        PROVE  Backed'
    BY <1>1, <1>3 DEF ManualOffer, AssignDelivery, ReassignDelivery, CancelByRider
  <1>4. ASSUME NEW d \in Delivery, SetDelivered(t, d) PROVE Backed'
    BY <1>1, <1>4 DEF SetDelivered
  <1>5. ASSUME NEW o \in Offer, CancelOffer(t, o) PROVE Backed'
    BY <1>1, <1>5 DEF CancelOffer
  <1> QED
    BY <1>2, <1>3, <1>4, <1>5 DEF StartOperation

(* The tasks of OfferDispatch.                                             *)
LEMMA EntriesBacked ==
  ASSUME SerialInv, Backed, excused \subseteq excused', StartDispatch, Serial
  PROVE  Backed'
  <1>1. \A u \in Task : pc[u] = "idle"
    BY DEF StartDispatch, Calls, MayStart
  <1>2. ASSUME NEW t \in Task, pc'[t] \in {"nearby", "read"}, \A u \in Task \ {t} : pc'[u] = pc[u],
               UNCHANGED <<rider, redis, offer>>,
               \A d \in Delivery : delivery'[d] = "ASSIGNED" => delivery[d] = "ASSIGNED"
        PROVE  Backed'
    <2>1. \A u \in Task : pc[u] \notin Acting /\ pc'[u] \notin Acting \ {"finish"}
      BY <1>1, <1>2 DEF Acting
    <2> QED
      BY <1>2, <2>1, QuietBacked
  <1>3. ASSUME NEW t \in Handler, NEW d \in Delivery, CreateDelivery(t, d) PROVE Backed'
    <2>1. /\ t \in Task /\ pc'[t] = "nearby" /\ \A u \in Task \ {t} : pc'[u] = pc[u]
          /\ UNCHANGED <<rider, redis, offer>>
      BY <1>3 DEF CreateDelivery, Task, SerialInv, OpsInv, OpsTypeOK
    <2>2. \A e \in Delivery : delivery'[e] = "ASSIGNED" => delivery[e] = "ASSIGNED"
      BY <1>3 DEF CreateDelivery, SerialInv, TablesRefer
    <2> QED
      BY <1>2, <2>1, <2>2
  <1>4. ASSUME NEW t \in Task, NEW l, Begin(t, l, "read"), UNCHANGED rows PROVE Backed'
    BY <1>2, <1>4, InOrder
  <1>5. ASSUME NEW t \in Worker, NEW j \in jobs, SkipTimeoutCheck(t, j) PROVE Backed'
    <2>1. \A u \in Task : pc[u] \notin Acting /\ pc'[u] \notin Acting \ {"finish"}
      BY <1>1, <1>5 DEF Acting, SkipTimeoutCheck
    <2> QED
      BY <1>5, <2>1, QuietBacked DEF SkipTimeoutCheck
  <1> QED
    BY <1>3, <1>4, <1>5 DEF StartDispatch, Work, Respond, TimeoutCheck, Task

(* No call fails in this step.                                             *)
LEMMA StepsBacked ==
  ASSUME SerialInv, Backed, excused \subseteq excused', NEW t \in Task, Step(t)
  PROVE  Backed'
  <1>1. Alone(t)
    BY MovesAlone
  <1>2. CASE ReadOffer(t) \/ Release(t)
    <2>1. UNCHANGED rows /\ pc[t] \notin Acting /\ pc'[t] \notin Acting
      BY <1>2, InOrder DEF ReadOffer, AfterRead, Release, Acting
    <2> QED
      BY <1>1, <2>1, ReadsBacked
  <1>3. CASE Expire(t) \/ SaveRejected(t)
    <2> DEFINE o == loc[t].offer
    <2>1. /\ pc[t] \in {"expire", "reject"} /\ UNCHANGED <<delivery, rider, redis>>
          /\ pc'[t] \in {"idle", "release", "exclude"}
          /\ \E s \in {"EXPIRED", "REJECTED"} : offer' = Saved(t, s)
      BY <1>3, InOrder DEF Expire, SaveRejected, RedispatchOrReturn, Return
    <2>2. o \in Offer /\ IsPending(o)
      BY <2>1, InOrder DEF InItsPlace, Answering, Underway, OfferAsRead
    <2>3. \A p \in Offer : /\ offer'[p].status = "ACCEPTED" <=> offer[p].status = "ACCEPTED"
                           /\ offer[p].status = "ACCEPTED" => offer'[p] = offer[p]
      <3>1. PICK s \in {"EXPIRED", "REJECTED"} : offer' = Saved(t, s)
        BY <2>1
      <3>2. PICK x \in Row : offer' = [offer EXCEPT ![o] = x] /\ x.status = s
        BY <2>2, <3>1, SavedIsWritten DEF OfferStatus
      <3> HIDE DEF o
      <3> QED
        BY <2>2, <3>2, InOrder DEF IsPending
    <2> QED
      BY <1>1, <2>1, <2>3, QuietlyBacked DEF Acting
  <1>4. CASE ExcludePrevious(t) \/ PickRider(t) \/ NoRider(t) \/ CheckDelivery(t) \/ CheckRider(t)
               \/ CheckPending(t) \/ Schedule(t) \/ Reschedule(t)
    <2>1. UNCHANGED rows /\ pc[t] \notin Acting /\ pc'[t] \notin Acting
      BY <1>4, InOrder, ReturnLeaves DEF ExcludePrevious, PickRider, NoRider, CheckDelivery, CheckRider,
         CheckPending, Check, Schedule, Reschedule, Acting
    <2> QED
      BY <1>1, <2>1, ReadsBacked
  <1>5. CASE InsertOffer(t)
    <2>1. pc[t] = "insert" /\ pc'[t] = "schedule" /\ UNCHANGED <<delivery, rider, redis>>
      BY <1>5, InOrder DEF InsertOffer
    <2>2. PICK o \in Offer : ~Exists(o) /\ offer' = [offer EXCEPT ![o] = NewOffer(loc[t].delivery, loc[t].rider)]
      BY <1>5 DEF InsertOffer
    <2>3. \A p \in Offer : /\ offer'[p].status = "ACCEPTED" <=> offer[p].status = "ACCEPTED"
                           /\ offer[p].status = "ACCEPTED" => offer'[p] = offer[p]
      BY <2>2, InOrder DEF NewOffer
    <2> QED
      BY <1>1, <2>1, <2>3, QuietlyBacked DEF Acting
  <1>6. CASE CountAttempt(t)
    <2>1. pc[t] = "count" /\ pc'[t] = "reschedule" /\ UNCHANGED <<delivery, rider, redis>>
      BY <1>6, InOrder DEF CountAttempt
    <2>2. \A p \in Offer : /\ offer'[p].status = offer[p].status /\ offer'[p].delivery = offer[p].delivery
                           /\ offer'[p].rider = offer[p].rider
      BY <1>6, InOrder DEF CountAttempt, Row
    <2> QED
      BY <1>1, <2>1, <2>2, QuietlyBacked DEF Acting
  <1> QED
    BY <1>1, <1>2, <1>3, <1>4, <1>5, <1>6, AssignsBacked, BusyBacked, AcceptsBacked
       DEF Step, Answer, Dispatch

LEMMA OnlyGrow ==
  ASSUME faults \in Nat, OpsNext, faults' = 0 PROVE faults = 0
  <1>1. ASSUME NEW job, Enqueue(job) PROVE faults = 0
    BY <1>1 DEF Enqueue
  <1>2. ASSUME NEW t \in Task, Answer(t) PROVE faults = 0
    BY <1>2 DEF Answer, ReadOffer, Expire, SetAssigned, SetBusy, SyncBusy, ReleaseBeforeSave, SaveAccepted,
       SaveRejected, Release
  <1>3. ASSUME NEW t \in Task, Dispatch(t) PROVE faults = 0
    BY <1>1, <1>3 DEF Dispatch, ExcludePrevious, PickRider, NoRider, CheckDelivery, CheckRider, CheckPending,
       Check, InsertOffer, Schedule, CountAttempt, Reschedule
  <1>4. StartDispatch => faults = 0
    BY DEF StartDispatch, CreateDelivery, Respond, Work, TimeoutCheck, SkipTimeoutCheck
  <1>5. ASSUME NEW t \in Task, Fail(t) PROVE faults = 0
    BY <1>5 DEF Fail
  <1>6. ASSUME NEW o \in Offer, Deadline(o) \/ LockExpires(o) PROVE faults = 0
    BY <1>6 DEF Deadline, LockExpires
  <1>7. ASSUME NEW d \in Delivery, NEW op, UpdateDelivery(d, op) PROVE faults = 0
    BY <1>7 DEF UpdateDelivery
  <1>8. ASSUME NEW t \in Handler, StartOperation(t) PROVE faults = 0
    BY <1>8 DEF StartOperation, ManualOffer, AssignDelivery, ReassignDelivery, CancelByRider, SetDelivered,
       CancelOffer, UpdateRider
  <1>9. ASSUME NEW t \in Handler, Operate(t) PROVE faults = 0
    <2>1. FailOperation(t) => faults = 0
      BY DEF FailOperation
    <2>2. ~FailOperation(t) => UNCHANGED faults
      BY <1>9 DEF Operate, FindAccepted, CheckNewRider, Acquire, Revoke, FreeRider, FreeSync, Reopen,
         Finish, End, FindPending, CancelPending, Replace
    <2> QED
      BY <2>1, <2>2
  <1>10. DispatchStep => faults = 0
    BY <1>2, <1>3, <1>4, <1>5, <1>6 DEF DispatchStep, Step
  <1>11. ASSUME NEW t \in Task, CrashOperation(t) PROVE faults = 0
    BY <1>11 DEF CrashOperation, Crash
  <1> QED
    BY <1>7, <1>8, <1>9, <1>10, <1>11 DEF OpsNext

LEMMA BackedStep ==
  ASSUME ~SlowHandlers, Serial, SerialInv, BackedInv, [OpsNext]_opsVars PROVE BackedInv'
  <1>1. CASE UNCHANGED opsVars
    <2>1. UNCHANGED <<rows, pc, loc, faults, excused>>
      BY <1>1 DEF opsVars, vars
    <2>2. (Overbooked \cup SetAside \subseteq excused)'
      BY <2>1 DEF BackedInv, Overbooked, SetAside, Freed
    <2>3. Backed => Backed'
      BY <2>1 DEF Backed, Owned, AcceptedOffers, OffersOf, BetweenWrites, Occupied, HasDelivery, Delivering,
         RiderAsSet, OthersExcused, Freed
    <2> QED
      BY <2>1, <2>2, <2>3 DEF BackedInv
  <1>2. CASE OpsNext
    <2>1. excused \subseteq excused' /\ (Overbooked \cup SetAside \subseteq excused)'
      BY <1>2 DEF OpsNext, Excuses
    <2> SUFFICES ASSUME faults' = 0 PROVE Backed'
      BY <2>1 DEF BackedInv
    <2>2. SerialInv /\ Overbooked \cup SetAside \subseteq excused /\ faults \in Nat
      BY DEF BackedInv, SerialInv, TablesRefer
    <2>3. ASSUME faults = 0, NEW t \in Task, Step(t) PROVE Backed'
      BY <2>1, <2>2, <2>3, StepsBacked DEF BackedInv
    <2>4. ASSUME faults = 0, NEW t \in Handler, StartOperation(t) PROVE Backed'
      <3>1. t \in Task /\ pc[t] = "idle"
        BY <2>4 DEF Task, StartOperation, Calls, MayStart
      <3>2. Alone(t)
        <4>1. \A u \in Task : pc[u] = "idle"
          BY <2>4 DEF StartOperation, Calls, MayStart
        <4>2. \A u \in Task \ {t} : pc'[u] = pc[u] /\ loc'[u] = loc[u]
          BY <2>4, <3>1, InOrder DEF StartOperation, ManualOffer, AssignDelivery, ReassignDelivery,
             CancelByRider, SetDelivered, CancelOffer, UpdateRider
        <4> QED
          BY <3>1, <4>1, <4>2, RunsAlone
      <3> QED
        BY <2>1, <2>2, <2>4, <3>1, <3>2, BeginningsBacked DEF BackedInv
    <2>5. ASSUME faults = 0, NEW t \in Handler, Operate(t), ~FailOperation(t) PROVE Backed'
      <3>1. t \in Task /\ Alone(t)
        BY <2>5, OperatesAlone DEF Task
      <3> QED
        BY <2>1, <2>2, <2>5, <3>1, FindAcceptedBacked, RevokeBacked, FreesBacked, ReopenBacked, FinishBacked,
           OtherOperationsBacked DEF BackedInv, Operate
    <2>6. ASSUME faults = 0, NEW d \in Delivery, NEW op \in DOMAIN DeliveryCalls, Calls(op), UpdateDelivery(d, op)
          PROVE  Backed'
      <3>1. \A u \in Task : pc[u] \notin Acting /\ pc'[u] \notin Acting
        BY <2>6 DEF Calls, MayStart, UpdateDelivery, Acting
      <3>2. \A e \in Delivery : delivery'[e] = "ASSIGNED" => delivery[e] = "ASSIGNED"
        BY <2>6 DEF UpdateDelivery, DeliveryCalls, SerialInv, TablesRefer
      <3> QED
        BY <2>1, <2>2, <2>6, <3>1, <3>2, QuietBacked DEF BackedInv, UpdateDelivery
    <2>7. ASSUME faults = 0, NEW o \in Offer, Deadline(o) \/ LockExpires(o) PROVE Backed'
      <3>1. UNCHANGED <<rows, pc, loc>>
        BY <2>7 DEF Deadline, LockExpires
      <3>2. Backed
        BY <2>7 DEF BackedInv
      <3> QED
        BY <2>1, <3>1, <3>2 DEF rows, Backed, Owned, AcceptedOffers, OffersOf, BetweenWrites, Occupied, HasDelivery,
           Delivering, RiderAsSet, OthersExcused, Freed
    <2>8. ASSUME faults = 0, StartDispatch PROVE Backed'
      BY <2>1, <2>2, <2>8, EntriesBacked DEF BackedInv
    <2>9. ASSUME NEW t \in Task, Fail(t) \/ FailOperation(t) \/ CrashOperation(t) PROVE FALSE
      BY <2>2, <2>9 DEF Fail, FailOperation, CrashOperation, Crash
    <2>10. faults = 0
      BY <2>2, <1>2, OnlyGrow
    <2> QED
      BY <1>2, <2>3, <2>4, <2>5, <2>6, <2>7, <2>8, <2>9, <2>10 DEF OpsNext, DispatchStep, Task
  <1> QED
    BY <1>1, <1>2

LEMMA BackedInit == OpsInit => BackedInv
  <1> SUFFICES ASSUME OpsInit PROVE BackedInv
    OBVIOUS
  <1>1. /\ \A d \in Delivery : delivery[d] = "NONE"
        /\ \A o \in Offer : offer[o].status = "NONE"
        /\ \A t \in Task : pc[t] = "idle" /\ loc[t] = Blank
    BY DEF OpsInit, Init, NoOffer
  <1>2. Overbooked = {} /\ SetAside = {}
    BY <1>1, SetterNames DEF Overbooked, SetAside, Blank, Setters, Task
  <1>3. Backed
    BY <1>1 DEF Backed, Owned, Occupied, HasDelivery, RiderAsSet
  <1> QED
    BY <1>2, <1>3 DEF BackedInv

(* When operations take turns and no call fails, each leaves every         *)
(* ASSIGNED delivery with the accepted offer that owns it, and none        *)
(* PENDING beside one: accept, cancel, assign, reassign and cancelByRider  *)
(* undo each other completely.                                             *)
THEOREM OwnedWhenIdleInTurn ==
  ASSUME ~SlowHandlers, Serial PROVE OpsSpec => []OwnedWhenIdle
  <1>1. SerialInv /\ BackedInv => OwnedWhenIdle
    <2> SUFFICES ASSUME SerialInv, BackedInv, Idle, faults = 0, NEW d \in Delivery
                 PROVE  /\ delivery[d] = "ASSIGNED" => AcceptedOffers(d) # {}
                        /\ delivery[d] = "PENDING" => AcceptedOffers(d) = {}
      BY DEF OwnedWhenIdle
    <2>1. \A t \in Task : pc[t] = "idle" /\ loc[t] = Blank
      BY DEF Idle, SerialInv, OpsInv, EachInItsPlace, InItsPlace
    <2>2. Owned(d) /\ \A t \in Task : ~BetweenWrites(t)
      BY <2>1 DEF BackedInv, Backed, BetweenWrites
    <2>3. delivery[d] = "PENDING" => AcceptedOffers(d) = {}
      BY DEF SerialInv, PendingIsFree, AcceptedOffers, OffersOf
    <2> QED
      BY <2>2, <2>3 DEF Owned
  <1>2. SerialInv /\ BackedInv /\ [OpsNext]_opsVars => (SerialInv /\ BackedInv)'
    BY SerialStep, BackedStep
  <1> QED
    BY <1>1, <1>2, SerialInit, BackedInit, PTL DEF OpsSpec

(* And with the rider of that offer BUSY in the table and in Redis, unless *)
(* he had two deliveries at once or was freed from one already delivered.  *)
THEOREM AssignedIsBusyInTurn ==
  ASSUME ~SlowHandlers, Serial PROVE OpsSpec => []AssignedIsBusy
  <1>1. SerialInv /\ BackedInv => AssignedIsBusy
    <2> SUFFICES ASSUME SerialInv, BackedInv, Idle, faults = 0, NEW o \in Offer,
                        offer[o].status = "ACCEPTED", delivery[offer[o].delivery] = "ASSIGNED",
                        offer[o].rider \notin excused
                 PROVE  rider[offer[o].rider] = "BUSY" /\ redis[offer[o].rider] = "BUSY"
      BY DEF AssignedIsBusy
    <2>1. \A t \in Task : ~Delivering(t, o)
      BY DEF Idle, Delivering
    <2>2. HasDelivery(offer[o].rider, o) /\ offer[o].rider \in Rider
      BY DEF HasDelivery, SerialInv, TablesRefer
    <2> QED
      BY <2>1, <2>2 DEF BackedInv, Backed, Occupied
  <1>2. SerialInv /\ BackedInv /\ [OpsNext]_opsVars => (SerialInv /\ BackedInv)'
    BY SerialStep, BackedStep
  <1> QED
    BY <1>1, <1>2, SerialInit, BackedInit, PTL DEF OpsSpec

-------------------------------------------------------------------------------
(* Answers, timeouts and the admin's cancelOffer in any order, beside      *)
(* deliveries that are reported and riders who set their status: the right *)
(* to dispatch a delivery is with one task, or with one offer that is      *)
(* live or that somebody is still at work on, or nobody has it any more.   *)

(* The operations that offer a delivery without having got that right.     *)
Reoffering == {"manual", "assign", "reassign", "riderCancel"}

TakesBack(t) == loc[t].op = "cancelAccepted" /\ pc[t] \in {"acquire", "revoke", "reopen"}
Taken(o) ==
  \/ offer[o].status = "ACCEPTED"
  \/ \E t \in Task : (Accepting(t) \/ TakesBack(t)) /\ loc[t].offer = o
Concerned(o) == IsPending(o) \/ Taken(o)
Answered(o) == \E t \in Task : pc[t] \in AnswerSteps /\ loc[t].offer = o

(* Who works on an offer knows it, and what it found is still so.          *)
Knows(t) ==
  /\ loc[t].op \notin Reoffering
  /\ loc[t].op \in HoldsLock \cup {"cancelPending", "cancelAccepted"} =>
       /\ loc[t].offer \in Offer /\ Exists(loc[t].offer)
       /\ loc[t].delivery = offer[loc[t].offer].delivery
  /\ pc[t] \in AnswerSteps => IsLive(loc[t].offer)
  /\ TakesBack(t) => ~IsPending(loc[t].offer)

(* A task dispatches alone. Only the offer it closed may concern others    *)
(* still, and then the delivery is not PENDING, so that it will not insert.*)
MayDispatch(t) ==
  Dispatching(t) =>
    /\ loc[t].delivery \in Delivery /\ delivery[loc[t].delivery] # "NONE"
    /\ \A u \in Task : Dispatching(u) /\ loc[u].delivery = loc[t].delivery => u = t
    /\ \A o \in OffersOf(loc[t].delivery) : Concerned(o) =>
         /\ loc[t].op \in HoldsLock /\ loc[t].offer = o /\ delivery[loc[t].delivery] # "PENDING"
         /\ pc[t] \notin {"checkRider", "checkPending", "insert"}

OneConcerned == \A o, p \in Offer : Concerned(o) /\ Concerned(p) /\ SameDelivery(o, p) => o = p
TakenIsSettled ==
  \A o \in Offer : Taken(o) /\ (IsPending(o) \/ Answered(o)) => delivery[offer[o].delivery] # "PENDING"

TokenInv ==
  /\ OpsInv /\ delivery \in [Delivery -> DeliveryStatus] /\ RowsRefer /\ AskedAreExcluded /\ OncePerRider
  /\ \A t \in Task : Knows(t) /\ MayDispatch(t)
  /\ OneConcerned /\ TakenIsSettled

-------------------------------------------------------------------------------
(* What the invariant says of one task.                                    *)
LEMMA InTheirPlaces ==
  ASSUME OpsInv, NEW t \in Task
  PROVE  /\ pc[t] = "idle" => loc[t] = Blank
         /\ pc[t] \in AnswerSteps \cup {"read", "landing"} => loc[t].op \in HoldsLock
         /\ loc[t].op \in HoldsLock /\ pc[t] \notin {"idle", "landing"} => lock[loc[t].offer] = t
         /\ loc[t].op \in HoldsLock =>
              pc[t] \in AnswerSteps \cup {"read", "landing", "release"} \cup Placing
         /\ loc[t].op \in AdminUnderLock /\ pc[t] \notin {"idle", "findAccepted", "checkNewRider", "acquire"}
              => lock[loc[t].offer] = t
         /\ pc[t] \in {"checkNewRider", "findPending", "cancelPending", "replace"} => loc[t].op \in Reoffering
         /\ pc[t] = "acquire" => loc[t].op \in AdminUnderLock
         /\ pc[t] = "findAccepted" => loc[t].op \in Reoffering \cup {"deliver"}
  BY DEF OpsInv, EachInItsPlace, InItsPlace, InsideHolds, InsideLock, HoldsAdminLock, AnswerSteps,
     Answering, Reoffering, HoldsLock, AdminUnderLock, Placing

LEMMA ConcernedExists ==
  ASSUME TokenInv, NEW o \in Offer, Concerned(o) \/ Answered(o)
  PROVE  Exists(o) /\ offer[o].delivery \in Delivery /\ delivery[offer[o].delivery] # "NONE"
  <1>1. Exists(o)
    <2>1. ASSUME NEW t \in Task, Accepting(t) \/ TakesBack(t) \/ pc[t] \in AnswerSteps, loc[t].offer = o
          PROVE  Exists(o)
      <3>1. loc[t].op \in HoldsLock \cup {"cancelAccepted"}
        BY <2>1, InTheirPlaces DEF TokenInv, Accepting, AnswerSteps, TakesBack
      <3> QED
        BY <2>1, <3>1 DEF TokenInv, Knows
    <2> QED
      BY <2>1 DEF Concerned, Taken, Answered, IsPending
  <1> QED
    BY <1>1 DEF TokenInv, RowsRefer

(* An answer's offer is live, and so it concerns; who has its lock is      *)
(* alone.                                                                  *)
LEMMA AnsweredIsLive ==
  ASSUME TokenInv, NEW o \in Offer, Answered(o) \/ IsLive(o) PROVE IsLive(o) /\ Concerned(o)
  BY DEF TokenInv, Knows, Answered, IsLive, IsPending, Concerned, Taken

-------------------------------------------------------------------------------
(* How a step of one task, or of none, keeps the invariant, as long as no  *)
(* offer is inserted.                                                      *)
Others(t) == \A u \in Task \ {t} : pc'[u] = pc[u] /\ loc'[u] = loc[u]
SameOffers ==
  \A o \in Offer :
    /\ offer'[o].delivery = offer[o].delivery /\ offer'[o].rider = offer[o].rider
    /\ offer'[o].status # "NONE" <=> offer[o].status # "NONE"
    /\ offer'[o].status = "PENDING" => offer[o].status = "PENDING"
    /\ due'[o] => offer[o].status # "NONE"

(* A delivery becomes PENDING for the first time, or nobody dispatches it  *)
(* or answers for it any more.                                             *)
Reopens(d) ==
  \/ delivery[d] \in {"PENDING", "NONE"}
  \/ /\ \A u \in Task : ~(Dispatching(u) /\ loc[u].delivery = d)
     /\ \A o \in Offer : offer[o].delivery = d => ~IsPending(o) /\ ~Answered(o)
SameDeliveries ==
  /\ delivery' \in [Delivery -> DeliveryStatus]
  /\ \A d \in Delivery : /\ delivery'[d] = "NONE" => delivery[d] = "NONE"
                         /\ delivery'[d] = "PENDING" => Reopens(d)

LEMMA KeepsTheRight ==
  ASSUME TokenInv, OpsInv', NEW t, Others(t), SameOffers, SameDeliveries,
         \A o \in Offer : Taken(o)' => Taken(o) \/ (IsLive(o) /\ delivery'[offer[o].delivery] # "PENDING"),
         \A u \in Task \ {t} : pc[u] \in AnswerSteps => offer'[loc[u].offer].status \in {"PENDING", "ACCEPTED"},
         t \in Task =>
           /\ Knows(t)' /\ MayDispatch(t)'
           /\ pc'[t] \in AnswerSteps =>
                (pc[t] \in AnswerSteps /\ loc'[t].offer = loc[t].offer) \/ IsPending(loc'[t].offer)
           /\ pc'[t] \in Excluding => PreviousRiders(loc'[t].delivery) \subseteq loc'[t].exclude
           /\ pc'[t] \in Choosing => loc'[t].rider \in Rider \ loc'[t].exclude
  PROVE  TokenInv'
  <1>1. \A o \in Offer : Concerned(o)' => Concerned(o)
    BY DEF SameOffers, Concerned, Taken, IsPending, IsLive
  <1>2. \A d : OffersOf(d)' = OffersOf(d) /\ PreviousRiders(d)' = PreviousRiders(d)
    BY DEF SameOffers, OffersOf, PreviousRiders
  <1>3. RowsRefer' /\ OncePerRider'
    BY DEF TokenInv, RowsRefer, OncePerRider, SameOffers, SameDeliveries, SameDelivery
  <1>4. AskedAreExcluded'
    <2> SUFFICES ASSUME NEW u \in Task
                 PROVE  /\ pc'[u] \in Excluding => PreviousRiders(loc[u].delivery)' \subseteq loc'[u].exclude
                        /\ pc'[u] \in Choosing => loc'[u].rider \in Rider \ loc'[u].exclude
      BY DEF AskedAreExcluded
    <2>1. PreviousRiders(loc[u].delivery)' = PreviousRiders(loc'[u].delivery)
      BY <1>2 DEF SameOffers, OffersOf, PreviousRiders
    <2> QED
      BY <2>1 DEF TokenInv, AskedAreExcluded, Others
  <1>5. OneConcerned'
    BY <1>1 DEF TokenInv, OneConcerned, SameDelivery, SameOffers
  <1>6. TakenIsSettled'
    <2> SUFFICES ASSUME NEW o \in Offer, Taken(o)', IsPending(o)' \/ Answered(o)',
                        delivery'[offer[o].delivery] = "PENDING"
                 PROVE  FALSE
      BY DEF TakenIsSettled, SameOffers
    <2>1. IsPending(o) \/ Answered(o)
      BY DEF SameOffers, IsPending, Answered, Others
    <2>2. Taken(o)
      OBVIOUS
    <2>3. delivery[offer[o].delivery] # "PENDING"
      BY <2>1, <2>2 DEF TokenInv, TakenIsSettled
    <2>4. offer[o].delivery \in Delivery /\ delivery[offer[o].delivery] # "NONE"
      BY <2>2, ConcernedExists DEF Concerned
    <2> QED
      BY <2>1, <2>3, <2>4 DEF SameDeliveries, Reopens
  <1>7. ASSUME NEW u \in Task PROVE Knows(u)' /\ MayDispatch(u)'
    <2>1. CASE u = t
      BY <2>1
    <2> SUFFICES ASSUME u # t PROVE Knows(u)' /\ MayDispatch(u)'
      BY <2>1
    <2>2. pc'[u] = pc[u] /\ loc'[u] = loc[u] /\ Knows(u) /\ MayDispatch(u)
      BY DEF TokenInv, Others
    <2>3. Knows(u)'
      <3>1. TakesBack(u) => loc[u].offer \in Offer
        BY <2>2 DEF Knows, TakesBack
      <3> QED
        BY <2>2, <3>1 DEF Knows, SameOffers, TakesBack, IsPending, IsLive
    <2>4. MayDispatch(u)'
      <3> SUFFICES ASSUME Dispatching(u) PROVE MayDispatch(u)'
        BY <2>2 DEF MayDispatch, Dispatching
      <3> DEFINE d == loc[u].delivery
      <3>1. d \in Delivery /\ delivery[d] # "NONE" /\ delivery'[d] # "NONE"
        BY <2>2 DEF MayDispatch, SameDeliveries
      <3>2. ASSUME NEW v \in Task, Dispatching(v)', loc'[v].delivery = d PROVE v = u
        <4>1. CASE v # t
          BY <2>2, <3>2, <4>1 DEF MayDispatch, Dispatching, Others
        <4>2. CASE v = t
          BY <2>2, <3>2, <4>2 DEF MayDispatch, Dispatching
        <4> QED
          BY <4>1, <4>2
      <3>3. ASSUME NEW o \in OffersOf(d), Concerned(o)'
            PROVE  /\ loc[u].op \in HoldsLock /\ loc[u].offer = o /\ delivery'[d] # "PENDING"
                   /\ pc[u] \notin {"checkRider", "checkPending", "insert"}
        <4>1. o \in Offer /\ Concerned(o)
          BY <1>1, <3>3 DEF OffersOf
        <4>2. loc[u].op \in HoldsLock /\ loc[u].offer = o /\ delivery[d] # "PENDING"
              /\ pc[u] \notin {"checkRider", "checkPending", "insert"}
          BY <2>2, <4>1 DEF MayDispatch
        <4> QED
          BY <3>1, <4>2 DEF SameDeliveries, Reopens
      <3> QED
        BY <1>2, <2>2, <3>1, <3>2, <3>3 DEF MayDispatch, SameOffers, OffersOf
    <2> QED
      BY <2>3, <2>4
  <1> QED
    BY <1>3, <1>4, <1>5, <1>6, <1>7 DEF TokenInv, SameDeliveries

(* A task that goes where it no longer answers, accepts or dispatches.     *)
LEMMA GoesQuietly ==
  ASSUME TokenInv, OpsInv', NEW t \in Task, Others(t), SameOffers, SameDeliveries,
         \A o \in Offer : offer'[o].status = "ACCEPTED" => offer[o].status = "ACCEPTED",
         \A u \in Task \ {t} : pc[u] \in AnswerSteps => offer'[loc[u].offer].status \in {"PENDING", "ACCEPTED"},
         pc'[t] \notin AnswerSteps \cup {"landing"} \cup DispatchSteps, ~TakesBack(t)', Knows(t)'
  PROVE  TokenInv'
  <1>1. ~Accepting(t)' /\ pc'[t] \notin AnswerSteps /\ ~Dispatching(t)'
    BY DEF Accepting, AnswerSteps, Dispatching
  <1>2. \A o \in Offer : Taken(o)' => Taken(o)
    BY <1>1 DEF Taken, Others, Accepting, TakesBack
  <1>3. MayDispatch(t)' /\ pc'[t] \notin Excluding /\ pc'[t] \notin Choosing
    BY <1>1 DEF MayDispatch, Dispatching, Excluding, Choosing
  <1> QED
    BY <1>1, <1>2, <1>3, KeepsTheRight

LEMMA Ends ==
  ASSUME OpsInv, NEW t \in Task, Return(t) \/ Done(t)
  PROVE  Others(t) /\ pc'[t] \in {"idle", "release"} /\ loc'[t] \in {Blank, loc[t]}
  BY DEF OpsInv, OpsTypeOK, Return, Others

LEMMA EndsQuietly ==
  ASSUME TokenInv, OpsInv', NEW t \in Task, Return(t) \/ Done(t), SameOffers, SameDeliveries,
         \A o \in Offer : offer'[o].status = "ACCEPTED" => offer[o].status = "ACCEPTED",
         \A u \in Task \ {t} : pc[u] \in AnswerSteps => offer'[loc[u].offer].status \in {"PENDING", "ACCEPTED"}
  PROVE  TokenInv'
  <1>1. Others(t) /\ pc'[t] \in {"idle", "release"} /\ loc'[t] \in {Blank, loc[t]}
    BY Ends DEF TokenInv
  <1>2. pc'[t] \notin AnswerSteps \cup {"landing"} \cup DispatchSteps /\ ~TakesBack(t)'
    BY <1>1 DEF AnswerSteps, DispatchSteps, TakesBack
  <1>3. Knows(t)'
    BY <1>1, <1>2 DEF TokenInv, Knows, Blank, HoldsLock, Reoffering, SameOffers
  <1> QED
    BY <1>1, <1>2, <1>3, GoesQuietly

(* Steps that leave the tables alone.                                      *)
LEMMA TablesStay ==
  ASSUME TokenInv, UNCHANGED <<delivery, offer>>, \A o \in Offer : due'[o] => due[o] \/ Exists(o)
  PROVE  /\ SameOffers /\ SameDeliveries
         /\ \A o \in Offer : offer'[o].status = "ACCEPTED" => offer[o].status = "ACCEPTED"
         /\ \A u \in Task : pc[u] \in AnswerSteps => offer'[loc[u].offer].status \in {"PENDING", "ACCEPTED"}
  BY DEF TokenInv, RowsRefer, SameOffers, SameDeliveries, Reopens, Knows, IsLive

LEMMA TasksStay ==
  ASSUME TokenInv, OpsInv', UNCHANGED <<offer, pc, loc>>, SameDeliveries,
         \A o \in Offer : due'[o] => due[o] \/ Exists(o)
  PROVE  TokenInv'
  <1>1. \A u \in Task : pc[u] \in AnswerSteps => offer'[loc[u].offer].status \in {"PENDING", "ACCEPTED"}
    BY DEF TokenInv, Knows, IsLive
  <1>2. \A o \in Offer : Taken(o)' => Taken(o)
    BY DEF Taken, Accepting, TakesBack
  <1>3. SameOffers /\ Others("free")
    BY DEF SameOffers, Others, TokenInv, RowsRefer
  <1> QED
    BY <1>1, <1>2, <1>3, LockWords, KeepsTheRight

-------------------------------------------------------------------------------
(* The entry points.                                                       *)
LEMMA EntriesKeep ==
  ASSUME TokenInv, OpsInv', StartDispatch PROVE TokenInv'
  <1> USE DEF OpsInv, OpsTypeOK
  <1>1. ASSUME NEW t \in Task, NEW o \in Offer, NEW l, Exists(o), Begin(t, l, "read"),
               l.op \in HoldsLock, l.offer = o, l.delivery = offer[o].delivery, UNCHANGED <<delivery, offer, due>>
        PROVE  TokenInv'
    <2>1. Others(t) /\ pc'[t] = "read" /\ loc'[t] = l
      BY <1>1 DEF TokenInv, Others
    <2>3. Knows(t)' /\ ~TakesBack(t)' /\ pc'[t] \notin AnswerSteps \cup {"landing"} \cup DispatchSteps
      BY <1>1, <2>1 DEF Knows, TakesBack, Reoffering, HoldsLock, AnswerSteps, DispatchSteps
    <2> QED
      BY <1>1, <2>1, <2>3, TablesStay, GoesQuietly
  <1>2. ASSUME NEW t \in Handler, NEW o \in Offer, NEW op \in {"accept", "reject"}, Respond(t, o, op)
        PROVE  TokenInv'
    <2> DEFINE l == [Blank EXCEPT !.op = op, !.offer = o, !.delivery = offer[o].delivery]
    <2>1. l.op = op /\ l.offer = o /\ l.delivery = offer[o].delivery
      BY DEF Blank
    <2>2. Begin(t, l, "read") /\ Exists(o) /\ UNCHANGED <<delivery, offer, due>>
      BY <1>2 DEF Respond
    <2> HIDE DEF l
    <2> QED
      BY <1>1, <2>1, <2>2 DEF HoldsLock, Task
  <1>3. ASSUME NEW t \in Worker, NEW j \in jobs, TimeoutCheck(t, j) PROVE TokenInv'
    <2>1. j.offer \in Offer /\ Exists(j.offer)
      BY <1>3 DEF TimeoutCheck, TokenInv, RowsRefer
    <2> DEFINE l == [Blank EXCEPT !.op = "timeout", !.offer = j.offer,
                                  !.delivery = offer[j.offer].delivery, !.attempt = j.attempt]
    <2>2. l.op = "timeout" /\ l.offer = j.offer /\ l.delivery = offer[j.offer].delivery
      BY DEF Blank
    <2>3. Begin(t, l, "read") /\ UNCHANGED <<delivery, offer, due>>
      BY <1>3 DEF TimeoutCheck
    <2> HIDE DEF l
    <2> QED
      BY <1>1, <2>1, <2>2, <2>3 DEF HoldsLock, Task
  <1>4. ASSUME NEW t \in Worker, NEW j \in jobs, SkipTimeoutCheck(t, j) PROVE TokenInv'
    BY <1>4, TasksStay, TablesStay DEF SkipTimeoutCheck
  <1>5. ASSUME NEW t \in Handler, NEW d \in Delivery, CreateDelivery(t, d) PROVE TokenInv'
    <2>1. t \in Task /\ Others(t) /\ pc'[t] = "nearby" /\ loc'[t] = [Blank EXCEPT !.op = "create", !.delivery = d]
      BY <1>5 DEF CreateDelivery, Task, TokenInv, Others
    <2>2. loc'[t].op = "create" /\ loc'[t].delivery = d /\ loc'[t].exclude = {}
      BY <2>1 DEF Blank
    <2>3. UNCHANGED <<offer, due>> /\ delivery[d] = "NONE" /\ \A e \in Delivery \ {d} : delivery'[e] = delivery[e]
      BY <1>5 DEF CreateDelivery
    <2>5. delivery'[d] # "NONE"
      BY <1>5 DEF CreateDelivery, TokenInv
    <2>6. SameDeliveries /\ SameOffers
      BY <1>5, <2>3, <2>5 DEF CreateDelivery, DeliveryStatus, SameDeliveries, SameOffers, Reopens, TokenInv, RowsRefer
    <2>7. OffersOf(d) = {} /\ OffersOf(d)' = {} /\ PreviousRiders(d)' = {}
      BY <2>3 DEF TokenInv, RowsRefer, OffersOf, PreviousRiders
    <2>8. \A u \in Task \ {t} : ~(Dispatching(u)' /\ loc'[u].delivery = d)
      BY <2>1, <2>3 DEF TokenInv, MayDispatch, Dispatching, Others
    <2>9. MayDispatch(t)'
      BY <2>2, <2>5, <2>7, <2>8 DEF MayDispatch, OffersOf
    <2>10. Knows(t)' /\ ~Accepting(t)' /\ ~TakesBack(t)' /\ pc'[t] \notin AnswerSteps /\ pc'[t] \notin Choosing
      BY <2>1, <2>2 DEF Knows, Accepting, TakesBack, AnswerSteps, Reoffering, HoldsLock, Choosing
    <2>11. \A o \in Offer : Taken(o)' => Taken(o)
      BY <2>1, <2>3, <2>10 DEF Taken, Others, Accepting, TakesBack
    <2>12. \A u \in Task : pc[u] \in AnswerSteps => offer'[loc[u].offer].status \in {"PENDING", "ACCEPTED"}
      BY <2>3 DEF TokenInv, Knows, IsLive
    <2>13. PreviousRiders(loc'[t].delivery) \subseteq loc'[t].exclude
      BY <2>2, <2>7 DEF PreviousRiders, OffersOf
    <2> QED
      BY <2>1, <2>6, <2>9, <2>10, <2>11, <2>12, <2>13, KeepsTheRight
  <1> QED
    BY <1>2, <1>3, <1>4, <1>5 DEF StartDispatch, Work

LEMMA OperationsBegin ==
  ASSUME Endpoints \cap Reoffering = {}, TokenInv, OpsInv', NEW t \in Handler, StartOperation(t)
  PROVE  TokenInv'
  <1> USE DEF OpsInv, OpsTypeOK
  <1>1. \A op \in Reoffering : ~Calls(op)
    BY DEF Calls
  <1>2. ASSUME NEW o \in Offer, CancelOffer(t, o) PROVE TokenInv'
    <2> DEFINE op == IF IsPending(o) THEN "cancelPending" ELSE "cancelAccepted"
    <2>1. t \in Task /\ Others(t) /\ pc'[t] = "acquire" /\ IsLive(o) /\ UNCHANGED <<delivery, offer, due>>
          /\ loc'[t] = [Blank EXCEPT !.op = op, !.offer = o, !.delivery = offer[o].delivery,
                                     !.snap = offer[o].attemptCount]
      BY <1>2 DEF CancelOffer, Task, TokenInv, Others
    <2>2. loc'[t].op = op /\ loc'[t].offer = o /\ loc'[t].delivery = offer[o].delivery
      BY <2>1 DEF Blank
    <2>3. Knows(t)'
      BY <2>1, <2>2 DEF Knows, TakesBack, Reoffering, HoldsLock, AnswerSteps, IsLive, IsPending
    <2>4. \A p \in Offer : Taken(p)' => Taken(p)
      <3>1. op = "cancelAccepted" => offer[o].status = "ACCEPTED"
        BY <2>1 DEF IsLive, IsPending
      <3>2. Others(t) /\ pc'[t] = "acquire" /\ UNCHANGED offer
        BY <2>1
      <3> HIDE DEF op
      <3>3. ~Accepting(t)' /\ (TakesBack(t)' => loc'[t].offer = o /\ offer[o].status = "ACCEPTED")
        BY <2>2, <3>1, <3>2 DEF Accepting, TakesBack
      <3> QED
        BY <3>2, <3>3 DEF Taken, Others, Accepting, TakesBack
    <2>5. MayDispatch(t)' /\ pc'[t] \notin AnswerSteps /\ pc'[t] \notin Excluding /\ pc'[t] \notin Choosing
      BY <2>1 DEF MayDispatch, Dispatching, DispatchSteps, AnswerSteps, Excluding, Choosing
    <2> QED
      BY <2>1, <2>3, <2>4, <2>5, TablesStay, KeepsTheRight
  <1>3. ASSUME NEW step \in {"findAccepted", "free"}, NEW l, Begin(t, l, step), UNCHANGED <<delivery, offer, due>>,
               l.op \in {"deliver", "goAvailable", "goBusy", "goOffline"}
        PROVE  TokenInv'
    <2>1. t \in Task /\ Others(t) /\ pc'[t] = step /\ loc'[t] = l
      BY <1>3 DEF Task, TokenInv, Others
    <2>2. Knows(t)' /\ ~TakesBack(t)' /\ pc'[t] \notin AnswerSteps \cup {"landing"} \cup DispatchSteps
      BY <1>3, <2>1 DEF Knows, TakesBack, Reoffering, HoldsLock, AnswerSteps, DispatchSteps
    <2> QED
      BY <1>3, <2>1, <2>2, TablesStay, GoesQuietly
  <1>4. ASSUME NEW d \in Delivery, SetDelivered(t, d) PROVE TokenInv'
    <2> DEFINE l == [Blank EXCEPT !.op = "deliver", !.delivery = d]
    <2>1. l.op = "deliver"
      BY DEF Blank
    <2>2. Begin(t, l, "findAccepted") /\ UNCHANGED <<delivery, offer, due>>
      BY <1>4 DEF SetDelivered
    <2> HIDE DEF l
    <2> QED
      BY <1>3, <2>1, <2>2
  <1>5. ASSUME NEW r \in Rider, NEW op \in DOMAIN StatusCalls, UpdateRider(t, r, op) PROVE TokenInv'
    <2> DEFINE l == [Blank EXCEPT !.op = op, !.rider = r]
    <2>1. l.op = op
      BY DEF Blank
    <2>2. Begin(t, l, "free") /\ UNCHANGED <<delivery, offer, due>>
      BY <1>5 DEF UpdateRider
    <2> HIDE DEF l
    <2> QED
      BY <1>3, <2>1, <2>2, StatusOps
  <1> QED
    BY <1>1, <1>2, <1>4, <1>5 DEF StartOperation, Reoffering

-------------------------------------------------------------------------------
(* Answers.                                                                *)
LEMMA SavedChanges ==
  ASSUME TokenInv, NEW t \in Task, loc[t].offer \in Offer, NEW s, offer' = Saved(t, s)
  PROVE  \A o \in Offer : /\ offer'[o].delivery = offer[o].delivery /\ offer'[o].rider = offer[o].rider
                          /\ offer'[o].status = IF o = loc[t].offer THEN s ELSE offer[o].status
  <1>1. offer \in [Offer -> Row]
    BY DEF TokenInv, OpsInv, OpsTypeOK
  <1>2. \A x \in Row : \A n : LET y == [x EXCEPT !.status = s, !.attemptCount = n]
                              IN y.delivery = x.delivery /\ y.rider = x.rider /\ y.status = s
    BY DEF Row
  <1> QED
    BY <1>1, <1>2 DEF Saved

(* Whoever changes the status of an offer under its lock meets nobody.     *)
LEMMA AloneOnOffer ==
  ASSUME TokenInv, NEW t \in Task, lock[loc[t].offer] = t
  PROVE  \A u \in Task \ {t} : pc[u] \in AnswerSteps => loc[u].offer # loc[t].offer
  <1>1. \A u \in Task : pc[u] \in AnswerSteps => lock[loc[u].offer] = u
    BY InTheirPlaces DEF TokenInv, AnswerSteps
  <1> QED
    BY <1>1

LEMMA Answers ==
  ASSUME TokenInv, NEW t \in Task, pc[t] \in AnswerSteps
  PROVE  /\ loc[t].op \in HoldsLock /\ loc[t].offer \in Offer /\ Exists(loc[t].offer)
         /\ loc[t].delivery = offer[loc[t].offer].delivery /\ loc[t].delivery \in Delivery
         /\ delivery[loc[t].delivery] # "NONE" /\ IsLive(loc[t].offer) /\ lock[loc[t].offer] = t
         /\ Knows(t) /\ ~Dispatching(t)
  <1>1. loc[t].op \in HoldsLock /\ lock[loc[t].offer] = t
    BY InTheirPlaces DEF TokenInv, AnswerSteps
  <1>2. Knows(t)
    BY DEF TokenInv
  <1>3. loc[t].offer \in Offer /\ Exists(loc[t].offer) /\ loc[t].delivery = offer[loc[t].offer].delivery
        /\ IsLive(loc[t].offer)
    BY <1>1, <1>2 DEF Knows
  <1> QED
    BY <1>1, <1>2, <1>3 DEF TokenInv, RowsRefer, Dispatching, DispatchSteps, AnswerSteps

LEMMA CloseKeepsToken ==
  ASSUME TokenInv, OpsInv', NEW t \in Task, pc[t] \in {"expire", "reject"}, NEW s \in {"EXPIRED", "REJECTED"},
         offer' = Saved(t, s), UNCHANGED <<delivery, due>>, NEW n, RedispatchOrReturn(t, n) \/ Return(t)
  PROVE  TokenInv'
  <1> DEFINE o == loc[t].offer
             d == loc[t].delivery
  <1>1. pc[t] \in AnswerSteps
    BY DEF AnswerSteps
  <1>2. /\ loc[t].op \in HoldsLock /\ o \in Offer /\ Exists(o) /\ d = offer[o].delivery /\ d \in Delivery
        /\ delivery[d] # "NONE" /\ IsLive(o) /\ lock[o] = t /\ Knows(t)
    BY <1>1, Answers
  <1>3. \A p \in Offer : /\ offer'[p].delivery = offer[p].delivery /\ offer'[p].rider = offer[p].rider
                         /\ offer'[p].status = IF p = o THEN s ELSE offer[p].status
    BY <1>2, SavedChanges
  <1>4. SameOffers /\ SameDeliveries
    BY <1>2, <1>3 DEF SameOffers, SameDeliveries, Reopens, TokenInv, RowsRefer
  <1>5. \A p \in Offer : offer'[p].status = "ACCEPTED" => offer[p].status = "ACCEPTED"
    BY <1>3
  <1>6. ASSUME NEW u \in Task \ {t}, pc[u] \in AnswerSteps
        PROVE  offer'[loc[u].offer].status \in {"PENDING", "ACCEPTED"}
    <2>1. loc[u].offer # o
      BY <1>2, <1>6, AloneOnOffer
    <2>2. loc[u].offer \in Offer /\ IsLive(loc[u].offer)
      BY <1>6, Answers
    <2> QED
      BY <1>3, <2>1, <2>2 DEF IsLive
  <1>7. CASE Return(t)
    BY <1>4, <1>5, <1>6, <1>7, EndsQuietly
  <1>8. CASE Goto(t, "exclude") /\ Local(t, [loc[t] EXCEPT !.attempt = n])
    <2>1. Others(t) /\ pc'[t] = "exclude"
      BY <1>8 DEF Others, TokenInv, OpsInv, OpsTypeOK
    <2>2. loc'[t].op = loc[t].op /\ loc'[t].offer = o /\ loc'[t].delivery = d
      BY <1>8 DEF TokenInv, OpsInv, OpsTypeOK, OpsLocals
    <2>3. Dispatching(t)' /\ ~Accepting(t)' /\ ~TakesBack(t)' /\ pc'[t] \notin AnswerSteps \cup Excluding \cup Choosing
      BY <2>1 DEF Dispatching, DispatchSteps, Accepting, TakesBack, AnswerSteps, Excluding, Choosing
    <2>4. \A p \in Offer : Taken(p)' => Taken(p)
      BY <1>5, <2>1, <2>3 DEF Taken, Others, Accepting, TakesBack
    <2>5. Knows(t)'
      BY <1>2, <1>4, <2>2, <2>3 DEF Knows, SameOffers
    <2>6. ASSUME NEW u \in Task, Dispatching(u)', loc'[u].delivery = d PROVE u = t
      <3> SUFFICES ASSUME u # t PROVE FALSE
        OBVIOUS
      <3>1. u # t /\ Dispatching(u) /\ loc[u].delivery = d
        BY <2>1, <2>6 DEF Dispatching, Others
      <3>2. o \in OffersOf(d) /\ Concerned(o)
        BY <1>2, AnsweredIsLive DEF OffersOf
      <3>3. loc[u].op \in HoldsLock /\ loc[u].offer = o
        BY <3>1, <3>2 DEF TokenInv, MayDispatch
      <3>4. lock[o] = u
        BY <3>1, <3>3, InTheirPlaces DEF TokenInv, Dispatching, DispatchSteps
      <3> QED
        BY <1>2, <3>1, <3>4
    <2>7. ASSUME NEW p \in Offer, offer[p].delivery = d, Concerned(p)' PROVE p = o /\ delivery[d] # "PENDING"
      <3>1. Concerned(p)
        BY <1>4, <2>4, <2>7 DEF Concerned, SameOffers, IsPending
      <3>2. p = o
        BY <1>2, <2>7, <3>1, AnsweredIsLive DEF TokenInv, OneConcerned, SameDelivery
      <3>3. Taken(o) /\ Answered(o)
        BY <1>1, <1>3, <2>4, <2>7, <3>2 DEF Concerned, IsPending, Answered
      <3> QED
        BY <1>2, <3>2, <3>3 DEF TokenInv, TakenIsSettled
    <2>8. MayDispatch(t)'
      BY <1>2, <1>4, <2>1, <2>2, <2>6, <2>7 DEF MayDispatch, OffersOf, SameOffers
    <2> QED
      BY <1>4, <1>6, <2>1, <2>3, <2>4, <2>5, <2>8, KeepsTheRight
  <1> QED
    BY <1>7, <1>8 DEF RedispatchOrReturn

LEMMA AcceptStepsKeep ==
  ASSUME TokenInv, OpsInv', NEW t \in Task, SetAssigned(t) \/ SetBusy(t) \/ SyncBusy(t) \/ ReleaseBeforeSave(t)
  PROVE  TokenInv'
  <1> DEFINE o == loc[t].offer
             d == loc[t].delivery
  <1>1. pc[t] \in AnswerSteps /\ UNCHANGED <<offer, due, loc>>
    BY DEF SetAssigned, SetBusy, SyncBusy, ReleaseBeforeSave, AnswerSteps
  <1>2. /\ loc[t].op \in HoldsLock /\ o \in Offer /\ Exists(o) /\ d = offer[o].delivery /\ d \in Delivery
        /\ delivery[d] # "NONE" /\ IsLive(o) /\ Knows(t)
    BY <1>1, Answers
  <1>3. Others(t) /\ pc'[t] \in {"busy", "sync", "accept", "landing"}
    BY <1>1 DEF SetAssigned, SetBusy, SyncBusy, ReleaseBeforeSave, Others, TokenInv, OpsInv, OpsTypeOK
  <1>4. ~SetAssigned(t) => UNCHANGED delivery /\ Accepting(t)
    BY DEF SetBusy, SyncBusy, ReleaseBeforeSave, Accepting
  <1>5. SetAssigned(t) => delivery' = [delivery EXCEPT ![d] = "ASSIGNED"] /\ delivery'[d] = "ASSIGNED"
    BY <1>2 DEF SetAssigned, TokenInv
  <1>6. SameOffers /\ SameDeliveries
    BY <1>1, <1>4, <1>5 DEF SameOffers, SameDeliveries, Reopens, TokenInv, RowsRefer, DeliveryStatus
  <1>7. ASSUME NEW p \in Offer, Taken(p)'
        PROVE  Taken(p) \/ (IsLive(p) /\ delivery'[offer[p].delivery] # "PENDING")
    <2>1. CASE p = o
      BY <1>2, <1>4, <1>5, <2>1 DEF Taken
    <2>2. CASE p # o
      BY <1>1, <1>3, <1>7, <2>2 DEF Taken, Others, Accepting, TakesBack
    <2> QED
      BY <2>1, <2>2
  <1>8. \A u \in Task : pc[u] \in AnswerSteps => offer'[loc[u].offer].status \in {"PENDING", "ACCEPTED"}
    BY <1>1, Answers DEF IsLive
  <1>9. Knows(t)' /\ MayDispatch(t)' /\ pc'[t] \notin Excluding \cup Choosing
    BY <1>1, <1>2, <1>3 DEF Knows, MayDispatch, Dispatching, DispatchSteps, Excluding, Choosing, TakesBack, IsLive
  <1> QED
    BY <1>1, <1>3, <1>6, <1>7, <1>8, <1>9, KeepsTheRight

LEMMA SaveAcceptedKeepsToken ==
  ASSUME TokenInv, OpsInv', NEW t \in Task, SaveAccepted(t) PROVE TokenInv'
  <1> DEFINE o == loc[t].offer
  <1>1. pc[t] \in {"accept", "landing"} /\ offer' = Saved(t, "ACCEPTED") /\ Return(t) /\ UNCHANGED <<delivery, due>>
    BY DEF SaveAccepted
  <1>2. loc[t].op \in HoldsLock /\ o \in Offer /\ Exists(o)
    BY <1>1, InTheirPlaces DEF TokenInv, Knows, AnswerSteps
  <1>3. \A p \in Offer : /\ offer'[p].delivery = offer[p].delivery /\ offer'[p].rider = offer[p].rider
                         /\ offer'[p].status = IF p = o THEN "ACCEPTED" ELSE offer[p].status
    BY <1>1, <1>2, SavedChanges
  <1>4. SameOffers /\ SameDeliveries
    BY <1>1, <1>2, <1>3 DEF SameOffers, SameDeliveries, Reopens, TokenInv, RowsRefer
  <1>5. Others(t) /\ pc'[t] \in {"idle", "release"} /\ loc'[t] \in {Blank, loc[t]}
    BY <1>1, Ends DEF TokenInv
  <1>6. /\ ~Accepting(t)' /\ ~TakesBack(t)' /\ ~Dispatching(t)'
        /\ pc'[t] \notin AnswerSteps \cup Excluding \cup Choosing
    BY <1>5 DEF Accepting, TakesBack, Dispatching, DispatchSteps, AnswerSteps, Excluding, Choosing
  <1>7. Taken(o)
    BY <1>1 DEF Taken, Accepting
  <1>8. \A p \in Offer : Taken(p)' => Taken(p)
    BY <1>3, <1>5, <1>6, <1>7 DEF Taken, Others, Accepting, TakesBack
  <1>9. \A u \in Task : pc[u] \in AnswerSteps => offer'[loc[u].offer].status \in {"PENDING", "ACCEPTED"}
    BY <1>3, Answers DEF IsLive
  <1>10. Knows(t)' /\ MayDispatch(t)'
    BY <1>4, <1>5, <1>6 DEF TokenInv, Knows, MayDispatch, Blank, HoldsLock, Reoffering, SameOffers
  <1> QED
    BY <1>4, <1>5, <1>6, <1>8, <1>9, <1>10, KeepsTheRight

LEMMA ReadOfferKeepsToken ==
  ASSUME TokenInv, OpsInv', NEW t \in Task, ReadOffer(t) PROVE TokenInv'
  <1> DEFINE o == loc[t].offer
  <1>1. pc[t] = "read" /\ UNCHANGED <<delivery, offer, due>> /\ Others(t) /\ pc'[t] = AfterRead(t)
    BY DEF ReadOffer, Others, TokenInv, OpsInv, OpsTypeOK
  <1>2. loc'[t].op = loc[t].op /\ loc'[t].offer = o /\ loc'[t].delivery = loc[t].delivery
    BY DEF ReadOffer, TokenInv, OpsInv, OpsTypeOK, OpsLocals
  <1>3. loc[t].op \in HoldsLock /\ Knows(t)
    BY <1>1, InTheirPlaces DEF TokenInv
  <1>4. pc'[t] \in {"release", "expire", "assign", "reject"} /\ (pc'[t] # "release" => IsPending(o))
    BY <1>1 DEF AfterRead
  <1>5. ~Accepting(t)' /\ ~TakesBack(t)' /\ ~Dispatching(t)' /\ pc'[t] \notin Excluding \cup Choosing
    BY <1>4 DEF Accepting, TakesBack, Dispatching, DispatchSteps, Excluding, Choosing
  <1>6. \A p \in Offer : Taken(p)' => Taken(p)
    BY <1>1, <1>5 DEF Taken, Others, Accepting, TakesBack
  <1>7. pc'[t] \in AnswerSteps => IsPending(loc'[t].offer)
    BY <1>2, <1>4 DEF AnswerSteps
  <1>8. Knows(t)' /\ MayDispatch(t)'
    BY <1>1, <1>2, <1>3, <1>5, <1>7 DEF Knows, MayDispatch, IsPending, IsLive
  <1> QED
    BY <1>1, <1>5, <1>6, <1>7, <1>8, TablesStay, KeepsTheRight

LEMMA AnswerKeepsToken ==
  ASSUME TokenInv, OpsInv', NEW t \in Task, Answer(t) PROVE TokenInv'
  <1>1. CASE Expire(t)
    BY <1>1, CloseKeepsToken DEF Expire
  <1>2. CASE SaveRejected(t)
    BY <1>2, CloseKeepsToken DEF SaveRejected
  <1>3. CASE Release(t)
    BY <1>3, TablesStay, EndsQuietly DEF Release
  <1> QED
    BY <1>1, <1>2, <1>3, ReadOfferKeepsToken, AcceptStepsKeep, SaveAcceptedKeepsToken DEF Answer

-------------------------------------------------------------------------------
(* Dispatching.                                                            *)
LEMMA ProceedsToDispatch ==
  ASSUME TokenInv, OpsInv', NEW t \in Task, Dispatching(t), Others(t), UNCHANGED <<delivery, offer, due>>,
         pc'[t] \in DispatchSteps,
         loc'[t].op = loc[t].op, loc'[t].offer = loc[t].offer, loc'[t].delivery = loc[t].delivery,
         pc'[t] \in {"checkRider", "checkPending", "insert"} =>
           pc[t] \in {"checkRider", "checkPending", "insert"} \/ delivery[loc[t].delivery] = "PENDING",
         pc'[t] \in Excluding => PreviousRiders(loc[t].delivery) \subseteq loc'[t].exclude,
         pc'[t] \in Choosing => loc'[t].rider \in Rider \ loc'[t].exclude
  PROVE  TokenInv'
  <1>1. ~Accepting(t)' /\ ~TakesBack(t)' /\ pc'[t] \notin AnswerSteps
    BY DEF Accepting, TakesBack, DispatchSteps, AnswerSteps
  <1>2. \A p \in Offer : (Taken(p)' => Taken(p)) /\ (Concerned(p)' => Concerned(p))
    BY <1>1 DEF Taken, Others, Accepting, TakesBack, Concerned, IsPending
  <1>3. Knows(t)'
    BY <1>1 DEF TokenInv, Knows
  <1>4. \A u \in Task \ {t} : Dispatching(u)' => Dispatching(u) /\ loc'[u] = loc[u]
    BY DEF Dispatching, Others
  <1>5. MayDispatch(t)
    BY DEF TokenInv
  <1>6. MayDispatch(t)'
    BY <1>2, <1>4, <1>5 DEF MayDispatch, OffersOf
  <1>7. PreviousRiders(loc'[t].delivery) = PreviousRiders(loc[t].delivery)
    OBVIOUS
  <1> QED
    BY <1>1, <1>2, <1>3, <1>6, <1>7, TablesStay, KeepsTheRight

LEMMA Chooses ==
  ASSUME TokenInv, NEW t \in Task
  PROVE  /\ pc[t] \in Excluding => PreviousRiders(loc[t].delivery) \subseteq loc[t].exclude
         /\ pc[t] \in Choosing => loc[t].rider \in Rider \ loc[t].exclude
  BY DEF TokenInv, AskedAreExcluded

LEMMA InsertKeepsToken ==
  ASSUME TokenInv, OpsInv', NEW t \in Task, InsertOffer(t) PROVE TokenInv'
  <1> DEFINE d == loc[t].delivery
             r == loc[t].rider
  <1>1. pc[t] = "insert" /\ Dispatching(t) /\ UNCHANGED <<delivery, due>> /\ Others(t) /\ pc'[t] = "schedule"
    BY DEF InsertOffer, Dispatching, DispatchSteps, Others, TokenInv, OpsInv, OpsTypeOK
  <1>2. PICK o \in Offer : ~Exists(o) /\ offer' = [offer EXCEPT ![o] = NewOffer(d, r)]
    BY DEF InsertOffer
  <1>3. loc'[t].op = loc[t].op /\ loc'[t].offer = loc[t].offer /\ loc'[t].delivery = d
    BY DEF InsertOffer, TokenInv, OpsInv, OpsTypeOK, OpsLocals
  <1>4. /\ offer'[o].status = "PENDING" /\ offer'[o].delivery = d /\ offer'[o].rider = r
        /\ \A p \in Offer \ {o} : offer'[p] = offer[p]
    BY <1>2 DEF NewOffer, TokenInv, OpsInv, OpsTypeOK
  <1>5. /\ d \in Delivery /\ delivery[d] # "NONE"
        /\ \A u \in Task : Dispatching(u) /\ loc[u].delivery = d => u = t
        /\ \A p \in OffersOf(d) : ~Concerned(p)
    BY <1>1 DEF TokenInv, MayDispatch
  <1>6. PreviousRiders(d) \subseteq loc[t].exclude /\ r \in Rider \ loc[t].exclude
    BY <1>1, Chooses DEF Excluding, Choosing, DispatchSteps
  <1> HIDE DEF d, r
  <1>7. /\ ~Accepting(t)' /\ ~TakesBack(t)' /\ ~Dispatching(t)'
        /\ pc'[t] \notin AnswerSteps \cup Excluding \cup Choosing
    BY <1>1 DEF Accepting, TakesBack, Dispatching, DispatchSteps, AnswerSteps, Excluding, Choosing
  <1>8. \A p \in Offer \ {o} : (Taken(p)' => Taken(p)) /\ (Concerned(p)' => Concerned(p))
    BY <1>1, <1>4, <1>7 DEF Taken, Others, Accepting, TakesBack, Concerned, IsPending
  <1>9. ~Taken(o)'
    <2>1. \A u \in Task : ~((Accepting(u) \/ TakesBack(u)) /\ loc[u].offer = o)
      BY <1>2, ConcernedExists DEF Concerned, Taken
    <2> QED
      BY <1>1, <1>4, <1>7, <2>1 DEF Taken, Others, Accepting, TakesBack
  <1>10. RowsRefer'
    <2>1. \A p \in Offer : offer'[p].status # "NONE" =>
            offer'[p].delivery \in Delivery /\ offer'[p].rider \in Rider /\ delivery[offer'[p].delivery] # "NONE"
      BY <1>4, <1>5, <1>6 DEF TokenInv, RowsRefer
    <2>2. \A p \in Offer : due[p] => offer'[p].status # "NONE"
      BY <1>2, <1>4 DEF TokenInv, RowsRefer
    <2> QED
      BY <1>1, <2>1, <2>2 DEF RowsRefer
  <1>11. OncePerRider'
    <2>1. \A p \in Offer \ {o} : Exists(p) /\ offer[p].delivery = d => offer[p].rider # r
      BY <1>6 DEF PreviousRiders, OffersOf
    <2> QED
      BY <1>4, <2>1 DEF TokenInv, OncePerRider, SameDelivery
  <1>12. \A e : e # d => OffersOf(e)' = OffersOf(e) /\ PreviousRiders(e)' = PreviousRiders(e)
    BY <1>2, <1>4 DEF OffersOf, PreviousRiders
  <1>13. AskedAreExcluded'
    <2> SUFFICES ASSUME NEW u \in Task
                 PROVE  /\ pc'[u] \in Excluding => PreviousRiders(loc[u].delivery)' \subseteq loc'[u].exclude
                        /\ pc'[u] \in Choosing => loc'[u].rider \in Rider \ loc'[u].exclude
      BY DEF AskedAreExcluded
    <2>1. CASE u = t
      BY <1>7, <2>1
    <2>2. CASE u # t
      <3>1. pc'[u] = pc[u] /\ loc'[u] = loc[u]
        BY <1>1, <2>2 DEF Others
      <3>2. pc[u] \in Excluding => loc[u].delivery # d
        BY <1>5, <2>2 DEF Excluding, Dispatching
      <3>3. pc[u] \in Excluding => PreviousRiders(loc[u].delivery)' = PreviousRiders(loc[u].delivery)
        BY <1>2, <1>4, <3>1, <3>2 DEF OffersOf, PreviousRiders
      <3> QED
        BY <3>1, <3>3, Chooses
    <2> QED
      BY <2>1, <2>2
  <1>14. ASSUME NEW u \in Task PROVE Knows(u)' /\ MayDispatch(u)'
    <2>1. Knows(u)'
      <3>1. Knows(u) /\ (loc'[u] = loc[u] \/ u = t) /\ (pc'[u] = pc[u] \/ u = t)
        BY <1>1 DEF TokenInv, Others
      <3>2. pc[u] \in AnswerSteps \/ TakesBack(u) => loc[u].op \in HoldsLock \cup {"cancelAccepted"}
        BY InTheirPlaces DEF TokenInv, TakesBack
      <3>3. ASSUME NEW p \in Offer, Exists(p) PROVE p # o /\ offer'[p] = offer[p]
        BY <1>2, <1>4, <3>3
      <3>4. CASE u = t
        <4>1. /\ pc'[t] \notin AnswerSteps /\ ~TakesBack(t)' /\ Knows(t)
              /\ loc'[t].op = loc[t].op /\ loc'[t].offer = loc[t].offer /\ loc'[t].delivery = loc[t].delivery
          BY <1>3, <1>7, <3>1, <3>4 DEF d
        <4>2. loc[t].op \in HoldsLock \cup {"cancelPending", "cancelAccepted"} =>
                loc[t].offer \in Offer /\ Exists(loc[t].offer) /\ offer'[loc[t].offer] = offer[loc[t].offer]
          BY <3>3, <4>1 DEF Knows
        <4>3. Knows(t)'
          BY <4>1, <4>2 DEF Knows
        <4> QED
          BY <3>4, <4>3
      <3>5. CASE u # t
        <4>1. pc'[u] = pc[u] /\ loc'[u] = loc[u] /\ (TakesBack(u)' <=> TakesBack(u))
          BY <3>1, <3>5 DEF TakesBack
        <4>2. loc[u].op \in HoldsLock \cup {"cancelPending", "cancelAccepted"} =>
                loc[u].offer \in Offer /\ Exists(loc[u].offer) /\ offer'[loc[u].offer] = offer[loc[u].offer]
          BY <3>1, <3>3 DEF Knows
        <4> QED
          BY <3>1, <3>2, <4>1, <4>2 DEF Knows, IsLive, IsPending
      <3> QED
        BY <3>4, <3>5
    <2>2. MayDispatch(u)'
      <3> SUFFICES ASSUME Dispatching(u), u # t PROVE MayDispatch(u)'
        BY <1>1, <1>7 DEF MayDispatch, Dispatching, Others
      <3>1. loc[u].delivery # d /\ MayDispatch(u) /\ pc'[u] = pc[u] /\ loc'[u] = loc[u]
        BY <1>1, <1>5 DEF TokenInv, Others
      <3>2. \A p \in OffersOf(loc[u].delivery)' : p \in OffersOf(loc[u].delivery) /\ p \in Offer \ {o}
        BY <1>4, <3>1 DEF OffersOf
      <3>3. \A v \in Task : Dispatching(v)' => Dispatching(v) /\ loc'[v] = loc[v]
        BY <1>1, <1>7 DEF Dispatching, Others
      <3> QED
        BY <1>1, <1>8, <3>1, <3>2, <3>3 DEF MayDispatch
    <2> QED
      BY <2>1, <2>2
  <1>15. OneConcerned'
    <2>1. ASSUME NEW p \in Offer \ {o}, Concerned(p)' PROVE Concerned(p) /\ offer[p].delivery # d
      BY <1>5, <1>8, <2>1, ConcernedExists DEF OffersOf
    <2> QED
      BY <1>4, <2>1 DEF TokenInv, OneConcerned, SameDelivery
  <1>16. TakenIsSettled'
    <2> SUFFICES ASSUME NEW p \in Offer, Taken(p)', IsPending(p)' \/ Answered(p)'
                 PROVE  delivery'[offer'[p].delivery] # "PENDING"
      BY DEF TakenIsSettled
    <2>1. p # o /\ Taken(p)
      BY <1>8, <1>9
    <2>2. IsPending(p) \/ Answered(p)
      BY <1>1, <1>4, <1>7, <2>1 DEF IsPending, Answered, Others
    <2> QED
      BY <1>1, <1>4, <2>1, <2>2 DEF TokenInv, TakenIsSettled
  <1>17. delivery' \in [Delivery -> DeliveryStatus]
    BY <1>1 DEF TokenInv
  <1> QED
    BY <1>10, <1>11, <1>13, <1>14, <1>15, <1>16, <1>17 DEF TokenInv

LEMMA DispatchKeepsToken ==
  ASSUME TokenInv, OpsInv', NEW t \in Task, Dispatch(t) PROVE TokenInv'
  <1>1. /\ pc \in [Task -> OpsSteps] /\ loc \in [Task -> OpsLocals] /\ offer \in [Offer -> Row]
        /\ (loc' = loc => loc'[t] = loc[t])
    BY DEF TokenInv, OpsInv, OpsTypeOK
  <1>2. CASE ExcludePrevious(t)
    <2>1. Others(t) /\ pc[t] = "exclude" /\ pc'[t] = "nearby" /\ UNCHANGED <<delivery, offer, due>>
      BY <1>1, <1>2 DEF ExcludePrevious, Others
    <2>2. /\ loc'[t].op = loc[t].op /\ loc'[t].offer = loc[t].offer /\ loc'[t].delivery = loc[t].delivery
          /\ loc'[t].exclude = PreviousRiders(loc[t].delivery)
      BY <1>1, <1>2 DEF ExcludePrevious, OpsLocals
    <2> QED
      BY <2>1, <2>2, ProceedsToDispatch DEF Dispatching, DispatchSteps, Choosing, Excluding
  <1>3. CASE PickRider(t)
    <2>1. PICK r \in NearbyAvailable \ loc[t].exclude : loc' = [loc EXCEPT ![t] = [loc[t] EXCEPT !.rider = r]]
      BY <1>3 DEF PickRider
    <2>2. Others(t) /\ pc[t] = "nearby" /\ pc'[t] = "checkDelivery" /\ UNCHANGED <<delivery, offer, due>>
      BY <1>1, <1>3 DEF PickRider, Others
    <2>3. /\ loc'[t].op = loc[t].op /\ loc'[t].offer = loc[t].offer /\ loc'[t].delivery = loc[t].delivery
          /\ loc'[t].exclude = loc[t].exclude /\ loc'[t].rider = r
      BY <1>1, <2>1 DEF OpsLocals
    <2>4. PreviousRiders(loc[t].delivery) \subseteq loc[t].exclude /\ r \in Rider \ loc[t].exclude
      BY <2>1, <2>2, Chooses DEF Excluding, DispatchSteps, NearbyAvailable
    <2> QED
      BY <2>2, <2>3, <2>4, ProceedsToDispatch DEF Dispatching, DispatchSteps, Choosing, Excluding
  <1>4. CASE NoRider(t)
    BY <1>4, TablesStay, EndsQuietly DEF NoRider
  <1>5. ASSUME NEW ok, NEW step \in {"checkDelivery", "checkRider", "checkPending"},
               NEW next \in {"checkRider", "checkPending", "insert"}, Check(t, step, ok, next),
               step = "checkDelivery" /\ ok => delivery[loc[t].delivery] = "PENDING"
        PROVE  TokenInv'
    <2>1. CASE Return(t)
      BY <1>5, <2>1, TablesStay, EndsQuietly DEF Check
    <2>2. CASE ok /\ Goto(t, next) /\ UNCHANGED loc
      <3>1. Others(t) /\ pc[t] = step /\ pc'[t] = next /\ loc'[t] = loc[t] /\ UNCHANGED <<delivery, offer, due>>
        BY <1>1, <1>5, <2>2 DEF Check, Others
      <3>2. PreviousRiders(loc[t].delivery) \subseteq loc[t].exclude /\ loc[t].rider \in Rider \ loc[t].exclude
        BY <1>5, <3>1, Chooses DEF Excluding, Choosing, DispatchSteps
      <3> QED
        BY <1>5, <2>2, <3>1, <3>2, ProceedsToDispatch DEF Dispatching, DispatchSteps
    <2> QED
      BY <1>5, <2>1, <2>2 DEF Check
  <1>6. CASE CheckDelivery(t) \/ CheckRider(t) \/ CheckPending(t)
    BY <1>5, <1>6 DEF CheckDelivery, CheckRider, CheckPending
  <1>7. CASE Schedule(t) \/ Reschedule(t) \/ CountAttempt(t)
    <2>1. SameOffers /\ SameDeliveries /\ \A o \in Offer : offer'[o].status = offer[o].status
      <3>1. ASSUME NEW f, NEW n, offer' = [offer EXCEPT ![f].attemptCount = n], NEW o \in Offer
            PROVE  /\ offer'[o].delivery = offer[o].delivery /\ offer'[o].rider = offer[o].rider
                   /\ offer'[o].status = offer[o].status
        BY <1>1, <3>1 DEF Row
      <3>2. \A o \in Offer : /\ offer'[o].delivery = offer[o].delivery /\ offer'[o].rider = offer[o].rider
                             /\ offer'[o].status = offer[o].status
        BY <1>1, <1>7, <3>1 DEF Schedule, Reschedule, CountAttempt
      <3>3. UNCHANGED <<delivery, due>>
        BY <1>7 DEF Schedule, Reschedule, CountAttempt
      <3> QED
        BY <3>2, <3>3 DEF SameOffers, SameDeliveries, Reopens, TokenInv, RowsRefer
    <2>2. \A u \in Task : pc[u] \in AnswerSteps => offer'[loc[u].offer].status \in {"PENDING", "ACCEPTED"}
      BY <2>1, Answers DEF IsLive
    <2>3. CASE Return(t)
      BY <2>1, <2>2, <2>3, EndsQuietly
    <2>4. CASE ~Return(t)
      <3>1. Others(t) /\ loc'[t] = loc[t] /\ pc'[t] \in {"count", "reschedule"}
        BY <1>1, <1>7, <2>4 DEF Schedule, Reschedule, CountAttempt, Others
      <3>2. pc'[t] \notin AnswerSteps \cup {"landing"} \cup DispatchSteps /\ ~TakesBack(t)'
        BY <3>1 DEF AnswerSteps, DispatchSteps, TakesBack
      <3>3. Knows(t)'
        BY <2>1, <3>1, <3>2 DEF TokenInv, Knows, SameOffers
      <3> QED
        BY <2>1, <2>2, <3>1, <3>2, <3>3, GoesQuietly
    <2> QED
      BY <2>3, <2>4
  <1> QED
    BY <1>2, <1>3, <1>4, <1>6, <1>7, InsertKeepsToken DEF Dispatch

-------------------------------------------------------------------------------
(* The operations: cancelOffer, "delivered" and the riders' own status.    *)
LEMMA SameOffersStay ==
  ASSUME TokenInv, UNCHANGED <<offer, due>>
  PROVE  /\ SameOffers
         /\ \A o \in Offer : offer'[o].status = "ACCEPTED" => offer[o].status = "ACCEPTED"
         /\ \A u \in Task : pc[u] \in AnswerSteps => offer'[loc[u].offer].status \in {"PENDING", "ACCEPTED"}
  BY DEF TokenInv, RowsRefer, SameOffers, Knows, IsLive

LEMMA MovesQuietly ==
  ASSUME TokenInv, OpsInv', NEW t \in Task, UNCHANGED <<delivery, offer, due>>,
         loc'[t].op = loc[t].op, Others(t),
         loc[t].op \in {"cancelPending", "cancelAccepted"} =>
           loc'[t].offer = loc[t].offer /\ loc'[t].delivery = loc[t].delivery,
         loc[t].op \notin HoldsLock,
         pc'[t] \notin AnswerSteps \cup {"landing"} \cup DispatchSteps, ~TakesBack(t)'
  PROVE  TokenInv'
  <1>1. Knows(t)'
    BY DEF TokenInv, Knows
  <1> QED
    BY <1>1, TablesStay, GoesQuietly

LEMMA AcquireKeepsToken ==
  ASSUME TokenInv, OpsInv', NEW t \in Task, Acquire(t) PROVE TokenInv'
  <1>1. CASE Done(t)
    BY <1>1, TablesStay, EndsQuietly DEF Acquire
  <1>2. CASE Goto(t, "revoke") /\ UNCHANGED loc
    <2>1. Others(t) /\ pc[t] = "acquire" /\ pc'[t] = "revoke" /\ UNCHANGED <<loc, delivery, offer, due>>
      BY <1>2 DEF Acquire, Others, TokenInv, OpsInv, OpsTypeOK
    <2>2. /\ ~Accepting(t)' /\ ~Dispatching(t)' /\ pc'[t] \notin AnswerSteps \cup Excluding \cup Choosing
          /\ TakesBack(t)' => TakesBack(t)
      BY <2>1 DEF Accepting, Dispatching, DispatchSteps, AnswerSteps, Excluding, Choosing, TakesBack
    <2>3. \A p \in Offer : Taken(p)' => Taken(p)
      BY <2>1, <2>2 DEF Taken, Others, Accepting, TakesBack
    <2>4. Knows(t)' /\ MayDispatch(t)'
      BY <2>1, <2>2 DEF TokenInv, Knows, MayDispatch, IsPending
    <2> QED
      BY <2>1, <2>2, <2>3, <2>4, TablesStay, KeepsTheRight
  <1> QED
    BY <1>1, <1>2 DEF Acquire

(* What an operation still is in the middle of its plan.                   *)
LEMMA Advances ==
  ASSUME TokenInv, NEW t \in Task, Advance(t)
  PROVE  /\ UNCHANGED loc => Others(t)
         /\ <<loc[t].op, pc[t], pc'[t]>> \in PlanSteps
         /\ loc[t].op \in {"deliver", "goAvailable", "goBusy", "goOffline", "cancelPending", "cancelAccepted"}
         /\ loc[t].op \notin HoldsLock
         /\ loc[t].op \in AdminUnderLock =>
              /\ loc[t].offer \in Offer /\ Exists(loc[t].offer) /\ lock[loc[t].offer] = t
              /\ loc[t].delivery = offer[loc[t].offer].delivery
  <1>1. /\ <<loc[t].op, pc[t], pc'[t]>> \in PlanSteps /\ pc' = [pc EXCEPT ![t] = pc'[t]]
        /\ loc[t].op \in {"riderCancel", "deliver", "goAvailable", "goBusy", "goOffline"} \cup AdminUnderLock
    BY AdvanceFits DEF TokenInv, OpsInv
  <1>2. UNCHANGED loc => Others(t)
    BY <1>1 DEF Others, TokenInv, OpsInv, OpsTypeOK
  <1>3. loc[t].op \in {"deliver", "goAvailable", "goBusy", "goOffline", "cancelPending", "cancelAccepted"}
    BY <1>1 DEF TokenInv, Knows, Reoffering, AdminUnderLock
  <1>4. pc[t] \in {"revoke", "free", "freeSync", "reopen", "replace"}
    BY <1>1, StatusOps DEF PlanSteps
  <1>5. loc[t].op \notin HoldsLock
    BY <1>3 DEF HoldsLock
  <1>6. loc[t].op \in AdminUnderLock => loc[t].op \in {"cancelPending", "cancelAccepted"} /\ lock[loc[t].offer] = t
    BY <1>3, <1>4, InTheirPlaces DEF TokenInv, AdminUnderLock
  <1>7. loc[t].op \in AdminUnderLock =>
          /\ loc[t].offer \in Offer /\ Exists(loc[t].offer)
          /\ loc[t].delivery = offer[loc[t].offer].delivery
    BY <1>6 DEF TokenInv, Knows
  <1> QED
    BY <1>1, <1>2, <1>3, <1>5, <1>6, <1>7

LEMMA FreesKeepToken ==
  ASSUME TokenInv, OpsInv', NEW t \in Task, FreeRider(t) \/ FreeSync(t) PROVE TokenInv'
  <1>1. Advance(t) /\ pc[t] \in {"free", "freeSync"} /\ UNCHANGED <<delivery, offer, due, loc>>
    BY DEF FreeRider, FreeSync
  <1>2. Others(t) /\ <<loc[t].op, pc[t], pc'[t]>> \in PlanSteps /\ loc[t].op \notin HoldsLock \cup {"riderCancel", "reassign"}
    BY <1>1, Advances DEF HoldsLock
  <1>3. pc'[t] \in {"freeSync", "release", "finish", "end"}
    BY <1>1, <1>2, StatusOps DEF PlanSteps
  <1>4. pc'[t] \notin AnswerSteps \cup {"landing"} \cup DispatchSteps /\ ~TakesBack(t)'
    BY <1>3 DEF AnswerSteps, DispatchSteps, TakesBack
  <1> QED
    BY <1>1, <1>2, <1>4, MovesQuietly

LEMMA RevokeKeepsToken ==
  ASSUME TokenInv, OpsInv', NEW t \in Task, Revoke(t) PROVE TokenInv'
  <1> DEFINE o == loc[t].offer
  <1>1. Advance(t) /\ pc[t] = "revoke" /\ UNCHANGED <<delivery, due, loc>>
    BY DEF Revoke
  <1>2. /\ Others(t) /\ <<loc[t].op, pc[t], pc'[t]>> \in PlanSteps
        /\ loc[t].op \in {"deliver", "goAvailable", "goBusy", "goOffline", "cancelPending", "cancelAccepted"}
    BY <1>1, Advances
  <1>3. \/ loc[t].op = "cancelAccepted" /\ pc'[t] = "reopen"
        \/ loc[t].op = "cancelPending" /\ pc'[t] = "release"
    BY <1>1, <1>2, StatusOps DEF PlanSteps
  <1>4. o \in Offer /\ Exists(o) /\ lock[o] = t
    BY <1>1, <1>3, Advances DEF AdminUnderLock
  <1>5. \A p \in Offer : /\ offer'[p].delivery = offer[p].delivery /\ offer'[p].rider = offer[p].rider
                         /\ offer'[p].status = IF p = o THEN "CANCELLED_BY_ADMIN" ELSE offer[p].status
    BY <1>3, <1>4, SavedChanges DEF Revoke
  <1>6. SameOffers /\ SameDeliveries
    BY <1>1, <1>4, <1>5 DEF SameOffers, SameDeliveries, Reopens, TokenInv, RowsRefer
  <1>7. /\ ~Accepting(t)' /\ ~Dispatching(t)' /\ pc'[t] \notin AnswerSteps \cup Excluding \cup Choosing
        /\ TakesBack(t)' => TakesBack(t)
    BY <1>1, <1>3 DEF Accepting, Dispatching, DispatchSteps, AnswerSteps, Excluding, Choosing, TakesBack
  <1>8. \A p \in Offer : Taken(p)' => Taken(p)
    BY <1>1, <1>2, <1>5, <1>7 DEF Taken, Others, Accepting, TakesBack
  <1>9. ASSUME NEW u \in Task \ {t}, pc[u] \in AnswerSteps
        PROVE  offer'[loc[u].offer].status \in {"PENDING", "ACCEPTED"}
    <2>1. loc[u].offer # o
      BY <1>4, <1>9, AloneOnOffer
    <2>2. loc[u].offer \in Offer /\ IsLive(loc[u].offer)
      BY <1>9, Answers
    <2> QED
      BY <1>5, <2>1, <2>2 DEF IsLive
  <1>10. offer'[o].status = "CANCELLED_BY_ADMIN" /\ offer'[o].delivery = offer[o].delivery
    BY <1>4, <1>5
  <1>11. Knows(t)' /\ MayDispatch(t)'
    BY <1>1, <1>3, <1>4, <1>7, <1>10 DEF TokenInv, Knows, MayDispatch, IsPending
  <1> QED
    BY <1>2, <1>6, <1>7, <1>8, <1>9, <1>11, KeepsTheRight

(* The delivery of an accepted offer is PENDING again when nobody else is  *)
(* at work on it: who could be, would have the lock.                       *)
LEMMA ReopenKeepsToken ==
  ASSUME TokenInv, OpsInv', NEW t \in Task, Reopen(t) PROVE TokenInv'
  <1> DEFINE o == loc[t].offer
             d == loc[t].delivery
  <1>1. Advance(t) /\ pc[t] = "reopen" /\ UNCHANGED <<offer, due, loc>>
        /\ delivery' = [delivery EXCEPT ![d] = "PENDING"]
    BY DEF Reopen
  <1>2. /\ Others(t) /\ <<loc[t].op, pc[t], pc'[t]>> \in PlanSteps
        /\ loc[t].op \in {"deliver", "goAvailable", "goBusy", "goOffline", "cancelPending", "cancelAccepted"}
    BY <1>1, Advances
  <1>3. loc[t].op = "cancelAccepted" /\ pc'[t] = "free" /\ loc[t].op \notin HoldsLock
    BY <1>1, <1>2, StatusOps DEF PlanSteps, HoldsLock
  <1>4. o \in Offer /\ Exists(o) /\ lock[o] = t /\ d = offer[o].delivery /\ d \in Delivery
    BY <1>1, <1>3, Advances DEF AdminUnderLock, TokenInv, RowsRefer
  <1>5. TakesBack(t) /\ Concerned(o) /\ ~IsPending(o) /\ o \in OffersOf(d)
    BY <1>1, <1>3, <1>4 DEF TakesBack, Taken, Concerned, TokenInv, Knows, OffersOf
  <1>6. ASSUME NEW u \in Task, Dispatching(u), loc[u].delivery = d PROVE FALSE
    <2>1. loc[u].op \in HoldsLock /\ loc[u].offer = o
      BY <1>5, <1>6 DEF TokenInv, MayDispatch
    <2>2. lock[o] = u
      BY <1>6, <2>1, InTheirPlaces DEF TokenInv, Dispatching, DispatchSteps
    <2> QED
      BY <1>3, <1>4, <2>1, <2>2
  <1>7. ASSUME NEW p \in Offer, offer[p].delivery = d, IsPending(p) \/ Answered(p) PROVE FALSE
    <2>1. Concerned(p)
      BY <1>7, AnsweredIsLive DEF Concerned
    <2>2. p = o /\ Answered(o)
      BY <1>4, <1>5, <1>7, <2>1 DEF TokenInv, OneConcerned, SameDelivery
    <2> QED
      BY <1>1, <1>4, <2>2, AloneOnOffer DEF Answered, AnswerSteps
  <1>8. Reopens(d)
    BY <1>6, <1>7 DEF Reopens
  <1>9. SameDeliveries
    BY <1>1, <1>4, <1>8 DEF TokenInv, SameDeliveries, DeliveryStatus, Reopens
  <1>10. pc'[t] \notin AnswerSteps \cup {"landing"} \cup DispatchSteps /\ ~TakesBack(t)'
    BY <1>3 DEF AnswerSteps, DispatchSteps, TakesBack
  <1>11. Knows(t)'
    BY <1>1, <1>10 DEF TokenInv, Knows
  <1> QED
    BY <1>1, <1>2, <1>9, <1>10, <1>11, SameOffersStay, GoesQuietly

LEMMA OperateKeepsToken ==
  ASSUME TokenInv, OpsInv', NEW t \in Task, Operate(t) PROVE TokenInv'
  <1>1. Knows(t) /\ loc[t].op \notin Reoffering
    BY DEF TokenInv, Knows
  <1>2. pc[t] \notin {"checkNewRider", "findPending", "cancelPending", "replace"}
    BY <1>1, InTheirPlaces DEF TokenInv
  <1>3. CASE FindAccepted(t)
    <2>1. loc[t].op = "deliver"
      BY <1>1, <1>3, InTheirPlaces DEF TokenInv, FindAccepted
    <2>2. CASE \E o \in OfferSought(t) :
                 /\ Local(t, [loc[t] EXCEPT !.offer = o, !.snap = offer[o].attemptCount])
                 /\ Goto(t, AfterFound[loc[t].op])
      <3>1. Others(t) /\ loc'[t].op = "deliver" /\ pc'[t] = "free"
        BY <2>1, <2>2 DEF Others, AfterFound, TokenInv, OpsInv, OpsTypeOK, OpsLocals
      <3> QED
        BY <1>3, <2>1, <3>1, MovesQuietly
           DEF FindAccepted, HoldsLock, AnswerSteps, DispatchSteps, TakesBack
    <2>3. CASE Goto(t, "finish") /\ UNCHANGED loc
      <3>1. Others(t) /\ loc'[t].op = "deliver" /\ pc'[t] = "finish"
        BY <2>1, <2>3 DEF Others, TokenInv, OpsInv, OpsTypeOK
      <3> QED
        BY <1>3, <2>1, <3>1, MovesQuietly
           DEF FindAccepted, HoldsLock, AnswerSteps, DispatchSteps, TakesBack
    <2> QED
      BY <1>3, <2>1, <2>2, <2>3 DEF FindAccepted
  <1>4. CASE Finish(t)
    <2>1. SameDeliveries
      BY <1>4 DEF Finish, TokenInv, SameDeliveries, DeliveryStatus, Reopens
    <2> QED
      BY <1>4, <2>1, SameOffersStay, EndsQuietly DEF Finish
  <1>5. CASE End(t)
    BY <1>5, TablesStay, EndsQuietly DEF End
  <1>6. CASE FailOperation(t)
    <2>1. CASE Done(t)
      BY <1>6, <2>1, TablesStay, EndsQuietly DEF FailOperation
    <2>2. CASE HoldsAdminLock(t) /\ Goto(t, "release") /\ UNCHANGED loc
      <3>1. Others(t) /\ loc'[t] = loc[t] /\ pc'[t] = "release" /\ loc[t].op \notin HoldsLock
        BY <2>2 DEF Others, TokenInv, OpsInv, OpsTypeOK, HoldsAdminLock, AdminUnderLock, HoldsLock
      <3> QED
        BY <1>6, <3>1, MovesQuietly DEF FailOperation, AnswerSteps, DispatchSteps, TakesBack
    <2> QED
      BY <1>6, <2>1, <2>2 DEF FailOperation
  <1> QED
    BY <1>2, <1>3, <1>4, <1>5, <1>6, AcquireKeepsToken, RevokeKeepsToken, FreesKeepToken, ReopenKeepsToken
       DEF Operate, CheckNewRider, FindPending, CancelPending, Replace

-------------------------------------------------------------------------------
LEMMA TokenStep ==
  ASSUME ~SlowHandlers, Endpoints \cap Reoffering = {}, TokenInv, [OpsNext]_opsVars PROVE TokenInv'
  <1>1. OpsInv'
    BY OpsStepKeeps DEF TokenInv
  <1>2. CASE DispatchStep
    <2>1. ASSUME NEW t \in Task, Fail(t) PROVE TokenInv'
      BY <1>1, <2>1, TablesStay, EndsQuietly DEF Fail
    <2>2. ASSUME NEW o \in Offer, Deadline(o) PROVE TokenInv'
      <3>1. \A p \in Offer : due'[p] => due[p] \/ Exists(p)
        BY <2>2 DEF Deadline
      <3> QED
        BY <1>1, <2>2, <3>1, TablesStay, TasksStay DEF Deadline
    <2>3. ASSUME NEW o \in Offer, LockExpires(o) PROVE TokenInv'
      BY <1>1, <2>3, TablesStay, TasksStay DEF LockExpires, rows
    <2> QED
      BY <1>1, <1>2, <2>1, <2>2, <2>3, EntriesKeep, AnswerKeepsToken, DispatchKeepsToken
         DEF DispatchStep, Step
  <1>3. ASSUME NEW d \in Delivery, NEW op \in DOMAIN DeliveryCalls, UpdateDelivery(d, op) PROVE TokenInv'
    <2>1. DeliveryCalls[op] \in {"PICKED_UP", "CANCELLED"}
      BY DEF DeliveryCalls
    <2>2. SameDeliveries
      BY <1>3, <2>1 DEF UpdateDelivery, TokenInv, SameDeliveries, DeliveryStatus, Reopens
    <2> QED
      BY <1>1, <1>3, <2>2, TasksStay DEF UpdateDelivery
  <1>4. CASE UNCHANGED opsVars
    BY <1>1, <1>4, TablesStay, TasksStay DEF opsVars, vars
  <1>5. ASSUME NEW t \in Task, CrashOperation(t) PROVE TokenInv'
    BY <1>1, <1>5, TablesStay, EndsQuietly DEF CrashOperation, Crash, rows
  <1> QED
    BY <1>1, <1>2, <1>3, <1>4, <1>5, OperationsBegin, OperateKeepsToken DEF OpsNext, Task

LEMMA TokenInit == OpsInit => TokenInv
  <1> SUFFICES ASSUME OpsInit PROVE TokenInv
    OBVIOUS
  <1>1. /\ delivery = [d \in Delivery |-> "NONE"] /\ offer = [o \in Offer |-> NoOffer]
        /\ due = [o \in Offer |-> FALSE]
        /\ pc = [t \in Task |-> "idle"] /\ loc = [t \in Task |-> Blank]
    BY DEF OpsInit, Init
  <1>2. \A o \in Offer : ~Taken(o) /\ ~Concerned(o)
    BY <1>1 DEF Taken, Concerned, IsPending, Accepting, TakesBack, NoOffer
  <1>3. \A t \in Task : Knows(t) /\ MayDispatch(t)
    BY <1>1 DEF Knows, MayDispatch, Dispatching, DispatchSteps, AnswerSteps, TakesBack, Blank,
       HoldsLock, Reoffering
  <1>4. RowsRefer /\ AskedAreExcluded /\ OncePerRider /\ delivery \in [Delivery -> DeliveryStatus]
    BY <1>1 DEF RowsRefer, AskedAreExcluded, OncePerRider, DeliveryStatus, NoOffer, Excluding,
       Choosing, DispatchSteps
  <1> QED
    BY <1>2, <1>3, <1>4, OpsInitKeeps DEF TokenInv, OneConcerned, TakenIsSettled

(* However answers, timeout checks, redispatches, the admin's cancelOffer, *)
(* reported deliveries and status changes overlap, whichever of their      *)
(* calls fail and wherever a process dies, a delivery is never open to or  *)
(* held by two riders: the lock of an offer is enough for all of them, as  *)
(* long as nobody outlives its TTL. Not so when a call offers the delivery *)
(* itself, as a manual offer, assign, reassign and the rider's             *)
(* cancellation do: they look for a pending offer, and insert one later.   *)
THEOREM OneLiveOfferOverlapping ==
  ASSUME ~SlowHandlers, Endpoints \cap Reoffering = {} PROVE OpsSpec => []OneLiveOffer
  <1>1. TokenInv => OneLiveOffer
    BY AnsweredIsLive DEF TokenInv, OneConcerned, OneLiveOffer
  <1>2. TokenInv /\ [OpsNext]_opsVars => TokenInv'
    BY TokenStep
  <1> QED
    BY <1>1, <1>2, TokenInit, PTL DEF OpsSpec

(* And no rider is asked about the same delivery twice, even when an admin *)
(* takes the accepted delivery from him while a redispatch goes on.        *)
THEOREM OncePerRiderOverlapping ==
  ASSUME ~SlowHandlers, Endpoints \cap Reoffering = {} PROVE OpsSpec => []OncePerRider
  <1>1. TokenInv => OncePerRider
    BY DEF TokenInv
  <1>2. TokenInv /\ [OpsNext]_opsVars => TokenInv'
    BY TokenStep
  <1> QED
    BY <1>1, <1>2, TokenInit, PTL DEF OpsSpec
================================================================================
