------------------------------ MODULE DispatchOps ------------------------------
(***************************************************************************)
(* The other operations on the rows that OfferDispatch works on: the       *)
(* admin's assign, reassign and cancel, the rider's cancellation and       *)
(* status changes, manual offers, and the later life of a delivery. They   *)
(* run beside the dispatch tasks of OfferDispatch, whose actions this      *)
(* module takes over.                                                      *)
(*                                                                         *)
(* An operation that only writes is a plan: the steps it takes in order.   *)
(***************************************************************************)
EXTENDS OfferDispatch, Sequences

CONSTANTS
  Endpoints,  \* the operations that clients call
  Serial      \* TRUE: an operation starts only when no other is running

ASSUME EndpointsAreStrings ==
  Endpoints \subseteq {"create", "accept", "reject", "manual", "assign", "reassign",
                      "cancelOffer", "riderCancel", "deliver", "pickUp", "cancel",
                      "goAvailable", "goBusy", "goOffline"}
ASSUME SerialIsBoolean == Serial \in BOOLEAN

VARIABLES
  untimed,  \* offers an admin made: they expire in a year, and have no timer
  found,    \* found[t]: the pending offers, as t read them, it has still to cancel
  excused   \* history: riders who had two deliveries at once, or whose status was
            \* set for another reason than the end of the one they had

opsVars == <<vars, untimed, found, excused>>

MayStart == Serial => \A t \in Task : At(t, "idle")
Calls(op) == op \in Endpoints /\ MayStart

(* The status that a call of PATCH /riders/:id/status sets.                *)
StatusCalls == [goAvailable |-> "AVAILABLE", goBusy |-> "BUSY", goOffline |-> "OFFLINE"]

(* The status that a call of PATCH /deliveries/:id/... sets at once.       *)
DeliveryCalls == [pickUp |-> "PICKED_UP", cancel |-> "CANCELLED"]

(* Mutant: whoever loses an offer is set AVAILABLE, busy elsewhere or not. *)
PlanFreeing(op) ==
  CASE op = "riderCancel"    -> <<"revoke", "free", "freeSync", "reopen", "nearby">>
    [] op = "reassign"       -> <<"revoke", "free", "freeSync", "reopen", "replace", "release">>
    [] op = "cancelAccepted" -> <<"revoke", "reopen", "free", "freeSync", "release">>
    [] op = "cancelPending"  -> <<"revoke", "free", "freeSync", "release">>
    [] op = "deliver"        -> <<"free", "freeSync", "finish">>
    [] op \in DOMAIN StatusCalls -> <<"free", "freeSync", "end">>
    [] OTHER -> << >>

Plan(op) ==
  CASE op = "riderCancel"    -> <<"revoke", "free", "freeSync", "reopen", "nearby">>
    [] op = "reassign"       -> <<"revoke", "free", "freeSync", "reopen", "replace", "release">>
    [] op = "cancelAccepted" -> <<"revoke", "reopen", "free", "freeSync", "release">>
    [] op = "cancelPending"  -> <<"revoke", "release">>
    [] op = "deliver"        -> <<"free", "freeSync", "finish">>
    [] op \in DOMAIN StatusCalls -> <<"free", "freeSync", "end">>
    [] OTHER -> << >>

Advance(t) ==
  \E i \in 1..(Len(Plan(loc[t].op)) - 1) :
    At(t, Plan(loc[t].op)[i]) /\ Goto(t, Plan(loc[t].op)[i + 1])

(* The rider whose status an operation sets, and the status.               *)
Freed(t) ==
  IF loc[t].op \in DOMAIN StatusCalls THEN loc[t].rider ELSE offer[loc[t].offer].rider
FreedStatus(t) ==
  IF loc[t].op \in DOMAIN StatusCalls THEN StatusCalls[loc[t].op] ELSE "AVAILABLE"

AcceptedOffers(d) == {o \in OffersOf(d) : offer[o].status = "ACCEPTED"}

(* An admin who withdraws an offer holds its lock once it was acquired.    *)
AdminUnderLock == {"reassign", "cancelAccepted", "cancelPending"}
HoldsAdminLock(t) ==
  /\ loc[t].op \in AdminUnderLock
  /\ pc[t] \notin {"idle", "findAccepted", "checkNewRider", "acquire"}

-------------------------------------------------------------------------------
(* Entry points                                                            *)

(* POST /offers and /offers/manual: create, for a given rider.             *)
ManualOffer(t, d, r) ==
  /\ Begin(t, [Blank EXCEPT !.op = "manual", !.delivery = d, !.rider = r],
           "checkDelivery")
  /\ UNCHANGED <<rows, due, lock, jobs, faults, untimed, found>>

(* assignDelivery: 400 unless the delivery is PENDING.                     *)
AssignDelivery(t, d, r) ==
  /\ delivery[d] = "PENDING"
  /\ Begin(t, [Blank EXCEPT !.op = "assign", !.delivery = d, !.rider = r],
           "checkNewRider")
  /\ UNCHANGED <<rows, due, lock, jobs, faults, untimed, found>>

(* reassignDelivery: the status of the delivery is not looked at.          *)
ReassignDelivery(t, d, r) ==
  /\ delivery[d] # "NONE"
  /\ Begin(t, [Blank EXCEPT !.op = "reassign", !.delivery = d, !.rider = r],
           "findAccepted")
  /\ UNCHANGED <<rows, due, lock, jobs, faults, untimed, found>>

(* cancelOffer decides from the status it reads before it has the lock.    *)
CancelOffer(t, o) ==
  /\ IsLive(o)
  /\ Begin(t, [Blank EXCEPT !.op = IF IsPending(o) THEN "cancelPending" ELSE "cancelAccepted",
                            !.offer = o, !.delivery = offer[o].delivery,
                            !.snap = offer[o].attemptCount], "acquire")
  /\ UNCHANGED <<rows, due, lock, jobs, faults, untimed, found>>

(* cancelByRider: 400 unless the delivery is ASSIGNED.                     *)
CancelByRider(t, d, r) ==
  /\ delivery[d] = "ASSIGNED"
  /\ Begin(t, [Blank EXCEPT !.op = "riderCancel", !.delivery = d, !.rider = r],
           "findAccepted")
  /\ UNCHANGED <<rows, due, lock, jobs, faults, untimed, found>>

SetDelivered(t, d) ==
  /\ delivery[d] # "NONE"
  /\ Begin(t, [Blank EXCEPT !.op = "deliver", !.delivery = d], "findAccepted")
  /\ UNCHANGED <<rows, due, lock, jobs, faults, untimed, found>>

(* setPickedUp and setCancelled: one write, whatever the status was.       *)
UpdateDelivery(d, op) ==
  /\ delivery[d] # "NONE"
  /\ delivery' = [delivery EXCEPT ![d] = DeliveryCalls[op]]
  /\ UNCHANGED <<rider, redis, offer, due, lock, jobs, pc, loc, faults, untimed, found>>

(* PATCH /riders/:id/status.                                               *)
UpdateRider(t, r, op) ==
  /\ Begin(t, [Blank EXCEPT !.op = op, !.rider = r], "free")
  /\ UNCHANGED <<rows, due, lock, jobs, faults, untimed, found>>

-------------------------------------------------------------------------------
(* Reads that decide                                                       *)

(* The accepted offer of the delivery, of this rider if a rider asks.      *)
OfferSought(t) ==
  {o \in AcceptedOffers(loc[t].delivery) :
     loc[t].op = "riderCancel" => offer[o].rider = loc[t].rider}

AfterFound == [riderCancel |-> "revoke", reassign |-> "checkNewRider", deliver |-> "free"]

FindAccepted(t) ==
  /\ At(t, "findAccepted")
  /\ \/ \E o \in OfferSought(t) :
          /\ Local(t, [loc[t] EXCEPT !.offer = o, !.snap = offer[o].attemptCount])
          /\ Goto(t, AfterFound[loc[t].op])
     \/ /\ OfferSought(t) = {}
        /\ \/ loc[t].op = "deliver" /\ Goto(t, "finish") /\ UNCHANGED loc
           \/ loc[t].op # "deliver" /\ Done(t)
  /\ UNCHANGED <<rows, due, lock, jobs, faults, untimed, found>>

CheckNewRider(t) ==
  /\ At(t, "checkNewRider")
  /\ \/ /\ rider[loc[t].rider] = "AVAILABLE"
        /\ Goto(t, IF loc[t].op = "assign" THEN "findPending" ELSE "acquire")
        /\ UNCHANGED loc
     \/ rider[loc[t].rider] # "AVAILABLE" /\ Done(t)
  /\ UNCHANGED <<rows, due, lock, jobs, faults, untimed, found>>

Acquire(t) ==
  LET o == loc[t].offer IN
  /\ At(t, "acquire")
  /\ \/ LockIsFree(o) /\ lock' = Acquired(o, t) /\ Goto(t, "revoke") /\ UNCHANGED loc
     \/ ~LockIsFree(o) /\ Done(t) /\ UNCHANGED lock
  /\ UNCHANGED <<rows, due, jobs, faults, untimed, found>>

-------------------------------------------------------------------------------
(* Writes                                                                  *)

(* The offer gives way. Its status is overwritten, whatever it is by now.  *)
Revoke(t) ==
  /\ At(t, "revoke") /\ Advance(t)
  /\ offer' = Saved(t, IF loc[t].op = "riderCancel" THEN "REJECTED" ELSE "CANCELLED_BY_ADMIN")
  /\ UNCHANGED <<delivery, rider, redis, due, lock, jobs, loc, faults, untimed, found>>

(* RiderService.updateStatus: the row, then the Redis key.                 *)
FreeRider(t) ==
  /\ At(t, "free") /\ Advance(t)
  /\ rider' = [rider EXCEPT ![Freed(t)] = FreedStatus(t)]
  /\ UNCHANGED <<delivery, redis, offer, due, lock, jobs, loc, faults, untimed, found>>

FreeSync(t) ==
  /\ At(t, "freeSync") /\ Advance(t)
  /\ redis' = [redis EXCEPT ![Freed(t)] = FreedStatus(t)]
  /\ UNCHANGED <<delivery, rider, offer, due, lock, jobs, loc, faults, untimed, found>>

(* Mutant: the delivery keeps its status.                                  *)
KeepAssigned(t) ==
  /\ At(t, "reopen") /\ Advance(t)
  /\ UNCHANGED <<rows, due, lock, jobs, loc, faults, untimed, found>>

Reopen(t) ==
  /\ At(t, "reopen") /\ Advance(t)
  /\ delivery' = [delivery EXCEPT ![loc[t].delivery] = "PENDING"]
  /\ UNCHANGED <<rider, redis, offer, due, lock, jobs, loc, faults, untimed, found>>

Finish(t) ==
  /\ At(t, "finish")
  /\ delivery' = [delivery EXCEPT ![loc[t].delivery] = "DELIVERED"]
  /\ Done(t)
  /\ UNCHANGED <<rider, redis, offer, due, lock, jobs, faults, untimed, found>>

End(t) ==
  /\ At(t, "end") /\ Done(t)
  /\ UNCHANGED <<rows, due, lock, jobs, faults, untimed, found>>

AsRead(o) == [offer |-> o, snap |-> offer[o].attemptCount]

(* Mutant: only the offers that the chosen rider has are looked for.       *)
FindPendingOfRider(t) ==
  /\ At(t, "findPending") /\ Goto(t, "cancelPending")
  /\ found' = [found EXCEPT ![t] = {AsRead(o) : o \in {p \in OffersOf(loc[t].delivery) :
                                     IsPending(p) /\ offer[p].rider = loc[t].rider}}]
  /\ UNCHANGED <<rows, due, lock, jobs, loc, faults, untimed>>

(* cancelPendingOffersForDelivery: no lock, one save after another, each   *)
(* of the whole row as it was read.                                        *)
FindPending(t) ==
  /\ At(t, "findPending") /\ Goto(t, "cancelPending")
  /\ found' = [found EXCEPT ![t] =
       {AsRead(o) : o \in {p \in OffersOf(loc[t].delivery) : IsPending(p)}}]
  /\ UNCHANGED <<rows, due, lock, jobs, loc, faults, untimed>>

CancelPending(t) ==
  /\ At(t, "cancelPending")
  /\ \/ \E f \in found[t] :
          /\ offer' = [offer EXCEPT ![f.offer] =
               [@ EXCEPT !.status = "CANCELLED_BY_ADMIN", !.attemptCount = f.snap]]
          /\ found' = [found EXCEPT ![t] = @ \ {f}]
          /\ UNCHANGED pc
     \/ found[t] = {} /\ Goto(t, "replace") /\ UNCHANGED <<offer, found>>
  /\ UNCHANGED <<delivery, rider, redis, due, lock, jobs, loc, faults, untimed>>

(* The admin's own offer: no timer, no check for a pending one.            *)
Replace(t) ==
  /\ At(t, "replace")
  /\ \E o \in Offer :
       /\ ~Exists(o)
       /\ offer' = [offer EXCEPT ![o] = NewOffer(loc[t].delivery, loc[t].rider)]
       /\ untimed' = untimed \cup {o}
  /\ \/ loc[t].op = "reassign" /\ Goto(t, "release") /\ UNCHANGED loc
     \/ loc[t].op = "assign" /\ Done(t)
  /\ UNCHANGED <<delivery, rider, redis, due, lock, jobs, faults, found>>

(* A call throws: the admin's operations release, the others just end.     *)
Operations ==
  {"findAccepted", "checkNewRider", "acquire", "revoke", "free", "freeSync", "reopen",
   "replace", "finish", "findPending", "cancelPending", "end"}
FailOperation(t) ==
  /\ pc[t] \in Operations
  /\ faults < MaxFaults /\ faults' = faults + 1
  /\ found' = [found EXCEPT ![t] = {}]
  /\ \/ HoldsAdminLock(t) /\ Goto(t, "release") /\ UNCHANGED loc
     \/ ~HoldsAdminLock(t) /\ Done(t)
  /\ UNCHANGED <<rows, due, lock, jobs, untimed>>

(* The process of an operation or of a dispatch task dies between two      *)
(* writes. The lock of an offer it worked on stays until its TTL.          *)
CrashOperation(t) ==
  /\ Crash(t)
  /\ found' = [found EXCEPT ![t] = {}]
  /\ UNCHANGED untimed

-------------------------------------------------------------------------------
OpsInit == Init /\ untimed = {} /\ found = [t \in Task |-> {}] /\ excused = {}

StartOperation(t) ==
  \/ \E d \in Delivery, r \in Rider :
       \/ Calls("manual") /\ ManualOffer(t, d, r)
       \/ Calls("assign") /\ AssignDelivery(t, d, r)
       \/ Calls("reassign") /\ ReassignDelivery(t, d, r)
       \/ Calls("riderCancel") /\ CancelByRider(t, d, r)
  \/ \E d \in Delivery : Calls("deliver") /\ SetDelivered(t, d)
  \/ \E o \in Offer : Calls("cancelOffer") /\ CancelOffer(t, o)
  \/ \E r \in Rider, op \in DOMAIN StatusCalls : Calls(op) /\ UpdateRider(t, r, op)

Operate(t) ==
  \/ FindAccepted(t) \/ CheckNewRider(t) \/ Acquire(t) \/ Revoke(t) \/ FreeRider(t)
  \/ FreeSync(t) \/ Reopen(t) \/ Finish(t) \/ End(t) \/ FindPending(t) \/ CancelPending(t)
  \/ Replace(t) \/ FailOperation(t)

(* The tasks of OfferDispatch, to which untimed offers never fall due.     *)
StartDispatch ==
  \/ \E t \in Handler, d \in Delivery : Calls("create") /\ CreateDelivery(t, d)
  \/ \E t \in Handler, o \in Offer, op \in {"accept", "reject"} : Calls(op) /\ Respond(t, o, op)
  \/ \E t \in Worker : MayStart /\ Work(t)

DispatchStep ==
  /\ \/ StartDispatch
     \/ \E t \in Task : Step(t)
     \/ \E t \in Task : pc[t] \notin Operations /\ Fail(t)
     \/ \E o \in Offer \ untimed : Deadline(o)
     \/ \E o \in Offer : LockExpires(o)
  /\ UNCHANGED <<untimed, found>>

(* Riders with two accepted deliveries under way; riders who set their     *)
(* status, and whose delivery is reported delivered, cancelled or          *)
(* reassigned after it was delivered.                                      *)
Overbooked ==
  {r \in Rider : \E o, p \in Offer :
     /\ o # p /\ offer[o].rider = r /\ offer[p].rider = r
     /\ \A x \in {o, p} : offer[x].status = "ACCEPTED" /\ delivery[offer[x].delivery] # "DELIVERED"}
SetAside ==
  {Freed(t) : t \in {u \in Handler :
     \/ loc[u].op \in DOMAIN StatusCalls
     \/ /\ loc[u].op \in {"deliver", "cancelAccepted", "reassign"} /\ loc[u].offer # None
        /\ delivery[loc[u].delivery] = "DELIVERED"}}
Excuses == excused' = excused \cup (Overbooked \cup SetAside)'

OpsNext ==
  /\ \/ DispatchStep
     \/ \E d \in Delivery, op \in DOMAIN DeliveryCalls : Calls(op) /\ UpdateDelivery(d, op)
     \/ \E t \in Handler : StartOperation(t) \/ Operate(t)
     \/ \E t \in Task : CrashOperation(t)
  /\ Excuses

OpsSpec == OpsInit /\ [][OpsNext]_opsVars
===============================================================================
