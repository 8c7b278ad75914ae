----------------------------- MODULE OfferDispatch -----------------------------
(***************************************************************************)
(* The offer life cycle of core-service: a delivery is created, offered to *)
(* a nearby rider, answered or timed out, and offered to the next rider.   *)
(*                                                                         *)
(* HTTP handlers and queue workers interleave at every await (and two      *)
(* instances overlap while one replaces the other): each statement,        *)
(* Redis command and queue call is one atomic step, and anything may run   *)
(* between two of them.                                                    *)
(***************************************************************************)
EXTENDS Naturals

CONSTANTS
  Delivery, Rider, Offer,  \* row identifiers
  Handler,                 \* concurrent HTTP requests, background dispatches
  Worker,                  \* workers of the BullMQ queue 'offer'
  None,                    \* an unset field
  MaxDispatchAttempts,     \* MAX_DISPATCH_ATTEMPTS
  SlowHandlers,            \* TRUE: a handler may outlive the TTL of its lock
  MaxFaults                \* bound on crashes and failed calls

Task == Handler \cup Worker

ASSUME TasksAreDistinct == Handler \cap Worker = {}
ASSUME AttemptsAreCounted == MaxDispatchAttempts \in Nat
ASSUME FaultsAreCounted == MaxFaults \in Nat
ASSUME SlownessIsBoolean == SlowHandlers \in BOOLEAN
ASSUME NoneIsFresh == None \notin Delivery \cup Rider \cup Offer
ASSUME LockWords == "free" \notin Task /\ "orphan" \notin Task

VARIABLES
  delivery,  \* deliveries.status
  rider,     \* riders.status
  redis,     \* the key rider:status:<id> that location-service filters by
  offer,     \* the rows of the table offers
  due,       \* due[o]: the clock has passed offers.expiresAt
  lock,      \* lock[o]: the key lock:offer:<o>
  jobs,      \* the jobs 'check-timeout' of the queue 'offer'
  pc, loc,   \* what each task does next, and its local variables
  faults     \* crashes and failed calls so far

rows == <<delivery, rider, redis, offer>>
vars == <<delivery, rider, redis, offer, due, lock, jobs, pc, loc, faults>>

DeliveryStatus == {"NONE", "PENDING", "ASSIGNED", "PICKED_UP", "DELIVERED", "CANCELLED"}
RiderStatus == {"AVAILABLE", "BUSY", "OFFLINE"}
OfferStatus ==
  {"NONE", "PENDING", "ACCEPTED", "REJECTED", "EXPIRED", "CANCELLED_BY_ADMIN"}

NoOffer == [status |-> "NONE", delivery |-> None, rider |-> None, attemptCount |-> 0]

Blank == [op |-> "none", delivery |-> None, offer |-> None, rider |-> None,
          snap |-> 0, attempt |-> 0, exclude |-> {}, fresh |-> None]

-------------------------------------------------------------------------------
(* Reading the tables                                                      *)

Exists(o) == offer[o].status # "NONE"
IsPending(o) == offer[o].status = "PENDING"
IsLive(o) == offer[o].status \in {"PENDING", "ACCEPTED"}
OffersOf(d) == {o \in Offer : Exists(o) /\ offer[o].delivery = d}
(* Mutant: only those who said no, not those who let the offer expire.     *)
RejectedRiders(d) == {offer[o].rider : o \in {p \in OffersOf(d) : offer[p].status = "REJECTED"}}
PreviousRiders(d) == {offer[o].rider : o \in OffersOf(d)}
HasPendingOffer(d) == \E o \in OffersOf(d) : IsPending(o)
NearbyAvailable == {r \in Rider : redis[r] = "AVAILABLE"}

(* The lock of an offer: SET NX, and a release that compares the token.    *)
(* Mutant: SET without NX.                                                 *)
AlwaysFree(o) == TRUE
LockIsFree(o) == lock[o] = "free"
Acquired(o, t) == [lock EXCEPT ![o] = t]
Released(o, t) == IF lock[o] = t THEN [lock EXCEPT ![o] = "free"] ELSE lock

(* save(entity) writes back the whole row that the task read.              *)
Saved(t, status) ==
  [offer EXCEPT ![loc[t].offer] =
     [@ EXCEPT !.status = status, !.attemptCount = loc[t].snap]]

MayRedispatch(attempt) == attempt < MaxDispatchAttempts

-------------------------------------------------------------------------------
(* Control flow of a task                                                  *)

HoldsLock == {"accept", "reject", "timeout"}  \* operations run under the lock
Redispatches == {"reject", "timeout"}         \* operations that redispatch

At(t, step) == pc[t] = step
Goto(t, step) == pc' = [pc EXCEPT ![t] = step]
Local(t, locals) == loc' = [loc EXCEPT ![t] = locals]
Begin(t, locals, step) == At(t, "idle") /\ Local(t, locals) /\ Goto(t, step)
Done(t) == Goto(t, "idle") /\ Local(t, Blank)

(* Leave the operation: through `finally' if it holds a lock.              *)
UnderLock(t) == loc[t].op \in HoldsLock /\ ~At(t, "landing")
Return(t) ==
  \/ UnderLock(t) /\ Goto(t, "release") /\ UNCHANGED loc
  \/ ~UnderLock(t) /\ Done(t)

RedispatchOrReturn(t, attempt) ==
  \/ /\ MayRedispatch(attempt)
     /\ Goto(t, "exclude")
     /\ Local(t, [loc[t] EXCEPT !.attempt = attempt])
  \/ ~MayRedispatch(attempt) /\ Return(t)

-------------------------------------------------------------------------------
(* Entry points                                                            *)

(* POST /deliveries: insert the row, then dispatch in the background.      *)
CreateDelivery(t, d) ==
  /\ delivery[d] = "NONE"
  /\ delivery' = [delivery EXCEPT ![d] = "PENDING"]
  /\ Begin(t, [Blank EXCEPT !.op = "create", !.delivery = d], "nearby")
  /\ UNCHANGED <<rider, redis, offer, due, lock, jobs, faults>>

(* PATCH /offers/:id/accept or /reject; 409 when the lock is held.         *)
Respond(t, o, op) ==
  /\ Exists(o)
  /\ LockIsFree(o)
  /\ lock' = Acquired(o, t)
  /\ Begin(t, [Blank EXCEPT !.op = op, !.offer = o,
                            !.delivery = offer[o].delivery], "read")
  /\ UNCHANGED <<rows, due, jobs, faults>>

(* A worker takes a job whose delay has passed and acquires the lock ...   *)
TimeoutCheck(t, j) ==
  /\ j \in jobs /\ due[j.offer]
  /\ LockIsFree(j.offer)
  /\ lock' = Acquired(j.offer, t)
  /\ jobs' = jobs \ {j}
  /\ Begin(t, [Blank EXCEPT !.op = "timeout", !.offer = j.offer,
                            !.delivery = offer[j.offer].delivery,
                            !.attempt = j.attempt], "read")
  /\ UNCHANGED <<rows, due, faults>>

(* ... or completes the job without a check, because the lock is held.     *)
SkipTimeoutCheck(t, j) ==
  /\ At(t, "idle")
  /\ j \in jobs /\ due[j.offer]
  /\ ~LockIsFree(j.offer)
  /\ jobs' = jobs \ {j}
  /\ UNCHANGED <<rows, due, lock, pc, loc, faults>>

-------------------------------------------------------------------------------
(* Under the lock: respond and handleTimeoutCheck                          *)

(* Mutant: the status is not read again under the lock.                    *)
AfterReadUnchecked(t) ==
  IF loc[t].op = "timeout" \/ due[loc[t].offer] THEN "expire"
  ELSE IF loc[t].op = "accept" THEN "assign" ELSE "reject"

(* Mutant: a timeout check leaves a pending offer to its rider.            *)
AfterReadPatient(t) ==
  IF ~IsPending(loc[t].offer) \/ loc[t].op = "timeout" THEN "release"
  ELSE IF due[loc[t].offer] THEN "expire"
  ELSE IF loc[t].op = "accept" THEN "assign" ELSE "reject"

AfterRead(t) ==
  LET o == loc[t].offer IN
  IF ~IsPending(o) THEN "release"
  ELSE IF loc[t].op = "timeout" \/ due[o] THEN "expire"
  ELSE IF loc[t].op = "accept" THEN "assign" ELSE "reject"

ReadOffer(t) ==
  /\ At(t, "read")
  /\ Goto(t, AfterRead(t))
  /\ Local(t, [loc[t] EXCEPT !.snap = offer[loc[t].offer].attemptCount])
  /\ UNCHANGED <<rows, due, lock, jobs, faults>>

(* A timeout check redispatches after it; a late answer gets its 400.      *)
Expire(t) ==
  /\ At(t, "expire")
  /\ offer' = Saved(t, "EXPIRED")
  /\ \/ loc[t].op = "timeout" /\ RedispatchOrReturn(t, loc[t].attempt)
     \/ loc[t].op # "timeout" /\ Return(t)
  /\ UNCHANGED <<delivery, rider, redis, due, lock, jobs, faults>>

SetAssigned(t) ==
  /\ At(t, "assign")
  /\ delivery' = [delivery EXCEPT ![loc[t].delivery] = "ASSIGNED"]
  /\ Goto(t, "busy")
  /\ UNCHANGED <<rider, redis, offer, due, lock, jobs, loc, faults>>

(* setBusy is two writes: the riders row, then the Redis key.              *)
SetBusy(t) ==
  /\ At(t, "busy")
  /\ rider' = [rider EXCEPT ![offer[loc[t].offer].rider] = "BUSY"]
  /\ Goto(t, "sync")
  /\ UNCHANGED <<delivery, redis, offer, due, lock, jobs, loc, faults>>

(* Mutant: the Redis key is not synchronised.                              *)
SyncNothing(t) ==
  /\ At(t, "sync")
  /\ Goto(t, "accept")
  /\ UNCHANGED <<rows, due, lock, jobs, loc, faults>>

SyncBusy(t) ==
  /\ At(t, "sync")
  /\ redis' = [redis EXCEPT ![offer[loc[t].offer].rider] = "BUSY"]
  /\ Goto(t, "accept")
  /\ UNCHANGED <<delivery, rider, offer, due, lock, jobs, loc, faults>>

(* The save of an acceptance is returned, not awaited: `finally' runs while *)
(* it is under way, so the lock may be released before it takes effect ...  *)
ReleaseBeforeSave(t) ==
  /\ At(t, "accept")
  /\ lock' = Released(loc[t].offer, t)
  /\ Goto(t, "landing")
  /\ UNCHANGED <<rows, due, jobs, loc, faults>>

(* ... or after.                                                           *)
SaveAccepted(t) ==
  /\ pc[t] \in {"accept", "landing"}
  /\ offer' = Saved(t, "ACCEPTED")
  /\ Return(t)
  /\ UNCHANGED <<delivery, rider, redis, due, lock, jobs, faults>>

SaveRejected(t) ==
  /\ At(t, "reject")
  /\ offer' = Saved(t, "REJECTED")
  /\ RedispatchOrReturn(t, loc[t].snap)
  /\ UNCHANGED <<delivery, rider, redis, due, lock, jobs, faults>>

(* Mutant: no release in `finally'.                                        *)
KeepLock(t) == At(t, "release") /\ Done(t) /\ UNCHANGED <<rows, due, lock, jobs, faults>>

Release(t) ==
  /\ At(t, "release")
  /\ lock' = Released(loc[t].offer, t)
  /\ Done(t)
  /\ UNCHANGED <<rows, due, jobs, faults>>

-------------------------------------------------------------------------------
(* Dispatching: dispatch, dispatchToNextRider and OfferService.create      *)

ExcludePrevious(t) ==
  /\ At(t, "exclude")
  /\ Local(t, [loc[t] EXCEPT !.exclude = PreviousRiders(loc[t].delivery)])
  /\ Goto(t, "nearby")
  /\ UNCHANGED <<rows, due, lock, jobs, faults>>

(* Mutant: the exclusion list is ignored.                                  *)
PickAnyRider(t) ==
  /\ At(t, "nearby")
  /\ \E r \in NearbyAvailable : Local(t, [loc[t] EXCEPT !.rider = r])
  /\ Goto(t, "checkDelivery")
  /\ UNCHANGED <<rows, due, lock, jobs, faults>>

(* The closest rider who is not excluded: any of them, for all distances.  *)
PickRider(t) ==
  /\ At(t, "nearby")
  /\ \E r \in NearbyAvailable \ loc[t].exclude :
       Local(t, [loc[t] EXCEPT !.rider = r])
  /\ Goto(t, "checkDelivery")
  /\ UNCHANGED <<rows, due, lock, jobs, faults>>

(* Nobody in the radius, or location-service failed to answer.             *)
NoRider(t) ==
  /\ At(t, "nearby")
  /\ Return(t)
  /\ UNCHANGED <<rows, due, lock, jobs, faults>>

(* A precondition of create, each a read of its own.                       *)
Check(t, step, ok, next) ==
  /\ At(t, step)
  /\ \/ ok /\ Goto(t, next) /\ UNCHANGED loc
     \/ ~ok /\ Return(t)
  /\ UNCHANGED <<rows, due, lock, jobs, faults>>

CheckDelivery(t) ==
  Check(t, "checkDelivery", delivery[loc[t].delivery] = "PENDING", "checkRider")
CheckRider(t) ==
  Check(t, "checkRider", rider[loc[t].rider] = "AVAILABLE", "checkPending")
CheckPending(t) ==
  Check(t, "checkPending", ~HasPendingOffer(loc[t].delivery), "insert")

NewOffer(d, r) ==
  [status |-> "PENDING", delivery |-> d, rider |-> r, attemptCount |-> 1]

InsertOffer(t) ==
  /\ At(t, "insert")
  /\ \E o \in Offer :
       /\ ~Exists(o)
       /\ offer' = [offer EXCEPT ![o] = NewOffer(loc[t].delivery, loc[t].rider)]
       /\ Local(t, [loc[t] EXCEPT !.fresh = o])
  /\ Goto(t, "schedule")
  /\ UNCHANGED <<delivery, rider, redis, due, lock, jobs, faults>>

Job(o, attempt) == [offer |-> o, attempt |-> attempt]

(* scheduleTimeoutCheck swallows its errors: the caller goes on.           *)
Enqueue(job) ==
  \/ jobs' = jobs \cup {job} /\ UNCHANGED faults
  \/ faults < MaxFaults /\ faults' = faults + 1 /\ UNCHANGED jobs

(* Mutant: only redispatched offers get a timer.                           *)
ScheduleLater(t) ==
  /\ At(t, "schedule")
  /\ \/ loc[t].op \in Redispatches /\ Goto(t, "count") /\ UNCHANGED loc
     \/ loc[t].op \notin Redispatches /\ Return(t)
  /\ UNCHANGED <<rows, due, lock, jobs, faults>>

Schedule(t) ==
  /\ At(t, "schedule")
  /\ Enqueue(Job(loc[t].fresh, 1))
  /\ \/ loc[t].op \in Redispatches /\ Goto(t, "count") /\ UNCHANGED loc
     \/ loc[t].op \notin Redispatches /\ Return(t)
  /\ UNCHANGED <<rows, due, lock>>

(* Back in triggerRedispatch: number the new offer, arm its second timer.  *)
CountAttempt(t) ==
  /\ At(t, "count")
  /\ offer' = [offer EXCEPT ![loc[t].fresh].attemptCount = loc[t].attempt + 1]
  /\ Goto(t, "reschedule")
  /\ UNCHANGED <<delivery, rider, redis, due, lock, jobs, loc, faults>>

Reschedule(t) ==
  /\ At(t, "reschedule")
  /\ Enqueue(Job(loc[t].fresh, loc[t].attempt + 1))
  /\ Return(t)
  /\ UNCHANGED <<rows, due, lock>>

-------------------------------------------------------------------------------
(* The environment: the clock, and what may go wrong                       *)

Deadline(o) ==
  /\ Exists(o) /\ ~due[o]
  /\ due' = [due EXCEPT ![o] = TRUE]
  /\ UNCHANGED <<rows, lock, jobs, pc, loc, faults>>

(* Mutant: a TTL shorter than the work it protects.                        *)
LockExpiresEarly(o) ==
  /\ lock[o] # "free"
  /\ lock' = [lock EXCEPT ![o] = "free"]
  /\ UNCHANGED <<rows, due, jobs, pc, loc, faults>>

(* The TTL of a lock runs out: its holder died or, if it may, was slow.    *)
LockExpires(o) ==
  /\ lock[o] = "orphan" \/ (SlowHandlers /\ lock[o] # "free")
  /\ lock' = [lock EXCEPT ![o] = "free"]
  /\ UNCHANGED <<rows, due, jobs, pc, loc, faults>>

(* A database or Redis call throws: the operation leaves by `finally'.     *)
CannotFail == {"idle", "release", "schedule", "reschedule"}
Fail(t) ==
  /\ pc[t] \notin CannotFail
  /\ faults < MaxFaults /\ faults' = faults + 1
  /\ Return(t)
  /\ UNCHANGED <<rows, due, lock, jobs>>

(* The process dies. Its locks stay until their TTL; BullMQ finds the job  *)
(* stalled and delivers it again, or gives it up.                          *)
Crash(t) ==
  /\ pc[t] # "idle"
  /\ faults < MaxFaults /\ faults' = faults + 1
  /\ lock' = [o \in Offer |-> IF lock[o] = t THEN "orphan" ELSE lock[o]]
  /\ \/ UNCHANGED jobs
     \/ /\ loc[t].op = "timeout"
        /\ jobs' = jobs \cup {Job(loc[t].offer, loc[t].attempt)}
  /\ Done(t)
  /\ UNCHANGED <<rows, due>>

-------------------------------------------------------------------------------
Init ==
  /\ delivery = [d \in Delivery |-> "NONE"]
  /\ rider \in [Rider -> {"AVAILABLE", "OFFLINE"}]
  /\ redis = rider
  /\ offer = [o \in Offer |-> NoOffer]
  /\ due = [o \in Offer |-> FALSE]
  /\ lock = [o \in Offer |-> "free"]
  /\ jobs = {}
  /\ pc = [t \in Task |-> "idle"]
  /\ loc = [t \in Task |-> Blank]
  /\ faults = 0

(* The steps a running task takes by itself.                               *)
Answer(t) ==
  \/ ReadOffer(t) \/ Expire(t) \/ SetAssigned(t) \/ SetBusy(t) \/ SyncBusy(t)
  \/ ReleaseBeforeSave(t) \/ SaveAccepted(t) \/ SaveRejected(t) \/ Release(t)

Dispatch(t) ==
  \/ ExcludePrevious(t) \/ PickRider(t) \/ NoRider(t)
  \/ CheckDelivery(t) \/ CheckRider(t) \/ CheckPending(t)
  \/ InsertOffer(t) \/ Schedule(t) \/ CountAttempt(t) \/ Reschedule(t)

Step(t) == Answer(t) \/ Dispatch(t)

Work(t) == \E j \in jobs : TimeoutCheck(t, j) \/ SkipTimeoutCheck(t, j)

Request(t) ==
  \/ \E d \in Delivery : CreateDelivery(t, d)
  \/ \E o \in Offer, op \in {"accept", "reject"} : Respond(t, o, op)

Environment ==
  \/ \E o \in Offer : Deadline(o) \/ LockExpires(o)
  \/ \E t \in Task : Fail(t) \/ Crash(t)

Next ==
  \/ \E t \in Handler : Request(t)
  \/ \E t \in Worker : Work(t)
  \/ \E t \in Task : Step(t)
  \/ Environment

Spec == Init /\ [][Next]_vars

(* The event loop runs what is runnable, time passes, a worker takes the   *)
(* next job, Redis drops expired keys. Nobody has to send a request.       *)
Fairness ==
  /\ \A t \in Task : WF_vars(Step(t))
  /\ \A t \in Worker : WF_vars(Work(t))
  /\ \A o \in Offer : WF_vars(Deadline(o)) /\ WF_vars(lock[o] = "orphan" /\ LockExpires(o))

FairSpec == Spec /\ Fairness
===============================================================================
