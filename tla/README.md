# b-rider-matching in TLA+

A verification project for the rider-matching backend in `src/`: NestJS services that match a
delivery to one nearby rider, and a demo SPA that drives them. The modules here are written from the
code, TLC checks them on small instances, and TLAPS proves the safety properties for every value of the
constants: of the dispatch core, the operations beside it, the distributed lock, the notification queue,
the search, the gateway, the demo's data, its scenario, its motion and its panel.

Contents: 1 inventory, 2 modules, 3 how code becomes actions, 4 runs and bounds, 5 fairness,
6 proofs, 7 disagreements with the documents, 8 observations, 9 not modelled, 10 plan, 11 how to run.

## 1. Inventory

| component | state | operations | talks to | what makes it hard | what makes it correct |
|---|---|---|---|---|---|
| **Offer life cycle** (`core-service/src/offer`, `delivery.create`, `auto-dispatch`) | rows of `deliveries`, `offers`, `riders`; keys `lock:offer:<id>`; jobs of the BullMQ queue `offer` | create and dispatch, accept, reject, timeout check, redispatch | Postgres, Redis, location-service by gRPC, both queues | several HTTP handlers and workers on one offer; two jobs per redispatched offer; the save of an acceptance is not awaited; four writes without a transaction; crashes and stalled jobs | one live offer per delivery, nobody asked twice, an accepted offer is backed by its rows, closed stays closed, nothing pends or is locked for ever |
| **Operations** (`admin`, `delivery`, manual offers) | the same rows | assign, reassign, cancelOffer, cancelByRider, pickup, deliver, cancel, manual create, rider status | the same | they read before they lock, lock only some of what they write, and undo each other | operations leave delivery, offer and rider in agreement, for deliveries that share a rider too; one operation at a time inside a lock |
| **Riders** (`rider`, `libs/common` rider status) | row and Redis key of each rider | create, update, updateStatus | Postgres, Redis | two writes per change, whole-row saves of a read entity | table and key agree; a status changes only on request |
| **Distributed lock** (`libs/common/services/redis-lock`) | one key with token and TTL | acquire, release | Redis | a holder outlives the TTL, or dies | exclusion within the TTL; a late release spares the successor |
| **Notifications** (producer, `notification-worker`) | jobs of the queue `notification` | add, process, back off, stall | Redis; FCM and SMS are mocks | two different workers on one queue, retries, death between send and completion | one send per run, settled in the end |
| **Location service** | geo index, status keys | search, update location | Redis, gRPC | cut before filter, two reads with changes between them, field names that the gRPC loader drops | the answer has the nearest of those who were near and AVAILABLE; the cut hides them only behind enough others |
| **Gateway and guards** (`api-gateway`, `UserContextMiddleware`, `AdminGuard`) | calls under way | guard, forward, map errors | HTTP | timeout while the service goes on, crashes, late answers, client retries | the status tells the truth; nothing is done twice; admin calls only for admins |
| **Demo scenario** (`demo-spa` useScenario, App, store) | demo state of a tab; the shared tables | play, pause, reset, nine awaited steps | core-service | several tabs and rider apps on the same offers; calls that go on after they were given up; an effect that starts a scenario from three fields | one scenario per tab; one offer takes one scenario past accept |
| **Demo data** (`core-service/src/demo`, the schema) and **stores** (`core-service/src/store`) | all tables; the Redis keys of riders | seed, bulk seed, reset; create, update, remove a store | Postgres | sequences of statements in no transaction, `Promise.all` that answers before it is done, saves of rows read before a reset, keys that no reset deletes | seeds that succeed leave the data exactly once, only a disturbed call fails, keys without a row are of deleted riders |
| **Demo motion and polling** (`ControlPanel` ticks, `usePolling`) | riders and deliveries in the SPA's store | a tick each 500 ms, a poll each 2 s | core-service, location-service | overlapping ticks, answers of any age that overwrite the store, lost answers | no delivery before its pickup, none twice, the rider arrives |
| **Demo panel** (`ControlPanel` switches and buttons) | refs, store, the shared tables | two automation loops, assign, accept, reject, order, seed | core-service | loops that outlive their switch, stores older than the offers they are matched with, acceptances between their two writes, calls that take effect after they were given up, several senders of offers | one offer per rider, loops end, every delivery gets a rider |
| Views, entities, deployment, rate limiting | | | | | section 9 |

The main flow: `POST /deliveries` inserts a PENDING delivery and dispatches in the background:
location-service proposes AVAILABLE riders, `OfferService.create` inserts a PENDING offer for the
closest one and schedules a timeout job. The rider accepts (delivery ASSIGNED, rider BUSY in table and
Redis, offer ACCEPTED) or rejects, or the job finds the offer PENDING and expires it; after a
rejection or expiry `triggerRedispatch` asks the next rider, at most `MAX_DISPATCH_ATTEMPTS` times.
`respond`, the timeout check, `cancelOffer` and `reassignDelivery` hold the offer's Redis lock; no
other operation does.

`PROJECT.json` lists the hazards at the lines where they bite, with the properties that watch them.

## 2. Modules

| module | models | used by |
|---|---|---|
| `Matching` | the abstract promise: of each delivery who was asked, whose offer stands, whether it is settled | refined by `OfferDispatch` |
| `OfferDispatch` | the offer life cycle, statement by statement | `DispatchOps` takes its actions over |
| `OfferDispatchProps` | its invariants, action and liveness properties, the inductive invariant, the refinement mapping | |
| `OfferDispatchProofs` | theorems about it, the refinement of `Matching` among them | |
| `DispatchOps`, `DispatchOpsProps`, `DispatchOpsProofs` | the admin's and the riders' operations beside dispatching; what they must do; theorems | composes with `OfferDispatch` |
| `RedisLock` | the lock itself, with time | justifies `lock` in `OfferDispatch` |
| `RiderStatus` | RiderService on row and key | `DemoData` takes its actions over |
| `DemoData`, `DemoDataProofs` | seed, bulk seed and reset, statement by statement, beside riders, stores, orders and offers; theorems | composes with `RiderStatus` |
| `NotificationQueue` | the queue and its two workers | |
| `RedisProofs` | theorems about the two modules of what is kept in Redis, `RedisLock` and `NotificationQueue` | |
| `NearbyRiders`, `NearbyRidersProofs` | one search; theorems | justifies `NearbyAvailable` in `OfferDispatch` |
| `Gateway`, `GatewayProofs` | gateway, guards, services that crash; theorems | |
| `DemoScenario`, `DemoScenarioProofs` | the scenario of SPA tabs and the offers they share; theorems | |
| `DemoMotion` | the ticks that move a rider, and the polling | |
| `DemoPanel` | the automation loops and the buttons of one page | |
| `ControlPanelProofs` | theorems about both, which are the code of one component | |
| `MC...` | symmetry sets; the property that is expected to be violated | |

State and actions of `OfferDispatch`, the core:

| code | model |
|---|---|
| `deliveries.status`, `riders.status`, rows of `offers` | `delivery`, `rider`, `offer` |
| `rider:status:<id>` | `redis` |
| the clock has passed `offers.expiresAt` | `due[o]`, set by `Deadline` |
| `lock:offer:<id>` | `lock[o]`: `"free"`, the holding task, or `"orphan"` after its death |
| jobs `check-timeout` | `jobs`, with the attempt number of each |
| an HTTP handler, a background dispatch, a worker's job | a task: `pc` is its next statement, `loc` its locals (`snap` is the attempt count of the entity it read) |
| `respond` | `Respond`, `ReadOffer`, then `Expire`, or `SetAssigned`, `SetBusy`, `SyncBusy`, `SaveAccepted`, or `SaveRejected` and the redispatch, then `Release` |
| `return this.offerRepository.save(...)` without await | `ReleaseBeforeSave`: the lock is released first and the save *lands* later (`pc = "landing"`) |
| `handleTimeoutCheck` | `TimeoutCheck`, `SkipTimeoutCheck`, `ReadOffer`, `Expire`, then the redispatch |
| `dispatchToNextRider`, `create` | `ExcludePrevious`, `PickRider` or `NoRider`, `CheckDelivery`, `CheckRider`, `CheckPending`, `InsertOffer`, `Schedule`, `CountAttempt`, `Reschedule` |
| a failed statement; the end of the process; the TTL | `Fail`, `Crash`, `LockExpires` |

`DispatchOps` adds one plan per operation (`Plan`: the order of its writes) and the reads and checks
before it. `untimed` are offers made by an admin, which have no timer; `found` is the list that
`cancelPendingOffersForDelivery` works off one save at a time; `excused` is a history of the riders whom
`AssignedIsBusy` leaves out.

In `DemoData` a demo call is at its next statement (`call[c].at`); `todo` are the rows that a
`Promise.all` has still to save, and `upset` says whether somebody else wrote to the tables since it
began. `edit` and RiderStatus's `loc` are entities that were read and are saved later. In `DemoMotion`
`server` and `redis` are what the tables and the geo index have, `local` what the SPA shows, `tick[k]`
and `poll[p]` the handlers and answers under way, each with the store it looked at. In `DemoPanel` a
loop or handler is a `task` that waits for one call. What the backend does with a call is one step,
except an acceptance, which writes delivery and rider first and whose save lands later (`Saving`), and
a seed; `late` are calls that were given up, by axios after 10 s or the gateway after 5, and go on.
In `DemoScenario` an action of a run is the code from one `await` to the next; `job[r]` is how far
core-service is with the run's seed or accept, statement by statement, whether the run still waits or
not. In `Gateway` the
service goes on with a call after the gateway has given it up (`Handle` needs only `jobs`). In
`NearbyRiders` the index and the status keys are read by two actions, with changes between them.

## 3. How code becomes actions

* Every database statement, Redis command and queue call is one atomic step, and any other task may
  run between two of them: an instance of core-service interleaves at each `await`, and two of them
  share Postgres and Redis while one replaces the other in a deployment.
* `repository.save(entity)` writes the entity *as it was read*: `Saved` writes back the old `attemptCount`;
  `RiderStatus.Save` writes back an old status, and `DemoData.SaveStore` inserts a row that was deleted in
  the meantime.
* A lock that is held is 409 for a request (no step) and the end of the job for a timeout check.
* A job's delay ends after `expiresAt` (both are 10 s, and the job is queued later), so a job runs
  only when its offer is due; an answer may come after the deadline and before the job.
* `DELETE` and `INSERT` are refused when they break a foreign or unique key of the schema; `save` of an
  array is one transaction, `Promise.all` of saves is not, and a rejected one answers at once while its
  other saves go on.
* Errors of `queue.add` are caught and logged by the producers: a failed add is a success without a job.
* A crash leaves the rows as they are and the locks to their TTL; BullMQ may deliver the job again.
* The search of `NearbyRiders` is, for dispatch, any rider whose Redis key says AVAILABLE and who is
  not excluded, or nobody (`NoRider`: an empty or failed answer, or a call that failed).
* gRPC field names: both sides set no loader options, so fields are in camel case on both; core-service
  and location-service write `rider_id`, `radius_km` and `distance_km` (`location.grpc-client.ts:82`,
  `location.grpc.controller.ts:46`), which the loader drops. `NearbyRiders` takes the search as
  location-service gets it: with the default radius, and, for the reports after a delivery, for a rider
  without a name. The dispatch modules assume that answers arrive as their interfaces declare, since with
  nameless riders no offer is ever created (section 8) and nothing would be left to model.
* Identities, addresses, distances, payloads and texts are model values or small numbers; logging,
  notifications sent on the way and response bodies are left out of the dispatch modules.

## 4. Runs

| run | instance | what it shows |
|---|---|---|
| `dispatch` | 1 delivery, 2 riders, 2 offers, 1 handler, 1 worker, max 2 attempts, 1 fault, fair | the inductive invariant (one live offer, nobody asked twice), accepted is backed, closed stays closed unless its acceptance lands, refinement of `Matching`, locks are returned; without faults every pending offer is watched and ends |
| `ops_serial` | 12 operations one after another, 2 deliveries, 2 riders, 2 offers | they leave deliveries, offers, riders and Redis in agreement, and no delivery's operation frees the rider of another |
| `ops_overlap` | create, accept, reject, cancelOffer, cancel and timeouts at once, 2 handlers, 1 worker, 1 failed call or crash | one operation inside a lock, one live offer, nobody asked twice |
| `redis_lock` | 3 callers, TTL 2, 4 tokens | exclusion and hand-over |
| `demo_data` | 2 demo calls, 3 riders, 2 phones, 1 store editor, 2 calls of rider and store services, 1 order, 1 failure | seeds that succeed leave the data exactly once, only a disturbed seed or reset fails, row and key agree, keys without a row are of deleted riders, a status changes only on request |
| `notification_queue` | 2 jobs, 2 workers, 3 attempts, 3 faults, fair | sends per run, settlement |
| `nearby_riders` | 5 riders and the one without a name, distances 0 to 2 or none, radius 1, limit 2, window 4, 2 changes | the nearest eligible riders are answered; the window hides somebody only behind more than 2 unavailable ones |
| `gateway` | 2 calls, 2 tries, 2 services, fair | at most once, truthful, admins only, every call answered |
| `demo_scenario` | 2 tabs, 2 scenarios, 2 offers, 1 reset in each tab | one scenario per tab and one more per reset; one offer takes two past accept only if the second read it while the save of the first was under way |
| `demo_motion` | 2 ticks, 1 poll, places 0, 3 and 1, 4 ticks per poll, fair | no delivery before its pickup, none twice, the rider arrives |
| `demo_panel` | 2 dispatch loops, 1 accept loop, 1 button's handler, 2 deliveries, riders and offers, 3 clicks or failures, fair | no rider has two open offers unless another sender or a given-up call made one, loops end with their switch, every delivery gets a rider |
| `claim_max_attempts` | 4 riders, 4 offers, max 2 attempts | violated: the documented maximum |

Every property of a passing run has a mutant: an operator that breaks the code the way a plausible bug
would (a dropped check, a missing reset, a lock without NX), under which TLC finds it violated.

Why the bounds are enough. *One delivery* where dispatching interleaves: offers, locks, jobs and tasks refer
to one delivery each, and what couples deliveries is a rider's status, which `PickRider` and `CheckRider`
take as any value another delivery may have given it (the proofs are for any number). *Two deliveries* in
`ops_serial`, where that coupling is the question: two accepted offers of one rider are its smallest
instance. *Two riders and offers* give the first offer and a redispatch; the third actor is the worker, so
answer, late answer, timeout and crash can all meet on one offer. *Offers per delivery are bounded by the
set `Offer`*: a dispatch that finds no row left stays at its insert. In `dispatch` and `ops_overlap` this
does not happen, as nobody is asked twice and there are as many rows as riders; in `ops_serial` such a
behaviour ends there, and longer ones are the theorems'. *One fault* may hit any step; a second would leave
the same orphans. *Max 2 attempts* for the source's 5: the test is reached both below and at the maximum.
*Window 4 for limit 2*, where the source has 3 per rider wanted: the property is stated in the ratio, and a
fifth rider is behind the window; two changes let one rider come and another go between the two reads. *Two
calls* of the gateway share a service whose crash hits both. *Two demo calls* meet at every pair of
statements, and a third rider's row leaves room for one more beside two seeded ones; one phone per list is
enough for a seed to collide with another and with a client. *Two ticks and a poll*: a third tick does what
the second does, and the poll meets both; the store lies three units away, within the four ticks between two
polls, which is the case in which `Arrives` is not trivial (farther ones: section 8). *Two dispatch loops*
are what one off-and-on makes; *three clicks or failures* turn a switch on, off and on, both switches on
with an order, a seed or a failed call between. *Two scenarios* run in a tab each, or, after a reset, in one
tab. *Faults* (`MaxFaults`, `MaxFailures`), *tries* (`MaxTries`), *tokens* (`MaxAcquires`), *changes*
(`MaxMoves`), *resets* (`MaxResets`), *offers, deliveries and riders of the demo* (`MaxOffers`,
`MaxDeliveries`, `MaxRiders`), *clicks and failed calls of the page* (`MaxEvents`), *calls* (`MaxCalls`) are
named bounds in guards. Symmetry over identifiers is used in runs without liveness only. `nearby_riders`
starts with the riders in the order of their distances, which leaves out renamings only. Runs that may stop
(all rows used, every call ended) say `CHECK_DEADLOCK FALSE`.

Some properties carry an exception that is the code's, each recorded by a history variable or a named
predicate so that everything else is held to the property:

* `ClosedIsFinal` excepts an acceptance that is landing, and `AcceptedByOne` a scenario that read its
  offer while another one's acceptance was landing (`beside`; section 8).
* `AssignedIsBusy` excepts riders with two accepted deliveries under way, riders who set their status,
  and riders whose delivered order was delivered, cancelled or reassigned once more (`excused`).
* `ExactlyOnce` excepts saves of rows that a reset deleted, and new phones for demo riders (`meddled`).
* `DeliveredOnce` is about ticks and polls that do not meet, `Arrives` about calls that are answered
  before the next interval (`ran`).
* `OneOfferEach` and `EverythingDispatched` except riders whom another sender offers something too, the
  backend's own dispatch above all, or a call that a loop gave up (`rivals`); the latter also rows that
  ran out, deliveries left ASSIGNED when an acceptance failed halfway and its offer was closed
  (`Stranded`), and a seed that deleted the riders and failed (`Riderless`).

## 5. Fairness

* `OfferDispatch`: a task takes its next step (the event loop runs what is runnable and every client
  library call ends), a worker takes due jobs, the clock passes deadlines, Redis drops the keys of the
  dead. Nobody has to send a request. `LockIsReturned` holds with any fault. `AnswersInTheEnd`
  is about behaviours without faults: a swallowed `queue.add` or a job given up leaves an offer PENDING
  for ever, and the code has nothing that would find it (`expireOldOffers` is called nowhere).
* `NotificationQueue`: workers go on, backoff delays end, BullMQ's stalled check runs.
* `DemoMotion`: timers fire, and a call is answered or fails (10 s timeout of the client). `Arrives`
  speaks of calls that are quick; slow ones are in the run, as `rough`.
* `DemoPanel`: loops and handlers go on, polling goes on, riders deliver, and what was given up ends. Nobody
  has to click, and no offer has to run out.
* `Gateway`: only the gateway goes on; its 5 s timeout is part of it. Services owe nothing.

## 6. What is proved

| module | theorem | assumes | statement |
|---|---|---|---|
| `OfferDispatchProofs` | `TypeCorrect` | | every variable keeps its type |
| | `DispatchInvariant` | no slow handlers | the inductive invariant `DispatchInv` |
| | `OneLiveOfferAlways`, `OncePerRiderAlways`, `AcceptedIsAssignedAlways` | no slow handlers | one live offer per delivery, nobody asked twice, an accepted offer is backed by its rows |
| | `ClosedIsFinalAlways` | no slow handlers | a closed offer keeps its status unless its acceptance is landing |
| | `PendingIsWatchedAlways` | no slow handlers | before the first fault every pending offer has a timeout job, or a task that will queue one or close it |
| | `DispatchImplementsMatching` | no slow handlers | `OfferDispatch` refines `Matching` |
| | `AttemptsInRangeAlways` | | the attempt number of a row or job never passes the maximum |
| | `ChainsEndAlways` | no slow handlers, finitely many riders | a delivery has no more offers than there are riders |
| `DispatchOpsProofs` | `OneInsideLockAlways` | no slow handlers | whatever overlaps, fails or dies, and although the locks of the dead expire, one operation at a time works on an offer inside its lock |
| | `OneLiveOfferInTurn` | no slow handlers, `Serial` | operations one after another leave no delivery with two live offers, whatever calls fail and processes die |
| | `OwnedWhenIdleInTurn`, `AssignedIsBusyInTurn` | no slow handlers, `Serial` | nor, without failures, a delivery, offer and rider in disagreement |
| | `OneLiveOfferOverlapping`, `OncePerRiderOverlapping` | no slow handlers; nobody calls manual, assign, reassign, cancelByRider | one live offer per delivery, nobody asked twice, while everything else overlaps, fails and dies |
| `RedisProofs` | `LockInvariant`, `ExclusiveAlways`, `HandedOverAlways` | | the lock excludes within the TTL and is handed over only after release or expiry |
| | `SentOncePerRunAlways` | | a notification is sent once, and once more at most for each time its worker died |
| `NearbyRidersProofs` | `AnsweredAreNearestAlways` | | whoever is answered was in the radius and AVAILABLE when each was read, and nobody who was is nearer, however riders change between the reads |
| | `NobodyMissedAlways` | | a short answer leaves somebody out only when more than (OverFetch - 1) * Limit riders in the radius are unavailable |
| `GatewayProofs` | `OnlyForAdminsAlways` | | admin operations are done for admins only |
| | `AtMostOnceAlways`, `TruthfulAlways` | clients repeat after 503 only | a call is done at most once; 200 means done, 401, 403 and 503 not done |
| `DemoDataProofs` | `DataTypeOKAlways` | | types, and rows refer to rows |
| | `GhostsWereDeletedAlways` | | a key without a row is of a rider whom a reset deleted |
| | `FailsOnlyDisturbedAlways` | | a seed or reset fails only if somebody wrote to the tables meanwhile |
| | `ExactlyOnceAlways` | | seeds that all succeeded leave the demo's rows exactly once |
| | `SameStatusAlways`, `ChangedOnRequestAlways` | | a rider's row and key agree, and his status changes on request only, when calls on him do not overlap |
| `DemoScenarioProofs` | `OneScenarioAlways` | | one scenario per tab, and one more for each reset |
| | `AcceptedByOneAlways` | | one offer takes two scenarios past accept only through a save that was under way when the second read the offer |
| `ControlPanelProofs` | `NothingIsAhead`, `PickupBeforeDelivery` | | the SPA never delivers an order that was not picked up |
| | `DeliveredOnceAlways` | | while calls neither fail nor overlap, nobody delivers a delivered order again |
| | `OneOfferEachAlways` | | a rider has two open offers only if a sender other than the loops, a second loop, or a call that a loop gave up made one of them; acceptances take two steps and calls fail halfway |

Each holds for any number of deliveries, riders, offers, tasks, callers, tabs, calls and faults.
The constants are held to the named `ASSUME`s of the modules: identifiers are distinct, `None` is
fresh, and bounds are numbers. The other ones are few: `DemoData` has at least one store and one rider
in its lists, which are finite (`DemoHasRows`, `DemoIsFinite`: the lists of the source), an HTTP call
is not at once a demo call and a store's (`CallersDiffer`), nor a button's handler of `DemoPanel` a loop
(`HandsDiffer`), and `NearbyRiders` has finitely many riders and looks
for at least one (`RidersAreFinite`, `CountsAreNumbers`). A theorem states the rest in its `ASSUME`:

* `~SlowHandlers` for dispatch and operations: no handler outlives the TTL of its lock (10 s, and 5 s for
  the timeout check, `offer-timeout.processor.ts:62`). Then a lock expires only when its holder is dead. It
  is needed (section 8, slow handlers); `RedisLock` shows that under it the lock behaves as `OfferDispatch`
  uses it.
* `Serial` for what the operations leave behind: one starts when the others are over. It is needed: two that
  overlap can undo each other's writes, or both insert an offer (section 8).
* `Endpoints \cap Reoffering = {}` for operations that overlap: no manual offer, assign, reassign or
  cancelByRider is called. These four insert an offer of their own, or dispatch, without having got the right
  to from the offer before, and each of them alone, beside create, accept, reject and timeouts, breaks both
  theorems (TLC finds it on the instance of `ops_overlap`; section 8, two creates at once). The admin's
  cancelOffer, pickup, deliver, cancel and status changes do not.
* `RetryOn \subseteq {503}` for the gateway: a client that repeats a call after 500 or 502, which do not say
  whether it was done, may have it done twice.

### The arguments

**Dispatch.** None of the safety properties is inductive: that a delivery has one live offer says
nothing of a task about to insert another. The invariant therefore tracks a token, *the right to
dispatch a delivery while it is PENDING*, which is either with one live offer or with one dispatching
task (`OneDispatcher`). It passes from task to offer at `InsertOffer`, and from offer to task when an
offer is rejected or expired, which only the holder of the lock does (`LockIsHeld`), on a status that
it read under the lock and that is still true (`ReadStaysTrue`). The un-awaited save is what makes this
delicate: after `ReleaseBeforeSave` the lock no longer protects the offer, a timeout check may expire it
and take the token, but by then the delivery is ASSIGNED (`WrittenSoFar`), so its dispatch stops at
`CheckDelivery` (`CheckedIsPending`), and the landing acceptance is about the one offer that may be
live (`AcceptsTheLiveOne`). `AskedAreExcluded` gives `OncePerRider`. `DispatchInv` was
checked by TLC as an invariant of `dispatch` before it was proved, and the proof has one lemma
per action or family of actions (`...Keeps`), combined in `NextKeeps`. The refinement maps asked riders
to the rows, the holder to the live or landing offer, settled to ASSIGNED; each action is a step of
`Matching` or a stutter (`ImplementsStep`).

That pending offers are watched is proved on top (`WatchInv`). A job is used up when its check begins,
so while a lock is held the offer counts on the holder: whoever has a lock is inside the operation that
acquired it (`HoldersKnow`), before the first fault no lock outlives its holder (`NoneOrphaned`), and a
holder that is past its answer has closed the offer or found it closed (`ClosedByHolder`).

What the attempt number means is proved apart (`AttemptInv`, with no assumption): whoever redispatches
has tested the number he is about to raise, and the number that a save writes back was in range when it
was read. That does not bound the chain, as the job numbered 1 starts again from the beginning (section
7). What ends a chain is `OncePerRider`: the offers of a delivery are mapped to different riders
(`ChainsEnd`).

**Operations.** That one operation works inside a lock needs that no living holder outlives the TTL; a dead one
works no more when its lock expires. `OpsInv` has each
task at a statement that its operation has (`EachInItsPlace`) and every task inside a lock in possession
of it (`InsideHolds`); the un-awaited save of an acceptance is outside, and so are assign and
cancelByRider, which take no lock. For operations in turn, `SerialInv` says what the one running task
may rely on: the offer it read has still that status (`OfferAsRead`), its delivery too
(`DeliveryAsRead`), the rows it names are there and belong together (`Referring`), and a PENDING
delivery, which may be offered, is nobody's (`PendingIsFree`). `BackedInv` describes the tables *in the middle*
of an operation: a delivery is ASSIGNED without an accepted offer only while a task is between those two
writes (`Owned`, `BetweenWrites`), a rider of an accepted offer is BUSY unless his delivery is just
being finished (`Occupied`, `Delivering`), and whoever is being freed has no other delivery, or is
`excused` (`OthersExcused`). When nobody runs, this is `OwnedWhenIdle` and `AssignedIsBusy`.

Operations that overlap (`TokenInv`). The token of the dispatch core is now with one task that dispatches
(`MayDispatch`), or with one offer that *concerns* somebody, because it is PENDING or ACCEPTED, an
acceptance is under way, or an admin is taking it back (`OneConcerned`), or with nobody: cancelOffer of a
pending offer destroys it, and of an accepted one leaves the delivery PENDING with nobody to dispatch it.
cancelOffer decides from a status that it read before the lock, and what it may still rely on is little:
the offer exists and, if it was accepted, is not PENDING (`Knows`). `WrittenSoFar` does not survive,
because the delivery of a landing acceptance may be set PENDING again, or delivered. It is needed only
where a task closes an offer that somebody has taken, or where two might dispatch; there, as long as a
taken offer is PENDING or being answered, its delivery is not PENDING (`TakenIsSettled`), so that the
dispatch stops at `CheckDelivery`. cancelOffer makes a delivery PENDING again under the lock of its one
concerned offer, whose answerers and dispatchers would need that lock (`ReopenKeepsToken`).

**Lock.** In `RedisLock` the invariant relates three clocks: a holder within its TTL owns the token in the
key, and the key has exactly the time left that the holder has.

**Notifications.** A run of a job sends once at most, and the runs that ended in an error ended before the send.
So the sends are at most the stalls, and one more only while a run is past its send or the job is over.

**Search.** Riders move and change status between the two reads, so the invariant speaks of the index as it
was (`indexed`, a history variable) and of the keys as they are, which stay once there is an answer: what
each stage has is a nearest set of what it was given (`SearchInv`). A nearer eligible rider who is left out
would have to be lost at a cut, and then the cut is full of riders no farther away. `NobodyMissed` counts:
if the window cut an eligible rider off, it was full, and an answer shorter than the limit means that the
rest of it was unavailable.

**Gateway.** `GuardInv`: the headers name the one whose token it was. `OnceInv`: only the last try of
a call is with a service or was answered (`LastTryOnly`), a try is with the service until its effect
is there or given up (`EffectEndsTry`), and 503 leaves neither job nor answer nor effect behind
(`RepliesAreTrue`). A repeated call therefore starts from nothing.

**Demo data.** `DataInv` has rows referring to rows, calls at statements that fit their kind, and a key
about to be written belonging to a rider who has or had a row (`SyncsARow`). `EachUndisturbed`
describes the tables at each statement of a call that nobody upset, which is why its `DELETE`s and
`INSERT`s are not refused. `EachCalm` says of a rider whose calls did not overlap that he has one call at
most, which read the row as it is. For `ExactlyOnce` seeds are ordered by the last `DELETE` of riders:
the seed that deleted last has or still claims every phone of the list, and the stores are its own
unless it has a *rival*, another seed that has or claims a phone too; the two collide, and one of them fails
(`SeedsOnce`; checked by TLC before it was proved). `CallsShow` keeps calls that are over in the account.

**Demo scenario.** The tabs and the offers have an invariant each. `TabInv`: the runs under way in a tab are
at most the resets, and one more while the tab shows a step other than idle, which is what the effect asks
for. `AcceptInv`: of the accepts of one offer one is inside the lock (`InLock`), and of two that have read
it open, or are past it (`Took`), one read it while the save of the other was under way; for an offer that a
run got past is not PENDING any more, and never gets PENDING again, whatever was written over the
acceptance.

**Demo motion.** A tick acts on the store it saw, which may be older than the tables, so `NoSkip` needs that
the SPA is never *ahead*: as long as the tables say ASSIGNED, neither the store, nor the view of a tick, nor
what a tick or poll has read says PICKED_UP or DELIVERED (`NothingAhead`). The store is written from answers
only, never from what a handler hopes for, and this is what each step keeps. `DeliveredOnce` needs more,
while nothing overlaps (`SmoothInv`): the store agrees with the tables whenever no tick runs, and within a
tick the tables are exactly as far as its phase says, between freeing the rider and writing DELIVERED too.
In Redis the rider is at the dropoff point by his last tick's report of his position, or a poll put him
there whose home is that point; the report of `setDelivered` loses his id.

**Demo panel.** As long as there were no `rivals`, a rider to whom a loop is about to send has no open offer
(`NobodySends`), and one who has an offer has one only (`OneAtMost`). Nothing of this rests on the rider's
status: he is BUSY with an open offer while an acceptance is under way, and stays so when it fails halfway.
A loop matches from a store of any age, but it looks at the offers after that, and closing an offer, a seed,
a late save or a delivery's end never adds one. A call that a loop gave up does, and is a rival of the loop
from then on.

### Only model-checked

* Liveness: `LockIsReturned`, `AnswersInTheEnd`, `Settles`, `Arrives`, `LoopsEnd`,
  `EverythingDispatched`, `EveryCallAnswered`. Fairness and ENABLED are out of the prover's reach.
* `DispatchStops`, which the code does not keep (section 7); `AttemptsInRangeAlways` and `ChainsEndAlways`
  say what it keeps instead.

Every invariant and every action property that a passing run checks is proved, under the assumptions above.

Facts by induction over data, and recursive operators, are out of reach too; no module needs them.

## 7. Disagreements with the documents

One is shown by a run that is expected to find a violation.

* `claim_max_attempts`: "최대 5회 재배차 후 중단" (`dev/done/offer-timeout/offer-timeout-tasks.md:64`).
  `create` schedules a job numbered 1 for every offer, redispatched ones too, and the job with the
  real number comes second, when the offer is closed: a chain of timeouts never reaches the maximum.

## 8. Observations made while modelling

They follow from the models or the source, and no run of this project states them.

* *Two creates at once* (`offer.service.ts:59`): `create` looks for a pending offer and inserts its own
  with nothing between that would stop a second `create`. A manual offer beside a dispatch (`OpsOverlap`
  with the endpoints `create` and `manual`) makes two live offers, where `README.md:26` of the source
  has one rider per order.
* *Landing acceptances* (`offer.service.ts:169`): the last save of `respond` is not awaited inside
  `try`, so the lock is free before the save is done; a timeout check can expire the offer and the save
  turns it into ACCEPTED, or is overwritten by EXPIRED with the delivery ASSIGNED.
* *Two accepts of one offer*: in the same window a second `respond` gets the lock, reads PENDING and
  succeeds too, so that two tabs of the demo go on with one offer (`beside` in `DemoScenario`). Nothing
  makes the offer that a scenario accepts the offer of its own delivery, and pickup asks for none, so an
  order may be picked up whose offer expired or was deleted.
* *Late answers* (`offer.service.ts:136`): an answer after `expiresAt` expires the offer and throws; the
  job then finds nothing PENDING, and nobody redispatches.
* *Partial acceptance* (`offer.service.ts:147`): after `setAssigned` committed and a later call failed,
  the delivery is ASSIGNED without an accepted offer and dispatch stops at its status.
* *Slow handlers* (`redis-lock.service.ts:27`): a `respond` slower than the TTL accepts an offer that was
  expired and redispatched; with `SlowHandlers = TRUE` two riders hold the delivery. A timeout check has half
  the time (5 s).
* *Skipped checks* (`offer-timeout.processor.ts:63`): a check that meets a held lock gives up for good; if the
  holder then fails before it writes, or `queue.add` was swallowed, the offer stays PENDING.
* `cancelOffer` uses the offer it read before the lock (`admin.service.ts:162`): an acceptance in between
  is overwritten without the reset of delivery and rider.
* `reassignDelivery` does not look at the delivery's status: a DELIVERED one becomes PENDING again.
* `cancelPendingOffersForDelivery` takes no locks: an answer under way overwrites the cancellation.
* `setCancelled` leaves the rider BUSY and the offer ACCEPTED.
* Concurrent status changes can leave the Redis key with the status of the one that saved first; a
  profile update writes back the status it read.
* A rider with two open offers can accept both, and either delivery's end frees him; so does `deliver`,
  `cancelOffer` or `reassignDelivery` for an order he delivered before (`delivery.service.ts:104`).
  The SPA moves him for the newest of the two only (`ControlPanel.tsx:195`).
* `seedBulkData` resets nothing and its random phones may be taken; a reset leaves the riders' keys and
  positions in Redis. A `Promise.all` that fails leaves what its other saves insert. A PATCH of a rider
  or store that was read before a reset brings the deleted row back.
* Every poll puts a moving rider back to the position of his row (`App.tsx:43`), although a comment
  says that positions are preserved (`ControlPanel.tsx:333`): one whose target is more than four ticks
  away never gets there. An old answer can also make a tick pick up or deliver an order once more.
* `SmsProcessor` completes 'send' jobs it takes without sending; of a payload with rider and store only
  the rider is told, so "Notify store" (`offer.service.ts:150`) does not happen.
* *Names lost in gRPC*: no setting of the loader brings the rider's id to core-service, which reads
  `riderId` where the server writes `rider_id` (dropped by default, and delivered as `rider_id` with
  `keepCase`). `create` with `riderId: undefined` looks a rider up with `where: { id: undefined }`, finds
  any, and the INSERT of an offer without a rider fails, so that the auto-dispatch, whose excluded riders it
  cannot tell either, makes no offer. The radius is 5 km instead of 3 (`location.grpc.controller.ts:37`). A
  location reported after a delivery is stored for the member `''`, which takes a place in the window of the
  next search.
* `location.service.spec.ts:65` expects COUNT 10 for a limit of 10, where the code asks for 30
  (`location.service.ts:27`).
* *Given-up creates of the page* (`ControlPanel.tsx:329`): the gateway gives up after 5 s while the service goes
  on, the loop sends another offer to the same rider, and he has two.
* The gateway passes 5xx through where `proxy-context.md:41` has 502, and sets no identity headers on
  public paths even for a request with a token.
* The demo: without rider apps the seeded riders are not in Redis, so a scenario finds no offer and
  skips to its end; play after an end starts nothing; `offers[0]` may be another tab's.
* The initial migration lacks the enum value `CANCELLED_BY_ADMIN` and the column `attemptCount`.

## 9. Not modelled

* Read-only endpoints, login, me and health: no state.
* SPA views (`KakaoMap`, `ActivityFeed`, `BottomPanel`, `Header`): they draw the store. The feed, progress
  bar and toasts likewise.
* Deployment files, CI: no behaviour; restarts and several instances are crashes and tasks here.
* Rate limiting: documented and a dependency, but no code.
* `expireOldOffers`, `findNearbyRidersForDelivery`, `useRiderSimulation`: nothing of consequence calls them.
* The migration against the entities: a static difference (section 8).
* What an operation does to the rows when it outlives the TTL of its lock: `RedisLock` shows who holds the lock
  then, and `DispatchOps` lets locks expire under the dead and under landing saves only, unless `SlowHandlers`.
* In `DemoScenario` only seed and accept change the offers; what its other calls do to other rows, and the
  failures that two seeds cause each other, are in `DispatchOps` and `DemoData`.
* The pause of polling while the automatic scenario runs (`App.tsx`, `enabled`): `DemoMotion` is about the
  time in which polls and ticks compete; without polls a tick meets only other ticks.
* A page that is closed or loaded again: its loops and handlers end, which is what a switch that goes off
  and failed calls do in `DemoPanel` and `DemoMotion`.

## 10. Plan

The offer life cycle came first, because everything else protects or disturbs it; then the operations,
the lock, riders and search it relies on; then queue and gateway; then the demo, which drives all of
them. All modules of the plan exist, and the safety properties that the runs check are proved. Worth doing next:

1. What overlapping manual offers, assign, reassign and cancelByRider *do* guarantee (a bound on a
   delivery's live offers by the operations that overlapped, for one), since they break `OneLiveOffer`.
2. Operations that outlive the TTL of their lock (`SlowHandlers` in `DispatchOps`): what is left of the
   agreement of rows.

Abstract specifications worth stating next: a rider's status as one register that `RiderStatus`
implements when calls do not overlap; a call as done-or-not for `Gateway`.

## 11. How to run

    tlc -workers 2 -config Dispatch.cfg MCOfferDispatch
    tlapm OfferDispatchProofs.tla     (and the seven other `...Proofs` modules)

`PROJECT.json` names module and configuration of each run. The longest take two and a half minutes
with two workers.
