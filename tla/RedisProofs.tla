------------------------------ MODULE RedisProofs -------------------------------
(***************************************************************************)
(* What the services build on Redis beside their status keys.              *)
(*                                                                         *)
(* RedisLockService is a mutex for work that ends within the TTL, and the  *)
(* lock that OfferDispatch assumes, for any number of callers and any TTL. *)
(*                                                                         *)
(* The queue 'notification' has each run of a job send it once, for any    *)
(* number of jobs, attempts, failures and deaths of notification-worker.   *)
(***************************************************************************)
EXTENDS RedisLock, NotificationQueue, TLAPS

LEMMA InitInv == Init => LockInv
BY TtlIsPositive
   DEF Init, LockInv, TypeOK, Free, Watched, Fresh, Overran, InTime, Holds

LEMMA AcquireInv == ASSUME LockInv, NEW c \in Caller, Acquire(c) PROVE LockInv'
<1>1. TypeOK'
  BY TtlIsPositive DEF LockInv, TypeOK, Acquire
<1>2. key' < uuid' /\ (Free' <=> left' = 0)
  BY TtlIsPositive DEF LockInv, TypeOK, Acquire, Free
<1>3. ASSUME NEW d \in Caller PROVE Watched(d)'
  BY TtlIsPositive DEF LockInv, TypeOK, Acquire, Free, Watched, InTime, Holds
<1>4. ASSUME NEW d \in Caller PROVE Fresh(d)'
  BY DEF LockInv, TypeOK, Acquire, Fresh, Holds
<1>5. ASSUME NEW d \in Caller PROVE Overran(d)'
  BY TtlIsPositive DEF LockInv, TypeOK, Acquire, Fresh, Overran, Holds
<1> QED
  BY <1>1, <1>2, <1>3, <1>4, <1>5 DEF LockInv

LEMMA ForgetInv ==
  ASSUME LockInv, NEW c \in Caller, Holds(c), Forget(c),
         (key' = key /\ left' = left) \/ (key = held[c] /\ key' = 0 /\ left' = 0),
         uuid' = uuid
  PROVE  LockInv'
<1>1. TypeOK'
  BY TtlIsPositive DEF LockInv, TypeOK, Forget
<1>2. key' < uuid' /\ (Free' <=> left' = 0)
  BY DEF LockInv, TypeOK, Free
<1>3. ASSUME NEW d \in Caller PROVE Watched(d)'
  BY DEF LockInv, TypeOK, Forget, Watched, Fresh, InTime, Holds
<1>4. ASSUME NEW d \in Caller PROVE Fresh(d)'
  BY DEF LockInv, TypeOK, Forget, Fresh, Holds
<1>5. ASSUME NEW d \in Caller PROVE Overran(d)'
  BY TtlIsPositive DEF LockInv, TypeOK, Forget, Fresh, Overran, Holds
<1> QED
  BY <1>1, <1>2, <1>3, <1>4, <1>5 DEF LockInv

LEMMA TickInv == ASSUME LockInv, Tick PROVE LockInv'
<1>1. left \in Nat \ {0}
  BY DEF LockInv, TypeOK, Tick
<1>2. TypeOK'
  BY <1>1, TtlIsPositive DEF LockInv, TypeOK, Tick, InTime
<1>3. key' < uuid' /\ (Free' <=> left' = 0)
  BY <1>1 DEF LockInv, TypeOK, Tick, Free
<1>4. ASSUME NEW d \in Caller PROVE Watched(d)'
  BY <1>1, TtlIsPositive DEF LockInv, TypeOK, Tick, Watched, InTime, Holds
<1>5. ASSUME NEW d \in Caller PROVE Fresh(d)'
  BY DEF LockInv, TypeOK, Tick, Fresh, Holds
<1>6. ASSUME NEW d \in Caller PROVE Overran(d)'
  BY <1>1, TtlIsPositive DEF LockInv, TypeOK, Tick, Watched, Overran, InTime, Holds
<1> QED
  BY <1>2, <1>3, <1>4, <1>5, <1>6 DEF LockInv

LEMMA NextInv == LockInv /\ [Next]_vars => LockInv'
<1> SUFFICES ASSUME LockInv, [Next]_vars PROVE LockInv'
  OBVIOUS
<1>1. ASSUME NEW c \in Caller, Acquire(c) PROVE LockInv'
  BY <1>1, AcquireInv
<1>2. ASSUME NEW c \in Caller, Release(c) PROVE LockInv'
  BY <1>2, ForgetInv DEF Release
<1>3. ASSUME NEW c \in Caller, Abandon(c) PROVE LockInv'
  BY <1>3, ForgetInv DEF Abandon
<1>4. CASE Tick
  BY <1>4, TickInv
<1>5. CASE UNCHANGED vars
  BY <1>5 DEF vars, LockInv, TypeOK, Free, Watched, Fresh, Overran, InTime, Holds
<1> QED
  BY <1>1, <1>2, <1>3, <1>4, <1>5 DEF Next

(* Every token in use is fresh, and every holder in time has the key.      *)
THEOREM LockInvariant == Spec => []LockInv
<1> QED
  BY InitInv, NextInv, PTL DEF Spec

LEMMA InvExclusive == LockInv => Exclusive
BY DEF LockInv, Watched, Fresh, Exclusive, InTime, Holds

(* Two callers in time never both hold the lock: what respond,             *)
(* handleTimeoutCheck and the admin's operations rely on.                  *)
THEOREM ExclusiveAlways == Spec => []Exclusive
<1> QED
  BY LockInvariant, InvExclusive, PTL

LEMMA ExchangeStep == LockInv /\ [Next]_vars => [key' # key \/ Orphan' # Orphan => Exchange]_vars
<1> SUFFICES ASSUME LockInv, Next, key' # key \/ Orphan' # Orphan PROVE Exchange
  BY DEF vars
<1>1. ASSUME NEW c \in Caller, Acquire(c) PROVE Exchange
  BY <1>1 DEF LockInv, TypeOK, Acquire, Exchange, Owner, Free
<1>2. ASSUME NEW c \in Caller, Release(c) PROVE Exchange
  <2>1. CASE key = held[c]
    BY <1>2, <2>1 DEF LockInv, TypeOK, Release, Forget, Exchange, Owner, Free, Holds
  <2>2. CASE key # held[c]
    <3>1. key' = key /\ (\A d \in Caller : Owner(d)' <=> Owner(d))
      BY <1>2, <2>2 DEF LockInv, TypeOK, Release, Forget, Owner, Free, Holds
    <3> QED
      BY <3>1 DEF Orphan, Free
  <2> QED
    BY <2>1, <2>2
<1>3. ASSUME NEW c \in Caller, Abandon(c) PROVE Exchange
  <2>1. CASE key = held[c]
    <3>1. Owner(c) /\ ~Holds(c)'
      BY <1>3, <2>1 DEF LockInv, TypeOK, Abandon, Forget, Owner, Free, Holds
    <3>2. ASSUME NEW d \in Caller PROVE ~Owner(d)'
      BY <1>3, <2>1 DEF LockInv, TypeOK, Fresh, Abandon, Forget, Owner, Free, Holds
    <3>3. Orphan'
      BY <1>3, <2>1, <3>2 DEF Abandon, Orphan, Free, Holds
    <3> QED
      BY <3>1, <3>3 DEF Exchange
  <2>2. CASE key # held[c]
    <3>1. key' = key /\ (\A d \in Caller : Owner(d)' <=> Owner(d))
      BY <1>3, <2>2 DEF LockInv, TypeOK, Abandon, Forget, Owner, Free, Holds
    <3> QED
      BY <3>1 DEF Orphan, Free
  <2> QED
    BY <2>1, <2>2
<1>4. CASE Tick
  <2>1. CASE left # 1
    BY <1>4, <2>1 DEF LockInv, TypeOK, Tick, Orphan, Owner, Free
  <2>2. CASE left = 1 /\ Orphan
    BY <1>4, <2>2 DEF Tick, Exchange, Free
  <2>3. CASE left = 1 /\ ~Orphan
    <3>1. PICK c \in Caller : Owner(c)
      BY <1>4, <2>3 DEF Orphan, Tick, Free
    <3>2. age[c]' = Ttl
      BY <1>4, <2>3, <3>1, TtlIsPositive
      DEF LockInv, TypeOK, Tick, Watched, Overran, InTime, Holds, Owner, Free
    <3> QED
      BY <1>4, <2>3, <3>1, <3>2 DEF Tick, Exchange, Free
  <2> QED
    BY <2>1, <2>2, <2>3
<1> QED
  BY <1>1, <1>2, <1>3, <1>4 DEF Next

(* The lock changes hands only as OfferDispatch lets it.                   *)
THEOREM HandedOverAlways == Spec => HandedOver
<1> QED
  BY LockInvariant, ExchangeStep, PTL DEF Spec, HandedOver

-------------------------------------------------------------------------------
(* A job is sent at most as often as it was given out again, and once more *)
(* only in the run that goes on or was the last.                           *)
QueueTypeOK ==
  /\ kind \in [Job -> Kind \cup {None}] /\ state \in [Job -> State] /\ stalls \in [Job -> Nat]
  /\ sent \in [Job -> [Addressee -> Nat]]
  /\ at \in [Worker -> Job \cup {None}] /\ pushed \in BOOLEAN

Sends(j) == sent[j]["rider"] + sent[j]["store"]
NotYet(j) == state[j] \in {"none", "waiting", "delayed"} \/ (at["push"] = j /\ ~pushed)

(* Workers are at jobs that are active, each at its own.                   *)
WorkersApart ==
  /\ \A w \in Worker : at[w] # None => state[at[w]] = "active"
  /\ at["push"] # None => at["push"] # at["sms"]
  /\ pushed => at["push"] # None

QueueInv ==
  /\ QueueTypeOK /\ WorkersApart
  /\ \A j \in Job : Sends(j) <= (IF NotYet(j) THEN 0 ELSE 1) + stalls[j]

LEMMA InitQueue == QueueInit => QueueInv
<1> SUFFICES ASSUME QueueInit PROVE QueueInv
  OBVIOUS
<1>1. QueueTypeOK
  BY DEF QueueInit, QueueTypeOK, State
<1>2. WorkersApart
  BY DEF QueueInit, WorkersApart, Worker
<1>3. \A j \in Job : Sends(j) = 0 /\ stalls[j] = 0 /\ NotYet(j)
  BY DEF QueueInit, Sends, NotYet, Addressee
<1> QED
  BY <1>1, <1>2, <1>3 DEF QueueInv

LEMMA QueueStep == ASSUME QueueInv, [QueueNext]_queueVars PROVE QueueInv'
<1> USE DEF QueueInv, QueueTypeOK, WorkersApart, Sends, NotYet, Becomes, Leave, Worker, State, Addressee
<1>1. ASSUME NEW j \in Job, NEW k \in Kind, Add(j, k) PROVE QueueInv'
  BY <1>1 DEF Add
<1>2. ASSUME NEW w \in Worker, NEW j \in Job, Take(w, j) PROVE QueueInv'
  BY <1>2, NoneIsFresh DEF Take
<1>3. ASSUME NEW w \in Worker, NEW j \in Job, Complete(w, j) PROVE QueueInv'
  <2>1. CASE w = "sms"
    BY <1>3, <2>1, NoneIsFresh DEF Complete
  <2>2. CASE w = "push"
    BY <1>3, <2>2, NoneIsFresh DEF Complete
  <2> QED
    BY <2>1, <2>2
<1>4. ASSUME NEW j \in Job, Push(j) PROVE QueueInv'
  BY <1>4, NoneIsFresh DEF Push, Target
<1>5. ASSUME NEW j \in Job, PushThrows(j) PROVE QueueInv'
  BY <1>5, NoneIsFresh DEF PushThrows
<1>6. ASSUME NEW j \in Job, Backoff(j) PROVE QueueInv'
  BY <1>6 DEF Backoff
<1>7. ASSUME NEW j \in Job, Stalled(j) PROVE QueueInv'
  BY <1>7 DEF Stalled
<1>8. ASSUME Die PROVE QueueInv'
  <2>1. /\ at' \in [Worker -> Job \cup {None}] /\ pushed' = FALSE /\ \A w \in Worker : at'[w] = None
        /\ UNCHANGED <<kind, state, stalls, sent>>
    BY <1>8 DEF Die
  <2>2. \A j \in Job : NotYet(j)' => NotYet(j)
    BY <2>1, NoneIsFresh
  <2>3. \A j \in Job : Sends(j)' = Sends(j) /\ stalls'[j] = stalls[j] /\ Sends(j) \in Nat /\ stalls[j] \in Nat
    BY <2>1
  <2>4. \A j \in Job : Sends(j)' <= (IF NotYet(j)' THEN 0 ELSE 1) + stalls'[j]
    <3> HIDE DEF Sends, NotYet
    <3> QED
      BY <2>2, <2>3
  <2>5. QueueTypeOK' /\ WorkersApart'
    BY <2>1
  <2> QED
    BY <2>4, <2>5
<1>9. CASE UNCHANGED queueVars
  BY <1>9 DEF queueVars
<1> QED
  BY <1>1, <1>2, <1>3, <1>4, <1>5, <1>6, <1>7, <1>8, <1>9 DEF QueueNext, Process

(* A notification goes to FCM once, and once more at most each time that   *)
(* its worker died under it: retries after an error never send it again.   *)
THEOREM SentOncePerRunAlways == QueueSpec => []SentOncePerRun
<1>1. QueueInv => SentOncePerRun
  BY DEF QueueInv, QueueTypeOK, Sends, NotYet, SentOncePerRun, Addressee
<1> QED
  BY <1>1, InitQueue, QueueStep, PTL DEF QueueSpec
===============================================================================
