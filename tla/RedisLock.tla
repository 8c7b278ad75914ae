------------------------------- MODULE RedisLock -------------------------------
(***************************************************************************)
(* RedisLockService: one key lock:<name> in Redis, set with NX and a TTL   *)
(* to a token of its own, and released by a script that compares tokens.   *)
(* Every operation is one command to Redis. A caller that works past the   *)
(* TTL still believes that it holds the lock.                              *)
(***************************************************************************)
EXTENDS Naturals

CONSTANTS
  Caller,       \* the tasks that ask for the lock
  Ttl,          \* defaultTtl, in ticks of the clock
  MaxAcquires   \* bound on the tokens handed out

ASSUME TtlIsPositive == Ttl \in Nat \ {0}
ASSUME AcquiresAreCounted == MaxAcquires \in Nat

VARIABLES
  key,   \* the token in Redis, 0 when there is no key
  left,  \* ticks until the key expires
  held,  \* held[c]: the token in the Lock object of c, 0 when it has none
  age,   \* age[c]: ticks since c acquired, counted up to the TTL
  uuid   \* the next token

vars == <<key, left, held, age, uuid>>

Free == key = 0
Holds(c) == held[c] # 0
InTime(c) == Holds(c) /\ age[c] < Ttl

Forget(c) == held' = [held EXCEPT ![c] = 0] /\ age' = [age EXCEPT ![c] = 0]

-------------------------------------------------------------------------------
(* Mutant: SET without NX.                                                 *)
SetAlways(c) ==
  /\ ~Holds(c) /\ uuid <= MaxAcquires
  /\ key' = uuid /\ left' = Ttl
  /\ held' = [held EXCEPT ![c] = uuid] /\ age' = [age EXCEPT ![c] = 0]
  /\ uuid' = uuid + 1

(* SET key token PX ttl NX. (A caller that finds the key gets null.)       *)
Acquire(c) ==
  /\ ~Holds(c) /\ uuid <= MaxAcquires
  /\ Free
  /\ key' = uuid /\ left' = Ttl
  /\ held' = [held EXCEPT ![c] = uuid] /\ age' = [age EXCEPT ![c] = 0]
  /\ uuid' = uuid + 1

(* Mutant: DEL without comparing the token.                                *)
DeleteAlways(c) ==
  /\ Holds(c) /\ Forget(c)
  /\ key' = 0 /\ left' = 0
  /\ UNCHANGED uuid

(* The script: delete the key if it still has this token.                  *)
Release(c) ==
  /\ Holds(c) /\ Forget(c)
  /\ \/ key = held[c] /\ key' = 0 /\ left' = 0
     \/ key # held[c] /\ UNCHANGED <<key, left>>
  /\ UNCHANGED uuid

(* The process of c dies, or its release does not reach Redis.             *)
Abandon(c) ==
  /\ Holds(c) /\ Forget(c)
  /\ UNCHANGED <<key, left, uuid>>

(* Mutant: SET without PX.                                                 *)
TickForever ==
  /\ ~Free
  /\ left' = left - 1
  /\ age' = [c \in Caller |-> IF InTime(c) THEN age[c] + 1 ELSE age[c]]
  /\ UNCHANGED <<key, held, uuid>>

(* Time passes, also for those who hold the lock; the key expires.         *)
Tick ==
  /\ ~Free
  /\ left' = left - 1
  /\ key' = IF left = 1 THEN 0 ELSE key
  /\ age' = [c \in Caller |-> IF InTime(c) THEN age[c] + 1 ELSE age[c]]
  /\ UNCHANGED <<held, uuid>>

Init ==
  /\ key = 0 /\ left = 0 /\ uuid = 1
  /\ held = [c \in Caller |-> 0] /\ age = [c \in Caller |-> 0]

Next ==
  \/ \E c \in Caller : Acquire(c) \/ Release(c) \/ Abandon(c)
  \/ Tick

Spec == Init /\ [][Next]_vars

-------------------------------------------------------------------------------
(* Every variable has its type.                                            *)
TypeOK ==
  /\ key \in Nat /\ left \in 0..Ttl /\ uuid \in Nat \ {0}
  /\ held \in [Caller -> Nat] /\ age \in [Caller -> 0..Ttl]

(* Two callers that both believe to hold the lock, and both acquired it    *)
(* less than the TTL ago, do not exist: `acquire' is a mutex for work that *)
(* ends within the TTL.                                                    *)
Exclusive == \A c, d \in Caller : InTime(c) /\ InTime(d) => c = d

(* The key that OfferDispatch calls lock[o]: free, its holder, or nobody's.*)
Owner(c) == key = held[c] /\ ~Free
Orphan == ~Free /\ \A c \in Caller : ~Owner(c)

(* The lock changes hands only as OfferDispatch lets it: from free to a    *)
(* caller; from a caller to free by its own release, or to nobody's; and,  *)
(* from nobody's, to free. In particular a caller that overran the TTL     *)
(* does not release the lock of its successor.                             *)
Exchange ==
  \/ Free /\ \E c \in Caller : Owner(c)'
  \/ \E c \in Caller : Owner(c) /\ ~Holds(c)' /\ (Free' \/ Orphan')
  \/ Orphan /\ Free'
  \/ \E c \in Caller : Owner(c) /\ Free' /\ age[c]' = Ttl
HandedOver == [][key' # key \/ Orphan' # Orphan => Exchange]_vars

(* Why: the key outlives every holder that is in time by exactly the time  *)
(* it has left, and no token is used twice.                                *)
Watched(c) == InTime(c) => key = held[c] /\ left = Ttl - age[c]
Fresh(c) == held[c] < uuid /\ (\A d \in Caller : Holds(c) /\ held[c] = held[d] => c = d)
Overran(c) == Holds(c) /\ age[c] = Ttl => key # held[c]
LockInv ==
  /\ TypeOK
  /\ key < uuid
  /\ Free <=> left = 0
  /\ \A c \in Caller : Watched(c) /\ Fresh(c) /\ Overran(c)
===============================================================================
