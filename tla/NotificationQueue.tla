--------------------------- MODULE NotificationQueue ---------------------------
(***************************************************************************)
(* The queue 'notification' from core-service's producer to the processors *)
(* of notification-worker. Every job is named 'send'. PushProcessor and    *)
(* SmsProcessor are two BullMQ workers of that one queue, in one process:  *)
(* each job goes to whichever takes it first.                              *)
(***************************************************************************)
EXTENDS Naturals

CONSTANTS
  Job,        \* the notifications
  None,       \* no job
  Attempts,   \* `attempts' of a job
  MaxFaults   \* bound on calls that throw and on deaths of the process

ASSUME NoneIsFresh == None \notin Job
ASSUME AttemptsArePositive == Attempts \in Nat \ {0}
ASSUME FaultsAreCounted == MaxFaults \in Nat

Worker == {"push", "sms"}
Kind == {"OFFER_CREATED", "OFFER_ACCEPTED", "OFFER_REJECTED", "DELIVERY_UPDATE"}
State == {"none", "waiting", "active", "delayed", "completed", "failed"}

VARIABLES
  kind,     \* kind[j]: the type of the notification, None before it is made
  state,    \* state[j]: where BullMQ has the job
  tries,    \* tries[j]: attempts that threw
  stalls,   \* stalls[j]: how often its worker died under it
  sent,     \* sent[j][a]: how often FCM took it for addressee a
  at,       \* at[w]: the job that worker w processes
  pushed,   \* the job of PushProcessor has gone to FCM
  faults

queueVars == <<kind, state, tries, stalls, sent, at, pushed, faults>>

(* Who the payload names, and whom the processor picks: the rider first.   *)
Addressee == {"rider", "store"}
HasRider(k) == k # "OFFER_REJECTED"
Target(k) == IF HasRider(k) THEN "rider" ELSE "store"

MaxStalls == 1  \* BullMQ's maxStalledCount

Becomes(j, s) == state' = [state EXCEPT ![j] = s]
Leave(w) == at' = [at EXCEPT ![w] = None]

-------------------------------------------------------------------------------
(* sendNotification: the job, or an error that is logged and swallowed.    *)
Add(j, k) ==
  /\ state[j] = "none" /\ kind[j] = None
  /\ kind' = [kind EXCEPT ![j] = k]
  /\ \/ Becomes(j, "waiting") /\ UNCHANGED faults
     \/ faults < MaxFaults /\ faults' = faults + 1 /\ UNCHANGED state
  /\ UNCHANGED <<tries, stalls, sent, at, pushed>>

(* A worker takes a job: any of those that wait.                           *)
Take(w, j) ==
  /\ at[w] = None /\ state[j] = "waiting"
  /\ Becomes(j, "active")
  /\ at' = [at EXCEPT ![w] = j]
  /\ UNCHANGED <<kind, tries, stalls, sent, pushed, faults>>

(* PushProcessor.process: FCM takes the message ...                        *)
Push(j) ==
  /\ at["push"] = j /\ ~pushed
  /\ pushed' = TRUE
  /\ sent' = [sent EXCEPT ![j][Target(kind[j])] = @ + 1]
  /\ UNCHANGED <<kind, state, tries, stalls, at, faults>>

(* Mutant: sendFcm throws after FCM took the message.                      *)
PushThrowsLate(j) ==
  /\ at["push"] = j /\ ~pushed
  /\ faults < MaxFaults /\ faults' = faults + 1
  /\ sent' = [sent EXCEPT ![j][Target(kind[j])] = @ + 1]
  /\ tries' = [tries EXCEPT ![j] = @ + 1]
  /\ Becomes(j, IF tries'[j] < Attempts THEN "delayed" ELSE "failed") /\ Leave("push")
  /\ UNCHANGED <<kind, stalls, pushed>>

(* ... or sendFcm throws.                                                  *)
PushThrows(j) ==
  /\ at["push"] = j /\ ~pushed
  /\ faults < MaxFaults /\ faults' = faults + 1
  /\ tries' = [tries EXCEPT ![j] = @ + 1]
  /\ Becomes(j, IF tries'[j] < Attempts THEN "delayed" ELSE "failed") /\ Leave("push")
  /\ UNCHANGED <<kind, stalls, sent, pushed>>

(* Mutant: SmsProcessor waits for something that never comes.              *)
CompletePush(w, j) ==
  /\ at[w] = j /\ w = "push" /\ pushed /\ pushed' = FALSE
  /\ Becomes(j, "completed") /\ Leave(w)
  /\ UNCHANGED <<kind, tries, stalls, sent, faults>>

(* process returns. SmsProcessor returns at once: the name is not 'sms'.   *)
Complete(w, j) ==
  /\ at[w] = j
  /\ \/ w = "sms" /\ UNCHANGED pushed
     \/ w = "push" /\ pushed /\ pushed' = FALSE
  /\ Becomes(j, "completed") /\ Leave(w)
  /\ UNCHANGED <<kind, tries, stalls, sent, faults>>

(* The delay of the exponential backoff is over.                           *)
Backoff(j) ==
  /\ state[j] = "delayed" /\ Becomes(j, "waiting")
  /\ UNCHANGED <<kind, tries, stalls, sent, at, pushed, faults>>

(* notification-worker dies and restarts; its jobs stay active ...         *)
Die ==
  /\ \E w \in Worker : at[w] # None
  /\ faults < MaxFaults /\ faults' = faults + 1
  /\ at' = [w \in Worker |-> None] /\ pushed' = FALSE
  /\ UNCHANGED <<kind, state, tries, stalls, sent>>

(* ... until BullMQ finds them stalled, and gives them out again, once.    *)
Stalled(j) ==
  /\ state[j] = "active" /\ \A w \in Worker : at[w] # j
  /\ \/ /\ stalls[j] < MaxStalls /\ Becomes(j, "waiting")
        /\ stalls' = [stalls EXCEPT ![j] = @ + 1]
     \/ stalls[j] = MaxStalls /\ Becomes(j, "failed") /\ UNCHANGED stalls
  /\ UNCHANGED <<kind, tries, sent, at, pushed, faults>>

QueueInit ==
  /\ kind = [j \in Job |-> None] /\ state = [j \in Job |-> "none"]
  /\ tries = [j \in Job |-> 0] /\ stalls = [j \in Job |-> 0] /\ sent = [j \in Job |-> [a \in Addressee |-> 0]]
  /\ at = [w \in Worker |-> None] /\ pushed = FALSE
  /\ faults = 0

Process(w) ==
  \E j \in Job :
    \/ Take(w, j) \/ Complete(w, j)
    \/ w = "push" /\ (Push(j) \/ PushThrows(j))

QueueNext ==
  \/ \E j \in Job, k \in Kind : Add(j, k)
  \/ \E w \in Worker : Process(w)
  \/ \E j \in Job : Backoff(j) \/ Stalled(j)
  \/ Die

(* A worker with a job finishes it and takes the next, timers fire.        *)
Fairness ==
  /\ \A w \in Worker : WF_queueVars(Process(w))
  /\ \A j \in Job : WF_queueVars(Backoff(j)) /\ WF_queueVars(Stalled(j))

QueueSpec == QueueInit /\ [][QueueNext]_queueVars /\ Fairness

-------------------------------------------------------------------------------
(* A notification is sent once, to one addressee, and once more at most    *)
(* each time the worker died between FCM and the completion of the job.    *)
SentOncePerRun == \A j \in Job : sent[j]["rider"] + sent[j]["store"] <= 1 + stalls[j]

(* A queued notification is eventually completed or given up.              *)
Settles ==
  \A j \in Job : state[j] = "waiting" ~> state[j] \in {"completed", "failed"}
===============================================================================
