------------------------------ MODULE RiderStatus ------------------------------
(***************************************************************************)
(* RiderService on one row and one Redis key per rider. A status lives in  *)
(* the table riders and, for location-service, in rider:status:<id>. Every *)
(* operation reads the row, saves the whole entity it read, and then       *)
(* writes the key; other operations on the rider may run between.          *)
(* DemoData runs these actions beside those of the demo data.              *)
(***************************************************************************)
EXTENDS Naturals

CONSTANTS
  Rider,      \* the ids of riders
  Phone,      \* the values of riders.phone, which has a unique index
  Task,       \* concurrent calls
  None,       \* no row, no key
  MaxFaults   \* bound on calls that fail or die

Status == {"AVAILABLE", "BUSY", "OFFLINE"}
Row == [status : Status, phone : Phone]

ASSUME NoneIsFresh == None \notin Rider \cup Phone \cup Row
ASSUME FaultsAreCounted == MaxFaults \in Nat

VARIABLES
  row,        \* row[r]: the row of r in the table riders, or None
  redis,      \* redis[r]: the key rider:status:<r>, or None
  pc, loc,    \* what each call does next; its operation, rider and entity
  disturbed,  \* riders with two calls at once, or a call that failed, so far
  faults

vars == <<row, redis, pc, loc, disturbed, faults>>

Blank == [op |-> "none", rider |-> None, entity |-> None]

Stored(r) == row[r] # None
Busy(r) == \E t \in Task : loc[t].rider = r
TakenPhone(p, r) == \E q \in Rider \ {r} : Stored(q) /\ row[q].phone = p

Goto(t, step) == pc' = [pc EXCEPT ![t] = step]
Done(t) == Goto(t, "idle") /\ loc' = [loc EXCEPT ![t] = Blank]
Begin(t, op, r, entity, step) ==
  /\ pc[t] = "idle" /\ Goto(t, step)
  /\ loc' = [loc EXCEPT ![t] = [op |-> op, rider |-> r, entity |-> entity]]
  /\ disturbed' = IF Busy(r) THEN disturbed \cup {r} ELSE disturbed

-------------------------------------------------------------------------------
(* create: a phone that is known is a 409, a new rider is OFFLINE.         *)
Create(t, r, p) ==
  /\ ~Stored(r) /\ ~Busy(r) /\ ~TakenPhone(p, r)
  /\ Begin(t, "create", r, [status |-> "OFFLINE", phone |-> p], "save")
  /\ UNCHANGED <<row, redis, faults>>

(* updateStatus: the entity as it is now, with its new status.             *)
UpdateStatus(t, r, status) ==
  /\ Stored(r)
  /\ Begin(t, "status", r, [row[r] EXCEPT !.status = status], "save")
  /\ UNCHANGED <<row, redis, faults>>

(* Mutant: every update resets the status.                                 *)
UpdateOffline(t, r, p) ==
  /\ Stored(r)
  /\ Begin(t, "profile", r, [status |-> "OFFLINE", phone |-> p], "save")
  /\ UNCHANGED <<row, redis, faults>>

(* update: the entity as it is now, with its new phone.                    *)
Update(t, r, p) ==
  /\ Stored(r)
  /\ Begin(t, "profile", r, [row[r] EXCEPT !.phone = p], "save")
  /\ UNCHANGED <<row, redis, faults>>

(* Mutant: a refused insert or update is synchronised like any other.      *)
SaveUnawaited(t) ==
  LET r == loc[t].rider IN
  /\ pc[t] = "save"
  /\ row' = IF TakenPhone(loc[t].entity.phone, r) THEN row
             ELSE [row EXCEPT ![r] = loc[t].entity]
  /\ IF loc[t].op = "profile" THEN Done(t) ELSE Goto(t, "sync") /\ UNCHANGED loc
  /\ UNCHANGED <<redis, disturbed, faults>>

(* save writes every column of the entity that differs from the row, and   *)
(* inserts the row when a reset has deleted it. The index on phone refuses *)
(* a second one. Only a status is synchronised.                            *)
Save(t) ==
  LET r == loc[t].rider IN
  /\ pc[t] = "save"
  /\ \/ /\ TakenPhone(loc[t].entity.phone, r)
        /\ Done(t) /\ UNCHANGED row
     \/ /\ ~TakenPhone(loc[t].entity.phone, r)
        /\ row' = [row EXCEPT ![r] = loc[t].entity]
        /\ \/ loc[t].op = "profile" /\ Done(t)
           \/ loc[t].op # "profile" /\ Goto(t, "sync") /\ UNCHANGED loc
  /\ UNCHANGED <<redis, disturbed, faults>>

(* Mutant: whoever changes status is taken to be available.                *)
SyncAvailable(t) ==
  /\ pc[t] = "sync"
  /\ redis' = [redis EXCEPT ![loc[t].rider] = "AVAILABLE"]
  /\ Done(t)
  /\ UNCHANGED <<row, disturbed, faults>>

(* setStatus: SET, without a TTL and whatever the key was.                 *)
Sync(t) ==
  /\ pc[t] = "sync"
  /\ redis' = [redis EXCEPT ![loc[t].rider] = loc[t].entity.status]
  /\ Done(t)
  /\ UNCHANGED <<row, disturbed, faults>>

(* A statement throws or the process dies: nothing is undone.              *)
Fail(t) ==
  /\ pc[t] # "idle"
  /\ faults < MaxFaults /\ faults' = faults + 1
  /\ disturbed' = disturbed \cup {loc[t].rider}
  /\ Done(t)
  /\ UNCHANGED <<row, redis>>

Init ==
  /\ row = [r \in Rider |-> None] /\ redis = [r \in Rider |-> None]
  /\ pc = [t \in Task |-> "idle"] /\ loc = [t \in Task |-> Blank]
  /\ disturbed = {} /\ faults = 0

-------------------------------------------------------------------------------
(* Every variable has its type, and a call that saves has an entity.       *)
TypeOK ==
  /\ row \in [Rider -> Row \cup {None}] /\ redis \in [Rider -> Status \cup {None}]
  /\ pc \in [Task -> {"idle", "save", "sync"}]
  /\ loc \in [Task -> [op : {"create", "status", "profile"}, rider : Rider, entity : Row]
                       \cup {Blank}]
  /\ \A t \in Task : pc[t] = "idle" <=> loc[t] = Blank
  /\ disturbed \subseteq Rider /\ faults \in 0..MaxFaults

(* Unless calls on a rider overlap, the status of the row changes only     *)
(* when somebody asked for a status.                                       *)
ChangedOnRequest ==
  [][\A r \in Rider \ disturbed :
       Stored(r) /\ row'[r] # None /\ row'[r].status # row[r].status
         => \E t \in Task : loc[t].op = "status" /\ loc[t].rider = r]_vars
===============================================================================
