------------------------------ MODULE DemoMotion ------------------------------
(***************************************************************************)
(* The SPA moves the rider of an accepted offer: the 500 ms interval of    *)
(* QuickActions (ControlPanel.tsx), whose handler awaits calls and so may  *)
(* overlap with itself and with the 2 s polling of App, which puts into    *)
(* the store what the tables said when it asked. One delivery, one rider,  *)
(* on a line with the unit 0.002 degrees that a rider moves per tick.      *)
(*                                                                         *)
(* POST /location writes Redis only: the row of the rider keeps the        *)
(* position it was seeded with, Home, and this is what polling reads.      *)
(***************************************************************************)
EXTENDS Integers

CONSTANTS
  Tick,          \* bound on handlers at work and calls that they gave up
  Poll,          \* bound on calls of fetchData in flight
  Home,          \* position in the row of the rider
  Store,         \* pickup position
  Dropoff,       \* position to deliver to
  TicksPerPoll   \* ticks of 500 ms in one polling interval of 2000 ms

ASSUME PlacesAreNumbers == Home \in Nat /\ Store \in Nat /\ Dropoff \in Nat
ASSUME PollsAreRarer == TicksPerPoll \in Nat \ {0}

VARIABLES
  server,   \* status of the delivery and of the rider in the tables
  redis,    \* the rider's location in Redis
  local,    \* the store of the SPA: both statuses and the rider's position
  tick,     \* tick[k]: the handler k, Idle when it is not running
  poll,     \* poll[p]: the answers of the polling p in flight, or None
  clock,    \* ticks since the last poll
  ran       \* history: "smooth", or "crossed" once a poll began beside a tick,
            \* or "rough" once a call failed or outlasted the next interval

vars == <<server, redis, local, tick, poll, clock, ran>>

None == [delivery |-> "none", rider |-> "none", at |-> 0]
Idle == [phase |-> "idle", view |-> None, read |-> "none", gone |-> FALSE]
Open == {"ASSIGNED", "PICKED_UP"}


(* Where the rider heads in the view v, and that he is there (0.001).      *)
Target(v) == IF v.delivery = "ASSIGNED" THEN Store ELSE Dropoff
Arrived(v) == v.at = Target(v)
(* The next position, one unit towards the target.                         *)
Nearer(v) == IF v.at < Target(v) THEN v.at + 1 ELSE v.at - 1

(* A poll that waits for its answers; the position is the row's.           *)
Asked == [delivery |-> "asked", rider |-> "asked", at |-> Home]

(* Ticks and polls that wait for a call.                                   *)
Ticking == {k \in Tick : tick[k] # Idle}
Polling == {p \in Poll : poll[p] # None}
Rougher(bad) == IF bad THEN "rough" ELSE ran

-------------------------------------------------------------------------------
(* The interval fires: the handler takes the store as it is. It has        *)
(* nothing to do unless a BUSY rider has an open delivery, for which he    *)
(* has the newest accepted offer all along.                                *)
StartTick(k) ==
  /\ tick[k] = Idle
  /\ clock < TicksPerPoll /\ clock' = clock + 1
  /\ tick' = [tick EXCEPT ![k] = IF local.rider = "BUSY" /\ local.delivery \in Open
                                 THEN [phase |-> "call", view |-> local, read |-> "none", gone |-> FALSE] ELSE @]
  /\ ran' = Rougher(Ticking # {} \/ Polling # {})
  /\ UNCHANGED <<server, redis, local, poll>>

(* The call of the tick takes effect: pickup, deliver or the next          *)
(* position. updateStatus looks at no earlier status.                      *)
pickup(v) ==
  /\ Arrived(v) /\ v.delivery = "ASSIGNED"
  /\ server' = [server EXCEPT !.delivery = "PICKED_UP"]
  /\ UNCHANGED redis

(* setDelivered frees the rider first and writes the status last. Between  *)
(* them it reports him at the dropoff point by gRPC, which never reaches   *)
(* his entry in Redis: the call loses his id, and its failure is swallowed.*)
setAvailable(v) ==
  /\ Arrived(v) /\ v.delivery = "PICKED_UP"
  /\ server' = [server EXCEPT !.rider = "AVAILABLE"]
  /\ UNCHANGED redis

setDelivered ==
  /\ server' = [server EXCEPT !.delivery = "DELIVERED"]
  /\ UNCHANGED redis

updateLocation(v) ==
  /\ ~Arrived(v)
  /\ redis' = Nearer(v)
  /\ UNCHANGED server

(* The service goes on with a call that the handler gave up.               *)
Answer(k) ==
  LET next == IF Arrived(tick[k].view) THEN "read" ELSE "answered"
  IN tick' = [tick EXCEPT ![k] = IF tick[k].gone THEN Idle ELSE [tick[k] EXCEPT !.phase = next]]

CallOfTick(k) ==
  LET v == tick[k].view IN
  /\ \/ tick[k].phase = "call" /\ (pickup(v) \/ updateLocation(v)) /\ Answer(k)
     \/ tick[k].phase = "call" /\ setAvailable(v) /\ tick' = [tick EXCEPT ![k].phase = "freed"]
     \/ tick[k].phase = "freed" /\ setDelivered /\ Answer(k)
  /\ UNCHANGED <<local, poll, clock, ran>>

(* After a pickup or a delivery the handler reads the deliveries again.    *)
ReadDeliveries(k) ==
  /\ tick[k].phase = "read"
  /\ tick' = [tick EXCEPT ![k].phase = "answered", ![k].read = server.delivery]
  /\ UNCHANGED <<server, redis, local, poll, clock, ran>>

(* Mutant: the new position is not put into the store.                     *)
EndTickForgetful(k) ==
  /\ tick[k].phase = "answered"
  /\ tick' = [tick EXCEPT ![k] = Idle]
  /\ local' = IF tick[k].read = "none" THEN local ELSE [local EXCEPT !.delivery = tick[k].read]
  /\ UNCHANGED <<server, redis, poll, clock, ran>>

(* Mutant: the handler does not free the rider in the store and leaves the *)
(* delivery to the next poll.                                              *)
EndTickPatient(k) ==
  /\ tick[k].phase = "answered"
  /\ tick' = [tick EXCEPT ![k] = Idle]
  /\ local' = IF tick[k].read = "none" THEN [local EXCEPT !.at = Nearer(tick[k].view)] ELSE local
  /\ UNCHANGED <<server, redis, poll, clock, ran>>

(* updateRider changes a rider the store has, and brings back none.        *)
Updated(field, value) ==
  IF local.rider = "none" THEN local ELSE [local EXCEPT ![field] = value]

(* The last answer: the store gets the deliveries that were read, and the  *)
(* delivering rider AVAILABLE, or the position that was reported.          *)
EndTick(k) ==
  LET v == tick[k].view IN
  /\ tick[k].phase = "answered"
  /\ tick' = [tick EXCEPT ![k] = Idle]
  /\ \/ ~Arrived(v) /\ local' = Updated("at", Nearer(v))
     \/ Arrived(v) /\ v.delivery = "ASSIGNED" /\ local' = [local EXCEPT !.delivery = tick[k].read]
     \/ /\ Arrived(v) /\ v.delivery # "ASSIGNED"
        /\ local' = [Updated("rider", "AVAILABLE") EXCEPT !.delivery = tick[k].read]
  /\ UNCHANGED <<server, redis, poll, clock, ran>>

(* Mutant: the store shows the pickup before it is confirmed.              *)
FailTickOptimistic(k) ==
  /\ tick[k] # Idle
  /\ tick' = [tick EXCEPT ![k] = Idle]
  /\ local' = [local EXCEPT !.delivery = IF Arrived(tick[k].view) THEN "PICKED_UP" ELSE @]
  /\ ran' = "rough"
  /\ UNCHANGED <<server, redis, poll, clock>>

(* A call of the tick fails before or after it took effect, halfway, or is *)
(* given up, and is logged: the store is left as it is.                    *)
FailTick(k) ==
  /\ tick[k] # Idle
  /\ \/ tick' = [tick EXCEPT ![k] = Idle]
     \/ tick[k].phase \in {"call", "freed"} /\ tick' = [tick EXCEPT ![k].gone = TRUE]
  /\ ran' = "rough"
  /\ UNCHANGED <<server, redis, local, poll, clock>>

-------------------------------------------------------------------------------
(* fetchData, as usePolling calls it: the interval sends two reads that    *)
(* matter, each is answered by itself, and a failed one counts as an empty *)
(* answer. All are put into the store together, and polls that wait for    *)
(* theirs may end in any order.                                            *)
StartPoll(p) ==
  /\ clock = TicksPerPoll /\ poll[p] = None
  /\ clock' = 0 /\ poll' = [poll EXCEPT ![p] = Asked]
  /\ ran' = IF ran = "smooth" /\ Polling = {} /\ Ticking # {} THEN "crossed" ELSE Rougher(Polling # {})
  /\ UNCHANGED <<server, redis, local, tick>>

PollDeliveries(p) ==
  /\ poll[p].delivery = "asked"
  /\ \/ poll' = [poll EXCEPT ![p].delivery = server.delivery] /\ UNCHANGED ran
     \/ poll' = [poll EXCEPT ![p].delivery = "none"] /\ ran' = "rough"
  /\ UNCHANGED <<server, redis, local, tick, clock>>

PollRiders(p) ==
  /\ poll[p].rider = "asked"
  /\ \/ poll' = [poll EXCEPT ![p].rider = server.rider] /\ UNCHANGED ran
     \/ poll' = [poll EXCEPT ![p].rider = "none"] /\ ran' = "rough"
  /\ UNCHANGED <<server, redis, local, tick, clock>>

EndPoll(p) ==
  /\ poll[p] # None /\ poll[p].delivery # "asked" /\ poll[p].rider # "asked"
  /\ local' = poll[p] /\ poll' = [poll EXCEPT ![p] = None]
  /\ UNCHANGED <<server, redis, tick, clock, ran>>

(* The offer has just been accepted, and the store shows it.               *)
Init ==
  /\ server = [delivery |-> "ASSIGNED", rider |-> "BUSY"]
  /\ redis = Home
  /\ local = [delivery |-> "ASSIGNED", rider |-> "BUSY", at |-> Home]
  /\ tick = [k \in Tick |-> Idle] /\ poll = [p \in Poll |-> None]
  /\ clock = 0 /\ ran = "smooth"

Next ==
  \/ \E k \in Tick : StartTick(k) \/ CallOfTick(k) \/ ReadDeliveries(k) \/ EndTick(k) \/ FailTick(k)
  \/ \E p \in Poll : StartPoll(p) \/ PollDeliveries(p) \/ PollRiders(p) \/ EndPoll(p)

Spec == Init /\ [][Next]_vars

(* Timers fire as often as they say, and a call is answered or fails: by   *)
(* axios' timeout of 10 s at the latest.                                   *)
FairSpec ==
  /\ Spec
  /\ \A k \in Tick : /\ WF_vars(StartTick(k)) /\ WF_vars(CallOfTick(k))
                     /\ WF_vars(ReadDeliveries(k)) /\ WF_vars(EndTick(k))
  /\ \A p \in Poll : /\ WF_vars(StartPoll(p)) /\ WF_vars(EndPoll(p))
                     /\ WF_vars(PollDeliveries(p)) /\ WF_vars(PollRiders(p))

-------------------------------------------------------------------------------
(* A delivery is delivered only after its pickup took effect, whatever     *)
(* calls fail or overlap, however old the store is and in whatever order   *)
(* the answers come (README of demo-spa: pickup, then delivery).           *)
NoSkip == [][server.delivery = "ASSIGNED" => server'.delivery # "DELIVERED"]_vars

(* As long as calls do not fail and no handler runs into another one,      *)
(* nobody is about to deliver a delivered order again, which would free a  *)
(* rider who may have his next order by then; he is free, in the store too *)
(* once its handler is done, and dispatch finds him where he delivered by  *)
(* the last position of the ticks, unless a poll put him there.            *)
DeliveredOnce ==
  ran = "smooth" /\ server.delivery = "DELIVERED" =>
    /\ \A k \in Tick : tick[k].phase \notin {"call", "freed"}
    /\ redis = Dropoff \/ Home = Dropoff
    /\ server.rider = "AVAILABLE"
    /\ Ticking = {} => local.rider = "AVAILABLE"

(* The accepted delivery is delivered in the end, unless a call fails or   *)
(* outlasts the next interval: the position that the ticks build up in the *)
(* store gets the rider there although every poll puts him back Home.      *)
Arrives == <>(server.delivery = "DELIVERED" \/ ran = "rough")
===============================================================================
