-------------------------- MODULE ControlPanelProofs ---------------------------
(***************************************************************************)
(* What ControlPanel.tsx does: the motion of a rider and the automation.   *)
(*                                                                         *)
(* DemoMotion: no delivery without a pickup, and none twice while all goes *)
(* smoothly, for any number of ticks and polls, any distances and any      *)
(* polling rate.                                                           *)
(*                                                                         *)
(* DemoPanel: a dispatch loop offers a rider one delivery at a time, for   *)
(* any number of loops, handlers, rows, clicks and failures.               *)
(***************************************************************************)
EXTENDS DemoMotion, DemoPanel, WellFoundedInduction, FiniteSetTheorems, TLAPS

Status == Open \cup {"DELIVERED", "none", "asked"}
View == [delivery : Status, rider : {"BUSY", "AVAILABLE", "none", "asked"}, at : Int]
Phase == {"idle", "call", "freed", "read", "answered"}
Handler == [phase : Phase, view : View, read : Status, gone : BOOLEAN]

TypeOK ==
  /\ server \in [delivery : Open \cup {"DELIVERED"}, rider : {"BUSY", "AVAILABLE"}]
  /\ local \in View
  /\ tick \in [Tick -> Handler]
  /\ poll \in [Poll -> View]

Ahead == {"PICKED_UP", "DELIVERED"}

(* As long as the tables say ASSIGNED nothing of the SPA says more: not    *)
(* the store, not what a tick saw or read, not the answers of a poll; and  *)
(* only who saw PICKED_UP is about to write DELIVERED.                     *)
NothingAhead ==
  server.delivery = "ASSIGNED" =>
    /\ local.delivery \notin Ahead
    /\ \A k \in Tick : tick[k].view.delivery \notin Ahead /\ tick[k].read \notin Ahead
    /\ \A p \in Poll : poll[p].delivery \notin Ahead

FreedIsPicked == \A k \in Tick : tick[k].phase = "freed" => tick[k].view.delivery = "PICKED_UP"

MotionInv == TypeOK /\ NothingAhead /\ FreedIsPicked

-------------------------------------------------------------------------------
(* Moving one unit leaves a place a number.                                *)
LEMMA NearerIsPlace == ASSUME NEW v \in View PROVE Nearer(v) \in Int
  BY PlacesAreNumbers DEF Nearer, Target, View

(* updateRider keeps the deliveries of the store.                          *)
LEMMA UpdatedKeepsDelivery ==
  ASSUME local \in View, NEW f \in {"rider", "at"},
         NEW x, f = "rider" => x = "AVAILABLE", f = "at" => x \in Int
  PROVE  Updated(f, x) \in View /\ Updated(f, x).delivery = local.delivery
  BY DEF Updated, View

LEMMA InitMotion == Init => MotionInv
  BY PlacesAreNumbers DEF Init, MotionInv, TypeOK, NothingAhead, FreedIsPicked, Handler, Phase, View, Status, Open,
     Ahead, Idle, None

(* The call of a tick only moves the tables on, and delivers only what the *)
(* tick saw PICKED_UP.                                                     *)
LEMMA CallKeeps ==
  ASSUME MotionInv, NEW k \in Tick, CallOfTick(k)
  PROVE  MotionInv' /\ (server.delivery = "ASSIGNED" => server'.delivery # "DELIVERED")
<1>0. tick \in [Tick -> Handler] /\ Idle \in Handler /\ Idle.view.delivery = "none" /\ Idle.read = "none"
      /\ Idle.phase = "idle" /\ tick[k] \in Handler
  BY PlacesAreNumbers DEF MotionInv, TypeOK, Idle, None, Handler, Phase, View, Status
<1>1. PICK h \in Handler :
        /\ tick' = [tick EXCEPT ![k] = h]
        /\ h = Idle \/ (h.view = tick[k].view /\ h.read = tick[k].read)
        /\ h.phase = "freed" => tick[k].view.delivery = "PICKED_UP"
  <2>1. \A p \in Phase, g \in BOOLEAN : [tick[k] EXCEPT !.phase = p] \in Handler
    BY <1>0 DEF Handler
  <2>2. CASE Answer(k)
    <3> DEFINE next == IF Arrived(tick[k].view) THEN "read" ELSE "answered"
               h == IF tick[k].gone THEN Idle ELSE [tick[k] EXCEPT !.phase = next]
    <3>1. tick' = [tick EXCEPT ![k] = h]
      BY <2>2 DEF Answer
    <3>2. h \in Handler /\ h.phase # "freed" /\ (h = Idle \/ (h.view = tick[k].view /\ h.read = tick[k].read))
      BY <1>0, <2>1 DEF Handler, Phase
    <3> QED  BY <3>1, <3>2
  <2>3. CASE tick' = [tick EXCEPT ![k].phase = "freed"] /\ setAvailable(tick[k].view)
    <3> DEFINE h == [tick[k] EXCEPT !.phase = "freed"]
    <3>1. tick' = [tick EXCEPT ![k] = h]
      BY <2>3
    <3>2. h \in Handler /\ h.view = tick[k].view /\ h.read = tick[k].read
      BY <1>0, <2>1 DEF Handler, Phase
    <3> QED  BY <2>3, <3>1, <3>2 DEF setAvailable
  <2> QED  BY <2>2, <2>3 DEF CallOfTick
<1>2. /\ UNCHANGED <<local, poll>>
      /\ \A j \in Tick : tick'[j] = IF j = k THEN h ELSE tick[j]
  BY <1>0, <1>1 DEF CallOfTick
<1>3. \/ server' = [server EXCEPT !.delivery = "PICKED_UP"]
      \/ server' = [server EXCEPT !.rider = "AVAILABLE"]
      \/ tick[k].view.delivery = "PICKED_UP" /\ server' = [server EXCEPT !.delivery = "DELIVERED"]
      \/ server' = server
  BY DEF CallOfTick, pickup, setAvailable, setDelivered, updateLocation, MotionInv, FreedIsPicked
<1> HIDE DEF Handler
<1>4. TypeOK'
  BY <1>0, <1>1, <1>2, <1>3 DEF MotionInv, TypeOK, Open
<1>5. NothingAhead' /\ (server.delivery = "ASSIGNED" => server'.delivery # "DELIVERED")
  BY <1>0, <1>1, <1>2, <1>3 DEF NothingAhead, Ahead, MotionInv, TypeOK
<1>6. FreedIsPicked'
  BY <1>0, <1>1, <1>2 DEF FreedIsPicked, MotionInv
<1> QED  BY <1>4, <1>5, <1>6 DEF MotionInv

(* Every other step leaves the tables alone and copies what they or the    *)
(* store said.                                                             *)
LEMMA OthersKeep ==
  ASSUME MotionInv, server' = server,
         \/ \E k \in Tick : StartTick(k) \/ ReadDeliveries(k) \/ EndTick(k) \/ FailTick(k)
         \/ \E p \in Poll : StartPoll(p) \/ PollDeliveries(p) \/ PollRiders(p) \/ EndPoll(p)
  PROVE  MotionInv'
<1> USE DEF MotionInv, TypeOK, NothingAhead, Ahead, FreedIsPicked, Handler, Phase
<1>1. ASSUME NEW k \in Tick, StartTick(k) PROVE MotionInv'
  BY <1>1 DEF StartTick, View, Status, Open
<1>2. ASSUME NEW k \in Tick, ReadDeliveries(k) PROVE MotionInv'
  BY <1>2 DEF ReadDeliveries, View, Status, Open
<1>3. ASSUME NEW k \in Tick, EndTick(k) PROVE MotionInv'
  <2> DEFINE v == tick[k].view
  <2>1. v \in View /\ tick[k].read \in Status
    OBVIOUS
  <2>2. /\ Updated("at", Nearer(v)) \in View
        /\ Updated("at", Nearer(v)).delivery = local.delivery
    BY <2>1, NearerIsPlace, UpdatedKeepsDelivery
  <2>3. Updated("rider", "AVAILABLE") \in View
    BY UpdatedKeepsDelivery
  <2>4. local' \in View /\ (local'.delivery = local.delivery \/ local'.delivery = tick[k].read)
    <3>1. CASE local' = Updated("at", Nearer(v))
      BY <2>2, <3>1
    <3>2. CASE local' = [local EXCEPT !.delivery = tick[k].read]
      BY <2>1, <3>2 DEF View
    <3>3. CASE local' = [Updated("rider", "AVAILABLE") EXCEPT !.delivery = tick[k].read]
      BY <2>1, <2>3, <3>3 DEF View
    <3> QED  BY <1>3, <3>1, <3>2, <3>3 DEF EndTick
  <2>5. tick' = [tick EXCEPT ![k] = Idle] /\ poll' = poll
    BY <1>3 DEF EndTick
  <2> HIDE DEF v
  <2> QED  BY <2>4, <2>5 DEF Idle, None, View, Status, Open
<1>4. ASSUME NEW k \in Tick, FailTick(k) PROVE MotionInv'
  <2>1. CASE tick' = [tick EXCEPT ![k] = Idle]
    BY <1>4, <2>1 DEF FailTick, Idle, None, View, Status, Open
  <2>2. CASE tick' = [tick EXCEPT ![k].gone = TRUE]
    <3>1. [tick[k] EXCEPT !.gone = TRUE] \in Handler
      OBVIOUS
    <3>2. UNCHANGED <<server, local, poll>>
      BY <1>4 DEF FailTick
    <3> QED  BY <2>2, <3>1, <3>2
  <2> QED  BY <1>4, <2>1, <2>2 DEF FailTick
<1>5. ASSUME NEW p \in Poll, StartPoll(p) PROVE MotionInv'
  BY <1>5, PlacesAreNumbers DEF StartPoll, Asked, View, Status, Open
<1>6. ASSUME NEW p \in Poll, PollDeliveries(p) PROVE MotionInv'
  BY <1>6 DEF PollDeliveries, View, Status, Open
<1>7. ASSUME NEW p \in Poll, PollRiders(p) PROVE MotionInv'
  BY <1>7 DEF PollRiders, View, Status, Open
<1>8. ASSUME NEW p \in Poll, EndPoll(p) PROVE MotionInv'
  BY <1>8 DEF EndPoll, None, View, Status, Open
<1> QED  BY <1>1, <1>2, <1>3, <1>4, <1>5, <1>6, <1>7, <1>8

LEMMA MotionStep ==
  ASSUME MotionInv, [Next]_vars
  PROVE  MotionInv' /\ (server.delivery = "ASSIGNED" => server'.delivery # "DELIVERED")
<1>1. CASE \E k \in Tick : CallOfTick(k)
  BY <1>1, CallKeeps
<1>2. CASE \/ \E k \in Tick : StartTick(k) \/ ReadDeliveries(k) \/ EndTick(k) \/ FailTick(k)
           \/ \E p \in Poll : StartPoll(p) \/ PollDeliveries(p) \/ PollRiders(p) \/ EndPoll(p)
  <2>1. server' = server
    BY <1>2 DEF StartTick, ReadDeliveries, EndTick, FailTick, StartPoll, PollDeliveries, PollRiders, EndPoll
  <2> QED  BY <1>2, <2>1, OthersKeep
<1>3. CASE UNCHANGED vars
  BY <1>3 DEF vars, MotionInv, TypeOK, NothingAhead, FreedIsPicked
<1> QED  BY <1>1, <1>2, <1>3 DEF Next

(* However many ticks and polls overlap, fail or come late, nothing the    *)
(* SPA believes runs ahead of the tables before the pickup.                *)
THEOREM NothingIsAhead == Spec => []NothingAhead
<1>1. Spec => []MotionInv
  BY InitMotion, MotionStep, PTL DEF Spec
<1> QED  BY <1>1, PTL DEF MotionInv

(* ControlPanel never delivers an order that was not picked up.            *)
THEOREM PickupBeforeDelivery == Spec => NoSkip
<1>1. Spec => []MotionInv
  BY InitMotion, MotionStep, PTL DEF Spec
<1>2. MotionInv /\ [Next]_vars => [server.delivery = "ASSIGNED" => server'.delivery # "DELIVERED"]_vars
  BY MotionStep
<1> QED  BY <1>1, <1>2, PTL DEF Spec, NoSkip

-------------------------------------------------------------------------------
(* What a tick has done to the tables when its call on arrival is over.    *)
ArrivalDone(v) ==
  IF v.delivery = "ASSIGNED"
  THEN server.delivery = "PICKED_UP" /\ server.rider = "BUSY"
  ELSE server.delivery = "DELIVERED" /\ server.rider = "AVAILABLE"

(* A handler that nothing runs into: the store is as it found it.          *)
UndisturbedTick(k) ==
  LET v == tick[k].view IN
  /\ local = v /\ v.rider = "BUSY" /\ v.delivery \in Open /\ ~tick[k].gone
  /\ v.at \in {redis, Home} \/ (~Arrived(v) /\ tick[k].phase = "answered")
  /\ \/ tick[k].phase = "call" /\ server.delivery = v.delivery /\ server.rider = "BUSY"
     \/ /\ tick[k].phase = "answered" /\ ~Arrived(v) /\ redis = Nearer(v)
        /\ server.delivery = v.delivery /\ server.rider = "BUSY"
     \/ /\ tick[k].phase = "freed" /\ Arrived(v) /\ v.delivery = "PICKED_UP"
        /\ server.delivery = "PICKED_UP" /\ server.rider = "AVAILABLE"
     \/ tick[k].phase = "read" /\ Arrived(v) /\ ArrivalDone(v)
     \/ tick[k].phase = "answered" /\ Arrived(v) /\ ArrivalDone(v) /\ tick[k].read = server.delivery

UndisturbedPoll(p) ==
  /\ poll[p].delivery \in {"asked", server.delivery} /\ poll[p].rider \in {"asked", server.rider}
  /\ poll[p].at = Home

StoreAgrees ==
  /\ local.delivery = server.delivery /\ local.rider = server.rider
  /\ local.at \in {redis, Home}

(* Smoothly, handlers and polls run one at a time, and the store agrees    *)
(* with the tables whenever no handler runs, and shows the rider where the *)
(* last tick reported him, or where a poll put him.                        *)
Smoothly ==
  /\ \A j, k \in Ticking : j = k
  /\ \A p, q \in Polling : p = q
  /\ Ticking = {} \/ Polling = {}
  /\ server.delivery = "DELIVERED" => server.rider = "AVAILABLE" /\ Dropoff \in {redis, Home}
  /\ Ticking = {} => StoreAgrees
  /\ \A k \in Ticking : UndisturbedTick(k)
  /\ \A p \in Polling : UndisturbedPoll(p)

SmoothInv == ran = "smooth" => Smoothly

LEMMA SmoothStart ==
  ASSUME MotionInv, SmoothInv, NEW k \in Tick, StartTick(k)
  PROVE  SmoothInv'
<1> SUFFICES ASSUME ran' = "smooth" PROVE Smoothly'
  BY DEF SmoothInv
<1>1. ran = "smooth" /\ Ticking = {} /\ Polling = {} /\ UNCHANGED <<server, redis, local, poll>>
  BY DEF StartTick, Rougher
<1>2. Smoothly
  BY <1>1 DEF SmoothInv
<1>3. \A j \in Tick : j # k => tick'[j] = Idle
  BY <1>1 DEF StartTick, Ticking, MotionInv, TypeOK
<1>4. \/ tick'[k] = Idle
      \/ /\ tick'[k] = [phase |-> "call", view |-> local, read |-> "none", gone |-> FALSE]
         /\ local.rider = "BUSY" /\ local.delivery \in Open
  BY <1>1 DEF StartTick, Ticking, MotionInv, TypeOK
<1>5. UndisturbedTick(k)' \/ tick'[k] = Idle
  BY <1>1, <1>2, <1>4 DEF UndisturbedTick, Smoothly, StoreAgrees
<1>6. Ticking' \subseteq {k} /\ Polling' = {}
  BY <1>1, <1>3 DEF Ticking, Polling
<1>7. \A j \in Ticking' : UndisturbedTick(j)'
  BY <1>5, <1>6 DEF Ticking
<1> QED  BY <1>1, <1>2, <1>5, <1>6, <1>7 DEF Smoothly, StoreAgrees, Ticking, UndisturbedTick

(* A step of a handler that runs undisturbed.                              *)
LEMMA SmoothTick ==
  ASSUME MotionInv, Smoothly, NEW k \in Tick, tick[k] # Idle, NEW next, tick' = [tick EXCEPT ![k] = next],
         UNCHANGED poll,
         server'.delivery = "DELIVERED" => server'.rider = "AVAILABLE" /\ Dropoff \in {redis', Home},
         \/ next = Idle /\ StoreAgrees'
         \/ next # Idle /\ UndisturbedTick(k)'
  PROVE  Smoothly'
<1>1. Ticking = {k} /\ Polling = {}
  BY DEF Smoothly, Ticking
<1>2. tick'[k] = next /\ \A j \in Tick : j # k => tick'[j] = Idle
  BY <1>1 DEF Ticking, MotionInv, TypeOK
<1>3. Polling' = {} /\ Ticking' = IF next = Idle THEN {} ELSE {k}
  BY <1>1, <1>2 DEF Ticking, Polling
<1> QED  BY <1>2, <1>3 DEF Smoothly

LEMMA SmoothHandler ==
  ASSUME MotionInv, SmoothInv, NEW k \in Tick, CallOfTick(k) \/ ReadDeliveries(k) \/ EndTick(k)
  PROVE  SmoothInv'
<1> SUFFICES ASSUME ran' = "smooth" PROVE Smoothly'
  BY DEF SmoothInv
<1>0. PICK v \in View : v = tick[k].view
  BY DEF MotionInv, TypeOK, Handler
<1>1. ran = "smooth" /\ Smoothly
  BY DEF SmoothInv, CallOfTick, ReadDeliveries, EndTick
<1>2. tick[k] # Idle /\ UndisturbedTick(k) /\ UNCHANGED poll
  BY <1>1 DEF CallOfTick, ReadDeliveries, EndTick, Idle, Smoothly, Ticking
<1>3. /\ local = v /\ v.rider = "BUSY" /\ v.delivery \in Open /\ v = tick[k].view
      /\ tick \in [Tick -> Handler] /\ tick[k] \in Handler /\ ~tick[k].gone
      /\ server \in [delivery : Open \cup {"DELIVERED"}, rider : {"BUSY", "AVAILABLE"}]
  BY <1>0, <1>2 DEF UndisturbedTick, MotionInv, TypeOK
<1>4. CASE CallOfTick(k)
  <2>1. UNCHANGED local /\ tick[k].phase \in {"call", "freed"} /\ (tick[k].phase = "freed" => Arrived(v))
    BY <1>2, <1>3, <1>4 DEF CallOfTick, UndisturbedTick
  <2>2. v.at \in {redis, Home}
    BY <1>2, <1>3, <2>1 DEF UndisturbedTick
  <2>3. ASSUME NEW p \in Phase \ {"idle"}, NEW next, next = [tick[k] EXCEPT !.phase = p]
        PROVE  next.phase = p /\ next.view = v /\ ~next.gone /\ next # Idle /\ next.read = tick[k].read
    BY <1>3, <2>3 DEF Handler, Phase, Idle
  <2>4. CASE tick[k].phase = "call" /\ setAvailable(v) /\ tick' = [tick EXCEPT ![k].phase = "freed"]
    <3>1. PICK next : next = [tick[k] EXCEPT !.phase = "freed"]
      OBVIOUS
    <3>2. next.phase = "freed" /\ next.view = v /\ ~next.gone /\ next # Idle
      BY <2>3, <3>1 DEF Phase
    <3>3. tick' = [tick EXCEPT ![k] = next] /\ tick'[k] = next
      BY <1>3, <2>4, <3>1
    <3>4. /\ server.delivery = v.delivery /\ v.delivery = "PICKED_UP" /\ Arrived(v)
          /\ server' = [server EXCEPT !.rider = "AVAILABLE"] /\ UNCHANGED redis
      BY <1>2, <1>3, <2>4 DEF UndisturbedTick, setAvailable
    <3>5. server'.delivery = "PICKED_UP" /\ server'.rider = "AVAILABLE"
      BY <1>3, <3>4
    <3>6. UndisturbedTick(k)'
      BY <1>3, <2>1, <2>2, <3>2, <3>3, <3>4, <3>5 DEF UndisturbedTick, Arrived, Target
    <3> QED  BY <1>1, <1>2, <3>2, <3>3, <3>5, <3>6, SmoothTick
  <2>5. CASE Answer(k) /\ \/ tick[k].phase = "call" /\ (pickup(v) \/ updateLocation(v))
                          \/ tick[k].phase = "freed" /\ setDelivered
    <3>0. PICK p \in {"read", "answered"} : p = IF Arrived(v) THEN "read" ELSE "answered"
      OBVIOUS
    <3>1. PICK next : next = [tick[k] EXCEPT !.phase = p]
      OBVIOUS
    <3>2. next.phase = (IF Arrived(v) THEN "read" ELSE "answered") /\ next.view = v /\ ~next.gone /\ next # Idle
      <4>1. p \in Phase \ {"idle"}
        BY DEF Phase
      <4>2. next = [tick[k] EXCEPT !.phase = p]
        BY <3>1
      <4>3. next.phase = p /\ next.view = v /\ ~next.gone /\ next # Idle
        BY <2>3, <4>1, <4>2
      <4> QED  BY <3>0, <4>3
    <3>3. tick' = [tick EXCEPT ![k] = next] /\ tick'[k] = next
      BY <1>3, <2>5, <3>0, <3>1 DEF Answer
    <3>4. CASE tick[k].phase = "call" /\ pickup(v)
      <4>1. /\ v.delivery = "ASSIGNED" /\ Arrived(v) /\ server.rider = "BUSY" /\ UNCHANGED redis
            /\ server' = [server EXCEPT !.delivery = "PICKED_UP"]
        BY <1>2, <1>3, <3>4 DEF UndisturbedTick, pickup
      <4>2. server'.delivery = "PICKED_UP" /\ server'.rider = "BUSY"
        BY <1>3, <4>1
      <4>3. UndisturbedTick(k)'
        BY <1>3, <2>1, <2>2, <3>2, <3>3, <4>1, <4>2 DEF UndisturbedTick, ArrivalDone, Arrived, Target
      <4> QED  BY <1>1, <1>2, <3>2, <3>3, <4>2, <4>3, SmoothTick
    <3>5. CASE tick[k].phase = "call" /\ updateLocation(v)
      <4>1. ~Arrived(v) /\ UNCHANGED server /\ redis' = Nearer(v) /\ server.delivery = v.delivery /\ server.rider = "BUSY"
        BY <1>2, <1>3, <3>5 DEF UndisturbedTick, updateLocation
      <4>2. UndisturbedTick(k)'
        BY <1>3, <2>1, <3>2, <3>3, <4>1 DEF UndisturbedTick, Arrived, Target, Nearer
      <4> QED  BY <1>1, <1>2, <1>3, <3>2, <3>3, <4>1, <4>2, SmoothTick DEF Open
    <3>6. CASE tick[k].phase = "freed" /\ setDelivered
      <4>1. /\ v.delivery = "PICKED_UP" /\ Arrived(v) /\ server.rider = "AVAILABLE" /\ UNCHANGED redis
            /\ server' = [server EXCEPT !.delivery = "DELIVERED"]
        BY <1>2, <1>3, <3>6 DEF UndisturbedTick, setDelivered
      <4>2. server'.delivery = "DELIVERED" /\ server'.rider = "AVAILABLE"
        BY <1>3, <4>1
      <4>3. Dropoff \in {redis', Home}
        BY <2>2, <4>1 DEF Arrived, Target
      <4>4. UndisturbedTick(k)'
        BY <1>3, <2>1, <2>2, <3>2, <3>3, <4>1, <4>2 DEF UndisturbedTick, ArrivalDone, Arrived, Target
      <4> QED  BY <1>1, <1>2, <3>2, <3>3, <4>2, <4>3, <4>4, SmoothTick
    <3> QED  BY <2>5, <3>4, <3>5, <3>6
  <2> QED  BY <1>3, <1>4, <2>4, <2>5 DEF CallOfTick
<1>5. CASE ReadDeliveries(k)
  <2> DEFINE next == [tick[k] EXCEPT !.phase = "answered", !.read = server.delivery]
  <2>1. /\ tick' = [tick EXCEPT ![k] = next] /\ tick'[k] = next /\ UNCHANGED <<server, redis, local>>
        /\ tick[k].phase = "read"
    BY <1>3, <1>5 DEF ReadDeliveries
  <2>2. next.view = v /\ next.phase = "answered" /\ next.read = server.delivery /\ next # Idle /\ ~next.gone
    BY <1>3 DEF Idle, Handler
  <2> HIDE DEF next
  <2>3. UndisturbedTick(k)'
    BY <1>2, <1>3, <2>1, <2>2 DEF UndisturbedTick, ArrivalDone, Arrived, Target
  <2> QED  BY <1>1, <1>2, <2>1, <2>2, <2>3, SmoothTick DEF Smoothly
<1>6. CASE EndTick(k)
  <2>1. /\ tick' = [tick EXCEPT ![k] = Idle] /\ UNCHANGED <<server, redis>> /\ tick[k].phase = "answered"
        /\ local \in View
    BY <1>3, <1>6 DEF EndTick, MotionInv, TypeOK
  <2>2. Updated("at", Nearer(v)) = [local EXCEPT !.at = Nearer(v)]
        /\ Updated("rider", "AVAILABLE") = [local EXCEPT !.rider = "AVAILABLE"]
    BY <1>3 DEF Updated
  <2>3. /\ ~Arrived(v) => local'.delivery = v.delivery /\ local'.rider = "BUSY"
        /\ Arrived(v) /\ v.delivery = "ASSIGNED" => local'.delivery = tick[k].read /\ local'.rider = "BUSY"
        /\ Arrived(v) /\ v.delivery # "ASSIGNED" => local'.delivery = tick[k].read /\ local'.rider = "AVAILABLE"
    BY <1>3, <1>6, <2>1, <2>2 DEF EndTick, View
  <2>4. StoreAgrees'
    <3>1. local'.delivery = server.delivery /\ local'.rider = server.rider
      BY <1>2, <1>3, <2>1, <2>3 DEF UndisturbedTick, ArrivalDone
    <3>2. local'.at = IF Arrived(v) THEN v.at ELSE Nearer(v)
      BY <1>3, <1>6, <2>1, <2>2 DEF EndTick, View
    <3>3. local'.at \in {redis, Home}
      BY <1>2, <1>3, <2>1, <3>2 DEF UndisturbedTick
    <3> QED  BY <2>1, <3>1, <3>3 DEF StoreAgrees
  <2> QED  BY <1>1, <1>2, <2>1, <2>4, SmoothTick DEF Smoothly
<1> QED  BY <1>4, <1>5, <1>6

LEMMA SmoothPoll ==
  ASSUME MotionInv, SmoothInv, NEW p \in Poll,
         StartPoll(p) \/ PollDeliveries(p) \/ PollRiders(p) \/ EndPoll(p)
  PROVE  SmoothInv'
<1> SUFFICES ASSUME ran' = "smooth" PROVE Smoothly'
  BY DEF SmoothInv
<1>1. ran = "smooth" /\ Smoothly /\ UNCHANGED <<server, redis, tick>>
  BY DEF SmoothInv, StartPoll, PollDeliveries, PollRiders, EndPoll, Rougher
<1>2. poll \in [Poll -> View] /\ poll[p] \in View
  BY DEF MotionInv, TypeOK
<1>3. Ticking = {} /\ Polling \subseteq {p}
  BY <1>1 DEF StartPoll, PollDeliveries, PollRiders, EndPoll, Rougher, Smoothly, Polling, None
<1>4. CASE StartPoll(p)
  <2>1. poll' = [poll EXCEPT ![p] = Asked] /\ UNCHANGED local
    BY <1>4 DEF StartPoll
  <2>2. UndisturbedPoll(p)'
    BY <1>2, <2>1 DEF UndisturbedPoll, Asked
  <2>3. Polling' \subseteq {p} /\ Ticking' = {}
    BY <1>1, <1>2, <1>3, <2>1 DEF Polling, Ticking
  <2> QED  BY <1>1, <1>3, <2>1, <2>2, <2>3 DEF Smoothly, StoreAgrees
<1>5. CASE PollDeliveries(p) \/ PollRiders(p)
  <2>1. /\ \/ poll' = [poll EXCEPT ![p].delivery = server.delivery]
           \/ poll' = [poll EXCEPT ![p].rider = server.rider]
        /\ UNCHANGED local /\ p \in Polling
    BY <1>1, <1>5 DEF PollDeliveries, PollRiders, Polling, None
  <2>2. UndisturbedPoll(p)'
    BY <1>1, <1>2, <2>1 DEF UndisturbedPoll, Smoothly, View
  <2>3. Polling' \subseteq {p} /\ Ticking' = {}
    BY <1>1, <1>2, <1>3, <2>1 DEF Polling, Ticking
  <2> QED  BY <1>1, <1>3, <2>1, <2>2, <2>3 DEF Smoothly, StoreAgrees
<1>6. CASE EndPoll(p)
  <2>1. /\ poll[p] # None /\ poll[p].delivery # "asked" /\ poll[p].rider # "asked"
        /\ local' = poll[p] /\ poll' = [poll EXCEPT ![p] = None]
    BY <1>6 DEF EndPoll
  <2>2. StoreAgrees'
    BY <1>1, <2>1 DEF Smoothly, Polling, UndisturbedPoll, StoreAgrees
  <2>3. Polling' = {} /\ Ticking' = {}
    BY <1>1, <1>2, <1>3, <2>1 DEF Polling, Ticking
  <2> QED  BY <1>1, <1>3, <2>2, <2>3 DEF Smoothly
<1> QED  BY <1>4, <1>5, <1>6

LEMMA SmoothStep ==
  ASSUME MotionInv, SmoothInv, [Next]_vars PROVE SmoothInv'
<1>1. ASSUME NEW k \in Tick, FailTick(k) PROVE SmoothInv'
  BY <1>1 DEF FailTick, SmoothInv
<1>2. CASE UNCHANGED vars
  BY <1>2 DEF vars, SmoothInv, Smoothly, StoreAgrees, Ticking, Polling, UndisturbedTick, UndisturbedPoll,
     ArrivalDone, Arrived, Target, Nearer
<1> QED  BY <1>1, <1>2, SmoothStart, SmoothHandler, SmoothPoll DEF Next

LEMMA SmoothInit == Init => SmoothInv
  BY DEF Init, SmoothInv, Smoothly, StoreAgrees, Ticking, Polling, Open

(* When no call fails and no handler runs into another or into a poll,     *)
(* nobody is about to deliver a delivered order again: the rider is free   *)
(* in the tables, in Redis where he delivered, and in the store.           *)
THEOREM DeliveredOnceAlways == Spec => []DeliveredOnce
<1>1. SmoothInv => DeliveredOnce
  <2> SUFFICES ASSUME Smoothly, server.delivery = "DELIVERED"
               PROVE  /\ \A k \in Tick : tick[k].phase \notin {"call", "freed"}
                      /\ redis = Dropoff \/ Home = Dropoff
                      /\ server.rider = "AVAILABLE" /\ (Ticking = {} => local.rider = "AVAILABLE")
    BY DEF SmoothInv, DeliveredOnce
  <2>1. ASSUME NEW k \in Tick PROVE tick[k].phase \notin {"call", "freed"}
    BY DEF Smoothly, UndisturbedTick, Ticking, Idle, Open
  <2>2. redis = Dropoff \/ Home = Dropoff
    BY DEF Smoothly
  <2> QED  BY <2>1, <2>2 DEF Smoothly, StoreAgrees
<1>2. MotionInv /\ SmoothInv /\ [Next]_vars => (MotionInv /\ SmoothInv)'
  BY MotionStep, SmoothStep
<1> QED  BY <1>1, <1>2, InitMotion, SmoothInit, PTL DEF Spec

-------------------------------------------------------------------------------
(* The panel. Its types: what a loop or handler waits for comes with what  *)
(* it saw, and so does what it gave up.                                    *)
RowState == {"none", "PENDING", "ASSIGNED", "CLOSED"}
RiderState == {"none", "AVAILABLE", "BUSY", "CLOSED"}
Offered == [delivery : Delivery, rider : Rider, status : {"PENDING", "ACCEPTED", "CLOSED"}]
Shown == [waiting : SUBSET Delivery, free : SUBSET Rider, stores : BOOLEAN]

StepOK(step, rows) ==
  /\ step.does = "ask" => step.waiting \in SUBSET Delivery /\ step.free \in SUBSET Rider
  /\ step.does = "send" => step.delivery \in Delivery /\ step.rider \in Rider
  /\ step.does \in {"ACCEPTED", "CLOSED", "save"} => step.offer \in rows
  /\ step.does = "show" => step.waiting \in SUBSET Delivery

PanelTypeOK ==
  /\ delivery \in [Delivery -> RowState] /\ rider \in [Rider -> RiderState]
  /\ offers \in Seq(Offered) /\ owed \in SUBSET Delivery /\ shown \in Shown
  /\ task = [t \in Task |-> task[t]]
  /\ \A t \in Task : StepOK(task[t], DOMAIN offers)
  /\ \A c \in late : StepOK(c, DOMAIN offers)

(* Unless somebody else offers riders deliveries too, a rider has one      *)
(* offer at most, and no loop is about to send one to a rider who has one. *)
OneAtMost(r) == \A o, p \in Held(r) : o = p
NobodySends == \A l \in DispatchLoop : task[l].does = "send" => Held(task[l].rider) = {}

PanelInv ==
  /\ PanelTypeOK
  /\ ~rivals => NobodySends /\ \A r \in Rider : OneAtMost(r)

-------------------------------------------------------------------------------
(* Lists are finite, so that what is chosen from them is of them.          *)
LEMMA MaxIsMember ==
  ASSUME NEW n \in Nat, NEW S \in SUBSET (1..n), S # {}
  PROVE  Max(S) \in S
<1> DEFINE T == {n - x : x \in S}
           less == OpToRel(<, Nat)
<1>1. T \subseteq Nat /\ T # {}
  <2>1. \A x \in S : x \in Nat /\ x <= n /\ n - x \in Nat
    OBVIOUS
  <2> QED
    BY <2>1
<1>2. PICK m \in T : \A k \in T : <<k, m>> \notin less
  <2>1. IsWellFoundedOn(less, Nat)
    BY NatLessThanWellFounded
  <2> HIDE DEF T, less
  <2> QED
    BY <1>1, <2>1, WFMin
<1>3. \A k \in T : ~(k < m)
  BY <1>1, <1>2 DEF OpToRel
<1>4. PICK x \in S : m = n - x
  BY <1>2
<1>5. \A y \in S : ~(n - y < n - x) /\ y \in Int /\ x \in Int
  BY <1>3, <1>4
<1>6. \A y \in S : x >= y
  BY <1>5
<1> QED
  BY <1>4, <1>6 DEF Max

LEMMA NewestOffer == ASSUME PanelTypeOK, With("PENDING") # {} PROVE Max(With("PENDING")) \in With("PENDING")
<1>1. With("PENDING") \in SUBSET (1..Len(offers)) /\ Len(offers) \in Nat
  BY DEF PanelTypeOK, With
<1> QED
  BY <1>1, MaxIsMember

LEMMA NewestRider == ASSUME NEW S \in SUBSET Rider, S # {} PROVE Max(S) \in S
  BY RowsAreBounded, MaxIsMember DEF Rider

-------------------------------------------------------------------------------
(* The types, at a step of a task or beside them, while the list of offers *)
(* gets no shorter.                                                        *)
TablesOK ==
  /\ delivery' \in [Delivery -> RowState] /\ rider' \in [Rider -> RiderState]
  /\ offers' \in Seq(Offered) /\ owed' \in SUBSET Delivery /\ Len(offers) <= Len(offers')
LateOK == \A c \in late' : c \in late \/ StepOK(c, DOMAIN offers')

LEMMA GoesOn ==
  ASSUME PanelTypeOK, NEW t \in Task, NEW step, Goes(t, step), TablesOK, LateOK, shown' \in Shown,
         StepOK(step, DOMAIN offers')
  PROVE  PanelTypeOK'
<1>1. \A u \in Task : task'[u] = IF u = t THEN step ELSE task[u]
  BY DEF PanelTypeOK, Goes
<1>2. DOMAIN offers \subseteq DOMAIN offers'
  BY DEF PanelTypeOK, TablesOK
<1>3. \A c : StepOK(c, DOMAIN offers) => StepOK(c, DOMAIN offers')
  BY <1>2 DEF StepOK
<1>4. task' = [u \in Task |-> task'[u]]
  BY DEF PanelTypeOK, Goes
<1> QED
  BY <1>1, <1>3, <1>4 DEF PanelTypeOK, TablesOK, LateOK

LEMMA StaysOn ==
  ASSUME PanelTypeOK, UNCHANGED task, TablesOK, LateOK, shown' \in Shown
  PROVE  PanelTypeOK'
<1>1. DOMAIN offers \subseteq DOMAIN offers'
  BY DEF PanelTypeOK, TablesOK
<1>2. \A c : StepOK(c, DOMAIN offers) => StepOK(c, DOMAIN offers')
  BY <1>1 DEF StepOK
<1> QED
  BY <1>2 DEF PanelTypeOK, TablesOK, LateOK

LEMMA TablesStay ==
  ASSUME PanelTypeOK, UNCHANGED tables PROVE TablesOK /\ \A r \in Rider : Held(r)' = Held(r)
  BY DEF TablesOK, PanelTypeOK, tables, Held, With

-------------------------------------------------------------------------------
(* What the backend does to the tables.                                    *)
LEMMA InsertOffers ==
  ASSUME PanelTypeOK, NEW d \in Delivery, NEW r \in Rider, Insert(d, r),
         owed' \in SUBSET Delivery
  PROVE  /\ TablesOK
         /\ \A q \in Rider : Held(q)' = IF q = r THEN Held(q) \cup {Len(offers) + 1} ELSE Held(q)
<1> DEFINE new == [delivery |-> d, rider |-> r, status |-> "PENDING"]
<1>1. /\ offers' = Append(offers, new) /\ new \in Offered /\ offers \in Seq(Offered)
      /\ UNCHANGED <<delivery, rider>>
  BY DEF Insert, Offerable, Offered, PanelTypeOK
<1>2. new.rider = r /\ new.status = "PENDING"
  OBVIOUS
<1> HIDE DEF new
<1>3. offers' \in Seq(Offered) /\ Len(offers') = Len(offers) + 1 /\ Len(offers) \in Nat
  BY <1>1
<1>4. \A o \in DOMAIN offers' : offers'[o] = IF o = Len(offers) + 1 THEN new ELSE offers[o]
  BY <1>1
<1>5. DOMAIN offers' = DOMAIN offers \cup {Len(offers) + 1}
  BY <1>1, <1>3
<1>6. ASSUME NEW q \in Rider
      PROVE  Held(q)' = IF q = r THEN Held(q) \cup {Len(offers) + 1} ELSE Held(q)
  <2>1. \A o : o \in Held(q)' <=> o \in DOMAIN offers' /\ offers'[o].status = "PENDING" /\ offers'[o].rider = q
    BY DEF Held, With
  <2>2. \A o : o \in Held(q) <=> o \in DOMAIN offers /\ offers[o].status = "PENDING" /\ offers[o].rider = q
    BY DEF Held, With
  <2>3. Len(offers) + 1 \notin DOMAIN offers
    BY <1>1
  <2> QED
    BY <1>2, <1>4, <1>5, <2>1, <2>2, <2>3
<1> QED
  BY <1>1, <1>3, <1>6 DEF TablesOK, PanelTypeOK

LEMMA StatusChanges ==
  ASSUME PanelTypeOK, NEW o \in DOMAIN offers, NEW status \in {"ACCEPTED", "CLOSED"},
         offers' = [offers EXCEPT ![o].status = status], UNCHANGED <<delivery, rider>>,
         owed' \in SUBSET Delivery
  PROVE  TablesOK /\ \A q \in Rider : Held(q)' \subseteq Held(q)
<1>1. offers[o] \in Offered /\ offers \in Seq(Offered) /\ DOMAIN offers' = DOMAIN offers
  BY DEF PanelTypeOK
<1>2. [offers[o] EXCEPT !.status = status] \in Offered
  BY <1>1 DEF Offered
<1>3. offers' \in Seq(Offered) /\ Len(offers') = Len(offers)
  BY <1>1, <1>2
<1>4. \A p \in DOMAIN offers : /\ offers'[p].rider = offers[p].rider
                               /\ offers'[p].status = IF p = o THEN status ELSE offers[p].status
  BY <1>1 DEF Offered, PanelTypeOK
<1>5. \A q \in Rider : Held(q)' \subseteq Held(q)
  BY <1>1, <1>4 DEF Held, With
<1> QED
  BY <1>3, <1>5 DEF TablesOK, PanelTypeOK

LEMMA ClosesOne ==
  ASSUME PanelTypeOK, NEW o \in DOMAIN offers, Closes(o)
  PROVE  TablesOK /\ \A q \in Rider : Held(q)' \subseteq Held(q)
<1>1. offers[o] \in Offered
  BY DEF PanelTypeOK
<1>2. owed' \in SUBSET Delivery
  BY <1>1 DEF Closes, Offered, PanelTypeOK
<1> QED
  BY <1>2, StatusChanges DEF Closes

LEMMA SaveClosesOne ==
  ASSUME PanelTypeOK, NEW o \in DOMAIN offers, SaveLands(o)
  PROVE  TablesOK /\ \A q \in Rider : Held(q)' \subseteq Held(q)
<1>1. owed' \in SUBSET Delivery
  BY DEF SaveLands, PanelTypeOK
<1> QED
  BY <1>1, StatusChanges DEF SaveLands

(* Neither does anything else that is done to the tables open an offer.    *)
LEMMA RowsChange ==
  ASSUME PanelTypeOK, UNCHANGED offers, owed' \in SUBSET Delivery,
         delivery' \in [Delivery -> RowState], rider' \in [Rider -> RiderState]
  PROVE  TablesOK /\ \A q \in Rider : Held(q)' = Held(q)
  BY DEF TablesOK, PanelTypeOK, Held, With

LEMMA DeleteCloses ==
  ASSUME PanelTypeOK, DeleteOffers
  PROVE  TablesOK /\ \A q \in Rider : Held(q)' = {}
<1>1. offers \in Seq(Offered) /\ DOMAIN offers' = DOMAIN offers
  BY DEF PanelTypeOK, DeleteOffers
<1>2. \A o \in DOMAIN offers : offers'[o] = [offers[o] EXCEPT !.status = "CLOSED"] /\ offers'[o] \in Offered
  <2>1. \A o \in DOMAIN offers : offers'[o] = [offers[o] EXCEPT !.status = "CLOSED"] /\ offers[o] \in Offered
    BY <1>1 DEF DeleteOffers
  <2>2. \A x \in Offered : [x EXCEPT !.status = "CLOSED"] \in Offered
    BY DEF Offered
  <2> QED
    BY <2>1, <2>2
<1>3. offers' \in Seq(Offered) /\ Len(offers') = Len(offers)
  BY <1>1, <1>2 DEF DeleteOffers
<1>4. \A o \in DOMAIN offers : offers'[o].status = "CLOSED"
  BY <1>1, <1>2 DEF Offered
<1>5. \A q \in Rider : Held(q)' = {}
  BY <1>1, <1>4 DEF Held, With
<1> QED
  BY <1>3, <1>5 DEF TablesOK, PanelTypeOK, DeleteOffers

LEMMA SeedFills ==
  ASSUME PanelTypeOK, NEW c, FillRows(c)
  PROVE  TablesOK /\ \A q \in Rider : Held(q)' = Held(q)
<1>1. delivery' \in [Delivery -> RowState] /\ UNCHANGED <<offers, owed>>
  BY DEF FillRows, DeleteDeliveries, Gone, PanelTypeOK, RowState
<1>2. rider' \in [Rider -> RiderState]
  BY DEF FillRows, NewRiders, Gone, PanelTypeOK, RiderState
<1> QED
  BY <1>1, <1>2, RowsChange DEF PanelTypeOK

LEMMA BulkAdds ==
  ASSUME PanelTypeOK, NEW n, NEW k, SeedBulkData(n, k)
  PROVE  TablesOK /\ \A q \in Rider : Held(q)' = Held(q)
<1>1. delivery' \in [Delivery -> RowState] /\ rider' \in [Rider -> RiderState]
      /\ UNCHANGED <<offers, owed>>
  BY DEF SeedBulkData, PanelTypeOK, RowState, RiderState
<1> QED
  BY <1>1, RowsChange DEF PanelTypeOK

LEMMA Assigned ==
  ASSUME PanelTypeOK, NEW o \in DOMAIN offers, setAssigned(o), setBusy(o) \/ UNCHANGED rider,
         UNCHANGED <<offers, owed>>
  PROVE  TablesOK /\ \A q \in Rider : Held(q)' = Held(q)
<1>1. delivery' \in [Delivery -> RowState]
  BY DEF setAssigned, PanelTypeOK, RowState
<1>2. rider' \in [Rider -> RiderState]
  BY DEF setBusy, PanelTypeOK, RiderState
<1> QED
  BY <1>1, <1>2, RowsChange DEF PanelTypeOK

-------------------------------------------------------------------------------
(* When offers only go, ...                                                *)
LEMMA OffersGo ==
  ASSUME PanelInv, rivals' = rivals, \A r \in Rider : Held(r)' \subseteq Held(r),
         \A l \in DispatchLoop : task'[l].does = "send" =>
           task'[l].rider \in Rider /\ (task'[l] = task[l] \/ Held(task'[l].rider) = {})
  PROVE  ~rivals' => NobodySends' /\ \A r \in Rider : OneAtMost(r)'
<1> SUFFICES ASSUME ~rivals' PROVE NobodySends' /\ \A r \in Rider : OneAtMost(r)'
  OBVIOUS
<1>1. NobodySends /\ \A r \in Rider : OneAtMost(r)
  BY DEF PanelInv
<1>2. \A r \in Rider : OneAtMost(r)'
  BY <1>1 DEF OneAtMost
<1>3. \A l \in DispatchLoop : task'[l].does = "send" => Held(task'[l].rider) = {} /\ task'[l].rider \in Rider
  BY <1>1 DEF NobodySends
<1>4. \A r \in Rider : Held(r)' \subseteq Held(r)
  OBVIOUS
<1>5. NobodySends'
  BY <1>3, <1>4 DEF NobodySends, Held, With
<1> QED
  BY <1>2, <1>5

(* ... or one comes that has no rival, a rider keeps one at most.          *)
LEMMA OfferComes ==
  ASSUME PanelInv, NEW d \in Delivery, NEW r \in Rider, Insert(d, r), owed' \in SUBSET Delivery,
         NEW t, Rivals(t, r),
         t \in DispatchLoop => task[t].does = "send" /\ task[t].rider = r /\ task'[t].does # "send",
         \A l \in DispatchLoop \ {t} : task'[l] = task[l]
  PROVE  ~rivals' => NobodySends' /\ \A q \in Rider : OneAtMost(q)'
<1> SUFFICES ASSUME ~rivals' PROVE NobodySends' /\ \A q \in Rider : OneAtMost(q)'
  OBVIOUS
<1>1. /\ ~rivals /\ (t \notin DispatchLoop => Held(r) = {})
      /\ \A l \in DispatchLoop \ {t} : ~(task[l].does = "send" /\ task[l].rider = r)
  BY DEF Rivals
<1>2. NobodySends /\ \A q \in Rider : OneAtMost(q)
  BY <1>1 DEF PanelInv
<1>3. Held(r) = {}
  BY <1>1, <1>2 DEF NobodySends
<1>4. \A q \in Rider : Held(q)' = IF q = r THEN Held(q) \cup {Len(offers) + 1} ELSE Held(q)
  BY InsertOffers DEF PanelInv
<1>5. \A q \in Rider : OneAtMost(q)'
  BY <1>2, <1>3, <1>4 DEF OneAtMost
<1>6. ASSUME NEW l \in DispatchLoop, task'[l].does = "send"
      PROVE  \A o \in With("PENDING")' : offers'[o].rider # task'[l].rider
  <2>1. l # t /\ task'[l] = task[l]
    BY <1>6
  <2>2. PICK q \in Rider : q = task[l].rider /\ q # r /\ Held(q) = {}
    BY <1>1, <1>2, <1>6, <2>1 DEF NobodySends, PanelInv, PanelTypeOK, StepOK, Task
  <2>3. Held(q)' = {}
    BY <1>4, <2>2
  <2> QED
    BY <2>1, <2>2, <2>3 DEF Held
<1>7. NobodySends'
  BY <1>6 DEF NobodySends, Held
<1> QED
  BY <1>5, <1>7

(* A step of a task after which there are no more offers than before: if   *)
(* it is to send one next, its rider has none.                             *)
LEMMA StepGoes ==
  ASSUME PanelInv, NEW t \in Task, NEW step, Goes(t, step), UNCHANGED rivals, TablesOK, LateOK,
         shown' \in Shown, StepOK(step, DOMAIN offers'), \A r \in Rider : Held(r)' \subseteq Held(r),
         t \in DispatchLoop /\ step.does = "send" => step.rider \in Rider /\ Held(step.rider) = {}
  PROVE  PanelInv'
<1>1. \A u \in Task : task'[u] = IF u = t THEN step ELSE task[u]
  BY DEF PanelInv, PanelTypeOK, Goes
<1>2. PanelTypeOK'
  BY GoesOn DEF PanelInv
<1>3. \A l \in DispatchLoop : task'[l].does = "send" =>
         task'[l].rider \in Rider /\ (task'[l] = task[l] \/ Held(task'[l].rider) = {})
  BY <1>1 DEF PanelInv, PanelTypeOK, StepOK, Task
<1> QED
  BY <1>2, <1>3, OffersGo DEF PanelInv

(* Steps beside the tasks.                                                 *)
LEMMA StepBeside ==
  ASSUME PanelInv, UNCHANGED <<task, rivals>>, TablesOK, LateOK, shown' \in Shown,
         \A r \in Rider : Held(r)' \subseteq Held(r)
  PROVE  PanelInv'
<1>1. PanelTypeOK'
  BY StaysOn DEF PanelInv
<1>2. \A l \in DispatchLoop : task'[l].does = "send" => task'[l] = task[l] /\ task'[l].rider \in Rider
  BY DEF PanelInv, PanelTypeOK, StepOK, Task
<1> QED
  BY <1>1, <1>2, OffersGo DEF PanelInv

(* The steps that wait for nothing of the tables.                          *)
LEMMA PlainSteps ==
  ASSUME NEW step \in {Nothing, Check} PROVE step.does # "send" /\ \A rows : StepOK(step, rows)
  BY DEF Nothing, Check, StepOK

LEMMA RefreshIsPlain ==
  ASSUME NEW r
  PROVE  LET step == RefreshThen(r) IN step.does # "send" /\ \A rows : StepOK(step, rows)
  BY DEF RefreshThen, StepOK

-------------------------------------------------------------------------------
(* The steps of the tasks.                                                 *)
LEMMA MatchStep == ASSUME PanelInv, NEW t \in Task, Match(t) PROVE PanelInv'
<1> DEFINE ds == task[t].waiting \ {offers[o].delivery : o \in With("PENDING")}
           rs == task[t].free \ {offers[o].rider : o \in With("PENDING")}
<1>1. /\ task[t].waiting \in SUBSET Delivery /\ task[t].free \in SUBSET Rider
      /\ UNCHANGED <<tables, shown, rivals, late>>
  BY DEF Match, PanelInv, PanelTypeOK, StepOK
<1>2. TablesOK /\ LateOK /\ shown' \in Shown /\ \A r \in Rider : Held(r)' = Held(r)
  BY <1>1, TablesStay DEF PanelInv, PanelTypeOK, LateOK
<1>3. CASE Goes(t, Check)
  BY <1>1, <1>2, <1>3, PlainSteps, StepGoes
<1>4. ASSUME NEW d \in ds, rs # {}, Goes(t, [does |-> "send", delivery |-> d, rider |-> Max(rs)])
      PROVE  PanelInv'
  <2> DEFINE step == [does |-> "send", delivery |-> d, rider |-> Max(rs)]
  <2>1. rs \in SUBSET Rider /\ d \in Delivery
    BY <1>1
  <2>2. Max(rs) \in rs
    BY <1>4, <2>1, NewestRider
  <2>3. Held(Max(rs)) = {}
    BY <2>2 DEF Held
  <2> HIDE DEF ds, rs
  <2>4. StepOK(step, DOMAIN offers') /\ step.rider \in Rider /\ Held(step.rider) = {}
    BY <2>1, <2>2, <2>3 DEF StepOK
  <2>5. Goes(t, step)
    BY <1>4
  <2> HIDE DEF step
  <2> QED
    BY <1>1, <1>2, <2>4, <2>5, StepGoes
<1> QED
  BY <1>1, <1>3, <1>4 DEF Match

LEMMA ManualStep == ASSUME PanelInv, NEW t \in Task, createManual(t) PROVE PanelInv'
<1> DEFINE d == task[t].delivery
           r == task[t].rider
<1>1. task[t].does = "send" /\ d \in Delivery /\ r \in Rider /\ shown' \in Shown /\ LateOK
  BY DEF createManual, PanelInv, PanelTypeOK, StepOK, LateOK
<1>2. CASE Goes(t, Back(t)) /\ UNCHANGED <<tables, rivals>>
  BY <1>1, <1>2, TablesStay, PlainSteps, StepGoes DEF Back, PanelInv
<1>3. ASSUME NEW step, step = IF t \in Hand THEN Nothing ELSE RefreshThen(Nobody), Goes(t, step),
             Insert(d, r), Rivals(t, r), UNCHANGED owed
      PROVE  PanelInv'
  <2>1. \A u \in Task : task'[u] = IF u = t THEN step ELSE task[u]
    BY <1>3 DEF PanelInv, PanelTypeOK, Goes
  <2>2. step.does # "send" /\ StepOK(step, DOMAIN offers')
    BY <1>3, PlainSteps, RefreshIsPlain
  <2>3. TablesOK /\ owed' \in SUBSET Delivery
    BY <1>1, <1>3, InsertOffers DEF PanelInv, PanelTypeOK
  <2>4. PanelTypeOK'
    BY <1>1, <1>3, <2>2, <2>3, GoesOn DEF PanelInv
  <2>5. /\ \A l \in DispatchLoop \ {t} : task'[l] = task[l]
        /\ task'[t].does # "send"
    BY <2>1, <2>2 DEF Task
  <2>6. ~rivals' => NobodySends' /\ \A q \in Rider : OneAtMost(q)'
    BY <1>1, <1>3, <2>3, <2>5, OfferComes
  <2> QED
    BY <2>4, <2>6 DEF PanelInv
<1> QED
  BY <1>2, <1>3 DEF createManual

LEMMA RespondSteps ==
  ASSUME PanelInv, NEW t \in Task, respond(t) \/ SaveAccepted(t) PROVE PanelInv'
<1> DEFINE o == task[t].offer
<1>1. /\ o \in DOMAIN offers /\ shown' \in Shown /\ UNCHANGED rivals /\ LateOK /\ PanelTypeOK
  BY DEF respond, SaveAccepted, PanelInv, PanelTypeOK, StepOK, LateOK
<1>2. Back(t) \in {Nothing, Check}
  BY DEF Back
<1>3. CASE Goes(t, Back(t)) /\ UNCHANGED tables
  BY <1>1, <1>2, <1>3, TablesStay, PlainSteps, StepGoes
<1>4. CASE Assigns(o) /\ Goes(t, Saving(o))
  <2>1. TablesOK /\ \A q \in Rider : Held(q)' = Held(q)
    BY <1>1, <1>4, Assigned DEF Assigns
  <2>2. Saving(o).does # "send" /\ StepOK(Saving(o), DOMAIN offers')
    BY <1>1, <1>4 DEF Saving, StepOK, Assigns
  <2> QED
    BY <1>1, <1>4, <2>1, <2>2, StepGoes
<1>5. CASE Closes(o) /\ Goes(t, Back(t))
  BY <1>1, <1>2, <1>5, ClosesOne, PlainSteps, StepGoes
<1>6. CASE SaveLands(o) /\ Goes(t, IF t \in Hand THEN Nothing ELSE RefreshThen(offers[o].rider))
  BY <1>1, <1>6, SaveClosesOne, PlainSteps, RefreshIsPlain, StepGoes
<1> QED
  BY <1>3, <1>4, <1>5, <1>6 DEF respond, SaveAccepted

LEMMA WhileSteps ==
  ASSUME PanelInv, NEW t \in Task, WhileDispatch(t) \/ WhileAccept(t) \/ Refresh(t)
  PROVE  PanelInv'
<1>1. /\ UNCHANGED <<tables, rivals>> /\ TablesOK /\ LateOK
      /\ shown \in Shown /\ PanelTypeOK /\ \A r \in Rider : Held(r)' = Held(r)
  <2>1. UNCHANGED <<tables, rivals, late>>
    BY DEF WhileDispatch, WhileAccept, Refresh
  <2> QED
    BY <2>1, TablesStay DEF PanelInv, PanelTypeOK, LateOK
<1>2. ASSUME NEW step \in {Nothing, Check}, Goes(t, step), shown' \in Shown PROVE PanelInv'
  BY <1>1, <1>2, PlainSteps, StepGoes
<1>3. CASE WhileDispatch(t)
  <2> DEFINE step == [does |-> "ask", waiting |-> shown.waiting, free |-> shown.free]
  <2>1. UNCHANGED shown /\ (Goes(t, step) \/ Goes(t, Nothing))
    BY <1>3 DEF WhileDispatch
  <2>2. StepOK(step, DOMAIN offers') /\ step.does # "send"
    BY <1>1 DEF StepOK, Shown
  <2> HIDE DEF step
  <2> QED
    BY <1>1, <1>2, <2>1, <2>2, StepGoes
<1>4. CASE WhileAccept(t)
  <2> DEFINE step == [does |-> "ACCEPTED", offer |-> Max(With("PENDING"))]
  <2>1. UNCHANGED shown
        /\ (Goes(t, Nothing) \/ Goes(t, Check) \/ (With("PENDING") # {} /\ Goes(t, step)))
    BY <1>4 DEF WhileAccept
  <2>2. With("PENDING") # {} => StepOK(step, DOMAIN offers')
    BY <1>1, NewestOffer DEF StepOK, With, tables
  <2>3. step.does # "send"
    OBVIOUS
  <2> HIDE DEF step
  <2> QED
    BY <1>1, <1>2, <2>1, <2>2, <2>3, StepGoes
<1>5. CASE Refresh(t)
  <2>1. Waiting \in SUBSET Delivery
    BY DEF Waiting
  <2>2. shown' \in Shown
    BY <1>1, <1>5, <2>1 DEF Refresh, Shown
  <2> QED
    BY <1>2, <1>5, <2>2 DEF Refresh
<1> QED
  BY <1>3, <1>4, <1>5

LEMMA SwitchSteps == ASSUME PanelInv, setAutoDispatch \/ setAutoAcceptOffer PROVE PanelInv'
<1>1. /\ UNCHANGED <<shown, rivals>> /\ shown' \in Shown /\ TablesOK /\ LateOK
      /\ \A r \in Rider : Held(r)' = Held(r)
  <2>1. UNCHANGED <<tables, shown, rivals, late>>
    BY DEF setAutoDispatch, setAutoAcceptOffer
  <2> QED
    BY <2>1, TablesStay DEF PanelInv, PanelTypeOK, LateOK
<1>2. CASE UNCHANGED task
  BY <1>1, <1>2, StepBeside
<1>3. ASSUME NEW t, Goes(t, Check) PROVE PanelInv'
  <2>1. CASE t \in Task
    BY <1>1, <1>3, <2>1, PlainSteps, StepGoes
  <2>2. CASE t \notin Task
    <3>1. UNCHANGED task
      BY <1>3, <2>2 DEF Goes, PanelInv, PanelTypeOK
    <3> QED
      BY <3>1, <1>2
  <2> QED
    BY <2>1, <2>2
<1> QED
  BY <1>2, <1>3 DEF setAutoDispatch, setAutoAcceptOffer, Begins

-------------------------------------------------------------------------------
(* The steps of the buttons.                                               *)
LEMMA AssignStep == ASSUME PanelInv, NEW h \in Hand, handleManualAssign(h) PROVE PanelInv'
<1>1. PICK d \in shown.waiting : Goes(h, [does |-> "send", delivery |-> d, rider |-> Max(shown.free)])
  BY DEF handleManualAssign
<1>2. /\ shown.free # {} /\ UNCHANGED <<tables, shown, late, rivals>> /\ h \notin DispatchLoop
      /\ shown \in Shown /\ h \in Task
  BY HandsDiffer DEF handleManualAssign, PanelInv, PanelTypeOK, Task
<1> DEFINE step == [does |-> "send", delivery |-> d, rider |-> Max(shown.free)]
<1>3. d \in Delivery /\ Max(shown.free) \in Rider
  BY <1>2, NewestRider DEF Shown
<1>4. StepOK(step, DOMAIN offers')
  BY <1>3 DEF StepOK
<1>5. Goes(h, step)
  BY <1>1
<1> HIDE DEF step
<1> QED
  BY <1>2, <1>4, <1>5, TablesStay, StepGoes DEF PanelInv, LateOK

LEMMA AnswerStep ==
  ASSUME PanelInv, NEW h \in Task, NEW answer \in {"ACCEPTED", "CLOSED"}, handleAnswer(h, answer)
  PROVE  PanelInv'
<1> DEFINE step == [does |-> answer, offer |-> Max(With("PENDING"))]
<1>1. /\ PanelTypeOK /\ With("PENDING") # {} /\ Goes(h, step)
      /\ UNCHANGED <<tables, shown, late, rivals>> /\ shown \in Shown
  BY DEF handleAnswer, PanelInv, PanelTypeOK
<1>2. StepOK(step, DOMAIN offers') /\ step.does # "send"
  BY <1>1, NewestOffer DEF StepOK, With, tables
<1> HIDE DEF step
<1> QED
  BY <1>1, <1>2, TablesStay, StepGoes DEF LateOK

LEMMA CreateStep == ASSUME PanelInv, NEW h \in Task, handleCreateDelivery(h) PROVE PanelInv'
<1>1. PICK d \in Newest(1, delivery) :
        /\ delivery' = [delivery EXCEPT ![d] = "PENDING"] /\ owed' = owed \cup {d}
        /\ Goes(h, [does |-> "show", waiting |-> shown.waiting \cup {d}])
  BY DEF handleCreateDelivery
<1>2. UNCHANGED <<rider, offers, shown, late, rivals>> /\ shown \in Shown /\ PanelTypeOK
  BY DEF handleCreateDelivery, PanelInv, PanelTypeOK
<1>3. d \in Delivery
  BY <1>2 DEF Newest, Fresh, PanelTypeOK
<1> DEFINE step == [does |-> "show", waiting |-> shown.waiting \cup {d}]
<1>4. step.does # "send" /\ StepOK(step, DOMAIN offers')
  BY <1>2, <1>3 DEF Shown, StepOK
<1>5. Goes(h, step)
  BY <1>1
<1>6. /\ delivery' \in [Delivery -> RowState] /\ owed' \in SUBSET Delivery
      /\ rider' \in [Rider -> RiderState]
  BY <1>1, <1>2, <1>3 DEF PanelTypeOK, RowState
<1> HIDE DEF step
<1>7. TablesOK /\ \A r \in Rider : Held(r)' = Held(r)
  BY <1>2, <1>6, RowsChange
<1> QED
  BY <1>2, <1>4, <1>5, <1>7, StepGoes DEF LateOK

LEMMA SeedSteps ==
  ASSUME PanelInv, NEW h \in Task, handleSeedData(h) \/ SeedDemoData(h) \/ handleBulkSeed(h)
  PROVE  PanelInv'
<1>1. UNCHANGED <<shown, late, rivals>> /\ shown \in Shown /\ PanelTypeOK /\ LateOK
  BY DEF handleSeedData, SeedDemoData, handleBulkSeed, PanelInv, PanelTypeOK, LateOK
<1>2. ASSUME NEW step, step.does \in {"list", "fill", "nothing"}
      PROVE  step.does # "send" /\ StepOK(step, DOMAIN offers')
  BY <1>2 DEF StepOK
<1>3. PICK step : step.does \in {"list", "fill", "nothing"} /\ Goes(h, step)
  BY DEF handleSeedData, SeedDemoData, handleBulkSeed, Nothing
<1>4. TablesOK /\ \A q \in Rider : Held(q)' \subseteq Held(q)
  <2>1. CASE DeleteOffers
    BY <1>1, <2>1, DeleteCloses
  <2>2. CASE FillRows(task[h])
    BY <1>1, <2>2, SeedFills
  <2>3. CASE UNCHANGED tables
    BY <1>1, <2>3, TablesStay
  <2>4. CASE \E i \in Rider, k \in 0..MaxDeliveries : SeedBulkData(i, k)
    BY <1>1, <2>4, BulkAdds
  <2> QED
    BY <2>1, <2>2, <2>3, <2>4 DEF handleSeedData, SeedDemoData, handleBulkSeed
<1> QED
  BY <1>1, <1>2, <1>3, <1>4, StepGoes

LEMMA ListSteps == ASSUME PanelInv, NEW h \in Task, ShowDelivery(h) \/ ListSeeded(h) PROVE PanelInv'
<1>1. Waiting \in SUBSET Delivery /\ Free \in SUBSET Rider /\ shown \in Shown /\ StepOK(task[h], DOMAIN offers)
  BY DEF Waiting, Free, PanelInv, PanelTypeOK
<1>2. shown' \in Shown
  <2>1. CASE ShowDelivery(h)
    <3>1. task[h].waiting \in SUBSET Delivery /\ shown' = [shown EXCEPT !.waiting = task[h].waiting]
      BY <1>1, <2>1 DEF ShowDelivery, StepOK
    <3> QED
      BY <1>1, <3>1 DEF Shown
  <2>2. CASE ListSeeded(h)
    BY <1>1, <2>2 DEF ListSeeded, Shown
  <2> QED
    BY <2>1, <2>2
<1>3. Goes(h, Nothing) /\ UNCHANGED <<tables, late, rivals>>
  BY DEF ShowDelivery, ListSeeded
<1> QED
  BY <1>2, <1>3, TablesStay, PlainSteps, StepGoes DEF PanelInv, LateOK

-------------------------------------------------------------------------------
(* Failures, and what the backend does of what was given up.               *)
LEMMA FailSteps == ASSUME PanelInv, NEW t \in Task, Fail(t) \/ FailHalfway(t) PROVE PanelInv'
<1>1. /\ Goes(t, Back(t)) /\ Back(t) \in {Nothing, Check} /\ UNCHANGED <<shown, rivals>>
      /\ shown \in Shown /\ PanelTypeOK /\ StepOK(task[t], DOMAIN offers)
  BY DEF Fail, FailHalfway, GivesUp, Back, PanelInv, PanelTypeOK
<1>2. CASE Fail(t)
  <2>1. UNCHANGED tables /\ late' \subseteq late \cup {task[t]}
    BY <1>2 DEF Fail
  <2>2. LateOK
    BY <1>1, <2>1 DEF LateOK, StepOK, tables
  <2> QED
    BY <1>1, <2>1, <2>2, TablesStay, PlainSteps, StepGoes
<1>3. CASE FailHalfway(t)
  <2>1. LateOK
    BY <1>3 DEF FailHalfway, LateOK
  <2>2. TablesOK /\ \A q \in Rider : Held(q)' = Held(q)
    <3>1. CASE task[t].does = "ACCEPTED" /\ setAssigned(task[t].offer) /\ UNCHANGED <<rider, offers, owed>>
      BY <1>1, <3>1, Assigned DEF StepOK
    <3>2. CASE DeleteDeliveries /\ (UNCHANGED rider \/ rider' = [r \in Rider |-> Gone(rider[r])])
      <4>1. delivery' \in [Delivery -> RowState] /\ UNCHANGED <<offers, owed>>
        BY <1>1, <3>2 DEF DeleteDeliveries, Gone, PanelTypeOK, RowState
      <4>2. rider' \in [Rider -> RiderState]
        BY <1>1, <3>2 DEF Gone, PanelTypeOK, RiderState
      <4> QED
        BY <1>1, <4>1, <4>2, RowsChange DEF PanelTypeOK
    <3> QED
      BY <1>3, <3>1, <3>2 DEF FailHalfway
  <2> QED
    BY <1>1, <2>1, <2>2, PlainSteps, StepGoes
<1> QED
  BY <1>2, <1>3

LEMMA LateSteps == ASSUME PanelInv, NEW c \in late, LateStep(c) PROVE PanelInv'
<1>1. UNCHANGED <<shown, task>> /\ shown' \in Shown /\ PanelTypeOK /\ StepOK(c, DOMAIN offers)
  BY DEF LateStep, PanelInv, PanelTypeOK
<1>2. CASE late' = late \ {c} /\ UNCHANGED rivals /\ UNCHANGED tables
  BY <1>1, <1>2, TablesStay, StepBeside DEF LateOK
<1>3. CASE late' = late \ {c} /\ c.does = "send" /\ Insert(c.delivery, c.rider) /\ UNCHANGED owed
           /\ Rivals(Nobody, c.rider)
  <2>1. c.delivery \in Delivery /\ c.rider \in Rider /\ owed' \in SUBSET Delivery /\ LateOK
    BY <1>1, <1>3 DEF StepOK, PanelTypeOK, LateOK
  <2>2. PanelTypeOK'
    BY <1>1, <1>3, <2>1, InsertOffers, StaysOn
  <2>3. Nobody \notin DispatchLoop
    BY TasksAreNumbered DEF Nobody
  <2>4. ~rivals' => NobodySends' /\ \A q \in Rider : OneAtMost(q)'
    BY <1>1, <1>3, <2>1, <2>3, OfferComes
  <2> QED
    BY <2>2, <2>4 DEF PanelInv
<1>4. CASE late' = late \ {c} /\ c.does = "CLOSED" /\ Closes(c.offer) /\ UNCHANGED rivals
  BY <1>1, <1>4, ClosesOne, StepBeside DEF StepOK, LateOK
<1>5. CASE late' = late \ {c} /\ c.does = "save" /\ SaveLands(c.offer) /\ UNCHANGED rivals
  BY <1>1, <1>5, SaveClosesOne, StepBeside DEF StepOK, LateOK
<1>6. CASE late' = late \ {c} /\ FillRows(c) /\ UNCHANGED rivals
  BY <1>1, <1>6, SeedFills, StepBeside DEF LateOK
<1>7. CASE c.does = "ACCEPTED" /\ Assigns(c.offer) /\ UNCHANGED rivals
           /\ late' = (late \ {c}) \cup {Saving(c.offer)}
  <2>1. c.offer \in DOMAIN offers /\ UNCHANGED offers
    BY <1>1, <1>7 DEF StepOK, Assigns
  <2>2. LateOK
    BY <1>7, <2>1 DEF LateOK, StepOK, Saving
  <2> QED
    BY <1>1, <1>7, <2>1, <2>2, Assigned, StepBeside DEF Assigns
<1> QED
  BY <1>2, <1>3, <1>4, <1>5, <1>6, <1>7 DEF LateStep

-------------------------------------------------------------------------------
(* What goes on besides.                                                   *)
LEMMA FetchStep == ASSUME PanelInv, FetchData PROVE PanelInv'
<1>1. shown' \in Shown
  BY DEF FetchData, Shown, Waiting, Free, Seeded
<1>2. UNCHANGED <<tables, task, late, rivals>>
  BY DEF FetchData
<1> QED
  BY <1>1, <1>2, TablesStay, StepBeside DEF PanelInv, LateOK

LEMMA BackendStep == ASSUME PanelInv, NEW d \in owed, BackendDispatch(d) PROVE PanelInv'
<1>1. PICK r \in Rider : Insert(d, r) /\ Rivals(Nobody, r)
  BY DEF BackendDispatch
<1>2. /\ UNCHANGED <<shown, task>> /\ Nobody \notin DispatchLoop /\ LateOK
      /\ d \in Delivery /\ owed' \in SUBSET Delivery /\ PanelTypeOK /\ shown' \in Shown
  BY TasksAreNumbered DEF BackendDispatch, Nobody, LateOK, PanelInv, PanelTypeOK
<1>3. PanelTypeOK'
  BY <1>1, <1>2, InsertOffers, StaysOn
<1>4. ~rivals' => NobodySends' /\ \A q \in Rider : OneAtMost(q)'
  BY <1>1, <1>2, OfferComes
<1> QED
  BY <1>3, <1>4 DEF PanelInv

LEMMA ExpireStep == ASSUME PanelInv, NEW o \in DOMAIN offers, OfferExpires(o) PROVE PanelInv'
<1>1. UNCHANGED <<task, rivals>> /\ shown' \in Shown /\ Closes(o) /\ LateOK /\ PanelTypeOK
  BY DEF OfferExpires, PanelInv, PanelTypeOK, LateOK
<1> QED
  BY <1>1, ClosesOne, StepBeside

LEMMA RideStep == ASSUME PanelInv, NEW r \in Rider, RiderDelivers(r) PROVE PanelInv'
<1>1. UNCHANGED <<offers, owed, shown, task, rivals>> /\ shown' \in Shown /\ LateOK /\ PanelTypeOK
  BY DEF RiderDelivers, PanelInv, PanelTypeOK, LateOK
<1>2. TablesOK /\ \A q \in Rider : Held(q)' = Held(q)
  <2>1. PICK d : delivery' = [delivery EXCEPT ![d] = "CLOSED"]
    BY DEF RiderDelivers
  <2>2. delivery' \in [Delivery -> RowState]
    BY <2>1 DEF PanelInv, PanelTypeOK, RowState
  <2>3. rider' \in [Rider -> RiderState]
    BY DEF RiderDelivers, PanelInv, PanelTypeOK, RiderState
  <2> QED
    BY <1>1, <2>2, <2>3, RowsChange DEF PanelTypeOK
<1> QED
  BY <1>1, <1>2, StepBeside

-------------------------------------------------------------------------------
LEMMA PanelStarts == PanelInit => PanelInv
<1> SUFFICES ASSUME PanelInit PROVE PanelInv
  OBVIOUS
<1>1. offers = <<>> /\ owed = {} /\ late = {} /\ task = [t \in Task |-> Nothing]
  BY DEF PanelInit
<1>2. \A t \in Task : task[t] = Nothing /\ StepOK(task[t], DOMAIN offers) /\ task[t].does = "nothing"
  BY <1>1 DEF Nothing, StepOK
<1>3. delivery \in [Delivery -> RowState] /\ rider \in [Rider -> RiderState]
  BY DEF PanelInit, RowState, RiderState
<1>4. offers \in Seq(Offered) /\ shown \in Shown
  BY DEF PanelInit, Shown
<1>5. task = [t \in Task |-> task[t]]
  BY <1>1
<1>6. \A r \in Rider : Held(r) = {}
  BY <1>1 DEF Held, With
<1>7. PanelTypeOK
  BY <1>1, <1>2, <1>3, <1>4, <1>5 DEF PanelTypeOK
<1>8. NobodySends
  BY <1>2 DEF NobodySends, Task
<1> QED
  BY <1>6, <1>7, <1>8 DEF PanelInv, OneAtMost

LEMMA PanelStep == PanelInv /\ [PanelNext]_panelVars => PanelInv'
<1> SUFFICES ASSUME PanelInv, [PanelNext]_panelVars PROVE PanelInv'
  OBVIOUS
<1>1. DispatchLoop \subseteq Task /\ AcceptLoop \subseteq Task /\ Hand \subseteq Task
  BY DEF Task
<1>2. CASE setAutoDispatch \/ setAutoAcceptOffer
  BY <1>2, SwitchSteps
<1>3. ASSUME NEW t \in DispatchLoop \cup AcceptLoop, LoopStep(t) PROVE PanelInv'
  BY <1>1, <1>3, WhileSteps, MatchStep, ManualStep, RespondSteps DEF LoopStep
<1>4. ASSUME NEW h \in Hand, Click(h) PROVE PanelInv'
  BY <1>1, <1>4, AssignStep, AnswerStep, CreateStep, SeedSteps DEF Click
<1>5. ASSUME NEW h \in Hand, HandStep(h) PROVE PanelInv'
  BY <1>1, <1>5, ManualStep, RespondSteps, SeedSteps, ListSteps DEF HandStep
<1>6. CASE \E t \in Task : Fail(t) \/ FailHalfway(t)
  BY <1>6, FailSteps
<1>7. CASE FetchData \/ (\E d \in owed : BackendDispatch(d)) \/ (\E c \in late : LateStep(c))
  BY <1>7, FetchStep, BackendStep, LateSteps
<1>8. CASE \E o \in DOMAIN offers : OfferExpires(o)
  BY <1>8, ExpireStep
<1>9. CASE \E r \in Rider : RiderDelivers(r)
  BY <1>9, RideStep
<1>10. CASE UNCHANGED panelVars
  <2>1. UNCHANGED <<tables, shown, task, late, rivals>>
    BY <1>10 DEF panelVars, tables
  <2> QED
    BY <2>1, TablesStay, StepBeside DEF PanelInv, PanelTypeOK, LateOK
<1> QED
  BY <1>2, <1>3, <1>4, <1>5, <1>6, <1>7, <1>8, <1>9, <1>10 DEF PanelNext

(* OneOfferEach of the panel: whatever the loops, the handlers, the seeds, *)
(* the expiry of offers and failures do in between, a rider whom no other  *)
(* sender and no call that was given up offers deliveries has one at most. *)
THEOREM OneOfferEachAlways == PanelSpec => []OneOfferEach
<1>1. PanelInv => OneOfferEach
  <2> SUFFICES ASSUME PanelInv, ~rivals, NEW r \in Rider PROVE Cardinality(Held(r)) <= 1
    BY DEF OneOfferEach
  <2>1. OneAtMost(r)
    BY DEF PanelInv
  <2>2. CASE Held(r) = {}
    BY <2>2, FS_EmptySet
  <2>3. CASE Held(r) # {}
    <3>1. PICK o : Held(r) = {o}
      BY <2>1, <2>3 DEF OneAtMost
    <3>2. Cardinality(Held(r)) = 1
      BY <3>1, FS_Singleton
    <3> QED
      BY <3>2
  <2> QED
    BY <2>2, <2>3
<1> QED
  BY <1>1, PanelStarts, PanelStep, PTL DEF PanelSpec
===============================================================================
