-------------------------- MODULE DemoScenarioProofs --------------------------
(***************************************************************************)
(* Proofs about DemoScenario, for any number of tabs, runs, resets and     *)
(* offers. What a tab shows and what becomes of the offers are apart: each *)
(* has an inductive invariant of its own.                                  *)
(***************************************************************************)
EXTENDS DemoScenario, FiniteSetTheorems, WellFoundedInduction, TLAPS

USE DEF Goto, JobAt, SetStep, tab, backend

States == Calls \cup Timers \cup {"unused", "over"}
Jobs == {"none", "delete", "fill", "lock", "read", "assign", "save", "landing"}
Demo == [scenario : Scenario, step : Step, isRunning : BOOLEAN]

(* The runs under way in a tab: as many as it was reset, and one more once *)
(* it shows a step.                                                        *)
Going(t) == {r \in Run : Active(r) /\ owner[r] = t}

TabInv ==
  /\ demo \in [Tab -> Demo] /\ resets \in [Tab -> Nat]
  /\ owner \in [Run -> Tab \cup {None}] /\ pc \in [Run -> States]
  /\ \A r \in Run : pc[r] # "unused" => owner[r] \in Tab
  /\ \A t \in Tab :
       Cardinality(Going(t)) <= resets[t] + (IF demo[t].step = "idle" THEN 0 ELSE 1)

(* A respond that has read its offer open, or its run that got past it.    *)
Responding == {"lock", "read", "assign", "save", "landing"}
Past == {"ride", "pickup", "drive", "deliver"}
Took(r) == job[r] \in {"assign", "save", "landing"} \/ pc[r] \in Past

Placed(r) ==
  /\ pc[r] = "seeding" => job[r] \in {"delete", "fill"}
  /\ pc[r] = "accepting" => job[r] \in Responding
  /\ pc[r] \notin {"seeding", "accepting", "over"} => job[r] = "none"
  /\ job[r] \in Responding \/ pc[r] \in Past \cup {"accept"} => held[r] \in DOMAIN offers
  /\ pc[r] \in Past => offers[held[r]] # "PENDING"

AcceptInv ==
  /\ pc \in [Run -> States] /\ held \in [Run -> Nat] /\ job \in [Run -> Jobs]
  /\ offers \in Seq(OfferStatus)
  /\ \A r \in Run : Placed(r)
  /\ \A r, s \in Run : InLock(r) /\ InLock(s) /\ held[r] = held[s] => r = s
  /\ \A r, s \in Run : Took(r) /\ Took(s) /\ held[r] = held[s] =>
                       r = s \/ <<r, s>> \in beside \/ <<s, r>> \in beside

-------------------------------------------------------------------------------
(* The number of runs under way in a tab.                                  *)
LEMMA FewerGoing ==
  ASSUME NEW S \in SUBSET Run, NEW T \in SUBSET S
  PROVE  Cardinality(S) \in Nat /\ Cardinality(T) \in Nat /\ Cardinality(T) <= Cardinality(S)
  <1>1. IsFiniteSet(S) /\ IsFiniteSet(T)
    BY RunsAreFinite, FS_Subset
  <1> QED
    BY <1>1, FS_CardinalityType, FS_Subset

LEMMA OneMoreGoing ==
  ASSUME NEW S \in SUBSET Run, NEW r \in Run
  PROVE  Cardinality(S) \in Nat /\ Cardinality(S \cup {r}) <= Cardinality(S) + 1
  <1>1. IsFiniteSet(S) /\ Cardinality(S) \in Nat
    BY RunsAreFinite, FS_Subset, FS_CardinalityType
  <1>2. Cardinality(S \cup {r}) = IF r \in S THEN Cardinality(S) ELSE Cardinality(S) + 1
    BY <1>1, FS_AddElement
  <1> QED
    BY <1>1, <1>2

(* A run goes on, or ends: its tab shows a step as before.                 *)
LEMMA RunShows ==
  ASSUME TabInv, NEW r \in Run, Active(r),
         NEW l \in States \ {"unused"}, pc' = [pc EXCEPT ![r] = l],
         \/ UNCHANGED demo
         \/ \E s \in Step \ {"idle"} : demo' = [demo EXCEPT ![owner[r]].step = s]
         \/ demo' = [demo EXCEPT ![owner[r]].isRunning = FALSE],
         UNCHANGED <<owner, resets>>
  PROVE  TabInv'
  <1> USE DEF TabInv
  <1>1. pc[r] # "unused" /\ owner[r] \in Tab
    BY DEF Active, Calls, Timers
  <1>2. demo' \in [Tab -> Demo] /\ \A t \in Tab : demo[t].step # "idle" => demo'[t].step # "idle"
    <2>1. CASE UNCHANGED demo
      BY <2>1
    <2>2. CASE \E s \in Step \ {"idle"} : demo' = [demo EXCEPT ![owner[r]].step = s]
      <3>1. PICK s \in Step \ {"idle"} : demo' = [demo EXCEPT ![owner[r]].step = s]
        BY <2>2
      <3> DEFINE d == [demo[owner[r]] EXCEPT !.step = s]
      <3>2. d \in Demo /\ d.step # "idle"
        BY <1>1 DEF Demo
      <3>3. demo' = [demo EXCEPT ![owner[r]] = d]
        BY <3>1
      <3> HIDE DEF d
      <3> QED
        BY <1>1, <3>2, <3>3
    <2>3. CASE demo' = [demo EXCEPT ![owner[r]].isRunning = FALSE]
      <3> DEFINE d == [demo[owner[r]] EXCEPT !.isRunning = FALSE]
      <3>1. d \in Demo /\ d.step = demo[owner[r]].step
        <4>1. demo[owner[r]] \in Demo
          BY <1>1
        <4> QED
          BY <4>1 DEF Demo
      <3>2. demo' = [demo EXCEPT ![owner[r]] = d]
        BY <2>3
      <3> HIDE DEF d
      <3> QED
        BY <1>1, <3>1, <3>2
    <2> QED
      BY <2>1, <2>2, <2>3
  <1>3. pc' \in [Run -> States] /\ \A x \in Run : pc'[x] # "unused" => owner'[x] \in Tab
    BY <1>1
  <1>4. \A t \in Tab : Going(t)' \subseteq Going(t) /\ Going(t) \subseteq Run
    BY DEF Going, Active
  <1>5. ASSUME NEW t \in Tab
        PROVE  Cardinality(Going(t))' <= resets'[t] + (IF demo'[t].step = "idle" THEN 0 ELSE 1)
    <2>1. /\ Cardinality(Going(t)) \in Nat /\ Cardinality(Going(t)') \in Nat
          /\ Cardinality(Going(t)') <= Cardinality(Going(t))
      BY <1>4, FewerGoing
    <2>2. Cardinality(Going(t)) <= resets[t] + (IF demo[t].step = "idle" THEN 0 ELSE 1)
      OBVIOUS
    <2> HIDE DEF TabInv
    <2>3. resets[t] \in Nat
      BY DEF TabInv
    <2> QED
      BY <1>2, <2>1, <2>2, <2>3
  <1> QED
    BY <1>2, <1>3, <1>5

(* A control keeps the step and may start a run at "idle", or it is reset, *)
(* which never starts one.                                                 *)
LEMMA ControlShows ==
  ASSUME TabInv, NEW t \in Tab, NEW d \in Demo, Control(t, d),
         \/ d.step = demo[t].step /\ UNCHANGED resets
         \/ d = initialDemoState /\ resets' = [resets EXCEPT ![t] = @ + 1]
  PROVE  TabInv'
  <1> USE DEF TabInv
  <1>1. \A u \in Tab : /\ resets[u] \in Nat /\ resets'[u] \in Nat /\ resets[u] <= resets'[u]
                      /\ d.step # demo[t].step => resets'[t] = resets[t] + 1
    OBVIOUS
  <1>2. resets' \in [Tab -> Nat]
    OBVIOUS
  <1>3. CASE demo' = [demo EXCEPT ![t] = d] /\ UNCHANGED <<owner, pc>>
    <2>1. \A u \in Tab : Going(u)' = Going(u) /\ Cardinality(Going(u)) \in Nat
      BY <1>3, FewerGoing DEF Going, Active
    <2>2. ASSUME NEW u \in Tab
          PROVE  Cardinality(Going(u))' <= resets'[u] + (IF demo'[u].step = "idle" THEN 0 ELSE 1)
      BY <1>1, <1>3, <2>1
    <2> QED
      BY <1>2, <1>3, <2>2
  <1>4. ASSUME NEW r \in Run, MustStart(d), pc[r] = "unused",
               demo' = [demo EXCEPT ![t] = [d EXCEPT !.step = "seeding"]],
               owner' = [owner EXCEPT ![r] = t], pc' = [pc EXCEPT ![r] = "seed"]
        PROVE  TabInv'
    <2> DEFINE e == [d EXCEPT !.step = "seeding"]
    <2>1. e \in Demo /\ e.step = "seeding"
      BY DEF Demo, Step
    <2>2. demo' = [demo EXCEPT ![t] = e]
      BY <1>4
    <2> HIDE DEF e
    <2>3. UNCHANGED resets /\ demo[t].step = "idle"
      BY <1>4 DEF MustStart, initialDemoState
    <2>4. /\ demo' \in [Tab -> Demo] /\ pc' \in [Run -> States]
          /\ owner' \in [Run -> Tab \cup {None}]
          /\ \A x \in Run : pc'[x] # "unused" => owner'[x] \in Tab
      BY <1>4, <2>1, <2>2 DEF States, Calls
    <2>5. Going(t)' = Going(t) \cup {r} /\ \A u \in Tab \ {t} : Going(u)' = Going(u)
      BY <1>4 DEF Going, Active, Calls, Timers
    <2>6. ASSUME NEW u \in Tab
          PROVE  Cardinality(Going(u))' <= resets'[u] + (IF demo'[u].step = "idle" THEN 0 ELSE 1)
      <3>1. Going(u) \subseteq Run /\ Cardinality(Going(u)) \in Nat
            /\ Cardinality(Going(u)) <= resets[u] + (IF demo[u].step = "idle" THEN 0 ELSE 1)
        BY FewerGoing DEF Going
      <3>2. CASE u = t
        <4>1. /\ Cardinality(Going(t)') <= Cardinality(Going(t)) + 1
              /\ Cardinality(Going(t)') \in Nat
          BY <2>5, <3>1, <3>2, OneMoreGoing, FewerGoing
        <4>2. demo'[t].step # "idle"
          BY <2>1, <2>2
        <4> QED
          BY <1>1, <2>3, <3>1, <3>2, <4>1, <4>2
      <3>3. CASE u # t
        BY <1>1, <2>2, <2>3, <2>5, <3>1, <3>3
      <3> QED
        BY <3>2, <3>3
    <2> QED
      BY <1>2, <2>4, <2>6
  <1> QED
    BY <1>3, <1>4 DEF Control

(* Which call of its tab a step of core-service or of a run concerns.      *)
LEMMA TabKeeps ==
  ASSUME TabInv, [Next]_vars PROVE TabInv'
  <1> DEFINE Tabs == <<demo, resets, owner, pc>>
  <1>1. CASE UNCHANGED Tabs
    BY <1>1 DEF TabInv, Going, Active
  <1>2. ASSUME NEW t \in Tab, handlePlayPause(t) \/ resetDemo(t)
                               \/ \E s \in Scenario : handleScenarioChange(t, s)
        PROVE  TabInv'
    <2>1. demo[t] \in Demo
      BY DEF TabInv
    <2>2. CASE handlePlayPause(t)
      <3> DEFINE d == [demo[t] EXCEPT !.isRunning = ~@]
      <3>1. d \in Demo /\ d.step = demo[t].step
        BY <2>1 DEF Demo
      <3>2. Control(t, d) /\ UNCHANGED resets
        BY <2>2 DEF handlePlayPause
      <3> HIDE DEF d
      <3> QED
        BY <3>1, <3>2, ControlShows
    <2>3. CASE resetDemo(t)
      <3>1. initialDemoState \in Demo
        BY DEF initialDemoState, Demo, Scenario, Step
      <3> QED
        BY <2>3, <3>1, ControlShows DEF resetDemo
    <2>4. CASE \E s \in Scenario : handleScenarioChange(t, s)
      <3>1. PICK s \in Scenario : handleScenarioChange(t, s)
        BY <2>4
      <3> DEFINE d == [demo[t] EXCEPT !.scenario = s]
      <3>2. d \in Demo /\ d.step = demo[t].step
        BY <2>1 DEF Demo
      <3>3. Control(t, d) /\ UNCHANGED resets
        BY <3>1 DEF handleScenarioChange
      <3> HIDE DEF d
      <3> QED
        BY <3>2, <3>3, ControlShows
    <2> QED
      BY <1>2, <2>2, <2>3, <2>4
  <1>3. ASSUME NEW r \in Run, RunStep(r) \/ JobStep(r) PROVE TabInv'
    <2>1. ASSUME Leave(r), Active(r) PROVE TabInv'
      <3>1. "over" \in States \ {"unused"}
        BY DEF States
      <3> QED
        BY <2>1, <3>1, RunShows DEF Leave
    <2>2. ASSUME NEW l \in Calls \cup Timers, Goto(r, l), Active(r), UNCHANGED tab PROVE TabInv'
      BY <2>2, RunShows DEF States, Calls, Timers
    <2>3. ASSUME NEW l \in Calls \cup Timers, NEW s \in Step \ {"idle"}, Goto(r, l), Active(r),
                 SetStep(r, s)
          PROVE TabInv'
      BY <2>3, RunShows DEF States, Calls, Timers
    <2>4. ASSUME Refused(r) PROVE TabInv'
      BY <1>1, <2>1, <2>4 DEF Refused
    <2>5. ASSUME Succeeds(r) PROVE TabInv'
      <3>1. CASE pc[r] = "seeding" /\ Goto(r, "fetch") /\ UNCHANGED tab
        BY <2>2, <3>1 DEF Active, Calls
      <3>2. CASE pc[r] = "accepting" /\ Goto(r, "ride") /\ SetStep(r, "offer_accepted")
        BY <2>3, <3>2 DEF Active, Calls, Timers, Step
      <3> QED
        BY <1>1, <2>5, <3>1, <3>2 DEF Succeeds
    <2>6. CASE CallFails(r) \/ Refresh(r)
      BY <2>1, <2>6 DEF CallFails, Refresh, Active, Calls
    <2>7. CASE Seed(r) \/ Accept(r) \/ Create(r) \/ Pickup(r)
      BY <2>2, <2>7 DEF Seed, Accept, Create, Pickup, Send, Pass, Active, Calls, Timers
    <2>8. CASE Fetch(r) \/ Match(r) \/ Ride(r) \/ Drive(r) \/ Deliver(r)
      BY <2>3, <2>8 DEF Fetch, Match, Ride, Drive, Deliver, Show, Active, Calls, Timers, Step
    <2>9. CASE GetOffers(r)
      <3>1. CASE Goto(r, "refresh") /\ UNCHANGED tab
        BY <2>2, <2>9, <3>1 DEF GetOffers, Active, Calls
      <3>2. CASE Goto(r, "accept") /\ SetStep(r, "offer_sent")
        BY <2>3, <2>9, <3>2 DEF GetOffers, Active, Calls, Step
      <3> QED
        BY <2>9, <3>1, <3>2 DEF GetOffers
    <2>10. CASE JobStep(r)
      BY <1>1, <2>4, <2>5, <2>10 DEF JobStep, DeleteOffers, Fill, AcquireLock, ReadOffer, ExpireLate,
         AssignAndSetBusy, ReleaseLock, SaveAccepted, JobFails
    <2> QED
      BY <1>3, <2>6, <2>7, <2>8, <2>9, <2>10 DEF RunStep
  <1>4. CASE OfferAppears \/ \E o \in DOMAIN offers : FindOpen(o) \/ CloseOffer(o)
    BY <1>1, <1>4 DEF OfferAppears, FindOpen, CloseOffer, Elsewhere
  <1>5. CASE UNCHANGED vars
    BY <1>1, <1>5 DEF vars
  <1> QED
    BY <1>2, <1>3, <1>4, <1>5 DEF Next

(* Never more runs in a tab than resets let go of, and one.                *)
THEOREM OneScenarioAlways == Spec => []OneScenario
  <1>1. Init => TabInv
    <2> SUFFICES ASSUME Init PROVE TabInv
      OBVIOUS
    <2>1. \A t \in Tab : Going(t) = {}
      BY DEF Init, Going, Active, Calls, Timers
    <2>2. Cardinality({}) = 0
      BY FS_EmptySet
    <2>3. /\ demo \in [Tab -> Demo] /\ resets \in [Tab -> Nat]
          /\ owner \in [Run -> Tab \cup {None}] /\ pc \in [Run -> States]
          /\ \A r \in Run : pc[r] = "unused"
          /\ \A t \in Tab : demo[t].step = "idle" /\ resets[t] = 0
      BY DEF Init, initialDemoState, Demo, Scenario, Step, States
    <2>4. \A t \in Tab : Cardinality(Going(t)) <= resets[t] + (IF demo[t].step = "idle" THEN 0 ELSE 1)
      <3> SUFFICES ASSUME NEW t \in Tab
                   PROVE  Cardinality(Going(t)) <= resets[t] + (IF demo[t].step = "idle" THEN 0 ELSE 1)
        OBVIOUS
      <3>1. Cardinality(Going(t)) = 0
        BY <2>1, <2>2
      <3> QED
        BY <2>3, <3>1
    <2> QED
      BY <2>3, <2>4 DEF TabInv
  <1>2. TabInv /\ [Next]_vars => TabInv'
    BY TabKeeps
  <1>3. TabInv => OneScenario
    <2> SUFFICES ASSUME TabInv, NEW t \in Tab PROVE Cardinality(Going(t)) <= 1 + resets[t]
      BY DEF OneScenario, Going
    <2>1. Cardinality(Going(t)) \in Nat /\ resets[t] \in Nat
      BY FewerGoing DEF TabInv, Going
    <2>2. Cardinality(Going(t)) <= resets[t] + (IF demo[t].step = "idle" THEN 0 ELSE 1)
      BY DEF TabInv
    <2> QED
      BY <2>1, <2>2
  <1> QED
    BY <1>1, <1>2, <1>3, PTL DEF Spec

-------------------------------------------------------------------------------
(* The newest offer that can be seen is one of them.                       *)
LEMMA SomeGreatest ==
  ASSUME NEW n \in Nat, NEW S \in SUBSET (1..n), S # {}
  PROVE  \E x \in S : \A y \in S : y <= x
  <1> DEFINE T == {n - x : x \in S}
             less == OpToRel(<, Nat)
  <1>1. T \subseteq Nat /\ T # {}
    <2>1. \A x \in S : x \in Nat /\ x <= n /\ n - x \in Nat
      OBVIOUS
    <2> QED
      BY <2>1
  <1>2. PICK m \in T : \A k \in T : <<k, m>> \notin less
    <2>1. IsWellFoundedOn(less, Nat)
      BY NatLessThanWellFounded
    <2> HIDE DEF T, less
    <2> QED
      BY <1>1, <2>1, WFMin
  <1>3. \A k \in T : ~(k < m)
    BY <1>1, <1>2 DEF OpToRel
  <1>4. PICK x \in S : m = n - x
    BY <1>2
  <1>5. \A y \in S : ~(n - y < n - x)
    BY <1>3, <1>4
  <1>6. \A y \in S : y \in Int /\ x \in Int
    OBVIOUS
  <1> QED
    BY <1>5, <1>6

(* The newest offer a run can take is one of the list.                     *)
LEMMA NewestIsListed ==
  ASSUME offers \in Seq(OfferStatus), Visible # {} PROVE Newest \in DOMAIN offers
  <1>1. Len(offers) \in Nat /\ Visible \subseteq 1..Len(offers)
    BY DEF Visible
  <1>2. \E x \in Visible : \A y \in Visible : y <= x
    BY <1>1, SomeGreatest
  <1>3. Newest \in Visible
    BY <1>2 DEF Newest
  <1> QED
    BY <1>3 DEF Visible

(* What a step must spare: it takes no lock, reads no offer, and leaves    *)
(* the offers that runs got past accept with as closed as they were.       *)
LEMMA AcceptStays ==
  ASSUME AcceptInv,
         pc' \in [Run -> States], held' \in [Run -> Nat], job' \in [Run -> Jobs],
         offers' \in Seq(OfferStatus), \A r \in Run : Placed(r)',
         \A r \in Run : (InLock(r)' => InLock(r) /\ held'[r] = held[r])
                       /\ (Took(r)' => Took(r) /\ held'[r] = held[r]),
         beside \subseteq beside'
  PROVE  AcceptInv'
  BY DEF AcceptInv

(* No offer is open again once it was closed.                              *)
LEMMA StaysClosed ==
  ASSUME AcceptInv, NEW o \in DOMAIN offers, NEW s \in OfferStatus \ {"PENDING"},
         offers' = [offers EXCEPT ![o] = s]
  PROVE  /\ offers' \in Seq(OfferStatus) /\ DOMAIN offers' = DOMAIN offers
         /\ \A p \in DOMAIN offers : offers[p] # "PENDING" => offers'[p] # "PENDING"
         /\ offers'[o] = s
  BY DEF AcceptInv

LEMMA ControlSpares ==
  ASSUME AcceptInv, NEW t \in Tab, NEW d, Control(t, d) PROVE AcceptInv'
  <1>1. CASE UNCHANGED pc
    BY <1>1 DEF Control, AcceptInv, Placed, InLock, Took
  <1>2. ASSUME NEW r \in Run, pc[r] = "unused", pc' = [pc EXCEPT ![r] = "seed"] PROVE AcceptInv'
    <2>1. UNCHANGED <<held, job, offers, beside>>
      BY DEF Control
    <2>2. \A x \in Run : Placed(x)' /\ (InLock(x)' => InLock(x)) /\ (Took(x)' => Took(x))
      BY <1>2, <2>1 DEF AcceptInv, Placed, InLock, Took, Past
    <2>3. pc' \in [Run -> States] /\ held \in [Run -> Nat] /\ job \in [Run -> Jobs]
          /\ offers \in Seq(OfferStatus)
      BY <1>2 DEF AcceptInv, States, Calls
    <2> QED
      BY <2>1, <2>2, <2>3, AcceptStays
  <1> QED
    BY <1>1, <1>2 DEF Control

(* A step of a run: it gets past accept by an answer only, takes an offer  *)
(* before it sends one, and its two jobs start with its calls.             *)
LEMMA RunSpares ==
  ASSUME AcceptInv, NEW r \in Run, RunStep(r) PROVE AcceptInv'
  <1> USE DEF AcceptInv
  <1>1. ASSUME NEW l \in States \ {"unused", "seeding", "accepting", "accept"}, Goto(r, l),
               pc[r] \notin {"seeding", "accepting", "over"} \/ l = "over",
               l \in Past => pc[r] \in Past,
               UNCHANGED <<held, backend>>
        PROVE  AcceptInv'
    <2>1. pc' \in [Run -> States] /\ \A x \in Run \ {r} : pc'[x] = pc[x]
      BY <1>1
    <2>2. \A x \in Run : Placed(x)' /\ (InLock(x)' => InLock(x)) /\ (Took(x)' => Took(x))
      BY <1>1, <2>1 DEF Placed, InLock, Took, Past
    <2> QED
      BY <1>1, <2>1, <2>2, AcceptStays
  <1>2. ASSUME Leave(r), UNCHANGED backend PROVE AcceptInv'
    BY <1>1, <1>2 DEF Leave, States, Past
  <1>3. CASE CallFails(r) \/ Refresh(r)
    BY <1>2, <1>3 DEF CallFails, Refresh
  <1>4. CASE Fetch(r) \/ Match(r) \/ Ride(r) \/ Drive(r) \/ Deliver(r)
    BY <1>1, <1>4 DEF Fetch, Match, Ride, Drive, Deliver, Show, Past, States, Calls, Timers
  <1>5. CASE Create(r) \/ Pickup(r)
    BY <1>1, <1>5 DEF Create, Pickup, Pass, Past, States, Calls, Timers
  <1>6. CASE GetOffers(r)
    <2>1. CASE Goto(r, "refresh") /\ UNCHANGED held
      BY <1>1, <1>6, <2>1 DEF GetOffers, Past, States, Calls
    <2>2. CASE Visible # {} /\ Goto(r, "accept") /\ held' = [held EXCEPT ![r] = Newest]
      <3>1. Newest \in DOMAIN offers /\ Newest \in Nat /\ UNCHANGED backend
        BY <1>6, <2>2, NewestIsListed DEF GetOffers
      <3>2. /\ pc' \in [Run -> States] /\ held' \in [Run -> Nat]
            /\ \A x \in Run \ {r} : pc'[x] = pc[x] /\ held'[x] = held[x]
            /\ pc'[r] = "accept" /\ held'[r] = Newest
        BY <2>2, <3>1 DEF States, Calls
      <3>3. job[r] = "none" /\ pc[r] \notin Past
        BY <1>6 DEF GetOffers, Placed, Past
      <3>4. \A x \in Run : Placed(x)'
        BY <3>1, <3>2, <3>3 DEF Placed, Past, Responding
      <3>5. \A x \in Run : (InLock(x)' => InLock(x) /\ held'[x] = held[x])
                          /\ (Took(x)' => Took(x) /\ held'[x] = held[x])
        BY <3>1, <3>2, <3>3 DEF InLock, Took, Past
      <3> QED
        BY <3>1, <3>2, <3>4, <3>5, AcceptStays
    <2> QED
      BY <1>6, <2>1, <2>2 DEF GetOffers
  <1>7. CASE Seed(r) \/ Accept(r)
    <2>1. PICK f \in {"delete", "lock"} :
             /\ job' = [job EXCEPT ![r] = f] /\ UNCHANGED <<held, offers, beside>>
             /\ \/ f = "delete" /\ pc[r] = "seed" /\ pc' = [pc EXCEPT ![r] = "seeding"]
                \/ f = "lock" /\ pc[r] = "accept" /\ pc' = [pc EXCEPT ![r] = "accepting"]
      BY <1>7 DEF Seed, Accept, Send
    <2>2. /\ pc' \in [Run -> States] /\ job' \in [Run -> Jobs]
          /\ \A x \in Run \ {r} : pc'[x] = pc[x] /\ job'[x] = job[x]
      BY <2>1 DEF States, Calls, Jobs
    <2>3. \A x \in Run : Placed(x)' /\ (InLock(x)' => InLock(x)) /\ (Took(x)' => Took(x))
      BY <2>1, <2>2 DEF Placed, InLock, Took, Past, Responding
    <2> QED
      BY <2>1, <2>2, <2>3, AcceptStays
  <1> QED
    BY <1>3, <1>4, <1>5, <1>6, <1>7 DEF RunStep

(* A step of core-service for a run. The status and the lock let a respond *)
(* read its offer open only where nobody else got past accept with it, or  *)
(* holds its lock: what is left is a save that has yet to land.            *)
LEMMA JobSpares ==
  ASSUME AcceptInv, NEW r \in Run, JobStep(r) PROVE AcceptInv'
  <1> USE DEF AcceptInv
  <1>1. held' = held /\ Placed(r)
    BY DEF JobStep, DeleteOffers, Fill, AcquireLock, ReadOffer, ExpireLate, AssignAndSetBusy,
       ReleaseLock, SaveAccepted, JobFails, Succeeds, Refused, Leave
  (* The job is over, and the run, if it still waits, goes on or ends.     *)
  <1>2. ASSUME Refused(r) \/ Succeeds(r), UNCHANGED beside,
               offers' \in Seq(OfferStatus), DOMAIN offers' = DOMAIN offers,
               \A p \in DOMAIN offers : offers[p] # "PENDING" => offers'[p] # "PENDING",
               Succeeds(r) /\ pc[r] = "accepting" =>
                 job[r] \in {"save", "landing"} /\ offers'[held[r]] # "PENDING"
        PROVE  AcceptInv'
    <2>1. /\ job' \in [Run -> Jobs] /\ \A x \in Run \ {r} : job'[x] = job[x]
          /\ job'[r] = "none"
      BY <1>2 DEF Refused, Succeeds, Jobs
    <2>2. /\ \A x \in Run \ {r} : pc'[x] = pc[x]
          /\ pc' \in [Run -> States]
          /\ \/ pc'[r] = "over"
             \/ pc[r] = "seeding" /\ pc'[r] = "fetch"
             \/ Succeeds(r) /\ pc[r] = "accepting" /\ pc'[r] = "ride"
             \/ ~Active(r) /\ pc'[r] = pc[r]
      BY <1>2 DEF Refused, Succeeds, Leave, States, Calls, Timers
    <2>3. \A x \in Run : Placed(x) /\ (x # r => Placed(x)')
      BY <1>1, <1>2, <2>1, <2>2 DEF Placed
    <2>4. Placed(r)'
      BY <1>1, <1>2, <2>1, <2>2 DEF Placed, Active, Calls, Timers, Past, Responding
    <2>5. \A x \in Run : (InLock(x)' => InLock(x)) /\ (Took(x)' => Took(x))
      BY <1>1, <1>2, <2>1, <2>2 DEF InLock, Took, Past, Active, Calls, Timers
    <2> QED
      BY <1>1, <1>2, <2>1, <2>2, <2>3, <2>4, <2>5, AcceptStays
  (* The job goes on.                                                      *)
  <1>3. ASSUME NEW f \in Jobs \ {"none"}, JobAt(r, f), UNCHANGED pc,
               \/ job[r] = "delete" /\ f = "fill"
               \/ job[r] \in Responding /\ f \in Responding,
               offers' \in Seq(OfferStatus), DOMAIN offers' = DOMAIN offers,
               \A p \in DOMAIN offers : offers[p] # "PENDING" => offers'[p] # "PENDING"
        PROVE  /\ job' \in [Run -> Jobs] /\ \A x \in Run \ {r} : job'[x] = job[x]
               /\ job'[r] = f /\ \A x \in Run : Placed(x)'
    <2>1. job' \in [Run -> Jobs] /\ job'[r] = f /\ \A x \in Run \ {r} : job'[x] = job[x]
      BY <1>3
    <2>2. \A x \in Run : Placed(x)'
      BY <1>1, <1>3, <2>1 DEF Placed, Responding
    <2> QED
      BY <2>1, <2>2
  <1>4. CASE DeleteOffers(r)
    <2>1. /\ offers' \in Seq(OfferStatus) /\ DOMAIN offers' = DOMAIN offers
          /\ \A p \in DOMAIN offers : offers'[p] = "deleted"
      BY <1>4 DEF DeleteOffers, OfferStatus
    <2>2. UNCHANGED <<pc, beside>> /\ JobAt(r, "fill") /\ job[r] = "delete"
      BY <1>4 DEF DeleteOffers
    <2>3. /\ job' \in [Run -> Jobs] /\ \A x \in Run \ {r} : job'[x] = job[x]
          /\ job'[r] = "fill" /\ \A x \in Run : Placed(x)'
      BY <1>3, <2>1, <2>2 DEF Jobs
    <2>4. \A x \in Run : (InLock(x)' => InLock(x)) /\ (Took(x)' => Took(x))
      BY <2>2, <2>3 DEF InLock, Took
    <2> QED
      BY <1>1, <2>1, <2>2, <2>3, <2>4, AcceptStays
  <1>5. CASE Fill(r)
    <2>1. job[r] = "fill" /\ pc[r] # "accepting"
      BY <1>1, <1>5 DEF Fill, Placed, Responding
    <2> QED
      BY <1>2, <1>5, <2>1 DEF Fill
  <1>6. CASE AcquireLock(r)
    <2>1. UNCHANGED <<pc, offers, beside>> /\ JobAt(r, "read") /\ job[r] = "lock" /\ LockIsFree(held[r])
      BY <1>6 DEF AcquireLock
    <2>2. /\ job' \in [Run -> Jobs] /\ \A x \in Run \ {r} : job'[x] = job[x]
          /\ job'[r] = "read" /\ \A x \in Run : Placed(x)'
      BY <1>3, <2>1 DEF Jobs, Responding
    <2>3. \A x, y \in Run : InLock(x)' /\ InLock(y)' /\ held'[x] = held'[y] => x = y
      BY <1>1, <2>1, <2>2 DEF InLock, LockIsFree
    <2>4. \A x \in Run : Took(x)' => Took(x)
      BY <2>1, <2>2 DEF Took
    <2> QED
      BY <1>1, <2>1, <2>2, <2>3, <2>4
  <1>7. CASE ReadOffer(r)
    <2>1. /\ UNCHANGED <<pc, offers>> /\ JobAt(r, "assign") /\ job[r] = "read"
          /\ offers[held[r]] = "PENDING" /\ beside \subseteq beside'
          /\ \A s \in Run : job[s] = "landing" /\ held[s] = held[r] => <<s, r>> \in beside'
      BY <1>7 DEF ReadOffer
    <2>2. /\ job' \in [Run -> Jobs] /\ \A x \in Run \ {r} : job'[x] = job[x]
          /\ job'[r] = "assign" /\ \A x \in Run : Placed(x)'
      BY <1>3, <2>1 DEF Jobs, Responding
    <2>3. \A x \in Run : InLock(x)' => InLock(x)
      BY <2>1, <2>2 DEF InLock
    <2>4. \A s \in Run : s # r /\ Took(s) /\ held[s] = held[r] => <<s, r>> \in beside'
      <3> SUFFICES ASSUME NEW s \in Run, s # r, Took(s), held[s] = held[r]
                   PROVE  <<s, r>> \in beside'
        OBVIOUS
      <3>1. pc[s] \notin Past
        BY <2>1 DEF Placed
      <3>2. ~InLock(s)
        BY <2>1 DEF InLock
      <3> QED
        BY <2>1, <3>1, <3>2 DEF Took, InLock
    <2>5. \A x \in Run \ {r} : Took(x)' => Took(x)
      BY <2>1, <2>2 DEF Took
    <2>6. \A x, y \in Run : Took(x)' /\ Took(y)' /\ held'[x] = held'[y] =>
                            x = y \/ <<x, y>> \in beside' \/ <<y, x>> \in beside'
      BY <1>1, <2>1, <2>4, <2>5
    <2> QED
      BY <1>1, <2>1, <2>2, <2>3, <2>6
  <1>8. CASE ExpireLate(r)
    <2>1. job[r] = "assign" /\ held[r] \in DOMAIN offers /\ Refused(r) /\ UNCHANGED beside
          /\ offers' = [offers EXCEPT ![held[r]] = "EXPIRED"]
      BY <1>1, <1>8 DEF ExpireLate, Placed, Responding
    <2>2. Succeeds(r) => pc[r] # "accepting"
      BY <2>1 DEF Refused, Succeeds, Leave, Active, Calls
    <2> QED
      BY <1>2, <2>1, <2>2, StaysClosed DEF OfferStatus
  <1>9. CASE AssignAndSetBusy(r) \/ ReleaseLock(r)
    <2>1. PICK f \in {"save", "landing"} : UNCHANGED <<pc, offers, beside>> /\ JobAt(r, f)
             /\ job[r] \in {"assign", "save"}
      BY <1>9 DEF AssignAndSetBusy, ReleaseLock
    <2>2. /\ job' \in [Run -> Jobs] /\ \A x \in Run \ {r} : job'[x] = job[x]
          /\ job'[r] = f /\ \A x \in Run : Placed(x)'
      BY <1>3, <2>1 DEF Jobs, Responding
    <2>3. \A x \in Run : (InLock(x)' => InLock(x)) /\ (Took(x)' => Took(x))
      BY <2>1, <2>2 DEF InLock, Took
    <2> QED
      BY <1>1, <2>1, <2>2, <2>3, AcceptStays
  <1>10. CASE SaveAccepted(r)
    <2>1. job[r] \in {"save", "landing"} /\ held[r] \in DOMAIN offers /\ Succeeds(r)
          /\ UNCHANGED beside
      BY <1>1, <1>10 DEF SaveAccepted, Placed, Responding
    <2>2. CASE offers' = [offers EXCEPT ![held[r]] = "ACCEPTED"]
      BY <1>2, <2>1, <2>2, StaysClosed DEF OfferStatus
    <2>3. CASE offers[held[r]] = "deleted" /\ UNCHANGED offers
      BY <1>2, <2>1, <2>3
    <2> QED
      BY <1>10, <2>2, <2>3 DEF SaveAccepted
  <1>11. CASE JobFails(r)
    <2>1. Refused(r) /\ UNCHANGED <<offers, beside>>
      BY <1>11 DEF JobFails
    <2>2. Succeeds(r) => pc[r] # "accepting"
      BY <2>1 DEF Refused, Succeeds, Leave, Active, Calls
    <2> QED
      BY <1>2, <2>1, <2>2
  <1> QED
    BY <1>4, <1>5, <1>6, <1>7, <1>8, <1>9, <1>10, <1>11 DEF JobStep

LEMMA OutsideSpares ==
  ASSUME AcceptInv, OfferAppears \/ \E o \in DOMAIN offers : FindOpen(o) \/ CloseOffer(o)
  PROVE  AcceptInv'
  <1> USE DEF AcceptInv
  <1>1. UNCHANGED <<pc, held, job, beside>>
    BY DEF OfferAppears, FindOpen, CloseOffer, Elsewhere
  <1>2. /\ offers' \in Seq(OfferStatus) /\ DOMAIN offers \subseteq DOMAIN offers'
        /\ \A p \in DOMAIN offers : offers[p] # "PENDING" => offers'[p] # "PENDING"
    <2>1. CASE OfferAppears
      BY <2>1 DEF OfferAppears, OfferStatus
    <2>2. CASE UNCHANGED offers
      BY <2>2
    <2>3. ASSUME NEW o \in DOMAIN offers, NEW s \in {"ACCEPTED", "EXPIRED"},
                 offers' = [offers EXCEPT ![o] = s]
          PROVE  /\ offers' \in Seq(OfferStatus) /\ DOMAIN offers \subseteq DOMAIN offers'
                 /\ \A p \in DOMAIN offers : offers[p] # "PENDING" => offers'[p] # "PENDING"
      BY <2>3, StaysClosed DEF OfferStatus
    <2> QED
      BY <2>1, <2>2, <2>3 DEF FindOpen, CloseOffer
  <1>3. \A r \in Run : Placed(r)' /\ (InLock(r)' => InLock(r)) /\ (Took(r)' => Took(r))
    BY <1>1, <1>2 DEF Placed, InLock, Took
  <1> QED
    BY <1>1, <1>2, <1>3, AcceptStays

(* Two runs past accept with one offer: the save of one was under way when *)
(* the other read it.                                                      *)
THEOREM AcceptedByOneAlways == Spec => []AcceptedByOne
  <1>1. Init => AcceptInv
    BY DEF Init, AcceptInv, Placed, InLock, Took, States, Jobs, Responding, Past
  <1>2. AcceptInv /\ [Next]_vars => AcceptInv'
    <2> SUFFICES ASSUME AcceptInv, [Next]_vars PROVE AcceptInv'
      OBVIOUS
    <2>1. ASSUME NEW t \in Tab, handlePlayPause(t) \/ resetDemo(t)
                                 \/ \E s \in Scenario : handleScenarioChange(t, s)
          PROVE  AcceptInv'
      BY <2>1, ControlSpares DEF handlePlayPause, resetDemo, handleScenarioChange
    <2>2. CASE UNCHANGED vars
      BY <2>2 DEF vars, AcceptInv, Placed, InLock, Took
    <2> QED
      BY <2>1, <2>2, RunSpares, JobSpares, OutsideSpares DEF Next
  <1>3. AcceptInv => AcceptedByOne
    BY DEF AcceptInv, AcceptedByOne, Took, Past
  <1> QED
    BY <1>1, <1>2, <1>3, PTL DEF Spec
===============================================================================
