----------------------------- MODULE DemoScenario -----------------------------
(***************************************************************************)
(* The automatic demo of the SPA: the controls and the demo part of the    *)
(* store in each browser tab, the effect of App that starts a scenario,    *)
(* runAutoScenario with one action per awaited call, and what core-service *)
(* does to the offers, which all tabs share.                               *)
(*                                                                         *)
(* Of the calls of a scenario, seed and accept change the offers: they are *)
(* taken statement by statement, and go on in core-service when the        *)
(* scenario has given them up. Any other call is answered or fails; what   *)
(* the creation of a delivery sets going is that an offer may appear.      *)
(* progress and the activity feed only follow the step, and are left out.  *)
(***************************************************************************)
EXTENDS Naturals, FiniteSets, Sequences

CONSTANTS
  Tab,        \* browser tabs with the SPA open
  Run,        \* calls of runAutoScenario
  None,       \* no tab
  MaxResets,  \* bound on clicks on reset, in each tab
  MaxOffers   \* bound on offers

ASSUME NoneIsNoTab == None \notin Tab
ASSUME RunsAreFinite == IsFiniteSet(Run)
ASSUME BoundsAreNumbers == MaxResets \in Nat /\ MaxOffers \in Nat

VARIABLES
  demo,    \* demo[t]: scenario, step and isRunning in the store of tab t
  resets,  \* resets[t]: how often somebody has clicked reset in tab t
  owner,   \* owner[r]: the tab that run r belongs to
  pc,      \* pc[r]: the call that run r sends or waits for
  held,    \* held[r]: the offer run r took, 0 before
  job,     \* job[r]: what core-service does next of run r's seed or accept
  offers,  \* offers[o]: status of the offers, oldest first
  closing, \* offers whose lock a timeout check or another answer holds
  beside   \* history: <<r, s>> if s read its offer while r's save was under way

vars == <<demo, resets, owner, pc, held, job, offers, closing, beside>>
tab == <<demo, resets, owner>>
backend == <<job, offers, closing, beside>>

Scenario == {"auto", "manual"}
Step == {"idle", "seeding", "creating_delivery", "matching", "offer_sent",
         "offer_accepted", "picking_up", "delivering", "completed"}
Calls == {"seed", "seeding", "fetch", "create", "offers", "accept", "accepting",
          "pickup", "deliver", "refresh"}
Timers == {"match", "ride", "drive"}
OfferStatus == {"PENDING", "ACCEPTED", "EXPIRED", "deleted"}

initialDemoState == [scenario |-> "manual", step |-> "idle", isRunning |-> FALSE]

Active(r) == pc[r] \in Calls \cup Timers
Visible == {o \in DOMAIN offers : offers[o] # "deleted"}
Newest == CHOOSE o \in Visible : \A p \in Visible : p <= o

-------------------------------------------------------------------------------
(* Mutant: the effect does not look at the step.                           *)
MustStartAnyStep(d) == d.scenario = "auto" /\ d.isRunning

(* The effect of App, and of its rerun at each change of the demo state.   *)
MustStart(d) == d.scenario = "auto" /\ d.isRunning /\ d.step = "idle"

(* A control puts tab t into state d; the effect may then start a run,     *)
(* which sets the first step at once.                                      *)
Control(t, d) ==
  /\ \/ /\ ~MustStart(d)
        /\ demo' = [demo EXCEPT ![t] = d]
        /\ UNCHANGED <<owner, pc>>
     \/ \E r \in Run :
          /\ MustStart(d) /\ pc[r] = "unused"
          /\ demo' = [demo EXCEPT ![t] = [d EXCEPT !.step = "seeding"]]
          /\ owner' = [owner EXCEPT ![r] = t]
          /\ pc' = [pc EXCEPT ![r] = "seed"]
  /\ UNCHANGED <<held, backend>>

handleScenarioChange(t, s) ==
  Control(t, [demo[t] EXCEPT !.scenario = s]) /\ UNCHANGED resets

handlePlayPause(t) ==
  /\ demo[t].scenario = "auto"
  /\ Control(t, [demo[t] EXCEPT !.isRunning = ~@]) /\ UNCHANGED resets

resetDemo(t) ==
  /\ resets[t] < MaxResets
  /\ resets' = [resets EXCEPT ![t] = @ + 1]
  /\ Control(t, initialDemoState)

-------------------------------------------------------------------------------
(* runAutoScenario, from one await to the next.                            *)
Goto(r, l) == pc' = [pc EXCEPT ![r] = l]
SetStep(r, s) == demo' = [demo EXCEPT ![owner[r]].step = s] /\ UNCHANGED <<resets, owner>>

(* The end of a run, by the catch or without, through the finally clause.  *)
Leave(r) ==
  /\ Goto(r, "over")
  /\ demo' = [demo EXCEPT ![owner[r]].isRunning = FALSE]
  /\ UNCHANGED <<resets, owner, held>>

(* A call fails, or is given up: what core-service does of it goes on.     *)
CallFails(r) == pc[r] \in Calls /\ Leave(r) /\ UNCHANGED backend

(* seed and accept are sent.                                               *)
Send(r, call, awaited, first) ==
  /\ pc[r] = call /\ Goto(r, awaited)
  /\ job' = [job EXCEPT ![r] = first]
  /\ UNCHANGED <<tab, held, offers, closing, beside>>
Seed(r) == Send(r, "seed", "seeding", "delete")
Accept(r) == Send(r, "accept", "accepting", "lock")

(* Any other call is answered, and a delay passes.                         *)
Show(r, call, step, next) ==
  /\ pc[r] = call /\ Goto(r, next) /\ SetStep(r, step)
  /\ UNCHANGED <<held, backend>>
Fetch(r) == Show(r, "fetch", "creating_delivery", "create")
Match(r) == Show(r, "match", "matching", "offers")
Ride(r) == Show(r, "ride", "picking_up", "pickup")
Drive(r) == Show(r, "drive", "delivering", "deliver")
Deliver(r) == Show(r, "deliver", "completed", "refresh")

Pass(r, call, next) == pc[r] = call /\ Goto(r, next) /\ UNCHANGED <<tab, held, backend>>
Create(r) == Pass(r, "create", "match")
Pickup(r) == Pass(r, "pickup", "drive")

(* offersApi.getAll lists the newest offer first, and offers[0] is taken.  *)
GetOffers(r) ==
  /\ pc[r] = "offers"
  /\ \/ Visible = {} /\ Goto(r, "refresh") /\ UNCHANGED <<tab, held>>
     \/ /\ Visible # {} /\ Goto(r, "accept") /\ SetStep(r, "offer_sent")
        /\ held' = [held EXCEPT ![r] = Newest]
  /\ UNCHANGED backend

Refresh(r) == pc[r] = "refresh" /\ Leave(r) /\ UNCHANGED backend

RunStep(r) ==
  \/ CallFails(r) \/ Seed(r) \/ Fetch(r) \/ Create(r) \/ Match(r) \/ GetOffers(r)
  \/ Accept(r) \/ Ride(r) \/ Pickup(r) \/ Drive(r) \/ Deliver(r) \/ Refresh(r)

-------------------------------------------------------------------------------
(* core-service. A job's answer reaches the run unless it was given up.    *)
JobAt(r, step) == job' = [job EXCEPT ![r] = step]

Succeeds(r) ==
  /\ JobAt(r, "none")
  /\ \/ pc[r] = "seeding" /\ Goto(r, "fetch") /\ UNCHANGED <<tab, held>>
     \/ pc[r] = "accepting" /\ Goto(r, "ride") /\ SetStep(r, "offer_accepted") /\ UNCHANGED held
     \/ ~Active(r) /\ UNCHANGED <<tab, pc, held>>

Refused(r) ==
  /\ JobAt(r, "none")
  /\ \/ Active(r) /\ Leave(r)
     \/ ~Active(r) /\ UNCHANGED <<tab, pc, held>>

(* seedDemoData: DELETE offers, and the other statements, any of which may *)
(* fail.                                                                   *)
DeleteOffers(r) ==
  /\ job[r] = "delete" /\ JobAt(r, "fill")
  /\ offers' = [o \in DOMAIN offers |-> "deleted"]
  /\ UNCHANGED <<tab, pc, held, closing, beside>>
Fill(r) == job[r] = "fill" /\ Succeeds(r) /\ UNCHANGED <<offers, closing, beside>>

(* respond holds the lock of its offer from "read" until "landing".        *)
InLock(r) == job[r] \in {"read", "assign", "save"}

LockIsFree(o) == o \notin closing /\ \A s \in Run : InLock(s) => held[s] # o

AcquireLock(r) ==
  /\ job[r] = "lock" /\ LockIsFree(held[r]) /\ JobAt(r, "read")
  /\ UNCHANGED <<tab, pc, held, offers, closing, beside>>

(* Mutant: a closed offer is accepted once more.                           *)
ReadAnything(r) ==
  /\ job[r] = "read" /\ JobAt(r, "assign")
  /\ beside' = beside \cup {<<s, r>> : s \in {x \in Run : job[x] = "landing" /\ held[x] = held[r]}}
  /\ UNCHANGED <<tab, pc, held, offers, closing>>

(* findOne, and the check of the status.                                   *)
ReadOffer(r) ==
  /\ job[r] = "read" /\ offers[held[r]] = "PENDING" /\ JobAt(r, "assign")
  /\ beside' = beside \cup {<<s, r>> : s \in {x \in Run : job[x] = "landing" /\ held[x] = held[r]}}
  /\ UNCHANGED <<tab, pc, held, offers, closing>>

(* A late answer closes the offer, and is refused.                         *)
ExpireLate(r) ==
  /\ job[r] = "assign" /\ Refused(r)
  /\ offers' = [offers EXCEPT ![held[r]] = "EXPIRED"]
  /\ UNCHANGED <<closing, beside>>

(* setAssigned, setBusy and the notification.                              *)
AssignAndSetBusy(r) ==
  /\ job[r] = "assign" /\ JobAt(r, "save")
  /\ UNCHANGED <<tab, pc, held, offers, closing, beside>>

(* `finally' releases the lock while the save is under way; the save then  *)
(* overwrites what the offer is by now, or inserts a deleted one again.    *)
ReleaseLock(r) ==
  /\ job[r] = "save" /\ JobAt(r, "landing")
  /\ UNCHANGED <<tab, pc, held, offers, closing, beside>>
SaveAccepted(r) ==
  /\ job[r] \in {"save", "landing"} /\ Succeeds(r)
  /\ \/ offers' = [offers EXCEPT ![held[r]] = "ACCEPTED"]
     \/ offers[held[r]] = "deleted" /\ UNCHANGED offers
  /\ UNCHANGED <<closing, beside>>

(* 400, 404 and 409 end a job, and so does a statement that fails.         *)
JobFails(r) == job[r] # "none" /\ Refused(r) /\ UNCHANGED <<offers, closing, beside>>

JobStep(r) ==
  \/ DeleteOffers(r) \/ Fill(r) \/ AcquireLock(r) \/ ReadOffer(r) \/ ExpireLate(r)
  \/ AssignAndSetBusy(r) \/ ReleaseLock(r) \/ SaveAccepted(r) \/ JobFails(r)

-------------------------------------------------------------------------------
(* Outside the tabs: deliveries are dispatched, timeout checks and the     *)
(* apps of the riders close offers, under the lock.                        *)
Elsewhere == UNCHANGED <<tab, pc, held, job, beside>>

OfferAppears ==
  /\ Len(offers) < MaxOffers /\ offers' = Append(offers, "PENDING")
  /\ UNCHANGED closing /\ Elsewhere

FindOpen(o) ==
  /\ offers[o] = "PENDING" /\ LockIsFree(o)
  /\ closing' = closing \cup {o}
  /\ UNCHANGED offers /\ Elsewhere

CloseOffer(o) ==
  /\ o \in closing /\ closing' = closing \ {o}
  /\ \/ \E s \in {"ACCEPTED", "EXPIRED"} : offers' = [offers EXCEPT ![o] = s]
     \/ UNCHANGED offers
  /\ Elsewhere

Init ==
  /\ demo = [t \in Tab |-> initialDemoState] /\ resets = [t \in Tab |-> 0]
  /\ owner = [r \in Run |-> None] /\ pc = [r \in Run |-> "unused"]
  /\ held = [r \in Run |-> 0] /\ job = [r \in Run |-> "none"]
  /\ offers = <<>> /\ closing = {} /\ beside = {}

Next ==
  \/ \E t \in Tab : handlePlayPause(t) \/ resetDemo(t)
                    \/ \E s \in Scenario : handleScenarioChange(t, s)
  \/ \E r \in Run : RunStep(r) \/ JobStep(r)
  \/ OfferAppears
  \/ \E o \in DOMAIN offers : FindOpen(o) \/ CloseOffer(o)

Spec == Init /\ [][Next]_vars
-------------------------------------------------------------------------------
(* Pause, play and the choice of a scenario never start a second run in a  *)
(* tab while its first one is under way, at whatever step and whichever of *)
(* its calls fails: only reset does, which lets go of one run at most.     *)
OneScenario ==
  \A t \in Tab : Cardinality({r \in Run : Active(r) /\ owner[r] = t}) <= 1 + resets[t]

(* Tabs share the offers. Of the runs that took the same one two get past  *)
(* accept only if one read it while the save of the other was under way:   *)
(* the lock and the status leave no other way, whatever seeds, timeouts,   *)
(* other answers and calls that were given up do meanwhile.                *)
AcceptedByOne ==
  \A r, s \in Run :
    /\ {pc[r], pc[s]} \subseteq {"ride", "pickup", "drive", "deliver"}
    /\ held[r] = held[s]
    => r = s \/ <<r, s>> \in beside \/ <<s, r>> \in beside
===============================================================================
