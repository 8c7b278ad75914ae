------------------------------- MODULE DemoPanel -------------------------------
(***************************************************************************)
(* The automation switches and the buttons of QuickActions                 *)
(* (ControlPanel.tsx). Each switch starts an async loop that goes on as    *)
(* long as a ref says so, each button an async handler; all of them share  *)
(* the store of the SPA with the polling, and the backend with its own     *)
(* dispatch, the expiry of offers and the riders. What the backend does    *)
(* with a call is one step, except for an acceptance, whose save lands     *)
(* after its writes to delivery and rider, and for a seed; it goes on with *)
(* a call that was given up. The motion of riders is DemoMotion.           *)
(***************************************************************************)
EXTENDS FiniteSetsExt, Integers, Sequences

CONSTANTS
  MaxDeliveries, \* bound on the deliveries ordered or seeded
  MaxRiders,     \* bound on the riders seeded
  MaxOffers,     \* bound on the offers created
  DispatchLoop,  \* numbers of runAutoDispatch at work at once
  AcceptLoop,    \* numbers of runAutoAccept at work at once
  Hand,          \* numbers of the handlers of buttons at work at once
  MaxEvents      \* bound on clicks on switches and buttons and calls that fail

ASSUME TasksAreNumbered == DispatchLoop \cup AcceptLoop \cup Hand \subseteq Nat \ {0}
ASSUME HandsDiffer == DispatchLoop \cap Hand = {}
ASSUME RowsAreBounded == MaxDeliveries \in Nat /\ MaxRiders \in Nat /\ MaxOffers \in Nat
ASSUME EventsAreBounded == MaxEvents \in Nat

VARIABLES
  delivery,  \* status of each delivery in the tables, "none" before its row is
             \* there, CLOSED once it is delivered or deleted
  rider,     \* status of each rider in the tables, with "none" and CLOSED likewise
  offers,    \* the offers created, in the order of createdAt
  shown,     \* the store of the SPA: deliveries PENDING, riders AVAILABLE, any stores
  on,        \* the refs autoDispatchRef and autoAcceptRef
  task,      \* what each loop and handler waits for
  owed,      \* deliveries that the backend is about to dispatch by itself
  late,      \* calls that were given up, and that the backend has yet to do
  events,    \* clicks and failures so far
  rivals     \* history: a rider of one sender was offered by another one too

tables == <<delivery, rider, offers, owed>>
panelVars == <<delivery, rider, offers, owed, shown, on, task, late, events, rivals>>

(* Rows are numbered in the order of createdAt, in which lists begin with  *)
(* the newest.                                                             *)
Delivery == 1..MaxDeliveries
Rider == 1..MaxRiders
Nobody == 0

Task == DispatchLoop \cup AcceptLoop \cup Hand
Nothing == [does |-> "nothing"]
Check == [does |-> "check"]
RefreshThen(r) == [does |-> "refresh", busy |-> r]
Saving(o) == [does |-> "save", offer |-> o]

(* What a loop does after a call that failed, and a handler after its last.*)
Back(t) == IF t \in Hand THEN Nothing ELSE Check
Goes(t, step) == task' = [task EXCEPT ![t] = step]

Waiting == {d \in Delivery : delivery[d] = "PENDING"}
Free == {r \in Rider : rider[r] = "AVAILABLE"}
Seeded == \E r \in Rider : rider[r] # "none"

With(status) == {o \in DOMAIN offers : offers[o].status = status}
Held(r) == {o \in With("PENDING") : offers[o].rider = r}
Fresh(table) == {x \in DOMAIN table : table[x] = "none"}
Newest(n, table) == {x \in Fresh(table) : Cardinality({y \in Fresh(table) : y < x}) < n}
Gone(status) == IF status = "none" THEN "none" ELSE "CLOSED"

-------------------------------------------------------------------------------
(* The backend, a call at a time. OfferService.create looks at the         *)
(* delivery, the rider and the offers of the delivery, and not at other    *)
(* offers of the rider.                                                    *)
Offerable(d, r) ==
  /\ Len(offers) < MaxOffers
  /\ delivery[d] = "PENDING" /\ rider[r] = "AVAILABLE"
  /\ \A o \in With("PENDING") : offers[o].delivery # d

Insert(d, r) ==
  /\ Offerable(d, r)
  /\ offers' = Append(offers, [delivery |-> d, rider |-> r, status |-> "PENDING"])
  /\ UNCHANGED <<delivery, rider>>

(* History: the sender t offers r what somebody else offered him too, or   *)
(* is about to; a dispatch loop is to blame only for what others send, and *)
(* a call that it gave up is not its own any more.                         *)
Rivals(t, r) ==
  rivals' = \/ rivals
            \/ t \notin DispatchLoop /\ Held(r) # {}
            \/ \E l \in DispatchLoop \ {t} : task[l].does = "send" /\ task[l].rider = r

(* OfferService.respond. An offer that is open by its row may be under the *)
(* lock of an acceptance, or past it while the save is on its way. Offers  *)
(* rejected, expired or deleted are CLOSED here.                           *)
IsOpen(o) == offers[o].status = "PENDING"
UnderWay(o) == Saving(o) \in late \cup {task[t] : t \in Task}

(* An offer that is refused or runs out is followed by another dispatch.   *)
Closes(o) ==
  /\ offers' = [offers EXCEPT ![o].status = "CLOSED"]
  /\ owed' = owed \cup {offers[o].delivery}
  /\ UNCHANGED <<delivery, rider>>

setAssigned(o) == delivery' = [delivery EXCEPT ![offers[o].delivery] = "ASSIGNED"]
setBusy(o) == rider' = [rider EXCEPT ![offers[o].rider] = "BUSY"]
Assigns(o) == setAssigned(o) /\ setBusy(o) /\ UNCHANGED <<offers, owed>>

(* The save lands, and an expiry or a refusal that read the offer before   *)
(* may be written after it.                                                *)
SaveLands(o) ==
  /\ \E status \in {"ACCEPTED", "CLOSED"} : offers' = [offers EXCEPT ![o].status = status]
  /\ UNCHANGED <<delivery, rider, owed>>

(* DemoService.seedDemoData: the offers go, then, unless one has come      *)
(* since, the other rows, and riders come.                                 *)
DeleteOffers ==
  /\ offers' = [o \in DOMAIN offers |-> [offers[o] EXCEPT !.status = "CLOSED"]]
  /\ UNCHANGED <<delivery, rider, owed>>

OffersCame(seed) == \E o \in DOMAIN offers : o > seed.upto \/ offers[o].status # "CLOSED"
DeleteDeliveries == delivery' = [d \in Delivery |-> Gone(delivery[d])] /\ UNCHANGED <<offers, owed>>
NewRiders(n) == [r \in Rider |-> IF r \in Newest(n, rider) THEN "AVAILABLE" ELSE Gone(rider[r])]
FillRows(seed) ==
  /\ ~OffersCame(seed) /\ DeleteDeliveries
  /\ \E n \in Rider : rider' = NewRiders(n)

(* DemoService.seedBulkData: rows come beside those there are.             *)
SeedBulkData(n, k) ==
  /\ Newest(n, rider) # {}
  /\ rider' = [r \in Rider |-> IF r \in Newest(n, rider) THEN "AVAILABLE" ELSE rider[r]]
  /\ delivery' = [d \in Delivery |-> IF d \in Newest(k, delivery) THEN "PENDING" ELSE delivery[d]]
  /\ UNCHANGED <<offers, owed>>

-------------------------------------------------------------------------------
Begins(loops) ==
  LET idle == {t \in loops : task[t] = Nothing} IN idle # {} /\ Goes(Min(idle), Check)
Happens == events < MaxEvents /\ events' = events + 1

(* A click on a switch sets its ref, and a loop starts beside those that   *)
(* have not looked at the ref since it was last cleared.                   *)
setAutoDispatch ==
  /\ Happens /\ on' = [on EXCEPT !.dispatch = ~@]
  /\ \/ on.dispatch /\ UNCHANGED task
     \/ ~on.dispatch /\ Begins(DispatchLoop)
  /\ UNCHANGED <<tables, shown, late, rivals>>

setAutoAcceptOffer ==
  /\ Happens /\ on' = [on EXCEPT !.accept = ~@]
  /\ \/ on.accept /\ UNCHANGED task
     \/ ~on.accept /\ Begins(AcceptLoop)
  /\ UNCHANGED <<tables, shown, late, rivals>>

(* Mutant: the loop looks at the state of its render, which stays true.    *)
WhileEver(t) ==
  /\ t \in DispatchLoop /\ task[t] = Check
  /\ Goes(t, [does |-> "ask", waiting |-> shown.waiting, free |-> shown.free])
  /\ UNCHANGED <<tables, shown, on, late, events, rivals>>

(* while (autoDispatchRef.current): the store as it is before the call.    *)
WhileDispatch(t) ==
  /\ t \in DispatchLoop /\ task[t] = Check
  /\ Goes(t, IF on.dispatch THEN [does |-> "ask", waiting |-> shown.waiting, free |-> shown.free] ELSE Nothing)
  /\ UNCHANGED <<tables, shown, on, late, events, rivals>>

(* Mutant: riders with a pending offer are not left out.                   *)
MatchAnyRider(t) ==
  /\ task[t].does = "ask"
  /\ LET asked == {offers[o].delivery : o \in With("PENDING")}
         ds == task[t].waiting \ asked
         rs == task[t].free
     IN \/ (ds = {} \/ rs = {}) /\ Goes(t, Check)
        \/ /\ ds # {} /\ rs # {}
           /\ \E d \in ds : Goes(t, [does |-> "send", delivery |-> d, rider |-> Max(rs)])
  /\ UNCHANGED <<tables, shown, on, late, events, rivals>>

(* The offers of now against the store of then: a delivery without and a   *)
(* rider without a pending offer. The newest rider comes first; a delivery *)
(* just ordered stands last in the store, so any may be first.             *)
Match(t) ==
  /\ task[t].does = "ask"
  /\ LET ds == task[t].waiting \ {offers[o].delivery : o \in With("PENDING")}
         rs == task[t].free \ {offers[o].rider : o \in With("PENDING")}
     IN \/ (ds = {} \/ rs = {}) /\ Goes(t, Check)
        \/ /\ ds # {} /\ rs # {}
           /\ \E d \in ds : Goes(t, [does |-> "send", delivery |-> d, rider |-> Max(rs)])
  /\ UNCHANGED <<tables, shown, on, late, events, rivals>>

(* offersApi.createManual, of the loop and of a button: a 400, 404 or 409  *)
(* is passed over.                                                         *)
createManual(t) ==
  /\ task[t].does = "send"
  /\ LET d == task[t].delivery  r == task[t].rider
     IN \/ ~Offerable(d, r) /\ Goes(t, Back(t)) /\ UNCHANGED <<tables, rivals>>
        \/ /\ Insert(d, r) /\ Rivals(t, r) /\ UNCHANGED owed
           /\ Goes(t, IF t \in Hand THEN Nothing ELSE RefreshThen(Nobody))
  /\ UNCHANGED <<shown, on, late, events>>

(* while (autoAcceptRef.current), and getAll: the newest pending offer.    *)
WhileAccept(t) ==
  /\ t \in AcceptLoop /\ task[t] = Check
  /\ Goes(t, CASE ~on.accept -> Nothing
               [] on.accept /\ With("PENDING") = {} -> Check
               [] OTHER -> [does |-> "ACCEPTED", offer |-> Max(With("PENDING"))])
  /\ UNCHANGED <<tables, shown, on, late, events, rivals>>

(* Mutant: the loop ends with its first refused offer.                     *)
respondOnce(t) ==
  /\ task[t].does \in {"ACCEPTED", "CLOSED"}
  /\ LET o == task[t].offer
     IN \/ (~IsOpen(o) \/ UnderWay(o)) /\ Goes(t, Nothing) /\ UNCHANGED tables
        \/ IsOpen(o) /\ task[t].does = "ACCEPTED" /\ Assigns(o) /\ Goes(t, Saving(o))
        \/ IsOpen(o) /\ task[t].does = "CLOSED" /\ Closes(o) /\ Goes(t, Back(t))
  /\ UNCHANGED <<shown, on, late, events, rivals>>

(* offersApi.accept and reject, of the loop and of the two handlers: an    *)
(* offer that is not pending any more is a 400, one under a lock a 409.    *)
respond(t) ==
  /\ task[t].does \in {"ACCEPTED", "CLOSED"}
  /\ LET o == task[t].offer
     IN \/ (~IsOpen(o) \/ UnderWay(o)) /\ Goes(t, Back(t)) /\ UNCHANGED tables
        \/ IsOpen(o) /\ task[t].does = "ACCEPTED" /\ Assigns(o) /\ Goes(t, Saving(o))
        \/ IsOpen(o) /\ task[t].does = "CLOSED" /\ Closes(o) /\ Goes(t, Back(t))
  /\ UNCHANGED <<shown, on, late, events, rivals>>

SaveAccepted(t) ==
  /\ task[t].does = "save"
  /\ LET o == task[t].offer
     IN SaveLands(o) /\ Goes(t, IF t \in Hand THEN Nothing ELSE RefreshThen(offers[o].rider))
  /\ UNCHANGED <<shown, on, late, events, rivals>>

(* Both loops read the deliveries again; the accepting one then takes the  *)
(* rider of its offer for BUSY, whatever became of him.                    *)
Refresh(t) ==
  /\ task[t].does = "refresh" /\ Goes(t, Check)
  /\ shown' = [shown EXCEPT !.waiting = Waiting, !.free = @ \ {task[t].busy}]
  /\ UNCHANGED <<tables, on, late, events, rivals>>

-------------------------------------------------------------------------------
(* The buttons.                                                            *)
handleManualAssign(h) ==
  /\ task[h] = Nothing /\ Happens /\ shown.free # {}
  /\ \E d \in shown.waiting : Goes(h, [does |-> "send", delivery |-> d, rider |-> Max(shown.free)])
  /\ UNCHANGED <<tables, shown, on, late, rivals>>

handleAnswer(h, answer) ==
  /\ task[h] = Nothing /\ Happens /\ With("PENDING") # {}
  /\ Goes(h, [does |-> answer, offer |-> Max(With("PENDING"))])
  /\ UNCHANGED <<tables, shown, on, late, rivals>>

(* The answer is put behind the deliveries of the render in which the      *)
(* button was clicked, whatever the store has by then.                     *)
handleCreateDelivery(h) ==
  /\ task[h] = Nothing /\ Happens /\ shown.stores
  /\ \E d \in Newest(1, delivery) :
       /\ delivery' = [delivery EXCEPT ![d] = "PENDING"]
       /\ owed' = owed \cup {d}
       /\ Goes(h, [does |-> "show", waiting |-> shown.waiting \cup {d}])
  /\ UNCHANGED <<rider, offers, shown, on, late, rivals>>

ShowDelivery(h) ==
  /\ task[h].does = "show" /\ Goes(h, Nothing)
  /\ shown' = [shown EXCEPT !.waiting = task[h].waiting]
  /\ UNCHANGED <<tables, on, late, events, rivals>>

handleSeedData(h) ==
  /\ task[h] = Nothing /\ Happens /\ DeleteOffers
  /\ Goes(h, [does |-> "fill", upto |-> Len(offers)])
  /\ UNCHANGED <<shown, on, late, rivals>>

SeedDemoData(h) ==
  /\ task[h].does = "fill"
  /\ \/ FillRows(task[h]) /\ Goes(h, [does |-> "list", bulk |-> FALSE])
     \/ OffersCame(task[h]) /\ Goes(h, Nothing) /\ UNCHANGED tables
  /\ UNCHANGED <<shown, on, late, events, rivals>>

handleBulkSeed(h) ==
  /\ task[h] = Nothing /\ Happens /\ Goes(h, [does |-> "list", bulk |-> TRUE])
  /\ \E n \in Rider, k \in 0..MaxDeliveries : SeedBulkData(n, k)
  /\ UNCHANGED <<shown, on, late, rivals>>

(* After a seed the riders are read again, the deliveries only after bulk. *)
ListSeeded(h) ==
  /\ task[h].does = "list" /\ Goes(h, Nothing)
  /\ shown' = [waiting |-> IF task[h].bulk THEN Waiting ELSE shown.waiting, free |-> Free, stores |-> TRUE]
  /\ UNCHANGED <<tables, on, late, events, rivals>>

(* A call fails, or is given up: the handler ends, the loop waits and goes *)
(* on. What it did has been done, what is left of it the backend may do.   *)
Changing == {"send", "ACCEPTED", "CLOSED", "save", "fill"}
GivesUp(t) ==
  /\ Happens /\ Goes(t, Back(t))
  /\ UNCHANGED <<shown, on, rivals>>

Fail(t) ==
  /\ task[t] \notin {Nothing, Check} /\ GivesUp(t)
  /\ late' = IF task[t].does \in Changing THEN late \cup {task[t]} ELSE late
  /\ UNCHANGED tables

(* One of several statements fails: setBusy after setAssigned, or what     *)
(* follows a DELETE of the seed.                                           *)
FailHalfway(t) ==
  /\ GivesUp(t) /\ UNCHANGED late
  /\ \/ /\ task[t].does = "ACCEPTED" /\ IsOpen(task[t].offer)
        /\ setAssigned(task[t].offer) /\ UNCHANGED <<rider, offers, owed>>
     \/ /\ task[t].does = "fill" /\ ~OffersCame(task[t]) /\ DeleteDeliveries
        /\ \/ UNCHANGED rider
           \/ rider' = [r \in Rider |-> Gone(rider[r])]

(* The backend goes on with a call that was given up, or drops it.         *)
LateStep(c) ==
  /\ \/ /\ late' = late \ {c}
        /\ \/ UNCHANGED <<tables, rivals>>
           \/ /\ c.does = "send" /\ Insert(c.delivery, c.rider) /\ UNCHANGED owed
              /\ Rivals(Nobody, c.rider)
           \/ c.does = "CLOSED" /\ IsOpen(c.offer) /\ Closes(c.offer) /\ UNCHANGED rivals
           \/ c.does = "save" /\ SaveLands(c.offer) /\ UNCHANGED rivals
           \/ c.does = "fill" /\ FillRows(c) /\ UNCHANGED rivals
     \/ /\ c.does = "ACCEPTED" /\ IsOpen(c.offer) /\ Assigns(c.offer)
        /\ late' = (late \ {c}) \cup {Saving(c.offer)} /\ UNCHANGED rivals
  /\ UNCHANGED <<shown, on, task, events>>

-------------------------------------------------------------------------------
(* What goes on besides: polling, the dispatch of the backend, the expiry  *)
(* of offers, and riders who deliver what they accepted last.              *)
FetchData ==
  /\ shown' = [waiting |-> Waiting, free |-> Free, stores |-> Seeded]
  /\ UNCHANGED <<tables, on, task, late, events, rivals>>

BackendDispatch(d) ==
  /\ owed' = owed \ {d}
  /\ \E r \in Rider : Insert(d, r) /\ Rivals(Nobody, r)
  /\ UNCHANGED <<shown, on, task, late, events>>

OfferExpires(o) ==
  /\ IsOpen(o) /\ Closes(o)
  /\ UNCHANGED <<shown, on, task, late, events, rivals>>

RiderDelivers(r) ==
  /\ rider[r] = "BUSY"
  /\ LET accepted == {o \in With("ACCEPTED") : offers[o].rider = r}
         d == offers[Max(accepted)].delivery
     IN /\ accepted # {} /\ delivery[d] = "ASSIGNED"
        /\ delivery' = [delivery EXCEPT ![d] = "CLOSED"]
  /\ rider' = [rider EXCEPT ![r] = "AVAILABLE"]
  /\ UNCHANGED <<offers, owed, shown, on, task, late, events, rivals>>

(* The page is opened on the rows of an earlier seed, or on none.          *)
PanelInit ==
  /\ \E n \in 0..MaxRiders, k \in 0..MaxDeliveries :
       /\ n = 0 => k = 0
       /\ rider = [r \in Rider |-> IF r <= n THEN "AVAILABLE" ELSE "none"]
       /\ delivery = [d \in Delivery |-> IF d <= k THEN "PENDING" ELSE "none"]
  /\ offers = <<>> /\ owed = {} /\ shown = [waiting |-> {}, free |-> {}, stores |-> FALSE]
  /\ on = [dispatch |-> FALSE, accept |-> FALSE]
  /\ task = [t \in Task |-> Nothing] /\ late = {}
  /\ events = 0 /\ rivals = FALSE

LoopStep(t) ==
  \/ WhileDispatch(t) \/ Match(t) \/ createManual(t)
  \/ WhileAccept(t) \/ respond(t) \/ SaveAccepted(t) \/ Refresh(t)
HandStep(h) ==
  \/ createManual(h) \/ respond(h) \/ SaveAccepted(h)
  \/ ShowDelivery(h) \/ SeedDemoData(h) \/ ListSeeded(h)
Click(h) ==
  \/ handleManualAssign(h) \/ handleAnswer(h, "ACCEPTED") \/ handleAnswer(h, "CLOSED")
  \/ handleCreateDelivery(h) \/ handleSeedData(h) \/ handleBulkSeed(h)

PanelNext ==
  \/ setAutoDispatch \/ setAutoAcceptOffer
  \/ \E t \in DispatchLoop \cup AcceptLoop : LoopStep(t)
  \/ \E h \in Hand : Click(h) \/ HandStep(h)
  \/ \E t \in Task : Fail(t) \/ FailHalfway(t)
  \/ \E c \in late : LateStep(c)
  \/ FetchData
  \/ \E d \in owed : BackendDispatch(d)
  \/ \E o \in DOMAIN offers : OfferExpires(o)
  \/ \E r \in Rider : RiderDelivers(r)

PanelSpec == PanelInit /\ [][PanelNext]_panelVars

(* Calls are answered or fail, and end when they were given up, timers     *)
(* fire, polling goes on and riders ride. Nobody has to click, and no      *)
(* offer has to run out. A subscript is what each of these steps changes   *)
(* whenever it changes anything.                                           *)
PanelFairSpec ==
  /\ PanelSpec /\ WF_shown(FetchData)
  /\ \A t \in DispatchLoop \cup AcceptLoop : WF_task(LoopStep(t))
  /\ \A h \in Hand : WF_task(HandStep(h))
  /\ \A r \in Rider : WF_rider(RiderDelivers(r))
  /\ WF_late(\E c \in late : LateStep(c))

-------------------------------------------------------------------------------
(* A dispatch loop offers a rider one delivery at a time, although it      *)
(* reads the store before and the offers after a call, and acceptances,    *)
(* seeds, expiry and failures come between: a rider has two open offers    *)
(* only if another sender, or a call that was given up, made one of them.  *)
OneOfferEach == \A r \in Rider : rivals \/ Cardinality(Held(r)) <= 1

(* A switch that stays off ends every loop it ever started.                *)
LoopsEnd ==
  /\ <>[](~on.dispatch) => <>[](\A t \in DispatchLoop : task[t] = Nothing)
  /\ <>[](~on.accept) => <>[](\A t \in AcceptLoop : task[t] = Nothing)

(* A delivery that nobody brings yet, one that is left ASSIGNED when its   *)
(* offer is lost in the middle of an acceptance, and a seed that took the  *)
(* riders and failed.                                                      *)
Undispatched ==
  {d \in Delivery : delivery[d] = "PENDING"
     \/ (delivery[d] = "ASSIGNED" /\ \A o \in With("ACCEPTED") : offers[o].delivery # d)}
Stranded ==
  \E d \in Delivery : /\ delivery[d] = "ASSIGNED"
                      /\ \A o \in DOMAIN offers : offers[o].delivery = d => offers[o].status = "CLOSED"
Riderless == \A r \in Rider : rider[r] \in {"none", "CLOSED"}

(* With both switches left on every delivery gets a rider in the end, by   *)
(* an offer that is accepted, although what the loops see is old, calls    *)
(* fail halfway or take effect late and seeds take rows away, unless the   *)
(* offers run out, rivals leave a rider with an older delivery he will     *)
(* never bring, or a failure left nothing to go on with.                   *)
EverythingDispatched ==
  <>[](on.dispatch /\ on.accept) =>
    <>[](\/ Undispatched = {} \/ rivals \/ Stranded \/ Riderless
         \/ Len(offers) = MaxOffers /\ With("PENDING") = {})
===============================================================================
