------------------------------- MODULE DemoData -------------------------------
(***************************************************************************)
(* DemoService seeds, bulk-seeds and resets the demo data, one statement   *)
(* per step and in no transaction, while RiderService (RiderStatus, whose  *)
(* actions this module takes over) and StoreService change rows and orders *)
(* and offers come in. The tables enforce what the schema says: a phone is *)
(* unique, a delivery needs its store, an offer its delivery and rider.    *)
(* Only the tables are reset: the Redis keys of riders stay.               *)
(***************************************************************************)
EXTENDS RiderStatus, FiniteSets

CONSTANTS
  DemoCall,   \* calls of POST /demo/seed, /demo/seed/bulk and /demo/reset
  DemoStore,  \* DEMO_STORES
  DemoRider,  \* DEMO_RIDERS: their phones
  BulkPhone,  \* the random phones of a bulk seed's rider
  Editor,     \* calls of PATCH and DELETE /stores/:id
  MaxCalls,   \* bound on calls of RiderService and StoreService
  Order       \* deliveries that customers order

ASSUME CallsAreCounted == MaxCalls \in Nat
ASSUME PhonesOfDemo == DemoRider \cup BulkPhone \subseteq Phone
ASSUME BulkIsNoStore == "bulk" \notin DemoStore
ASSUME CallersDiffer == DemoCall \cap Editor = {}
ASSUME DemoIsFinite == IsFiniteSet(DemoStore) /\ IsFiniteSet(DemoRider)
ASSUME DemoHasRows == DemoStore # {} /\ DemoRider # {}

VARIABLES
  stores,      \* the table stores: rows [by, name]
  deliveries,  \* the table deliveries: rows [id, store]
  offers,      \* the table offers: rows [delivery, rider]
  origin,      \* origin[r]: the demo call and phone that r was inserted with
  call,        \* call[c]: what demo call c does, and whether others disturb it
  edit,        \* edit[e]: the store that editor e read, as it will be saved
  asked,       \* calls of RiderService and StoreService so far
  deleted,     \* riders that a reset deleted
  meddled      \* a demo row's phone was changed, or a deleted row came back

tables == <<row, stores, deliveries, offers>>
dataVars == <<vars, stores, deliveries, offers, origin, call, edit, asked, deleted, meddled>>

(* A store and a rider of the demo data are named by the call that         *)
(* inserted them and by their place in its list, whatever becomes of them. *)
StoreRow == [by : DemoCall \cup Editor, name : DemoStore \cup {"bulk"}]
DeliveryRow == [id : Order \cup DemoCall, store : StoreRow]
OfferRow == [delivery : DeliveryRow, rider : Rider]
Origin == [by : DemoCall, name : DemoRider \cup BulkPhone]

ASSUME NoneIsNoRow == None \notin DemoCall \cup StoreRow \cup Origin

Kind == {"seed", "bulk", "reset"}
Born(r) == origin[r] # None \/ Stored(r) \/ Busy(r) \/ r \in deleted

Is(c, step) == call[c].at = step
Running(c) == call[c].at \notin {"idle", "done", "rejected"}

(* The tables changed under the other calls; by is None for a customer.    *)
Upset(by) == [c \in DemoCall |->
  IF c # by /\ Running(c) THEN [call[c] EXCEPT !.upset = TRUE] ELSE call[c]]
Goes(c, step) == call' = [Upset(c) EXCEPT ![c].at = step]
Ends(c, step, reply) ==
  call' = [Upset(c) EXCEPT ![c].at = step, ![c].reply = IF @ = "none" THEN reply ELSE @]

(* A statement the foreign keys refuse changes nothing, and ends its call. *)
Rejected(c) ==
  /\ call' = [call EXCEPT ![c].at = "rejected", ![c].reply = "failed"]
  /\ UNCHANGED tables /\ UNCHANGED <<origin, deleted>>

demoKeeps == UNCHANGED <<redis, pc, loc, disturbed, faults, edit, asked, meddled>>

-------------------------------------------------------------------------------
(* resetDemoData and seedDemoData, which begins with it                    *)

Start(c, kind) ==
  /\ Is(c, "idle")
  /\ call' = [call EXCEPT ![c].kind = kind,
                          ![c].at = IF kind = "bulk" THEN "bulk stores" ELSE "offers"]
  /\ UNCHANGED tables /\ UNCHANGED <<origin, deleted>> /\ demoKeeps

(* Mutant: finished offers are kept, or the delete of offers is forgotten. *)
DeleteNoOffers(c) ==
  /\ Is(c, "offers") /\ Goes(c, "deliveries")
  /\ UNCHANGED <<row, stores, deliveries, offers, origin, deleted>> /\ demoKeeps

DeleteOffers(c) ==
  /\ Is(c, "offers") /\ Goes(c, "deliveries")
  /\ offers' = {}
  /\ UNCHANGED <<row, stores, deliveries, origin, deleted>> /\ demoKeeps

DeleteDeliveries(c) ==
  /\ Is(c, "deliveries") /\ demoKeeps
  /\ \/ offers # {} /\ Rejected(c)
     \/ /\ offers = {} /\ deliveries' = {} /\ Goes(c, "riders")
        /\ UNCHANGED <<row, stores, offers, origin, deleted>>

(* The rows go, the keys rider:status:<id> and the positions do not.       *)
DeleteRiders(c) ==
  /\ Is(c, "riders") /\ demoKeeps
  /\ \/ offers # {} /\ Rejected(c)
     \/ /\ offers = {} /\ Goes(c, "stores")
        /\ row' = [r \in Rider |-> None]
        /\ deleted' = deleted \cup {r \in Rider : Stored(r)}
        /\ UNCHANGED <<stores, deliveries, offers, origin>>

(* The last one ends a reset; a seed goes on.                              *)
DeleteStores(c) ==
  /\ Is(c, "stores") /\ demoKeeps
  /\ \/ deliveries # {} /\ Rejected(c)
     \/ /\ deliveries = {} /\ stores' = {}
        /\ UNCHANGED <<row, deliveries, offers, origin, deleted>>
        /\ \/ call[c].kind = "reset" /\ Ends(c, "done", "ok")
           \/ call[c].kind = "seed" /\ call' = [Upset(c) EXCEPT ![c].at = "insert stores",
                                                               ![c].todo = DemoStore]

(* Promise.all saves the rows one by one, in any order.                    *)
InsertStore(c, s) ==
  /\ Is(c, "insert stores") /\ s \in call[c].todo
  /\ stores' = stores \cup {[by |-> c, name |-> s]}
  /\ \/ /\ call[c].todo = {s}
        /\ call' = [Upset(c) EXCEPT ![c].at = "insert riders", ![c].todo = DemoRider]
     \/ call[c].todo # {s} /\ call' = [Upset(c) EXCEPT ![c].todo = @ \ {s}]
  /\ UNCHANGED <<row, deliveries, offers, origin, deleted>> /\ demoKeeps

InsertedAs(r, c, p) ==
  /\ ~Born(r)
  /\ row' = [row EXCEPT ![r] = [status |-> "AVAILABLE", phone |-> p]]
  /\ origin' = [origin EXCEPT ![r] = [by |-> c, name |-> p]]
  /\ UNCHANGED <<stores, deliveries, offers, deleted>>

Taken(p) == \E r \in Rider : Stored(r) /\ row[r].phone = p

(* Mutant: Promise.allSettled: the client is answered ok, taken or not.    *)
InsertRiderSettled(c, p) ==
  LET last == call[c].todo = {p} IN
  /\ Is(c, "insert riders") /\ p \in call[c].todo
  /\ \/ Taken(p) /\ UNCHANGED tables /\ UNCHANGED <<origin, deleted>>
     \/ ~Taken(p) /\ \E r \in Rider : InsertedAs(r, c, p)
  /\ call' = [Upset(c) EXCEPT
                ![c].todo = @ \ {p}, ![c].reply = IF last THEN "ok" ELSE @,
                ![c].at = IF last THEN "done" ELSE @]
  /\ demoKeeps

(* A phone that is taken rejects the whole Promise.all, and the client is  *)
(* answered, but the other saves go on.                                    *)
InsertRider(c, p) ==
  LET last  == call[c].todo = {p}
      reply == IF call[c].reply = "failed" \/ Taken(p) THEN "failed"
               ELSE IF last THEN "ok" ELSE "none"
  IN
  /\ Is(c, "insert riders") /\ p \in call[c].todo
  /\ \/ Taken(p) /\ UNCHANGED tables /\ UNCHANGED <<origin, deleted>>
     \/ ~Taken(p) /\ \E r \in Rider : InsertedAs(r, c, p)
  /\ call' = [Upset(c) EXCEPT
                ![c].todo = @ \ {p}, ![c].reply = reply,
                ![c].at = IF ~last THEN @ ELSE IF reply = "ok" THEN "done" ELSE "rejected"]
  /\ demoKeeps

(* seedBulkData: save of an array is one transaction. Stores, and riders   *)
(* with random phones, then deliveries to the stores it holds in memory.   *)
BulkStores(c) ==
  /\ Is(c, "bulk stores") /\ Goes(c, "bulk riders")
  /\ stores' = stores \cup {[by |-> c, name |-> "bulk"]}
  /\ UNCHANGED <<row, deliveries, offers, origin, deleted>> /\ demoKeeps

BulkRiders(c, p) ==
  /\ Is(c, "bulk riders") /\ demoKeeps
  /\ \/ Taken(p) /\ Rejected(c)
     \/ ~Taken(p) /\ Goes(c, "bulk deliveries") /\ \E r \in Rider : InsertedAs(r, c, p)

(* Mutant: no foreign key from deliveries to stores.                       *)
BulkDeliveriesUnchecked(c) ==
  /\ Is(c, "bulk deliveries") /\ Ends(c, "done", "ok") /\ demoKeeps
  /\ deliveries' = deliveries \cup {[id |-> c, store |-> [by |-> c, name |-> "bulk"]]}
  /\ UNCHANGED <<row, stores, offers, origin, deleted>>

(* By default no deliveries are asked for.                                 *)
NothingElse(c) ==
  /\ call' = [call EXCEPT ![c].at = "done", ![c].reply = "ok"]
  /\ UNCHANGED tables /\ UNCHANGED <<origin, deleted>>

BulkDeliveries(c) ==
  LET mine == [by |-> c, name |-> "bulk"] IN
  /\ Is(c, "bulk deliveries") /\ demoKeeps
  /\ \/ mine \notin stores /\ Rejected(c)
     \/ /\ deliveries' = deliveries \cup {[id |-> c, store |-> mine]} /\ mine \in stores
        /\ Ends(c, "done", "ok")
        /\ UNCHANGED <<row, stores, offers, origin, deleted>>
     \/ NothingElse(c)

DemoStep(c) ==
  \/ \E kind \in Kind : Start(c, kind)
  \/ DeleteOffers(c) \/ DeleteDeliveries(c) \/ DeleteRiders(c) \/ DeleteStores(c)
  \/ \E s \in DemoStore : InsertStore(c, s)
  \/ \E p \in DemoRider : InsertRider(c, p)
  \/ BulkStores(c) \/ BulkDeliveries(c)
  \/ \E p \in BulkPhone : BulkRiders(c, p)

-------------------------------------------------------------------------------
(* Everybody else                                                          *)

othersKeep == UNCHANGED <<vars, origin, deleted>>

(* A client calls RiderService or StoreService once more.                  *)
Asks == asked < MaxCalls /\ asked' = asked + 1

(* StoreService.create. Ids are never used twice.                          *)
CreateStore(e, name) ==
  LET s == [by |-> e, name |-> name] IN
  /\ Asks /\ s \notin stores /\ \A f \in Editor : edit[f] # s
  /\ stores' = stores \cup {s}
  /\ call' = Upset(None)
  /\ UNCHANGED <<deliveries, offers, edit, meddled>> /\ othersKeep

(* StoreService.update and remove: the row as it is now, changed, is saved *)
(* in a later step. remove only clears isActive, which no order looks at.  *)
ReadStore(e, s) ==
  /\ Asks /\ edit[e] = None /\ s \in stores
  /\ edit' = [edit EXCEPT ![e] = s]
  /\ UNCHANGED <<stores, deliveries, offers, call, meddled>> /\ othersKeep

(* save of an entity with an id: a row that was deleted is inserted again. *)
SaveStore(e) ==
  /\ edit[e] # None
  /\ stores' = stores \cup {edit[e]}
  /\ edit' = [edit EXCEPT ![e] = None]
  /\ meddled' = (meddled \/ edit[e] \notin stores)
  /\ call' = IF edit[e] \in stores THEN call ELSE Upset(None)
  /\ UNCHANGED <<deliveries, offers, asked>> /\ othersKeep

(* DeliveryService.create, for a store that is there, active or not.       *)
OrderDelivery(o, s) ==
  /\ s \in stores /\ \A d \in deliveries : d.id # o
  /\ deliveries' = deliveries \cup {[id |-> o, store |-> s]}
  /\ call' = Upset(None)
  /\ UNCHANGED <<stores, offers, edit, asked, meddled>> /\ othersKeep

(* OfferService.create.                                                    *)
OfferDelivery(d, r) ==
  /\ d \in deliveries /\ Stored(r) /\ row[r].status = "AVAILABLE"
  /\ \A x \in offers : x.delivery # d
  /\ offers' = offers \cup {[delivery |-> d, rider |-> r]}
  /\ call' = Upset(None)
  /\ UNCHANGED <<stores, deliveries, edit, asked, meddled>> /\ othersKeep

(* RiderService: ids are never used twice, and its saves meddle when they  *)
(* bring a row back, or give a demo rider another phone.                   *)
Meddles ==
  \E r \in Rider : row'[r] # row[r] /\ (r \in deleted \/ origin[r] # None)
                   /\ (~Stored(r) \/ row'[r].phone # row[r].phone)
RiderStep(t) ==
  /\ \/ /\ Asks
        /\ \E r \in Rider :
             \/ ~Born(r) /\ \E p \in Phone : Create(t, r, p)
             \/ \E p \in Phone : Update(t, r, p)
             \/ \E s \in Status : UpdateStatus(t, r, s)
     \/ (Save(t) \/ Sync(t) \/ Fail(t)) /\ UNCHANGED asked
  /\ meddled' = (meddled \/ Meddles)
  /\ call' = IF row' = row THEN call ELSE Upset(None)
  /\ UNCHANGED <<stores, deliveries, offers, origin, edit, deleted>>

-------------------------------------------------------------------------------
DataInit ==
  /\ Init
  /\ stores = {} /\ deliveries = {} /\ offers = {}
  /\ origin = [r \in Rider |-> None]
  /\ call = [c \in DemoCall |-> [kind |-> "seed", at |-> "idle", todo |-> {},
                                 reply |-> "none", upset |-> FALSE]]
  /\ edit = [e \in Editor |-> None] /\ asked = 0 /\ deleted = {} /\ meddled = FALSE

DataNext ==
  \/ \E c \in DemoCall : DemoStep(c)
  \/ \E t \in Task : RiderStep(t)
  \/ \E e \in Editor :
       \/ \E name \in DemoStore : CreateStore(e, name)
       \/ \E s \in stores : ReadStore(e, s)
       \/ SaveStore(e)
  \/ \E o \in Order, s \in stores : OrderDelivery(o, s)
  \/ \E d \in deliveries, r \in Rider : OfferDelivery(d, r)

DataSpec == DataInit /\ [][DataNext]_dataVars

-------------------------------------------------------------------------------
(* Every variable has its type, and what the rows refer to is there.       *)
DataTypeOK ==
  /\ TypeOK
  /\ stores \subseteq StoreRow /\ deliveries \subseteq DeliveryRow /\ offers \subseteq OfferRow
  /\ \A d \in deliveries : d.store \in stores
  /\ \A x \in offers : x.delivery \in deliveries /\ Stored(x.rider)
  /\ origin \in [Rider -> Origin \cup {None}] /\ edit \in [Editor -> StoreRow \cup {None}]
  /\ \A c \in DemoCall : call[c].todo \subseteq DemoStore \/ call[c].todo \subseteq DemoRider
  /\ asked \in 0..MaxCalls /\ deleted \subseteq Rider /\ meddled \in BOOLEAN

(* When only seeds ran, and all that ran answered ok, the demo data is     *)
(* there exactly once, however their statements were interleaved: the      *)
(* unique phones make one of two seeds fail wherever stores are doubled.   *)
(* Calls that save a row a reset deleted, or give a demo rider another     *)
(* phone, do break it: `meddled' says so.                                  *)
SeededRiders == {r \in Rider : Stored(r) /\ origin[r] # None}
SeededStores == {s \in stores : s.by \in DemoCall}
ExactlyOnce ==
  /\ ~meddled /\ \E c \in DemoCall : Is(c, "done")
  /\ \A c \in DemoCall : call[c].kind = "seed" /\ call[c].at \in {"idle", "done"}
  => /\ {s.name : s \in SeededStores} = DemoStore
     /\ Cardinality(SeededStores) = Cardinality(DemoStore)
     /\ {origin[r].name : r \in SeededRiders} = DemoRider
     /\ Cardinality(SeededRiders) = Cardinality(DemoRider)

(* A seed or a reset fails only if somebody else wrote to the tables while *)
(* it ran: the order of its statements is right for the data it found.     *)
FailsOnlyDisturbed ==
  \A c \in DemoCall : call[c].reply = "failed" /\ call[c].kind # "bulk" => call[c].upset

(* A rider whose calls ran one at a time and to their end has the same     *)
(* status in Redis and in the table, or no key at all if the demo service  *)
(* inserted him and nobody has set his status since: location-service      *)
(* offers deliveries to none whom create will turn away.                   *)
SameStatus ==
  \A r \in Rider \ disturbed : Stored(r) /\ ~Busy(r) =>
    redis[r] = row[r].status \/ (redis[r] = None /\ origin[r] # None)

(* Dispatch searches by the keys. A key without a row, which it will go on *)
(* finding, can only be a rider's whom a reset deleted: no failed insert   *)
(* and no call that was overtaken leaves one.                              *)
GhostsWereDeleted == \A r \in Rider : redis[r] # None /\ ~Stored(r) => r \in deleted
===============================================================================
