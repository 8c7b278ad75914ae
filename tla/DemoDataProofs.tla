----------------------------- MODULE DemoDataProofs -----------------------------
(***************************************************************************)
(* Proofs about DemoData, for any number of demo calls, riders, stores,    *)
(* concurrent calls and failures.                                          *)
(***************************************************************************)
EXTENDS DemoData, FiniteSetTheorems, FunctionTheorems, TLAPS

(* The types that DataTypeOK leaves out.                                   *)
CallStep ==
  {"idle", "done", "rejected", "offers", "deliveries", "riders", "stores", "insert stores",
   "insert riders", "bulk stores", "bulk riders", "bulk deliveries"}
OfBulk == {"bulk stores", "bulk riders", "bulk deliveries"}

CallRow ==
  [kind : Kind, at : CallStep, todo : SUBSET (DemoStore \cup DemoRider),
   reply : {"none", "ok", "failed"}, upset : BOOLEAN]

(* What a call is at fits its kind, and it has to insert what is its turn. *)
CallOK ==
  /\ call \in [DemoCall -> CallRow]
  /\ \A c \in DemoCall :
       /\ call[c].at \in OfBulk => call[c].kind = "bulk"
       /\ Is(c, "insert stores") => call[c].todo \subseteq DemoStore
       /\ Is(c, "insert riders") => call[c].todo \subseteq DemoRider
       /\ call[c].at \notin {"insert stores", "insert riders"} => call[c].todo = {}
       /\ call[c].at \in {"insert stores", "insert riders"} => call[c].kind = "seed"

(* A key is written for a rider who has a row, or had one.                 *)
SyncsARow ==
  \A t \in Task : pc[t] = "sync" => Stored(loc[t].rider) \/ loc[t].rider \in deleted

DataInv == DataTypeOK /\ CallOK /\ SyncsARow /\ GhostsWereDeleted

-------------------------------------------------------------------------------
(* Upsetting the others changes nothing else about them.                   *)
LEMMA UpsetKeeps ==
  ASSUME CallOK, NEW by
  PROVE  /\ Upset(by) \in [DemoCall -> CallRow]
         /\ \A c \in DemoCall :
              /\ Upset(by)[c].kind = call[c].kind /\ Upset(by)[c].at = call[c].at
              /\ Upset(by)[c].todo = call[c].todo /\ Upset(by)[c].reply = call[c].reply
              /\ Upset(by)[c].upset = (call[c].upset \/ (c # by /\ Running(c)))
  <1>1. \A c \in DemoCall : call[c] \in CallRow /\ Upset(by)[c] =
          IF c # by /\ Running(c) THEN [call[c] EXCEPT !.upset = TRUE] ELSE call[c]
    BY DEF CallOK, Upset
  <1>2. ASSUME NEW c \in DemoCall
        PROVE  /\ Upset(by)[c] \in CallRow
               /\ Upset(by)[c].kind = call[c].kind /\ Upset(by)[c].at = call[c].at
               /\ Upset(by)[c].todo = call[c].todo /\ Upset(by)[c].reply = call[c].reply
               /\ Upset(by)[c].upset = (call[c].upset \/ (c # by /\ Running(c)))
    <2>1. CASE c # by /\ Running(c)
      BY <1>1, <2>1 DEF CallRow
    <2>2. CASE ~(c # by /\ Running(c))
      BY <1>1, <2>2 DEF CallRow
    <2> QED
      BY <2>1, <2>2
  <1>3. Upset(by) \in [DemoCall -> CallRow]
    BY <1>2 DEF Upset
  <1> QED
    BY <1>2, <1>3

(* A call that moves on, with what it still has to do.                     *)
LEMMA CallGoesOn ==
  ASSUME CallOK, NEW c \in DemoCall, NEW f \in [DemoCall -> CallRow], NEW x \in CallRow,
         call' = [f EXCEPT ![c] = x],
         \A d \in DemoCall : f[d].kind = call[d].kind /\ f[d].at = call[d].at /\ f[d].todo = call[d].todo,
         x.at \in OfBulk => x.kind = "bulk",
         x.at = "insert stores" => x.todo \subseteq DemoStore,
         x.at = "insert riders" => x.todo \subseteq DemoRider,
         x.at \notin {"insert stores", "insert riders"} => x.todo = {},
         x.at \in {"insert stores", "insert riders"} => x.kind = "seed"
  PROVE  CallOK'
  BY DEF CallOK, Is

LEMMA InitData == DataInit => DataInv
  <1> SUFFICES ASSUME DataInit PROVE DataInv
    OBVIOUS
  <1> USE DEF DataInit, Init
  <1>1. TypeOK
    BY FaultsAreCounted DEF TypeOK, Blank
  <1>2. DataTypeOK
    <2>1. \A c \in DemoCall : call[c].todo = {}
      OBVIOUS
    <2>2. asked \in 0..MaxCalls
      BY CallsAreCounted
    <2>3. origin \in [Rider -> Origin \cup {None}] /\ edit \in [Editor -> StoreRow \cup {None}]
      OBVIOUS
    <2> QED
      BY <1>1, <2>1, <2>2, <2>3 DEF DataTypeOK
  <1>3. CallOK
    BY DEF CallOK, CallRow, CallStep, Kind, OfBulk, Is
  <1> QED
    BY <1>2, <1>3 DEF DataInv, SyncsARow, GhostsWereDeleted

-------------------------------------------------------------------------------
(* The steps of RiderService: rows come and change, and none goes.         *)
LEMMA RiderTypes ==
  ASSUME TypeOK, NEW t \in Task,
         \/ \E r \in Rider : \/ \E p \in Phone : Create(t, r, p) \/ Update(t, r, p)
                             \/ \E s \in Status : UpdateStatus(t, r, s)
         \/ Save(t) \/ Sync(t) \/ Fail(t)
  PROVE  /\ TypeOK'
         /\ \A q \in Rider : Stored(q) => Stored(q)'
         /\ \A u \in Task \ {t} : pc'[u] = pc[u] /\ loc'[u] = loc[u]
         /\ \/ UNCHANGED row
            \/ Save(t) /\ row' = [row EXCEPT ![loc[t].rider] = loc[t].entity]
         /\ pc'[t] = "sync" =>
              loc'[t].rider \in Rider /\ loc'[t] = loc[t] /\ row'[loc[t].rider] # None
  <1> USE DEF TypeOK
  <1>1. pc[t] # "idle" => loc[t].rider \in Rider /\ loc[t].entity \in Row
    BY DEF Blank
  <1>2. ASSUME NEW op \in {"create", "status", "profile"}, NEW r \in Rider, NEW e \in Row,
               Begin(t, op, r, e, "save"), UNCHANGED <<row, redis, faults>>
        PROVE  /\ TypeOK' /\ UNCHANGED row /\ pc'[t] = "save"
               /\ \A u \in Task \ {t} : pc'[u] = pc[u] /\ loc'[u] = loc[u]
    <2> DEFINE l == [op |-> op, rider |-> r, entity |-> e]
    <2>1. l \in [op : {"create", "status", "profile"}, rider : Rider, entity : Row] /\ l # Blank
      BY DEF Blank
    <2>2. loc' = [loc EXCEPT ![t] = l] /\ pc' = [pc EXCEPT ![t] = "save"]
      BY <1>2 DEF Begin, Goto
    <2>3. disturbed' \subseteq Rider
      BY <1>2 DEF Begin
    <2>4. \A u \in Task : loc'[u] = IF u = t THEN l ELSE loc[u]
      BY <2>2 DEF Begin
    <2> HIDE DEF l
    <2> QED
      BY <1>2, <2>1, <2>2, <2>3, <2>4
  <1>3. ASSUME NEW r \in Rider, NEW p \in Phone, Create(t, r, p)
        PROVE  /\ TypeOK' /\ UNCHANGED row /\ pc'[t] = "save"
               /\ \A u \in Task \ {t} : pc'[u] = pc[u] /\ loc'[u] = loc[u]
    <2>1. [status |-> "OFFLINE", phone |-> p] \in Row
      BY DEF Row, Status
    <2> QED
      BY <1>2, <1>3, <2>1 DEF Create
  <1>4. ASSUME NEW r \in Rider, NEW p \in Phone, Update(t, r, p)
        PROVE  /\ TypeOK' /\ UNCHANGED row /\ pc'[t] = "save"
               /\ \A u \in Task \ {t} : pc'[u] = pc[u] /\ loc'[u] = loc[u]
    <2>1. [row[r] EXCEPT !.phone = p] \in Row
      BY <1>4 DEF Update, Stored, Row
    <2> QED
      BY <1>2, <1>4, <2>1 DEF Update
  <1>5. ASSUME NEW r \in Rider, NEW s \in Status, UpdateStatus(t, r, s)
        PROVE  /\ TypeOK' /\ UNCHANGED row /\ pc'[t] = "save"
               /\ \A u \in Task \ {t} : pc'[u] = pc[u] /\ loc'[u] = loc[u]
    <2>1. [row[r] EXCEPT !.status = s] \in Row
      BY <1>5 DEF UpdateStatus, Stored, Row
    <2> QED
      BY <1>2, <1>5, <2>1 DEF UpdateStatus
  <1>6. CASE Save(t)
    <2>1. loc[t].rider \in Rider /\ loc[t].entity \in Row /\ loc[t].entity # None
      BY <1>1, <1>6, NoneIsFresh DEF Save
    <2>2. CASE TakenPhone(loc[t].entity.phone, loc[t].rider) /\ Done(t) /\ UNCHANGED row
      BY <1>6, <2>2 DEF Save, Done, Goto, Stored
    <2>3. CASE row' = [row EXCEPT ![loc[t].rider] = loc[t].entity]
      <3>1. /\ row' \in [Rider -> Row \cup {None}] /\ row'[loc[t].rider] # None
            /\ \A q \in Rider : Stored(q) => Stored(q)'
        BY <2>1, <2>3 DEF Stored
      <3>2. \/ Done(t)
            \/ Goto(t, "sync") /\ UNCHANGED loc
        BY <1>6, <2>2, <2>3 DEF Save
      <3> QED
        BY <1>6, <2>3, <3>1, <3>2 DEF Save, Done, Goto, Stored
    <2> QED
      BY <1>6, <2>2, <2>3 DEF Save
  <1>7. CASE Sync(t)
    BY <1>1, <1>7 DEF Sync, Done, Goto, Stored, Row
  <1>8. CASE Fail(t)
    <2>1. faults' \in 0..MaxFaults
      BY <1>8, FaultsAreCounted DEF Fail
    <2> QED
      BY <1>1, <1>8, <2>1 DEF Fail, Done, Goto, Stored
  <1>9. ASSUME UNCHANGED row PROVE \A q \in Rider : Stored(q) => Stored(q)'
    BY <1>9 DEF Stored
  <1> QED
    BY <1>3, <1>4, <1>5, <1>6, <1>7, <1>8, <1>9

LEMMA RiderStepKeeps ==
  ASSUME DataInv, NEW t \in Task, RiderStep(t)
  PROVE  DataInv'
  <1> USE DEF DataInv, DataTypeOK
  <1>1. /\ TypeOK'
        /\ \A q \in Rider : Stored(q) => Stored(q)'
        /\ \A u \in Task \ {t} : pc'[u] = pc[u] /\ loc'[u] = loc[u]
        /\ pc'[t] = "sync" => loc'[t].rider \in Rider /\ loc'[t] = loc[t] /\ row'[loc[t].rider] # None
    BY RiderTypes DEF RiderStep
  <1>2. /\ UNCHANGED <<stores, deliveries, offers, origin, edit, deleted>>
        /\ call' = call \/ call' = Upset(None)
        /\ asked' \in 0..MaxCalls /\ meddled' \in BOOLEAN
    BY CallsAreCounted DEF RiderStep, Asks, Meddles
  <1>3. CallOK' /\ \A c \in DemoCall : call'[c].todo = call[c].todo
    <2>1. /\ Upset(None) \in [DemoCall -> CallRow]
          /\ \A c \in DemoCall : /\ Upset(None)[c].kind = call[c].kind /\ Upset(None)[c].at = call[c].at
                                /\ Upset(None)[c].todo = call[c].todo
      BY UpsetKeeps
    <2>2. CASE call' = call
      BY <2>2 DEF CallOK, Is
    <2>3. CASE call' = Upset(None)
      BY <2>1, <2>3 DEF CallOK, Is
    <2> QED
      BY <1>2, <2>2, <2>3
  <1>4. DataTypeOK'
    BY <1>1, <1>2, <1>3 DEF OfferRow
  <1>5. SyncsARow'
    <2> SUFFICES ASSUME NEW u \in Task, pc'[u] = "sync"
                 PROVE  row'[loc'[u].rider] # None \/ loc'[u].rider \in deleted
      BY <1>2 DEF SyncsARow, Stored
    <2>1. CASE u = t
      BY <1>1, <2>1
    <2>2. CASE u # t
      <3>1. pc[u] = "sync" /\ loc'[u] = loc[u] /\ loc[u].rider \in Rider
        BY <1>1, <2>2 DEF TypeOK, Blank
      <3> QED
        BY <1>1, <3>1 DEF SyncsARow, Stored
    <2> QED
      BY <2>1, <2>2
  <1>6. GhostsWereDeleted'
    <2>1. ASSUME NEW r \in Rider, redis'[r] # redis[r], row'[r] = None PROVE r \in deleted
      <3>1. Sync(t) /\ loc[t].rider = r /\ UNCHANGED row
        BY <2>1 DEF RiderStep, Create, Update, UpdateStatus, Begin, Save, Sync, Fail, TypeOK
      <3> QED
        BY <2>1, <3>1 DEF Sync, SyncsARow, Stored
    <2> QED
      BY <1>1, <1>2, <2>1 DEF GhostsWereDeleted, Stored
  <1> QED
    BY <1>3, <1>4, <1>5, <1>6

-------------------------------------------------------------------------------
(* The steps of the demo service, the stores and the orders.               *)
LEMMA DemoStepKeeps ==
  ASSUME DataInv, NEW c \in DemoCall, DemoStep(c)
  PROVE  DataInv'
  <1> USE DEF DataInv, DataTypeOK
  <1>1. demoKeeps
    BY DEF DemoStep, Start, DeleteOffers, DeleteDeliveries, DeleteRiders, DeleteStores, InsertStore,
       InsertRider, BulkStores, BulkRiders, BulkDeliveries
  <1>2. call[c] \in CallRow /\ call \in [DemoCall -> CallRow]
    BY DEF CallOK
  <1>u. /\ Upset(c) \in [DemoCall -> CallRow] /\ Upset(c)[c] \in CallRow
         /\ \A d \in DemoCall : /\ Upset(c)[d].kind = call[d].kind /\ Upset(c)[d].at = call[d].at
                               /\ Upset(c)[d].todo = call[d].todo
         /\ Upset(c)[c].kind = call[c].kind /\ Upset(c)[c].at = call[c].at
         /\ Upset(c)[c].todo = call[c].todo /\ Upset(c)[c].reply = call[c].reply
    BY UpsetKeeps
  (* What becomes of the calls.                                            *)
  <1>3. ASSUME NEW step \in CallStep \ {"insert stores", "insert riders"}, Goes(c, step),
               call[c].todo = {}, step \in OfBulk => call[c].kind = "bulk"
        PROVE  CallOK' /\ \A d \in DemoCall : call'[d].todo = call[d].todo
    <2> DEFINE x == [Upset(c)[c] EXCEPT !.at = step]
    <2>1. x \in CallRow /\ x.kind = call[c].kind /\ x.at = step /\ x.todo = {}
      BY <1>3, <1>u DEF CallRow
    <2>2. call' = [Upset(c) EXCEPT ![c] = x]
      BY <1>3, <1>u DEF Goes
    <2> HIDE DEF x
    <2>3. CallOK'
      BY <1>3, <2>1, <2>2, <1>u, CallGoesOn, ZenonT(40)
    <2> QED
      BY <1>3, <2>1, <2>2, <2>3, <1>u
  <1>4. ASSUME Ends(c, "done", "ok"), call[c].todo = {}
        PROVE  CallOK' /\ \A d \in DemoCall : call'[d].todo = call[d].todo
    <2> DEFINE x == [Upset(c)[c] EXCEPT !.at = "done", !.reply = IF @ = "none" THEN "ok" ELSE @]
    <2>1. x \in CallRow /\ x.kind = call[c].kind /\ x.at = "done" /\ x.todo = {}
      BY <1>4, <1>u DEF CallRow, CallStep
    <2>2. call' = [Upset(c) EXCEPT ![c] = x]
      BY <1>4, <1>u DEF Ends
    <2> HIDE DEF x
    <2>3. CallOK'
      BY <2>1, <2>2, <1>u, CallGoesOn DEF OfBulk
    <2> QED
      BY <1>4, <2>1, <2>2, <2>3, <1>u
  <1>5. ASSUME Rejected(c), call[c].todo = {}
        PROVE  CallOK' /\ \A d \in DemoCall : call'[d].todo = call[d].todo
    <2> DEFINE x == [call[c] EXCEPT !.at = "rejected", !.reply = "failed"]
    <2>1. x \in CallRow /\ x.kind = call[c].kind /\ x.at = "rejected" /\ x.todo = {}
      BY <1>2, <1>5 DEF CallRow, CallStep
    <2>2. call' = [call EXCEPT ![c] = x]
      BY <1>2, <1>5 DEF Rejected
    <2> HIDE DEF x
    <2>3. CallOK'
      BY <1>2, <2>1, <2>2, CallGoesOn DEF OfBulk
    <2> QED
      BY <1>2, <1>5, <2>1, <2>2, <2>3
  (* What becomes of the tables: riders stay, ...                          *)
  <1>6. ASSUME UNCHANGED row, UNCHANGED <<origin, deleted>>
        PROVE  TypeOK' /\ SyncsARow' /\ GhostsWereDeleted'
    BY <1>1, <1>6 DEF demoKeeps, TypeOK, SyncsARow, GhostsWereDeleted, Stored
  (* ... one is inserted, ...                                              *)
  <1>7. ASSUME NEW r \in Rider, NEW p \in DemoRider \cup BulkPhone, InsertedAs(r, c, p)
        PROVE  /\ TypeOK' /\ SyncsARow' /\ GhostsWereDeleted'
               /\ origin' \in [Rider -> Origin \cup {None}] /\ \A q \in Rider : Stored(q) => Stored(q)'
    <2> DEFINE x == [status |-> "AVAILABLE", phone |-> p]
    <2>1. x \in Row /\ x # None
      BY PhonesOfDemo, NoneIsFresh DEF Row, Status
    <2>2. row' = [row EXCEPT ![r] = x]
      BY <1>7 DEF InsertedAs
    <2> HIDE DEF x
    <2>3. TypeOK' /\ \A q \in Rider : Stored(q) => Stored(q)'
      BY <1>1, <2>1, <2>2 DEF demoKeeps, TypeOK, Stored
    <2>4. SyncsARow' /\ GhostsWereDeleted'
      <3>1. \A q \in Rider : row[q] # None => row'[q] # None
        BY <2>3 DEF Stored
      <3>2. \A t \in Task : pc[t] = "sync" => loc[t].rider \in Rider
        BY DEF TypeOK, Blank
      <3>3. UNCHANGED <<pc, loc, redis, deleted>>
        BY <1>1, <1>7 DEF demoKeeps, InsertedAs
      <3> QED
        BY <3>1, <3>2, <3>3 DEF SyncsARow, GhostsWereDeleted, Stored
    <2>5. [by |-> c, name |-> p] \in Origin
      BY DEF Origin
    <2>6. origin' \in [Rider -> Origin \cup {None}]
      BY <1>7, <2>5 DEF InsertedAs
    <2> QED
      BY <2>3, <2>4, <2>6
  <1>8. ASSUME NEW kind \in Kind, Start(c, kind) PROVE DataInv'
    <2> DEFINE step == IF kind = "bulk" THEN "bulk stores" ELSE "offers"
               x == [call[c] EXCEPT !.kind = kind, !.at = step]
    <2>1. x \in CallRow /\ x.kind = kind /\ x.at = step /\ x.todo = {} /\ call' = [call EXCEPT ![c] = x]
      BY <1>2, <1>8 DEF Start, CallRow, CallStep, CallOK, Is
    <2>2. step \in {"bulk stores", "offers"} /\ (step \in OfBulk => kind = "bulk")
      BY DEF OfBulk
    <2> HIDE DEF x, step
    <2>a. call[c].todo = {}
      BY <1>8 DEF CallOK, Start, Is
    <2>b. CallOK'
      BY <1>2, <2>1, <2>2, CallGoesOn
    <2>3. CallOK' /\ \A d \in DemoCall : call'[d].todo = call[d].todo
      BY <1>2, <2>1, <2>a, <2>b
    <2>4. DataTypeOK'
      BY <1>1, <1>6, <1>8, <2>3 DEF Start, tables, demoKeeps, Stored
    <2> QED
      BY <1>6, <1>8, <2>3, <2>4 DEF Start, tables
  <1>9. CASE DeleteOffers(c)
    <2>1. CallOK' /\ \A d \in DemoCall : call'[d].todo = call[d].todo
      BY <1>3, <1>9 DEF DeleteOffers, CallOK, Is, CallStep, OfBulk
    <2>2. DataTypeOK'
      BY <1>1, <1>6, <1>9, <2>1 DEF DeleteOffers, demoKeeps
    <2> QED
      BY <1>6, <1>9, <2>1, <2>2 DEF DeleteOffers
  <1>10. ASSUME Rejected(c), call[c].todo = {} PROVE DataInv'
    <2>1. CallOK' /\ \A d \in DemoCall : call'[d].todo = call[d].todo
      BY <1>5, <1>10
    <2>2. DataTypeOK'
      BY <1>1, <1>6, <1>10, <2>1 DEF Rejected, tables, demoKeeps, Stored
    <2> QED
      BY <1>6, <1>10, <2>1, <2>2 DEF Rejected, tables
  <1>11. CASE DeleteDeliveries(c)
    <2>1. call[c].todo = {}
      BY <1>11 DEF DeleteDeliveries, CallOK, Is
    <2>2. CASE offers = {} /\ deliveries' = {} /\ Goes(c, "riders") /\ UNCHANGED <<row, stores, offers, origin, deleted>>
      <3>1. CallOK' /\ \A d \in DemoCall : call'[d].todo = call[d].todo
        BY <1>3, <2>1, <2>2 DEF CallStep, OfBulk
      <3>2. DataTypeOK'
        BY <1>1, <1>6, <2>2, <3>1 DEF demoKeeps
      <3> QED
        BY <1>6, <2>2, <3>1, <3>2
    <2> QED
      BY <1>10, <1>11, <2>1, <2>2 DEF DeleteDeliveries
  <1>12. CASE DeleteRiders(c)
    <2>1. call[c].todo = {}
      BY <1>12 DEF DeleteRiders, CallOK, Is
    <2>2. CASE /\ offers = {} /\ Goes(c, "stores") /\ row' = [r \in Rider |-> None]
               /\ deleted' = deleted \cup {r \in Rider : Stored(r)}
               /\ UNCHANGED <<stores, deliveries, offers, origin>>
      <3>1. CallOK' /\ \A d \in DemoCall : call'[d].todo = call[d].todo
        BY <1>3, <2>1, <2>2 DEF CallStep, OfBulk
      <3>2. TypeOK'
        BY <1>1, <2>2 DEF demoKeeps, TypeOK
      <3>3. DataTypeOK'
        BY <1>1, <2>2, <3>1, <3>2 DEF demoKeeps
      <3>4. \A t \in Task : pc[t] = "sync" => loc[t].rider \in Rider
        BY DEF TypeOK, Blank
      <3>5. SyncsARow' /\ GhostsWereDeleted'
        BY <1>1, <2>2, <3>4 DEF demoKeeps, SyncsARow, GhostsWereDeleted, Stored
      <3> QED
        BY <3>1, <3>3, <3>5
    <2> QED
      BY <1>10, <1>12, <2>1, <2>2 DEF DeleteRiders
  <1>13. CASE DeleteStores(c)
    <2>1. call[c].todo = {}
      BY <1>13 DEF DeleteStores, CallOK, Is
    <2>2. CASE deliveries = {} /\ stores' = {} /\ UNCHANGED <<row, deliveries, offers, origin, deleted>>
      <3>1. CASE call[c].kind = "reset" /\ Ends(c, "done", "ok")
        <4>1. CallOK' /\ \A d \in DemoCall : call'[d].todo = call[d].todo
          BY <1>4, <2>1, <3>1
        <4>2. DataTypeOK'
          BY <1>1, <1>6, <2>2, <4>1 DEF demoKeeps, Stored
        <4> QED
          BY <1>6, <2>2, <4>1, <4>2
      <3>2. CASE call[c].kind = "seed" /\ call' = [Upset(c) EXCEPT ![c].at = "insert stores",
                                                                  ![c].todo = DemoStore]
        <4> DEFINE x == [Upset(c)[c] EXCEPT !.at = "insert stores", !.todo = DemoStore]
        <4>1. x \in CallRow /\ x.kind = "seed" /\ x.at = "insert stores" /\ x.todo = DemoStore
          BY <3>2, <1>u DEF CallRow, CallStep
        <4>2. call' = [Upset(c) EXCEPT ![c] = x]
          BY <3>2, <1>u
        <4> HIDE DEF x
        <4>3. CallOK'
          BY <4>1, <4>2, <1>u, CallGoesOn DEF OfBulk
        <4>4. \A d \in DemoCall : call'[d].todo = call[d].todo \/ call'[d].todo = DemoStore
          BY <4>1, <4>2, <1>u
        <4>5. DataTypeOK'
          BY <1>1, <1>6, <2>2, <4>4 DEF demoKeeps, Stored
        <4> QED
          BY <1>6, <2>2, <4>3, <4>5
      <3> QED
        BY <1>13, <2>2, <3>1, <3>2 DEF DeleteStores
    <2> QED
      BY <1>10, <1>13, <2>1, <2>2 DEF DeleteStores
  <1>14. ASSUME NEW s \in DemoStore, InsertStore(c, s) PROVE DataInv'
    <2> DEFINE last == call[c].todo = {s}
               x == [Upset(c)[c] EXCEPT !.at = IF last THEN "insert riders" ELSE @,
                                        !.todo = IF last THEN DemoRider ELSE @ \ {s}]
    <2>1. call[c].at = "insert stores" /\ call[c].kind = "seed" /\ call[c].todo \subseteq DemoStore
      BY <1>14 DEF InsertStore, CallOK, Is
    <2>2. /\ x \in CallRow /\ x.kind = "seed"
          /\ \/ x.at = "insert riders" /\ x.todo = DemoRider
             \/ x.at = "insert stores" /\ x.todo = call[c].todo \ {s}
      BY <2>1, <1>u DEF CallRow, CallStep
    <2>3. call' = [Upset(c) EXCEPT ![c] = x]
      BY <1>14, <1>u DEF InsertStore, CallRow
    <2> HIDE DEF x
    <2>4. CallOK'
      BY <2>1, <2>2, <2>3, <1>u, CallGoesOn DEF OfBulk
    <2>5. \A d \in DemoCall : \/ call'[d].todo \subseteq call[d].todo
                              \/ call'[d].todo = DemoRider
      BY <2>2, <2>3, <1>u
    <2>6. [by |-> c, name |-> s] \in StoreRow
      BY DEF StoreRow
    <2>7. DataTypeOK'
      BY <1>1, <1>6, <1>14, <2>5, <2>6 DEF InsertStore, demoKeeps, Stored
    <2> QED
      BY <1>6, <1>14, <2>4, <2>7 DEF InsertStore
  <1>15. ASSUME NEW p \in DemoRider, InsertRider(c, p) PROVE DataInv'
    <2> DEFINE last == call[c].todo = {p}
               reply == IF call[c].reply = "failed" \/ Taken(p) THEN "failed"
                        ELSE IF last THEN "ok" ELSE "none"
               at == IF ~last THEN call[c].at ELSE IF reply = "ok" THEN "done" ELSE "rejected"
               x == [Upset(c)[c] EXCEPT !.todo = @ \ {p}, !.reply = reply, !.at = at]
    <2>1. call[c].at = "insert riders" /\ call[c].kind = "seed" /\ call[c].todo \subseteq DemoRider
      BY <1>15 DEF InsertRider, CallOK, Is
    <2>2. reply \in {"none", "ok", "failed"} /\ at \in CallStep
      BY <2>1 DEF CallStep
    <2>3. call' = [Upset(c) EXCEPT ![c] = x]
      BY <1>15, <1>u DEF InsertRider
    <2>4. (at \in {"done", "rejected"} /\ call[c].todo = {p}) \/ at = "insert riders"
      BY <2>1
    <2>5. x \in CallRow /\ x.kind = "seed" /\ x.todo = call[c].todo \ {p} /\ x.at = at
      BY <2>1, <2>2, <1>u DEF CallRow
    <2> HIDE DEF x, at, reply
    <2>6. CallOK'
      BY <2>1, <2>3, <2>4, <2>5, <1>u, CallGoesOn, ZenonT(40) DEF OfBulk
    <2>7. \A d \in DemoCall : call'[d].todo \subseteq call[d].todo
      BY <2>3, <2>5, <1>u
    <2>8. CASE UNCHANGED tables /\ UNCHANGED <<origin, deleted>>
      <3>1. DataTypeOK'
        BY <1>1, <1>6, <2>7, <2>8 DEF tables, demoKeeps, Stored
      <3> QED
        BY <1>6, <2>6, <2>8, <3>1 DEF tables
    <2>9. ASSUME NEW r \in Rider, InsertedAs(r, c, p) PROVE DataInv'
      <3>1. DataTypeOK'
        BY <1>1, <1>7, <2>7, <2>9 DEF InsertedAs, demoKeeps, OfferRow
      <3> QED
        BY <1>7, <2>6, <2>9, <3>1
    <2> QED
      BY <1>15, <2>8, <2>9 DEF InsertRider
  <1>16. CASE BulkStores(c)
    <2>1. CallOK' /\ \A d \in DemoCall : call'[d].todo = call[d].todo
      BY <1>3, <1>16 DEF BulkStores, CallOK, Is, CallStep, OfBulk
    <2>2. [by |-> c, name |-> "bulk"] \in StoreRow
      BY DEF StoreRow
    <2>3. DataTypeOK'
      BY <1>1, <1>6, <1>16, <2>1, <2>2 DEF BulkStores, demoKeeps, Stored
    <2> QED
      BY <1>6, <1>16, <2>1, <2>3 DEF BulkStores
  <1>17. ASSUME NEW p \in BulkPhone, BulkRiders(c, p) PROVE DataInv'
    <2>1. call[c].todo = {} /\ call[c].kind = "bulk"
      BY <1>17 DEF BulkRiders, CallOK, Is, OfBulk
    <2>2. ASSUME NEW r \in Rider, InsertedAs(r, c, p), Goes(c, "bulk deliveries") PROVE DataInv'
      <3>1. CallOK' /\ \A d \in DemoCall : call'[d].todo = call[d].todo
        BY <1>3, <2>1, <2>2 DEF CallStep
      <3>2. DataTypeOK'
        BY <1>1, <1>7, <2>2, <3>1 DEF InsertedAs, demoKeeps, OfferRow
      <3> QED
        BY <1>7, <2>2, <3>1, <3>2
    <2> QED
      BY <1>10, <1>17, <2>1, <2>2 DEF BulkRiders
  <1>18. CASE BulkDeliveries(c)
    <2> DEFINE mine == [by |-> c, name |-> "bulk"]
    <2>1. call[c].todo = {}
      BY <1>18 DEF BulkDeliveries, CallOK, Is
    <2>2. CASE /\ mine \in stores /\ deliveries' = deliveries \cup {[id |-> c, store |-> mine]}
               /\ Ends(c, "done", "ok") /\ UNCHANGED <<row, stores, offers, origin, deleted>>
      <3>1. CallOK' /\ \A d \in DemoCall : call'[d].todo = call[d].todo
        BY <1>4, <2>1, <2>2
      <3>2. mine \in StoreRow /\ [id |-> c, store |-> mine] \in DeliveryRow
        BY DEF StoreRow, DeliveryRow
      <3>3. DataTypeOK'
        BY <1>1, <1>6, <2>2, <3>1, <3>2 DEF demoKeeps, Stored
      <3> QED
        BY <1>6, <2>2, <3>1, <3>3
    <2>3. CASE NothingElse(c)
      <3> DEFINE x == [call[c] EXCEPT !.at = "done", !.reply = "ok"]
      <3>1. x \in CallRow /\ x.kind = call[c].kind /\ x.at = "done" /\ x.todo = {}
        BY <1>2, <2>1 DEF CallRow, CallStep
      <3>2. call' = [call EXCEPT ![c] = x] /\ UNCHANGED tables /\ UNCHANGED <<origin, deleted>>
        BY <1>2, <2>3 DEF NothingElse
      <3> HIDE DEF x
      <3>3. CallOK'
        BY <1>2, <3>1, <3>2, CallGoesOn DEF OfBulk
      <3>4. \A d \in DemoCall : call'[d].todo = call[d].todo
        BY <1>2, <2>1, <3>1, <3>2
      <3>5. DataTypeOK'
        BY <1>1, <1>6, <3>2, <3>3, <3>4 DEF tables, demoKeeps, Stored
      <3> QED
        BY <1>6, <3>2, <3>3, <3>4, <3>5 DEF tables
    <2> QED
      BY <1>10, <1>18, <2>1, <2>2, <2>3 DEF BulkDeliveries
  <1> QED
    BY <1>8, <1>9, <1>11, <1>12, <1>13, <1>14, <1>15, <1>16, <1>17, <1>18 DEF DemoStep

(* Stores change, deliveries are ordered, offers are made.                 *)
LEMMA OthersKeep ==
  ASSUME DataInv, othersKeep,
         stores' \subseteq StoreRow, deliveries' \subseteq DeliveryRow, offers' \subseteq OfferRow,
         stores \subseteq stores', deliveries \subseteq deliveries',
         \A d \in deliveries' : d \in deliveries \/ d.store \in stores,
         \A x \in offers' : x \in offers \/ (x.delivery \in deliveries /\ Stored(x.rider)),
         edit' \in [Editor -> StoreRow \cup {None}], asked' \in 0..MaxCalls, meddled' \in BOOLEAN,
         call' = call \/ call' = Upset(None)
  PROVE  DataInv'
  <1> USE DEF DataInv, DataTypeOK, othersKeep, vars
  <1>1. CallOK' /\ \A c \in DemoCall : call'[c].todo = call[c].todo
    <2>1. /\ Upset(None) \in [DemoCall -> CallRow]
          /\ \A c \in DemoCall : /\ Upset(None)[c].kind = call[c].kind /\ Upset(None)[c].at = call[c].at
                                /\ Upset(None)[c].todo = call[c].todo
      BY UpsetKeeps
    <2>2. CASE call' = call
      BY <2>2 DEF CallOK, Is
    <2>3. CASE call' = Upset(None)
      BY <2>1, <2>3 DEF CallOK, Is
    <2> QED
      BY <2>2, <2>3
  <1>2. TypeOK' /\ SyncsARow' /\ GhostsWereDeleted'
    BY DEF TypeOK, SyncsARow, GhostsWereDeleted, Stored
  <1>3. /\ \A d \in deliveries' : d.store \in stores'
        /\ \A x \in offers' : x.delivery \in deliveries' /\ row'[x.rider] # None
    BY DEF Stored
  <1>4. DataTypeOK'
    BY <1>1, <1>2, <1>3 DEF Stored
  <1> QED
    BY <1>1, <1>2, <1>4

LEMMA DataStep == DataInv /\ [DataNext]_dataVars => DataInv'
  <1> SUFFICES ASSUME DataInv, [DataNext]_dataVars PROVE DataInv'
    OBVIOUS
  <1> USE DEF DataInv, DataTypeOK
  <1>1. CASE \E c \in DemoCall : DemoStep(c)
    BY <1>1, DemoStepKeeps
  <1>2. CASE \E t \in Task : RiderStep(t)
    BY <1>2, RiderStepKeeps
  <1>3. ASSUME NEW e \in Editor, NEW name \in DemoStore, CreateStore(e, name) PROVE DataInv'
    <2>1. [by |-> e, name |-> name] \in StoreRow
      BY DEF StoreRow
    <2>2. /\ stores' = stores \cup {[by |-> e, name |-> name]} /\ call' = Upset(None)
          /\ UNCHANGED <<deliveries, offers, edit, meddled>> /\ othersKeep
      BY <1>3 DEF CreateStore
    <2>3. asked' \in 0..MaxCalls
      BY <1>3, CallsAreCounted DEF CreateStore, Asks
    <2> QED
      BY <2>1, <2>2, <2>3, OthersKeep
  <1>4. ASSUME NEW e \in Editor, NEW s \in stores, ReadStore(e, s) PROVE DataInv'
    <2>1. asked' \in 0..MaxCalls /\ edit' \in [Editor -> StoreRow \cup {None}]
      BY <1>4, CallsAreCounted DEF ReadStore, Asks
    <2> QED
      BY <1>4, <2>1, OthersKeep DEF ReadStore
  <1>5. ASSUME NEW e \in Editor, SaveStore(e) PROVE DataInv'
    <2>1. edit[e] \in StoreRow
      BY <1>5 DEF SaveStore
    <2>2. /\ stores' = stores \cup {edit[e]} /\ edit' \in [Editor -> StoreRow \cup {None}]
          /\ meddled' \in BOOLEAN /\ (call' = call \/ call' = Upset(None))
          /\ UNCHANGED <<deliveries, offers, asked>> /\ othersKeep
      BY <1>5 DEF SaveStore
    <2> QED
      BY <2>1, <2>2, OthersKeep
  <1>6. ASSUME NEW o \in Order, NEW s \in stores, OrderDelivery(o, s) PROVE DataInv'
    <2>1. [id |-> o, store |-> s] \in DeliveryRow
      BY DEF DeliveryRow
    <2>2. /\ deliveries' = deliveries \cup {[id |-> o, store |-> s]} /\ call' = Upset(None)
          /\ UNCHANGED <<stores, offers, edit, asked, meddled>> /\ othersKeep
      BY <1>6 DEF OrderDelivery
    <2> QED
      BY <2>1, <2>2, OthersKeep
  <1>7. ASSUME NEW d \in deliveries, NEW r \in Rider, OfferDelivery(d, r) PROVE DataInv'
    <2>1. [delivery |-> d, rider |-> r] \in OfferRow
      BY DEF OfferRow
    <2>2. /\ offers' = offers \cup {[delivery |-> d, rider |-> r]} /\ call' = Upset(None)
          /\ UNCHANGED <<stores, deliveries, edit, asked, meddled>> /\ othersKeep /\ Stored(r)
      BY <1>7 DEF OfferDelivery
    <2> QED
      BY <2>1, <2>2, OthersKeep
  <1>8. CASE UNCHANGED dataVars
    <2>1. othersKeep /\ UNCHANGED <<stores, deliveries, offers, call, edit, asked, meddled>>
      BY <1>8 DEF dataVars, othersKeep
    <2> QED
      BY <2>1, OthersKeep
  <1> QED
    BY <1>1, <1>2, <1>3, <1>4, <1>5, <1>6, <1>7, <1>8 DEF DataNext

LEMMA DataInvAlways == DataSpec => []DataInv
  BY InitData, DataStep, PTL DEF DataSpec

(* Every variable keeps its type, and every row that a delivery or an      *)
(* offer refers to stays while it does (demo.service.ts, rider.service.ts, *)
(* store.service.ts under the foreign keys of the schema).                 *)
THEOREM DataTypeOKAlways == DataSpec => []DataTypeOK
  <1>1. DataInv => DataTypeOK
    BY DEF DataInv
  <1> QED
    BY <1>1, DataInvAlways, PTL

(* Whatever fails, dies or overtakes what, a rider's key in Redis without  *)
(* a row is left by a reset and by nothing else (rider.service.ts writes   *)
(* the row before the key, and demo.service.ts deletes rows only).         *)
THEOREM GhostsWereDeletedAlways == DataSpec => []GhostsWereDeleted
  <1>1. DataInv => GhostsWereDeleted
    BY DEF DataInv
  <1> QED
    BY <1>1, DataInvAlways, PTL

-------------------------------------------------------------------------------
(* Why a seed or a reset that nobody disturbs succeeds: what its next      *)
(* statements need is what its last ones left.                             *)
Undisturbed(c) ==
  /\ Is(c, "idle") => call[c].reply = "none"
  /\ call[c].kind # "bulk" /\ ~call[c].upset =>
       /\ call[c].reply # "failed"
       /\ call[c].at \in {"deliveries", "riders"} => offers = {}
       /\ call[c].at \in {"riders", "stores"} => deliveries = {}
       /\ call[c].at \in {"stores", "insert stores"} => \A r \in Rider : ~Stored(r)
       /\ Is(c, "insert riders") => \A p \in call[c].todo : ~Taken(p)

EachUndisturbed == \A c \in DemoCall : Undisturbed(c)

LEMMA OthersUpset ==
  ASSUME DataInv, NEW c \in DemoCall, NEW by, by # c, Undisturbed(c),
         \/ call'[c] = call[c] /\ UNCHANGED tables
         \/ call'[c] = Upset(by)[c]
  PROVE  Undisturbed(c)'
  <1>1. CASE call'[c] = call[c] /\ UNCHANGED tables
    BY <1>1 DEF Undisturbed, Is, Stored, Taken, tables
  <1>2. CASE call'[c] = Upset(by)[c]
    <2>1. /\ call'[c].kind = call[c].kind /\ call'[c].at = call[c].at
          /\ call'[c].reply = call[c].reply /\ call'[c].upset = (call[c].upset \/ Running(c))
      BY <1>2, UpsetKeeps DEF DataInv
    <2>2. CASE Running(c)
      BY <2>1, <2>2 DEF Undisturbed, Running, Is
    <2>3. CASE ~Running(c)
      BY <2>1, <2>3 DEF Undisturbed, Running, Is
    <2> QED
      BY <2>2, <2>3
  <1> QED
    BY <1>1, <1>2

LEMMA OwnStepUndisturbed ==
  ASSUME DataInv, NEW c \in DemoCall, DemoStep(c), Undisturbed(c)
  PROVE  Undisturbed(c)' /\ \A d \in DemoCall \ {c} : \/ call'[d] = call[d] /\ UNCHANGED tables
                                                     \/ call'[d] = Upset(c)[d]
  <1> USE DEF Undisturbed, Is, Stored
  <1>1. /\ Upset(c) \in [DemoCall -> CallRow] /\ Upset(c)[c] = call[c]
        /\ call \in [DemoCall -> CallRow] /\ call[c] \in CallRow
    BY UpsetKeeps DEF DataInv, CallOK, Upset
  <1>13. \A d \in DemoCall \ {c} : (call'[d] = call[d] /\ UNCHANGED tables) \/ call'[d] = Upset(c)[d]
    BY <1>1 DEF DemoStep, Start, DeleteOffers, DeleteDeliveries, DeleteRiders, DeleteStores, InsertStore,
       InsertRider, BulkStores, BulkRiders, BulkDeliveries, NothingElse, Goes, Ends, Rejected
  <1> SUFFICES Undisturbed(c)'
    BY <1>13
  <1>2. ASSUME NEW kind \in Kind, Start(c, kind) PROVE Undisturbed(c)'
    <2> DEFINE x == [call[c] EXCEPT !.kind = kind, !.at = IF kind = "bulk" THEN "bulk stores" ELSE "offers"]
    <2>1. x.reply = "none" /\ x.at \in {"bulk stores", "offers"}
      BY <1>1, <1>2 DEF Start, CallRow
    <2>2. call'[c] = x
      BY <1>1, <1>2 DEF Start
    <2> HIDE DEF x
    <2> QED
      BY <2>1, <2>2
  <1>3. ASSUME NEW step \in CallStep \ {"idle"}, Goes(c, step)
        PROVE  /\ call'[c].at = step /\ call'[c].kind = call[c].kind /\ call'[c].todo = call[c].todo
               /\ call'[c].reply = call[c].reply /\ call'[c].upset = call[c].upset
    <2> DEFINE x == [call[c] EXCEPT !.at = step]
    <2>1. call'[c] = x
      BY <1>1, <1>3 DEF Goes
    <2> QED
      BY <1>1, <2>1 DEF CallRow
  <1>4. ASSUME Ends(c, "done", "ok")
        PROVE  /\ call'[c].at = "done" /\ call'[c].kind = call[c].kind
               /\ call'[c].reply \in {"ok", call[c].reply} /\ call'[c].upset = call[c].upset
    <2> DEFINE x == [call[c] EXCEPT !.at = "done", !.reply = IF @ = "none" THEN "ok" ELSE @]
    <2>1. call'[c] = x
      BY <1>1, <1>4 DEF Ends
    <2> QED
      BY <1>1, <2>1 DEF CallRow
  <1>5. ASSUME Rejected(c)
        PROVE  /\ call'[c].at = "rejected" /\ call'[c].kind = call[c].kind /\ call'[c].upset = call[c].upset
    <2> DEFINE x == [call[c] EXCEPT !.at = "rejected", !.reply = "failed"]
    <2>1. call'[c] = x
      BY <1>1, <1>5 DEF Rejected
    <2> QED
      BY <1>1, <2>1 DEF CallRow
  <1>14. {"deliveries", "riders", "stores", "bulk riders", "bulk deliveries"} \subseteq CallStep \ {"idle"}
    BY DEF CallStep
  <1>6. CASE DeleteOffers(c)
    <2>1. Goes(c, "deliveries") /\ offers' = {}
      BY <1>6 DEF DeleteOffers
    <2>2. call'[c].at = "deliveries" /\ call'[c].reply = call[c].reply /\ call'[c].kind = call[c].kind
          /\ call'[c].upset = call[c].upset
      BY <1>3, <1>14, <2>1
    <2> QED
      BY <2>1, <2>2
  <1>7. CASE DeleteDeliveries(c)
    <2>1. CASE Rejected(c) /\ offers # {}
      <3>1. Is(c, "deliveries")
        BY <1>7 DEF DeleteDeliveries
      <3> QED
        BY <1>5, <2>1, <3>1
    <2>2. CASE offers = {} /\ deliveries' = {} /\ Goes(c, "riders") /\ UNCHANGED offers
      <3>1. call'[c].at = "riders" /\ call'[c].reply = call[c].reply /\ call'[c].kind = call[c].kind
            /\ call'[c].upset = call[c].upset
        BY <1>3, <1>14, <2>2
      <3> QED
        BY <2>2, <3>1
    <2> QED
      BY <1>7, <2>1, <2>2 DEF DeleteDeliveries
  <1>8. CASE DeleteRiders(c)
    <2>1. CASE Rejected(c) /\ offers # {}
      <3>1. Is(c, "riders")
        BY <1>8 DEF DeleteRiders
      <3> QED
        BY <1>5, <2>1, <3>1
    <2>2. CASE Goes(c, "stores") /\ row' = [r \in Rider |-> None] /\ UNCHANGED deliveries
      <3>1. call'[c].at = "stores" /\ call'[c].reply = call[c].reply /\ call'[c].kind = call[c].kind
            /\ call'[c].upset = call[c].upset
        BY <1>3, <1>14, <2>2
      <3>2. call[c].at = "riders"
        BY <1>8 DEF DeleteRiders
      <3> QED
        BY <2>2, <3>1, <3>2
    <2> QED
      BY <1>8, <2>1, <2>2 DEF DeleteRiders
  <1>9. CASE DeleteStores(c)
    <2>1. CASE Rejected(c) /\ deliveries # {}
      <3>1. Is(c, "stores")
        BY <1>9 DEF DeleteStores
      <3> QED
        BY <1>5, <2>1, <3>1
    <2>2. CASE Ends(c, "done", "ok")
      BY <1>4, <1>9, <2>2 DEF DeleteStores
    <2>3. CASE /\ call' = [Upset(c) EXCEPT ![c].at = "insert stores", ![c].todo = DemoStore]
               /\ UNCHANGED row
      <3> DEFINE x == [call[c] EXCEPT !.at = "insert stores", !.todo = DemoStore]
      <3>1. x.at = "insert stores" /\ x.kind = call[c].kind /\ x.upset = call[c].upset /\ x.reply = call[c].reply
        BY <1>1 DEF CallRow
      <3>2. call'[c] = x
        BY <1>1, <2>3
      <3> HIDE DEF x
      <3> QED
        BY <1>9, <2>3, <3>1, <3>2 DEF DeleteStores
    <2> QED
      BY <1>9, <2>1, <2>2, <2>3 DEF DeleteStores
  <1>10. ASSUME NEW s \in DemoStore, InsertStore(c, s) PROVE Undisturbed(c)'
    <2>1. /\ call'[c].kind = call[c].kind /\ call'[c].upset = call[c].upset
          /\ call'[c].reply = call[c].reply /\ call'[c].at \in {"insert stores", "insert riders"}
      <3>1. CASE call' = [Upset(c) EXCEPT ![c].at = "insert riders", ![c].todo = DemoRider]
        <4> DEFINE x == [call[c] EXCEPT !.at = "insert riders", !.todo = DemoRider]
        <4>1. call'[c] = x
          BY <1>1, <3>1
        <4> QED
          BY <1>1, <4>1 DEF CallRow
      <3>2. CASE call' = [Upset(c) EXCEPT ![c].todo = @ \ {s}]
        <4> DEFINE x == [call[c] EXCEPT !.todo = @ \ {s}]
        <4>1. call'[c] = x
          BY <1>1, <3>2
        <4> QED
          BY <1>1, <1>10, <4>1 DEF CallRow, InsertStore
      <3> QED
        BY <1>10, <3>1, <3>2 DEF InsertStore
    <2> QED
      BY <1>10, <2>1 DEF InsertStore, Taken
  <1>11. ASSUME NEW p \in DemoRider, InsertRider(c, p) PROVE Undisturbed(c)'
    <2> DEFINE last == call[c].todo = {p}
               reply == IF call[c].reply = "failed" \/ Taken(p) THEN "failed"
                        ELSE IF last THEN "ok" ELSE "none"
               at == IF ~last THEN call[c].at ELSE IF reply = "ok" THEN "done" ELSE "rejected"
               x == [call[c] EXCEPT !.todo = @ \ {p}, !.reply = reply, !.at = at]
    <2>1. call'[c] = x
      BY <1>1, <1>11 DEF InsertRider
    <2>2. /\ x.kind = call[c].kind /\ x.upset = call[c].upset /\ x.reply = reply
          /\ x.todo = call[c].todo \ {p} /\ x.at = at
      BY <1>1 DEF CallRow
    <2>3. call[c].at = "insert riders" /\ p \in call[c].todo /\ at \in {"insert riders", "done", "rejected"}
      BY <1>11 DEF InsertRider
    <2> HIDE DEF x, at
    <2>4. CASE Taken(p)
      BY <2>1, <2>2, <2>3, <2>4
    <2>5. CASE ~Taken(p)
      <3>1. PICK r \in Rider : row' = [row EXCEPT ![r] = [status |-> "AVAILABLE", phone |-> p]]
        BY <1>11, <2>5 DEF InsertRider, InsertedAs
      <3>2. \A q \in Rider : row'[q] = row[q] \/ row'[q].phone = p
        BY <3>1 DEF DataInv, DataTypeOK, TypeOK
      <3>3. \A q \in call[c].todo \ {p} : ~Taken(q) => ~Taken(q)'
        BY <3>2 DEF Taken
      <3>4. reply = "failed" <=> call[c].reply = "failed"
        BY <2>5
      <3> HIDE DEF reply
      <3> QED
        BY <2>1, <2>2, <2>3, <3>3, <3>4
    <2> QED
      BY <2>4, <2>5
  <1>12. CASE BulkStores(c) \/ BulkDeliveries(c) \/ \E p \in BulkPhone : BulkRiders(c, p)
    <2>1. call[c].kind = "bulk"
      BY <1>12 DEF BulkStores, BulkRiders, BulkDeliveries, DataInv, CallOK, OfBulk
    <2>2. \/ Goes(c, "bulk riders") \/ Goes(c, "bulk deliveries") \/ Ends(c, "done", "ok") \/ Rejected(c)
          \/ NothingElse(c)
      BY <1>12 DEF BulkStores, BulkRiders, BulkDeliveries
    <2>4. call'[c].kind = "bulk" /\ call'[c].at \in {"bulk riders", "bulk deliveries", "done", "rejected"}
      <3>1. CASE NothingElse(c)
        <4> DEFINE x == [call[c] EXCEPT !.at = "done", !.reply = "ok"]
        <4>1. call'[c] = x
          BY <1>1, <3>1 DEF NothingElse
        <4> QED
          BY <1>1, <2>1, <4>1 DEF CallRow
      <3> QED
        BY <1>3, <1>4, <1>5, <1>14, <2>1, <2>2, <3>1
    <2> QED
      BY <2>4
  <1> QED
    BY <1>2, <1>6, <1>7, <1>8, <1>9, <1>10, <1>11, <1>12 DEF DemoStep

LEMMA EachUndisturbedStep ==
  ASSUME DataInv, EachUndisturbed, [DataNext]_dataVars
  PROVE  EachUndisturbed'
  <1> USE DEF EachUndisturbed
  <1>1. ASSUME NEW c \in DemoCall, DemoStep(c) PROVE EachUndisturbed'
    BY <1>1, OwnStepUndisturbed, OthersUpset
  <1>2. ASSUME \/ call' = call /\ UNCHANGED tables
               \/ call' = Upset(None)
        PROVE  EachUndisturbed'
    <2>1. \A c \in DemoCall : None # c
      BY NoneIsNoRow
    <2> QED
      BY <1>2, <2>1, OthersUpset
  <1>3. ASSUME NEW t \in Task, RiderStep(t) PROVE EachUndisturbed'
    BY <1>2, <1>3 DEF RiderStep, tables
  <1>4. ASSUME NEW e \in Editor, SaveStore(e) PROVE EachUndisturbed'
    <2>1. CASE edit[e] \in stores
      BY <1>2, <1>4, <2>1 DEF SaveStore, othersKeep, tables, vars
    <2>2. CASE edit[e] \notin stores
      BY <1>2, <1>4, <2>2 DEF SaveStore
    <2> QED
      BY <2>1, <2>2
  <1>5. ASSUME NEW e \in Editor, NEW name \in DemoStore, CreateStore(e, name) PROVE EachUndisturbed'
    BY <1>2, <1>5 DEF CreateStore
  <1>6. ASSUME NEW e \in Editor, NEW s \in stores, ReadStore(e, s) PROVE EachUndisturbed'
    BY <1>2, <1>6 DEF ReadStore, othersKeep, tables, vars
  <1>7. ASSUME NEW o \in Order, NEW s \in stores, OrderDelivery(o, s) PROVE EachUndisturbed'
    BY <1>2, <1>7 DEF OrderDelivery
  <1>8. ASSUME NEW d \in deliveries, NEW r \in Rider, OfferDelivery(d, r) PROVE EachUndisturbed'
    BY <1>2, <1>8 DEF OfferDelivery
  <1>9. CASE UNCHANGED dataVars
    BY <1>2, <1>9 DEF dataVars, tables, vars
  <1> QED
    BY <1>1, <1>3, <1>4, <1>5, <1>6, <1>7, <1>8, <1>9 DEF DataNext

(* However many seeds, resets, editors, riders and customers there are, a  *)
(* seed or a reset fails only if somebody else's statement changed the     *)
(* tables while it ran (demo.service.ts: its own order of deletes and      *)
(* inserts never runs into a foreign key or a taken phone).                *)
THEOREM FailsOnlyDisturbedAlways == DataSpec => []FailsOnlyDisturbed
  <1>1. DataInit => EachUndisturbed
    <2> SUFFICES ASSUME DataInit, NEW c \in DemoCall PROVE Undisturbed(c)
      BY DEF EachUndisturbed
    <2>1. call[c].at = "idle" /\ call[c].reply = "none"
      BY DEF DataInit
    <2> QED
      BY <2>1 DEF Undisturbed, Is
  <1>2. EachUndisturbed => FailsOnlyDisturbed
    BY DEF EachUndisturbed, Undisturbed, FailsOnlyDisturbed
  <1> QED
    BY <1>1, <1>2, DataInvAlways, EachUndisturbedStep, PTL DEF DataSpec

-------------------------------------------------------------------------------
(* Why the status in Redis is the one in the table. The entity of the one  *)
(* call on a rider has not gone stale while he had no other.               *)
Agrees(r, status) == redis[r] = status \/ (redis[r] = None /\ origin[r] # None)

CalmCall(r, t) ==
  /\ pc[t] = "save" /\ loc[t].op = "create" => ~Stored(r)
  /\ pc[t] = "save" /\ loc[t].op = "status" => (Stored(r) => Agrees(r, row[r].status))
  /\ pc[t] = "save" /\ loc[t].op = "profile" =>
       Agrees(r, loc[t].entity.status) /\ (Stored(r) => row[r].status = loc[t].entity.status)
  /\ pc[t] = "sync" => (Stored(r) => row[r].status = loc[t].entity.status)

Calm(r) ==
  /\ \A t, u \in Task : loc[t].rider = r /\ loc[u].rider = r => t = u
  /\ \A t \in Task : loc[t].rider = r => CalmCall(r, t)
  /\ Stored(r) /\ ~Busy(r) => Agrees(r, row[r].status)

EachCalm == \A r \in Rider \ disturbed : Calm(r)

(* A step that leaves a rider's row, key and calls alone, or deletes him.  *)
LEMMA CalmStays ==
  ASSUME NEW r \in Rider, Calm(r),
         redis'[r] = redis[r], origin'[r] = origin[r] \/ origin'[r] # None,
         row'[r] = row[r] \/ row'[r] = None,
         \A t \in Task : loc[t].rider = r \/ loc'[t].rider = r => loc'[t] = loc[t] /\ pc'[t] = pc[t]
  PROVE  Calm(r)'
  <1>1. \A t, u \in Task : loc'[t].rider = r /\ loc'[u].rider = r => t = u
    BY DEF Calm
  <1>2. ASSUME NEW t \in Task, loc'[t].rider = r PROVE CalmCall(r, t)'
    <2>1. loc'[t] = loc[t] /\ pc'[t] = pc[t] /\ CalmCall(r, t)
      BY <1>2 DEF Calm
    <2> QED
      BY <2>1 DEF CalmCall, Agrees, Stored
  <1>3. row'[r] # None /\ ~Busy(r)' => Agrees(r, row[r].status)'
    <2>1. ~Busy(r)' => ~Busy(r)
      BY DEF Busy
    <2> QED
      BY <2>1 DEF Calm, Agrees, Stored
  <1> QED
    BY <1>1, <1>2, <1>3 DEF Calm, Stored

(* The step of a call t that was and is, or becomes, the only one on r.    *)
LEMMA CalmOwnStep ==
  ASSUME NEW r \in Rider, NEW t \in Task,
         \A u \in Task \ {t} : loc'[u].rider # r,
         loc'[t].rider = r => CalmCall(r, t)',
         loc'[t].rider # r /\ row'[r] # None => Agrees(r, row[r].status)'
  PROVE  Calm(r)'
  BY DEF Calm, Busy, Stored

LEMMA CalmRider ==
  ASSUME DataInv, EachCalm, NEW t \in Task, RiderStep(t)
  PROVE  EachCalm'
  <1> USE DEF DataInv, DataTypeOK
  <1>1. /\ \A q \in Rider : Stored(q) => Stored(q)'
        /\ \A u \in Task \ {t} : pc'[u] = pc[u] /\ loc'[u] = loc[u]
        /\ disturbed \subseteq disturbed' /\ UNCHANGED origin
    <2>1. disturbed \subseteq disturbed' /\ UNCHANGED origin
      BY DEF RiderStep, Create, Update, UpdateStatus, Begin, Save, Sync, Fail
    <2> QED
      BY <2>1, RiderTypes DEF RiderStep
  <1> SUFFICES ASSUME NEW r \in Rider, r \notin disturbed, r \notin disturbed', Calm(r) PROVE Calm(r)'
    BY <1>1 DEF EachCalm
  <1>2. loc[t] = Blank \/ loc[t] \in [op : {"create", "status", "profile"}, rider : Rider, entity : Row]
    BY DEF TypeOK
  <1>3. Blank.rider # r
    BY NoneIsFresh DEF Blank
  <1>4. row \in [Rider -> Row \cup {None}] /\ redis \in [Rider -> Status \cup {None}]
        /\ pc \in [Task -> {"idle", "save", "sync"}] /\ (pc[t] # "idle" => loc[t] # Blank)
        /\ loc = [u \in Task |-> loc[u]]
    BY DEF TypeOK
  (* A call begins.                                                        *)
  <1>5. ASSUME NEW op, NEW q \in Rider, NEW e \in Row, Begin(t, op, q, e, "save"),
               UNCHANGED <<row, redis, faults>>,
               op = "create" /\ q = r => ~Stored(r),
               op = "status" /\ q = r => Stored(r),
               op = "profile" /\ q = r => Stored(r) /\ e.status = row[r].status
        PROVE  Calm(r)'
    <2> DEFINE l == [op |-> op, rider |-> q, entity |-> e]
    <2>1. pc[t] = "idle" /\ loc[t] = Blank /\ pc'[t] = "save" /\ loc'[t] = l
      BY <1>4, <1>5 DEF Begin, Goto, TypeOK
    <2>2. l.op = op /\ l.rider = q /\ l.entity = e
      OBVIOUS
    <2> HIDE DEF l
    <2>3. CASE q # r
      BY <1>1, <1>3, <1>5, <2>1, <2>2, <2>3, CalmStays
    <2>4. CASE q = r
      <3>1. ~Busy(r)
        BY <1>5, <2>4 DEF Begin
      <3>2. \A u \in Task \ {t} : loc'[u].rider # r
        BY <1>1, <3>1 DEF Busy
      <3>3. Stored(r) => Agrees(r, row[r].status)
        BY <3>1 DEF Calm
      <3>4. CalmCall(r, t)'
        BY <1>1, <1>5, <2>1, <2>2, <2>4, <3>3 DEF CalmCall, Agrees, Stored
      <3> QED
        BY <2>1, <2>2, <2>4, <3>2, <3>4, CalmOwnStep
    <2> QED
      BY <2>3, <2>4
  <1>6. ASSUME NEW q \in Rider, NEW p \in Phone, Create(t, q, p) PROVE Calm(r)'
    <2>1. [status |-> "OFFLINE", phone |-> p] \in Row
      BY DEF Row, Status
    <2> QED
      BY <1>5, <1>6, <2>1 DEF Create
  <1>7. ASSUME NEW q \in Rider, NEW p \in Phone, Update(t, q, p) PROVE Calm(r)'
    <2>1. [row[q] EXCEPT !.phone = p] \in Row /\ [row[q] EXCEPT !.phone = p].status = row[q].status
      BY <1>4, <1>7 DEF Update, Stored, Row
    <2> QED
      BY <1>5, <1>7, <2>1 DEF Update
  <1>8. ASSUME NEW q \in Rider, NEW s \in Status, UpdateStatus(t, q, s) PROVE Calm(r)'
    <2>1. [row[q] EXCEPT !.status = s] \in Row
      BY <1>4, <1>8 DEF UpdateStatus, Stored, Row
    <2> QED
      BY <1>5, <1>8, <2>1 DEF UpdateStatus
  (* A call goes on, or ends.                                              *)
  <1>9. ASSUME pc[t] # "idle", loc[t].rider # r, loc' = loc \/ Done(t),
               row'[r] = row[r], redis'[r] = redis[r]
        PROVE  Calm(r)'
    <2>1. loc'[t].rider # r
      BY <1>3, <1>4, <1>9 DEF Done
    <2> QED
      BY <1>1, <1>9, <2>1, CalmStays
  <1>10. ASSUME pc[t] # "idle", loc[t].rider = r
         PROVE  /\ \A u \in Task \ {t} : loc'[u].rider # r
                /\ CalmCall(r, t) /\ loc[t].entity \in Row /\ loc[t].entity # None
    BY <1>1, <1>2, <1>4, <1>10, NoneIsFresh DEF Calm
  <1>11. CASE Save(t)
    <2>1. CASE loc[t].rider # r
      BY <1>2, <1>4, <1>9, <1>11, <2>1 DEF Save
    <2>2. CASE loc[t].rider = r
      <3>1. CASE Done(t) /\ UNCHANGED row
        BY <1>1, <1>2, <1>3, <1>4, <1>10, <1>11, <2>2, <3>1, CalmOwnStep DEF Save, Done, CalmCall, Agrees, Stored
      <3>2. CASE row' = [row EXCEPT ![r] = loc[t].entity] /\ loc[t].op = "profile" /\ Done(t)
        BY <1>1, <1>2, <1>3, <1>4, <1>10, <1>11, <2>2, <3>2, CalmOwnStep DEF Save, Done, CalmCall, Agrees, Stored
      <3>3. CASE row' = [row EXCEPT ![r] = loc[t].entity] /\ Goto(t, "sync") /\ UNCHANGED loc
        BY <1>1, <1>2, <1>3, <1>4, <1>10, <1>11, <2>2, <3>3, CalmOwnStep DEF Save, Goto, CalmCall, Agrees, Stored
      <3> QED
        BY <1>11, <2>2, <3>1, <3>2, <3>3 DEF Save
    <2> QED
      BY <2>1, <2>2
  <1>12. CASE Sync(t)
    <2>1. CASE loc[t].rider # r
      BY <1>4, <1>9, <1>12, <2>1 DEF Sync
    <2>2. CASE loc[t].rider = r
      <3>1. redis'[r] = loc[t].entity.status /\ loc'[t] = Blank /\ UNCHANGED row
        BY <1>4, <1>12, <2>2 DEF Sync, Done
      <3> QED
        BY <1>1, <1>3, <1>10, <1>12, <2>2, <3>1, CalmOwnStep DEF Sync, CalmCall, Agrees, Stored
    <2> QED
      BY <2>1, <2>2
  <1>13. CASE Fail(t)
    <2>1. loc[t].rider # r
      BY <1>13 DEF Fail
    <2> QED
      BY <1>9, <1>13, <2>1 DEF Fail
  <1> QED
    BY <1>6, <1>7, <1>8, <1>11, <1>12, <1>13 DEF RiderStep

LEMMA CalmDemo ==
  ASSUME DataInv, EachCalm, NEW c \in DemoCall, DemoStep(c)
  PROVE  EachCalm'
  <1> USE DEF DataInv, DataTypeOK
  <1>1. demoKeeps
    BY DEF DemoStep, Start, DeleteOffers, DeleteDeliveries, DeleteRiders, DeleteStores, InsertStore,
       InsertRider, BulkStores, BulkRiders, BulkDeliveries
  <1>2. \/ UNCHANGED <<row, origin>>
        \/ row' = [r \in Rider |-> None] /\ UNCHANGED origin
        \/ \E q \in Rider, p \in DemoRider \cup BulkPhone : InsertedAs(q, c, p)
    BY DEF DemoStep, Start, DeleteOffers, DeleteDeliveries, DeleteRiders, DeleteStores, InsertStore,
       InsertRider, BulkStores, BulkRiders, BulkDeliveries, NothingElse, Rejected, tables
  <1> SUFFICES ASSUME NEW r \in Rider, r \notin disturbed, Calm(r) PROVE Calm(r)'
    BY <1>1 DEF EachCalm, demoKeeps
  <1>3. CASE UNCHANGED <<row, origin>> \/ (row' = [q \in Rider |-> None] /\ UNCHANGED origin)
    BY <1>1, <1>3, CalmStays DEF demoKeeps
  <1>4. ASSUME NEW q \in Rider, NEW p \in DemoRider \cup BulkPhone, InsertedAs(q, c, p) PROVE Calm(r)'
    <2>1. /\ origin \in [Rider -> Origin \cup {None}] /\ row \in [Rider -> Row \cup {None}]
          /\ [by |-> c, name |-> p] \in Origin /\ [by |-> c, name |-> p] # None
      BY NoneIsNoRow DEF TypeOK, Origin
    <2>2. CASE q # r
      BY <1>1, <1>4, <2>1, <2>2, CalmStays DEF InsertedAs, demoKeeps
    <2>3. CASE q = r
      <3>1. ~Busy(r) /\ redis[r] = None
        BY <1>4, <2>3 DEF InsertedAs, Born, GhostsWereDeleted
      <3>2. origin'[r] # None /\ redis'[r] = None /\ \A t \in Task : loc'[t].rider # r
        BY <1>1, <1>4, <2>1, <2>3, <3>1 DEF InsertedAs, demoKeeps, Busy
      <3> QED
        BY <3>2 DEF Calm, Agrees
    <2> QED
      BY <2>2, <2>3
  <1> QED
    BY <1>2, <1>3, <1>4

LEMMA CalmStep ==
  ASSUME DataInv, EachCalm, [DataNext]_dataVars
  PROVE  EachCalm'
  <1>1. CASE othersKeep
    BY <1>1, CalmStays DEF othersKeep, vars, EachCalm
  <1>2. CASE UNCHANGED dataVars
    BY <1>1, <1>2 DEF dataVars, othersKeep
  <1>3. CASE \E c \in DemoCall : DemoStep(c)
    BY <1>3, CalmDemo
  <1>4. CASE \E t \in Task : RiderStep(t)
    BY <1>4, CalmRider
  <1>5. \/ \E c \in DemoCall : DemoStep(c)
        \/ \E t \in Task : RiderStep(t)
        \/ othersKeep \/ UNCHANGED dataVars
    BY DEF DataNext, CreateStore, ReadStore, SaveStore, OrderDelivery, OfferDelivery
  <1> QED
    BY <1>1, <1>2, <1>3, <1>4, <1>5

LEMMA CalmAlways == DataSpec => [](DataInv /\ EachCalm)
  <1>1. DataInit => EachCalm
    <2> SUFFICES ASSUME DataInit, NEW r \in Rider PROVE Calm(r)
      BY DEF EachCalm
    <2>1. \A t \in Task : loc[t].rider # r
      BY NoneIsFresh DEF DataInit, Init, Blank
    <2>2. ~Stored(r)
      BY DEF DataInit, Init, Stored
    <2> QED
      BY <2>1, <2>2 DEF Calm
  <1> QED
    BY <1>1, DataInvAlways, CalmStep, PTL DEF DataSpec

(* A rider whose calls ran one at a time and to their end has the same     *)
(* status in Redis as in the table, whatever resets, seeds and the calls   *)
(* on other riders do (rider.service.ts: save before setStatus).           *)
THEOREM SameStatusAlways == DataSpec => []SameStatus
  <1>1. EachCalm => SameStatus
    BY DEF EachCalm, Calm, Agrees, SameStatus
  <1> QED
    BY <1>1, CalmAlways, PTL

(* Unless calls on a rider overlap or fail, his status changes in the      *)
(* table only under a call of updateStatus: update saves a whole entity,   *)
(* but not a stale one (rider.service.ts).                                 *)
THEOREM ChangedOnRequestAlways == DataSpec => ChangedOnRequest
  <1> USE DEF DataInv, DataTypeOK
  <1> DEFINE Requested == \A r \in Rider \ disturbed :
               Stored(r) /\ row'[r] # None /\ row'[r].status # row[r].status
                 => \E t \in Task : loc[t].op = "status" /\ loc[t].rider = r
  <1>1. ASSUME DataInv, EachCalm, [DataNext]_dataVars PROVE [Requested]_vars
    <2> SUFFICES ASSUME NEW r \in Rider, r \notin disturbed, row[r] # None, row'[r] # None,
                        row'[r].status # row[r].status
                 PROVE  \E t \in Task : loc[t].op = "status" /\ loc[t].rider = r
      BY DEF Stored
    <2>1. CASE \E c \in DemoCall : DemoStep(c)
      <3>1. PICK c \in DemoCall : DemoStep(c)
        BY <2>1
      <3>2. \/ UNCHANGED row
            \/ row' = [q \in Rider |-> None]
            \/ \E q \in Rider, p \in DemoRider \cup BulkPhone : InsertedAs(q, c, p)
        BY <3>1 DEF DemoStep, Start, DeleteOffers, DeleteDeliveries, DeleteRiders, DeleteStores,
           InsertStore, InsertRider, BulkStores, BulkRiders, BulkDeliveries, NothingElse, Rejected, tables
      <3> QED
        BY <1>1, <3>2 DEF InsertedAs, Born, Stored, TypeOK
    <2>2. ASSUME NEW t \in Task, RiderStep(t)
          PROVE  loc[t].op = "status" /\ loc[t].rider = r
      <3>1. Save(t) /\ row' = [row EXCEPT ![loc[t].rider] = loc[t].entity]
        BY <1>1, <2>2, RiderTypes DEF RiderStep
      <3>2. loc[t].rider = r /\ row'[r] = loc[t].entity /\ pc[t] = "save"
        BY <1>1, <3>1 DEF Save, TypeOK
      <3>3. loc[t].op \in {"create", "status", "profile"}
        BY <1>1, <3>2, NoneIsFresh DEF TypeOK, Blank
      <3>4. CalmCall(r, t)
        BY <1>1, <3>2 DEF EachCalm, Calm
      <3> QED
        BY <3>2, <3>3, <3>4 DEF CalmCall, Stored
    <2>3. CASE othersKeep \/ UNCHANGED dataVars
      BY <2>3 DEF othersKeep, dataVars, vars
    <2>4. \/ \E c \in DemoCall : DemoStep(c)
          \/ \E t \in Task : RiderStep(t)
          \/ othersKeep \/ UNCHANGED dataVars
      BY <1>1 DEF DataNext, CreateStore, ReadStore, SaveStore, OrderDelivery, OfferDelivery
    <2> QED
      BY <2>1, <2>2, <2>3, <2>4
  <1> QED
    BY <1>1, CalmAlways, PTL DEF DataSpec, ChangedOnRequest

-------------------------------------------------------------------------------
(* Why the demo data is there once when only seeds ran and none failed.    *)
(* The seed that deleted the riders last inserts every phone; a seed that  *)
(* has inserted one since, or will, must collide with it, since phones are *)
(* unique. So the others inserted theirs, and their stores before them,    *)
(* ahead of its deletes.                                                   *)
OnlySeeds ==
  ~meddled /\ \A c \in DemoCall : call[c].kind = "seed" /\ call[c].reply # "failed"

AfterDelete == {"stores", "insert stores", "insert riders", "done"}

Seeded(r) == Stored(r) /\ origin[r] # None
Has(c, p) == \E r \in Rider : Stored(r) /\ origin[r] = [by |-> c, name |-> p]
Claims(c, p) ==
  \/ Has(c, p)
  \/ call[c].at \in {"stores", "insert stores"}
  \/ Is(c, "insert riders") /\ p \in call[c].todo

(* A seed that collides with l, for l has or will have every phone.        *)
Rival(l) == \E c \in DemoCall \ {l}, p \in DemoRider : Claims(c, p)

StoresAreOf(l) ==
  /\ \A s \in DemoStore :
       [by |-> l, name |-> s] \in stores \/ (Is(l, "insert stores") /\ s \in call[l].todo)
  /\ \A x \in stores : x.by \in DemoCall => x.by = l

DeletedLast(l) ==
  /\ call[l].at \in AfterDelete
  /\ \A p \in DemoRider : Claims(l, p)
  /\ Is(l, "stores") \/ Rival(l) \/ StoresAreOf(l)

RidersOnce ==
  /\ \A r \in Rider : Seeded(r) => row[r].phone = origin[r].name /\ origin[r].name \in DemoRider
  /\ \A r, q \in Rider : Seeded(r) /\ Seeded(q) /\ origin[r].name = origin[q].name => r = q

StoresOfDemo == \A x \in stores : x.by \in DemoCall => x.name \in DemoStore

SomeDeletedLast ==
  (\E c \in DemoCall : call[c].at \in AfterDelete) => \E l \in DemoCall : DeletedLast(l)

SeedsOnce == OnlySeeds => RidersOnce /\ StoresOfDemo /\ SomeDeletedLast

(* A call that has not begun is a clean slate, and a failed one has not    *)
(* ended well.                                                             *)
CallsShow ==
  \A c \in DemoCall :
    /\ Is(c, "idle") => call[c].kind = "seed" /\ call[c].reply = "none"
    /\ call[c].reply = "failed" => call[c].at \in {"insert riders", "rejected"}


(* What the steps of a seed that does not fail do.                         *)
SeedPrepares(c) ==
  call[c].at \notin AfterDelete /\ call'[c].at \notin AfterDelete /\ UNCHANGED <<row, origin, stores>>
SeedDeletesRiders(c) ==
  /\ call'[c].at = "stores" /\ row' = [r \in Rider |-> None] /\ UNCHANGED <<origin, stores>>
SeedDeletesStores(c) ==
  /\ call[c].at = "stores" /\ call'[c].at = "insert stores" /\ call'[c].todo = DemoStore
  /\ stores' = {} /\ UNCHANGED <<row, origin>>
SeedInsertsStore(c, s) ==
  /\ call[c].at = "insert stores" /\ s \in call[c].todo
  /\ \/ call[c].todo = {s} /\ call'[c].at = "insert riders" /\ call'[c].todo = DemoRider
     \/ call'[c].at = "insert stores" /\ call'[c].todo = call[c].todo \ {s}
  /\ stores' = stores \cup {[by |-> c, name |-> s]} /\ UNCHANGED <<row, origin>>
SeedInsertsRider(c, p) ==
  /\ call[c].at = "insert riders" /\ p \in call[c].todo /\ ~Taken(p)
  /\ call'[c].todo = call[c].todo \ {p}
  /\ \/ call'[c].at = "insert riders"
     \/ call'[c].at = "done" /\ call[c].todo = {p}
  /\ \E r \in Rider : InsertedAs(r, c, p)

SeedStep(c) ==
  \/ SeedPrepares(c) \/ SeedDeletesRiders(c) \/ SeedDeletesStores(c)
  \/ \E s \in DemoStore : SeedInsertsStore(c, s)
  \/ \E p \in DemoRider : SeedInsertsRider(c, p)

SameCall(c) ==
  /\ call'[c].kind = call[c].kind /\ call'[c].at = call[c].at
  /\ call'[c].todo = call[c].todo /\ call'[c].reply = call[c].reply

LEMMA UpsetIsSame ==
  ASSUME DataInv, NEW c \in DemoCall, NEW by,
         call'[c] = call[c] \/ call'[c] = Upset(by)[c]
  PROVE  SameCall(c)
  BY UpsetKeeps DEF DataInv, SameCall

LEMMA DemoStepSeeds ==
  ASSUME DataInv, CallsShow, NEW c \in DemoCall, DemoStep(c)
  PROVE  /\ CallsShow' /\ (OnlySeeds' => OnlySeeds /\ SeedStep(c))
         /\ \A d \in DemoCall \ {c} : SameCall(d)
  <1> USE DEF Is
  <1>1. /\ Upset(c) \in [DemoCall -> CallRow] /\ Upset(c)[c] = call[c]
        /\ call \in [DemoCall -> CallRow] /\ call[c] \in CallRow
    BY UpsetKeeps DEF DataInv, CallOK, Upset
  <1>2. \A d \in DemoCall \ {c} : SameCall(d)
    <2>1. \A d \in DemoCall \ {c} : call'[d] = call[d] \/ call'[d] = Upset(c)[d]
      BY <1>1 DEF DemoStep, Start, DeleteOffers, DeleteDeliveries, DeleteRiders, DeleteStores, InsertStore,
         InsertRider, BulkStores, BulkRiders, BulkDeliveries, NothingElse, Goes, Ends, Rejected
    <2> QED
      BY <2>1, UpsetIsSame
  <1>3. UNCHANGED meddled
    BY DEF DemoStep, Start, DeleteOffers, DeleteDeliveries, DeleteRiders, DeleteStores, InsertStore,
       InsertRider, BulkStores, BulkRiders, BulkDeliveries, demoKeeps
  <1> DEFINE Good == /\ call'[c].at # "idle"
                     /\ call'[c].reply = "failed" => call'[c].at \in {"insert riders", "rejected"}
                     /\ call'[c].kind = "seed" /\ call'[c].reply # "failed" =>
                          call[c].kind = "seed" /\ call[c].reply # "failed" /\ SeedStep(c)
  <1> SUFFICES Good
    BY <1>2, <1>3 DEF CallsShow, OnlySeeds, SameCall
  <1> USE DEF SeedStep, SeedPrepares, SeedDeletesRiders, SeedDeletesStores, SeedInsertsStore,
          SeedInsertsRider, AfterDelete
  <1>4. /\ call[c].reply = "failed" => call[c].at \in {"insert riders", "rejected"}
        /\ call[c].at = "idle" => call[c].kind = "seed" /\ call[c].reply = "none"
    BY DEF CallsShow
  (* What becomes of the call.                                             *)
  <1>5. ASSUME NEW step \in CallStep, Goes(c, step)
        PROVE  /\ call'[c].at = step /\ call'[c].kind = call[c].kind
               /\ call'[c].reply = call[c].reply /\ call'[c].todo = call[c].todo
    <2>1. call'[c] = [call[c] EXCEPT !.at = step]
      BY <1>1, <1>5 DEF Goes
    <2> QED
      BY <1>1, <2>1 DEF CallRow
  <1>6. ASSUME Rejected(c) PROVE Good
    <2>1. call'[c] = [call[c] EXCEPT !.at = "rejected", !.reply = "failed"]
      BY <1>1, <1>6 DEF Rejected
    <2>2. call'[c].at = "rejected" /\ call'[c].reply = "failed"
      BY <1>1, <2>1 DEF CallRow
    <2> QED
      BY <2>2
  <1>7. ASSUME call[c].kind = "bulk" \/ call[c].kind = "reset", Ends(c, "done", "ok"),
               call[c].at \notin {"insert riders", "rejected"}
        PROVE Good
    <2> DEFINE x == [call[c] EXCEPT !.at = "done", !.reply = IF @ = "none" THEN "ok" ELSE @]
    <2>1. call'[c] = x
      BY <1>1, <1>7 DEF Ends
    <2>2. x.at = "done" /\ x.kind = call[c].kind /\ x.reply \in {"ok", call[c].reply}
      BY <1>1 DEF CallRow
    <2> HIDE DEF x
    <2> QED
      BY <1>4, <1>7, <2>1, <2>2
  <1>8. ASSUME NEW kind \in Kind, Start(c, kind) PROVE Good
    <2> DEFINE x == [call[c] EXCEPT !.kind = kind, !.at = IF kind = "bulk" THEN "bulk stores" ELSE "offers"]
    <2>1. x.reply = call[c].reply /\ x.at \in {"bulk stores", "offers"}
      BY <1>1 DEF CallRow
    <2>2. call'[c] = x /\ call[c].at = "idle" /\ UNCHANGED <<row, origin, stores>>
      BY <1>1, <1>8 DEF Start, tables
    <2> HIDE DEF x
    <2> QED
      BY <1>4, <2>1, <2>2
  <1>9. {"deliveries", "riders", "stores", "bulk riders", "bulk deliveries"} \subseteq CallStep
    BY DEF CallStep
  <1>10. CASE DeleteOffers(c)
    <2>1. /\ call[c].at = "offers" /\ call'[c].at = "deliveries" /\ call'[c].kind = call[c].kind
          /\ call'[c].reply = call[c].reply /\ UNCHANGED <<row, origin, stores>>
      BY <1>5, <1>9, <1>10 DEF DeleteOffers
    <2> QED
      BY <1>4, <2>1
  <1>11. CASE DeleteDeliveries(c)
    <2>1. CASE Rejected(c)
      BY <1>6, <2>1
    <2>2. CASE Goes(c, "riders") /\ UNCHANGED <<row, stores, offers, origin, deleted>>
      <3>1. /\ call[c].at = "deliveries" /\ call'[c].at = "riders" /\ call'[c].kind = call[c].kind
            /\ call'[c].reply = call[c].reply /\ UNCHANGED <<row, origin, stores>>
        BY <1>5, <1>9, <1>11, <2>2 DEF DeleteDeliveries
      <3> QED
        BY <1>4, <3>1
    <2> QED
      BY <1>11, <2>1, <2>2 DEF DeleteDeliveries
  <1>12. CASE DeleteRiders(c)
    <2>1. CASE Rejected(c)
      BY <1>6, <2>1
    <2>2. CASE Goes(c, "stores") /\ row' = [r \in Rider |-> None] /\ UNCHANGED <<stores, deliveries, offers, origin>>
      <3>1. /\ call[c].at = "riders" /\ call'[c].at = "stores" /\ call'[c].kind = call[c].kind
            /\ call'[c].reply = call[c].reply
        BY <1>5, <1>9, <1>12, <2>2 DEF DeleteRiders
      <3> QED
        BY <1>4, <2>2, <3>1
    <2> QED
      BY <1>12, <2>1, <2>2 DEF DeleteRiders
  <1>13. CASE DeleteStores(c)
    <2>1. CASE Rejected(c)
      BY <1>6, <2>1
    <2>2. CASE call[c].kind = "reset" /\ Ends(c, "done", "ok")
      BY <1>7, <1>13, <2>2 DEF DeleteStores
    <2>3. CASE /\ call' = [Upset(c) EXCEPT ![c].at = "insert stores", ![c].todo = DemoStore]
               /\ stores' = {} /\ UNCHANGED <<row, deliveries, offers, origin, deleted>>
      <3> DEFINE x == [call[c] EXCEPT !.at = "insert stores", !.todo = DemoStore]
      <3>1. call'[c] = x
        BY <1>1, <2>3
      <3>2. x.at = "insert stores" /\ x.todo = DemoStore /\ x.kind = call[c].kind /\ x.reply = call[c].reply
        BY <1>1 DEF CallRow
      <3>3. call[c].at = "stores"
        BY <1>13 DEF DeleteStores
      <3> HIDE DEF x
      <3> QED
        BY <1>4, <2>3, <3>1, <3>2, <3>3
    <2> QED
      BY <1>13, <2>1, <2>2, <2>3 DEF DeleteStores
  <1>14. ASSUME NEW s \in DemoStore, InsertStore(c, s) PROVE Good
    <2>1. /\ call[c].at = "insert stores" /\ s \in call[c].todo
          /\ stores' = stores \cup {[by |-> c, name |-> s]} /\ UNCHANGED <<row, origin>>
      BY <1>14 DEF InsertStore
    <2>2. CASE call[c].todo = {s} /\ call' = [Upset(c) EXCEPT ![c].at = "insert riders", ![c].todo = DemoRider]
      <3> DEFINE x == [call[c] EXCEPT !.at = "insert riders", !.todo = DemoRider]
      <3>1. call'[c] = x
        BY <1>1, <2>2
      <3>2. x.at = "insert riders" /\ x.todo = DemoRider /\ x.kind = call[c].kind /\ x.reply = call[c].reply
        BY <1>1 DEF CallRow
      <3> HIDE DEF x
      <3>3. SeedInsertsStore(c, s)
        BY <2>1, <2>2, <3>1, <3>2
      <3> QED
        BY <1>4, <2>1, <3>1, <3>2, <3>3
    <2>3. CASE call' = [Upset(c) EXCEPT ![c].todo = @ \ {s}]
      <3> DEFINE x == [call[c] EXCEPT !.todo = @ \ {s}]
      <3>1. call'[c] = x
        BY <1>1, <2>3
      <3>2. x.at = call[c].at /\ x.todo = call[c].todo \ {s} /\ x.kind = call[c].kind /\ x.reply = call[c].reply
        BY <1>1 DEF CallRow
      <3> HIDE DEF x
      <3>3. SeedInsertsStore(c, s)
        BY <2>1, <3>1, <3>2
      <3> QED
        BY <1>4, <2>1, <3>1, <3>2, <3>3
    <2> QED
      BY <1>14, <2>2, <2>3 DEF InsertStore
  <1>15. ASSUME NEW p \in DemoRider, InsertRider(c, p) PROVE Good
    <2> DEFINE last == call[c].todo = {p}
               reply == IF call[c].reply = "failed" \/ Taken(p) THEN "failed"
                        ELSE IF last THEN "ok" ELSE "none"
               at == IF ~last THEN call[c].at ELSE IF reply = "ok" THEN "done" ELSE "rejected"
               x == [call[c] EXCEPT !.todo = @ \ {p}, !.reply = reply, !.at = at]
    <2>1. call'[c] = x
      BY <1>1, <1>15 DEF InsertRider
    <2>2. x.kind = call[c].kind /\ x.reply = reply /\ x.todo = call[c].todo \ {p} /\ x.at = at
      BY <1>1 DEF CallRow
    <2>3. call[c].at = "insert riders" /\ p \in call[c].todo
      BY <1>15 DEF InsertRider
    <2> HIDE DEF x
    <2>4. CASE reply = "failed"
      <3>1. at \in {"insert riders", "rejected"}
        BY <2>3, <2>4
      <3> QED
        BY <2>1, <2>2, <2>4, <3>1
    <2>5. CASE reply # "failed"
      <3>1. call[c].reply # "failed" /\ ~Taken(p) /\ at \in {"insert riders", "done"} /\ (at = "done" => last)
        BY <2>3, <2>5
      <3>2. \E r \in Rider : InsertedAs(r, c, p)
        BY <1>15, <3>1 DEF InsertRider
      <3> HIDE DEF at, reply
      <3>3. SeedInsertsRider(c, p)
        BY <2>1, <2>2, <2>3, <3>1, <3>2
      <3> QED
        BY <2>1, <2>2, <2>5, <3>1, <3>3
    <2> QED
      BY <2>4, <2>5
  <1>16. CASE BulkStores(c) \/ BulkDeliveries(c) \/ \E p \in BulkPhone : BulkRiders(c, p)
    <2>1. call[c].kind = "bulk" /\ call[c].at \notin {"idle", "insert riders", "rejected"}
      BY <1>16 DEF BulkStores, BulkRiders, BulkDeliveries, DataInv, CallOK, OfBulk
    <2>2. \/ Goes(c, "bulk riders") \/ Goes(c, "bulk deliveries") \/ Ends(c, "done", "ok") \/ Rejected(c)
          \/ NothingElse(c)
      BY <1>16 DEF BulkStores, BulkRiders, BulkDeliveries
    <2>3. CASE Goes(c, "bulk riders") \/ Goes(c, "bulk deliveries")
      <3>1. /\ call'[c].at \in {"bulk riders", "bulk deliveries"} /\ call'[c].kind = "bulk"
            /\ call'[c].reply = call[c].reply
        BY <1>5, <1>9, <2>1, <2>3
      <3> QED
        BY <1>4, <2>1, <3>1
    <2>4. CASE NothingElse(c)
      <3> DEFINE x == [call[c] EXCEPT !.at = "done", !.reply = "ok"]
      <3>1. call'[c] = x
        BY <1>1, <2>4 DEF NothingElse
      <3>2. call'[c].at = "done" /\ call'[c].kind = call[c].kind /\ call'[c].reply = "ok"
        BY <1>1, <3>1 DEF CallRow
      <3> QED
        BY <1>4, <2>1, <3>2
    <2> QED
      BY <1>6, <1>7, <2>1, <2>2, <2>3, <2>4
  <1> HIDE DEF Good
  <1> QED
    BY <1>8, <1>10, <1>11, <1>12, <1>13, <1>14, <1>15, <1>16 DEF DemoStep

-------------------------------------------------------------------------------
(* A step that leaves the demo's riders, stores and calls alone.           *)
LEMMA SeedsUndisturbed ==
  ASSUME RidersOnce, StoresOfDemo, SomeDeletedLast,
         \A c \in DemoCall : SameCall(c), UNCHANGED origin,
         \A r \in Rider : origin[r] # None =>
           (Stored(r)' <=> Stored(r)) /\ (Stored(r) => row'[r].phone = row[r].phone),
         \A x : x.by \in DemoCall => (x \in stores' <=> x \in stores)
  PROVE  RidersOnce' /\ StoresOfDemo' /\ SomeDeletedLast'
  <1> USE DEF Is, SameCall
  <1>1. RidersOnce'
    BY DEF RidersOnce, Seeded, Stored
  <1>2. StoresOfDemo'
    BY DEF StoresOfDemo
  <1>3. \A c \in DemoCall, p \in DemoRider : Claims(c, p)' <=> Claims(c, p)
    <2> SUFFICES ASSUME NEW c \in DemoCall, NEW p \in DemoRider PROVE Claims(c, p)' <=> Claims(c, p)
      OBVIOUS
    <2>1. [by |-> c, name |-> p] # None
      BY NoneIsNoRow DEF Origin
    <2>2. Has(c, p)' <=> Has(c, p)
      BY <2>1 DEF Has, Stored
    <2> QED
      BY <2>2 DEF Claims
  <1>4. \A l \in DemoCall : Rival(l)' <=> Rival(l)
    BY <1>3 DEF Rival
  <1>5. ASSUME NEW l \in DemoCall, StoresAreOf(l) PROVE StoresAreOf(l)'
    <2>1. \A s \in DemoStore : [by |-> l, name |-> s] \in stores' <=> [by |-> l, name |-> s] \in stores
      OBVIOUS
    <2> QED
      BY <1>5, <2>1 DEF StoresAreOf
  <1>6. \A l \in DemoCall : DeletedLast(l) => DeletedLast(l)'
    BY <1>3, <1>4, <1>5 DEF DeletedLast
  <1> QED
    BY <1>1, <1>2, <1>6 DEF SomeDeletedLast

(* A step after which everybody claims what he claimed before: the seed    *)
(* that deleted last is still that one, if its stores are.                 *)
LEMMA LastStays ==
  ASSUME SomeDeletedLast, NEW c \in DemoCall, \A d \in DemoCall \ {c} : SameCall(d),
         call[c].at \in AfterDelete, call'[c].at \in AfterDelete,
         \A d \in DemoCall, p \in DemoRider : Claims(d, p) => Claims(d, p)',
         ASSUME NEW l \in DemoCall, DeletedLast(l), ~Rival(l), StoresAreOf(l) \/ Is(l, "stores")
         PROVE  StoresAreOf(l)' \/ Is(l, "stores")'
  PROVE  SomeDeletedLast'
  <1>1. PICK l \in DemoCall : DeletedLast(l)
    BY DEF SomeDeletedLast
  <1>2. call'[l].at \in AfterDelete
    BY <1>1 DEF DeletedLast, SameCall
  <1>3. Rival(l) => Rival(l)'
    BY DEF Rival
  <1>4. DeletedLast(l)'
    BY <1>1, <1>2, <1>3 DEF DeletedLast
  <1> QED
    BY <1>4 DEF SomeDeletedLast

LEMMA SeedStepKeeps ==
  ASSUME DataInv, CallsShow, NEW c \in DemoCall, SeedStep(c), \A d \in DemoCall \ {c} : SameCall(d),
         RidersOnce, StoresOfDemo, SomeDeletedLast
  PROVE  RidersOnce' /\ StoresOfDemo' /\ SomeDeletedLast'
  <1> USE DEF Is
  <1>1. ASSUME NEW d \in DemoCall \ {c}, NEW p \in DemoRider, UNCHANGED <<row, origin>>
        PROVE  Claims(d, p)' <=> Claims(d, p)
    BY <1>1 DEF Claims, Has, Stored, SameCall
  <1>2. PICK phone : phone \in DemoRider
    BY DemoHasRows
  <1>3. CASE SeedPrepares(c)
    <2>1. ASSUME NEW l \in DemoCall, DeletedLast(l) PROVE DeletedLast(l)'
      <3>1. l # c /\ SameCall(l)
        BY <1>3, <2>1 DEF DeletedLast, SeedPrepares
      <3>2. \A p \in DemoRider : Claims(l, p)'
        BY <1>1, <1>3, <2>1, <3>1 DEF DeletedLast, SeedPrepares
      <3>3. \A d \in DemoCall, p \in DemoRider : Claims(d, p) => Claims(d, p)'
        <4>1. \A p \in DemoRider : Claims(c, p) => Claims(c, p)'
          BY <1>3 DEF SeedPrepares, AfterDelete, Claims, Has, Stored
        <4> QED
          BY <1>1, <1>3, <4>1 DEF SeedPrepares
      <3>4. Rival(l) => Rival(l)'
        BY <3>3 DEF Rival
      <3>5. StoresAreOf(l) => StoresAreOf(l)'
        BY <1>3, <3>1 DEF StoresAreOf, SameCall, SeedPrepares
      <3> QED
        BY <2>1, <3>1, <3>2, <3>4, <3>5 DEF DeletedLast, SameCall
    <2>2. \A d \in DemoCall : call'[d].at \in AfterDelete => call[d].at \in AfterDelete
      BY <1>3 DEF SeedPrepares, SameCall
    <2>3. SomeDeletedLast'
      BY <2>1, <2>2 DEF SomeDeletedLast
    <2> QED
      BY <1>3, <2>3 DEF SeedPrepares, RidersOnce, StoresOfDemo, Seeded, Stored
  <1>4. CASE SeedDeletesRiders(c)
    <2>1. DeletedLast(c)'
      BY <1>4 DEF SeedDeletesRiders, DeletedLast, AfterDelete, Claims
    <2>2. RidersOnce' /\ StoresOfDemo'
      BY <1>4 DEF SeedDeletesRiders, RidersOnce, StoresOfDemo, Seeded, Stored
    <2> QED
      BY <2>1, <2>2 DEF SomeDeletedLast
  <1>5. CASE SeedDeletesStores(c)
    <2>1. \A p \in DemoRider : Claims(c, p) /\ Claims(c, p)'
      BY <1>5 DEF SeedDeletesStores, Claims
    <2>2. \A d \in DemoCall, p \in DemoRider : Claims(d, p) => Claims(d, p)'
      BY <1>1, <1>5, <2>1 DEF SeedDeletesStores
    <2>3. ASSUME NEW l \in DemoCall, ~Rival(l) PROVE StoresAreOf(l)'
      <3>1. l = c
        BY <1>2, <2>1, <2>3 DEF Rival
      <3> QED
        BY <1>5, <3>1 DEF SeedDeletesStores, StoresAreOf
    <2>4. SomeDeletedLast'
      BY <1>5, <2>2, <2>3, LastStays DEF SeedDeletesStores, AfterDelete
    <2> QED
      BY <1>5, <2>4 DEF SeedDeletesStores, RidersOnce, StoresOfDemo, Seeded, Stored
  <1>6. ASSUME NEW s \in DemoStore, SeedInsertsStore(c, s)
        PROVE  RidersOnce' /\ StoresOfDemo' /\ SomeDeletedLast'
    <2> USE <1>6 DEF SeedInsertsStore
    <2>1. \A p \in DemoRider : Claims(c, p) /\ Claims(c, p)'
      BY DEF Claims
    <2>2. \A d \in DemoCall, p \in DemoRider : Claims(d, p) => Claims(d, p)'
      BY <1>1, <2>1
    <2>3. PICK y : y = [by |-> c, name |-> s]
      OBVIOUS
    <2>4. y.by = c /\ y.name = s /\ stores' = stores \cup {y}
      BY <2>3
    <2>5. ASSUME NEW l \in DemoCall, ~Rival(l), StoresAreOf(l) \/ call[l].at = "stores" PROVE StoresAreOf(l)'
      <3>1. l = c
        BY <1>2, <2>1, <2>5 DEF Rival
      <3>2. StoresAreOf(c)
        BY <2>5, <3>1
      <3>3. \A x \in stores' : x.by \in DemoCall => x.by = c
        BY <2>4, <3>2 DEF StoresAreOf
      <3>4. ASSUME NEW z \in DemoStore
            PROVE  \/ [by |-> c, name |-> z] \in stores'
                   \/ call'[c].at = "insert stores" /\ z \in call'[c].todo
        <4>1. [by |-> c, name |-> z] \in stores \/ z \in call[c].todo
          BY <3>2 DEF StoresAreOf
        <4> QED
          BY <4>1
      <3> QED
        BY <3>1, <3>3, <3>4 DEF StoresAreOf
    <2>6. SomeDeletedLast'
      BY <2>2, <2>5, LastStays DEF AfterDelete
    <2>7. StoresOfDemo'
      BY <2>4 DEF StoresOfDemo
    <2> QED
      BY <2>6, <2>7 DEF RidersOnce, Seeded, Stored
  <1>7. ASSUME NEW p \in DemoRider, SeedInsertsRider(c, p)
        PROVE  RidersOnce' /\ StoresOfDemo' /\ SomeDeletedLast'
    <2> USE DEF Stored
    <2>1. PICK r \in Rider : InsertedAs(r, c, p)
      BY <1>7 DEF SeedInsertsRider
    <2>2. /\ origin \in [Rider -> Origin \cup {None}] /\ row \in [Rider -> Row \cup {None}]
          /\ [by |-> c, name |-> p] \in Origin /\ [by |-> c, name |-> p] # None
          /\ [status |-> "AVAILABLE", phone |-> p] \in Row /\ [status |-> "AVAILABLE", phone |-> p] # None
      <3>1. p \in Phone
        BY PhonesOfDemo
      <3> QED
        BY <3>1, NoneIsNoRow, NoneIsFresh DEF DataInv, DataTypeOK, TypeOK, Origin, Row, Status
    <2>3. /\ row[r] = None /\ origin[r] = None
          /\ row'[r].phone = p /\ row'[r] # None /\ origin'[r] = [by |-> c, name |-> p]
          /\ \A q \in Rider \ {r} : row'[q] = row[q] /\ origin'[q] = origin[q]
          /\ UNCHANGED stores
      BY <2>1, <2>2 DEF InsertedAs, Born
    <2>4. \A q \in Rider : Seeded(q) => origin[q].name # p
      BY <1>7 DEF SeedInsertsRider, Taken, RidersOnce, Seeded
    <2>5. RidersOnce'
      <3>1. \A q \in Rider : Seeded(q)' => q = r \/ Seeded(q)
        BY <2>3 DEF Seeded
      <3>2. \A q \in Rider : Seeded(q)' => row'[q].phone = origin'[q].name /\ origin'[q].name \in DemoRider
        BY <2>3, <3>1 DEF RidersOnce
      <3>3. \A q \in Rider \ {r} : Seeded(q)' => origin'[q].name # origin'[r].name
        BY <2>3, <2>4, <3>1
      <3> QED
        BY <2>3, <3>1, <3>2, <3>3 DEF RidersOnce
    <2>6. \A d \in DemoCall, q \in DemoRider : Has(d, q) => Has(d, q)'
      BY <2>2, <2>3 DEF Has
    <2>7. Has(c, p)'
      BY <2>3 DEF Has
    <2>8. \A q \in DemoRider : Claims(c, q) => Claims(c, q)'
      BY <1>7, <2>6, <2>7 DEF SeedInsertsRider, Claims
    <2>9. \A d \in DemoCall, q \in DemoRider : Claims(d, q) => Claims(d, q)'
      BY <2>6, <2>8 DEF Claims, SameCall
    <2>10. ASSUME NEW l \in DemoCall, StoresAreOf(l) \/ call[l].at = "stores"
           PROVE  StoresAreOf(l)' \/ call'[l].at = "stores"
      BY <1>7, <2>3, <2>10 DEF SeedInsertsRider, StoresAreOf, SameCall
    <2>11. SomeDeletedLast'
      BY <1>7, <2>9, <2>10, LastStays DEF SeedInsertsRider, AfterDelete
    <2> QED
      BY <2>3, <2>5, <2>11 DEF StoresOfDemo
  <1> QED
    BY <1>3, <1>4, <1>5, <1>6, <1>7 DEF SeedStep

LEMMA SeedsStep ==
  ASSUME DataInv, CallsShow, SeedsOnce, [DataNext]_dataVars
  PROVE  CallsShow' /\ SeedsOnce'
  <1>1. ASSUME NEW c \in DemoCall, DemoStep(c) PROVE CallsShow' /\ SeedsOnce'
    BY <1>1, DemoStepSeeds, SeedStepKeeps DEF SeedsOnce
  (* Everybody else: what a step that does not meddle leaves alone.        *)
  <1>2. ASSUME call' = call \/ call' = Upset(None), UNCHANGED origin, meddled => meddled',
               ~meddled' => /\ \A r \in Rider : origin[r] # None =>
                                 (Stored(r)' <=> Stored(r)) /\ (Stored(r) => row'[r].phone = row[r].phone)
                            /\ \A x : x.by \in DemoCall => (x \in stores' <=> x \in stores)
        PROVE  CallsShow' /\ SeedsOnce'
    <2>1. \A c \in DemoCall : SameCall(c)
      BY <1>2, UpsetIsSame
    <2>2. CallsShow' /\ (OnlySeeds' => OnlySeeds /\ ~meddled')
      BY <1>2, <2>1 DEF CallsShow, OnlySeeds, SameCall, Is
    <2>3. ASSUME OnlySeeds' PROVE RidersOnce' /\ StoresOfDemo' /\ SomeDeletedLast'
      BY <1>2, <2>1, <2>2, <2>3, SeedsUndisturbed DEF SeedsOnce
    <2> QED
      BY <2>2, <2>3 DEF SeedsOnce
  <1>3. ASSUME NEW t \in Task, RiderStep(t) PROVE CallsShow' /\ SeedsOnce'
    <2>1. TypeOK
      BY DEF DataInv, DataTypeOK
    <2>2. \A q \in Rider : Stored(q) => Stored(q)'
      BY <1>3, <2>1, RiderTypes DEF RiderStep
    <2>3. ~meddled' => ~meddled /\ ~Meddles
      BY <1>3 DEF RiderStep
    <2>4. ASSUME ~Meddles, NEW r \in Rider, origin[r] # None
          PROVE  (Stored(r)' <=> Stored(r)) /\ (Stored(r) => row'[r].phone = row[r].phone)
      BY <2>2, <2>4 DEF Meddles, Stored
    <2> QED
      BY <1>2, <1>3, <2>3, <2>4 DEF RiderStep
  <1>4. ASSUME NEW e \in Editor, NEW name \in DemoStore, CreateStore(e, name) PROVE CallsShow' /\ SeedsOnce'
    <2>1. e \notin DemoCall
      BY CallersDiffer
    <2> QED
      BY <1>2, <1>4, <2>1 DEF CreateStore, othersKeep, vars, Stored
  <1>5. ASSUME NEW e \in Editor, NEW s \in stores, ReadStore(e, s) PROVE CallsShow' /\ SeedsOnce'
    BY <1>2, <1>5 DEF ReadStore, othersKeep, vars, Stored
  <1>6. ASSUME NEW e \in Editor, SaveStore(e) PROVE CallsShow' /\ SeedsOnce'
    <2>1. ~meddled' => ~meddled /\ stores' = stores
      BY <1>6 DEF SaveStore
    <2> QED
      BY <1>2, <1>6, <2>1 DEF SaveStore, othersKeep, vars, Stored
  <1>7. ASSUME NEW o \in Order, NEW s \in stores, OrderDelivery(o, s) PROVE CallsShow' /\ SeedsOnce'
    BY <1>2, <1>7 DEF OrderDelivery, othersKeep, vars, Stored
  <1>8. ASSUME NEW d \in deliveries, NEW r \in Rider, OfferDelivery(d, r) PROVE CallsShow' /\ SeedsOnce'
    BY <1>2, <1>8 DEF OfferDelivery, othersKeep, vars, Stored
  <1>9. CASE UNCHANGED dataVars
    BY <1>2, <1>9 DEF dataVars, vars, Stored
  <1> QED
    BY <1>1, <1>3, <1>4, <1>5, <1>6, <1>7, <1>8, <1>9 DEF DataNext

(* When all seeds are done, nobody is a rival of the last.                 *)
LEMMA LastHasAll ==
  ASSUME DataInv, RidersOnce, StoresOfDemo, NEW l \in DemoCall, DeletedLast(l),
         \A c \in DemoCall : call[c].at \in {"idle", "done"}
  PROVE  /\ \A p \in DemoRider : Has(l, p)
         /\ SeededStores = {[by |-> l, name |-> s] : s \in DemoStore}
  <1>1. call[l].at = "done"
    BY DEF DeletedLast, AfterDelete
  <1>2. \A p \in DemoRider : Has(l, p)
    BY <1>1 DEF DeletedLast, Claims, Is
  <1>3. ~Rival(l)
    <2> SUFFICES ASSUME NEW c \in DemoCall \ {l}, NEW p \in DemoRider, Claims(c, p) PROVE FALSE
      BY DEF Rival
    <2>1. PICK r \in Rider : Stored(r) /\ origin[r] = [by |-> c, name |-> p]
      BY DEF Claims, Has, Is
    <2>2. PICK q \in Rider : Stored(q) /\ origin[q] = [by |-> l, name |-> p]
      BY <1>2 DEF Has
    <2>3. [by |-> c, name |-> p] # None /\ [by |-> l, name |-> p] # None
      BY NoneIsNoRow DEF Origin
    <2>4. r = q
      BY <2>1, <2>2, <2>3 DEF RidersOnce, Seeded
    <2>5. [by |-> c, name |-> p].by = [by |-> l, name |-> p].by
      BY <2>1, <2>2, <2>4
    <2> QED
      BY <2>5
  <1>4. StoresAreOf(l)
    BY <1>1, <1>3 DEF DeletedLast, Is
  <1>5. ASSUME NEW x \in SeededStores PROVE \E s \in DemoStore : x = [by |-> l, name |-> s]
    <2>1. x \in StoreRow /\ x.by = l /\ x.name \in DemoStore
      BY <1>4, <1>5 DEF SeededStores, StoresAreOf, StoresOfDemo, DataInv, DataTypeOK
    <2> QED
      BY <2>1 DEF StoreRow
  <1>6. \A s \in DemoStore : [by |-> l, name |-> s] \in SeededStores
    BY <1>1, <1>4 DEF StoresAreOf, SeededStores, Is
  <1> QED
    BY <1>2, <1>5, <1>6

LEMMA SameSize ==
  ASSUME NEW S, NEW T, NEW f \in [S -> T], IsFiniteSet(T),
         \A x, y \in S : f[x] = f[y] => x = y, \A z \in T : \E x \in S : f[x] = z
  PROVE  Cardinality(S) = Cardinality(T)
  <1>1. f \in Bijection(S, T)
    BY DEF Bijection, Injection, Surjection, IsInjective
  <1>2. ExistsBijection(T, S)
    BY <1>1, Fun_ExistsBijSymmetric DEF ExistsBijection
  <1> QED
    BY <1>2, FS_Bijection

LEMMA SeedsLeaveOne == DataInv /\ CallsShow /\ SeedsOnce => ExactlyOnce
  <1> SUFFICES ASSUME DataInv, CallsShow, SeedsOnce, ~meddled, NEW c \in DemoCall, Is(c, "done"),
                      \A d \in DemoCall : call[d].kind = "seed" /\ call[d].at \in {"idle", "done"}
               PROVE  /\ {s.name : s \in SeededStores} = DemoStore
                      /\ Cardinality(SeededStores) = Cardinality(DemoStore)
                      /\ {origin[r].name : r \in SeededRiders} = DemoRider
                      /\ Cardinality(SeededRiders) = Cardinality(DemoRider)
    BY DEF ExactlyOnce
  <1>1. OnlySeeds
    BY DEF CallsShow, OnlySeeds
  <1>2. RidersOnce /\ StoresOfDemo /\ SomeDeletedLast
    BY <1>1 DEF SeedsOnce
  <1>3. PICK l \in DemoCall : DeletedLast(l)
    BY <1>2 DEF SomeDeletedLast, AfterDelete, Is
  <1>4. /\ \A p \in DemoRider : Has(l, p)
        /\ SeededStores = {[by |-> l, name |-> s] : s \in DemoStore}
    BY <1>2, <1>3, LastHasAll
  <1>5. ASSUME NEW s \in DemoStore PROVE \E x \in SeededStores : x = [by |-> l, name |-> s] /\ x.name = s
    <2>1. PICK y : y = [by |-> l, name |-> s]
      OBVIOUS
    <2>2. y \in SeededStores /\ y.name = s
      BY <1>4, <2>1
    <2> QED
      BY <2>1, <2>2
  <1>6. \A x \in SeededStores : x.name \in DemoStore /\ x = [by |-> l, name |-> x.name]
    BY <1>4
  <1>7. {s.name : s \in SeededStores} = DemoStore
    BY <1>5, <1>6
  <1>8. Cardinality(SeededStores) = Cardinality(DemoStore)
    <2>1. PICK f : f = [x \in SeededStores |-> x.name]
      OBVIOUS
    <2>2. f \in [SeededStores -> DemoStore]
      BY <1>6, <2>1
    <2>3. \A x, y \in SeededStores : f[x] = f[y] => x = y
      BY <1>6, <2>1
    <2>4. \A z \in DemoStore : \E x \in SeededStores : f[x] = z
      BY <1>5, <2>1
    <2> QED
      BY <2>2, <2>3, <2>4, SameSize, DemoIsFinite
  <1>9. \A p \in DemoRider : \E r \in SeededRiders : origin[r].name = p
    <2> SUFFICES ASSUME NEW p \in DemoRider PROVE \E r \in SeededRiders : origin[r].name = p
      OBVIOUS
    <2>1. PICK y : y = [by |-> l, name |-> p]
      OBVIOUS
    <2>2. y # None /\ y.name = p
      BY <2>1, NoneIsNoRow DEF Origin
    <2>3. PICK r \in Rider : Stored(r) /\ origin[r] = y
      BY <1>4, <2>1 DEF Has
    <2> QED
      BY <2>1, <2>2, <2>3 DEF SeededRiders
  <1>10. \A r \in SeededRiders : r \in Rider /\ Seeded(r) /\ origin[r].name \in DemoRider
    BY <1>2 DEF SeededRiders, Seeded, RidersOnce
  <1>11. {origin[r].name : r \in SeededRiders} = DemoRider
    BY <1>9, <1>10
  <1>12. Cardinality(SeededRiders) = Cardinality(DemoRider)
    <2>1. PICK f : f = [r \in SeededRiders |-> origin[r].name]
      OBVIOUS
    <2>2. f \in [SeededRiders -> DemoRider]
      BY <1>10, <2>1
    <2>3. \A x, y \in SeededRiders : f[x] = f[y] => x = y
      BY <1>2, <1>10, <2>1 DEF RidersOnce
    <2>4. \A z \in DemoRider : \E x \in SeededRiders : f[x] = z
      BY <1>9, <2>1
    <2> QED
      BY <2>2, <2>3, <2>4, SameSize, DemoIsFinite
  <1> QED
    BY <1>7, <1>8, <1>11, <1>12

(* However many seeds run at once, if all of them were answered ok, the    *)
(* demo data is there exactly once (demo.service.ts: the unique phones     *)
(* make one of two seeds fail wherever their stores are doubled).          *)
THEOREM ExactlyOnceAlways == DataSpec => []ExactlyOnce
  <1>1. DataInit => CallsShow /\ SeedsOnce
    <2> SUFFICES ASSUME DataInit PROVE CallsShow /\ SeedsOnce
      OBVIOUS
    <2>1. \A c \in DemoCall : call[c].at = "idle" /\ call[c].kind = "seed" /\ call[c].reply = "none"
      BY DEF DataInit
    <2>2. RidersOnce
      BY DEF DataInit, RidersOnce, Seeded
    <2>3. StoresOfDemo /\ SomeDeletedLast
      BY <2>1 DEF DataInit, StoresOfDemo, SomeDeletedLast, AfterDelete
    <2> QED
      BY <2>1, <2>2, <2>3 DEF CallsShow, SeedsOnce, Is
  <1> QED
    BY <1>1, DataInvAlways, SeedsStep, SeedsLeaveOne, PTL DEF DataSpec
================================================================================
