------------------------------ MODULE NearbyRiders ------------------------------
(***************************************************************************)
(* One search of location-service for the riders around a pickup: it looks *)
(* in a geo index in Redis and filters by the status keys, in two reads,   *)
(* between which riders move and change status.                            *)
(*                                                                         *)
(* core-service calls it by gRPC, and reports there where a delivery       *)
(* ended. Both sides write the names of fields in snake case, where the    *)
(* loader expects camel case and drops what it does not know: the search   *)
(* takes its default radius, and a location reported by gRPC is stored for *)
(* a rider without a name.                                                 *)
(***************************************************************************)
EXTENDS Integers, FiniteSets, FiniteSetsExt

CONSTANTS
  Rider,
  Unnamed,        \* the empty rider id
  Nowhere,        \* the distance of a rider who never reported a location
  MaxKm,          \* bound on distances
  DefaultRadius,  \* the radius when a request has none
  Limit,          \* AUTO_DISPATCH_MAX_RIDERS
  OverFetch,      \* riders looked at, per rider wanted
  MaxMoves        \* bound on changes during the search

ASSUME UnnamedIsFresh == Unnamed \notin Rider
ASSUME RidersAreFinite == IsFiniteSet(Rider)
ASSUME CountsAreNumbers == Limit \in Nat \ {0} /\ OverFetch \in Nat \ {0}
ASSUME NowhereIsFar == Nowhere \notin Nat

Id == Rider \cup {Unnamed}
Km == 0..MaxKm
Status == {"AVAILABLE", "BUSY"}  \* BUSY stands for every other one, and none

VARIABLES
  dist,     \* dist[r]: how far from the pickup the index has r
  status,   \* status[r]: the key rider:status:<r>
  step,     \* how far the search is
  seen,     \* riders found in the index, with their distances
  answer,   \* riders that location-service answers with
  indexed,  \* history: the index when the search looked there
  moves     \* changes since the search began

vars == <<dist, status, step, seen, answer, indexed, moves>>

Near(d) == {r \in Id : d[r] # Nowhere /\ d[r] <= DefaultRadius}
(* The n nearest of S: any choice among those equally far.                 *)
Nearest(S, n, d) ==
  {T \in kSubset(IF n < Cardinality(S) THEN n ELSE Cardinality(S), S) :
     \A x \in T, y \in S \ T : d[x] <= d[y]}

-------------------------------------------------------------------------------
(* Mutant: riders are fetched one by one as wanted.                        *)
GeoradiusExactly ==
  /\ step = "asked" /\ step' = "located"
  /\ \E T \in Nearest(Near(dist), Limit, dist) : seen' = [r \in T |-> dist[r]]
  /\ indexed' = dist
  /\ UNCHANGED <<dist, status, answer, moves>>

(* GEORADIUS ... COUNT limit * 3: the nearest ones, whatever their status. *)
Georadius ==
  /\ step = "asked" /\ step' = "located"
  /\ \E T \in Nearest(Near(dist), Limit * OverFetch, dist) : seen' = [r \in T |-> dist[r]]
  /\ indexed' = dist
  /\ UNCHANGED <<dist, status, answer, moves>>

(* Mutant: the slice is taken of the riders as they come.                  *)
AnswerUnsorted ==
  /\ step = "located" /\ step' = "answered"
  /\ LET available == {r \in DOMAIN seen : status[r] = "AVAILABLE"} IN
       answer' \in kSubset(IF Limit < Cardinality(available) THEN Limit ELSE Cardinality(available),
                           available)
  /\ UNCHANGED <<dist, status, seen, indexed, moves>>

(* MGET, filter, sort by the distances seen, slice.                        *)
Filter ==
  /\ step = "located" /\ step' = "answered"
  /\ answer' \in Nearest({r \in DOMAIN seen : status[r] = "AVAILABLE"}, Limit, seen)
  /\ UNCHANGED <<dist, status, seen, indexed, moves>>

(* A call of Redis fails, or the caller waited 5 s: no riders.             *)
LoseAnswer ==
  /\ step \in {"asked", "located"} /\ step' = "failed"
  /\ UNCHANGED <<dist, status, seen, answer, indexed, moves>>

-------------------------------------------------------------------------------
Meanwhile == step \in {"asked", "located"} /\ moves < MaxMoves /\ moves' = moves + 1

(* POST /location: a rider reports where he is.                            *)
UpdateLocation(r, km) ==
  /\ Meanwhile
  /\ dist' = [dist EXCEPT ![r] = km]
  /\ UNCHANGED <<status, step, seen, answer, indexed>>

(* UpdateRiderLocation by gRPC, after a delivery: for nobody that has a    *)
(* name, whose key is never set.                                           *)
UpdateAfterDelivery(km) == UpdateLocation(Unnamed, km)

SetStatus(r, s) ==
  /\ Meanwhile
  /\ status' = [status EXCEPT ![r] = s]
  /\ UNCHANGED <<dist, step, seen, answer, indexed>>

Init ==
  /\ dist \in [Id -> Km \cup {Nowhere}]
  /\ status \in [Id -> Status] /\ status[Unnamed] = "BUSY"
  /\ step = "asked" /\ seen = << >> /\ answer = {} /\ moves = 0
  /\ indexed = dist

Next ==
  \/ Georadius \/ Filter \/ LoseAnswer
  \/ \E km \in Km : UpdateAfterDelivery(km) \/ \E r \in Rider : UpdateLocation(r, km)
  \/ \E r \in Rider, s \in Status : SetStatus(r, s)

Spec == Init /\ [][Next]_vars

-------------------------------------------------------------------------------
(* Who could be answered: in the radius when the index was read, and       *)
(* AVAILABLE when the keys were.                                           *)
Eligible == {r \in Near(indexed) : status[r] = "AVAILABLE"}

(* Although the index is read before the keys, and cut at limit * 3 before *)
(* anybody is left out, whoever is in the answer is eligible, and nobody   *)
(* eligible who is left out is nearer: auto-dispatch takes the first.      *)
AnsweredAreNearest ==
  step = "answered" =>
    /\ answer \subseteq Eligible /\ Cardinality(answer) <= Limit
    /\ \A r \in answer, q \in Eligible \ answer : indexed[r] <= indexed[q]

(* The cut hides an eligible rider only behind many others: an answer is   *)
(* as long as it may be, unless more than 2 * limit in the radius, the one *)
(* without a name included, are not AVAILABLE.                             *)
NobodyMissed ==
  step = "answered" =>
    \/ Cardinality(answer) = Limit \/ answer = Eligible
    \/ Cardinality({r \in Near(indexed) : status[r] # "AVAILABLE"}) > (OverFetch - 1) * Limit
===============================================================================
