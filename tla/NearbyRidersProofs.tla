--------------------------- MODULE NearbyRidersProofs ---------------------------
(***************************************************************************)
(* Proofs about NearbyRiders, for any number of riders and any limits.     *)
(***************************************************************************)
EXTENDS NearbyRiders, FiniteSetTheorems, TLAPS

Found == DOMAIN seen
FoundAvailable == {r \in Found : status[r] = "AVAILABLE"}

(* What each stage of a search found, of the index as it was then and of   *)
(* the keys, which do not change any more once there is an answer.         *)
FoundNearest ==
  /\ Found \in Nearest(Near(indexed), Limit * OverFetch, indexed)
  /\ \A r \in Found : seen[r] = indexed[r]
AnsweredNearest == answer \in Nearest(FoundAvailable, Limit, seen)

SearchInv ==
  /\ step \in {"asked", "located", "answered", "failed"}
  /\ dist \in [Id -> Km \cup {Nowhere}] /\ indexed \in [Id -> Km \cup {Nowhere}]
  /\ step \in {"located", "answered"} => FoundNearest
  /\ step = "answered" => AnsweredNearest

-------------------------------------------------------------------------------
(* The nearest n of a set are of it, and nobody of them is farther than    *)
(* anybody left; if anybody is left, they are n.                           *)
LEMMA NearestOnes ==
  ASSUME NEW S, IsFiniteSet(S), NEW n \in Nat, NEW d, NEW T \in Nearest(S, n, d)
  PROVE  /\ T \subseteq S /\ IsFiniteSet(T)
         /\ \A x \in T, y \in S \ T : d[x] <= d[y]
         /\ S \ T # {} => Cardinality(T) = n
  <1>1. /\ T \subseteq S /\ \A x \in T, y \in S \ T : d[x] <= d[y]
        /\ Cardinality(T) = IF n < Cardinality(S) THEN n ELSE Cardinality(S)
    BY DEF Nearest, kSubset
  <1>2. IsFiniteSet(T) /\ (Cardinality(S) = Cardinality(T) => S = T)
    BY <1>1, FS_Subset
  <1> QED
    BY <1>1, <1>2

(* Riders within the radius are finitely many.                             *)
LEMMA NearOnes ==
  ASSUME NEW d PROVE Near(d) \subseteq Id /\ IsFiniteSet(Near(d))
  <1>1. IsFiniteSet(Id)
    BY RidersAreFinite, FS_AddElement DEF Id
  <1>2. Near(d) \subseteq Id
    BY DEF Near
  <1> QED
    BY <1>1, <1>2, FS_Subset

-------------------------------------------------------------------------------
(* Each step of the search uses what the one before has found.             *)
LEMMA GeoradiusKeeps == SearchInv /\ Georadius => SearchInv'
  <1> SUFFICES ASSUME SearchInv, Georadius PROVE SearchInv'
    OBVIOUS
  <1>1. PICK T \in Nearest(Near(dist), Limit * OverFetch, dist) : seen' = [r \in T |-> dist[r]]
    BY DEF Georadius
  <1>2. indexed' = dist /\ Found' = T /\ \A r \in Found' : seen'[r] = indexed'[r]
    BY <1>1 DEF Georadius, Found
  <1>3. FoundNearest'
    BY <1>1, <1>2 DEF FoundNearest, Nearest, Near
  <1> QED
    BY <1>2, <1>3 DEF Georadius, SearchInv

LEMMA FilterKeeps == SearchInv /\ Filter => SearchInv'
  <1> SUFFICES ASSUME SearchInv, Filter PROVE SearchInv'
    OBVIOUS
  <1>1. UNCHANGED <<dist, status, seen, indexed>> /\ Found' = Found
    BY DEF Filter, Found
  <1>2. FoundNearest'
    BY <1>1 DEF SearchInv, Filter, FoundNearest, Near, Nearest
  <1>3. AnsweredNearest'
    BY <1>1 DEF Filter, AnsweredNearest, FoundAvailable, Found, Nearest
  <1> QED
    BY <1>1, <1>2, <1>3 DEF Filter, SearchInv

(* What changes meanwhile is not what was read.                            *)
LEMMA OtherwiseSame ==
  ASSUME SearchInv, UNCHANGED <<seen, answer, indexed>>, dist' \in [Id -> Km \cup {Nowhere}],
         \/ step' = step /\ (step = "answered" => UNCHANGED status)
         \/ step' = "failed"
  PROVE  SearchInv'
  <1>1. FoundNearest => FoundNearest'
    BY DEF FoundNearest, Found, Near, Nearest
  <1>2. UNCHANGED status => (AnsweredNearest => AnsweredNearest')
    BY DEF AnsweredNearest, FoundAvailable, Found, Nearest
  <1> QED
    BY <1>1, <1>2 DEF SearchInv

LEMMA SearchStep == SearchInv /\ [Next]_vars => SearchInv'
  <1> SUFFICES ASSUME SearchInv, [Next]_vars PROVE SearchInv'
    OBVIOUS
  <1>1. CASE UNCHANGED vars
    BY <1>1, OtherwiseSame DEF vars, SearchInv
  <1>2. CASE LoseAnswer
    BY <1>2, OtherwiseSame DEF LoseAnswer, SearchInv
  <1>3. ASSUME NEW r \in Id, NEW km \in Km, UpdateLocation(r, km) PROVE SearchInv'
    BY <1>3, OtherwiseSame DEF UpdateLocation, Meanwhile, SearchInv
  <1>4. ASSUME NEW r \in Rider, NEW s \in Status, SetStatus(r, s) PROVE SearchInv'
    BY <1>4, OtherwiseSame DEF SetStatus, Meanwhile, SearchInv
  <1> QED
    BY <1>1, <1>2, <1>3, <1>4, GeoradiusKeeps, FilterKeeps DEF Next, UpdateAfterDelivery, Id

LEMMA InitSearch == Init => SearchInv
  BY DEF Init, SearchInv

LEMMA SearchInvariant == Spec => []SearchInv
  BY InitSearch, SearchStep, PTL DEF Spec

-------------------------------------------------------------------------------
(* What an answer has to do with the riders found, and these with all who  *)
(* are near.                                                               *)
LEMMA TwoCuts ==
  ASSUME SearchInv, step = "answered"
  PROVE  /\ Found \subseteq Near(indexed) /\ IsFiniteSet(Found)
         /\ \A x \in Found, y \in Near(indexed) \ Found : indexed[x] <= indexed[y]
         /\ Near(indexed) \ Found # {} => Cardinality(Found) = Limit * OverFetch
         /\ answer \subseteq FoundAvailable /\ IsFiniteSet(answer) /\ Cardinality(answer) <= Limit
         /\ \A x \in answer, y \in FoundAvailable \ answer : indexed[x] <= indexed[y]
         /\ FoundAvailable \ answer # {} => Cardinality(answer) = Limit
  <1>1. FoundNearest /\ AnsweredNearest
    BY DEF SearchInv
  <1>2. IsFiniteSet(Near(indexed)) /\ Limit * OverFetch \in Nat /\ Limit \in Nat
    BY NearOnes, CountsAreNumbers
  <1>3. /\ Found \subseteq Near(indexed) /\ IsFiniteSet(Found)
        /\ \A x \in Found, y \in Near(indexed) \ Found : indexed[x] <= indexed[y]
        /\ Near(indexed) \ Found # {} => Cardinality(Found) = Limit * OverFetch
    BY <1>1, <1>2, NearestOnes DEF FoundNearest
  <1>4. FoundAvailable \subseteq Found /\ IsFiniteSet(FoundAvailable)
    BY <1>3, FS_Subset DEF FoundAvailable
  <1>5. /\ answer \subseteq FoundAvailable /\ IsFiniteSet(answer)
        /\ \A x \in answer, y \in FoundAvailable \ answer : seen[x] <= seen[y]
        /\ FoundAvailable \ answer # {} => Cardinality(answer) = Limit
    BY <1>1, <1>2, <1>4, NearestOnes DEF AnsweredNearest
  <1>6. Cardinality(answer) <= Limit
    <2>1. Cardinality(FoundAvailable) \in Nat
      BY <1>4, FS_CardinalityType
    <2> QED
      BY <1>1, <1>2, <2>1 DEF AnsweredNearest, Nearest, kSubset
  <1>7. \A r \in Found : seen[r] = indexed[r]
    BY <1>1 DEF FoundNearest
  <1> QED
    BY <1>3, <1>4, <1>5, <1>6, <1>7

(* Nobody who is eligible is nearer than somebody answered, whichever of   *)
(* the cuts he fell to.                                                    *)
LEMMA SearchAnswersNearest == SearchInv => AnsweredAreNearest
  <1> SUFFICES ASSUME SearchInv, step = "answered"
               PROVE  /\ answer \subseteq Eligible /\ Cardinality(answer) <= Limit
                      /\ \A r \in answer, q \in Eligible \ answer : indexed[r] <= indexed[q]
    BY DEF AnsweredAreNearest
  <1>1. answer \subseteq Eligible
    BY TwoCuts DEF Eligible, FoundAvailable
  <1>2. ASSUME NEW r \in answer, NEW q \in Eligible \ answer PROVE indexed[r] <= indexed[q]
    <2>1. CASE q \in Found
      BY <2>1, TwoCuts DEF Eligible, FoundAvailable
    <2>2. CASE q \notin Found
      BY <2>2, TwoCuts DEF Eligible, FoundAvailable
    <2> QED
      BY <2>1, <2>2
  <1> QED
    BY <1>1, <1>2, TwoCuts

(* Who is missed was not found, and those found fill the window.           *)
LEMMA SearchMissesNobody == SearchInv => NobodyMissed
  <1> DEFINE Others == {r \in Near(indexed) : status[r] # "AVAILABLE"}
  <1> SUFFICES ASSUME SearchInv, step = "answered", Cardinality(answer) # Limit, answer # Eligible
               PROVE  Cardinality(Others) > (OverFetch - 1) * Limit
    BY DEF NobodyMissed
  <1>1. answer = FoundAvailable
    BY TwoCuts
  <1>2. Near(indexed) \ Found # {}
    BY <1>1, TwoCuts DEF Eligible, FoundAvailable
  <1>3. Cardinality(Found) = Limit * OverFetch
    BY <1>2, TwoCuts
  <1>4. /\ IsFiniteSet(Others) /\ Cardinality(Others) \in Nat
        /\ IsFiniteSet(answer) /\ Cardinality(answer) \in Nat /\ Cardinality(answer) < Limit
    BY NearOnes, FS_Subset, FS_CardinalityType, TwoCuts, CountsAreNumbers
  <1>5. Cardinality(Found) <= Cardinality(answer) + Cardinality(Others)
    <2>1. Found \subseteq answer \cup Others
      BY <1>1, TwoCuts DEF FoundAvailable
    <2>2. IsFiniteSet(answer \cup Others) /\ Cardinality(answer \cup Others) \in Nat
      BY <1>4, FS_Union, FS_CardinalityType
    <2>3. Cardinality(answer \cup Others) <= Cardinality(answer) + Cardinality(Others)
      <3>1. Cardinality(answer \cap Others) \in Nat
        BY <1>4, FS_Subset, FS_CardinalityType
      <3>2. Cardinality(answer \cup Others) =
              Cardinality(answer) + Cardinality(Others) - Cardinality(answer \cap Others)
        BY <1>4, FS_Union
      <3> HIDE DEF Others
      <3> QED
        BY <1>4, <3>1, <3>2
    <2>4. Cardinality(Found) <= Cardinality(answer \cup Others)
      BY <2>1, <2>2, FS_Subset
    <2>5. Cardinality(Found) \in Nat
      BY TwoCuts, FS_CardinalityType
    <2> HIDE DEF Others
    <2> QED
      BY <1>4, <2>2, <2>3, <2>4, <2>5
  <1>6. (OverFetch - 1) * Limit + Limit = Limit * OverFetch
    BY CountsAreNumbers
  <1>7. (OverFetch - 1) * Limit \in Nat
    BY CountsAreNumbers
  <1> HIDE DEF Others
  <1> QED
    BY <1>3, <1>4, <1>5, <1>6, <1>7, CountsAreNumbers

-------------------------------------------------------------------------------
(* However riders move and change status between the two reads: whoever is *)
(* answered was near and is AVAILABLE, and nobody left out is nearer.      *)
THEOREM AnsweredAreNearestAlways == Spec => []AnsweredAreNearest
  BY SearchInvariant, SearchAnswersNearest, PTL

(* And nobody is left out of a short answer, unless more than              *)
(* (OverFetch - 1) times the limit of the near ones are not AVAILABLE.     *)
THEOREM NobodyMissedAlways == Spec => []NobodyMissed
  BY SearchInvariant, SearchMissesNobody, PTL
===============================================================================
