------------------------------- MODULE Matching -------------------------------
(***************************************************************************)
(* What the dispatch of b-rider-matching promises, without its locks,      *)
(* jobs and databases: a delivery is offered to one rider after another,   *)
(* never to two at a time and never twice to the same rider, and once a    *)
(* rider's answer has settled it, nobody else is ever asked.               *)
(***************************************************************************)

CONSTANTS Delivery, Rider

VARIABLES
  asked,    \* asked[d]: the riders who were ever offered delivery d
  holder,   \* holder[d]: the rider whose offer for d stands, if any
  settled   \* settled[d]: whether a rider has taken d

promise == <<asked, holder, settled>>

TypeOK ==
  /\ asked   \in [Delivery -> SUBSET Rider]
  /\ holder  \in [Delivery -> SUBSET Rider]
  /\ settled \in [Delivery -> BOOLEAN]

Init ==
  /\ asked   = [d \in Delivery |-> {}]
  /\ holder  = [d \in Delivery |-> {}]
  /\ settled = [d \in Delivery |-> FALSE]

(* The delivery is proposed to a rider who was not asked before.           *)
Ask(d, r) ==
  /\ ~settled[d]
  /\ holder[d] = {}
  /\ r \notin asked[d]
  /\ asked'  = [asked EXCEPT ![d] = @ \cup {r}]
  /\ holder' = [holder EXCEPT ![d] = {r}]
  /\ UNCHANGED settled

(* The standing offer is rejected, runs out or is given up.                *)
Close(d) ==
  /\ holder[d] # {}
  /\ holder' = [holder EXCEPT ![d] = {}]
  /\ UNCHANGED <<asked, settled>>

(* The rider whose offer stands takes the delivery.                        *)
Settle(d) ==
  /\ ~settled[d]
  /\ holder[d] # {}
  /\ settled' = [settled EXCEPT ![d] = TRUE]
  /\ UNCHANGED <<asked, holder>>

Next ==
  \E d \in Delivery : (\E r \in Rider : Ask(d, r)) \/ Close(d) \/ Settle(d)

Spec == Init /\ [][Next]_promise

(* An offer does not stand for ever: it is answered or it runs out.        *)
Fairness ==
  \A d \in Delivery : WF_promise(~settled[d] /\ (Close(d) \/ Settle(d)))

FairSpec == Spec /\ Fairness
===============================================================================
