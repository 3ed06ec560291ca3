------------------------------- MODULE Bridge -------------------------------
(***************************************************************************)
(* What the operators and the contracts of the destination chain promise   *)
(* together, without trees, roots, siblings, caches or windows: a message  *)
(* is received once at most, and only when a quorum of operators, each of  *)
(* which had accepted it, has vouched for one batch with it under one      *)
(* epoch.  Destination implements it.                                      *)
(***************************************************************************)
CONSTANTS Operators, Quorums, Messages, Epochs

VARIABLES
  accepted,  \* messages each operator has let through
  vouched,   \* batches each operator has asked the relay to sign, with the epoch
  received   \* how often each message was received

vars == <<accepted, vouched, received>>

Init ==
  /\ accepted = [o \in Operators |-> {}]
  /\ vouched = [o \in Operators |-> {}]
  /\ received = [m \in Messages |-> 0]

Accept(o, m) ==
  /\ accepted' = [accepted EXCEPT ![o] = @ \cup {m}]
  /\ UNCHANGED <<vouched, received>>

Vouch(o, b, e) ==
  /\ b \subseteq accepted[o]
  /\ vouched' = [vouched EXCEPT ![o] = @ \cup {[batch |-> b, epoch |-> e]}]
  /\ UNCHANGED <<accepted, received>>

Backed(m) ==
  \E Q \in Quorums, b \in SUBSET Messages, e \in Epochs :
    m \in b /\ \A o \in Q : [batch |-> b, epoch |-> e] \in vouched[o]

Receive(S) ==
  /\ \A m \in S : received[m] = 0 /\ Backed(m)
  /\ received' = [m \in Messages |-> IF m \in S THEN 1 ELSE received[m]]
  /\ UNCHANGED <<accepted, vouched>>

Next ==
  \/ \E o \in Operators :
       \/ \E m \in Messages : Accept(o, m)
       \/ \E b \in SUBSET Messages, e \in Epochs : Vouch(o, b, e)
  \/ \E S \in SUBSET Messages : Receive(S)

Spec == Init /\ [][Next]_vars
=============================================================================
