---------------------------- MODULE MCSubmission ----------------------------
(* Instances of Submission for TLC.                                        *)
EXTENDS Submission

CONSTANTS m1, m2, m3

\* Every tree holds all the messages.
OneBatch == [t \in Trees |-> IF m2 \in Messages
                             THEN IF m3 \in Messages THEN <<m1, m2, m3>> ELSE <<m1, m2>>
                             ELSE <<m1>>]

\* The first two share a leaf.
TwinLeaf == [m \in Messages |-> IF m = m2 THEN m1 ELSE m]
=============================================================================
