------------------------------ MODULE MCSigner ------------------------------
(* Instances of Signer for TLC.                                            *)
EXTENDS Signer, TLC

CONSTANTS m1, m2, x1, x2

\* Each message has a leaf of its own.
OwnLeaf == [m \in Messages |-> IF m = m1 THEN x1 ELSE x2]

\* The workers run the same code.
Symmetry == Permutations(Workers)
=============================================================================
