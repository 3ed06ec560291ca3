---------------------------- MODULE Attestation ----------------------------
(***************************************************************************)
(* What an operator promises about the messages it attests to, without     *)
(* its tasks, storage, queue or epochs: a message is accepted, a root over *)
(* accepted messages is asked for, a quorum attests to the root, and only  *)
(* then is the message reported as signed.  Signer implements it.          *)
(***************************************************************************)
CONSTANTS Messages, Leaves, Leaf

VARIABLES
  accepted,  \* messages that passed the gate and the hooks
  asked,     \* roots put before the relay
  attested,  \* roots a quorum has signed
  reported   \* messages shown as Signed

vars == <<accepted, asked, attested, reported>>

LeavesOf(S) == {Leaf[m] : m \in S}
Covered(m)  == \E r \in attested : Leaf[m] \in r

Init == accepted = {} /\ asked = {} /\ attested = {} /\ reported = {}

(* Accepting a message starts its life again.                              *)
Accept(m) ==
  /\ accepted' = accepted \cup {m}
  /\ reported' = reported \ {m}
  /\ UNCHANGED <<asked, attested>>

Ask(r) ==
  /\ r \subseteq LeavesOf(accepted)
  /\ asked' = asked \cup {r}
  /\ UNCHANGED <<accepted, attested, reported>>

Attest(r) ==
  /\ r \in asked
  /\ attested' = attested \cup {r}
  /\ UNCHANGED <<accepted, asked, reported>>

Report(m) ==
  /\ Covered(m)
  /\ reported' = reported \cup {m}
  /\ UNCHANGED <<accepted, asked, attested>>

(* A message loop that lags behind the workers, or a restarted one, may    *)
(* write an earlier status over Signed.                                    *)
Withdraw(m) ==
  /\ reported' = reported \ {m}
  /\ UNCHANGED <<accepted, asked, attested>>

Next ==
  \/ \E m \in Messages : Accept(m) \/ Report(m) \/ Withdraw(m)
  \/ \E r \in SUBSET Leaves : Ask(r) \/ Attest(r)

Spec == Init /\ [][Next]_vars
=============================================================================
