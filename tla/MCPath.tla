------------------------------- MODULE MCPath -------------------------------
(***************************************************************************)
(* The two ends of a message's path, Intake and Delivery.  They share no   *)
(* state (what lies between is in Signer and Submission), so a run follows *)
(* one of them while the other rests in a state without a next step of its *)
(* own, rather than multiply their states.                                 *)
(***************************************************************************)
EXTENDS Intake, Delivery

CONSTANTS m1, w1, o1, o2, a, b

VARIABLE end   \* the end that is followed

pathVars == <<end, intakeVars, deliveryVars>>

(* One message that arrives in block 1 and asks for one confirmation, for  *)
(* the safe head, for a mixture that means finality, or cannot be decoded. *)
FirstBlock == [m \in Messages |-> 1]
Packed(raw, size) ==
  [size |-> size, lengths |-> [i \in 1 .. 7 |-> 0], finality |-> raw,
   token |-> [size |-> 0, lengths |-> [i \in 1 .. 5 |-> 0]]]
SomeEnvelopes == {Packed(1, 79), Packed(65536, 79), Packed(65537, 79), Packed(1, 80)}
OneHookList == {<<w1, Native>>}

(* Two operators.  Message a is for them to execute; message b has another *)
(* executor, and reaches at most the operator that is asked last, whose    *)
(* page of one message it shares with a.  The last deployment has receipts *)
(* that cannot be used.                                                    *)
TwoOperators == <<o1, o2>>
TwoIds == <<a, b>>
FirstToAll == [o \in Ops |-> {a}]
SecondToOne == [o \in Ops |-> IF o = o2 THEN {a, b} ELSE {a}]
AllToOne == [o \in Ops |-> IF o = o2 THEN {a, b} ELSE {}]
Deployed(mode, receipts, reaches) ==
  [mode |-> mode, receipts |-> [m \in Msgs |-> receipts], reaches |-> reaches,
   designates |-> FirstToAll]
FiveWorlds ==
  {Deployed("layerzero", "none", FirstToAll), Deployed("mock", "good", SecondToOne),
   Deployed("ccip", "good", FirstToAll), Deployed("ccip", "good", AllToOne),
   [Deployed("mock", "none", SecondToOne) EXCEPT !.receipts[b] = "bad"]}
SentAtOne == [m \in Msgs |-> 1]

(* At rest: the source chain is mined out and nothing was received.        *)
IntakeRests == [latest |-> MaxBlock, safe |-> MaxBlock, finalized |-> MaxBlock]

PathInit ==
  /\ end \in {"intake", "delivery"}
  /\ IntakeInitFrom(IF end = "intake" THEN Genesis ELSE IntakeRests)
  /\ DeliveryInit
  /\ end = "intake" => world = Deployed("layerzero", "none", FirstToAll)
  /\ end = "delivery" => gating
  /\ end = "delivery" \/ ~gating => wire = [m \in Messages |-> Packed(1, 79)]

(* Not followed: sending b where it reaches nobody, and watches that name  *)
(* two messages, of which no property speaks and which leave nothing.      *)
Followed ==
  /\ nonce' = 2 => \E o \in Ops : b \in world.reaches[o]
  /\ cli'.id = cli'.tx

PathNext ==
  /\ UNCHANGED end
  /\ \/ end = "intake" /\ IntakeNext /\ UNCHANGED deliveryVars
     \/ end = "delivery" /\ DeliveryNext /\ UNCHANGED intakeVars /\ Followed

PathSpec == PathInit /\ [][PathNext]_pathVars /\ IntakeFairness

=============================================================================
