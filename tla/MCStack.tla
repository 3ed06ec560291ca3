------------------------------ MODULE MCStack ------------------------------
(***************************************************************************)
(* What xtask does on the chain, and what it does with the containers:     *)
(* Deployment and Startup.  They share no state (the contracts of a start  *)
(* are in one, its containers in the other), so a run follows one of them  *)
(* while the other rests.                                                  *)
(***************************************************************************)
EXTENDS Deployment, Startup

CONSTANTS lz, ccv, o1

VARIABLE end   \* the end that is followed

stackVars == <<end, vars, startupVars>>

(* The stack that rests.                                                   *)
OneStack == [local |-> TRUE, provider |-> "layerzero"]

StackInit ==
  /\ end \in {"deployment", "startup"}
  /\ Init
  /\ StartupInit
  /\ end = "deployment" => stack = OneStack /\ missing = "none" /\ settings.pass = "mine"
                           /\ keystore[1] = "mine"
  /\ end = "startup" => local

StackNext ==
  /\ UNCHANGED end
  /\ \/ end = "deployment" /\ Next /\ UNCHANGED startupVars
     \/ end = "startup" /\ StartupNext /\ UNCHANGED vars

StackSpec == StackInit /\ [][StackNext]_stackVars
=============================================================================
