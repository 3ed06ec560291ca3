--------------------------- MODULE SubmissionRows ---------------------------
(***************************************************************************)
(* What a reader of the operators' submission rows may rely on, whichever  *)
(* loops, handlers, late answers and old copies write them: a row says     *)
(* Confirmed or Failed only of a transaction that ended so, the first      *)
(* execution outcome it tells happened and stays, and until it tells one,  *)
(* what was handed to the relayer is not taken for new again and what was  *)
(* left to another stays so.  Submission, which writes the rows, and       *)
(* Delivery, whose watches read them, implement it.                        *)
(***************************************************************************)
CONSTANT Keys     \* the rows

VARIABLES
  state, exec,    \* of each row
  ended,          \* <<row, end>> of the relayer's transactions for it
  happened        \* <<row, outcome>> of the executions of its message

vars == <<state, exec, ended, happened>>

Fresh == {"Absent", "Pending"}
Left  == {"Skipped", "Deduplicated"}

Init ==
  /\ state = [k \in Keys |-> "Absent"] /\ exec = [k \in Keys |-> "None"]
  /\ ended = {} /\ happened = {}

(* A save of one row, with state s and outcome x.                          *)
Save(k, s, x) ==
  /\ s = "Confirmed" => <<k, "confirmed">> \in ended
  /\ s = "Failed" => <<k, "failed">> \in ended
  /\ s = "Absent" => state[k] = "Absent"
  /\ exec[k] # "None" => x = exec[k]
  /\ exec[k] = "None" /\ x # "None" => <<k, x>> \in happened
  /\ x = "None" /\ s \in Fresh => state[k] \in Fresh
  /\ x = "None" /\ state[k] \in Left => s = state[k]
  /\ state' = [state EXCEPT ![k] = s]
  /\ exec' = [exec EXCEPT ![k] = x]
  /\ UNCHANGED <<ended, happened>>

(* The relayer and the destination chain go on.                            *)
Proceed ==
  /\ ended \subseteq ended' /\ happened \subseteq happened'
  /\ UNCHANGED <<state, exec>>

Next ==
  \/ \E k \in Keys :
       \E s \in Fresh \cup Left \cup {"Submitted", "Confirmed", "Failed"},
          x \in {"None", "Success", "Failure"} : Save(k, s, x)
  \/ Proceed

Spec == Init /\ [][Next]_vars
=============================================================================
