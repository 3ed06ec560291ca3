----------------------------- MODULE Admission ------------------------------
(***************************************************************************)
(* What the two halves of the operator that share the message tables may   *)
(* expect of each other. The signer reads the canonical mark and writes    *)
(* statuses; ingestion and sweep create messages and write the mark.       *)
(* While the sweep runs, a message that is not confirmed is held or        *)
(* abandoned, and neither judged by the hooks nor reported as Signed.      *)
(* Signer and SourceSweep implement it, each with the other half left      *)
(* open.                                                                   *)
(***************************************************************************)
CONSTANTS Messages, SweepModes

VARIABLES
  status,       \* of each message
  canonical,    \* confirmed messages
  sweepActive   \* whether the process runs the sweep

vars == <<status, canonical, sweepActive>>

Init ==
  /\ status = [m \in Messages |-> "Absent"]
  /\ canonical = {}
  /\ sweepActive \in SweepModes

Known(m)     == status[m] # "Absent"
Confirmed(m) == sweepActive => m \in canonical

Becomes(m, s) ==
  /\ status' = [status EXCEPT ![m] = s]
  /\ UNCHANGED <<canonical, sweepActive>>

Ingest(m) == ~Known(m) /\ Becomes(m, "Pending")

Confirm(m) ==
  /\ Known(m)
  /\ canonical' = canonical \cup {m}
  /\ UNCHANGED <<status, sweepActive>>

Wait(m) == Known(m) /\ \E s \in {"Deferred", "Abandoned"} : Becomes(m, s)

Judge(m) ==
  /\ Known(m) /\ Confirmed(m)
  /\ \E s \in {"Pending", "Deferred", "Rejected", "Processing"} : Becomes(m, s)

Report(m) == Known(m) /\ Confirmed(m) /\ Becomes(m, "Signed")

Restart ==
  /\ sweepActive' \in SweepModes
  /\ UNCHANGED <<status, canonical>>

Next ==
  \/ \E m \in Messages : Ingest(m) \/ Confirm(m) \/ Wait(m) \/ Judge(m) \/ Report(m)
  \/ Restart

Spec == Init /\ [][Next]_vars
=============================================================================
