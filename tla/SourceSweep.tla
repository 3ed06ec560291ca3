---------------------------- MODULE SourceSweep ----------------------------
(***************************************************************************)
(* Ingestion of source-chain messages, the reconciliation sweep            *)
(* (operator/src/sweep) and the gate with which the signer job waits for   *)
(* it (evaluate_finality_gate).                                            *)
(*                                                                         *)
(* A message reaches the operator by a webhook, which may come late, twice *)
(* or never, and may tell of a block that a reorganisation has removed, or *)
(* by the sweep, which reads the logs of the finalized chain range by      *)
(* range behind a persistent cursor and marks what it finds canonical.     *)
(* The gate holds a message until it is canonical, and abandons it once    *)
(* the cursor is past its block.  Sweep and gate run in tasks of their     *)
(* own; each storage transaction and each RPC of theirs is one step.       *)
(***************************************************************************)
EXTENDS Naturals, FiniteSets, FiniteSetsExt

CONSTANTS
  Messages,      \* message ids
  MaxBlock,      \* bound on the height of the source chain
  StartBlock,    \* sweep.start_block, 0 when it is not configured
  MaxRange,      \* sweep.max_block_range
  SweepModes,    \* values sweep_active may have when the process starts
  MaxFaults      \* bound on faults: messages dropped by a reorganisation,
                 \* failed RPCs and ingestions, crashes

ASSUME SweepConstants ==
  /\ MaxBlock \in Nat \ {0} /\ StartBlock \in Nat /\ MaxRange \in Nat \ {0}
  /\ SweepModes \subseteq BOOLEAN /\ SweepModes # {}
  /\ MaxFaults \in Nat

VARIABLES
  chain,        \* block that holds a message on the current chain, or 0
  finalized,    \* finalized head of the source chain
  emitted,      \* <<message, block>>: logs that were ever on some fork
  stored,       \* MESSAGES_TABLE: block number saved with a message, or 0
  status,       \* MESSAGE_STATUS_TABLE
  canonical,    \* CANONICAL_TABLE
  cursor,       \* SWEEP_CURSOR_TABLE: next block to sweep, or Unset
  sweepActive,  \* whether the process runs the sweep
  sweep,        \* the sweep task
  gate,         \* the signer's message loop, at the gate
  firstCursor,  \* history: where the sweep began
  faults        \* history: number of faults so far

chainVars   == <<chain, finalized, emitted>>
storageVars == <<stored, status, canonical, cursor>>
vars == <<chainVars, storageVars, sweepActive, sweep, gate, firstCursor, faults>>

None   == 0
Unset  == MaxBlock + 2    \* no cursor saved yet; a saved one may well be 0
Blocks == 1..MaxBlock

(* Absent, and what the signer makes of a message; Signed is its work.     *)
Statuses == {"Absent", "Pending", "Deferred", "Rejected", "Abandoned",
             "Processing", "Signed"}

SweepData == [pc : {"idle", "cursor", "oldest", "init", "scan", "ingest", "mark"},
              finalized : Nat, cursor : Nat, range : Nat, last : Nat,
              logs : SUBSET Messages, msg : SUBSET Messages]
IdleSweep == [pc |-> "idle", finalized |-> 0, cursor |-> 0, range |-> 0,
              last |-> 0, logs |-> {}, msg |-> {}]

GateData == [pc : {"idle", "cursor", "hold", "admit"}, msg : SUBSET Messages,
             verdict : {"Deferred", "Abandoned"}]
IdleGate == [pc |-> "idle", msg |-> {}, verdict |-> "Deferred"]

Lesser(a, b) == IF a < b THEN a ELSE b

IsFinal(m) == chain[m] # None /\ chain[m] <= finalized

Fault ==
  /\ faults < MaxFaults
  /\ faults' = faults + 1

Init ==
  /\ chain = [m \in Messages |-> None]
  /\ finalized = 1
  /\ emitted = {}
  /\ stored = [m \in Messages |-> None]
  /\ status = [m \in Messages |-> "Absent"]
  /\ canonical = {}
  /\ cursor = Unset
  /\ sweepActive \in SweepModes
  /\ sweep = IdleSweep
  /\ gate = IdleGate
  /\ firstCursor = Unset
  /\ faults = 0

-----------------------------------------------------------------------------
(* The source chain.  What is finalized does not change any more.          *)

Mine(m, b) ==
  /\ chain[m] = None /\ b > finalized
  /\ chain' = [chain EXCEPT ![m] = b]
  /\ emitted' = emitted \cup {<<m, b>>}
  /\ UNCHANGED <<finalized, storageVars, sweepActive, sweep, gate, firstCursor, faults>>

Reorg(m) ==
  /\ chain[m] > finalized
  /\ Fault
  /\ chain' = [chain EXCEPT ![m] = None]
  /\ UNCHANGED <<finalized, emitted, storageVars, sweepActive, sweep, gate, firstCursor>>

Finalize ==
  /\ finalized < MaxBlock
  /\ finalized' = finalized + 1
  /\ UNCHANGED <<chain, emitted, storageVars, sweepActive, sweep, gate, firstCursor, faults>>

-----------------------------------------------------------------------------
(* Ingestion.                                                              *)

(* save_message_classified: the first version of a message is kept.        *)
SaveMessage(m, b) ==
  IF stored[m] = None
  THEN /\ stored' = [stored EXCEPT ![m] = b]
       /\ status' = [status EXCEPT ![m] = "Pending"]
  ELSE UNCHANGED <<stored, status>>

Webhook(m, b) ==
  /\ <<m, b>> \in emitted
  /\ SaveMessage(m, b)
  /\ UNCHANGED <<chainVars, canonical, cursor, sweepActive, sweep, gate,
                 firstCursor, faults>>

-----------------------------------------------------------------------------
(* The sweep task: process_tick and process_filter.                        *)

ReadHead ==
  /\ sweepActive /\ sweep.pc = "idle"
  /\ sweep' = [IdleSweep EXCEPT !.pc = "cursor", !.finalized = finalized]
  /\ UNCHANGED <<chainVars, storageVars, sweepActive, gate, firstCursor, faults>>

StartScan(c) == [sweep EXCEPT !.pc = "scan", !.cursor = c, !.range = MaxRange]

ReadCursor ==
  /\ sweep.pc = "cursor"
  /\ sweep' = IF cursor = Unset THEN [sweep EXCEPT !.pc = "oldest"] ELSE StartScan(cursor)
  /\ UNCHANGED <<chainVars, storageVars, sweepActive, gate, firstCursor, faults>>

(* oldest_noncanonical_pending_block                                       *)
Unsettled == {m \in Messages \ canonical :
                status[m] \in {"Pending", "Deferred", "Processing"}}

(* The first cursor is the configured block or else the finalized head,    *)
(* lowered to the oldest message that still waits.                         *)
ReadOldest ==
  /\ sweep.pc = "oldest"
  /\ LET configured == IF StartBlock = None THEN sweep.finalized ELSE StartBlock
     IN  sweep' = [sweep EXCEPT !.pc = "init",
                                !.cursor = Min({configured} \cup {stored[m] : m \in Unsettled})]
  /\ UNCHANGED <<chainVars, storageVars, sweepActive, gate, firstCursor, faults>>

InitCursor ==
  /\ sweep.pc = "init"
  /\ cursor' = sweep.cursor /\ firstCursor' = sweep.cursor
  /\ sweep' = StartScan(sweep.cursor)
  /\ UNCHANGED <<chainVars, stored, status, canonical, sweepActive, gate, faults>>

Last == Lesser(sweep.cursor + sweep.range - 1, sweep.finalized)

GetLogs ==
  /\ sweep.pc = "scan" /\ sweep.cursor <= sweep.finalized
  /\ sweep' = [sweep EXCEPT !.pc = "ingest", !.last = Last,
                            !.logs = {m \in Messages : chain[m] \in sweep.cursor..Last}]
  /\ UNCHANGED <<chainVars, storageVars, sweepActive, gate, firstCursor, faults>>

(* Fault: a range of one block is halved as well.                          *)
RangeLimitToZero ==
  /\ sweep.pc = "scan" /\ sweep.cursor <= sweep.finalized
  /\ sweep' = [sweep EXCEPT !.range = (Last - sweep.cursor + 1) \div 2]
  /\ UNCHANGED <<chainVars, storageVars, sweepActive, gate, firstCursor, faults>>

(* The RPC rejects the range as too large: half of it is tried next.       *)
RangeLimit ==
  LET span == Last - sweep.cursor + 1
  IN  /\ sweep.pc = "scan" /\ sweep.cursor <= sweep.finalized /\ span > 1
      /\ sweep' = [sweep EXCEPT !.range = span \div 2]
      /\ UNCHANGED <<chainVars, storageVars, sweepActive, gate, firstCursor, faults>>

(* An RPC or an ingestion fails: the tick ends, the cursor stays.          *)
TickFails ==
  /\ sweep.pc \in {"scan", "ingest", "mark"}
  /\ Fault
  /\ sweep' = IdleSweep
  /\ UNCHANGED <<chainVars, storageVars, sweepActive, gate, firstCursor>>

(* Fault: a conflicting log confirms the stored message.                   *)
IngestLogConfirming(m) ==
  /\ sweep.pc = "ingest" /\ m \in sweep.logs
  /\ SaveMessage(m, chain[m])
  /\ sweep' = [sweep EXCEPT !.pc = "mark", !.logs = @ \ {m}, !.msg = {m}]
  /\ UNCHANGED <<chainVars, canonical, cursor, sweepActive, gate, firstCursor, faults>>

(* ingest_log: an exact duplicate is confirmed as well as a new message, a *)
(* conflicting one is left as it is.                                       *)
IngestLog(m) ==
  /\ sweep.pc = "ingest" /\ m \in sweep.logs
  /\ SaveMessage(m, chain[m])
  /\ sweep' = IF stored[m] \in {None, chain[m]}
              THEN [sweep EXCEPT !.pc = "mark", !.logs = @ \ {m}, !.msg = {m}]
              ELSE [sweep EXCEPT !.logs = @ \ {m}]
  /\ UNCHANGED <<chainVars, canonical, cursor, sweepActive, gate, firstCursor, faults>>

MarkCanonical ==
  /\ sweep.pc = "mark"
  /\ canonical' = canonical \cup sweep.msg
  /\ sweep' = [sweep EXCEPT !.pc = "ingest", !.msg = {}]
  /\ UNCHANGED <<chainVars, stored, status, cursor, sweepActive, gate, firstCursor, faults>>

(* Fault: the cursor is saved before the logs of the range are ingested.   *)
AdvanceCursorFirst ==
  /\ sweep.pc = "ingest"
  /\ cursor' = sweep.last + 1
  /\ sweep' = IF sweep.logs = {}
              THEN [sweep EXCEPT !.pc = "scan", !.cursor = sweep.last + 1] ELSE sweep
  /\ UNCHANGED <<chainVars, stored, status, canonical, sweepActive, gate,
                 firstCursor, faults>>

(* Fault: one range counts as the whole way to the finalized head.         *)
AdvanceCursorToHead ==
  /\ sweep.pc = "ingest" /\ sweep.logs = {}
  /\ cursor' = sweep.finalized + 1
  /\ sweep' = [sweep EXCEPT !.pc = "scan", !.cursor = sweep.finalized + 1]
  /\ UNCHANGED <<chainVars, stored, status, canonical, sweepActive, gate,
                 firstCursor, faults>>

AdvanceCursor ==
  /\ sweep.pc = "ingest" /\ sweep.logs = {}
  /\ cursor' = sweep.last + 1
  /\ sweep' = [sweep EXCEPT !.pc = "scan", !.cursor = sweep.last + 1]
  /\ UNCHANGED <<chainVars, stored, status, canonical, sweepActive, gate,
                 firstCursor, faults>>

EndScan ==
  /\ sweep.pc = "scan" /\ sweep.cursor > sweep.finalized
  /\ sweep' = IdleSweep
  /\ UNCHANGED <<chainVars, storageVars, sweepActive, gate, firstCursor, faults>>

SweepTask ==
  \/ ReadHead \/ ReadCursor \/ ReadOldest \/ InitCursor
  \/ GetLogs \/ RangeLimit \/ TickFails
  \/ (\E m \in Messages : IngestLog(m)) \/ MarkCanonical
  \/ AdvanceCursor \/ EndScan

-----------------------------------------------------------------------------
(* The gate of the message loop, and what the loop and the workers then do *)
(* (see Signer).                                                           *)

SetStatus(m, s) == status' = [status EXCEPT ![m] = s]

CheckCanonical(m) ==
  /\ gate.pc = "idle" /\ status[m] \in {"Pending", "Deferred"}
  /\ gate' = [gate EXCEPT !.msg = {m},
                          !.pc = IF sweepActive /\ m \notin canonical
                                 THEN "cursor" ELSE "admit"]
  /\ UNCHANGED <<chainVars, storageVars, sweepActive, sweep, firstCursor, faults>>

(* Fault: the block the sweep does next counts as swept.                   *)
CompareCursorInclusive ==
  /\ gate.pc = "cursor"
  /\ LET passed == cursor # Unset /\ \A m \in gate.msg : stored[m] <= cursor
     IN  gate' = [gate EXCEPT !.pc = "hold",
                              !.verdict = IF passed THEN "Abandoned" ELSE "Deferred"]
  /\ UNCHANGED <<chainVars, storageVars, sweepActive, sweep, firstCursor, faults>>

(* Fault: an unconfirmed message is always held.                           *)
CompareCursorHolds ==
  /\ gate.pc = "cursor"
  /\ gate' = [gate EXCEPT !.pc = "hold", !.verdict = "Deferred"]
  /\ UNCHANGED <<chainVars, storageVars, sweepActive, sweep, firstCursor, faults>>

(* A message below the cursor, as it is now, will not be swept any more.   *)
CompareCursor ==
  /\ gate.pc = "cursor"
  /\ LET passed == cursor # Unset /\ \A m \in gate.msg : stored[m] < cursor
     IN  gate' = [gate EXCEPT !.pc = "hold",
                              !.verdict = IF passed THEN "Abandoned" ELSE "Deferred"]
  /\ UNCHANGED <<chainVars, storageVars, sweepActive, sweep, firstCursor, faults>>

Hold ==
  /\ gate.pc = "hold"
  /\ \E m \in gate.msg : SetStatus(m, gate.verdict)
  /\ gate' = IdleGate
  /\ UNCHANGED <<chainVars, stored, canonical, cursor, sweepActive, sweep,
                 firstCursor, faults>>

(* Finality, hooks and batching: held, rejected, left for another tick, or *)
(* put into a tree.                                                        *)
Admit ==
  /\ gate.pc = "admit"
  /\ \E m \in gate.msg, s \in {"Deferred", "Rejected", "Pending", "Processing"} :
       SetStatus(m, s)
  /\ gate' = IdleGate
  /\ UNCHANGED <<chainVars, stored, canonical, cursor, sweepActive, sweep,
                 firstCursor, faults>>

(* Fault: only the gate looks at the canonical mark.                       *)
AttestUnparked(m) ==
  /\ status[m] \notin {"Absent", "Signed"}
  /\ SetStatus(m, "Signed")
  /\ UNCHANGED <<chainVars, stored, canonical, cursor, sweepActive, sweep, gate,
                 firstCursor, faults>>

(* process_single_root: parked while the message is not canonical.  Its    *)
(* tree may be older than its status: a crash may fall before the mark     *)
(* Processing, and the gate judges the message again (see Signer).         *)
Attest(m) ==
  /\ status[m] \notin {"Absent", "Signed"} /\ (sweepActive => m \in canonical)
  /\ SetStatus(m, "Signed")
  /\ UNCHANGED <<chainVars, stored, canonical, cursor, sweepActive, sweep, gate,
                 firstCursor, faults>>

SignerTask ==
  \/ (\E m \in Messages : CheckCanonical(m)) \/ CompareCursor \/ Hold \/ Admit

Crash ==
  /\ Fault
  /\ sweep' = IdleSweep /\ gate' = IdleGate
  /\ sweepActive' \in SweepModes
  /\ UNCHANGED <<chainVars, storageVars, firstCursor>>

Next ==
  \/ \E m \in Messages, b \in Blocks : Mine(m, b) \/ Webhook(m, b)
  \/ \E m \in Messages : Reorg(m)
  \/ Finalize
  \/ SweepTask
  \/ SignerTask
  \/ \E m \in Messages : Attest(m)
  \/ Crash

Spec == Init /\ [][Next]_vars

-----------------------------------------------------------------------------
(* Fairness.  The chain keeps finalizing; the tasks are scheduled; each    *)
(* tick of the message loop visits every message that is ready.            *)

Fairness ==
  /\ WF_vars(Finalize) /\ WF_vars(SweepTask) /\ WF_vars(SignerTask)
  /\ \A m \in Messages : SF_vars(CheckCanonical(m))

FairSpec == Spec /\ Fairness

-----------------------------------------------------------------------------
(* Properties.                                                             *)

TypeOK ==
  /\ chain \in [Messages -> 0..MaxBlock]
  /\ finalized \in Blocks
  /\ emitted \subseteq Messages \X Blocks
  /\ stored \in [Messages -> 0..MaxBlock]
  /\ status \in [Messages -> Statuses]
  /\ canonical \subseteq Messages
  /\ cursor \in Nat /\ firstCursor \in Nat
  /\ sweepActive \in BOOLEAN
  /\ sweep \in SweepData
  /\ sweep.pc \in {"scan", "ingest", "mark"} => sweep.range > 0
  /\ gate \in GateData
  /\ faults \in Nat

(* The cursor never passes a message: every log of the swept part of the   *)
(* finalized chain is stored, and confirmed unless another version of the  *)
(* message was stored first, whatever ranges were halved, failed, or were  *)
(* cut short by a crash (process_filter: ingest first, then the cursor).   *)
CursorSkipsNothing ==
  \A m \in Messages :
    chain[m] # None /\ firstCursor <= chain[m] /\ chain[m] < cursor =>
      /\ stored[m] # None
      /\ stored[m] = chain[m] => m \in canonical

(* A canonical mark is final: the stored message is the one of the         *)
(* finalized chain (ingest_log marks sweep origins only).                  *)
CanonicalIsFinal ==
  \A m \in canonical : IsFinal(m) /\ chain[m] = stored[m]

(* While the sweep runs nothing is attested from a block that a            *)
(* reorganisation removed, however the message came in, and although it    *)
(* may have been batched before the sweep was switched on.                 *)
AttestedIsFinal ==
  [][\A m \in Messages :
       sweepActive /\ status'[m] = "Signed" /\ status[m] # "Signed" =>
         IsFinal(m) /\ chain[m] = stored[m]]_vars

(* A message the sweep had a chance to confirm is only abandoned when the  *)
(* block it was stored with does not hold it.                              *)
AbandonedWasSearched ==
  \A m \in Messages :
    status[m] = "Abandoned" /\ m \notin canonical /\ firstCursor <= stored[m] =>
      chain[m] # stored[m]

(* Again and again every finalized log from the first cursor on is stored, *)
(* whether or not a webhook came for it (process_tick, process_filter).    *)
FinalizedIsIngested ==
  []<>(sweepActive => \A m \in Messages :
         IsFinal(m) /\ firstCursor <= chain[m] => stored[m] # None)

(* Again and again no message waits for the sweep: each one is confirmed or*)
(* given up, whenever its block is, and whatever the sweep and the gate    *)
(* read of each other's progress (process_messages, process_filter).        *)
HeldIsResolved ==
  []<>(sweepActive =>
         \A m \in Messages \ canonical : status[m] \notin {"Pending", "Deferred"})

(* The error the gate logs when it abandons a message: it was not found on *)
(* the canonical chain.                                                    *)
AbandonedIsOffChain ==
  [][\A m \in Messages :
       status[m] # "Abandoned" /\ status'[m] = "Abandoned" => ~IsFinal(m)]_vars

-----------------------------------------------------------------------------
(* The half of ingestion, sweep and gate in what signer and sweep expect   *)
(* of each other in the tables they share (see Signer).                    *)
Tables == INSTANCE Admission

AdmissionSpec == Tables!Spec
=============================================================================
