---------------------------- MODULE SweepProofs ----------------------------
(***************************************************************************)
(* Proofs about SourceSweep, for every set of messages, height of the      *)
(* chain, first block, size of range and number of faults.                 *)
(***************************************************************************)
EXTENDS SourceSweep, WellFoundedInduction, TLAPS

-----------------------------------------------------------------------------
(* Type correctness.                                                       *)

LEMMA IdleType ==
  /\ IdleSweep \in SweepData /\ IdleSweep.pc = "idle"
  /\ IdleGate \in GateData /\ IdleGate.pc = "idle"
BY DEF IdleSweep, SweepData, IdleGate, GateData

LEMMA MinMember ==
  ASSUME NEW S \in SUBSET Nat, S # {}
  PROVE  Min(S) \in S
<1>1. PICK x \in S : \A y \in S : <<y, x>> \notin OpToRel(<, Nat)
  BY NatLessThanWellFounded, WFMin
<1>2. \A y \in S : ~(y < x)
  BY <1>1 DEF OpToRel
<1>3. \A y \in S : x <= y
  BY <1>2
<1> QED
  BY <1>3 DEF Min

LEMMA ScanType ==
  ASSUME sweep \in SweepData, NEW c \in Nat
  PROVE  StartScan(c) \in SweepData /\ StartScan(c).range > 0
<1>1. MaxRange \in Nat /\ MaxRange > 0
  BY SweepConstants
<1> QED
  BY <1>1 DEF StartScan, SweepData

LEMMA LastType ==
  ASSUME TypeOK, sweep.pc = "scan", sweep.cursor <= sweep.finalized
  PROVE  /\ Last \in Nat /\ Last <= sweep.finalized
         /\ sweep.cursor <= Last
BY DEF TypeOK, SweepData, Last, Lesser

LEMMA InitType == Init => TypeOK
BY IdleType, SweepConstants DEF Init, TypeOK, Statuses, Blocks, None, Unset

(* Saving a message.                                                       *)
LEMMA SaveType ==
  ASSUME TypeOK, NEW m \in Messages, NEW b \in 0..MaxBlock, SaveMessage(m, b)
  PROVE  stored' \in [Messages -> 0..MaxBlock] /\ status' \in [Messages -> Statuses]
BY DEF TypeOK, SaveMessage, Statuses

LEMMA ChainType ==
  ASSUME TypeOK,
         (\E m \in Messages, b \in Blocks : Mine(m, b)) \/ (\E m \in Messages : Reorg(m)) \/ Finalize
  PROVE  TypeOK'
<1> USE DEF TypeOK, storageVars
<1>1. CASE \E m \in Messages, b \in Blocks : Mine(m, b)
  BY <1>1 DEF Mine, Blocks
<1>2. CASE \E m \in Messages : Reorg(m)
  BY <1>2, SweepConstants DEF Reorg, Fault, None
<1>3. CASE Finalize
  BY <1>3, SweepConstants DEF Finalize, Blocks
<1> QED
  BY <1>1, <1>2, <1>3

LEMMA WebhookType ==
  ASSUME TypeOK, NEW m \in Messages, NEW b \in Blocks, Webhook(m, b)
  PROVE  TypeOK'
<1>1. b \in 0..MaxBlock
  BY DEF Blocks
<1>2. stored' \in [Messages -> 0..MaxBlock] /\ status' \in [Messages -> Statuses]
  BY <1>1, SaveType DEF Webhook
<1> QED
  BY <1>2 DEF TypeOK, Webhook, chainVars

LEMMA SweepType ==
  ASSUME TypeOK, SweepTask
  PROVE  TypeOK'
<1> USE DEF TypeOK, chainVars, storageVars
<1>1. CASE ReadHead
  <2>1. finalized \in Nat
    BY SweepConstants DEF Blocks
  <2>2. sweep' = [IdleSweep EXCEPT !.pc = "cursor", !.finalized = finalized]
    BY <1>1 DEF ReadHead
  <2>3. sweep' \in SweepData /\ sweep'.pc = "cursor"
    BY <2>1, <2>2, IdleType DEF SweepData
  <2> QED
    BY <1>1, <2>3 DEF ReadHead
<1>2. CASE ReadCursor
  <2>1. [sweep EXCEPT !.pc = "oldest"] \in SweepData /\ [sweep EXCEPT !.pc = "oldest"].pc = "oldest"
    BY DEF SweepData
  <2>2. sweep' \in SweepData /\ (sweep'.pc \in {"scan", "ingest", "mark"} => sweep'.range > 0)
    BY <1>2, <2>1, ScanType DEF ReadCursor
  <2> QED
    BY <1>2, <2>2 DEF ReadCursor
<1>3. CASE ReadOldest
  <2>1. PICK configured : /\ configured \in Nat
                          /\ sweep' = [sweep EXCEPT !.pc = "init",
                               !.cursor = Min({configured} \cup {stored[m] : m \in Unsettled})]
    BY <1>3, SweepConstants DEF ReadOldest, SweepData
  <2>2. {configured} \cup {stored[m] : m \in Unsettled} \in SUBSET Nat
    BY <2>1 DEF Unsettled
  <2>3. Min({configured} \cup {stored[m] : m \in Unsettled}) \in Nat
    BY <2>2, MinMember
  <2>4. sweep' \in SweepData /\ sweep'.pc = "init"
    BY <2>1, <2>3 DEF SweepData
  <2> QED
    BY <1>3, <2>4 DEF ReadOldest
<1>4. CASE InitCursor
  <2>1. sweep.cursor \in Nat
    BY DEF SweepData
  <2>2. sweep' \in SweepData /\ sweep'.range > 0
    BY <1>4, <2>1, ScanType DEF InitCursor
  <2> QED
    BY <1>4, <2>1, <2>2 DEF InitCursor
<1>5. CASE GetLogs
  <2>1. Last \in Nat
    BY <1>5, LastType DEF GetLogs
  <2>2. sweep' \in SweepData /\ sweep'.range > 0
    BY <1>5, <2>1 DEF GetLogs, SweepData
  <2> QED
    BY <1>5, <2>2 DEF GetLogs
<1>6. CASE RangeLimit
  <2>1. Last - sweep.cursor + 1 \in Nat /\ Last - sweep.cursor + 1 > 1
    BY <1>6, LastType DEF RangeLimit, SweepData
  <2>2. (Last - sweep.cursor + 1) \div 2 \in Nat /\ (Last - sweep.cursor + 1) \div 2 > 0
    BY <2>1
  <2>3. sweep' \in SweepData /\ sweep'.range > 0
    BY <1>6, <2>2 DEF RangeLimit, SweepData
  <2> QED
    BY <1>6, <2>3 DEF RangeLimit
<1>7. CASE TickFails
  BY <1>7, IdleType DEF TickFails, Fault
<1>8. CASE \E m \in Messages : IngestLog(m)
  <2>1. PICK m \in Messages : IngestLog(m)
    BY <1>8
  <2>2. chain[m] \in 0..MaxBlock
    OBVIOUS
  <2>3. stored' \in [Messages -> 0..MaxBlock] /\ status' \in [Messages -> Statuses]
    BY <2>1, <2>2, SaveType DEF IngestLog
  <2>4. sweep' \in SweepData /\ sweep'.range > 0
    BY <2>1 DEF IngestLog, SweepData
  <2> QED
    BY <2>1, <2>3, <2>4 DEF IngestLog
<1>9. CASE MarkCanonical
  <2>1. sweep' \in SweepData /\ sweep'.range > 0 /\ sweep.msg \subseteq Messages
    BY <1>9 DEF MarkCanonical, SweepData
  <2> QED
    BY <1>9, <2>1 DEF MarkCanonical
<1>10. CASE AdvanceCursor
  <2>1. sweep.last + 1 \in Nat /\ sweep.range > 0
    BY <1>10 DEF AdvanceCursor, SweepData
  <2>2. sweep' = [sweep EXCEPT !.pc = "scan", !.cursor = sweep.last + 1]
    BY <1>10 DEF AdvanceCursor
  <2>3. sweep' \in SweepData /\ sweep'.range > 0
    BY <2>1, <2>2 DEF SweepData
  <2> QED
    BY <1>10, <2>1, <2>3 DEF AdvanceCursor
<1>11. CASE EndScan
  BY <1>11, IdleType DEF EndScan
<1> QED
  BY <1>1, <1>2, <1>3, <1>4, <1>5, <1>6, <1>7, <1>8, <1>9, <1>10, <1>11 DEF SweepTask

LEMMA SignerType ==
  ASSUME TypeOK, SignerTask \/ (\E m \in Messages : Attest(m)) \/ Crash
  PROVE  TypeOK'
<1> USE DEF TypeOK, chainVars, storageVars
<1>1. CASE \E m \in Messages : CheckCanonical(m)
  <2>1. PICK m \in Messages, pc \in {"cursor", "admit"} :
          gate' = [gate EXCEPT !.msg = {m}, !.pc = pc]
    BY <1>1 DEF CheckCanonical
  <2>2. gate' \in GateData
    BY <2>1 DEF GateData
  <2> QED
    BY <1>1, <2>2 DEF CheckCanonical
<1>2. CASE CompareCursor
  <2>1. gate' \in GateData
    BY <1>2 DEF CompareCursor, GateData
  <2> QED
    BY <1>2, <2>1 DEF CompareCursor
<1>3. CASE Hold
  <2>1. gate.verdict \in Statuses /\ gate.msg \subseteq Messages
    BY DEF GateData, Statuses
  <2>2. status' \in [Messages -> Statuses]
    BY <1>3, <2>1 DEF Hold, SetStatus
  <2> QED
    BY <1>3, <2>2, IdleType DEF Hold
<1>4. CASE Admit
  <2>1. gate.msg \subseteq Messages
    BY DEF GateData
  <2>2. status' \in [Messages -> Statuses]
    BY <1>4, <2>1 DEF Admit, SetStatus, Statuses
  <2> QED
    BY <1>4, <2>2, IdleType DEF Admit
<1>5. CASE \E m \in Messages : Attest(m)
  <2>1. status' \in [Messages -> Statuses]
    BY <1>5 DEF Attest, SetStatus, Statuses
  <2> QED
    BY <1>5, <2>1 DEF Attest
<1>6. CASE Crash
  BY <1>6, IdleType, SweepConstants DEF Crash, Fault
<1> QED
  BY <1>1, <1>2, <1>3, <1>4, <1>5, <1>6 DEF SignerTask

LEMMA NextType ==
  ASSUME TypeOK, [Next]_vars
  PROVE  TypeOK'
<1>1. CASE UNCHANGED vars
  BY <1>1 DEF vars, chainVars, storageVars, TypeOK
<1> QED
  BY <1>1, ChainType, WebhookType, SweepType, SignerType DEF Next

(* Every reachable state is well typed; a range is never empty.            *)
THEOREM TypeCorrect == Spec => []TypeOK
<1>1. TypeOK /\ [Next]_vars => TypeOK'
  BY NextType
<1> QED
  BY <1>1, InitType, PTL DEF Spec

-----------------------------------------------------------------------------
(* The invariant.                                                          *)

(* The sweep has dealt with the log of a message.                          *)
Settled(m) == stored[m] # None /\ (stored[m] = chain[m] => m \in canonical)

(* The cursor is past the head only where it began.                        *)
CursorIsBehind == cursor > 0 /\ (cursor <= finalized + 1 \/ cursor <= firstCursor)

(* What the sweep task holds across its calls: a head that was final, the  *)
(* cursor as it is stored, and every log of its range that is not settled. *)
SweepIsSound ==
  /\ sweep.pc # "idle" => sweep.finalized > 0 /\ sweep.finalized <= finalized
  /\ sweep.pc \in {"oldest", "init"} => cursor = Unset
  /\ sweep.pc \in {"init", "scan", "ingest", "mark"} => sweep.cursor > 0
  /\ sweep.pc \in {"scan", "ingest", "mark"} => sweep.cursor = cursor
  /\ sweep.pc # "mark" => sweep.msg = {}
  /\ sweep.pc \in {"ingest", "mark"} =>
       /\ sweep.cursor <= sweep.last /\ sweep.last <= sweep.finalized
       /\ \A m \in sweep.logs : chain[m] # None /\ chain[m] <= sweep.last
       /\ \A m \in sweep.msg : chain[m] # None /\ chain[m] <= sweep.last /\ stored[m] = chain[m]
       /\ \A m \in Messages :
            chain[m] \in sweep.cursor..sweep.last =>
              m \in sweep.logs \/ m \in sweep.msg \/ Settled(m)

(* What was given up, or is about to be, is behind the cursor.             *)
GivenUp(m) ==
  \/ status[m] = "Abandoned"
  \/ gate.pc = "hold" /\ gate.verdict = "Abandoned" /\ m \in gate.msg

GivenUpIsPassed ==
  \A m \in Messages : GivenUp(m) => cursor # Unset /\ stored[m] < cursor

(* Only what is stored has a status or comes to the gate.                  *)
StoredFirst ==
  \A m \in Messages :
    stored[m] = None =>
      status[m] = "Absent" /\ ~(gate.pc # "idle" /\ m \in gate.msg)

SweepInv ==
  /\ TypeOK
  /\ CanonicalIsFinal
  /\ CursorSkipsNothing
  /\ CursorIsBehind
  /\ SweepIsSound
  /\ GivenUpIsPassed
  /\ StoredFirst

(* The types of the numbers an action reads.                               *)
LEMMA SweepTypes ==
  ASSUME TypeOK
  PROVE  /\ MaxBlock \in Nat /\ MaxRange \in Nat /\ StartBlock \in Nat
         /\ finalized \in Nat /\ finalized > 0 /\ finalized <= MaxBlock
         /\ cursor \in Nat /\ firstCursor \in Nat
         /\ \A m \in Messages : chain[m] \in Nat /\ stored[m] \in Nat
         /\ sweep.finalized \in Nat /\ sweep.cursor \in Nat /\ sweep.last \in Nat
         /\ sweep.logs \subseteq Messages /\ sweep.msg \subseteq Messages
         /\ sweep.pc \in {"idle", "cursor", "oldest", "init", "scan", "ingest", "mark"}
         /\ gate.msg \subseteq Messages /\ canonical \subseteq Messages
BY SweepConstants DEF TypeOK, SweepData, GateData, Blocks

LEMMA InitSweep == Init => SweepInv
<1> SUFFICES ASSUME Init PROVE SweepInv
  OBVIOUS
<1>1. TypeOK
  BY InitType
<1>2. CanonicalIsFinal /\ CursorSkipsNothing
  BY DEF Init, CanonicalIsFinal, CursorSkipsNothing
<1>3. CursorIsBehind
  BY SweepConstants DEF Init, CursorIsBehind, Unset
<1>4. sweep.pc = "idle" /\ sweep.msg = {} /\ gate.pc = "idle"
  BY DEF Init, IdleSweep, IdleGate
<1>5. SweepIsSound
  BY <1>4 DEF SweepIsSound
<1>6. GivenUpIsPassed /\ StoredFirst
  BY <1>4 DEF Init, GivenUpIsPassed, GivenUp, StoredFirst
<1> QED
  BY <1>1, <1>2, <1>3, <1>5, <1>6 DEF SweepInv

(* The chain moves only beyond its finalized head, where the cursor has    *)
(* not been and the sweep does not read.                                   *)
LEMMA ChainSweep ==
  ASSUME SweepInv,
         (\E m \in Messages, b \in Blocks : Mine(m, b)) \/ (\E m \in Messages : Reorg(m)) \/ Finalize
  PROVE  SweepInv'
<1> DEFINE Kept(m) == chain'[m] = chain[m]
           New(m)  == chain[m] = 0 /\ chain'[m] > finalized
           Gone(m) == chain[m] > finalized /\ chain'[m] = 0
<1>1. TypeOK /\ TypeOK'
  BY ChainType DEF SweepInv
<1>2. finalized' \in Nat /\ finalized <= finalized'
  BY <1>1, SweepTypes DEF Mine, Reorg, Finalize
<1>3. UNCHANGED <<stored, status, canonical, cursor, sweep, gate, firstCursor>>
  BY DEF Mine, Reorg, Finalize, storageVars
<1>4. \A m \in Messages : Kept(m) \/ New(m) \/ Gone(m)
  <2>1. CASE \E m \in Messages, b \in Blocks : Mine(m, b)
    BY <1>1, <2>1 DEF Mine, None, TypeOK
  <2>2. CASE \E m \in Messages : Reorg(m)
    BY <1>1, <2>2 DEF Reorg, None, TypeOK
  <2>3. CASE Finalize
    BY <2>3 DEF Finalize
  <2> QED
    BY <2>1, <2>2, <2>3
<1>5. \A m \in Messages : chain'[m] \in Nat /\ chain[m] \in Nat
  BY <1>1, SweepTypes DEF TypeOK, Blocks
<1>6. CanonicalIsFinal'
  <2> SUFFICES ASSUME NEW m \in canonical
               PROVE  chain'[m] # 0 /\ chain'[m] <= finalized' /\ chain'[m] = stored[m]
    BY <1>3 DEF CanonicalIsFinal, IsFinal, None
  <2>1. chain[m] # 0 /\ chain[m] <= finalized /\ chain[m] = stored[m] /\ m \in Messages
    BY <1>1, SweepTypes DEF SweepInv, CanonicalIsFinal, IsFinal, None
  <2>2. Kept(m)
    BY <1>1, <1>4, <1>5, <2>1, SweepTypes
  <2> QED
    BY <1>1, <1>2, <1>5, <2>1, <2>2, SweepTypes
<1>7. CursorSkipsNothing'
  <2> SUFFICES ASSUME NEW m \in Messages,
                      chain'[m] # 0, firstCursor <= chain'[m], chain'[m] < cursor
               PROVE  Settled(m)'
    BY <1>3 DEF CursorSkipsNothing, Settled, None
  <2>1. ~New(m)
    BY <1>1, <1>5, SweepTypes DEF SweepInv, CursorIsBehind
  <2>2. Kept(m)
    BY <1>4, <2>1
  <2> QED
    BY <1>3, <2>2 DEF SweepInv, CursorSkipsNothing, Settled, None
<1>8. CursorIsBehind'
  BY <1>1, <1>2, <1>3, SweepTypes DEF SweepInv, CursorIsBehind
<1>9. SweepIsSound'
  <2>1. SweepIsSound
    BY DEF SweepInv
  <2>2. sweep.pc # "idle" => sweep.finalized > 0 /\ sweep.finalized <= finalized'
    BY <1>1, <1>2, <2>1, SweepTypes DEF SweepIsSound
  <2>3. sweep.pc \in {"ingest", "mark"} =>
          \A m \in Messages :
            (chain[m] # 0 /\ chain[m] <= sweep.last) \/ (chain'[m] # 0 /\ chain'[m] <= sweep.last) =>
              chain'[m] = chain[m]
    <3>1. sweep.pc \in {"ingest", "mark"} => sweep.last <= finalized
      BY <1>1, <2>1, SweepTypes DEF SweepIsSound
    <3> QED
      BY <1>1, <1>4, <1>5, <3>1, SweepTypes
  <2>4. ASSUME sweep.pc \in {"ingest", "mark"}
        PROVE  /\ \A m \in sweep.logs : chain'[m] # 0 /\ chain'[m] <= sweep.last
               /\ \A m \in sweep.msg : chain'[m] # 0 /\ chain'[m] <= sweep.last /\ stored[m] = chain'[m]
    <3>1. /\ \A m \in sweep.logs : chain[m] # 0 /\ chain[m] <= sweep.last
          /\ \A m \in sweep.msg : chain[m] # 0 /\ chain[m] <= sweep.last /\ stored[m] = chain[m]
      BY <2>1, <2>4 DEF SweepIsSound, None
    <3>2. sweep.logs \subseteq Messages /\ sweep.msg \subseteq Messages
      BY <1>1, SweepTypes
    <3>3. \A m \in sweep.logs \cup sweep.msg : chain'[m] = chain[m]
      <4> TAKE m \in sweep.logs \cup sweep.msg
      <4>1. m \in Messages /\ chain[m] # 0 /\ chain[m] <= sweep.last
        BY <3>1, <3>2
      <4>2. \A i \in Messages : chain[i] # 0 /\ chain[i] <= sweep.last => chain'[i] = chain[i]
        BY <2>3, <2>4
      <4> QED
        BY <4>1, <4>2
    <3> QED
      BY <3>1, <3>3
  <2>5. ASSUME sweep.pc \in {"ingest", "mark"}, NEW m \in Messages,
               chain'[m] \in sweep.cursor..sweep.last
        PROVE  m \in sweep.logs \/ m \in sweep.msg \/ Settled(m)'
    <3>1. chain'[m] # 0 /\ chain'[m] <= sweep.last
      BY <1>1, <2>1, <2>5, SweepTypes DEF SweepIsSound
    <3>2. Kept(m)
      BY <2>3, <2>5, <3>1
    <3>3. m \in sweep.logs \/ m \in sweep.msg \/ Settled(m)
      BY <2>1, <2>5, <3>2 DEF SweepIsSound
    <3> QED
      BY <1>3, <3>2, <3>3 DEF Settled
  <2> QED
    BY <1>3, <2>1, <2>2, <2>4, <2>5 DEF SweepIsSound, None
<1>10. GivenUpIsPassed' /\ StoredFirst'
  BY <1>3 DEF SweepInv, GivenUpIsPassed, GivenUp, StoredFirst, Unset
<1> QED
  BY <1>1, <1>6, <1>7, <1>8, <1>9, <1>10 DEF SweepInv

(* Saving a message gives it the block it came with, and disturbs neither  *)
(* what is stored already nor what is canonical.                           *)
LEMMA SaveKeeps ==
  ASSUME SweepInv, NEW m \in Messages, NEW b \in Nat, b # 0, SaveMessage(m, b)
  PROVE  /\ stored'[m] # 0
         /\ stored[m] = 0 => stored'[m] = b
         /\ \A i \in Messages : stored[i] # 0 => stored'[i] = stored[i] /\ status'[i] = status[i]
         /\ \A i \in Messages : i # m => stored'[i] = stored[i] /\ status'[i] = status[i]
         /\ stored[m] = 0 => status'[m] = "Pending"
         /\ \A i \in canonical : stored[i] # 0 /\ stored'[i] = stored[i]
<1>1. stored \in [Messages -> 0..MaxBlock] /\ status \in [Messages -> Statuses]
  BY DEF SweepInv, TypeOK
<1>2. \A i \in canonical : i \in Messages /\ stored[i] # 0
  BY DEF SweepInv, TypeOK, CanonicalIsFinal, IsFinal, None
<1>3. CASE stored[m] = 0
  BY <1>1, <1>2, <1>3 DEF SaveMessage, None
<1>4. CASE stored[m] # 0
  BY <1>1, <1>2, <1>4 DEF SaveMessage, None
<1> QED
  BY <1>3, <1>4

(* What a save leaves true, whoever saves.                                 *)
LEMMA SaveSweep ==
  ASSUME SweepInv, NEW m \in Messages, NEW b \in Nat, b # 0, SaveMessage(m, b),
         UNCHANGED <<chain, finalized, canonical, cursor, gate, firstCursor>>
  PROVE  /\ CanonicalIsFinal' /\ CursorSkipsNothing' /\ CursorIsBehind'
         /\ GivenUpIsPassed' /\ StoredFirst'
<1>1. CanonicalIsFinal'
  BY SaveKeeps DEF SweepInv, CanonicalIsFinal, IsFinal
<1>2. CursorSkipsNothing'
  BY SaveKeeps DEF SweepInv, CursorSkipsNothing, None
<1>3. CursorIsBehind'
  BY DEF SweepInv, CursorIsBehind
<1>4. GivenUpIsPassed'
  <2> SUFFICES ASSUME NEW i \in Messages, GivenUp(i)'
               PROVE  cursor # Unset /\ stored'[i] < cursor
    BY DEF GivenUpIsPassed, Unset
  <2>1. CASE stored[i] # 0
    BY <2>1, SaveKeeps DEF SweepInv, GivenUpIsPassed, GivenUp
  <2>2. CASE stored[i] = 0
    <3>1. status[i] = "Absent" /\ ~(gate.pc # "idle" /\ i \in gate.msg)
      BY <2>2 DEF SweepInv, StoredFirst, None
    <3>2. status'[i] \in {"Absent", "Pending"}
      BY <2>2, <3>1, SaveKeeps
    <3> QED
      BY <3>1, <3>2 DEF GivenUp
  <2> QED
    BY <2>1, <2>2
<1>5. StoredFirst'
  <2> SUFFICES ASSUME NEW i \in Messages, stored'[i] = 0
               PROVE  status'[i] = "Absent" /\ ~(gate.pc # "idle" /\ i \in gate.msg)
    BY DEF StoredFirst, None
  <2>1. stored[i] = 0 /\ i # m
    BY SaveKeeps
  <2> QED
    BY <2>1, SaveKeeps DEF SweepInv, StoredFirst, None
<1> QED
  BY <1>1, <1>2, <1>3, <1>4, <1>5

LEMMA WebhookSweep ==
  ASSUME SweepInv, NEW m \in Messages, NEW b \in Blocks, Webhook(m, b)
  PROVE  SweepInv'
<1>1. TypeOK /\ TypeOK'
  BY WebhookType DEF SweepInv
<1>2. b \in Nat /\ b # 0 /\ SaveMessage(m, b)
  BY DEF Webhook, Blocks
<1>3. UNCHANGED <<chain, finalized, canonical, cursor, gate, firstCursor, sweep>>
  BY DEF Webhook, chainVars
<1>4. /\ CanonicalIsFinal' /\ CursorSkipsNothing' /\ CursorIsBehind'
      /\ GivenUpIsPassed' /\ StoredFirst'
  BY <1>2, <1>3, SaveSweep
<1>5. SweepIsSound'
  <2>1. SweepIsSound /\ sweep.msg \subseteq Messages
    BY <1>1, SweepTypes DEF SweepInv
  <2>2. sweep.pc \in {"ingest", "mark"} => \A i \in sweep.msg : stored'[i] = chain[i]
    <3> SUFFICES ASSUME sweep.pc \in {"ingest", "mark"}, NEW i \in sweep.msg
                 PROVE  stored'[i] = chain[i]
      OBVIOUS
    <3>1. i \in Messages /\ stored[i] = chain[i] /\ chain[i] # 0
      BY <2>1 DEF SweepIsSound, None
    <3> QED
      BY <1>2, <3>1, SaveKeeps
  <2>3. \A i \in Messages : Settled(i) => Settled(i)'
    BY <1>2, <1>3, SaveKeeps DEF Settled, None
  <2>4. sweep.pc \in {"ingest", "mark"} =>
          \A i \in Messages :
            chain[i] \in sweep.cursor..sweep.last =>
              i \in sweep.logs \/ i \in sweep.msg \/ Settled(i)'
    BY <2>1, <2>3 DEF SweepIsSound
  <2> QED
    BY <1>3, <2>1, <2>2, <2>4 DEF SweepIsSound, None, Unset
<1> QED
  BY <1>1, <1>4, <1>5 DEF SweepInv

(* A step that leaves all but the sweep task alone keeps the rest.         *)
LEMMA OnlyTask ==
  ASSUME SweepInv, TypeOK', SweepIsSound',
         UNCHANGED <<chain, finalized, stored, status, canonical, cursor, gate, firstCursor>>
  PROVE  SweepInv'
BY DEF SweepInv, CanonicalIsFinal, IsFinal, CursorSkipsNothing, CursorIsBehind,
       GivenUpIsPassed, GivenUp, StoredFirst, Unset

(* The steps with which the sweep finds where to go on.                    *)
LEMMA StartSweep ==
  ASSUME SweepInv, ReadHead \/ ReadCursor \/ ReadOldest \/ RangeLimit \/ TickFails \/ EndScan
  PROVE  SweepInv'
<1>1. TypeOK /\ TypeOK' /\ SweepIsSound
  BY SweepType DEF SweepInv, SweepTask
<1>2. UNCHANGED <<chain, finalized, stored, status, canonical, cursor, gate, firstCursor>>
  BY DEF ReadHead, ReadCursor, ReadOldest, RangeLimit, TickFails, EndScan, chainVars, storageVars
<1>3. CASE ReadHead
  <2>1. sweep' = [IdleSweep EXCEPT !.pc = "cursor", !.finalized = finalized]
    BY <1>3 DEF ReadHead
  <2>2. sweep'.pc = "cursor" /\ sweep'.finalized = finalized /\ sweep'.msg = {}
    BY <2>1 DEF IdleSweep
  <2>3. SweepIsSound'
    BY <1>1, <1>2, <2>2, SweepTypes DEF SweepIsSound
  <2> QED
    BY <1>1, <1>2, <2>3, OnlyTask
<1>4. CASE ReadCursor
  <2>1. sweep.msg = {} /\ sweep.finalized > 0 /\ sweep.finalized <= finalized /\ cursor > 0
    BY <1>4 DEF SweepInv, CursorIsBehind, SweepIsSound, ReadCursor
  <2>2. sweep \in SweepData
    BY <1>1 DEF TypeOK
  <2>3. CASE cursor = Unset
    <3>1. sweep' = [sweep EXCEPT !.pc = "oldest"]
      BY <1>4, <2>3 DEF ReadCursor
    <3>2. sweep'.pc = "oldest" /\ sweep'.finalized = sweep.finalized /\ sweep'.msg = {}
      BY <2>1, <2>2, <3>1 DEF SweepData
    <3>3. SweepIsSound'
      BY <1>2, <2>1, <2>3, <3>2 DEF SweepIsSound, Unset
    <3> QED
      BY <1>1, <1>2, <3>3, OnlyTask
  <2>4. CASE cursor # Unset
    <3>1. sweep' = [sweep EXCEPT !.pc = "scan", !.cursor = cursor, !.range = MaxRange]
      BY <1>4, <2>4 DEF ReadCursor, StartScan
    <3>2. /\ sweep'.pc = "scan" /\ sweep'.finalized = sweep.finalized /\ sweep'.msg = {}
          /\ sweep'.cursor = cursor
      BY <2>1, <2>2, <3>1 DEF SweepData
    <3>3. SweepIsSound'
      BY <1>2, <2>1, <3>2 DEF SweepIsSound
    <3> QED
      BY <1>1, <1>2, <3>3, OnlyTask
  <2> QED
    BY <2>3, <2>4
<1>5. CASE ReadOldest
  <2>1. /\ sweep.msg = {} /\ sweep.finalized > 0 /\ sweep.finalized <= finalized
        /\ cursor = Unset
    BY <1>5, <1>1 DEF SweepIsSound, ReadOldest
  <2> DEFINE configured == IF StartBlock = 0 THEN sweep.finalized ELSE StartBlock
  <2>2. /\ sweep' = [sweep EXCEPT !.pc = "init",
                       !.cursor = Min({configured} \cup {stored[m] : m \in Unsettled})]
        /\ configured \in Nat \ {0}
    <3>1. configured \in Nat \ {0}
      BY <1>1, <2>1, SweepTypes
    <3> QED
      BY <1>5, <3>1 DEF ReadOldest, None
  <2> HIDE DEF configured
  <2> DEFINE candidates == {configured} \cup {stored[m] : m \in Unsettled}
  <2>3. candidates \in SUBSET (Nat \ {0}) /\ candidates # {}
    <3>1. \A m \in Unsettled : m \in Messages /\ stored[m] \in Nat /\ stored[m] # 0
      BY <1>1, SweepTypes DEF SweepInv, StoredFirst, Unsettled, None
    <3> QED
      BY <2>2, <3>1
  <2>4. Min(candidates) \in Nat \ {0}
    <3> HIDE DEF candidates
    <3>1. candidates \in SUBSET Nat
      BY <2>3
    <3> QED
      BY <2>3, <3>1, MinMember
  <2>5. sweep \in SweepData
    BY <1>1 DEF TypeOK
  <2>6. /\ sweep'.pc = "init" /\ sweep'.finalized = sweep.finalized /\ sweep'.msg = {}
        /\ sweep'.cursor \in Nat \ {0}
    BY <2>1, <2>2, <2>4, <2>5 DEF SweepData
  <2>7. SweepIsSound'
    BY <1>2, <2>1, <2>6 DEF SweepIsSound, Unset
  <2> QED
    BY <1>1, <1>2, <2>7, OnlyTask
<1>6. CASE RangeLimit
  <2>1. /\ sweep' = [sweep EXCEPT !.range = (Last - sweep.cursor + 1) \div 2]
        /\ sweep.pc = "scan" /\ sweep \in SweepData
    BY <1>1, <1>6 DEF RangeLimit, TypeOK
  <2>2. /\ sweep'.pc = "scan" /\ sweep'.finalized = sweep.finalized
        /\ sweep'.msg = sweep.msg /\ sweep'.cursor = sweep.cursor
    BY <2>1 DEF SweepData
  <2>3. SweepIsSound'
    BY <1>1, <1>2, <2>1, <2>2 DEF SweepIsSound
  <2> QED
    BY <1>1, <1>2, <2>3, OnlyTask
<1>7. CASE TickFails \/ EndScan
  <2>1. sweep'.pc = "idle" /\ sweep'.msg = {}
    BY <1>7 DEF TickFails, EndScan, IdleSweep
  <2>2. SweepIsSound'
    BY <2>1 DEF SweepIsSound
  <2> QED
    BY <1>1, <1>2, <2>2, OnlyTask
<1> QED
  BY <1>3, <1>4, <1>5, <1>6, <1>7

(* Nothing has been given up before there is a cursor, and nothing is      *)
(* skipped by one that is where it began.                                  *)
LEMMA InitCursorSweep ==
  ASSUME SweepInv, InitCursor
  PROVE  SweepInv'
<1>1. TypeOK /\ TypeOK' /\ SweepIsSound
  BY SweepType DEF SweepInv, SweepTask
<1>2. /\ sweep.pc = "init" /\ cursor = Unset /\ sweep.cursor > 0 /\ sweep.msg = {}
      /\ sweep.finalized > 0 /\ sweep.finalized <= finalized
  BY <1>1 DEF InitCursor, SweepIsSound
<1>3. /\ UNCHANGED <<chain, finalized, stored, status, canonical, gate>>
      /\ cursor' = sweep.cursor /\ firstCursor' = sweep.cursor
  BY DEF InitCursor, chainVars
<1>4. \A m \in Messages : ~GivenUp(m)
  BY <1>2 DEF SweepInv, GivenUpIsPassed
<1>5. CanonicalIsFinal' /\ GivenUpIsPassed' /\ StoredFirst'
  BY <1>3, <1>4 DEF SweepInv, CanonicalIsFinal, IsFinal, GivenUpIsPassed, GivenUp, StoredFirst
<1>6. CursorSkipsNothing'
  BY <1>1, <1>3, SweepTypes DEF CursorSkipsNothing
<1>7. CursorIsBehind'
  BY <1>1, <1>2, <1>3, SweepTypes DEF CursorIsBehind
<1>8. SweepIsSound'
  <2>1. sweep' = [sweep EXCEPT !.pc = "scan", !.cursor = sweep.cursor, !.range = MaxRange]
        /\ sweep \in SweepData
    BY <1>1 DEF InitCursor, StartScan, TypeOK
  <2>2. /\ sweep'.pc = "scan" /\ sweep'.finalized = sweep.finalized
        /\ sweep'.msg = sweep.msg /\ sweep'.cursor = sweep.cursor
    BY <2>1 DEF SweepData
  <2> QED
    BY <1>2, <1>3, <2>2 DEF SweepIsSound
<1> QED
  BY <1>1, <1>5, <1>6, <1>7, <1>8 DEF SweepInv

(* The logs of a range of the finalized chain are read as they will stay.  *)
LEMMA GetLogsSweep ==
  ASSUME SweepInv, GetLogs
  PROVE  SweepInv'
<1>1. TypeOK /\ TypeOK' /\ SweepIsSound
  BY SweepType DEF SweepInv, SweepTask
<1>2. UNCHANGED <<chain, finalized, stored, status, canonical, cursor, gate, firstCursor>>
  BY DEF GetLogs, chainVars, storageVars
<1>3. /\ sweep.pc = "scan" /\ sweep.cursor > 0 /\ sweep.cursor = cursor /\ sweep.msg = {}
      /\ sweep.finalized > 0 /\ sweep.finalized <= finalized
  BY <1>1 DEF GetLogs, SweepIsSound
<1>4. Last \in Nat /\ Last <= sweep.finalized /\ sweep.cursor <= Last
  BY <1>1, LastType DEF GetLogs
<1>5. /\ sweep' = [sweep EXCEPT !.pc = "ingest", !.last = Last,
                     !.logs = {m \in Messages : chain[m] \in sweep.cursor..Last}]
      /\ sweep \in SweepData
  BY <1>1 DEF GetLogs, TypeOK
<1>6. /\ sweep'.pc = "ingest" /\ sweep'.finalized = sweep.finalized /\ sweep'.last = Last
      /\ sweep'.msg = {} /\ sweep'.cursor = sweep.cursor
      /\ sweep'.logs = {m \in Messages : chain[m] \in sweep.cursor..Last}
  <2> HIDE DEF Last
  <2> QED
    BY <1>3, <1>5 DEF SweepData
<1>7. \A m \in sweep'.logs : chain[m] # 0 /\ chain[m] <= Last
  <2> HIDE DEF Last
  <2> QED
    BY <1>1, <1>3, <1>4, <1>6, SweepTypes
<1>8. SweepIsSound'
  <2> HIDE DEF Last
  <2> QED
    BY <1>2, <1>3, <1>4, <1>6, <1>7 DEF SweepIsSound, None
<1> QED
  BY <1>1, <1>2, <1>8, OnlyTask

(* A log is stored first and marked after, or left alone if it conflicts.  *)
LEMMA IngestLogSweep ==
  ASSUME SweepInv, NEW m \in Messages, IngestLog(m)
  PROVE  SweepInv'
<1>1. TypeOK /\ TypeOK' /\ SweepIsSound /\ sweep \in SweepData
  BY SweepType DEF SweepInv, SweepTask, TypeOK
<1>2. UNCHANGED <<chain, finalized, canonical, cursor, gate, firstCursor>>
  BY DEF IngestLog, chainVars
<1>3. sweep.pc = "ingest" /\ m \in sweep.logs /\ SaveMessage(m, chain[m])
  BY DEF IngestLog
<1>4. chain[m] \in Nat /\ chain[m] # 0 /\ chain[m] <= sweep.last
  BY <1>1, <1>3, SweepTypes DEF SweepIsSound, None
<1>5. /\ CanonicalIsFinal' /\ CursorSkipsNothing' /\ CursorIsBehind'
      /\ GivenUpIsPassed' /\ StoredFirst'
  BY <1>2, <1>3, <1>4, SaveSweep
<1>6. \A i \in Messages : Settled(i) => Settled(i)'
  BY <1>2, <1>3, <1>4, SaveKeeps DEF Settled, None
<1>7. /\ sweep.msg = {} /\ sweep.cursor > 0 /\ sweep.cursor = cursor
      /\ sweep.finalized > 0 /\ sweep.finalized <= finalized
      /\ sweep.cursor <= sweep.last /\ sweep.last <= sweep.finalized
      /\ \A i \in sweep.logs : chain[i] # 0 /\ chain[i] <= sweep.last
      /\ \A i \in Messages :
           chain[i] \in sweep.cursor..sweep.last => i \in sweep.logs \/ Settled(i)
  BY <1>1, <1>3 DEF SweepIsSound, None
<1>8. CASE stored[m] \in {None, chain[m]}
  <2>1. sweep' = [sweep EXCEPT !.pc = "mark", !.logs = @ \ {m}, !.msg = {m}]
    BY <1>8 DEF IngestLog
  <2>2. /\ sweep'.pc = "mark" /\ sweep'.finalized = sweep.finalized
        /\ sweep'.cursor = sweep.cursor /\ sweep'.last = sweep.last
        /\ sweep'.logs = sweep.logs \ {m} /\ sweep'.msg = {m}
    BY <1>1, <2>1 DEF SweepData
  <2>3. stored'[m] = chain[m]
    BY <1>3, <1>4, <1>8, SaveKeeps DEF None
  <2> QED
    <3>1. SweepIsSound'
      BY <1>2, <1>4, <1>6, <1>7, <2>2, <2>3 DEF SweepIsSound, None
    <3> QED
      BY <1>1, <1>5, <3>1 DEF SweepInv
<1>9. CASE stored[m] \notin {None, chain[m]}
  <2>1. sweep' = [sweep EXCEPT !.logs = @ \ {m}]
    BY <1>9 DEF IngestLog
  <2>2. /\ sweep'.pc = "ingest" /\ sweep'.finalized = sweep.finalized
        /\ sweep'.cursor = sweep.cursor /\ sweep'.last = sweep.last
        /\ sweep'.logs = sweep.logs \ {m} /\ sweep'.msg = {}
    BY <1>1, <1>3, <1>7, <2>1 DEF SweepData
  <2>3. Settled(m)'
    BY <1>2, <1>3, <1>4, <1>9, SaveKeeps DEF Settled, None
  <2>4. SweepIsSound'
    BY <1>2, <1>6, <1>7, <2>2, <2>3 DEF SweepIsSound, None
  <2> QED
    BY <1>1, <1>5, <2>4 DEF SweepInv
<1> QED
  BY <1>8, <1>9

(* What is marked was stored from a block that is final.                   *)
LEMMA MarkSweep ==
  ASSUME SweepInv, MarkCanonical
  PROVE  SweepInv'
<1>1. TypeOK /\ TypeOK' /\ SweepIsSound /\ sweep \in SweepData
  BY SweepType DEF SweepInv, SweepTask, TypeOK
<1>2. /\ UNCHANGED <<chain, finalized, stored, status, cursor, gate, firstCursor>>
      /\ canonical' = canonical \cup sweep.msg
      /\ sweep.pc = "mark" /\ sweep' = [sweep EXCEPT !.pc = "ingest", !.msg = {}]
  BY DEF MarkCanonical, chainVars
<1>3. /\ sweep.cursor > 0 /\ sweep.cursor = cursor
      /\ sweep.finalized > 0 /\ sweep.finalized <= finalized
      /\ sweep.cursor <= sweep.last /\ sweep.last <= sweep.finalized
      /\ \A i \in sweep.logs : chain[i] # 0 /\ chain[i] <= sweep.last
      /\ \A i \in sweep.msg : chain[i] # 0 /\ chain[i] <= sweep.last /\ stored[i] = chain[i]
      /\ \A i \in Messages :
           chain[i] \in sweep.cursor..sweep.last =>
             i \in sweep.logs \/ i \in sweep.msg \/ Settled(i)
  BY <1>1, <1>2 DEF SweepIsSound, None
<1>4. \A i \in sweep.msg : chain[i] <= finalized /\ i \in Messages
  BY <1>1, <1>3, SweepTypes
<1>5. CanonicalIsFinal'
  BY <1>2, <1>3, <1>4 DEF SweepInv, CanonicalIsFinal, IsFinal, None
<1>6. /\ CursorSkipsNothing' /\ CursorIsBehind' /\ GivenUpIsPassed' /\ StoredFirst'
  BY <1>2 DEF SweepInv, CursorSkipsNothing, CursorIsBehind, GivenUpIsPassed, GivenUp,
              StoredFirst, Unset
<1>7. /\ sweep'.pc = "ingest" /\ sweep'.finalized = sweep.finalized
      /\ sweep'.cursor = sweep.cursor /\ sweep'.last = sweep.last
      /\ sweep'.logs = sweep.logs /\ sweep'.msg = {}
  BY <1>1, <1>2 DEF SweepData
<1>8. \A i \in Messages : Settled(i) \/ i \in sweep.msg => Settled(i)'
  BY <1>2, <1>3 DEF Settled, None
<1>9. SweepIsSound'
  BY <1>2, <1>3, <1>7, <1>8 DEF SweepIsSound, None
<1> QED
  BY <1>1, <1>5, <1>6, <1>9 DEF SweepInv

(* The cursor advances over a range all of whose logs are settled.         *)
LEMMA AdvanceSweep ==
  ASSUME SweepInv, AdvanceCursor
  PROVE  SweepInv'
<1>1. TypeOK /\ TypeOK' /\ SweepIsSound /\ sweep \in SweepData
  BY SweepType DEF SweepInv, SweepTask, TypeOK
<1>2. /\ UNCHANGED <<chain, finalized, stored, status, canonical, gate, firstCursor>>
      /\ cursor' = sweep.last + 1
      /\ sweep.pc = "ingest" /\ sweep.logs = {}
      /\ sweep' = [sweep EXCEPT !.pc = "scan", !.cursor = sweep.last + 1]
  BY DEF AdvanceCursor, chainVars
<1>3. /\ sweep.cursor > 0 /\ sweep.cursor = cursor /\ sweep.msg = {}
      /\ sweep.finalized > 0 /\ sweep.finalized <= finalized
      /\ sweep.cursor <= sweep.last /\ sweep.last <= sweep.finalized
      /\ \A i \in Messages : chain[i] \in sweep.cursor..sweep.last => Settled(i)
  BY <1>1, <1>2 DEF SweepIsSound, None
<1>4. /\ cursor' \in Nat /\ cursor' > 0 /\ cursor < cursor'
      /\ cursor' <= finalized + 1 /\ cursor' # Unset
  BY <1>1, <1>2, <1>3, SweepTypes DEF Unset
<1>5. CanonicalIsFinal' /\ StoredFirst'
  BY <1>2 DEF SweepInv, CanonicalIsFinal, IsFinal, StoredFirst
<1>6. CursorIsBehind'
  BY <1>2, <1>4 DEF CursorIsBehind
<1>7. GivenUpIsPassed'
  <2> SUFFICES ASSUME NEW i \in Messages, GivenUp(i) PROVE stored[i] < cursor'
    BY <1>2, <1>4 DEF GivenUpIsPassed, GivenUp, Unset
  <2>1. stored[i] < cursor
    BY DEF SweepInv, GivenUpIsPassed
  <2> QED
    BY <1>1, <1>4, <2>1, SweepTypes
<1>8. CursorSkipsNothing'
  <2> SUFFICES ASSUME NEW i \in Messages,
                      chain[i] # 0, firstCursor <= chain[i], chain[i] < sweep.last + 1
               PROVE  Settled(i)
    BY <1>2 DEF CursorSkipsNothing, Settled, None
  <2>1. CASE chain[i] < cursor
    BY <2>1 DEF SweepInv, CursorSkipsNothing, Settled, None
  <2>2. CASE cursor <= chain[i]
    <3>1. chain[i] \in sweep.cursor..sweep.last
      BY <1>1, <1>3, <2>2, SweepTypes
    <3> QED
      BY <1>3, <3>1
  <2> QED
    BY <1>1, <2>1, <2>2, SweepTypes
<1>9. SweepIsSound'
  <2>1. sweep.last + 1 \in Nat
    BY <1>1, SweepTypes
  <2>2. /\ sweep'.pc = "scan" /\ sweep'.finalized = sweep.finalized
        /\ sweep'.cursor = sweep.last + 1 /\ sweep'.msg = {}
    BY <1>1, <1>2, <1>3, <2>1 DEF SweepData
  <2> QED
    BY <1>2, <1>3, <1>4, <2>2 DEF SweepIsSound
<1> QED
  BY <1>1, <1>5, <1>6, <1>7, <1>8, <1>9 DEF SweepInv

(* The signer reads the chain, the cursor and the marks, and writes only   *)
(* statuses.                                                               *)
LEMMA OnlySigner ==
  ASSUME SweepInv, TypeOK', GivenUpIsPassed', StoredFirst',
         UNCHANGED <<chain, finalized, stored, canonical, cursor, sweep, firstCursor>>
  PROVE  SweepInv'
<1>1. CanonicalIsFinal' /\ CursorSkipsNothing' /\ CursorIsBehind'
  BY DEF SweepInv, CanonicalIsFinal, IsFinal, CursorSkipsNothing, CursorIsBehind
<1>2. SweepIsSound'
  BY DEF SweepInv, SweepIsSound, Settled, Unset
<1> QED
  BY <1>1, <1>2 DEF SweepInv

(* What the loop takes up is stored; it gives up what the cursor passed.   *)
LEMMA GateSweep ==
  ASSUME SweepInv, SignerTask
  PROVE  SweepInv'
<1>1. TypeOK /\ TypeOK' /\ gate \in GateData /\ status \in [Messages -> Statuses]
  BY SignerType DEF SweepInv, TypeOK
<1>2. UNCHANGED <<chain, finalized, stored, canonical, cursor, sweep, firstCursor>>
  BY DEF SignerTask, CheckCanonical, CompareCursor, Hold, Admit, chainVars, storageVars
<1>3. CASE \E m \in Messages : CheckCanonical(m)
  <2>1. PICK m \in Messages, pc \in {"cursor", "admit"} :
          /\ gate' = [gate EXCEPT !.msg = {m}, !.pc = pc]
          /\ status[m] \in {"Pending", "Deferred"} /\ status' = status
    BY <1>3 DEF CheckCanonical, storageVars
  <2>2. gate'.pc = pc /\ gate'.msg = {m}
    BY <1>1, <2>1 DEF GateData
  <2>3. GivenUpIsPassed'
    BY <1>2, <2>1, <2>2 DEF SweepInv, GivenUpIsPassed, GivenUp, Unset
  <2>4. StoredFirst'
    BY <1>2, <2>1, <2>2 DEF SweepInv, StoredFirst
  <2> QED
    BY <1>1, <1>2, <2>3, <2>4, OnlySigner
<1>4. CASE CompareCursor
  <2> DEFINE passed == cursor # Unset /\ \A m \in gate.msg : stored[m] < cursor
  <2>1. /\ gate' = [gate EXCEPT !.pc = "hold",
                      !.verdict = IF passed THEN "Abandoned" ELSE "Deferred"]
        /\ gate.pc = "cursor" /\ status' = status
    BY <1>4 DEF CompareCursor, storageVars
  <2>2. /\ gate'.pc = "hold" /\ gate'.msg = gate.msg
        /\ gate'.verdict = "Abandoned" => passed
    <3> HIDE DEF passed
    <3> QED
      BY <1>1, <2>1 DEF GateData
  <2>3. GivenUpIsPassed'
    BY <1>2, <2>1, <2>2 DEF SweepInv, GivenUpIsPassed, GivenUp, Unset
  <2>4. StoredFirst'
    BY <1>2, <2>1, <2>2 DEF SweepInv, StoredFirst
  <2> QED
    BY <1>1, <1>2, <2>3, <2>4, OnlySigner
<1>5. CASE Hold
  <2>1. PICK m \in gate.msg : status' = [status EXCEPT ![m] = gate.verdict]
    BY <1>5 DEF Hold, SetStatus
  <2>2. gate.pc = "hold" /\ gate'.pc = "idle" /\ m \in Messages
    BY <1>1, <1>5, SweepTypes DEF Hold, IdleGate
  <2>3. /\ status'[m] = gate.verdict
        /\ \A i \in Messages : i # m => status'[i] = status[i]
    BY <1>1, <2>1, <2>2
  <2>4. GivenUpIsPassed'
    BY <1>2, <2>2, <2>3 DEF SweepInv, GivenUpIsPassed, GivenUp, Unset
  <2>5. StoredFirst'
    BY <1>2, <2>2, <2>3 DEF SweepInv, StoredFirst
  <2> QED
    BY <1>1, <1>2, <2>4, <2>5, OnlySigner
<1>6. CASE Admit
  <2>1. PICK m \in gate.msg, s \in {"Deferred", "Rejected", "Pending", "Processing"} :
          status' = [status EXCEPT ![m] = s]
    BY <1>6 DEF Admit, SetStatus
  <2>2. gate.pc = "admit" /\ gate'.pc = "idle" /\ m \in Messages
    BY <1>1, <1>6, SweepTypes DEF Admit, IdleGate
  <2>3. /\ status'[m] = s /\ s # "Abandoned"
        /\ \A i \in Messages : i # m => status'[i] = status[i]
    BY <1>1, <2>1, <2>2
  <2>4. GivenUpIsPassed'
    BY <1>2, <2>2, <2>3 DEF SweepInv, GivenUpIsPassed, GivenUp, Unset
  <2>5. StoredFirst'
    BY <1>2, <2>2, <2>3 DEF SweepInv, StoredFirst
  <2> QED
    BY <1>1, <1>2, <2>4, <2>5, OnlySigner
<1> QED
  BY <1>3, <1>4, <1>5, <1>6 DEF SignerTask

LEMMA AttestSweep ==
  ASSUME SweepInv, NEW m \in Messages, Attest(m)
  PROVE  SweepInv'
<1>1. TypeOK /\ TypeOK' /\ status \in [Messages -> Statuses]
  BY SignerType DEF SweepInv, TypeOK
<1>2. UNCHANGED <<chain, finalized, stored, canonical, cursor, sweep, firstCursor, gate>>
  BY DEF Attest, chainVars
<1>3. /\ status'[m] = "Signed" /\ status[m] # "Absent"
      /\ \A i \in Messages : i # m => status'[i] = status[i]
  BY <1>1 DEF Attest, SetStatus
<1>4. GivenUpIsPassed' /\ StoredFirst'
  BY <1>2, <1>3 DEF SweepInv, GivenUpIsPassed, GivenUp, StoredFirst, Unset
<1> QED
  BY <1>1, <1>2, <1>4, OnlySigner

(* Storage survives a crash, and neither task holds anything after it.     *)
LEMMA CrashSweep ==
  ASSUME SweepInv, Crash
  PROVE  SweepInv'
<1>1. TypeOK /\ TypeOK'
  BY SignerType DEF SweepInv
<1>2. UNCHANGED <<chain, finalized, stored, status, canonical, cursor, firstCursor>>
  BY DEF Crash, chainVars, storageVars
<1>3. sweep'.pc = "idle" /\ sweep'.msg = {} /\ gate'.pc = "idle"
  BY DEF Crash, IdleSweep, IdleGate
<1>4. CanonicalIsFinal' /\ CursorSkipsNothing' /\ CursorIsBehind'
  BY <1>2 DEF SweepInv, CanonicalIsFinal, IsFinal, CursorSkipsNothing, CursorIsBehind
<1>5. SweepIsSound'
  BY <1>3 DEF SweepIsSound
<1>6. GivenUpIsPassed' /\ StoredFirst'
  BY <1>2, <1>3 DEF SweepInv, GivenUpIsPassed, GivenUp, StoredFirst, Unset
<1> QED
  BY <1>1, <1>4, <1>5, <1>6 DEF SweepInv

LEMMA NextSweep ==
  ASSUME SweepInv, [Next]_vars
  PROVE  SweepInv'
<1>1. CASE UNCHANGED vars
  <2>1. TypeOK'
    BY <1>1, NextType DEF SweepInv
  <2>2. GivenUpIsPassed' /\ StoredFirst'
    BY <1>1 DEF SweepInv, GivenUpIsPassed, GivenUp, StoredFirst, Unset, vars, chainVars, storageVars
  <2> QED
    BY <1>1, <2>1, <2>2, OnlySigner DEF vars, chainVars, storageVars
<1>2. CASE SweepTask
  BY <1>2, StartSweep, InitCursorSweep, GetLogsSweep, IngestLogSweep, MarkSweep, AdvanceSweep
  DEF SweepTask
<1>3. CASE \E m \in Messages, b \in Blocks : Mine(m, b) \/ Webhook(m, b)
  BY <1>3, ChainSweep, WebhookSweep
<1> QED
  BY <1>1, <1>2, <1>3, ChainSweep, GateSweep, AttestSweep, CrashSweep DEF Next

-----------------------------------------------------------------------------
(* Results.                                                                *)

(* In every reachable state the cursor is behind the finalized head, what  *)
(* the sweep task holds is sound, and what was given up has been passed.   *)
THEOREM SweepInvariant == Spec => []SweepInv
<1>1. SweepInv /\ [Next]_vars => SweepInv'
  BY NextSweep
<1> QED
  BY <1>1, InitSweep, PTL DEF Spec

(* A canonical mark is never wrong: however the chain reorganises before   *)
(* its finalized head and whenever the operator crashes, the stored        *)
(* message is the one of the finalized chain (ingest_log).                 *)
THEOREM CanonicalForever == Spec => []CanonicalIsFinal
<1>1. SweepInv => CanonicalIsFinal
  BY DEF SweepInv
<1> QED
  BY <1>1, SweepInvariant, PTL

(* The cursor passes no message: whatever ranges are halved, fail or are   *)
(* cut short by a crash, each log below it was settled (process_filter).   *)
THEOREM NothingIsSkipped == Spec => []CursorSkipsNothing
<1>1. SweepInv => CursorSkipsNothing
  BY DEF SweepInv
<1> QED
  BY <1>1, SweepInvariant, PTL

(* What the gate abandons within the range of the sweep is not in the      *)
(* block it was stored with (evaluate_finality_gate, process_filter).      *)
THEOREM OnlyLostIsAbandoned == Spec => []AbandonedWasSearched
<1>1. SweepInv => AbandonedWasSearched
  <2> SUFFICES ASSUME SweepInv, NEW m \in Messages, status[m] = "Abandoned",
                      m \notin canonical, firstCursor <= stored[m], chain[m] = stored[m]
               PROVE  FALSE
    BY DEF AbandonedWasSearched
  <2>1. stored[m] < cursor
    BY DEF SweepInv, GivenUpIsPassed, GivenUp
  <2>2. stored[m] # None
    BY DEF SweepInv, StoredFirst
  <2> QED
    BY <2>1, <2>2 DEF SweepInv, CursorSkipsNothing
<1> QED
  BY <1>1, SweepInvariant, PTL

(* While the sweep runs, nothing is attested that is not on the finalized  *)
(* chain, although it was put into a tree before (process_single_root).    *)
THEOREM OnlyFinalIsAttested == Spec => AttestedIsFinal
<1> DEFINE A == \A m \in Messages :
                  sweepActive /\ status'[m] = "Signed" /\ status[m] # "Signed" =>
                    IsFinal(m) /\ chain[m] = stored[m]
<1>1. SweepInv /\ [Next]_vars => [A]_vars
  <2> SUFFICES ASSUME SweepInv, Next, NEW m \in Messages,
                      sweepActive, status'[m] = "Signed", status[m] # "Signed"
               PROVE  m \in canonical
    BY DEF SweepInv, CanonicalIsFinal
  <2>1. status \in [Messages -> Statuses] /\ gate \in GateData
    BY DEF SweepInv, TypeOK
  <2>2. PICK i \in Messages : Attest(i)
    <3>1. ~(\E i \in Messages, b \in Blocks : Mine(i, b) \/ Webhook(i, b))
      BY <2>1 DEF Mine, Webhook, SaveMessage, storageVars
    <3>2. ~(\E i \in Messages : Reorg(i)) /\ ~Finalize /\ ~Crash
      BY DEF Reorg, Finalize, Crash, storageVars
    <3>3. ~SweepTask
      BY <2>1 DEF SweepTask, ReadHead, ReadCursor, ReadOldest, InitCursor, GetLogs, RangeLimit,
                  TickFails, IngestLog, SaveMessage, MarkCanonical, AdvanceCursor, EndScan,
                  storageVars
    <3>4. ~SignerTask
      <4>1. ~(\E i \in Messages : CheckCanonical(i)) /\ ~CompareCursor
        BY DEF CheckCanonical, CompareCursor, storageVars
      <4>2. ~Hold
        BY <2>1 DEF Hold, SetStatus, GateData
      <4>3. ~Admit
        BY <2>1 DEF Admit, SetStatus
      <4> QED
        BY <4>1, <4>2, <4>3 DEF SignerTask
    <3> QED
      BY <3>1, <3>2, <3>3, <3>4 DEF Next
  <2>3. i = m
    BY <2>1, <2>2 DEF Attest, SetStatus
  <2> QED
    BY <2>2, <2>3 DEF Attest
<1>2. Spec => [][A]_vars
  BY <1>1, SweepInvariant, PTL DEF Spec
<1> QED
  BY <1>2 DEF AttestedIsFinal


-----------------------------------------------------------------------------
(* SourceSweep implements its half of Admission.                           *)

(* What is stored has a status, what the gate lets through is confirmed    *)
(* while the sweep runs, and the sweep confirms one message at a time.     *)
StoredIsKnown == \A m \in Messages : status[m] = "Absent" => stored[m] = None
GateIsSound   == gate.pc = "admit" /\ sweepActive => gate.msg \subseteq canonical
MarksOne      == sweep.pc = "mark" => \E m \in Messages : sweep.msg = {m}

TablesInv == StoredIsKnown /\ GateIsSound /\ MarksOne

Tabled == TablesInv' /\ [Tables!Next]_Tables!vars

(* A save by webhook or sweep creates a message or changes nothing.        *)
LEMMA SaveTabled ==
  ASSUME SweepInv, StoredIsKnown, NEW m \in Messages, NEW b \in Blocks, SaveMessage(m, b),
         UNCHANGED <<canonical, sweepActive>>
  PROVE  StoredIsKnown' /\ [Tables!Next]_Tables!vars
<1>1. status \in [Messages -> Statuses] /\ stored \in [Messages -> 0..MaxBlock]
  BY DEF SweepInv, TypeOK
<1>2. CASE stored[m] = None
  <2>1. status[m] = "Absent"
    BY <1>2 DEF SweepInv, StoredFirst
  <2>2. /\ stored' = [stored EXCEPT ![m] = b] /\ status' = [status EXCEPT ![m] = "Pending"]
    BY <1>2 DEF SaveMessage
  <2>3. Tables!Ingest(m)
    BY <2>1, <2>2 DEF Tables!Ingest, Tables!Known, Tables!Becomes
  <2>4. StoredIsKnown'
    BY <1>1, <2>2 DEF StoredIsKnown
  <2> QED
    BY <2>3, <2>4 DEF Tables!Next
<1>3. CASE stored[m] # None
  BY <1>3 DEF SaveMessage, StoredIsKnown, Tables!vars
<1> QED
  BY <1>2, <1>3

LEMMA SweepTabled ==
  ASSUME SweepInv, TablesInv, SweepTask
  PROVE  Tabled
<1>1. /\ sweep \in SweepData /\ UNCHANGED <<gate, sweepActive>> /\ canonical \subseteq canonical'
  BY DEF SweepInv, TypeOK, SweepTask, ReadHead, ReadCursor, ReadOldest, InitCursor, GetLogs,
     RangeLimit, TickFails, IngestLog, MarkCanonical, AdvanceCursor, EndScan, storageVars
<1>2. GateIsSound'
  BY <1>1 DEF TablesInv, GateIsSound
<1>3. CASE \E m \in Messages : IngestLog(m)
  <2>1. PICK m \in Messages : IngestLog(m)
    BY <1>3
  <2>2. chain[m] \in Blocks
    <3>1. chain[m] # None
      BY <2>1 DEF IngestLog, SweepInv, SweepIsSound
    <3> QED
      BY <3>1, SweepConstants DEF SweepInv, TypeOK, Blocks, None
  <2>3. /\ SaveMessage(m, chain[m]) /\ UNCHANGED <<canonical, sweepActive>>
    BY <2>1 DEF IngestLog
  <2>4. sweep'.pc = "mark" => sweep'.msg = {m}
    BY <1>1, <2>1 DEF IngestLog, SweepData
  <2> QED
    BY <1>2, <2>2, <2>3, <2>4, SaveTabled DEF Tabled, TablesInv, MarksOne
<1>4. CASE MarkCanonical
  <2>1. PICK m \in Messages : sweep.msg = {m}
    BY <1>4 DEF MarkCanonical, TablesInv, MarksOne
  <2>2. status[m] # "Absent"
    <3>1. chain[m] # None /\ stored[m] = chain[m]
      BY <1>4, <2>1 DEF MarkCanonical, SweepInv, SweepIsSound
    <3> QED
      BY <3>1 DEF TablesInv, StoredIsKnown
  <2>3. canonical' = canonical \cup {m} /\ UNCHANGED <<status, stored, sweepActive>>
    BY <1>4, <2>1 DEF MarkCanonical
  <2>4. Tables!Confirm(m)
    BY <2>2, <2>3 DEF Tables!Confirm, Tables!Known
  <2>5. sweep'.pc = "ingest"
    BY <1>1, <1>4 DEF MarkCanonical, SweepData
  <2> QED
    BY <1>2, <2>3, <2>4, <2>5 DEF Tabled, TablesInv, StoredIsKnown, MarksOne, Tables!Next
<1>5. CASE \/ ReadHead \/ ReadCursor \/ ReadOldest \/ InitCursor \/ GetLogs \/ RangeLimit
           \/ TickFails \/ AdvanceCursor \/ EndScan
  <2>1. UNCHANGED <<status, stored, canonical>>
    BY <1>5 DEF ReadHead, ReadCursor, ReadOldest, InitCursor, GetLogs, RangeLimit, TickFails,
       AdvanceCursor, EndScan, storageVars
  <2>2. MarksOne'
    <3>1. CASE ReadHead \/ TickFails \/ EndScan
      BY <1>1, <3>1, IdleType DEF ReadHead, TickFails, EndScan, IdleSweep, MarksOne, SweepData
    <3>2. CASE ReadCursor \/ InitCursor
      BY <1>1, <3>2 DEF ReadCursor, InitCursor, StartScan, MarksOne, SweepData
    <3>3. CASE ReadOldest \/ GetLogs \/ AdvanceCursor
      BY <1>1, <3>3 DEF ReadOldest, GetLogs, AdvanceCursor, MarksOne, SweepData
    <3>4. CASE RangeLimit
      BY <1>1, <3>4 DEF RangeLimit, MarksOne, SweepData
    <3> QED
      BY <1>5, <3>1, <3>2, <3>3, <3>4
  <2> QED
    BY <1>1, <1>2, <2>1, <2>2 DEF Tabled, TablesInv, StoredIsKnown, Tables!vars
<1> QED
  BY <1>3, <1>4, <1>5 DEF SweepTask

LEMMA GateTabled ==
  ASSUME SweepInv, TablesInv, SignerTask
  PROVE  Tabled
<1>1. /\ gate \in GateData /\ status \in [Messages -> Statuses]
      /\ UNCHANGED <<sweep, stored, canonical, sweepActive>>
  BY DEF SweepInv, TypeOK, SignerTask, CheckCanonical, CompareCursor, Hold, Admit, storageVars
<1>2. MarksOne'
  BY <1>1 DEF TablesInv, MarksOne
<1>3. CASE \E m \in Messages : CheckCanonical(m)
  <2>1. GateIsSound' /\ UNCHANGED status
    BY <1>1, <1>3 DEF CheckCanonical, GateIsSound, GateData, storageVars
  <2> QED
    BY <1>1, <1>2, <2>1 DEF Tabled, TablesInv, StoredIsKnown, Tables!vars
<1>4. CASE CompareCursor
  <2>1. gate'.pc = "hold" /\ UNCHANGED status
    BY <1>1, <1>4 DEF CompareCursor, GateData, storageVars
  <2> QED
    BY <1>1, <1>2, <2>1 DEF Tabled, TablesInv, StoredIsKnown, GateIsSound, Tables!vars
<1>5. CASE Hold \/ Admit
  <2>1. PICK m \in gate.msg, s \in Statuses \ {"Absent"} :
          /\ status' = [status EXCEPT ![m] = s]
          /\ gate.pc # "idle"
          /\ \/ s \in {"Deferred", "Abandoned"}
             \/ gate.pc = "admit" /\ s \in {"Pending", "Deferred", "Rejected", "Processing"}
    <3>1. CASE Hold
      BY <1>1, <3>1 DEF Hold, SetStatus, GateData, Statuses
    <3>2. CASE Admit
      BY <3>2 DEF Admit, SetStatus, Statuses
    <3> QED
      BY <1>5, <3>1, <3>2
  <2>2. m \in Messages /\ status[m] # "Absent"
    BY <1>1, <2>1 DEF GateData, SweepInv, StoredFirst, TablesInv, StoredIsKnown
  <2>3. Tables!Becomes(m, s)
    BY <1>1, <2>1 DEF Tables!Becomes
  <2>4. Tables!Wait(m) \/ Tables!Judge(m)
    <3>1. gate.pc = "admit" => Tables!Confirmed(m)
      BY <2>1 DEF TablesInv, GateIsSound, Tables!Confirmed
    <3> QED
      BY <2>1, <2>2, <2>3, <3>1 DEF Tables!Wait, Tables!Judge, Tables!Known
  <2>5. StoredIsKnown'
    <3>1. status' = [status EXCEPT ![m] = s] /\ s # "Absent" /\ stored' = stored
      BY <1>1, <2>1
    <3>2. \A i \in Messages : status[i] = "Absent" => stored[i] = None
      BY DEF TablesInv, StoredIsKnown
    <3> QED
      BY <1>1, <3>1, <3>2 DEF StoredIsKnown
  <2>6. GateIsSound'
    <3>1. CASE Hold
      <4>1. gate' = IdleGate
        BY <3>1 DEF Hold
      <4> QED
        BY <4>1 DEF IdleGate, GateIsSound
    <3>2. CASE Admit
      <4>1. gate' = IdleGate
        BY <3>2 DEF Admit
      <4> QED
        BY <4>1 DEF IdleGate, GateIsSound
    <3> QED
      BY <1>5, <3>1, <3>2
  <2> QED
    BY <1>2, <2>2, <2>4, <2>5, <2>6 DEF Tabled, TablesInv, Tables!Next
<1> QED
  BY <1>3, <1>4, <1>5 DEF SignerTask

LEMMA TablesStep ==
  ASSUME SweepInv, TablesInv, [Next]_vars
  PROVE  Tabled
<1>1. ASSUME NEW m \in Messages, NEW b \in Blocks, Webhook(m, b)
      PROVE  Tabled
  <2>1. SaveMessage(m, b) /\ UNCHANGED <<canonical, sweepActive, sweep, gate>>
    BY <1>1 DEF Webhook
  <2>2. StoredIsKnown' /\ [Tables!Next]_Tables!vars
    BY <2>1, SaveTabled DEF TablesInv
  <2> QED
    BY <2>1, <2>2 DEF Tabled, TablesInv, GateIsSound, MarksOne
<1>2. ASSUME NEW m \in Messages, Attest(m)
      PROVE  Tabled
  <2>1. /\ status' = [status EXCEPT ![m] = "Signed"] /\ status[m] # "Absent"
        /\ UNCHANGED <<stored, canonical, sweepActive, sweep, gate>>
        /\ sweepActive => m \in canonical
    BY <1>2 DEF Attest, SetStatus
  <2>2. Tables!Report(m)
    BY <2>1 DEF Tables!Report, Tables!Known, Tables!Confirmed, Tables!Becomes
  <2>3. StoredIsKnown'
    BY <2>1 DEF TablesInv, StoredIsKnown, SweepInv, TypeOK
  <2> QED
    BY <2>1, <2>2, <2>3 DEF Tabled, TablesInv, GateIsSound, MarksOne, Tables!Next
<1>3. CASE Crash
  <2>1. /\ UNCHANGED <<status, stored, canonical>> /\ sweepActive' \in SweepModes
        /\ sweep' = IdleSweep /\ gate' = IdleGate
    BY <1>3 DEF Crash, storageVars
  <2>2. Tables!Restart
    BY <2>1 DEF Tables!Restart
  <2> QED
    BY <2>1, <2>2, IdleType
       DEF Tabled, TablesInv, StoredIsKnown, GateIsSound, MarksOne, IdleSweep, IdleGate,
           Tables!Next
<1>4. CASE UNCHANGED <<status, stored, canonical, sweepActive, sweep, gate>>
  BY <1>4 DEF Tabled, TablesInv, StoredIsKnown, GateIsSound, MarksOne, Tables!vars
<1>5. ASSUME \/ \E m \in Messages, b \in Blocks : Mine(m, b)
             \/ \E m \in Messages : Reorg(m)
             \/ Finalize \/ UNCHANGED vars
      PROVE  UNCHANGED <<status, stored, canonical, sweepActive, sweep, gate>>
  BY <1>5 DEF Mine, Reorg, Finalize, vars, storageVars
<1> QED
  BY <1>1, <1>2, <1>3, <1>4, <1>5, SweepTabled, GateTabled DEF Next

(* Ingestion, sweep and gate keep to what the signer expects of the tables *)
(* they share, and their own picture of the signer (Admit, Attest) keeps   *)
(* to what SignerAdmits proves of it.                                      *)
THEOREM SweepAdmits == Spec => AdmissionSpec
<1>1. Init => Tables!Init /\ TablesInv
  BY IdleType DEF Init, Tables!Init, TablesInv, StoredIsKnown, GateIsSound, MarksOne,
     IdleSweep, IdleGate
<1>2. SweepInv /\ TablesInv /\ [Next]_vars => TablesInv' /\ [Tables!Next]_Tables!vars
  BY TablesStep DEF Tabled
<1> QED
  BY <1>1, <1>2, SweepInvariant, PTL DEF Spec, AdmissionSpec, Tables!Spec
=============================================================================
