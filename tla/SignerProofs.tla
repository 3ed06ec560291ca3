---------------------------- MODULE SignerProofs ----------------------------
(***************************************************************************)
(* Proofs about Signer, for every number of messages, leaves, workers,     *)
(* epochs and crashes, every queue capacity and batch size, and every      *)
(* assignment of leaves to messages.                                       *)
(***************************************************************************)
EXTENDS Signer, SequenceTheorems, TLAPS

-----------------------------------------------------------------------------
(* Operators.                                                              *)

(* A batch of messages commits to a root.                                  *)
LEMMA RootOfType ==
  ASSUME NEW ids \in SUBSET Messages, ids # {}
  PROVE  RootOf(ids) \in Roots
BY LeafAssumption DEF RootOf, Roots

LEMMA RootOfMonotone ==
  ASSUME NEW S, NEW T, S \subseteq T
  PROVE  RootOf(S) \subseteq RootOf(T)
BY DEF RootOf

(* A task at rest.                                                         *)
LEMMA IdleType ==
  /\ NoTree \in TreeData
  /\ IdleLoop \in LoopData /\ IdleLoop.pc = "idle"
  /\ IdleWorker \in WorkerData /\ IdleWorker.pc = "idle"
BY DEF NoTree, TreeData, IdleLoop, LoopData, IdleWorker, WorkerData, None

(* What TypeOK says of the workers, and the step of one that returns.      *)
WorkersTyped ==
  /\ worker \in [Workers -> WorkerData]
  /\ \A w \in Workers : worker[w].pc # "idle" => worker[w].root \in Roots

LEMMA ReturnType ==
  ASSUME WorkersTyped, NEW w \in Workers, Return(w)
  PROVE  WorkersTyped'
BY IdleType DEF WorkersTyped, Return

-----------------------------------------------------------------------------
(* The steps of Next, by who takes them.                                   *)
Environment ==
  \/ \E m \in Messages : Ingest(m) \/ MarkCanonical(m)
  \/ \E q \in requests : Aggregate(q)
  \/ AdvanceEpoch
  \/ Crash

Sync == SyncStart \/ \E r \in Roots : SyncSend(r)

LEMMA NextCases ==
  ASSUME Next
  PROVE  MessageLoop \/ Sync \/ (\E w \in Workers : WorkerStep(w)) \/ Environment
BY DEF Next, Sync, Environment

-----------------------------------------------------------------------------
(* Type correctness.                                                       *)

LEMMA InitType == Init => TypeOK
BY IdleType, SweepAssumption, BoundAssumption, EmptySeq
   DEF Init, TypeOK, Statuses, Epochs, None

LEMMA SaveTreeType ==
  ASSUME trees \in [Roots -> TreeData], pendingId \in [Roots -> Nat],
         NEW r, NEW t \in TreeData, SaveTree(r, t)
  PROVE  trees' \in [Roots -> TreeData] /\ pendingId' \in [Roots -> Nat]
BY DEF SaveTree, None

LEMMA LoopType ==
  ASSUME TypeOK, MessageLoop
  PROVE  TypeOK'
<1> USE DEF TypeOK
<1>1. CASE StartTick
  <2>1. PICK ready \in SUBSET Messages :
           loop' = [IdleLoop EXCEPT !.pc = "gate", !.ready = ready]
    BY <1>1 DEF StartTick
  <2>2. loop' \in LoopData /\ loop'.pc # "mark"
    BY <2>1 DEF IdleLoop, LoopData
  <2> QED
    BY <1>1, <2>2 DEF StartTick, storageVars, relayVars, histVars
<1>2. CASE Park
  BY <1>2 DEF Park, SetStatus, Statuses, LoopData, relayVars, histVars
<1>3. CASE Evaluate
  <2>1. PICK m \in loop.msg, verdict \in {"Pending", "Deferred", "Rejected"} :
           LET ok == IF verdict = "Pending" THEN {m} ELSE {}
           IN  /\ SetStatus(m, verdict)
               /\ loop' = [loop EXCEPT !.pc = "gate", !.msg = {},
                                       !.accepted = @ \cup ok]
               /\ approved' = approved \cup ok
    BY <1>3 DEF Evaluate
  <2>2. m \in Messages
    BY DEF LoopData
  <2>3. loop' \in LoopData /\ approved' \subseteq Messages
    BY <2>1, <2>2 DEF LoopData
  <2>4. status' \in [Messages -> Statuses]
    BY <2>1 DEF SetStatus, Statuses
  <2> QED
    BY <1>3, <2>3, <2>4 DEF Evaluate, relayVars
<1>4. CASE Group
  BY <1>4, IdleType DEF Group, LoopData, storageVars, relayVars, histVars
<1>5. CASE BuildTree
  <2>1. PICK batch \in (SUBSET loop.accepted) \ {{}} :
           /\ SaveTree(RootOf(batch), [ids |-> batch, proof |-> None, epoch |-> None])
           /\ loop' = [loop EXCEPT !.pc = "mark", !.accepted = @ \ batch,
                                   !.batch = batch, !.todo = batch]
    BY <1>5 DEF BuildTree
  <2>2. batch \in SUBSET Messages
    BY <2>1 DEF LoopData
  <2>3. [ids |-> batch, proof |-> None, epoch |-> None] \in TreeData
    BY <2>2 DEF TreeData, None
  <2>4. trees' \in [Roots -> TreeData] /\ pendingId' \in [Roots -> Nat]
    BY <2>1, <2>3, SaveTreeType
  <2>5. loop' \in LoopData
    BY <2>1, <2>2 DEF LoopData
  <2> QED
    BY <1>5, <2>4, <2>5 DEF BuildTree, relayVars, histVars
<1>6. CASE Enqueue
  <2>1. RootOf(loop.batch) \in Roots
    BY <1>6, RootOfType DEF Enqueue, LoopData
  <2>2. /\ queue' \in Seq(Roots)
        /\ Len(queue') = Len(queue) + 1
    BY <1>6, <2>1, AppendProperties DEF Enqueue
  <2>3. Len(queue) < QueueCapacity /\ Len(queue) \in Nat /\ QueueCapacity \in Nat
    BY <1>6, BoundAssumption, LenProperties DEF Enqueue
  <2>4. loop' \in LoopData /\ loop'.pc # "mark"
    BY <1>6, IdleType DEF Enqueue, LoopData
  <2> QED
    BY <1>6, <2>2, <2>3, <2>4 DEF Enqueue, storageVars, relayVars, histVars
<1>7. ASSUME NEW m \in Messages, CheckCanonical(m)
      PROVE  TypeOK'
  BY <1>7 DEF CheckCanonical, LoopData, storageVars, relayVars, histVars
<1>8. ASSUME NEW m \in Messages, MarkProcessing(m)
      PROVE  TypeOK'
  BY <1>8 DEF MarkProcessing, SetStatus, Statuses, LoopData, relayVars, histVars
<1> QED
  BY <1>1, <1>2, <1>3, <1>4, <1>5, <1>6, <1>7, <1>8 DEF MessageLoop

LEMMA SyncType ==
  ASSUME TypeOK, Sync
  PROVE  TypeOK'
<1> USE DEF TypeOK
<1>1. CASE SyncStart
  BY <1>1 DEF SyncStart, PendingRoots, storageVars, relayVars, histVars
<1>2. ASSUME NEW r \in Roots, SyncSend(r)
      PROVE  TypeOK'
  <2>2. queue' \in Seq(Roots) /\ Len(queue') = Len(queue) + 1
    BY <1>2, AppendProperties DEF SyncSend
  <2>3. Len(queue) < QueueCapacity /\ Len(queue) \in Nat /\ QueueCapacity \in Nat
    BY <1>2, BoundAssumption, LenProperties DEF SyncSend
  <2> QED
    BY <1>2, <2>2, <2>3 DEF SyncSend, storageVars, relayVars, histVars
<1> QED
  BY <1>1, <1>2 DEF Sync

LEMMA WorkerType ==
  ASSUME TypeOK, NEW w \in Workers, WorkerStep(w)
  PROVE  TypeOK'
<1> USE DEF TypeOK
<1>0. WorkersTyped /\ worker[w] \in WorkerData
  BY DEF WorkersTyped
<1>1. CASE Dequeue(w)
  <2>1. /\ queue' \in Seq(Roots) /\ Len(queue') = Len(queue) - 1
        /\ Head(queue) \in Roots
    BY <1>1, HeadTailProperties DEF Dequeue
  <2>2. Len(queue) \in Nat /\ QueueCapacity \in Nat
    BY BoundAssumption, LenProperties
  <2>3. WorkersTyped'
    BY <1>0, <1>1, <2>1 DEF Dequeue, WorkersTyped, WorkerData, Roots
  <2> QED
    BY <1>1, <2>1, <2>2, <2>3
    DEF Dequeue, WorkersTyped, storageVars, relayVars, histVars
<1>2. CASE ParkRoot(w)
  BY <1>0, <1>2, ReturnType DEF ParkRoot, WorkersTyped, storageVars, relayVars, histVars
<1>3. CASE ReadPending(w)
  <2>1. worker[w].root \in Roots
    BY <1>3 DEF ReadPending
  <2> QED
    BY <1>0, <1>3, <2>1 DEF ReadPending, WorkerData, storageVars, relayVars, histVars
<1>4. CASE ReadEpoch(w)
  BY <1>0, <1>4 DEF ReadEpoch, WorkerData, Epochs, storageVars, relayVars, histVars
<1>5. CASE Sign(w)
  <2>1. worker[w].root \in Roots
    BY <1>5 DEF Sign
  <2>2. WorkersTyped'
    BY <1>0, <1>5 DEF Sign, Goto, WorkersTyped, WorkerData
  <2>3. requests' \subseteq [root : Roots, epoch : Nat] /\ requests \subseteq requests'
    BY <1>0, <1>5, <2>1 DEF Sign, RecordRequest, WorkerData
  <2> QED
    BY <1>5, <2>2, <2>3 DEF Sign, WorkersTyped, storageVars, histVars
<1>6. CASE SignFails(w)
  <2>1. WorkersTyped'
    BY <1>0, <1>6, ReturnType DEF SignFails
  <2>2. requests' \subseteq [root : Roots, epoch : Nat] /\ requests \subseteq requests'
    BY <1>0, <1>6 DEF SignFails, RecordRequest, WorkerData
  <2> QED
    BY <1>6, <2>1, <2>2 DEF SignFails, WorkersTyped, storageVars, histVars
<1>7. CASE StoreRequestId(w)
  BY <1>0, <1>7 DEF StoreRequestId, Goto, WorkerData, relayVars, histVars
<1>8. CASE RereadTree(w)
  <2>1. worker[w].root \in Roots
    BY <1>8 DEF RereadTree
  <2> QED
    BY <1>0, <1>8, <2>1 DEF RereadTree, WorkerData, storageVars, relayVars, histVars
<1>9. CASE LabelEpoch(w)
  <2>1. [worker[w].tree EXCEPT !.epoch = worker[w].id] \in TreeData
    BY <1>0 DEF WorkerData, TreeData
  <2>2. trees' \in [Roots -> TreeData] /\ pendingId' \in [Roots -> Nat]
    BY <1>9, <2>1, SaveTreeType DEF LabelEpoch
  <2>3. WorkersTyped'
    BY <1>0, <1>9, ReturnType DEF LabelEpoch
  <2> QED
    BY <1>9, <2>2, <2>3 DEF LabelEpoch, WorkersTyped, relayVars, histVars
<1>10. CASE ConfirmRoot(w) \/ FetchProof(w)
  <2>1. worker[w].root \in Roots
    BY <1>10 DEF ConfirmRoot, FetchProof
  <2>2. CASE ConfirmRoot(w)
    BY <1>0, <2>1, <2>2
    DEF ConfirmRoot, Goto, WorkerData, storageVars, relayVars, histVars
  <2>3. CASE FetchProof(w)
    BY <1>0, <2>1, <2>3
    DEF FetchProof, Goto, WorkerData, storageVars, relayVars, histVars
  <2> QED
    BY <1>10, <2>2, <2>3
<1>11. CASE FetchFails(w)
  BY <1>0, <1>11, ReturnType DEF FetchFails, WorkersTyped, storageVars, relayVars, histVars
<1>12. CASE ReadForAttach(w)
  <2>1. worker[w].root \in Roots
    BY <1>12 DEF ReadForAttach
  <2> QED
    BY <1>0, <1>12, <2>1 DEF ReadForAttach, WorkerData, storageVars, relayVars, histVars
<1>13. CASE AttachProof(w)
  <2>1. /\ [worker[w].tree EXCEPT !.proof = worker[w].id] \in TreeData
        /\ worker[w].tree.ids \in SUBSET Messages
    BY <1>0 DEF WorkerData, TreeData
  <2>2. trees' \in [Roots -> TreeData] /\ pendingId' \in [Roots -> Nat]
    BY <1>13, <2>1, SaveTreeType DEF AttachProof
  <2>3. WorkersTyped'
    BY <1>0, <1>13, <2>1 DEF AttachProof, WorkersTyped, WorkerData
  <2> QED
    BY <1>13, <2>2, <2>3 DEF AttachProof, WorkersTyped, relayVars, histVars
<1>14. ASSUME NEW m \in Messages, ReportSigned(w, m)
       PROVE  TypeOK'
  BY <1>0, <1>14 DEF ReportSigned, SetStatus, Statuses, WorkerData, relayVars, histVars
<1>15. CASE DeletePending(w)
  <2>1. WorkersTyped'
    BY <1>0, <1>15, ReturnType DEF DeletePending
  <2> QED
    BY <1>15, <2>1 DEF DeletePending, WorkersTyped, None, relayVars, histVars
<1> QED
  BY <1>1, <1>2, <1>3, <1>4, <1>5, <1>6, <1>7, <1>8, <1>9, <1>10, <1>11, <1>12,
     <1>13, <1>14, <1>15 DEF WorkerStep

LEMMA EnvironmentType ==
  ASSUME TypeOK,
         Environment
  PROVE  TypeOK'
<1> USE DEF TypeOK
<1>1. ASSUME NEW m \in Messages, Ingest(m) \/ MarkCanonical(m)
      PROVE  TypeOK'
  BY <1>1 DEF Ingest, MarkCanonical, SetStatus, Statuses, taskVars, relayVars, histVars
<1>2. ASSUME NEW q \in requests, Aggregate(q)
      PROVE  TypeOK'
  BY <1>2 DEF Aggregate, storageVars, taskVars, histVars
<1>3. CASE AdvanceEpoch
  BY <1>3 DEF AdvanceEpoch, Epochs, None, storageVars, taskVars, histVars
<1>4. CASE Crash
  <2>1. queue' \in Seq(Roots) /\ Len(queue') <= QueueCapacity
    BY <1>4, EmptySeq, BoundAssumption DEF Crash
  <2> QED
    BY <1>4, <2>1, IdleType, SweepAssumption DEF Crash, storageVars, relayVars
<1> QED
  BY <1>1, <1>2, <1>3, <1>4 DEF Environment

(* Every variable keeps its type, the queue its capacity, and every task   *)
(* that is at work has something to work on.                               *)
THEOREM TypeCorrect == Spec => []TypeOK
<1>1. Init => TypeOK
  BY InitType
<1>2. TypeOK /\ [Next]_vars => TypeOK'
  <2> SUFFICES ASSUME TypeOK, [Next]_vars
               PROVE  TypeOK'
    OBVIOUS
  <2>1. CASE Next
    BY <2>1, NextCases, LoopType, SyncType, WorkerType, EnvironmentType
  <2>2. CASE UNCHANGED vars
    BY <2>2 DEF TypeOK, vars, storageVars, taskVars, relayVars, histVars
  <2> QED
    BY <2>1, <2>2
<1> QED
  BY <1>1, <1>2, PTL DEF Spec

-----------------------------------------------------------------------------
(* Which steps write what.                                                 *)

SavesTree(w) == StoreRequestId(w) \/ LabelEpoch(w) \/ AttachProof(w) \/ DeletePending(w)

LEMMA LoopWrites ==
  ASSUME MessageLoop
  PROVE  /\ UNCHANGED <<canonical, sweepActive, syncTodo, worker, relayVars>>
         /\ UNCHANGED queue \/ Enqueue
         /\ UNCHANGED <<trees, pendingId>> \/ BuildTree
         /\ UNCHANGED approved \/ Evaluate
BY DEF MessageLoop, StartTick, Park, Evaluate, Group, BuildTree, Enqueue,
       CheckCanonical, MarkProcessing, storageVars, relayVars, histVars

LEMMA SyncWrites ==
  ASSUME Sync
  PROVE  UNCHANGED <<storageVars, sweepActive, loop, worker, relayVars, approved>>
BY DEF Sync, SyncStart, SyncSend, storageVars, relayVars, histVars

LEMMA WorkerWrites ==
  ASSUME TypeOK, NEW w \in Workers, WorkerStep(w)
  PROVE  /\ UNCHANGED <<canonical, sweepActive, loop, syncTodo, aggregated, approved>>
         /\ UNCHANGED queue \/ Dequeue(w)
         /\ UNCHANGED <<trees, pendingId>> \/ SavesTree(w)
         /\ UNCHANGED requests \/ Sign(w) \/ SignFails(w)
         /\ UNCHANGED status \/ \E m \in Messages : ReportSigned(w, m)
         /\ \A v \in Workers \ {w} : worker'[v] = worker[v]
<1> USE DEF storageVars, relayVars, histVars
<1>0. worker \in [Workers -> WorkerData]
  BY DEF TypeOK
<1>1. CASE Dequeue(w) \/ ParkRoot(w) \/ ReadPending(w) \/ ReadEpoch(w)
  BY <1>0, <1>1 DEF Dequeue, ParkRoot, ReadPending, ReadEpoch, Return
<1>2. CASE Sign(w) \/ SignFails(w)
  BY <1>0, <1>2 DEF Sign, SignFails, Return, Goto
<1>3. CASE SavesTree(w)
  BY <1>0, <1>3 DEF SavesTree, StoreRequestId, LabelEpoch, AttachProof, DeletePending,
              Return, Goto
<1>4. CASE \/ ConfirmRoot(w) \/ RereadTree(w)
           \/ FetchProof(w) \/ FetchFails(w) \/ ReadForAttach(w)
  BY <1>0, <1>4 DEF ConfirmRoot, RereadTree, FetchProof, FetchFails, ReadForAttach,
              Return, Goto
<1>5. CASE \E m \in Messages : ReportSigned(w, m)
  BY <1>0, <1>5 DEF ReportSigned
<1> QED
  BY <1>1, <1>2, <1>3, <1>4, <1>5 DEF WorkerStep, SavesTree

LEMMA EnvironmentWrites ==
  ASSUME Environment
  PROVE  /\ UNCHANGED <<trees, pendingId, approved>>
         /\ \/ UNCHANGED <<taskVars, sweepActive>>
            \/ Crash /\ UNCHANGED <<storageVars, relayVars>>
         /\ UNCHANGED requests /\ aggregated \subseteq aggregated'
         /\ canonical \subseteq canonical'
         /\ UNCHANGED status \/ \E m \in Messages : Ingest(m)
BY DEF Environment, Ingest, MarkCanonical, Aggregate, AdvanceEpoch, Crash,
       storageVars, taskVars, relayVars, histVars

-----------------------------------------------------------------------------
(* The inductive invariant.                                                *)

(* What only ever grows.                                                   *)
Grows ==
  /\ approved \subseteq approved' /\ canonical \subseteq canonical'
  /\ requests \subseteq requests' /\ aggregated \subseteq aggregated'
  /\ \A r \in Roots : Saved(r) => trees'[r].ids # {}

LEMMA SaveTreeSaves ==
  ASSUME TypeOK, NEW r, NEW t \in TreeData, t.ids # {}, SaveTree(r, t),
         NEW s \in Roots, Saved(s)
  PROVE  trees'[s].ids # {}
BY DEF SaveTree, Saved, TypeOK

LEMMA StepGrows ==
  ASSUME SignerInv, Next
  PROVE  Grows
<1> USE DEF SignerInv
<1>1. CASE MessageLoop
  <2>1. approved \subseteq approved'
    BY <1>1, LoopWrites DEF Evaluate
  <2>2. ASSUME BuildTree, NEW s \in Roots, Saved(s)
        PROVE  trees'[s].ids # {}
    <3>1. PICK batch \in (SUBSET loop.accepted) \ {{}} :
             SaveTree(RootOf(batch), [ids |-> batch, proof |-> None, epoch |-> None])
      BY <2>2 DEF BuildTree
    <3>2. [ids |-> batch, proof |-> None, epoch |-> None] \in TreeData
      BY DEF TypeOK, LoopData, TreeData, None
    <3> QED
      BY <2>2, <3>1, <3>2, SaveTreeSaves
  <2> QED
    BY <1>1, <2>1, <2>2, LoopWrites DEF Grows, Saved, relayVars
<1>2. CASE Sync
  BY <1>2, SyncWrites DEF Grows, Saved, storageVars, relayVars
<1>3. ASSUME NEW w \in Workers, WorkerStep(w)
      PROVE  Grows
  <2>1. requests \subseteq requests'
    BY <1>3, WorkerWrites DEF Sign, SignFails, RecordRequest
  <2>2. ASSUME NEW s \in Roots, Saved(s)
        PROVE  trees'[s].ids # {}
    <3>1. CASE StoreRequestId(w) \/ DeletePending(w)
      BY <2>2, <3>1 DEF StoreRequestId, DeletePending, Saved
    <3>2. CASE LabelEpoch(w)
      <4>1. /\ worker[w].tree.ids # {}
            /\ worker[w].tree \in TreeData /\ worker[w].id \in Nat
        BY <3>2 DEF LabelEpoch, WorkerIsSound, TypeOK, WorkerData
      <4>2. /\ [worker[w].tree EXCEPT !.epoch = worker[w].id] \in TreeData
            /\ [worker[w].tree EXCEPT !.epoch = worker[w].id].ids # {}
        BY <4>1 DEF TreeData
      <4> QED
        BY <2>2, <3>2, <4>2, SaveTreeSaves DEF LabelEpoch
    <3>3. CASE AttachProof(w)
      <4>1. /\ worker[w].tree.ids # {}
            /\ worker[w].tree \in TreeData /\ worker[w].id \in Nat
        BY <3>3 DEF AttachProof, WorkerIsSound, TypeOK, WorkerData
      <4>2. /\ [worker[w].tree EXCEPT !.proof = worker[w].id] \in TreeData
            /\ [worker[w].tree EXCEPT !.proof = worker[w].id].ids # {}
        BY <4>1 DEF TreeData
      <4> QED
        BY <2>2, <3>3, <4>2, SaveTreeSaves DEF AttachProof
    <3> QED
      BY <1>3, <2>2, <3>1, <3>2, <3>3, WorkerWrites DEF SavesTree, Saved
  <2> QED
    BY <1>3, <2>1, <2>2, WorkerWrites DEF Grows
<1>4. CASE Environment
  BY <1>4, EnvironmentWrites DEF Grows, Saved
<1> QED
  BY <1>1, <1>2, <1>3, <1>4, NextCases

(* What a task has learnt of a root stays true.                            *)
LEMMA GenuineStays ==
  ASSUME Grows, NEW r, NEW t, GenuineTree(r, t)
  PROVE  GenuineTree(r, t)'
BY DEF Grows, GenuineTree

LEMMA RootedStays ==
  ASSUME Grows, NEW r, NEW t, RootedTree(r, t)
  PROVE  RootedTree(r, t)'
BY DEF Grows, RootedTree

(* Saving a sound tree keeps every row sound.                              *)
LEMMA SaveTreeRooted ==
  ASSUME TypeOK, TreesAreRooted, LabelsAreGenuine, Grows,
         NEW r \in Roots, NEW t \in TreeData, SaveTree(r, t),
         RootedTree(r, t)', GenuineTree(r, t)'
  PROVE  TreesAreRooted' /\ LabelsAreGenuine'
<1>1. /\ trees' = [trees EXCEPT ![r] = t]
      /\ pendingId' = [pendingId EXCEPT ![r] = IF t.proof = None THEN @ ELSE None]
  BY DEF SaveTree
<1>2. ASSUME NEW s \in Roots, Saved(s)'
      PROVE  RootedTree(s, trees[s])'
  <2>1. CASE s = r
    BY <1>1, <2>1 DEF TypeOK, RootedTree
  <2>2. CASE s # r
    <3>1. trees'[s] = trees[s]
      BY <1>1, <2>2 DEF TypeOK
    <3> QED
      BY <1>2, <3>1, RootedStays DEF TreesAreRooted, Saved, RootedTree
  <2> QED
    BY <2>1, <2>2
<1>3. ASSUME NEW s \in Roots
      PROVE  GenuineTree(s, trees[s])'
  <2>1. CASE s = r
    BY <1>1, <2>1 DEF TypeOK, GenuineTree
  <2>2. CASE s # r
    BY <1>1, <2>2, GenuineStays DEF TypeOK, LabelsAreGenuine, GenuineTree
  <2> QED
    BY <2>1, <2>2
<1>4. ASSUME NEW s \in Roots, pendingId'[s] # None
      PROVE  [root |-> s, epoch |-> pendingId'[s]] \in requests'
  <2>1. pendingId'[s] = pendingId[s]
    BY <1>1, <1>4 DEF TypeOK
  <2> QED
    BY <1>4, <2>1 DEF LabelsAreGenuine, Grows
<1> QED
  BY <1>2, <1>3, <1>4 DEF TreesAreRooted, LabelsAreGenuine

(* Rows that are not written stay sound.                                   *)
LEMMA TreesStay ==
  ASSUME TreesAreRooted, LabelsAreGenuine, Grows, UNCHANGED <<trees, pendingId>>
  PROVE  TreesAreRooted' /\ LabelsAreGenuine'
<1>1. ASSUME NEW s \in Roots, Saved(s)'
      PROVE  RootedTree(s, trees[s])'
  <2>1. RootedTree(s, trees[s])
    BY <1>1 DEF TreesAreRooted, Saved
  <2> QED
    BY <2>1, RootedStays DEF RootedTree
<1>2. ASSUME NEW s \in Roots
      PROVE  GenuineTree(s, trees[s])'
  <2>1. GenuineTree(s, trees[s])
    BY DEF LabelsAreGenuine
  <2> QED
    BY <2>1, GenuineStays DEF GenuineTree
<1>3. ASSUME NEW s \in Roots, pendingId'[s] # None
      PROVE  [root |-> s, epoch |-> pendingId'[s]] \in requests'
  BY <1>3 DEF LabelsAreGenuine, Grows
<1> QED
  BY <1>1, <1>2, <1>3 DEF TreesAreRooted, LabelsAreGenuine

LEMMA TreesStep ==
  ASSUME SignerInv, Next, Grows
  PROVE  TreesAreRooted' /\ LabelsAreGenuine'
<1> USE DEF SignerInv
<1>1. CASE BuildTree
  <2>1. PICK batch \in (SUBSET loop.accepted) \ {{}} :
           SaveTree(RootOf(batch), [ids |-> batch, proof |-> None, epoch |-> None])
    BY <1>1 DEF BuildTree
  <2> DEFINE t == [ids |-> batch, proof |-> None, epoch |-> None]
  <2>2. batch \in SUBSET Messages /\ RootOf(batch) \in Roots /\ t \in TreeData
    BY RootOfType DEF TypeOK, LoopData, TreeData, None
  <2>3. RootedTree(RootOf(batch), t)
    BY DEF LoopIsSound, RootedTree
  <2>4. GenuineTree(RootOf(batch), t)
    BY DEF GenuineTree
  <2> HIDE DEF t
  <2>5. RootedTree(RootOf(batch), t)'
    BY <2>3, RootedStays
  <2>6. GenuineTree(RootOf(batch), t)'
    BY <2>4, GenuineStays
  <2> QED
    BY <2>1, <2>2, <2>5, <2>6, SaveTreeRooted DEF t
<1>2. ASSUME NEW w \in Workers, WorkerStep(w), SavesTree(w)
      PROVE  TreesAreRooted' /\ LabelsAreGenuine'
  <2> DEFINE r == worker[w].root
  <2>0. worker[w] \in WorkerData /\ WorkerIsSound(w)
    BY DEF TypeOK
  <2>1. r \in Roots
    BY <1>2 DEF TypeOK, SavesTree, StoreRequestId, LabelEpoch, AttachProof, DeletePending
  <2>2. CASE StoreRequestId(w) \/ DeletePending(w)
    <3>1. trees' = trees
      BY <2>2 DEF StoreRequestId, DeletePending
    <3>2. ASSUME NEW s \in Roots, pendingId'[s] # None
          PROVE  [root |-> s, epoch |-> pendingId'[s]] \in requests'
      <4>1. CASE s = r /\ StoreRequestId(w)
        BY <2>0, <3>2, <4>1 DEF StoreRequestId, WorkerIsSound, Requested, Grows, TypeOK
      <4>2. CASE s # r \/ DeletePending(w)
        <5>1. pendingId'[s] = pendingId[s]
          BY <2>2, <3>2, <4>2 DEF StoreRequestId, DeletePending, TypeOK
        <5> QED
          BY <3>2, <5>1 DEF LabelsAreGenuine, Grows
      <4> QED
        BY <2>2, <4>1, <4>2
    <3>3. ASSUME NEW s \in Roots
          PROVE  GenuineTree(s, trees[s])' /\ (Saved(s)' => RootedTree(s, trees[s])')
      BY <3>1, GenuineStays, RootedStays
      DEF LabelsAreGenuine, TreesAreRooted, GenuineTree, RootedTree, Saved
    <3> QED
      BY <3>2, <3>3 DEF TreesAreRooted, LabelsAreGenuine
  <2>3. CASE LabelEpoch(w)
    <3>1. PICK s \in Roots, t \in TreeData :
             s = worker[w].root /\ t = [worker[w].tree EXCEPT !.epoch = worker[w].id]
      BY <2>0, <2>1 DEF WorkerData, TreeData
    <3>2. RootedTree(s, t) /\ GenuineTree(s, t)
      BY <2>0, <2>3, <3>1 DEF LabelEpoch, WorkerIsSound, Requested, WorkerData, TreeData,
                             RootedTree, GenuineTree
    <3>3. RootedTree(s, t)' /\ GenuineTree(s, t)'
      BY <3>2, RootedStays, GenuineStays
    <3> QED
      BY <2>3, <3>1, <3>3, SaveTreeRooted DEF LabelEpoch
  <2>4. CASE AttachProof(w)
    <3>1. PICK s \in Roots, t \in TreeData :
             s = worker[w].root /\ t = [worker[w].tree EXCEPT !.proof = worker[w].id]
      BY <2>0, <2>1 DEF WorkerData, TreeData
    <3>2. RootedTree(s, t) /\ GenuineTree(s, t)
      BY <2>0, <2>4, <3>1 DEF AttachProof, WorkerIsSound, Proved, WorkerData, TreeData,
                             RootedTree, GenuineTree
    <3>3. RootedTree(s, t)' /\ GenuineTree(s, t)'
      BY <3>2, RootedStays, GenuineStays
    <3> QED
      BY <2>4, <3>1, <3>3, SaveTreeRooted DEF AttachProof
  <2> QED
    BY <1>2, <2>2, <2>3, <2>4 DEF SavesTree
<1>3. CASE UNCHANGED <<trees, pendingId>>
  BY <1>3, TreesStay
<1> QED
  BY <1>1, <1>2, <1>3, NextCases, LoopWrites, SyncWrites, WorkerWrites, EnvironmentWrites
  DEF storageVars

LEMMA QueuedStep ==
  ASSUME SignerInv, Next, Grows
  PROVE  QueuedIsSaved'
<1> USE DEF SignerInv
<1>0. \A r \in Roots : Saved(r) => trees'[r].ids # {}
  BY DEF Grows
<1>1. queue \in Seq(Roots) /\ syncTodo \subseteq Roots
  BY DEF TypeOK
<1>2. ASSUME UNCHANGED queue
      PROVE  \A i \in 1..Len(queue') : trees'[queue'[i]].ids # {}
  <2>1. \A i \in 1..Len(queue) : queue[i] \in Roots /\ Saved(queue[i])
    BY <1>1, ElementOfSeq DEF QueuedIsSaved
  <2> QED
    BY <1>2, <2>1 DEF Saved, Grows
<1>3. ASSUME NEW r \in Roots, Saved(r), queue' = Append(queue, r)
      PROVE  \A i \in 1..Len(queue') : trees'[queue'[i]].ids # {}
  <2>1. \A i \in 1..Len(queue) : queue[i] \in Roots /\ Saved(queue[i])
    BY <1>1, ElementOfSeq DEF QueuedIsSaved
  <2>2. /\ Len(queue') = Len(queue) + 1 /\ queue'[Len(queue) + 1] = r
        /\ \A i \in 1..Len(queue) : queue'[i] = queue[i]
    BY <1>1, <1>3, AppendProperties
  <2>3. ASSUME NEW i \in 1..Len(queue')
        PROVE  trees'[queue'[i]].ids # {}
    <3>1. Len(queue) \in Nat
      BY <1>1, LenProperties
    <3>2. CASE i \in 1..Len(queue)
      BY <2>1, <2>2, <3>2 DEF Grows
    <3>3. CASE i = Len(queue) + 1
      BY <1>3, <2>2, <3>3 DEF Grows
    <3> QED
      BY <2>2, <3>1, <3>2, <3>3
  <2> QED
    BY <2>3
<1>4. ASSUME queue # <<>>, queue' = Tail(queue)
      PROVE  \A i \in 1..Len(queue') : trees'[queue'[i]].ids # {}
  <2>1. \A i \in 1..Len(queue) : queue[i] \in Roots /\ Saved(queue[i])
    BY <1>1, ElementOfSeq DEF QueuedIsSaved
  <2>2. /\ Len(queue') = Len(queue) - 1 /\ Len(queue) \in Nat
        /\ \A i \in 1..Len(queue') : queue'[i] = queue[i+1]
    BY <1>1, <1>4, HeadTailProperties, LenProperties
  <2>3. ASSUME NEW i \in 1..Len(queue')
        PROVE  trees'[queue'[i]].ids # {}
    <3>1. i + 1 \in 1..Len(queue)
      BY <2>2
    <3> QED
      BY <2>1, <2>2, <3>1 DEF Grows
  <2> QED
    BY <2>3
<1>5. ASSUME UNCHANGED syncTodo
      PROVE  \A r \in syncTodo' : trees'[r].ids # {}
  BY <1>0, <1>1, <1>5 DEF QueuedIsSaved
<1>6. CASE MessageLoop
  <2>1. CASE Enqueue
    <3>1. RootOf(loop.batch) \in Roots
      BY <2>1, RootOfType DEF Enqueue, TypeOK, LoopData
    <3> QED
      BY <1>3, <1>5, <1>6, <2>1, <3>1, LoopWrites DEF Enqueue, LoopIsSound, QueuedIsSaved, Saved
  <2>2. CASE UNCHANGED queue
    BY <1>2, <1>5, <1>6, <2>2, LoopWrites DEF QueuedIsSaved, Saved
  <2> QED
    BY <1>6, <2>1, <2>2, LoopWrites
<1>7. CASE SyncStart
  <2>1. \A r \in syncTodo' : r \in Roots /\ Saved(r)
    BY <1>7 DEF SyncStart, PendingRoots
  <2> QED
    BY <1>0, <1>2, <1>7, <2>1 DEF SyncStart, PendingRoots, QueuedIsSaved, Saved
<1>8. ASSUME NEW r \in Roots, SyncSend(r)
      PROVE  QueuedIsSaved'
  <2>1. Saved(r)
    BY <1>8 DEF SyncSend, QueuedIsSaved
  <2>2. \A i \in 1..Len(queue') : trees'[queue'[i]].ids # {}
    BY <1>3, <1>8, <2>1 DEF SyncSend
  <2>3. \A s \in syncTodo' : trees'[s].ids # {}
    BY <1>0, <1>1, <1>8 DEF SyncSend, QueuedIsSaved
  <2> QED
    BY <2>2, <2>3 DEF QueuedIsSaved, Saved
<1>9. ASSUME NEW w \in Workers, WorkerStep(w)
      PROVE  QueuedIsSaved'
  BY <1>2, <1>4, <1>5, <1>9, WorkerWrites DEF Dequeue, QueuedIsSaved, Saved
<1>10. CASE Crash
  BY <1>10, EmptySeq DEF Crash, QueuedIsSaved, Saved
<1>11. CASE UNCHANGED taskVars
  BY <1>2, <1>5, <1>11 DEF taskVars, QueuedIsSaved, Saved
<1> QED
  BY <1>6, <1>7, <1>8, <1>9, <1>10, <1>11, NextCases, EnvironmentWrites DEF Sync

LEMMA LoopStep ==
  ASSUME SignerInv, Next, Grows
  PROVE  LoopIsSound'
<1> USE DEF SignerInv
<1>1. CASE BuildTree
  <2>1. PICK batch \in (SUBSET loop.accepted) \ {{}} :
           /\ SaveTree(RootOf(batch), [ids |-> batch, proof |-> None, epoch |-> None])
           /\ loop' = [loop EXCEPT !.pc = "mark", !.accepted = @ \ batch,
                                   !.batch = batch, !.todo = batch]
    BY <1>1 DEF BuildTree
  <2>2. RootOf(batch) \in Roots
    BY RootOfType DEF TypeOK, LoopData
  <2>3. trees'[RootOf(batch)].ids # {}
    BY <2>1, <2>2 DEF SaveTree, TypeOK
  <2>4. loop'.batch = batch /\ loop'.accepted \subseteq approved
    BY <2>1 DEF TypeOK, LoopData, LoopIsSound
  <2> QED
    BY <2>3, <2>4 DEF LoopIsSound, Saved, Grows, RootOf
<1>2. CASE Evaluate
  BY <1>2 DEF Evaluate, LoopIsSound, TypeOK, LoopData
<1>3. CASE StartTick \/ Park \/ Group \/ Enqueue
  <2>1. loop'.pc # "mark" /\ loop'.accepted \subseteq loop.accepted
    <3>1. CASE StartTick
      <4>1. PICK ready : loop' = [IdleLoop EXCEPT !.pc = "gate", !.ready = ready]
        BY <3>1 DEF StartTick
      <4> QED
        BY <4>1 DEF IdleLoop
    <3>2. CASE Park
      BY <3>2 DEF Park, TypeOK, LoopData
    <3>3. CASE Group
      BY <3>3 DEF Group, IdleLoop, TypeOK, LoopData
    <3>4. CASE Enqueue
      BY <3>4 DEF Enqueue, IdleLoop, TypeOK, LoopData
    <3> QED
      BY <1>3, <3>1, <3>2, <3>3, <3>4
  <2> QED
    BY <2>1 DEF LoopIsSound, Grows
<1>4. ASSUME NEW m \in Messages, CheckCanonical(m)
      PROVE  LoopIsSound'
  BY <1>4 DEF CheckCanonical, LoopIsSound, Grows, TypeOK, LoopData
<1>5. ASSUME NEW m \in Messages, MarkProcessing(m)
      PROVE  LoopIsSound'
  <2>1. RootOf(loop.batch) \in Roots
    BY <1>5, RootOfType DEF MarkProcessing, TypeOK, LoopData
  <2>2. trees'[RootOf(loop.batch)].ids # {}
    BY <1>5, <2>1 DEF MarkProcessing, LoopIsSound, Grows
  <2>3. loop'.batch = loop.batch /\ loop'.accepted = loop.accepted /\ approved' = approved
    BY <1>5 DEF MarkProcessing, TypeOK, LoopData, histVars
  <2> QED
    BY <2>2, <2>3 DEF LoopIsSound, RootOf, Saved
<1>6. CASE UNCHANGED loop
  <2>1. loop.pc = "mark" => RootOf(loop.batch) \in Roots
    BY RootOfType DEF TypeOK, LoopData
  <2> QED
    BY <1>6, <2>1 DEF LoopIsSound, Grows, Saved, RootOf
<1>7. CASE Crash
  BY <1>7 DEF Crash, IdleLoop, LoopIsSound
<1> QED
  BY <1>1, <1>2, <1>3, <1>4, <1>5, <1>6, <1>7, NextCases, SyncWrites, WorkerWrites,
     EnvironmentWrites DEF MessageLoop, taskVars

(* A worker that takes no step keeps what it holds.                        *)
LEMMA WorkerStays ==
  ASSUME TypeOK, Grows, NEW v \in Workers, WorkerIsSound(v),
         worker'[v] = worker[v]
  PROVE  WorkerIsSound(v)'
<1>1. worker[v].pc # "idle" => Saved(worker[v].root) /\ trees'[worker[v].root].ids # {}
  BY DEF WorkerIsSound, Grows, TypeOK
<1>2. worker[v].pc \in {"label", "attach"} =>
        /\ RootedTree(worker[v].root, worker[v].tree)
        /\ RootOf(worker[v].tree.ids) = worker[v].root
        /\ worker[v].tree.ids \subseteq approved'
        /\ GenuineTree(worker[v].root, worker[v].tree)
  BY DEF WorkerIsSound, RootedTree, Grows
<1> QED
  BY <1>1, <1>2
  DEF WorkerIsSound, Grows, Saved, RootedTree, GenuineTree, Requested, Proved, RootOf

LEMMA WorkerMoves ==
  ASSUME SignerInv, Grows, NEW w \in Workers, WorkerStep(w)
  PROVE  WorkerIsSound(w)'
<1> USE DEF SignerInv
<1>0. /\ worker \in [Workers -> WorkerData] /\ worker[w] \in WorkerData
      /\ WorkerIsSound(w)
      /\ worker[w].pc # "idle" => /\ worker[w].root \in Roots
                                  /\ trees'[worker[w].root].ids # {}
  BY DEF TypeOK, WorkerIsSound, Grows
<1>1. CASE Dequeue(w)
  <2>1. Head(queue) \in Roots /\ Saved(Head(queue))
    <3>1. 1 \in 1..Len(queue) /\ Head(queue) = queue[1]
      BY <1>1, EmptySeq DEF Dequeue, TypeOK
    <3> QED
      BY <1>1, <3>1, HeadTailProperties DEF Dequeue, QueuedIsSaved, TypeOK
  <2>2. worker'[w].pc = "check" /\ worker'[w].root = Head(queue)
    BY <1>0, <1>1 DEF Dequeue, WorkerData
  <2> QED
    BY <2>1, <2>2 DEF WorkerIsSound, Saved, Grows, Requested, Proved
<1>2. CASE ParkRoot(w) \/ SignFails(w) \/ LabelEpoch(w) \/ FetchFails(w) \/ DeletePending(w)
  <2>1. worker'[w] = IdleWorker
    BY <1>0, <1>2 DEF ParkRoot, SignFails, LabelEpoch, FetchFails, DeletePending, Return
  <2> QED
    BY <2>1 DEF WorkerIsSound, IdleWorker, Requested, Proved
<1>3. CASE ReadPending(w)
  <2> DEFINE r == worker[w].root
             id == pendingId[r]
  <2>1. /\ r \in Roots
        /\ worker'[w] = [worker[w] EXCEPT !.pc = IF id = None THEN "epoch" ELSE "fetch",
                                          !.id = id]
    BY <1>0, <1>3 DEF ReadPending
  <2>2. /\ worker'[w].root = r /\ worker'[w].id = id
        /\ worker'[w].pc = IF id = None THEN "epoch" ELSE "fetch"
    BY <1>0, <2>1 DEF WorkerData
  <2>3. id # None => [root |-> r, epoch |-> id] \in requests
    BY <2>1 DEF LabelsAreGenuine
  <2>4. UNCHANGED requests
    BY <1>3 DEF ReadPending, relayVars
  <2> HIDE DEF r, id
  <2>5. trees'[r].ids # {}
    BY <1>0, <1>3, <2>1 DEF ReadPending, r
  <2> QED
    BY <2>2, <2>3, <2>4, <2>5 DEF WorkerIsSound, Saved, Requested, Proved
<1>4. CASE ReadEpoch(w)
  <2>1. /\ worker'[w].pc = "sign" /\ worker'[w].root = worker[w].root
        /\ worker'[w].id = relayEpoch /\ relayEpoch # None
    BY <1>0, <1>4 DEF ReadEpoch, WorkerData, TypeOK, Epochs, storageVars
  <2> QED
    BY <1>0, <1>4, <2>1 DEF ReadEpoch, WorkerIsSound, Saved, Requested, Proved
<1>5. CASE Sign(w)
  <2>1. /\ worker'[w].pc = "store" /\ worker'[w].root = worker[w].root
        /\ worker'[w].id = worker[w].id
        /\ [root |-> worker[w].root, epoch |-> worker[w].id] \in requests'
    BY <1>0, <1>5 DEF Sign, Goto, RecordRequest, WorkerData
  <2> QED
    BY <1>0, <1>5, <2>1 DEF Sign, WorkerIsSound, Saved, Requested, Proved
<1>6. CASE StoreRequestId(w) \/ FetchProof(w)
  <2>1. /\ worker'[w].pc \in {"reread", "fetched"} /\ worker'[w].root = worker[w].root
        /\ worker'[w].id = worker[w].id
        /\ worker[w].pc \in Requested /\ worker[w].pc # "idle"
        /\ [root |-> worker[w].root, epoch |-> worker[w].id] \in requests
        /\ worker'[w].pc = "fetched" =>
             [root |-> worker[w].root, epoch |-> worker[w].id] \in aggregated
    BY <1>0, <1>6 DEF StoreRequestId, FetchProof, Goto, WorkerData, WorkerIsSound, Requested
  <2> QED
    BY <1>0, <2>1 DEF WorkerIsSound, Saved, Requested, Proved, Grows
<1>7. CASE RereadTree(w) \/ ReadForAttach(w)
  <2> DEFINE r == worker[w].root
  <2>1. /\ r \in Roots /\ Saved(r)
        /\ worker'[w].pc = IF worker[w].pc = "reread" THEN "label" ELSE "attach"
        /\ worker[w].pc \in {"reread", "fetched"}
        /\ worker'[w].root = r /\ worker'[w].id = worker[w].id
        /\ worker'[w].tree = trees[r]
    BY <1>0, <1>7 DEF RereadTree, ReadForAttach, WorkerData, WorkerIsSound
  <2>2. trees[r].ids # {} /\ RootedTree(r, trees[r]) /\ GenuineTree(r, trees[r])
    BY <2>1 DEF Saved, TreesAreRooted, LabelsAreGenuine
  <2>3. UNCHANGED <<trees, approved, requests, aggregated>>
    BY <1>7 DEF RereadTree, ReadForAttach, storageVars, relayVars, histVars
  <2>4. /\ [root |-> r, epoch |-> worker[w].id] \in requests
        /\ worker[w].pc = "fetched" =>
             [root |-> r, epoch |-> worker[w].id] \in aggregated
    BY <1>0, <2>1 DEF WorkerIsSound, Requested, Proved
  <2> HIDE DEF r
  <2> QED
    BY <2>1, <2>2, <2>3, <2>4
    DEF WorkerIsSound, Saved, Requested, Proved, RootedTree, GenuineTree, RootOf
<1>8. CASE AttachProof(w)
  <2>1. /\ worker'[w].pc = "report" /\ worker'[w].root = worker[w].root
        /\ worker'[w].id = worker[w].id /\ worker'[w].todo = worker[w].tree.ids
    BY <1>0, <1>8 DEF AttachProof, WorkerData
  <2>2. /\ RootOf(worker[w].tree.ids) = worker[w].root
        /\ [root |-> worker[w].root, epoch |-> worker[w].id] \in requests
        /\ [root |-> worker[w].root, epoch |-> worker[w].id] \in aggregated
    BY <1>0, <1>8 DEF AttachProof, WorkerIsSound, RootedTree, Requested, Proved
  <2> QED
    BY <1>0, <1>8, <2>1, <2>2 DEF AttachProof, WorkerIsSound, Saved, Grows, RootOf
<1>9. ASSUME NEW m \in Messages, ReportSigned(w, m)
      PROVE  WorkerIsSound(w)'
  <2>1. /\ worker'[w].pc = "report" /\ worker[w].pc = "report"
        /\ worker'[w].root = worker[w].root
        /\ worker'[w].id = worker[w].id /\ worker'[w].todo \subseteq worker[w].todo
    BY <1>0, <1>9 DEF ReportSigned, WorkerData
  <2>2. /\ RootOf(worker[w].todo) \subseteq worker[w].root
        /\ [root |-> worker[w].root, epoch |-> worker[w].id] \in requests
        /\ [root |-> worker[w].root, epoch |-> worker[w].id] \in aggregated
    BY <1>0, <2>1 DEF WorkerIsSound, Requested, Proved
  <2> QED
    BY <1>0, <2>1, <2>2 DEF WorkerIsSound, Saved, Grows, RootOf
<1>10. CASE ConfirmRoot(w)
  <2> DEFINE r == worker[w].root
  <2>1. /\ r \in Roots /\ Saved(r) /\ trees'[r].ids # {}
        /\ worker'[w].root = r /\ worker'[w].pc = "pending"
    BY <1>0, <1>10 DEF ConfirmRoot, Goto, WorkerData, WorkerIsSound, storageVars
  <2> HIDE DEF r
  <2> QED
    BY <2>1 DEF WorkerIsSound, Saved, Requested, Proved
<1> QED
  BY <1>1, <1>2, <1>3, <1>4, <1>5, <1>6, <1>7, <1>8, <1>9, <1>10 DEF WorkerStep

LEMMA WorkersStep ==
  ASSUME SignerInv, Next, Grows, NEW v \in Workers
  PROVE  WorkerIsSound(v)'
<1> USE DEF SignerInv
<1>1. CASE UNCHANGED worker
  BY <1>1, WorkerStays
<1>2. ASSUME NEW w \in Workers, WorkerStep(w)
      PROVE  WorkerIsSound(v)'
  <2>1. CASE v = w
    BY <1>2, <2>1, WorkerMoves
  <2>2. CASE v # w
    BY <1>2, <2>2, WorkerWrites, WorkerStays
  <2> QED
    BY <2>1, <2>2
<1>3. CASE Crash
  BY <1>3 DEF Crash, IdleWorker, WorkerIsSound, Requested, Proved
<1> QED
  BY <1>1, <1>2, <1>3, NextCases, LoopWrites, SyncWrites, EnvironmentWrites DEF taskVars

LEMMA RequestsStep ==
  ASSUME SignerInv, Next, Grows
  PROVE  RequestsAreApproved'
<1> USE DEF SignerInv
<1>0. RootOf(approved) \subseteq RootOf(approved')
  BY RootOfMonotone DEF Grows
<1>1. CASE UNCHANGED requests
  BY <1>0, <1>1 DEF RequestsAreApproved, RootOf
<1>2. ASSUME NEW w \in Workers, WorkerStep(w), Sign(w) \/ SignFails(w)
      PROVE  RequestsAreApproved'
  <2>1. worker[w].root \in Roots /\ Saved(worker[w].root)
    BY <1>2 DEF Sign, SignFails, TypeOK, WorkerIsSound
  <2>2. worker[w].root \subseteq RootOf(approved)
    BY <2>1, RootOfMonotone DEF TreesAreRooted, RootedTree
  <2>3. requests' \subseteq requests \cup {[root |-> worker[w].root, epoch |-> worker[w].id]}
    BY <1>2 DEF Sign, SignFails, RecordRequest
  <2> QED
    BY <1>0, <2>2, <2>3 DEF RequestsAreApproved, RootOf
<1> QED
  BY <1>1, <1>2, NextCases, LoopWrites, SyncWrites, WorkerWrites, EnvironmentWrites
  DEF relayVars

(* Only a worker that reports makes a message Signed.                      *)
LEMMA SignedByWorker ==
  ASSUME SignerInv, Next, NEW m \in Messages, status'[m] = "Signed", status[m] # "Signed"
  PROVE  \E w \in Workers : ReportSigned(w, m)
<1> USE DEF SignerInv
<1>1. PICK w \in Workers : WorkerStep(w) /\ \E n \in Messages : ReportSigned(w, n)
  <2>1. CASE MessageLoop
    BY <2>1 DEF MessageLoop, StartTick, Park, Evaluate, Group, BuildTree, Enqueue,
       CheckCanonical, MarkProcessing, SetStatus, storageVars, TypeOK
  <2>2. CASE Sync
    BY <2>2, SyncWrites DEF storageVars
  <2>3. CASE Environment
    BY <2>3, EnvironmentWrites DEF Ingest, SetStatus, TypeOK
  <2> QED
    BY <2>1, <2>2, <2>3, NextCases, WorkerWrites
<1>2. PICK n \in Messages : ReportSigned(w, n)
  BY <1>1
<1>3. n = m
  BY <1>2 DEF ReportSigned, SetStatus, TypeOK
<1> QED
  BY <1>2, <1>3

LEMMA SignedStep ==
  ASSUME SignerInv, Next, Grows
  PROVE  SignedIsAttested'
<1> USE DEF SignerInv
<1>1. ASSUME NEW m \in Messages, status'[m] = "Signed", status[m] = "Signed"
      PROVE  \E q \in aggregated' : Leaf[m] \in q.root
  BY <1>1 DEF SignedIsAttested, Grows
<1>2. ASSUME NEW m \in Messages, status'[m] = "Signed", status[m] # "Signed"
      PROVE  \E q \in aggregated' : Leaf[m] \in q.root
  <2>1. PICK w \in Workers : ReportSigned(w, m)
    BY <1>2, SignedByWorker
  <2>2. /\ m \in worker[w].todo /\ RootOf(worker[w].todo) \subseteq worker[w].root
        /\ [root |-> worker[w].root, epoch |-> worker[w].id] \in aggregated
    BY <2>1 DEF ReportSigned, WorkerIsSound, Proved
  <2>3. Leaf[m] \in worker[w].root
    BY <2>2 DEF RootOf
  <2> QED
    BY <2>2, <2>3 DEF Grows
<1> QED
  BY <1>1, <1>2 DEF SignedIsAttested

(* The invariant holds of every reachable state: each part rests on the    *)
(* others, above all on workers holding only saved roots and the ids of    *)
(* requests made for them.                                                 *)
THEOREM SignerInvariant == Spec => []SignerInv
<1>1. Init => SignerInv
  <2> SUFFICES ASSUME Init
               PROVE  SignerInv
    OBVIOUS
  <2>1. TypeOK
    BY InitType
  <2>2. TreesAreRooted /\ LabelsAreGenuine
    BY DEF Init, TreesAreRooted, LabelsAreGenuine, GenuineTree, Saved, NoTree
  <2>3. QueuedIsSaved
    BY EmptySeq DEF Init, QueuedIsSaved
  <2>4. LoopIsSound /\ \A w \in Workers : WorkerIsSound(w)
    BY DEF Init, LoopIsSound, WorkerIsSound, IdleLoop, IdleWorker, Requested, Proved
  <2>5. RequestsAreApproved /\ SignedIsAttested
    BY DEF Init, RequestsAreApproved, SignedIsAttested
  <2> QED
    BY <2>1, <2>2, <2>3, <2>4, <2>5 DEF SignerInv
<1>2. SignerInv /\ [Next]_vars => SignerInv'
  <2> SUFFICES ASSUME SignerInv, [Next]_vars
               PROVE  SignerInv'
    OBVIOUS
  <2>1. CASE Next
    <3>1. Grows
      BY <2>1, StepGrows
    <3>2. TypeOK'
      BY <2>1, NextCases, LoopType, SyncType, WorkerType, EnvironmentType DEF SignerInv
    <3>3. TreesAreRooted' /\ LabelsAreGenuine'
      BY <2>1, <3>1, TreesStep
    <3>4. QueuedIsSaved' /\ LoopIsSound'
      BY <2>1, <3>1, QueuedStep, LoopStep
    <3>5. \A w \in Workers : WorkerIsSound(w)'
      BY <2>1, <3>1, WorkersStep
    <3>6. RequestsAreApproved' /\ SignedIsAttested'
      BY <2>1, <3>1, RequestsStep, SignedStep
    <3> QED
      BY <3>2, <3>3, <3>4, <3>5, <3>6 DEF SignerInv
  <2>2. CASE UNCHANGED vars
    BY <2>2 DEF vars, storageVars, taskVars, relayVars, histVars, SignerInv, TypeOK,
       TreesAreRooted, QueuedIsSaved, LoopIsSound, WorkerIsSound, RequestsAreApproved,
       LabelsAreGenuine, SignedIsAttested, Saved, RootedTree, GenuineTree, RootOf
  <2> QED
    BY <2>1, <2>2
<1> QED
  BY <1>1, <1>2, PTL DEF Spec

(* Nothing that was not approved is ever put before the sidecar.           *)
THEOREM OnlyApprovedIsRequested == Spec => []RequestsAreApproved
<1>1. SignerInv => RequestsAreApproved
  BY DEF SignerInv
<1> QED
  BY <1>1, SignerInvariant, PTL

(* A message shown as Signed is covered by an aggregated proof.            *)
THEOREM SignedImpliesAttested == Spec => []SignedIsAttested
<1>1. SignerInv => SignedIsAttested
  BY DEF SignerInv
<1> QED
  BY <1>1, SignerInvariant, PTL

(* The ids, epochs and proofs kept with a root belong to requests for it.  *)
THEOREM KeptLabelsAreGenuine == Spec => []LabelsAreGenuine
<1>1. SignerInv => LabelsAreGenuine
  BY DEF SignerInv
<1> QED
  BY <1>1, SignerInvariant, PTL

(* With the sweep on, all that has passed the gate or a worker's own check *)
(* is confirmed: what the loop has in its batches, the row of every root a       *)
(* worker is past its check with, though others may save over it, and the  *)
(* tree and the list of messages a worker has taken from such a row.       *)
LoopIsConfirmed ==
  /\ loop.accepted \cup loop.todo \subseteq canonical
  /\ loop.pc = "hooks" => loop.msg \subseteq canonical

WorkerIsConfirmed(w) ==
  /\ worker[w].pc \notin {"idle", "check"} => trees[worker[w].root].ids \subseteq canonical
  /\ worker[w].pc \in {"label", "attach"} => worker[w].tree.ids \subseteq canonical
  /\ worker[w].pc = "report" => worker[w].todo \subseteq canonical

ConfirmedInv == sweepActive => LoopIsConfirmed /\ \A w \in Workers : WorkerIsConfirmed(w)

(* Whoever saves over a row of confirmed messages saves confirmed ones.    *)
LEMMA RowStaysConfirmed ==
  ASSUME SignerInv, Next, LoopIsConfirmed, \A w \in Workers : WorkerIsConfirmed(w),
         NEW r \in Roots, trees[r].ids \subseteq canonical
  PROVE  trees'[r].ids \subseteq canonical
<1> USE DEF SignerInv
<1>1. CASE BuildTree
  <2>1. PICK batch \in SUBSET loop.accepted :
          SaveTree(RootOf(batch), [ids |-> batch, proof |-> None, epoch |-> None])
    BY <1>1 DEF BuildTree
  <2> QED
    BY <2>1 DEF SaveTree, TypeOK, LoopIsConfirmed
<1>2. ASSUME NEW w \in Workers, LabelEpoch(w) \/ AttachProof(w)
      PROVE  trees'[r].ids \subseteq canonical
  <2>1. worker[w].tree.ids \subseteq canonical /\ worker[w].tree \in TreeData
    BY <1>2 DEF WorkerIsConfirmed, LabelEpoch, AttachProof, TypeOK, WorkerData
  <2>2. PICK t : t.ids = worker[w].tree.ids /\ SaveTree(worker[w].root, t)
    BY <1>2, <2>1 DEF LabelEpoch, AttachProof, TreeData
  <2>3. trees'[r] = IF r = worker[w].root THEN t ELSE trees[r]
    BY <2>2 DEF SaveTree, TypeOK
  <2> QED
    BY <2>1, <2>2, <2>3
<1>3. CASE UNCHANGED trees
  BY <1>3
<1>4. \A w \in Workers : StoreRequestId(w) \/ DeletePending(w) => UNCHANGED trees
  BY DEF StoreRequestId, DeletePending
<1> QED
  BY <1>1, <1>2, <1>3, <1>4, NextCases, LoopWrites, SyncWrites, WorkerWrites,
     EnvironmentWrites DEF SavesTree, storageVars

LEMMA LoopStaysConfirmed ==
  ASSUME SignerInv, MessageLoop, sweepActive, LoopIsConfirmed
  PROVE  LoopIsConfirmed'
<1> USE DEF SignerInv, LoopIsConfirmed
<1>0. UNCHANGED canonical /\ loop \in LoopData
  BY LoopWrites DEF TypeOK
<1>1. CASE StartTick
  <2>1. PICK ready : loop' = [IdleLoop EXCEPT !.pc = "gate", !.ready = ready]
    BY <1>1 DEF StartTick
  <2> QED
    BY <2>1 DEF IdleLoop
<1>2. ASSUME NEW m \in Messages, CheckCanonical(m)
      PROVE  LoopIsConfirmed'
  BY <1>0, <1>2 DEF CheckCanonical, LoopData
<1>3. CASE Park
  BY <1>0, <1>3 DEF Park, LoopData
<1>4. CASE Evaluate
  <2>1. PICK ok \in SUBSET loop.msg :
          loop' = [loop EXCEPT !.pc = "gate", !.msg = {}, !.accepted = @ \cup ok]
    BY <1>4 DEF Evaluate
  <2>2. loop.msg \subseteq canonical
    BY <1>4 DEF Evaluate
  <2> QED
    BY <1>0, <2>1, <2>2 DEF LoopData
<1>5. CASE Group
  BY <1>0, <1>5 DEF Group, LoopData, IdleLoop
<1>6. CASE BuildTree
  <2>1. PICK batch \in SUBSET loop.accepted :
          loop' = [loop EXCEPT !.pc = "mark", !.accepted = @ \ batch,
                               !.batch = batch, !.todo = batch]
    BY <1>6 DEF BuildTree
  <2> QED
    BY <1>0, <2>1 DEF LoopData
<1>7. CASE Enqueue
  BY <1>0, <1>7 DEF Enqueue, LoopData, IdleLoop
<1>8. ASSUME NEW m \in Messages, MarkProcessing(m)
      PROVE  LoopIsConfirmed'
  BY <1>0, <1>8 DEF MarkProcessing, LoopData
<1> QED
  BY <1>1, <1>2, <1>3, <1>4, <1>5, <1>6, <1>7, <1>8 DEF MessageLoop

LEMMA WorkerStaysConfirmed ==
  ASSUME SignerInv, sweepActive, NEW w \in Workers, WorkerStep(w), WorkerIsConfirmed(w),
         \A r \in Roots : trees[r].ids \subseteq canonical => trees'[r].ids \subseteq canonical
  PROVE  WorkerIsConfirmed(w)'
<1> USE DEF SignerInv
<1>0. /\ UNCHANGED canonical /\ worker \in [Workers -> WorkerData]
      /\ worker[w].pc # "idle" => worker[w].root \in Roots
  BY WorkerWrites DEF TypeOK
<1>1. CASE \/ ParkRoot(w) \/ SignFails(w) \/ LabelEpoch(w) \/ FetchFails(w)
           \/ DeletePending(w)
  <2>1. worker'[w] = IdleWorker
    BY <1>0, <1>1 DEF ParkRoot, SignFails, LabelEpoch, FetchFails, DeletePending, Return
  <2> QED
    BY <2>1, IdleType DEF WorkerIsConfirmed
<1>2. CASE Dequeue(w)
  BY <1>0, <1>2 DEF Dequeue, WorkerIsConfirmed, WorkerData
<1>3. CASE ConfirmRoot(w)
  <2>1. trees[worker[w].root].ids \subseteq canonical /\ worker[w].root \in Roots
    BY <1>0, <1>3 DEF ConfirmRoot, Unconfirmed
  <2>2. worker'[w] = [worker[w] EXCEPT !.pc = "pending"]
    BY <1>0, <1>3 DEF ConfirmRoot, Goto
  <2> QED
    BY <1>0, <2>1, <2>2 DEF WorkerIsConfirmed, WorkerData
<1>4. CASE \/ ReadPending(w) \/ ReadEpoch(w) \/ Sign(w) \/ StoreRequestId(w)
           \/ FetchProof(w)
  <2>1. /\ worker'[w].root = worker[w].root
        /\ worker[w].pc \notin {"idle", "check"}
        /\ worker'[w].pc \notin {"label", "attach", "report"}
    <3>1. CASE ReadPending(w)
      BY <1>0, <3>1 DEF ReadPending, WorkerData
    <3>2. CASE ReadEpoch(w)
      BY <1>0, <3>2 DEF ReadEpoch, WorkerData
    <3>3. CASE Sign(w) \/ StoreRequestId(w) \/ FetchProof(w)
      BY <1>0, <3>3 DEF Sign, StoreRequestId, FetchProof, Goto, WorkerData
    <3> QED
      BY <1>4, <3>1, <3>2, <3>3
  <2> QED
    BY <1>0, <2>1 DEF WorkerIsConfirmed
<1>5. CASE RereadTree(w) \/ ReadForAttach(w)
  <2>1. /\ worker'[w].root = worker[w].root /\ worker'[w].tree = trees[worker[w].root]
        /\ worker[w].pc \notin {"idle", "check"} /\ worker'[w].pc # "report"
    BY <1>0, <1>5 DEF RereadTree, ReadForAttach, WorkerData
  <2> QED
    BY <1>0, <2>1 DEF WorkerIsConfirmed
<1>6. CASE AttachProof(w)
  <2>1. /\ worker'[w].root = worker[w].root /\ worker'[w].todo = worker[w].tree.ids
        /\ worker[w].pc = "attach" /\ worker'[w].pc = "report"
    BY <1>0, <1>6 DEF AttachProof, WorkerData
  <2> QED
    BY <1>0, <2>1 DEF WorkerIsConfirmed
<1>7. ASSUME NEW m \in Messages, ReportSigned(w, m)
      PROVE  WorkerIsConfirmed(w)'
  <2>1. /\ worker'[w].root = worker[w].root /\ worker'[w].todo \subseteq worker[w].todo
        /\ worker[w].pc = "report" /\ worker'[w].pc = "report"
    BY <1>0, <1>7 DEF ReportSigned, WorkerData
  <2> QED
    BY <1>0, <2>1 DEF WorkerIsConfirmed
<1> QED
  BY <1>1, <1>2, <1>3, <1>4, <1>5, <1>6, <1>7 DEF WorkerStep

LEMMA ConfirmedStep ==
  ASSUME SignerInv, ConfirmedInv, Next, Grows
  PROVE  ConfirmedInv'
<1>1. CASE Crash
  BY <1>1 DEF Crash, IdleLoop, IdleWorker, ConfirmedInv, LoopIsConfirmed, WorkerIsConfirmed
<1>2. CASE UNCHANGED sweepActive /\ ~Crash
  <2> SUFFICES ASSUME sweepActive
               PROVE  (LoopIsConfirmed /\ \A w \in Workers : WorkerIsConfirmed(w))'
    BY <1>2 DEF ConfirmedInv
  <2>1. LoopIsConfirmed /\ \A w \in Workers : WorkerIsConfirmed(w)
    BY DEF ConfirmedInv
  <2>2. \A r \in Roots : trees[r].ids \subseteq canonical => trees'[r].ids \subseteq canonical
    BY <2>1, RowStaysConfirmed
  <2>3. LoopIsConfirmed'
    <3>1. CASE UNCHANGED loop
      BY <2>1, <3>1 DEF LoopIsConfirmed, Grows
    <3> QED
      BY <1>2, <2>1, <3>1, NextCases, LoopStaysConfirmed, SyncWrites, WorkerWrites,
         EnvironmentWrites DEF taskVars, SignerInv
  <2>4. ASSUME NEW v \in Workers
        PROVE  WorkerIsConfirmed(v)'
    <3>1. CASE worker'[v] = worker[v]
      BY <2>1, <2>2, <3>1 DEF WorkerIsConfirmed, Grows, SignerInv, TypeOK
    <3>2. CASE WorkerStep(v)
      BY <2>1, <2>2, <3>2, WorkerStaysConfirmed
    <3>3. \A w \in Workers \ {v} : WorkerStep(w) => worker'[v] = worker[v]
      BY WorkerWrites DEF SignerInv
    <3> QED
      BY <1>2, <3>1, <3>2, <3>3, NextCases, LoopWrites, SyncWrites, EnvironmentWrites
         DEF taskVars
  <2> QED
    BY <2>3, <2>4
<1> QED
  BY <1>1, <1>2, NextCases, LoopWrites, SyncWrites, WorkerWrites, EnvironmentWrites
     DEF SignerInv, taskVars

LEMMA ConfirmedStays ==
  SignerInv /\ ConfirmedInv /\ [Next]_vars => ConfirmedInv'
<1>1. CASE UNCHANGED vars
  BY <1>1 DEF vars, storageVars, taskVars, ConfirmedInv, LoopIsConfirmed, WorkerIsConfirmed
<1> QED
  BY <1>1, ConfirmedStep, StepGrows

(* With the sweep on, no request is made for a tree that holds an          *)
(* unconfirmed message and none is reported as Signed, whatever built the  *)
(* tree, queued it or asked for it before, and whoever saves over its row. *)
THEOREM OnlyConfirmedIsSigned == Spec => UnconfirmedIsNeverSigned
<1> DEFINE A == sweepActive =>
                  /\ \A q \in requests' \ requests : trees[q.root].ids \subseteq canonical
                  /\ \A m \in Messages \ canonical :
                       status'[m] = "Signed" => status[m] = "Signed"
<1>1. SignerInv /\ ConfirmedInv /\ [Next]_vars => [A]_vars
  <2> SUFFICES ASSUME SignerInv, ConfirmedInv, Next, sweepActive
               PROVE  A
    OBVIOUS
  <2>1. ASSUME NEW q \in requests' \ requests
        PROVE  trees[q.root].ids \subseteq canonical
    <3>1. PICK w \in Workers : Sign(w) \/ SignFails(w)
      BY <2>1, NextCases, LoopWrites, SyncWrites, WorkerWrites, EnvironmentWrites
      DEF relayVars, SignerInv
    <3>2. worker[w].pc = "sign" /\ q = [root |-> worker[w].root, epoch |-> worker[w].id]
      BY <2>1, <3>1 DEF Sign, SignFails, RecordRequest
    <3> QED
      BY <3>2 DEF ConfirmedInv, WorkerIsConfirmed
  <2>2. ASSUME NEW m \in Messages \ canonical, status'[m] = "Signed", status[m] # "Signed"
        PROVE  FALSE
    <3>1. PICK w \in Workers : ReportSigned(w, m)
      BY <2>2, SignedByWorker
    <3> QED
      BY <2>2, <3>1 DEF ReportSigned, ConfirmedInv, WorkerIsConfirmed
  <2> QED
    BY <2>1, <2>2
<1>2. Init => ConfirmedInv
  BY DEF Init, IdleLoop, IdleWorker, ConfirmedInv, LoopIsConfirmed, WorkerIsConfirmed
<1> QED
  BY <1>1, <1>2, ConfirmedStays, SignerInvariant, PTL DEF Spec, UnconfirmedIsNeverSigned

-----------------------------------------------------------------------------
(* Signer implements Attestation.                                          *)

Shown == {m \in Messages : status[m] = "Signed"}
Asked == {q.root : q \in requests}

LEMMA SetStatusShown ==
  ASSUME TypeOK, NEW m \in Messages, NEW st, SetStatus(m, st)
  PROVE  Shown' = IF st = "Signed" THEN Shown \cup {m} ELSE Shown \ {m}
BY DEF TypeOK, SetStatus, Shown

LEMMA LoopImplements ==
  ASSUME SignerInv, MessageLoop
  PROVE  [Promise!Next]_Promise!vars
<1> USE DEF SignerInv
<1>0. UNCHANGED <<requests, aggregated>> /\ loop \in LoopData
  BY LoopWrites DEF relayVars, TypeOK
<1>1. ASSUME NEW m \in Messages, NEW st, st # "Signed", SetStatus(m, st), UNCHANGED approved
      PROVE  Promise!Withdraw(m)
  <2>1. Shown' = Shown \ {m}
    BY <1>1, SetStatusShown
  <2> QED
    BY <1>0, <1>1, <2>1 DEF Promise!Withdraw, Shown
<1>2. CASE Park
  <2>1. PICK m \in loop.msg, verdict \in {"Deferred", "Abandoned"} : SetStatus(m, verdict)
    BY <1>2 DEF Park
  <2> QED
    BY <1>0, <1>1, <1>2, <2>1 DEF Park, histVars, LoopData, Promise!Next
<1>3. CASE Evaluate
  <2>1. PICK m \in loop.msg, verdict \in {"Pending", "Deferred", "Rejected"} :
           /\ SetStatus(m, verdict)
           /\ approved' = approved \cup (IF verdict = "Pending" THEN {m} ELSE {})
    BY <1>3 DEF Evaluate
  <2>2. m \in Messages
    BY <1>0 DEF LoopData
  <2>3. CASE verdict = "Pending"
    <3>1. Shown' = Shown \ {m}
      BY <2>1, <2>2, SetStatusShown
    <3>2. Promise!Accept(m)
      BY <1>0, <2>1, <2>3, <3>1 DEF Promise!Accept, Shown
    <3> QED
      BY <2>2, <3>2 DEF Promise!Next
  <2>4. CASE verdict # "Pending"
    BY <1>1, <2>1, <2>2, <2>4 DEF Promise!Next
  <2> QED
    BY <2>3, <2>4
<1>4. ASSUME NEW m \in Messages, MarkProcessing(m)
      PROVE  [Promise!Next]_Promise!vars
  BY <1>1, <1>4 DEF MarkProcessing, histVars, Promise!Next
<1>5. CASE UNCHANGED <<status, approved>>
  BY <1>0, <1>5 DEF Promise!vars
<1>6. UNCHANGED <<status, approved>> \/ Park \/ Evaluate \/ \E m \in Messages : MarkProcessing(m)
  BY DEF MessageLoop, StartTick, Group, BuildTree, Enqueue, CheckCanonical,
         storageVars, histVars
<1> QED
  BY <1>2, <1>3, <1>4, <1>5, <1>6

LEMMA WorkerImplements ==
  ASSUME SignerInv, NEW w \in Workers, WorkerStep(w)
  PROVE  [Promise!Next]_Promise!vars
<1> USE DEF SignerInv
<1>0. UNCHANGED <<aggregated, approved>> /\ WorkerIsSound(w)
  BY WorkerWrites
<1>1. CASE Sign(w) \/ SignFails(w)
  <2>1. UNCHANGED status
    BY <1>1 DEF Sign, SignFails, storageVars
  <2>2. CASE UNCHANGED requests
    BY <1>0, <2>1, <2>2 DEF Promise!vars
  <2>3. CASE worker[w].pc = "sign" /\ RecordRequest(w)
    <3>1. PICK r \in SUBSET Leaves : r = worker[w].root /\ r \in Roots /\ Saved(r)
      BY <2>3 DEF TypeOK, WorkerIsSound, Roots
    <3>2. r \subseteq RootOf(approved)
      BY <3>1, RootOfMonotone DEF TreesAreRooted, RootedTree
    <3>3. Asked' = Asked \cup {r}
      <4>1. requests' = requests \cup {[root |-> r, epoch |-> worker[w].id]}
        BY <2>3, <3>1 DEF RecordRequest
      <4>2. ASSUME NEW x
            PROVE  x \in Asked' <=> x \in Asked \cup {r}
        <5>1. x \in Asked' <=> \E q \in requests' : x = q.root
          BY DEF Asked
        <5>2. x \in Asked <=> \E q \in requests : x = q.root
          BY DEF Asked
        <5>3. [root |-> r, epoch |-> worker[w].id].root = r
          OBVIOUS
        <5> QED
          BY <4>1, <5>1, <5>2, <5>3
      <4> QED
        BY <4>2
    <3>4. Promise!Ask(r)
      BY <1>0, <2>1, <3>2, <3>3 DEF Promise!Ask, Promise!LeavesOf, Asked, RootOf
    <3> QED
      BY <3>1, <3>4 DEF Promise!Next
  <2> QED
    BY <1>1, <2>2, <2>3 DEF Sign, SignFails
<1>2. ASSUME NEW m \in Messages, ReportSigned(w, m)
      PROVE  [Promise!Next]_Promise!vars
  <2>1. Shown' = Shown \cup {m}
    BY <1>2, SetStatusShown DEF ReportSigned
  <2>2. UNCHANGED requests
    BY <1>2 DEF ReportSigned, relayVars
  <2>3. /\ Leaf[m] \in worker[w].root
        /\ [root |-> worker[w].root, epoch |-> worker[w].id] \in aggregated
    BY <1>0, <1>2 DEF ReportSigned, WorkerIsSound, Proved, RootOf
  <2>4. Promise!Covered(m)
    BY <2>3 DEF Promise!Covered
  <2>5. Promise!Report(m)
    BY <1>0, <2>1, <2>2, <2>4 DEF Promise!Report, Shown
  <2> QED
    BY <2>5 DEF Promise!Next
<1>3. CASE UNCHANGED <<status, requests>>
  BY <1>0, <1>3 DEF Promise!vars
<1> QED
  BY <1>1, <1>2, <1>3, WorkerWrites

LEMMA EnvironmentImplements ==
  ASSUME SignerInv, Environment
  PROVE  [Promise!Next]_Promise!vars
<1> USE DEF SignerInv
<1>1. ASSUME NEW m \in Messages, Ingest(m) \/ MarkCanonical(m)
      PROVE  [Promise!Next]_Promise!vars
  <2>1. Shown' = Shown
    BY <1>1, SetStatusShown DEF Ingest, MarkCanonical, Shown
  <2> QED
    BY <1>1, <2>1 DEF Ingest, MarkCanonical, relayVars, histVars, Promise!vars, Shown
<1>2. ASSUME NEW q \in requests, Aggregate(q)
      PROVE  [Promise!Next]_Promise!vars
  <2>1. q.root \in SUBSET Leaves
    BY DEF TypeOK, Roots
  <2>2. Promise!Attest(q.root)
    BY <1>2 DEF Aggregate, Promise!Attest, storageVars, histVars
  <2> QED
    BY <2>1, <2>2 DEF Promise!Next
<1>3. CASE AdvanceEpoch \/ Crash
  BY <1>3 DEF AdvanceEpoch, Crash, storageVars, relayVars, histVars, Promise!vars
<1> QED
  BY <1>1, <1>2, <1>3 DEF Environment

(* Every behaviour of the tasks, the storage, the queue and the sidecar,   *)
(* crashes included, is one that Attestation allows.                       *)
THEOREM SignerKeepsPromise == Spec => PromiseSpec
<1>1. Init => Promise!Init
  BY DEF Init, Promise!Init
<1>2. SignerInv /\ [Next]_vars => [Promise!Next]_Promise!vars
  <2> SUFFICES ASSUME SignerInv, [Next]_vars
               PROVE  [Promise!Next]_Promise!vars
    OBVIOUS
  <2>1. CASE Next
    <3>1. CASE Sync
      BY <3>1, SyncWrites DEF storageVars, relayVars, Promise!vars
    <3> QED
      BY <2>1, <3>1, NextCases, LoopImplements, WorkerImplements, EnvironmentImplements
  <2>2. CASE UNCHANGED vars
    BY <2>2 DEF vars, storageVars, relayVars, histVars, Promise!vars
  <2> QED
    BY <2>1, <2>2
<1> QED
  BY <1>1, <1>2, SignerInvariant, PTL DEF Spec, PromiseSpec, Promise!Spec

-----------------------------------------------------------------------------
(* Signer implements an operator of Bridge.                                *)

Vouched == {[batch |-> q.root, epoch |-> q.epoch] : q \in requests}

(* The relay's epochs stay inside the bound, and so does an epoch a worker *)
(* is about to require.                                                    *)
EpochsAreBounded ==
  /\ relayEpoch \in 1..MaxEpoch
  /\ \A w \in Workers : worker[w].pc = "sign" => worker[w].id \in 1..MaxEpoch

LEMMA EpochsStep ==
  ASSUME TypeOK, EpochsAreBounded, [Next]_vars
  PROVE  EpochsAreBounded'
<1>0. worker \in [Workers -> WorkerData]
  BY DEF TypeOK
<1>1. CASE UNCHANGED <<relayEpoch, worker>>
  BY <1>1 DEF EpochsAreBounded
<1>2. ASSUME NEW w \in Workers, WorkerStep(w)
      PROVE  EpochsAreBounded'
  <2>1. UNCHANGED relayEpoch
    BY <1>2 DEF WorkerStep, Dequeue, ParkRoot, ConfirmRoot, ReadPending, ReadEpoch, Sign,
       SignFails, StoreRequestId, RereadTree, LabelEpoch, FetchProof, FetchFails,
       ReadForAttach, AttachProof, ReportSigned, DeletePending, relayVars
  <2>2. worker'[w].pc = "sign" => ReadEpoch(w)
    <3>1. CASE ParkRoot(w) \/ SignFails(w) \/ LabelEpoch(w) \/ FetchFails(w) \/ DeletePending(w)
      <4>1. worker'[w] = IdleWorker
        BY <1>0, <3>1 DEF ParkRoot, SignFails, LabelEpoch, FetchFails, DeletePending, Return
      <4> QED
        BY <4>1, IdleType
    <3>2. CASE Dequeue(w) \/ ConfirmRoot(w) \/ Sign(w) \/ StoreRequestId(w) \/ FetchProof(w)
      BY <1>0, <3>2 DEF Dequeue, ConfirmRoot, Sign, StoreRequestId, FetchProof, Goto,
         WorkerData
    <3>3. CASE ReadPending(w)
      BY <1>0, <3>3 DEF ReadPending, WorkerData
    <3>4. CASE RereadTree(w) \/ ReadForAttach(w) \/ AttachProof(w)
      BY <1>0, <3>4 DEF RereadTree, ReadForAttach, AttachProof, WorkerData
    <3>5. ASSUME NEW m \in Messages, ReportSigned(w, m)
          PROVE  worker'[w].pc # "sign"
      BY <1>0, <3>5 DEF ReportSigned, WorkerData
    <3> QED
      BY <1>2, <3>1, <3>2, <3>3, <3>4, <3>5 DEF WorkerStep
  <2>3. ReadEpoch(w) => worker'[w].id = relayEpoch
    BY <1>0 DEF ReadEpoch, WorkerData
  <2> QED
    BY <1>2, <2>1, <2>2, <2>3, WorkerWrites DEF EpochsAreBounded
<1>3. CASE AdvanceEpoch
  BY <1>3, BoundAssumption DEF AdvanceEpoch, EpochsAreBounded, taskVars
<1>4. CASE Crash
  BY <1>4, IdleType DEF Crash, EpochsAreBounded, relayVars
<1>5. Environment => UNCHANGED <<relayEpoch, worker>> \/ AdvanceEpoch \/ Crash
  BY DEF Environment, Ingest, MarkCanonical, Aggregate, relayVars, taskVars
<1> QED
  BY <1>1, <1>2, <1>3, <1>4, <1>5, NextCases, LoopWrites, SyncWrites
     DEF vars, taskVars, relayVars

LEMMA MembershipStep ==
  ASSUME SignerInv, EpochsAreBounded, [Next]_vars
  PROVE  [Membership!Next]_Membership!vars
<1> USE DEF SignerInv
<1>1. CASE UNCHANGED <<approved, requests>>
  BY <1>1 DEF Membership!vars, RootOf
<1>2. CASE Evaluate
  <2>1. PICK m \in loop.msg, verdict \in {"Pending", "Deferred", "Rejected"} :
          approved' = approved \cup IF verdict = "Pending" THEN {m} ELSE {}
    BY <1>2 DEF Evaluate
  <2>2. m \in Messages
    BY DEF TypeOK, LoopData
  <2>3. UNCHANGED requests
    BY <1>2 DEF Evaluate, relayVars
  <2>4. CASE approved' = approved
    BY <1>1, <2>3, <2>4
  <2>5. CASE approved' = approved \cup {m}
    <3>1. RootOf(approved') = RootOf(approved) \cup {Leaf[m]}
      BY <2>5 DEF RootOf
    <3>2. Leaf[m] \in Leaves
      BY <2>2, LeafAssumption
    <3>3. Membership!Accept("this", Leaf[m])
      BY <2>3, <3>1 DEF Membership!Accept, ThisOperator, RootOf
    <3> QED
      BY <3>2, <3>3 DEF Membership!Next, ThisOperator
  <2> QED
    BY <2>1, <2>4, <2>5
<1>3. ASSUME NEW w \in Workers, Sign(w) \/ SignFails(w), requests' # requests
      PROVE  [Membership!Next]_Membership!vars
  <2>1. /\ worker[w].pc = "sign" /\ UNCHANGED approved
        /\ requests' = requests \cup {[root |-> worker[w].root, epoch |-> worker[w].id]}
    BY <1>3 DEF Sign, SignFails, RecordRequest, histVars
  <2>2. /\ worker[w].root \in Roots /\ Saved(worker[w].root)
        /\ worker[w].id \in 1..MaxEpoch
    <3>1. worker[w].root \in Roots
      BY <2>1 DEF TypeOK
    <3> QED
      BY <2>1, <3>1 DEF WorkerIsSound, EpochsAreBounded
  <2>3. worker[w].root \subseteq RootOf(approved)
    BY <2>2, RootOfMonotone DEF TreesAreRooted, RootedTree
  <2>4. PICK b \in SUBSET Leaves, e \in 1..MaxEpoch :
          b \subseteq RootOf(approved) /\ requests' = requests \cup {[root |-> b, epoch |-> e]}
    BY <2>1, <2>2, <2>3 DEF Roots
  <2> DEFINE q == [root |-> b, epoch |-> e]
             v == [batch |-> b, epoch |-> e]
  <2>5. Vouched' = Vouched \cup {v}
    <3>1. v = [batch |-> q.root, epoch |-> q.epoch] /\ requests' = requests \cup {q}
      BY <2>4
    <3> HIDE DEF q, v
    <3> QED
      BY <3>1 DEF Vouched
  <2>6. Membership!Vouch("this", b, e)
    BY <2>1, <2>4, <2>5 DEF Membership!Vouch, ThisOperator, Vouched, RootOf
  <2>7. Membership!Next
    BY <2>6 DEF Membership!Next, ThisOperator
  <2> QED
    BY <2>7
<1>4. UNCHANGED approved \/ Evaluate
  BY NextCases, LoopWrites, SyncWrites, WorkerWrites, EnvironmentWrites
     DEF vars, histVars
<1>5. UNCHANGED requests \/ \E w \in Workers : Sign(w) \/ SignFails(w)
  BY NextCases, LoopWrites, SyncWrites, WorkerWrites, EnvironmentWrites
     DEF vars, relayVars
<1>6. \A w \in Workers : Sign(w) \/ SignFails(w) => UNCHANGED approved
  BY DEF Sign, SignFails, histVars
<1> QED
  BY <1>1, <1>2, <1>3, <1>4, <1>5, <1>6

(* An operator with this signer is one that Bridge allows: it vouches only *)
(* for leaves it has accepted, with any number of workers, restarts and    *)
(* messages that share leaves.                                             *)
THEOREM SignerIsMember == Spec => MembershipSpec
<1>1. Init => Membership!Init
  BY DEF Init, Membership!Init, RootOf, ThisOperator
<1>2. Init => EpochsAreBounded
  BY BoundAssumption, IdleType DEF Init, EpochsAreBounded
<1>3. TypeOK /\ EpochsAreBounded /\ [Next]_vars => EpochsAreBounded'
  BY EpochsStep
<1>4. SignerInv /\ EpochsAreBounded /\ [Next]_vars => [Membership!Next]_Membership!vars
  BY MembershipStep
<1> QED
  BY <1>1, <1>2, <1>3, <1>4, TypeCorrect, SignerInvariant, PTL
     DEF Spec, MembershipSpec, Membership!Spec

-----------------------------------------------------------------------------
(* Signer implements its half of Admission.                                *)

(* What the tasks hold is known to storage.                                *)
Known(S) == \A m \in S : status[m] # "Absent"

HeldIsKnown ==
  /\ Known(approved \cup loop.ready \cup loop.msg \cup loop.todo)
  /\ \A w \in Workers : worker[w].pc = "report" => worker[w].todo \subseteq approved

LEMMA StaysKnown ==
  ASSUME SignerInv, Next, NEW m \in Messages, status[m] # "Absent"
  PROVE  status'[m] # "Absent"
<1> USE DEF SignerInv
<1>0. status \in [Messages -> Statuses]
  BY DEF TypeOK
<1>1. CASE UNCHANGED status
  BY <1>1
<1>2. CASE MessageLoop
  BY <1>0, <1>2 DEF MessageLoop, StartTick, Park, Evaluate, Group, BuildTree, Enqueue,
     CheckCanonical, MarkProcessing, SetStatus, storageVars
<1>3. ASSUME NEW w \in Workers, WorkerStep(w)
      PROVE  status'[m] # "Absent"
  <2>1. CASE \E n \in Messages : ReportSigned(w, n)
    BY <1>0, <2>1 DEF ReportSigned, SetStatus
  <2> QED
    BY <1>1, <1>3, <2>1, WorkerWrites
<1>4. ASSUME NEW n \in Messages, Ingest(n)
      PROVE  status'[m] # "Absent"
  BY <1>0, <1>4 DEF Ingest, SetStatus
<1> QED
  BY <1>1, <1>2, <1>3, <1>4, NextCases, SyncWrites, EnvironmentWrites DEF storageVars

LEMMA LoopTabled ==
  ASSUME SignerInv, ConfirmedInv, HeldIsKnown, MessageLoop
  PROVE  HeldIsKnown' /\ [Tables!Next]_Tables!vars
<1> USE DEF SignerInv
<1>0. /\ loop \in LoopData /\ status \in [Messages -> Statuses] /\ approved \subseteq Messages
      /\ UNCHANGED <<canonical, sweepActive, worker>>
      /\ approved \subseteq approved'
      /\ sweepActive => LoopIsConfirmed
  BY LoopWrites DEF TypeOK, ConfirmedInv, Evaluate
<1>1. \A m \in Messages : status[m] # "Absent" => status'[m] # "Absent"
  BY StaysKnown DEF Next
<1>2. ASSUME Known(approved' \cup loop'.ready \cup loop'.msg \cup loop'.todo),
             approved' \cup loop'.ready \cup loop'.msg \cup loop'.todo \subseteq Messages
      PROVE  HeldIsKnown'
  BY <1>0, <1>1, <1>2 DEF HeldIsKnown, Known
<1>3. CASE StartTick
  <2>1. PICK ready \in SUBSET {m \in Messages : status[m] \in {"Pending", "Deferred"}} :
          loop' = [IdleLoop EXCEPT !.pc = "gate", !.ready = ready]
    BY <1>3 DEF StartTick
  <2>2. UNCHANGED <<status, approved>>
    BY <1>3 DEF StartTick, storageVars, histVars
  <2>3. loop'.ready = ready /\ loop'.msg = {} /\ loop'.todo = {}
    BY <2>1 DEF IdleLoop
  <2> QED
    BY <1>0, <1>2, <2>2, <2>3 DEF HeldIsKnown, Known, Tables!vars
<1>4. CASE Group \/ BuildTree \/ Enqueue \/ \E m \in Messages : CheckCanonical(m)
  <2>1. UNCHANGED <<status, approved>>
    BY <1>4 DEF Group, BuildTree, Enqueue, CheckCanonical, storageVars, histVars
  <2>2. loop'.ready \cup loop'.msg \cup loop'.todo
          \subseteq loop.ready \cup loop.msg \cup loop.todo \cup approved
    <3>1. CASE Group
      BY <1>0, <3>1 DEF Group, IdleLoop, LoopData
    <3>2. CASE BuildTree
      <4>1. PICK batch \in SUBSET loop.accepted :
              loop' = [loop EXCEPT !.pc = "mark", !.accepted = @ \ batch,
                                   !.batch = batch, !.todo = batch]
        BY <3>2 DEF BuildTree
      <4> QED
        BY <1>0, <4>1 DEF LoopData, LoopIsSound
    <3>3. CASE Enqueue
      BY <1>0, <3>3 DEF Enqueue, IdleLoop, LoopData
    <3>4. ASSUME NEW m \in Messages, CheckCanonical(m)
          PROVE  loop'.ready \cup loop'.msg \cup loop'.todo
                   \subseteq loop.ready \cup loop.msg \cup loop.todo \cup approved
      BY <1>0, <3>4 DEF CheckCanonical, LoopData
    <3> QED
      BY <1>4, <3>1, <3>2, <3>3, <3>4
  <2>3. loop.ready \cup loop.msg \cup loop.todo \subseteq Messages
    BY <1>0 DEF LoopData
  <2> QED
    BY <1>0, <1>2, <2>1, <2>2, <2>3 DEF HeldIsKnown, Known, Tables!vars
<1>5. ASSUME NEW m \in loop.msg \cup loop.todo, NEW st \in Statuses \ {"Absent"},
             status' = [status EXCEPT ![m] = st],
             approved' \subseteq approved \cup {m},
             loop'.ready \cup loop'.msg \cup loop'.todo
               \subseteq loop.ready \cup loop.msg \cup loop.todo
      PROVE  /\ HeldIsKnown' /\ m \in Messages
             /\ Tables!Known(m) /\ Tables!Becomes(m, st)
  <2>1. loop.ready \cup loop.msg \cup loop.todo \subseteq Messages
    BY <1>0 DEF LoopData
  <2>2. Known(loop.ready \cup loop.msg \cup loop.todo \cup approved)
    BY DEF HeldIsKnown, Known
  <2>3. m \in Messages /\ status[m] # "Absent"
    BY <2>1, <2>2 DEF Known
  <2>4. Tables!Known(m) /\ Tables!Becomes(m, st)
    BY <1>0, <1>5, <2>3 DEF Tables!Known, Tables!Becomes
  <2> QED
    BY <1>0, <1>1, <1>2, <1>5, <2>1, <2>2, <2>3, <2>4 DEF Known
<1>6. CASE Park
  <2>1. PICK m \in loop.msg, verdict \in {"Deferred", "Abandoned"} :
          /\ status' = [status EXCEPT ![m] = verdict]
          /\ UNCHANGED approved
          /\ loop' = [loop EXCEPT !.pc = "gate", !.msg = {}]
    BY <1>6 DEF Park, SetStatus, histVars
  <2>2. loop'.ready \cup loop'.msg \cup loop'.todo
          \subseteq loop.ready \cup loop.msg \cup loop.todo
    BY <1>0, <2>1 DEF LoopData
  <2>3. HeldIsKnown' /\ m \in Messages /\ Tables!Known(m) /\ Tables!Becomes(m, verdict)
    BY <1>5, <2>1, <2>2 DEF Statuses
  <2>4. Tables!Wait(m)
    BY <2>3 DEF Tables!Wait
  <2> QED
    BY <2>3, <2>4 DEF Tables!Next
<1>7. CASE Evaluate
  <2>1. PICK m \in loop.msg, verdict \in {"Pending", "Deferred", "Rejected"} :
          /\ status' = [status EXCEPT ![m] = verdict]
          /\ approved' \subseteq approved \cup {m}
          /\ \E ok : loop' = [loop EXCEPT !.pc = "gate", !.msg = {}, !.accepted = @ \cup ok]
    BY <1>7 DEF Evaluate, SetStatus
  <2>2. loop'.ready \cup loop'.msg \cup loop'.todo
          \subseteq loop.ready \cup loop.msg \cup loop.todo
    BY <1>0, <2>1 DEF LoopData
  <2>3. HeldIsKnown' /\ m \in Messages /\ Tables!Known(m) /\ Tables!Becomes(m, verdict)
    BY <1>5, <2>1, <2>2 DEF Statuses
  <2>4. Tables!Confirmed(m)
    BY <1>0, <1>7, <2>1 DEF Evaluate, LoopIsConfirmed, Tables!Confirmed
  <2>5. Tables!Judge(m)
    BY <2>3, <2>4 DEF Tables!Judge
  <2> QED
    BY <2>3, <2>5 DEF Tables!Next
<1>8. ASSUME NEW m \in Messages, MarkProcessing(m)
      PROVE  HeldIsKnown' /\ [Tables!Next]_Tables!vars
  <2>1. /\ m \in loop.todo /\ status' = [status EXCEPT ![m] = "Processing"]
        /\ UNCHANGED approved /\ loop' = [loop EXCEPT !.todo = @ \ {m}]
    BY <1>8 DEF MarkProcessing, SetStatus, histVars
  <2>2. loop'.ready \cup loop'.msg \cup loop'.todo
          \subseteq loop.ready \cup loop.msg \cup loop.todo
    BY <1>0, <2>1 DEF LoopData
  <2>3. HeldIsKnown' /\ Tables!Known(m) /\ Tables!Becomes(m, "Processing")
    BY <1>5, <2>1, <2>2 DEF Statuses
  <2>4. Tables!Confirmed(m)
    BY <1>0, <2>1 DEF LoopIsConfirmed, Tables!Confirmed
  <2>5. Tables!Judge(m)
    BY <2>3, <2>4 DEF Tables!Judge
  <2> QED
    BY <2>3, <2>5 DEF Tables!Next
<1> QED
  BY <1>3, <1>4, <1>6, <1>7, <1>8 DEF MessageLoop

LEMMA WorkerTabled ==
  ASSUME SignerInv, ConfirmedInv, HeldIsKnown, NEW w \in Workers, WorkerStep(w)
  PROVE  HeldIsKnown' /\ [Tables!Next]_Tables!vars
<1> USE DEF SignerInv
<1>0. /\ worker \in [Workers -> WorkerData] /\ approved \subseteq Messages
      /\ status \in [Messages -> Statuses] /\ loop \in LoopData
      /\ UNCHANGED <<canonical, sweepActive, loop, approved>>
      /\ \A v \in Workers \ {w} : worker'[v] = worker[v]
  BY WorkerWrites DEF TypeOK
<1>1. Known(approved \cup loop.ready \cup loop.msg \cup loop.todo)'
  <2>1. \A m \in Messages : status[m] # "Absent" => status'[m] # "Absent"
    BY StaysKnown DEF Next
  <2> QED
    BY <1>0, <2>1 DEF HeldIsKnown, Known, LoopData
<1>2. worker'[w].pc = "report" => worker'[w].todo \subseteq approved
  <2>1. CASE AttachProof(w)
    <3>1. worker'[w].todo = worker[w].tree.ids
      BY <1>0, <2>1 DEF AttachProof, WorkerData
    <3> QED
      BY <2>1, <3>1 DEF AttachProof, WorkerIsSound, RootedTree
  <2>2. ASSUME NEW m \in Messages, ReportSigned(w, m)
        PROVE  worker'[w].todo \subseteq approved
    <3>1. worker'[w].todo \subseteq worker[w].todo /\ worker[w].pc = "report"
      BY <1>0, <2>2 DEF ReportSigned, WorkerData
    <3> QED
      BY <3>1 DEF HeldIsKnown
  <2>3. CASE ParkRoot(w) \/ SignFails(w) \/ LabelEpoch(w) \/ FetchFails(w) \/ DeletePending(w)
    <3>1. worker'[w] = IdleWorker
      BY <1>0, <2>3 DEF ParkRoot, SignFails, LabelEpoch, FetchFails, DeletePending, Return
    <3> QED
      BY <3>1, IdleType
  <2>4. CASE Dequeue(w) \/ ConfirmRoot(w) \/ Sign(w) \/ StoreRequestId(w) \/ FetchProof(w)
    BY <1>0, <2>4 DEF Dequeue, ConfirmRoot, Sign, StoreRequestId, FetchProof, Goto, WorkerData
  <2>5. CASE ReadPending(w) \/ ReadEpoch(w)
    BY <1>0, <2>5 DEF ReadPending, ReadEpoch, WorkerData
  <2>6. CASE RereadTree(w) \/ ReadForAttach(w)
    BY <1>0, <2>6 DEF RereadTree, ReadForAttach, WorkerData
  <2> QED
    BY <2>1, <2>2, <2>3, <2>4, <2>5, <2>6 DEF WorkerStep
<1>3. HeldIsKnown'
  BY <1>0, <1>1, <1>2 DEF HeldIsKnown
<1>4. ASSUME NEW m \in Messages, ReportSigned(w, m)
      PROVE  Tables!Report(m)
  <2>1. /\ m \in worker[w].todo /\ worker[w].pc = "report"
        /\ status' = [status EXCEPT ![m] = "Signed"]
    BY <1>4 DEF ReportSigned, SetStatus
  <2>2. status[m] # "Absent"
    BY <2>1 DEF HeldIsKnown, Known
  <2>3. sweepActive => m \in canonical
    BY <2>1 DEF ConfirmedInv, WorkerIsConfirmed
  <2> QED
    BY <1>0, <2>1, <2>2, <2>3
       DEF Tables!Report, Tables!Known, Tables!Confirmed, Tables!Becomes
<1>5. UNCHANGED status \/ \E m \in Messages : ReportSigned(w, m)
  BY WorkerWrites
<1> QED
  BY <1>0, <1>3, <1>4, <1>5 DEF Tables!Next, Tables!vars

LEMMA EnvironmentTabled ==
  ASSUME SignerInv, HeldIsKnown, Environment
  PROVE  HeldIsKnown' /\ [Tables!Next]_Tables!vars
<1> USE DEF SignerInv
<1>0. loop \in LoopData /\ status \in [Messages -> Statuses] /\ approved \subseteq Messages
  BY DEF TypeOK
<1>1. \A m \in Messages : status[m] # "Absent" => status'[m] # "Absent"
  BY StaysKnown DEF Next, Environment
<1>2. ASSUME UNCHANGED <<loop, worker, approved>>
      PROVE  HeldIsKnown'
  <2>1. Known(approved \cup loop.ready \cup loop.msg \cup loop.todo)'
    BY <1>0, <1>1, <1>2 DEF HeldIsKnown, Known, LoopData
  <2>2. \A w \in Workers : worker'[w].pc = "report" => worker'[w].todo \subseteq approved'
    BY <1>2 DEF HeldIsKnown
  <2> QED
    BY <2>1, <2>2 DEF HeldIsKnown
<1>3. ASSUME NEW m \in Messages, Ingest(m)
      PROVE  HeldIsKnown' /\ [Tables!Next]_Tables!vars
  <2>1. Tables!Ingest(m)
    BY <1>3 DEF Ingest, SetStatus, Tables!Ingest, Tables!Known, Tables!Becomes
  <2> QED
    BY <1>2, <1>3, <2>1 DEF Ingest, taskVars, histVars, Tables!Next
<1>4. ASSUME NEW m \in Messages, MarkCanonical(m)
      PROVE  HeldIsKnown' /\ [Tables!Next]_Tables!vars
  <2>1. Tables!Confirm(m)
    BY <1>4 DEF MarkCanonical, Tables!Confirm, Tables!Known
  <2> QED
    BY <1>2, <1>4, <2>1 DEF MarkCanonical, taskVars, histVars, Tables!Next
<1>5. CASE Crash
  <2>1. Tables!Restart
    BY <1>5 DEF Crash, storageVars, Tables!Restart
  <2>2. loop' = IdleLoop /\ worker' = [w \in Workers |-> IdleWorker]
        /\ UNCHANGED <<approved, status>>
    BY <1>5 DEF Crash, storageVars
  <2>3. HeldIsKnown'
    BY <2>2, IdleType DEF HeldIsKnown, Known, IdleLoop, IdleWorker
  <2> QED
    BY <2>1, <2>3 DEF Tables!Next
<1>6. CASE AdvanceEpoch \/ \E q \in requests : Aggregate(q)
  BY <1>2, <1>6 DEF AdvanceEpoch, Aggregate, storageVars, taskVars, histVars, Tables!vars
<1> QED
  BY <1>3, <1>4, <1>5, <1>6 DEF Environment

(* The signer keeps to what ingestion and sweep expect of the tables they  *)
(* share: it writes the status of stored messages only, and judges and     *)
(* reports none but confirmed ones while the sweep runs.                   *)
THEOREM SignerAdmits == Spec => AdmissionSpec
<1>1. Init => Tables!Init /\ HeldIsKnown /\ ConfirmedInv
  BY IdleType DEF Init, Tables!Init, HeldIsKnown, Known, IdleLoop, IdleWorker, ConfirmedInv,
     LoopIsConfirmed, WorkerIsConfirmed
<1>2. SignerInv /\ ConfirmedInv /\ HeldIsKnown /\ [Next]_vars
        => HeldIsKnown' /\ [Tables!Next]_Tables!vars
  <2> SUFFICES ASSUME SignerInv, ConfirmedInv, HeldIsKnown, [Next]_vars
               PROVE  HeldIsKnown' /\ [Tables!Next]_Tables!vars
    OBVIOUS
  <2>1. CASE UNCHANGED vars
    BY <2>1 DEF vars, storageVars, taskVars, histVars, HeldIsKnown, Known, Tables!vars
  <2>2. CASE Sync
    <3>1. UNCHANGED <<status, canonical, sweepActive, loop, worker, approved>>
      BY <2>2, SyncWrites DEF storageVars
    <3> QED
      BY <3>1 DEF HeldIsKnown, Known, Tables!vars
  <2> QED
    BY <2>1, <2>2, NextCases, LoopTabled, WorkerTabled, EnvironmentTabled
<1> QED
  BY <1>1, <1>2, ConfirmedStays, SignerInvariant, PTL DEF Spec, AdmissionSpec, Tables!Spec

-----------------------------------------------------------------------------
(* With a leaf per message, a root names its batch.                        *)

OwnLeaves == \A m, n \in Messages : Leaf[m] = Leaf[n] => m = n

LEMMA RootNamesBatch ==
  ASSUME OwnLeaves, NEW S \in SUBSET Messages, NEW T \in SUBSET Messages,
         RootOf(S) = RootOf(T)
  PROVE  S = T
<1>1. ASSUME NEW A \in SUBSET Messages, NEW B \in SUBSET Messages,
             RootOf(A) = RootOf(B), NEW m \in A
      PROVE  m \in B
  <2>1. PICK n \in B : Leaf[n] = Leaf[m]
    BY <1>1 DEF RootOf
  <2> QED
    BY <2>1 DEF OwnLeaves
<1> QED
  BY <1>1

MarkedIsSaved == loop.pc = "mark" => loop.todo \subseteq trees[RootOf(loop.batch)].ids

LEMMA IdsStay ==
  ASSUME OwnLeaves, SignerInv, SignerInv', Grows, NEW r \in Roots, Saved(r)
  PROVE  trees'[r].ids = trees[r].ids
<1>1. /\ trees[r].ids \in SUBSET Messages /\ trees'[r].ids \in SUBSET Messages
      /\ RootOf(trees[r].ids) = r
  BY DEF SignerInv, TypeOK, TreeData, TreesAreRooted, RootedTree
<1>2. RootOf(trees'[r].ids) = r
  BY DEF SignerInv, TreesAreRooted, RootedTree, Grows, Saved, RootOf
<1> QED
  BY <1>1, <1>2, RootNamesBatch

LEMMA CoverStep ==
  ASSUME OwnLeaves, SignerInv, SignerInv', Next, Grows, MarkedIsSaved, ProcessingIsCovered
  PROVE  MarkedIsSaved' /\ ProcessingIsCovered'
<1> USE DEF SignerInv
<1>1. loop.pc = "mark" => /\ RootOf(loop.batch) \in Roots /\ Saved(RootOf(loop.batch))
                          /\ trees'[RootOf(loop.batch)].ids = trees[RootOf(loop.batch)].ids
  BY RootOfType, IdsStay DEF LoopIsSound, TypeOK, LoopData
<1>2. ASSUME NEW m \in Messages, status'[m] = "Processing", status[m] = "Processing"
      PROVE  \E r \in Roots : m \in trees'[r].ids
  <2>1. PICK r \in Roots : m \in trees[r].ids
    BY <1>2 DEF ProcessingIsCovered
  <2> QED
    BY <2>1, IdsStay DEF Saved
<1>3. ASSUME NEW m \in Messages, status'[m] = "Processing", status[m] # "Processing"
      PROVE  \E r \in Roots : m \in trees'[r].ids
  <2>1. MessageLoop
    <3>1. CASE Sync
      BY <1>3, <3>1, SyncWrites DEF storageVars
    <3>2. ASSUME NEW w \in Workers, WorkerStep(w)
          PROVE  FALSE
      BY <1>3, <3>2, WorkerWrites DEF ReportSigned, SetStatus, TypeOK
    <3>3. CASE Environment
      BY <1>3, <3>3, EnvironmentWrites DEF Ingest, SetStatus, TypeOK
    <3> QED
      BY <3>1, <3>2, <3>3, NextCases
  <2>2. MarkProcessing(m)
    <3>1. PICK n \in Messages : MarkProcessing(n)
      BY <1>3, <2>1 DEF MessageLoop, StartTick, Park, Evaluate, Group, BuildTree, Enqueue,
         CheckCanonical, SetStatus, storageVars, TypeOK
    <3>2. n = m
      BY <1>3, <3>1 DEF MarkProcessing, SetStatus, TypeOK
    <3> QED
      BY <3>1, <3>2
  <2> QED
    BY <1>1, <2>2 DEF MarkProcessing, MarkedIsSaved
<1>4. MarkedIsSaved'
  <2>1. CASE BuildTree
    <3>1. PICK batch \in (SUBSET loop.accepted) \ {{}} :
             /\ SaveTree(RootOf(batch), [ids |-> batch, proof |-> None, epoch |-> None])
             /\ loop' = [loop EXCEPT !.pc = "mark", !.accepted = @ \ batch,
                                     !.batch = batch, !.todo = batch]
      BY <2>1 DEF BuildTree
    <3>2. RootOf(batch) \in Roots
      BY RootOfType DEF TypeOK, LoopData
    <3>3. trees'[RootOf(batch)].ids = batch
      BY <3>1, <3>2 DEF SaveTree, TypeOK
    <3>4. loop'.batch = batch /\ loop'.todo = batch
      BY <3>1 DEF TypeOK, LoopData
    <3> QED
      BY <3>3, <3>4 DEF MarkedIsSaved, RootOf
  <2>2. ASSUME NEW m \in Messages, MarkProcessing(m)
        PROVE  MarkedIsSaved'
    <3>1. /\ loop'.batch = loop.batch /\ loop'.todo \subseteq loop.todo
          /\ loop.pc = "mark"
      BY <2>2 DEF MarkProcessing, TypeOK, LoopData
    <3> QED
      BY <1>1, <3>1 DEF MarkedIsSaved, RootOf
  <2>3. CASE UNCHANGED loop
    BY <1>1, <2>3 DEF MarkedIsSaved, RootOf
  <2>4. CASE loop'.pc # "mark"
    BY <2>4 DEF MarkedIsSaved
  <2>5. MessageLoop => \/ BuildTree \/ (\E m \in Messages : MarkProcessing(m))
                       \/ loop'.pc # "mark"
    <3>1. CASE StartTick
      <4>1. PICK ready : loop' = [IdleLoop EXCEPT !.pc = "gate", !.ready = ready]
        BY <3>1 DEF StartTick
      <4> QED
        BY <4>1 DEF IdleLoop
    <3>2. CASE Park \/ Evaluate
      BY <3>2 DEF Park, Evaluate, TypeOK, LoopData
    <3>3. CASE Group
      BY <3>3 DEF Group, IdleLoop, TypeOK, LoopData
    <3>4. CASE Enqueue
      BY <3>4 DEF Enqueue, IdleLoop, TypeOK, LoopData
    <3>5. ASSUME NEW m \in Messages, CheckCanonical(m)
          PROVE  loop'.pc # "mark"
      BY <3>5 DEF CheckCanonical, TypeOK, LoopData
    <3> QED
      BY <3>1, <3>2, <3>3, <3>4, <3>5 DEF MessageLoop
  <2>6. Environment => UNCHANGED loop \/ loop'.pc # "mark"
    BY EnvironmentWrites DEF taskVars, Crash, IdleLoop
  <2> QED
    BY <2>1, <2>2, <2>3, <2>4, <2>5, <2>6, NextCases, SyncWrites, WorkerWrites
<1> QED
  BY <1>2, <1>3, <1>4 DEF ProcessingIsCovered

(* A message is Processing only while a saved tree holds it, so a crash    *)
(* between the two writes of a batch loses no message.                     *)
THEOREM ProcessingCovered ==
  ASSUME OwnLeaves
  PROVE  Spec => []ProcessingIsCovered
<1> DEFINE Cover == MarkedIsSaved /\ ProcessingIsCovered
<1>1. Init => Cover
  BY DEF Init, IdleLoop, MarkedIsSaved, ProcessingIsCovered
<1>2. SignerInv /\ SignerInv' /\ Cover /\ [Next]_vars => Cover'
  <2> SUFFICES ASSUME SignerInv, SignerInv', Cover, [Next]_vars
               PROVE  Cover'
    OBVIOUS
  <2>1. CASE Next
    BY <2>1, StepGrows, CoverStep
  <2>2. CASE UNCHANGED vars
    BY <2>2 DEF vars, storageVars, taskVars, MarkedIsSaved, ProcessingIsCovered, RootOf
  <2> QED
    BY <2>1, <2>2
<1>3. Cover => ProcessingIsCovered
  OBVIOUS
<1> QED
  BY <1>1, <1>2, <1>3, SignerInvariant, PTL DEF Spec

-----------------------------------------------------------------------------
(* Without a crash no message is batched a second time.                    *)

NoCrash == MaxCrashes = 0

Evaluated == loop.ready \cup loop.msg
InBatch(m) ==
  \/ \E r \in Roots : m \in trees[r].ids
  \/ \E w \in Workers : m \in worker[w].tree.ids \cup worker[w].todo

(* The lists of a tick share no message, and hold what may be evaluated.   *)
TickFits ==
  /\ loop.pc # "mark" => loop.todo = {}
  /\ loop.ready \cap loop.msg = {}
  /\ loop.accepted \cap Evaluated = {}
  /\ loop.todo \cap (loop.accepted \cup Evaluated) = {}
  /\ \A m \in Evaluated : status[m] \in {"Pending", "Deferred"}
  /\ \A m \in loop.accepted : status[m] = "Pending"
  /\ \A m \in loop.todo : status[m] \in {"Pending", "Signed"}

(* What a tree or a worker holds has left the lists.                       *)
BatchedOnce ==
  \A m \in Messages : InBatch(m) =>
    /\ status[m] \in {"Processing", "Signed"} \/ m \in loop.todo
    /\ m \notin loop.accepted \cup Evaluated

BatchInv == TickFits /\ BatchedOnce

(* With one worker what it has read of a row is still the row.             *)
RowFits(r) ==
  /\ ~Saved(r) => trees[r].proof = None /\ pendingId[r] = None
  /\ trees[r].proof # None => trees[r].epoch # None
  /\ pendingId[r] # None =>
       \/ trees[r].epoch # None
       \/ \E w \in Workers : worker[w].root = r /\ worker[w].pc \in {"reread", "label"}

HoldsRow(w) ==
  /\ worker[w].pc \in {"label", "attach"} => worker[w].tree = trees[worker[w].root]
  /\ worker[w].pc \in Requested => worker[w].id # None
  /\ worker[w].pc \in {"fetch", "fetched", "attach"} => trees[worker[w].root].epoch # None

RowInv == (\A r \in Roots : RowFits(r)) /\ (\A w \in Workers : HoldsRow(w))

LEMMA NoCrashHappens ==
  ASSUME NoCrash, TypeOK
  PROVE  ~Crash
BY DEF NoCrash, TypeOK, Crash

LEMMA LoopLists ==
  ASSUME TypeOK
  PROVE  /\ loop.ready \in SUBSET Messages /\ loop.msg \in SUBSET Messages
         /\ loop.accepted \in SUBSET Messages /\ loop.todo \in SUBSET Messages
         /\ status \in [Messages -> Statuses] /\ loop \in LoopData
BY DEF TypeOK, LoopData

LEMMA BatchStart == Init => BatchInv
BY DEF Init, IdleLoop, IdleWorker, NoTree, BatchInv, TickFits, BatchedOnce, Evaluated, InBatch

(* Nothing comes to be held by a tree or a worker that was not.            *)
HoldsNoMore == \A m \in Messages : InBatch(m)' => InBatch(m)

LEMMA SameHolds ==
  ASSUME UNCHANGED <<trees, worker>>
  PROVE  HoldsNoMore
BY DEF HoldsNoMore, InBatch

LEMMA WorkerHoldsNoMore ==
  ASSUME TypeOK, NEW w \in Workers, WorkerStep(w)
  PROVE  HoldsNoMore
<1>1. /\ worker \in [Workers -> WorkerData] /\ worker[w] \in WorkerData
      /\ trees \in [Roots -> TreeData]
      /\ worker[w].pc # "idle" => worker[w].root \in Roots
      /\ \A v \in Workers \ {w} : worker'[v] = worker[v]
  BY WorkerWrites DEF TypeOK
<1>2. ASSUME UNCHANGED trees,
             \/ worker'[w].tree = worker[w].tree
             \/ worker[w].pc # "idle" /\ worker'[w].tree = trees[worker[w].root]
             \/ worker'[w].tree.ids = {},
             worker'[w].todo \subseteq worker[w].todo
      PROVE  HoldsNoMore
  <2> SUFFICES ASSUME NEW m \in Messages, InBatch(m)'
               PROVE  InBatch(m)
    BY DEF HoldsNoMore
  <2>1. CASE \E r \in Roots : m \in trees'[r].ids
    BY <1>2, <2>1 DEF InBatch
  <2>2. CASE \E v \in Workers : m \in worker'[v].tree.ids \cup worker'[v].todo
    <3>1. PICK v \in Workers : m \in worker'[v].tree.ids \cup worker'[v].todo
      BY <2>2
    <3>2. CASE v # w
      BY <1>1, <3>1, <3>2 DEF InBatch
    <3>3. CASE v = w
      BY <1>1, <1>2, <3>1, <3>3 DEF InBatch
    <3> QED
      BY <3>2, <3>3
  <2> QED
    BY <2>1, <2>2 DEF InBatch
<1>3. Return(w) => worker'[w].tree.ids = {} /\ worker'[w].todo = {}
  BY <1>1 DEF Return, IdleWorker, NoTree
<1>4. ASSUME NEW pc, Goto(w, pc)
      PROVE  worker'[w].tree = worker[w].tree /\ worker'[w].todo = worker[w].todo
  BY <1>1, <1>4 DEF Goto, WorkerData
<1>5. CASE Dequeue(w)
  <2>1. worker'[w].tree = worker[w].tree /\ worker'[w].todo = worker[w].todo
    BY <1>1, <1>5 DEF Dequeue, WorkerData
  <2> QED
    BY <1>2, <1>5, <2>1 DEF Dequeue, storageVars
<1>6. CASE ParkRoot(w) \/ SignFails(w) \/ FetchFails(w) \/ DeletePending(w)
  BY <1>2, <1>3, <1>6 DEF ParkRoot, SignFails, FetchFails, DeletePending, storageVars
<1>7. CASE ConfirmRoot(w) \/ Sign(w) \/ StoreRequestId(w) \/ FetchProof(w)
  BY <1>2, <1>4, <1>7 DEF ConfirmRoot, Sign, StoreRequestId, FetchProof, storageVars
<1>8. CASE ReadPending(w) \/ ReadEpoch(w)
  <2>1. worker'[w].tree = worker[w].tree /\ worker'[w].todo = worker[w].todo
    BY <1>1, <1>8 DEF ReadPending, ReadEpoch, WorkerData
  <2> QED
    BY <1>2, <1>8, <2>1 DEF ReadPending, ReadEpoch, storageVars
<1>9. CASE RereadTree(w) \/ ReadForAttach(w)
  <2>1. worker'[w].tree = trees[worker[w].root] /\ worker'[w].todo = worker[w].todo
        /\ worker[w].pc # "idle"
    BY <1>1, <1>9 DEF RereadTree, ReadForAttach, WorkerData
  <2> QED
    BY <1>2, <1>9, <2>1 DEF RereadTree, ReadForAttach, storageVars
<1>10. ASSUME NEW m \in Messages, ReportSigned(w, m)
       PROVE  HoldsNoMore
  <2>1. worker'[w].tree = worker[w].tree /\ worker'[w].todo = worker[w].todo \ {m}
    BY <1>1, <1>10 DEF ReportSigned, WorkerData
  <2> QED
    BY <1>2, <1>10, <2>1 DEF ReportSigned
<1>11. CASE LabelEpoch(w) \/ AttachProof(w)
  <2>1. /\ \A r \in Roots : trees'[r].ids \in {trees[r].ids, worker[w].tree.ids}
        /\ worker'[w].tree.ids \subseteq worker[w].tree.ids
        /\ worker'[w].todo \subseteq worker[w].tree.ids
    <3>1. CASE LabelEpoch(w)
      <4>1. PICK old \in TreeData : old = worker[w].tree
        BY <1>1 DEF WorkerData
      <4>2. [old EXCEPT !.epoch = worker[w].id].ids = old.ids
        BY DEF TreeData
      <4>3. trees' = [trees EXCEPT ![worker[w].root] = [old EXCEPT !.epoch = worker[w].id]]
        BY <3>1, <4>1 DEF LabelEpoch, SaveTree
      <4>4. \A r \in Roots : trees'[r] \in {trees[r], [old EXCEPT !.epoch = worker[w].id]}
        BY <1>1, <4>3
      <4> QED
        BY <1>3, <3>1, <4>1, <4>2, <4>4 DEF LabelEpoch
    <3>2. CASE AttachProof(w)
      <4>1. PICK old \in TreeData : old = worker[w].tree
        BY <1>1 DEF WorkerData
      <4>2. [old EXCEPT !.proof = worker[w].id].ids = old.ids
        BY DEF TreeData
      <4>3. trees' = [trees EXCEPT ![worker[w].root] = [old EXCEPT !.proof = worker[w].id]]
        BY <3>2, <4>1 DEF AttachProof, SaveTree
      <4>4. \A r \in Roots : trees'[r] \in {trees[r], [old EXCEPT !.proof = worker[w].id]}
        BY <1>1, <4>3
      <4>5. worker'[w].tree = worker[w].tree /\ worker'[w].todo = worker[w].tree.ids
        BY <1>1, <3>2 DEF AttachProof, WorkerData
      <4> QED
        BY <4>1, <4>2, <4>4, <4>5
    <3> QED
      BY <1>11, <3>1, <3>2
  <2> SUFFICES ASSUME NEW m \in Messages, InBatch(m)'
               PROVE  InBatch(m)
    BY DEF HoldsNoMore
  <2>2. CASE \E r \in Roots : m \in trees'[r].ids
    BY <2>1, <2>2 DEF InBatch
  <2>3. CASE \E v \in Workers : m \in worker'[v].tree.ids \cup worker'[v].todo
    BY <1>1, <2>1, <2>3 DEF InBatch
  <2> QED
    BY <2>2, <2>3 DEF InBatch
<1> QED
  BY <1>5, <1>6, <1>7, <1>8, <1>9, <1>10, <1>11 DEF WorkerStep

(* Steps that leave the lists alone.                                       *)
LEMMA BatchKept ==
  ASSUME TypeOK, BatchInv, UNCHANGED loop, HoldsNoMore,
         \A m \in Messages :
           \/ status'[m] = status[m]
           \/ status[m] = "Absent"
           \/ status'[m] = "Signed" /\ InBatch(m)
  PROVE  BatchInv'
<1>1. /\ loop.ready \in SUBSET Messages /\ loop.msg \in SUBSET Messages
      /\ loop.accepted \in SUBSET Messages /\ loop.todo \in SUBSET Messages
  BY LoopLists
<1>2. TickFits /\ BatchedOnce /\ Evaluated' = Evaluated
  BY DEF BatchInv, Evaluated
<1>3. \A m \in Evaluated \cup loop.accepted : status'[m] = status[m]
  BY <1>1, <1>2 DEF TickFits, BatchedOnce, Evaluated
<1>4. \A m \in loop.todo : status'[m] \in {"Pending", "Signed"}
  BY <1>1, <1>2 DEF TickFits
<1>5. TickFits'
  BY <1>2, <1>3, <1>4 DEF TickFits
<1>6. BatchedOnce'
  BY <1>2 DEF BatchedOnce, HoldsNoMore
<1> QED
  BY <1>5, <1>6 DEF BatchInv

(* Steps of the message loop that save no tree.                            *)
LEMMA BatchMoves ==
  ASSUME TypeOK, BatchInv, UNCHANGED <<trees, worker>>, TickFits',
         \A m \in Messages : m \in loop'.accepted \cup loop'.ready \cup loop'.msg =>
           \/ m \in loop.accepted \cup Evaluated
           \/ status[m] \in {"Pending", "Deferred"} /\ loop.todo = {},
         \A m \in Messages : m \notin loop.accepted \cup Evaluated =>
           \/ status'[m] = status[m] /\ (m \in loop.todo => m \in loop'.todo)
           \/ status'[m] = "Processing"
  PROVE  BatchInv'
<1>1. /\ TickFits /\ BatchedOnce
      /\ \A m \in Messages : InBatch(m)' => InBatch(m)
  BY SameHolds DEF BatchInv, HoldsNoMore
<1>2. ASSUME NEW m \in Messages, InBatch(m)
      PROVE  /\ status'[m] \in {"Processing", "Signed"} \/ m \in loop'.todo
             /\ m \notin loop'.accepted \cup Evaluated'
  <2>1. /\ status[m] \in {"Processing", "Signed"} \/ m \in loop.todo
        /\ m \notin loop.accepted \cup Evaluated
    BY <1>1, <1>2 DEF BatchedOnce
  <2> QED
    BY <2>1 DEF Evaluated
<1> QED
  BY <1>1, <1>2 DEF BatchInv, BatchedOnce

LEMMA BatchLoop ==
  ASSUME TypeOK, BatchInv, MessageLoop
  PROVE  BatchInv'
<1>1. /\ loop.ready \in SUBSET Messages /\ loop.msg \in SUBSET Messages
      /\ loop.accepted \in SUBSET Messages /\ loop.todo \in SUBSET Messages
      /\ status \in [Messages -> Statuses] /\ loop \in LoopData
      /\ TickFits /\ BatchedOnce /\ UNCHANGED worker
  BY LoopLists, LoopWrites DEF BatchInv
<1>2. PICK old \in LoopData : old = loop
  BY <1>1
<1>3. CASE StartTick
  <2>1. PICK expired \in SUBSET {m \in Messages : status[m] = "Deferred"} :
          loop' = [IdleLoop EXCEPT !.pc = "gate",
                     !.ready = {m \in Messages : status[m] = "Pending"} \cup expired]
    BY <1>3 DEF StartTick
  <2>2. /\ loop'.ready = {m \in Messages : status[m] = "Pending"} \cup expired
        /\ loop'.pc = "gate" /\ loop'.msg = {} /\ loop'.accepted = {} /\ loop'.todo = {}
    BY <2>1 DEF IdleLoop
  <2>3. UNCHANGED <<status, trees>> /\ loop.pc = "idle" /\ loop.todo = {}
    BY <1>1, <1>3 DEF StartTick, storageVars, TickFits
  <2>4. TickFits'
    BY <2>2, <2>3 DEF TickFits, Evaluated
  <2> QED
    BY <1>1, <2>2, <2>3, <2>4, BatchMoves
<1>4. CASE Park
  <2>1. PICK m \in loop.msg, verdict \in {"Deferred", "Abandoned"} : SetStatus(m, verdict)
    BY <1>4 DEF Park
  <2>2. /\ loop'.pc = "gate" /\ loop'.msg = {} /\ loop'.ready = loop.ready
        /\ loop'.accepted = loop.accepted /\ loop'.todo = loop.todo
        /\ loop.pc = "park" /\ UNCHANGED trees
    BY <1>1, <1>4 DEF Park, LoopData
  <2>3. \A n \in Messages \ {m} : status'[n] = status[n]
    BY <1>1, <2>1 DEF SetStatus
  <2>4. TickFits'
    BY <1>1, <2>1, <2>2, <2>3 DEF TickFits, Evaluated
  <2> QED
    BY <1>1, <2>1, <2>2, <2>3, <2>4, BatchMoves DEF Evaluated
<1>5. CASE Evaluate
  <2>1. PICK m \in loop.msg, verdict \in {"Pending", "Deferred", "Rejected"} :
           LET ok == IF verdict = "Pending" THEN {m} ELSE {}
           IN  /\ SetStatus(m, verdict)
               /\ loop' = [loop EXCEPT !.pc = "gate", !.msg = {},
                                       !.accepted = @ \cup ok]
    BY <1>5 DEF Evaluate
  <2>2. /\ loop'.pc = "gate" /\ loop'.msg = {} /\ loop'.ready = loop.ready
        /\ loop'.accepted = loop.accepted \cup (IF verdict = "Pending" THEN {m} ELSE {})
        /\ loop'.todo = loop.todo
    BY <1>1, <2>1 DEF LoopData
  <2>3. loop.pc = "hooks" /\ UNCHANGED trees
    BY <1>5 DEF Evaluate
  <2>4. (\A n \in Messages \ {m} : status'[n] = status[n]) /\ status'[m] = verdict
    BY <1>1, <2>1 DEF SetStatus
  <2>5. TickFits'
    BY <1>1, <2>1, <2>2, <2>3, <2>4 DEF TickFits, Evaluated
  <2> QED
    BY <1>1, <2>1, <2>2, <2>3, <2>4, <2>5, BatchMoves DEF Evaluated
<1>6. CASE Group
  <2>1. /\ loop.pc = "gate" /\ loop.todo = {} /\ UNCHANGED <<status, trees>>
        /\ \/ loop' = IdleLoop
           \/ loop' = [loop EXCEPT !.pc = "build", !.accepted = loop.accepted \cap Supported]
    BY <1>1, <1>6 DEF Group, storageVars, TickFits
  <2>2. /\ loop'.accepted \subseteq loop.accepted /\ loop'.ready \subseteq loop.ready
        /\ loop'.msg \subseteq loop.msg /\ loop'.todo = {}
    <3>1. CASE loop' = IdleLoop
      BY <3>1 DEF IdleLoop
    <3>2. CASE loop' # IdleLoop
      BY <1>1, <2>1, <3>2 DEF LoopData
    <3> QED
      BY <3>1, <3>2
  <2>3. TickFits'
    BY <1>1, <2>1, <2>2 DEF TickFits, Evaluated
  <2> QED
    BY <1>1, <2>1, <2>2, <2>3, BatchMoves DEF Evaluated
<1>7. CASE BuildTree
  <2>1. PICK batch \in (SUBSET loop.accepted) \ {{}} :
           /\ SaveTree(RootOf(batch), [ids |-> batch, proof |-> None, epoch |-> None])
           /\ loop' = [loop EXCEPT !.pc = "mark", !.accepted = @ \ batch,
                                   !.batch = batch, !.todo = batch]
    BY <1>7 DEF BuildTree
  <2>2. /\ loop'.accepted = loop.accepted \ batch /\ loop'.todo = batch
        /\ loop'.ready = loop.ready /\ loop'.msg = loop.msg /\ loop'.pc = "mark"
    BY <1>1, <2>1 DEF LoopData
  <2>3. loop.pc = "build" /\ UNCHANGED status /\ loop.todo = {}
    BY <1>1, <1>7 DEF BuildTree, TickFits
  <2>4. TickFits'
    BY <1>1, <2>2, <2>3 DEF TickFits, Evaluated
  <2>5. ASSUME NEW m \in Messages, InBatch(m)'
        PROVE  InBatch(m) \/ m \in batch
    <3>1. \A r \in Roots : trees'[r].ids \in {trees[r].ids, batch}
      BY <2>1 DEF SaveTree, TypeOK
    <3>2. CASE \E r \in Roots : m \in trees'[r].ids
      BY <3>1, <3>2 DEF InBatch
    <3>3. CASE \E w \in Workers : m \in worker'[w].tree.ids \cup worker'[w].todo
      BY <1>1, <3>3 DEF InBatch
    <3> QED
      BY <2>5, <3>2, <3>3 DEF InBatch
  <2>6. BatchedOnce'
    BY <1>1, <2>2, <2>3, <2>5 DEF TickFits, BatchedOnce, Evaluated
  <2> QED
    BY <2>4, <2>6 DEF BatchInv
<1>8. CASE Enqueue
  <2>1. /\ loop.pc = "mark" /\ loop.todo = {} /\ UNCHANGED <<status, trees>>
        /\ \/ loop' = IdleLoop
           \/ loop' = [loop EXCEPT !.pc = "build", !.batch = {}]
    BY <1>8 DEF Enqueue, storageVars
  <2>2. /\ loop'.accepted \subseteq loop.accepted /\ loop'.ready \subseteq loop.ready
        /\ loop'.msg \subseteq loop.msg /\ loop'.todo = {}
    <3>1. CASE loop' = IdleLoop
      BY <3>1 DEF IdleLoop
    <3>2. CASE loop' # IdleLoop
      BY <1>1, <2>1, <3>2 DEF LoopData
    <3> QED
      BY <3>1, <3>2
  <2>3. TickFits'
    BY <1>1, <2>1, <2>2 DEF TickFits, Evaluated
  <2> QED
    BY <1>1, <2>1, <2>2, <2>3, BatchMoves DEF Evaluated
<1>9. ASSUME NEW m \in Messages, CheckCanonical(m)
      PROVE  BatchInv'
  <2>1. /\ loop.pc = "gate" /\ m \in loop.ready /\ UNCHANGED <<status, trees>>
        /\ loop'.ready = loop.ready \ {m} /\ loop'.msg = {m} /\ loop'.pc # "mark"
        /\ loop'.accepted = loop.accepted /\ loop'.todo = loop.todo
    BY <1>1, <1>9 DEF CheckCanonical, storageVars, LoopData
  <2>2. TickFits'
    BY <1>1, <2>1 DEF TickFits, Evaluated
  <2> QED
    BY <1>1, <2>1, <2>2, BatchMoves DEF Evaluated
<1>10. ASSUME NEW m \in Messages, MarkProcessing(m)
       PROVE  BatchInv'
  <2>1. /\ loop.pc = "mark" /\ m \in loop.todo /\ UNCHANGED trees
        /\ loop'.ready = loop.ready /\ loop'.msg = loop.msg /\ loop'.pc = "mark"
        /\ loop'.accepted = loop.accepted /\ loop'.todo = loop.todo \ {m}
    BY <1>1, <1>10 DEF MarkProcessing, LoopData
  <2>2. (\A n \in Messages \ {m} : status'[n] = status[n]) /\ status'[m] = "Processing"
    BY <1>1, <1>10 DEF MarkProcessing, SetStatus
  <2>3. TickFits'
    BY <1>1, <2>1, <2>2 DEF TickFits, Evaluated
  <2> QED
    BY <1>1, <2>1, <2>2, <2>3, BatchMoves DEF Evaluated
<1> QED
  BY <1>3, <1>4, <1>5, <1>6, <1>7, <1>8, <1>9, <1>10 DEF MessageLoop

LEMMA BatchStep ==
  ASSUME NoCrash, TypeOK, BatchInv, [Next]_vars
  PROVE  BatchInv'
<1>1. CASE MessageLoop
  BY <1>1, BatchLoop
<1>2. CASE Sync
  BY <1>2, SyncWrites, SameHolds, BatchKept DEF storageVars
<1>3. ASSUME NEW w \in Workers, WorkerStep(w)
      PROVE  BatchInv'
  <2>1. UNCHANGED loop /\ HoldsNoMore
    BY <1>3, WorkerWrites, WorkerHoldsNoMore
  <2>2. ASSUME NEW m \in Messages, ReportSigned(w, m)
        PROVE  InBatch(m) /\ status' = [status EXCEPT ![m] = "Signed"]
    BY <2>2 DEF ReportSigned, SetStatus, InBatch
  <2>3. \A m \in Messages : status'[m] = status[m] \/ (status'[m] = "Signed" /\ InBatch(m))
    BY <1>3, <2>2, WorkerWrites, LoopLists
  <2> QED
    BY <2>1, <2>3, BatchKept
<1>4. CASE Environment
  <2>1. UNCHANGED <<trees, loop, worker>>
    BY <1>4, EnvironmentWrites, NoCrashHappens DEF taskVars
  <2>2. \A m \in Messages : status'[m] = status[m] \/ status[m] = "Absent"
    BY <1>4, EnvironmentWrites, LoopLists DEF Ingest, SetStatus
  <2> QED
    BY <2>1, <2>2, SameHolds, BatchKept
<1>5. CASE UNCHANGED vars
  BY <1>5, SameHolds, BatchKept DEF vars, storageVars, taskVars
<1> QED
  BY <1>1, <1>2, <1>3, <1>4, <1>5, NextCases

(* Who writes a status, and of which messages.                             *)
LEMMA VerdictStep ==
  ASSUME NoCrash, TypeOK, BatchInv, [Next]_vars, NEW m \in Messages,
         status[m] \in {"Rejected", "Abandoned"}
  PROVE  status'[m] = status[m]
<1>1. /\ status \in [Messages -> Statuses] /\ TickFits /\ BatchedOnce
  BY LoopLists DEF BatchInv
<1>2. m \notin Evaluated /\ m \notin loop.todo /\ ~InBatch(m)
  BY <1>1 DEF TickFits, BatchedOnce
<1>3. CASE MessageLoop
  <2>1. ASSUME NEW n, NEW s, SetStatus(n, s), n # m
        PROVE  status'[m] = status[m]
    BY <1>1, <2>1 DEF SetStatus
  <2>2. CASE Park
    BY <1>2, <2>1, <2>2 DEF Park, Evaluated
  <2>3. CASE Evaluate
    <3>1. PICK n \in loop.msg, verdict \in {"Pending", "Deferred", "Rejected"} :
            SetStatus(n, verdict)
      BY <2>3 DEF Evaluate
    <3> QED
      BY <1>2, <2>1, <3>1 DEF Evaluated
  <2>4. ASSUME NEW n \in Messages, MarkProcessing(n)
        PROVE  status'[m] = status[m]
    BY <1>2, <2>1, <2>4 DEF MarkProcessing
  <2>5. CASE \/ StartTick \/ Group \/ BuildTree \/ Enqueue
             \/ \E n \in Messages : CheckCanonical(n)
    BY <2>5 DEF StartTick, Group, BuildTree, Enqueue, CheckCanonical, storageVars
  <2> QED
    BY <1>3, <2>2, <2>3, <2>4, <2>5 DEF MessageLoop
<1>4. CASE Sync
  BY <1>4, SyncWrites DEF storageVars
<1>5. ASSUME NEW w \in Workers, WorkerStep(w)
      PROVE  status'[m] = status[m]
  <2>1. ASSUME NEW n \in Messages, ReportSigned(w, n)
        PROVE  status'[m] = status[m]
    BY <1>1, <1>2, <2>1 DEF ReportSigned, SetStatus, InBatch
  <2> QED
    BY <1>5, <2>1, WorkerWrites
<1>6. CASE Environment
  BY <1>1, <1>6, EnvironmentWrites DEF Ingest, SetStatus
<1>7. CASE UNCHANGED vars
  BY <1>7 DEF vars, storageVars
<1> QED
  BY <1>3, <1>4, <1>5, <1>6, <1>7, NextCases

OneWorker == \A v, w \in Workers : v = w

LEMMA RowStart == Init => RowInv
BY DEF Init, RowInv, RowFits, HoldsRow, Saved, NoTree, IdleWorker, Requested, None

(* Steps that change no row and move no worker.                            *)
LEMMA RowSame ==
  ASSUME RowInv, UNCHANGED <<trees, pendingId, worker>>
  PROVE  RowInv'
BY DEF RowInv, RowFits, HoldsRow, Saved, Requested

(* The row of a batch is new.                                              *)
LEMMA RowBuilt ==
  ASSUME OwnLeaves, SignerInv, BatchInv, RowInv, BuildTree
  PROVE  /\ RowInv'
         /\ \A r \in Roots : trees[r].proof # None => trees'[r] = trees[r]
<1>1. /\ trees \in [Roots -> TreeData] /\ pendingId \in [Roots -> Nat] /\ UNCHANGED worker
      /\ loop.accepted \in SUBSET Messages
  BY LoopLists DEF SignerInv, TypeOK, BuildTree
<1>2. PICK batch \in (SUBSET loop.accepted) \ {{}} :
        SaveTree(RootOf(batch), [ids |-> batch, proof |-> None, epoch |-> None])
  BY DEF BuildTree
<1>3. RootOf(batch) \in Roots
  BY <1>1, RootOfType
<1>4. ~Saved(RootOf(batch))
  <2> SUFFICES ASSUME Saved(RootOf(batch))
               PROVE  FALSE
    OBVIOUS
  <2>1. /\ trees[RootOf(batch)].ids \in SUBSET Messages
        /\ RootOf(trees[RootOf(batch)].ids) = RootOf(batch)
    BY <1>1, <1>3 DEF SignerInv, TreesAreRooted, RootedTree, TreeData
  <2>2. trees[RootOf(batch)].ids = batch
    BY <1>1, <2>1, RootNamesBatch
  <2>3. PICK m \in batch : TRUE
    BY <1>2
  <2>4. InBatch(m) /\ m \in Messages
    BY <1>1, <1>3, <2>2, <2>3 DEF InBatch
  <2> QED
    BY <2>3, <2>4 DEF BatchInv, BatchedOnce
<1>5. trees[RootOf(batch)].proof = None /\ pendingId[RootOf(batch)] = None
  BY <1>3, <1>4 DEF RowInv, RowFits
<1>6. /\ trees'[RootOf(batch)] = [ids |-> batch, proof |-> None, epoch |-> None]
      /\ pendingId'[RootOf(batch)] = None
      /\ \A r \in Roots \ {RootOf(batch)} :
           trees'[r] = trees[r] /\ pendingId'[r] = pendingId[r]
  BY <1>1, <1>2, <1>3, <1>5 DEF SaveTree
<1>7. ASSUME NEW r \in Roots
      PROVE  RowFits(r)'
  BY <1>1, <1>6, <1>7 DEF RowInv, RowFits, Saved
<1>8. ASSUME NEW w \in Workers
      PROVE  HoldsRow(w)'
  <2>1. worker[w].pc # "idle" =>
          worker[w].root \in Roots /\ trees'[worker[w].root] = trees[worker[w].root]
    BY <1>4, <1>6 DEF SignerInv, TypeOK, WorkerIsSound
  <2> QED
    BY <1>1, <2>1 DEF RowInv, HoldsRow, Requested
<1> QED
  BY <1>5, <1>6, <1>7, <1>8 DEF RowInv

(* Steps of the worker.                                                    *)
LEMMA RowWorker ==
  ASSUME OneWorker, SignerInv, RowInv, NEW w \in Workers, WorkerStep(w)
  PROVE  /\ RowInv'
         /\ \A r \in Roots : trees[r].proof # None => trees'[r].proof # None
<1>1. /\ trees \in [Roots -> TreeData] /\ pendingId \in [Roots -> Nat]
      /\ worker \in [Workers -> WorkerData] /\ worker[w] \in WorkerData
      /\ worker[w].pc # "idle" => worker[w].root \in Roots
      /\ worker[w].pc = "sign" => worker[w].id # None
      /\ TypeOK
  BY DEF SignerInv, TypeOK, WorkerIsSound
<1>2. \A v \in Workers : v = w
  BY DEF OneWorker
<1>3. /\ HoldsRow(w) /\ \A r \in Roots : RowFits(r)
  BY DEF RowInv
<1>4. HoldsRow(w)' => \A v \in Workers : HoldsRow(v)'
  BY <1>2
<1>5. ASSUME UNCHANGED <<trees, pendingId>>, HoldsRow(w)',
             worker[w].pc \in {"reread", "label"} =>
               /\ worker'[w].pc \in {"reread", "label"}
               /\ worker'[w].root = worker[w].root
      PROVE  RowInv' /\ \A r \in Roots : trees[r].proof # None => trees'[r].proof # None
  BY <1>2, <1>3, <1>4, <1>5 DEF RowInv, RowFits, Saved
<1>6. Return(w) => worker'[w].pc = "idle"
  BY <1>1 DEF Return, IdleWorker
<1>7. ASSUME NEW pc, Goto(w, pc)
      PROVE  /\ worker'[w].pc = pc /\ worker'[w].root = worker[w].root
             /\ worker'[w].tree = worker[w].tree /\ worker'[w].id = worker[w].id
  BY <1>1, <1>7 DEF Goto, WorkerData
<1>8. CASE Dequeue(w)
  <2>1. worker[w].pc = "idle" /\ worker'[w].pc = "check" /\ UNCHANGED <<trees, pendingId>>
    BY <1>1, <1>8 DEF Dequeue, storageVars, WorkerData
  <2> QED
    BY <1>5, <2>1 DEF HoldsRow, Requested
<1>9. CASE ParkRoot(w) \/ SignFails(w) \/ FetchFails(w)
  <2>1. /\ worker'[w].pc = "idle" /\ UNCHANGED <<trees, pendingId>>
        /\ worker[w].pc \in {"check", "epoch", "sign", "fetch"}
    BY <1>6, <1>9 DEF ParkRoot, SignFails, FetchFails, storageVars
  <2> QED
    BY <1>5, <2>1 DEF HoldsRow, Requested
<1>10. CASE ConfirmRoot(w)
  <2>1. worker[w].pc = "check" /\ worker'[w].pc = "pending" /\ UNCHANGED <<trees, pendingId>>
    BY <1>7, <1>10 DEF ConfirmRoot, storageVars
  <2> QED
    BY <1>5, <2>1 DEF HoldsRow, Requested
<1>11. CASE ReadPending(w)
  <2>1. /\ worker[w].pc = "pending" /\ UNCHANGED <<trees, pendingId>>
        /\ worker'[w].pc = IF pendingId[worker[w].root] = None THEN "epoch" ELSE "fetch"
        /\ worker'[w].id = pendingId[worker[w].root] /\ worker'[w].root = worker[w].root
    BY <1>1, <1>11 DEF ReadPending, storageVars, WorkerData
  <2>2. pendingId[worker[w].root] # None => trees[worker[w].root].epoch # None
    BY <1>1, <1>2, <1>3, <2>1 DEF RowFits
  <2>3. HoldsRow(w)'
    BY <2>1, <2>2 DEF HoldsRow, Requested
  <2> QED
    BY <1>5, <2>1, <2>3
<1>12. CASE ReadEpoch(w)
  <2>1. worker[w].pc = "epoch" /\ worker'[w].pc = "sign" /\ UNCHANGED <<trees, pendingId>>
    BY <1>1, <1>12 DEF ReadEpoch, storageVars, WorkerData
  <2> QED
    BY <1>5, <2>1 DEF HoldsRow, Requested
<1>13. CASE Sign(w)
  <2>1. /\ worker[w].pc = "sign" /\ worker'[w].pc = "store" /\ UNCHANGED <<trees, pendingId>>
        /\ worker'[w].id # None
    BY <1>1, <1>7, <1>13 DEF Sign, storageVars
  <2> QED
    BY <1>5, <2>1 DEF HoldsRow
<1>14. CASE StoreRequestId(w)
  <2>1. /\ worker[w].pc = "store" /\ worker'[w].pc = "reread" /\ UNCHANGED trees
        /\ worker'[w].root = worker[w].root /\ worker'[w].id = worker[w].id
        /\ pendingId' = [pendingId EXCEPT ![worker[w].root] = worker[w].id]
    BY <1>1, <1>7, <1>14 DEF StoreRequestId
  <2>2. Saved(worker[w].root)
    BY <2>1 DEF SignerInv, WorkerIsSound
  <2>3. HoldsRow(w)'
    BY <1>3, <2>1 DEF HoldsRow, Requested
  <2>4. ASSUME NEW r \in Roots
        PROVE  RowFits(r)'
    <3>1. CASE r = worker[w].root
      BY <1>3, <2>1, <2>2, <3>1 DEF RowFits, Saved
    <3>2. CASE r # worker[w].root
      BY <1>1, <1>2, <1>3, <2>1, <3>2 DEF RowFits, Saved
    <3> QED
      BY <3>1, <3>2
  <2> QED
    BY <1>4, <2>1, <2>3, <2>4 DEF RowInv
<1>15. CASE RereadTree(w)
  <2>1. /\ worker[w].pc = "reread" /\ worker'[w].pc = "label" /\ UNCHANGED <<trees, pendingId>>
        /\ worker'[w].root = worker[w].root /\ worker'[w].id = worker[w].id
        /\ worker'[w].tree = trees[worker[w].root]
    BY <1>1, <1>15 DEF RereadTree, storageVars, WorkerData
  <2>2. HoldsRow(w)'
    BY <1>3, <2>1 DEF HoldsRow, Requested
  <2> QED
    BY <1>5, <2>1, <2>2
<1>16. CASE LabelEpoch(w)
  <2>1. /\ worker[w].pc = "label" /\ worker[w].root \in Roots /\ worker'[w].pc = "idle"
        /\ worker[w].id # None /\ worker[w].tree = trees[worker[w].root]
        /\ SaveTree(worker[w].root, [worker[w].tree EXCEPT !.epoch = worker[w].id])
    BY <1>1, <1>3, <1>6, <1>16 DEF LabelEpoch, HoldsRow, Requested
  <2>2. PICK old \in TreeData : old = worker[w].tree
    BY <1>1 DEF WorkerData
  <2>3. [old EXCEPT !.epoch = worker[w].id] =
          [ids |-> old.ids, proof |-> old.proof, epoch |-> worker[w].id]
    BY DEF TreeData
  <2>4. /\ trees'[worker[w].root] =
             [ids |-> trees[worker[w].root].ids, proof |-> trees[worker[w].root].proof,
              epoch |-> worker[w].id]
        /\ pendingId'[worker[w].root] \in {pendingId[worker[w].root], None}
        /\ \A r \in Roots \ {worker[w].root} :
             trees'[r] = trees[r] /\ pendingId'[r] = pendingId[r]
    BY <1>1, <2>1, <2>2, <2>3 DEF SaveTree
  <2>5. ASSUME NEW r \in Roots
        PROVE  RowFits(r)'
    <3>1. CASE r = worker[w].root
      BY <1>3, <2>1, <2>4, <3>1 DEF RowFits, Saved
    <3>2. CASE r # worker[w].root
      BY <1>2, <1>3, <2>1, <2>4, <3>2 DEF RowFits, Saved
    <3> QED
      BY <3>1, <3>2
  <2>6. HoldsRow(w)'
    BY <2>1 DEF HoldsRow, Requested
  <2> QED
    BY <1>4, <2>4, <2>5, <2>6 DEF RowInv
<1>17. CASE FetchProof(w)
  <2>1. /\ worker[w].pc = "fetch" /\ worker'[w].pc = "fetched" /\ UNCHANGED <<trees, pendingId>>
        /\ worker'[w].root = worker[w].root /\ worker'[w].id = worker[w].id
    BY <1>1, <1>7, <1>17 DEF FetchProof, storageVars
  <2>2. HoldsRow(w)'
    BY <1>3, <2>1 DEF HoldsRow, Requested
  <2> QED
    BY <1>5, <2>1, <2>2
<1>18. CASE ReadForAttach(w)
  <2>1. /\ worker[w].pc = "fetched" /\ worker'[w].pc = "attach" /\ UNCHANGED <<trees, pendingId>>
        /\ worker'[w].root = worker[w].root /\ worker'[w].id = worker[w].id
        /\ worker'[w].tree = trees[worker[w].root]
    BY <1>1, <1>18 DEF ReadForAttach, storageVars, WorkerData
  <2>2. HoldsRow(w)'
    BY <1>3, <2>1 DEF HoldsRow, Requested
  <2> QED
    BY <1>5, <2>1, <2>2
<1>19. CASE AttachProof(w)
  <2>1. /\ worker[w].pc = "attach" /\ worker[w].root \in Roots /\ worker'[w].pc = "report"
        /\ worker[w].id # None /\ worker[w].tree = trees[worker[w].root]
        /\ trees[worker[w].root].epoch # None /\ worker'[w].id = worker[w].id
        /\ SaveTree(worker[w].root, [worker[w].tree EXCEPT !.proof = worker[w].id])
    BY <1>1, <1>3, <1>19 DEF AttachProof, HoldsRow, Requested, WorkerData
  <2>2. PICK old \in TreeData : old = worker[w].tree
    BY <1>1 DEF WorkerData
  <2>3. [old EXCEPT !.proof = worker[w].id] =
          [ids |-> old.ids, proof |-> worker[w].id, epoch |-> old.epoch]
    BY DEF TreeData
  <2>4. /\ trees'[worker[w].root] =
             [ids |-> trees[worker[w].root].ids, proof |-> worker[w].id,
              epoch |-> trees[worker[w].root].epoch]
        /\ pendingId'[worker[w].root] = None
        /\ \A r \in Roots \ {worker[w].root} :
             trees'[r] = trees[r] /\ pendingId'[r] = pendingId[r]
    BY <1>1, <2>1, <2>2, <2>3 DEF SaveTree
  <2>5. Saved(worker[w].root)
    BY <2>1 DEF SignerInv, WorkerIsSound
  <2>6. ASSUME NEW r \in Roots
        PROVE  RowFits(r)'
    <3>1. CASE r = worker[w].root
      BY <2>1, <2>4, <2>5, <3>1 DEF RowFits, Saved
    <3>2. CASE r # worker[w].root
      BY <1>2, <1>3, <2>1, <2>4, <3>2 DEF RowFits, Saved
    <3> QED
      BY <3>1, <3>2
  <2>7. HoldsRow(w)'
    BY <2>1 DEF HoldsRow
  <2> QED
    BY <1>4, <2>1, <2>4, <2>6, <2>7 DEF RowInv
<1>20. ASSUME NEW m \in Messages, ReportSigned(w, m)
       PROVE  /\ RowInv'
              /\ \A r \in Roots : trees[r].proof # None => trees'[r].proof # None
  <2>1. /\ worker[w].pc = "report" /\ worker'[w].pc = "report" /\ UNCHANGED <<trees, pendingId>>
        /\ worker'[w].id = worker[w].id
    BY <1>1, <1>20 DEF ReportSigned, WorkerData
  <2>2. HoldsRow(w)'
    BY <1>3, <2>1 DEF HoldsRow, Requested
  <2> QED
    BY <1>5, <2>1, <2>2
<1>21. CASE DeletePending(w)
  <2>1. /\ worker[w].pc = "report" /\ worker'[w].pc = "idle" /\ UNCHANGED trees
        /\ \A r \in Roots : pendingId'[r] \in {pendingId[r], None}
    BY <1>1, <1>6, <1>21 DEF DeletePending
  <2>2. \A r \in Roots : RowFits(r)'
    BY <1>2, <1>3, <2>1 DEF RowFits, Saved
  <2>3. HoldsRow(w)'
    BY <2>1 DEF HoldsRow, Requested
  <2> QED
    BY <1>4, <2>1, <2>2, <2>3 DEF RowInv
<1> QED
  BY <1>8, <1>9, <1>10, <1>11, <1>12, <1>13, <1>14, <1>15, <1>16, <1>17, <1>18, <1>19,
     <1>20, <1>21 DEF WorkerStep

LEMMA RowStep ==
  ASSUME NoCrash, OneWorker, OwnLeaves, SignerInv, BatchInv, RowInv, [Next]_vars
  PROVE  /\ RowInv'
         /\ \A r \in Roots : trees[r].proof # None => trees'[r].proof # None
<1>1. CASE MessageLoop
  <2>1. UNCHANGED worker /\ (BuildTree \/ UNCHANGED <<trees, pendingId>>)
    BY <1>1, LoopWrites
  <2> QED
    BY <2>1, RowBuilt, RowSame
<1>2. CASE Sync
  BY <1>2, SyncWrites, RowSame DEF storageVars
<1>3. ASSUME NEW w \in Workers, WorkerStep(w)
      PROVE  /\ RowInv'
             /\ \A r \in Roots : trees[r].proof # None => trees'[r].proof # None
  BY <1>3, RowWorker
<1>4. CASE Environment
  BY <1>4, EnvironmentWrites, NoCrashHappens, RowSame DEF taskVars, SignerInv
<1>5. CASE UNCHANGED vars
  BY <1>5, RowSame DEF vars, storageVars, taskVars
<1> QED
  BY <1>1, <1>2, <1>3, <1>4, <1>5, NextCases

(* Without a crash nobody evaluates, marks or reports a message that was   *)
(* rejected or abandoned, whatever the workers hold and whichever messages *)
(* share a leaf (process_messages).                                        *)
THEOREM VerdictsAreFinal ==
  ASSUME NoCrash
  PROVE  Spec => VerdictIsFinal
<1>1. Init => BatchInv
  BY BatchStart
<1>2. TypeOK /\ BatchInv /\ [Next]_vars => BatchInv'
  BY BatchStep
<1>3. TypeOK /\ BatchInv /\ [Next]_vars =>
        [\A m \in Messages : status[m] \in {"Rejected", "Abandoned"} =>
           status'[m] = status[m]]_vars
  BY VerdictStep
<1> QED
  BY <1>1, <1>2, <1>3, TypeCorrect, PTL DEF Spec, VerdictIsFinal

(* One worker, no crash and no two messages of one leaf: a tree with a     *)
(* proof has the epoch of its request (EpochMissing cannot occur).         *)
THEOREM ProvedTreesHaveEpoch ==
  ASSUME NoCrash, OneWorker, OwnLeaves
  PROVE  Spec => []ProvedTreeHasEpoch
<1> DEFINE Inv == BatchInv /\ RowInv
<1>1. Init => Inv
  BY BatchStart, RowStart
<1>2. SignerInv /\ Inv /\ [Next]_vars => Inv'
  BY BatchStep, RowStep DEF SignerInv
<1>3. Inv => ProvedTreeHasEpoch
  BY DEF RowInv, RowFits, ProvedTreeHasEpoch
<1> QED
  BY <1>1, <1>2, <1>3, SignerInvariant, PTL DEF Spec

(* ... and no save of the message loop or the worker loses a proof.        *)
THEOREM ProofsAreKept ==
  ASSUME NoCrash, OneWorker, OwnLeaves
  PROVE  Spec => ProofIsKept
<1> DEFINE Inv == BatchInv /\ RowInv
<1>1. Init => Inv
  BY BatchStart, RowStart
<1>2. SignerInv /\ Inv /\ [Next]_vars => Inv'
  BY BatchStep, RowStep DEF SignerInv
<1>3. SignerInv /\ Inv /\ [Next]_vars =>
        [\A r \in Roots : trees[r].proof # None => trees'[r].proof # None]_vars
  BY RowStep
<1> QED
  BY <1>1, <1>2, <1>3, SignerInvariant, PTL DEF Spec, ProofIsKept

=============================================================================
