------------------------------- MODULE Signer -------------------------------
(***************************************************************************)
(* The signer job of one operator (operator/src/signer), the part of its   *)
(* storage it works on (operator/src/storage) and the Symbiotic relay      *)
(* sidecar it calls (operator/src/symbiotic_relay).                        *)
(*                                                                         *)
(* Three kinds of task share the storage and one bounded work queue:       *)
(*   - the message loop admits messages, batches them into Merkle trees    *)
(*     and enqueues each root;                                             *)
(*   - the sync loop re-enqueues every root that has no proof yet;         *)
(*   - the workers take a root, ask the sidecar to sign it, or fetch the   *)
(*     aggregated proof of an earlier request and store it.                *)
(* A storage transaction or a remote call is one step, so every place at   *)
(* which another task may run between two of them is a place at which this *)
(* model interleaves.                                                      *)
(***************************************************************************)
EXTENDS Naturals, Sequences, FiniteSets

CONSTANTS
  Messages,       \* message ids the source chain may emit
  Leaves,         \* provider leaf hashes
  Leaf,           \* the leaf hash of each message
  Supported,      \* the messages whose destination chain is configured
  Workers,        \* signer.sign_worker_count tasks
  MinBatch,       \* signer.min_batch_size
  MaxBatch,       \* provider.max_batch_size(): 1 for Chainlink CCV
  QueueCapacity,  \* 1000 in the code
  SweepModes,     \* values sweep_active may have when the process starts
  MaxEpoch,       \* bound on the relay's epoch
  MaxCrashes      \* bound on the number of crashes

ASSUME LeafAssumption    == Leaf \in [Messages -> Leaves]
ASSUME SweepAssumption   == SweepModes \subseteq BOOLEAN /\ SweepModes # {}
ASSUME SupportAssumption == Supported \subseteq Messages
ASSUME BoundAssumption   == /\ MinBatch \in Nat /\ MaxBatch \in Nat \ {0}
                            /\ QueueCapacity \in Nat \ {0}
                            /\ MaxEpoch \in Nat \ {0} /\ MaxCrashes \in Nat

VARIABLES
  status,       \* MESSAGE_STATUS_TABLE
  canonical,    \* messages a finalized sweep has confirmed
  trees,        \* PROVIDER_ARTIFACTS_TABLE: the payload saved under each root
  pendingId,    \* the same rows' pending_request_id, written separately
  sweepActive,  \* read from the configuration when the process starts
  queue,        \* mpsc channel of roots to work on
  loop,         \* the message loop
  syncTodo,     \* the sync loop: roots it still has to enqueue
  worker,       \* the workers
  relayEpoch,   \* the sidecar's current committed epoch
  requests,     \* signing requests the sidecar has received
  aggregated,   \* requests whose aggregated proof exists
  approved,     \* history: messages that passed the gate and every hook
  crashes       \* history: number of crashes

storageVars == <<status, canonical, trees, pendingId>>
taskVars    == <<queue, loop, syncTodo, worker>>
relayVars   == <<relayEpoch, requests, aggregated>>
histVars    == <<approved, crashes>>
vars == <<storageVars, taskVars, relayVars, histVars, sweepActive>>

-----------------------------------------------------------------------------
(* Data.  A root is identified by the set of leaves it commits to; a       *)
(* request, the proof it yields and the epoch label of a tree by the epoch *)
(* the sidecar answered with; 0 stands for an absent Option.               *)

None   == 0
Epochs == Nat \ {None}
Roots  == (SUBSET Leaves) \ {{}}
RootOf(ids) == {Leaf[m] : m \in ids}

Statuses == {"Absent", "Pending", "Processing", "Signed",
             "Deferred", "Rejected", "Abandoned"}

TreeData == [ids : SUBSET Messages, proof : Nat, epoch : Nat]
NoTree   == [ids |-> {}, proof |-> None, epoch |-> None]
Saved(r) == trees[r].ids # {}

LoopData == [pc : {"idle", "gate", "park", "hooks", "build", "mark"},
             ready : SUBSET Messages, msg : SUBSET Messages,
             accepted : SUBSET Messages, batch : SUBSET Messages,
             todo : SUBSET Messages]
IdleLoop == [pc |-> "idle", ready |-> {}, msg |-> {}, accepted |-> {},
             batch |-> {}, todo |-> {}]

WorkerData == [pc : {"idle", "check", "pending", "epoch", "sign", "store", "reread",
                     "label", "fetch", "fetched", "attach", "report"},
               root : SUBSET Leaves, id : Nat, tree : TreeData,
               todo : SUBSET Messages]
IdleWorker == [pc |-> "idle", root |-> {}, id |-> None, tree |-> NoTree,
               todo |-> {}]

(* save_merkle_tree replaces the whole payload; the pending request id of  *)
(* the row survives exactly when the payload written carries no proof.     *)
SaveTree(r, t) ==
  /\ trees' = [trees EXCEPT ![r] = t]
  /\ pendingId' = [pendingId EXCEPT ![r] = IF t.proof = None THEN @ ELSE None]

SetStatus(m, s) == status' = [status EXCEPT ![m] = s]

Goto(w, pc) == worker' = [worker EXCEPT ![w].pc = pc]

(* A worker's task body returned: it keeps nothing and asks the queue.     *)
Return(w) == worker' = [worker EXCEPT ![w] = IdleWorker]

Init ==
  /\ status = [m \in Messages |-> "Absent"]
  /\ canonical = {}
  /\ trees = [r \in Roots |-> NoTree]
  /\ pendingId = [r \in Roots |-> None]
  /\ sweepActive \in SweepModes
  /\ queue = <<>>
  /\ loop = IdleLoop
  /\ syncTodo = {}
  /\ worker = [w \in Workers |-> IdleWorker]
  /\ relayEpoch = 1
  /\ requests = {}
  /\ aggregated = {}
  /\ approved = {}
  /\ crashes = 0

-----------------------------------------------------------------------------
(* Ingestion, by the webhook or by the sweep: a new message is Pending; a  *)
(* finalized sweep marks the messages it finds canonical.                  *)

Ingest(m) ==
  /\ status[m] = "Absent"
  /\ SetStatus(m, "Pending")
  /\ UNCHANGED <<canonical, trees, pendingId, sweepActive,
                 taskVars, relayVars, histVars>>

MarkCanonical(m) ==
  /\ status[m] # "Absent" /\ m \notin canonical
  /\ canonical' = canonical \cup {m}
  /\ UNCHANGED <<status, trees, pendingId, sweepActive,
                 taskVars, relayVars, histVars>>

-----------------------------------------------------------------------------
(* Message loop.                                                           *)

(* Fault: the ready filter lets Rejected messages through.                 *)
StartTickRejected ==
  /\ loop.pc = "idle"
  /\ \E ready \in (SUBSET {m \in Messages : status[m] \in {"Pending", "Rejected"}}) \ {{}} :
       loop' = [IdleLoop EXCEPT !.pc = "gate", !.ready = ready]
  /\ UNCHANGED <<storageVars, sweepActive, queue, syncTodo, worker,
                 relayVars, histVars>>

(* list_messages_ready_for_acceptance: every Pending message, and the      *)
(* Deferred ones whose hold has expired.                                   *)
StartTick ==
  /\ loop.pc = "idle"
  /\ \E expired \in SUBSET {m \in Messages : status[m] = "Deferred"} :
       LET ready == {m \in Messages : status[m] = "Pending"} \cup expired
       IN  /\ ready # {}
           /\ loop' = [IdleLoop EXCEPT !.pc = "gate", !.ready = ready]
  /\ UNCHANGED <<storageVars, sweepActive, queue, syncTodo, worker,
                 relayVars, histVars>>

(* Fault: the gate takes a message without a mark for confirmed.           *)
CheckCanonicalOpen(m) ==
  /\ loop.pc = "gate" /\ m \in loop.ready
  /\ loop' = [loop EXCEPT !.pc = "hooks", !.ready = @ \ {m}, !.msg = {m}]
  /\ UNCHANGED <<storageVars, sweepActive, queue, syncTodo, worker,
                 relayVars, histVars>>

(* evaluate_finality_gate, the canonical check: one storage read.          *)
CheckCanonical(m) ==
  /\ loop.pc = "gate" /\ m \in loop.ready
  /\ loop' = [loop EXCEPT
                !.pc = IF sweepActive /\ m \notin canonical THEN "park" ELSE "hooks",
                !.ready = @ \ {m}, !.msg = {m}]
  /\ UNCHANGED <<storageVars, sweepActive, queue, syncTodo, worker,
                 relayVars, histVars>>

(* ... and its outcome: abandoned when every sweep cursor is past the      *)
(* message's block (see the ingestion module of the plan), else held.      *)
Park ==
  /\ loop.pc = "park"
  /\ \E m \in loop.msg, verdict \in {"Deferred", "Abandoned"} :
       SetStatus(m, verdict)
  /\ loop' = [loop EXCEPT !.pc = "gate", !.msg = {}]
  /\ UNCHANGED <<canonical, trees, pendingId, sweepActive, queue, syncTodo,
                 worker, relayVars, histVars>>

(* Fault: a deferred message is batched with the accepted ones.            *)
EvaluateKeepsDeferred ==
  /\ loop.pc = "hooks"
  /\ \E m \in loop.msg, verdict \in {"Pending", "Deferred"} :
       /\ SetStatus(m, verdict)
       /\ loop' = [loop EXCEPT !.pc = "gate", !.msg = {}, !.accepted = @ \cup {m}]
       /\ approved' = IF verdict = "Pending" THEN approved \cup {m} ELSE approved
  /\ UNCHANGED <<canonical, trees, pendingId, sweepActive, queue, syncTodo,
                 worker, relayVars, crashes>>

(* The finality read and the acceptance hooks, which end in one write:     *)
(* accepted (cleared to Pending), held, or rejected.                       *)
Evaluate ==
  /\ loop.pc = "hooks"
  /\ \E m \in loop.msg, verdict \in {"Pending", "Deferred", "Rejected"} :
       LET ok == IF verdict = "Pending" THEN {m} ELSE {}
       IN  /\ SetStatus(m, verdict)
           /\ loop' = [loop EXCEPT !.pc = "gate", !.msg = {},
                                   !.accepted = @ \cup ok]
           /\ approved' = approved \cup ok
  /\ UNCHANGED <<canonical, trees, pendingId, sweepActive, queue, syncTodo,
                 worker, relayVars, crashes>>

(* Group the accepted messages; too few of them wait for the next tick.    *)
Group ==
  /\ loop.pc = "gate" /\ loop.ready = {}
  /\ LET routed == loop.accepted \cap Supported
     IN  loop' = IF routed = {} \/ Cardinality(routed) < MinBatch
                 THEN IdleLoop
                 ELSE [loop EXCEPT !.pc = "build", !.accepted = routed]
  /\ UNCHANGED <<storageVars, sweepActive, queue, syncTodo, worker,
                 relayVars, histVars>>

(* build_merkle_tree on the next chunk, and save_merkle_tree.              *)
BuildTree ==
  /\ loop.pc = "build"
  /\ \E batch \in (SUBSET loop.accepted) \ {{}} :
       /\ Cardinality(batch) = IF Cardinality(loop.accepted) < MaxBatch
                               THEN Cardinality(loop.accepted) ELSE MaxBatch
       /\ SaveTree(RootOf(batch), [ids |-> batch, proof |-> None, epoch |-> None])
       /\ loop' = [loop EXCEPT !.pc = "mark", !.accepted = @ \ batch,
                               !.batch = batch, !.todo = batch]
  /\ UNCHANGED <<status, canonical, sweepActive, queue, syncTodo, worker,
                 relayVars, histVars>>

(* Fault: the status is written before the tree is saved.                  *)
MarkProcessingFirst(m) ==
  /\ loop.pc = "build" /\ m \in loop.accepted
  /\ SetStatus(m, "Processing")
  /\ UNCHANGED <<canonical, trees, pendingId, sweepActive, taskVars,
                 relayVars, histVars>>

MarkProcessing(m) ==
  /\ loop.pc = "mark" /\ m \in loop.todo
  /\ SetStatus(m, "Processing")
  /\ loop' = [loop EXCEPT !.todo = @ \ {m}]
  /\ UNCHANGED <<canonical, trees, pendingId, sweepActive, queue, syncTodo,
                 worker, relayVars, histVars>>

(* tx.send(..).await: blocks while the channel is full.                    *)
Enqueue ==
  /\ loop.pc = "mark" /\ loop.todo = {}
  /\ Len(queue) < QueueCapacity
  /\ queue' = Append(queue, RootOf(loop.batch))
  /\ loop' = IF loop.accepted = {} THEN IdleLoop
             ELSE [loop EXCEPT !.pc = "build", !.batch = {}]
  /\ UNCHANGED <<storageVars, sweepActive, syncTodo, worker,
                 relayVars, histVars>>

MessageLoop ==
  \/ StartTick \/ Park \/ Evaluate \/ Group \/ BuildTree \/ Enqueue
  \/ \E m \in Messages : CheckCanonical(m) \/ MarkProcessing(m)

-----------------------------------------------------------------------------
(* Sync loop: list_pending_merkle_roots, then one send per root.           *)

(* Fault: roots with a request in flight are left out.                     *)
SyncStartUnasked ==
  /\ syncTodo = {}
  /\ syncTodo' = {r \in Roots : Saved(r) /\ trees[r].proof = None /\ pendingId[r] = None}
  /\ syncTodo' # {}
  /\ UNCHANGED <<storageVars, sweepActive, queue, loop, worker,
                 relayVars, histVars>>

(* Saved trees without a proof.                                            *)
PendingRoots == {r \in Roots : Saved(r) /\ trees[r].proof = None}

SyncStart ==
  /\ syncTodo = {}
  /\ syncTodo' = PendingRoots
  /\ syncTodo' # {}
  /\ UNCHANGED <<storageVars, sweepActive, queue, loop, worker,
                 relayVars, histVars>>

SyncSend(r) ==
  /\ r \in syncTodo
  /\ Len(queue) < QueueCapacity
  /\ queue' = Append(queue, r)
  /\ syncTodo' = syncTodo \ {r}
  /\ UNCHANGED <<storageVars, sweepActive, loop, worker, relayVars, histVars>>

-----------------------------------------------------------------------------
(* Workers: process_single_root, cut at its remote calls and transactions. *)

Dequeue(w) ==
  /\ worker[w].pc = "idle" /\ queue # <<>>
  /\ worker' = [worker EXCEPT ![w].pc = "check", ![w].root = Head(queue)]
  /\ queue' = Tail(queue)
  /\ UNCHANGED <<storageVars, sweepActive, loop, syncTodo, relayVars, histVars>>

Unconfirmed(r) == sweepActive /\ ~(trees[r].ids \subseteq canonical)

(* A root that holds a non-canonical message is dropped until next sync.   *)
ParkRoot(w) ==
  /\ worker[w].pc = "check" /\ Unconfirmed(worker[w].root)
  /\ Return(w)
  /\ UNCHANGED <<storageVars, sweepActive, queue, loop, syncTodo,
                 relayVars, histVars>>

(* Fault: only the message loop looks at the canonical mark.               *)
ConfirmRootUnchecked(w) ==
  /\ worker[w].pc = "check"
  /\ Goto(w, "pending")
  /\ UNCHANGED <<storageVars, sweepActive, queue, loop, syncTodo,
                 relayVars, histVars>>

(* Every message of the tree is canonical, or the sweep is off.            *)
ConfirmRoot(w) ==
  /\ worker[w].pc = "check" /\ ~Unconfirmed(worker[w].root)
  /\ Goto(w, "pending")
  /\ UNCHANGED <<storageVars, sweepActive, queue, loop, syncTodo,
                 relayVars, histVars>>

(* get_pending_request_id decides between asking and fetching.             *)
ReadPending(w) ==
  LET id == pendingId[worker[w].root]
  IN  /\ worker[w].pc = "pending"
      /\ worker' = [worker EXCEPT ![w].pc = IF id = None THEN "epoch" ELSE "fetch",
                                  ![w].id = id]
      /\ UNCHANGED <<storageVars, sweepActive, queue, loop, syncTodo,
                     relayVars, histVars>>

(* sign_message first asks for the committed epoch ...                      *)
ReadEpoch(w) ==
  /\ worker[w].pc = "epoch"
  /\ worker' = [worker EXCEPT ![w].pc = "sign", ![w].id = relayEpoch]
  /\ UNCHANGED <<storageVars, sweepActive, queue, loop, syncTodo,
                 relayVars, histVars>>

(* ... then requires that epoch of the signature.  The sidecar records the *)
(* request, whose id and epoch are the answer.                             *)
RecordRequest(w) ==
  requests' = requests \cup {[root |-> worker[w].root, epoch |-> worker[w].id]}

Sign(w) ==
  /\ worker[w].pc = "sign"
  /\ RecordRequest(w)
  /\ Goto(w, "store")
  /\ UNCHANGED <<storageVars, sweepActive, queue, loop, syncTodo,
                 relayEpoch, aggregated, histVars>>

(* Fault: an error of the sidecar is taken for an accepted request.        *)
SignFailsStores(w) ==
  /\ worker[w].pc = "sign"
  /\ Goto(w, "store")
  /\ UNCHANGED <<storageVars, sweepActive, queue, loop, syncTodo,
                 relayVars, histVars>>

(* Either call failed; the sidecar may have seen the second one.           *)
SignFails(w) ==
  /\ \/ worker[w].pc \in {"epoch", "sign"} /\ requests' = requests
     \/ worker[w].pc = "sign" /\ RecordRequest(w)
  /\ Return(w)
  /\ UNCHANGED <<storageVars, sweepActive, queue, loop, syncTodo,
                 relayEpoch, aggregated, histVars>>

(* Fault: the epoch of the answer is not kept.                             *)
StoreRequestIdOnly(w) ==
  /\ worker[w].pc = "store"
  /\ pendingId' = [pendingId EXCEPT ![worker[w].root] = worker[w].id]
  /\ Return(w)
  /\ UNCHANGED <<status, canonical, trees, sweepActive, queue, loop, syncTodo,
                 relayVars, histVars>>

StoreRequestId(w) ==
  /\ worker[w].pc = "store"
  /\ pendingId' = [pendingId EXCEPT ![worker[w].root] = worker[w].id]
  /\ Goto(w, "reread")
  /\ UNCHANGED <<status, canonical, trees, sweepActive, queue, loop, syncTodo,
                 relayVars, histVars>>

RereadTree(w) ==
  /\ worker[w].pc = "reread"
  /\ worker' = [worker EXCEPT ![w].pc = "label",
                              ![w].tree = trees[worker[w].root]]
  /\ UNCHANGED <<storageVars, sweepActive, queue, loop, syncTodo,
                 relayVars, histVars>>

(* Fault: the messages are reported when the request is made.              *)
LabelEpochReports(w) ==
  /\ worker[w].pc = "label"
  /\ SaveTree(worker[w].root, [worker[w].tree EXCEPT !.epoch = worker[w].id])
  /\ worker' = [worker EXCEPT ![w].pc = "report", ![w].todo = worker[w].tree.ids]
  /\ UNCHANGED <<status, canonical, sweepActive, queue, loop, syncTodo,
                 relayVars, histVars>>

(* Fault: a new request starts the payload afresh, without its proof.      *)
LabelEpochFresh(w) ==
  /\ worker[w].pc = "label"
  /\ SaveTree(worker[w].root,
              [worker[w].tree EXCEPT !.epoch = worker[w].id, !.proof = None])
  /\ Return(w)
  /\ UNCHANGED <<status, canonical, sweepActive, queue, loop, syncTodo,
                 relayVars, histVars>>

(* Fault: a worker puts its root back on the queue for the proof.          *)
LabelEpochRequeues(w) ==
  /\ worker[w].pc = "label" /\ Len(queue) < QueueCapacity
  /\ SaveTree(worker[w].root, [worker[w].tree EXCEPT !.epoch = worker[w].id])
  /\ queue' = Append(queue, worker[w].root)
  /\ Return(w)
  /\ UNCHANGED <<status, canonical, sweepActive, loop, syncTodo, relayVars, histVars>>

(* The re-read tree is written back with the epoch of the answer.          *)
LabelEpoch(w) ==
  /\ worker[w].pc = "label"
  /\ SaveTree(worker[w].root, [worker[w].tree EXCEPT !.epoch = worker[w].id])
  /\ Return(w)
  /\ UNCHANGED <<status, canonical, sweepActive, queue, loop, syncTodo,
                 relayVars, histVars>>

(* Fault: any answer to the request is taken for a proof.                  *)
FetchProofEarly(w) ==
  /\ worker[w].pc = "fetch"
  /\ Goto(w, "fetched")
  /\ UNCHANGED <<storageVars, sweepActive, queue, loop, syncTodo,
                 relayVars, histVars>>

(* get_aggregation_proof answered with the proof of the request ...        *)
FetchProof(w) ==
  /\ worker[w].pc = "fetch"
  /\ [root |-> worker[w].root, epoch |-> worker[w].id] \in aggregated
  /\ Goto(w, "fetched")
  /\ UNCHANGED <<storageVars, sweepActive, queue, loop, syncTodo,
                 relayVars, histVars>>

(* Fault: NotReady is not told from success.                               *)
FetchFailsReports(w) ==
  /\ worker[w].pc = "fetch"
  /\ worker' = [worker EXCEPT ![w].pc = "report", ![w].todo = trees[worker[w].root].ids]
  /\ UNCHANGED <<storageVars, sweepActive, queue, loop, syncTodo,
                 relayVars, histVars>>

(* ... or NotReady, or an RPC error: the root waits for the next sync.     *)
FetchFails(w) ==
  /\ worker[w].pc = "fetch"
  /\ Return(w)
  /\ UNCHANGED <<storageVars, sweepActive, queue, loop, syncTodo,
                 relayVars, histVars>>

ReadForAttach(w) ==
  /\ worker[w].pc = "fetched"
  /\ worker' = [worker EXCEPT ![w].pc = "attach",
                              ![w].tree = trees[worker[w].root]]
  /\ UNCHANGED <<storageVars, sweepActive, queue, loop, syncTodo,
                 relayVars, histVars>>

AttachProof(w) ==
  /\ worker[w].pc = "attach"
  /\ SaveTree(worker[w].root, [worker[w].tree EXCEPT !.proof = worker[w].id])
  /\ worker' = [worker EXCEPT ![w].pc = "report", ![w].todo = worker[w].tree.ids]
  /\ UNCHANGED <<status, canonical, sweepActive, queue, loop, syncTodo,
                 relayVars, histVars>>

ReportSigned(w, m) ==
  /\ worker[w].pc = "report" /\ m \in worker[w].todo
  /\ SetStatus(m, "Signed")
  /\ worker' = [worker EXCEPT ![w].todo = @ \ {m}]
  /\ UNCHANGED <<canonical, trees, pendingId, sweepActive, queue, loop,
                 syncTodo, relayVars, histVars>>

DeletePending(w) ==
  /\ worker[w].pc = "report" /\ worker[w].todo = {}
  /\ pendingId' = [pendingId EXCEPT ![worker[w].root] = None]
  /\ Return(w)
  /\ UNCHANGED <<status, canonical, trees, sweepActive, queue, loop, syncTodo,
                 relayVars, histVars>>

WorkerStep(w) ==
  \/ Dequeue(w) \/ ParkRoot(w) \/ ConfirmRoot(w) \/ ReadPending(w)
  \/ ReadEpoch(w) \/ Sign(w) \/ SignFails(w) \/ StoreRequestId(w)
  \/ RereadTree(w) \/ LabelEpoch(w)
  \/ FetchProof(w) \/ FetchFails(w) \/ ReadForAttach(w) \/ AttachProof(w)
  \/ (\E m \in Messages : ReportSigned(w, m)) \/ DeletePending(w)

-----------------------------------------------------------------------------
(* The sidecar and the process itself.                                     *)

(* A quorum of operators has signed the request: its proof exists.         *)
Aggregate(q) ==
  /\ q \in requests \ aggregated
  /\ aggregated' = aggregated \cup {q}
  /\ UNCHANGED <<storageVars, sweepActive, taskVars, relayEpoch, requests, histVars>>

AdvanceEpoch ==
  /\ relayEpoch < MaxEpoch
  /\ relayEpoch' = relayEpoch + 1
  /\ UNCHANGED <<storageVars, sweepActive, taskVars, requests, aggregated, histVars>>

(* The process dies and starts again: storage and sidecar survive, every   *)
(* task and the queue do not, and the configuration is read anew.          *)
Crash ==
  /\ crashes < MaxCrashes
  /\ crashes' = crashes + 1
  /\ queue' = <<>>
  /\ loop' = IdleLoop
  /\ syncTodo' = {}
  /\ worker' = [w \in Workers |-> IdleWorker]
  /\ sweepActive' \in SweepModes
  /\ UNCHANGED <<storageVars, relayVars, approved>>

Next ==
  \/ \E m \in Messages : Ingest(m) \/ MarkCanonical(m)
  \/ MessageLoop
  \/ SyncStart \/ \E r \in Roots : SyncSend(r)
  \/ \E w \in Workers : WorkerStep(w)
  \/ \E q \in requests : Aggregate(q)
  \/ AdvanceEpoch
  \/ Crash

Spec == Init /\ [][Next]_vars

-----------------------------------------------------------------------------
(* Fairness.  The tasks are scheduled; tokio's bounded channel serves the  *)
(* blocked senders in order, so a sender that is offered a free slot again *)
(* and again gets one; remote calls fail now and then, not for ever, and   *)
(* the other operators sign what this one signs.                           *)

SignsRoot(w, r)    == worker[w].root = r /\ Sign(w)
FetchesRoot(w, r)  == worker[w].root = r /\ FetchProof(w)
ReadsEpoch(w, r)   == worker[w].root = r /\ ReadEpoch(w)

Fairness ==
  /\ WF_vars(MessageLoop) /\ SF_vars(Enqueue)
  /\ WF_vars(SyncStart)   /\ \A r \in Roots : SF_vars(SyncSend(r))
  /\ \A w \in Workers :
       /\ WF_vars(WorkerStep(w))
       /\ \A r \in Roots : /\ SF_vars(ReadsEpoch(w, r)) /\ SF_vars(SignsRoot(w, r))
                           /\ SF_vars(FetchesRoot(w, r))
  /\ \A r \in Roots, e \in 1..MaxEpoch :
       WF_vars([root |-> r, epoch |-> e] \in requests
               /\ Aggregate([root |-> r, epoch |-> e]))

FairSpec == Spec /\ Fairness

-----------------------------------------------------------------------------
(* Properties.                                                             *)

TypeOK ==
  /\ status \in [Messages -> Statuses]
  /\ canonical \subseteq Messages
  /\ trees \in [Roots -> TreeData]
  /\ pendingId \in [Roots -> Nat]
  /\ sweepActive \in BOOLEAN
  /\ queue \in Seq(Roots) /\ Len(queue) <= QueueCapacity
  /\ loop \in LoopData /\ (loop.pc = "mark" => loop.batch # {})
  /\ syncTodo \subseteq Roots
  /\ worker \in [Workers -> WorkerData]
  /\ \A w \in Workers : worker[w].pc # "idle" => worker[w].root \in Roots
  /\ relayEpoch \in Epochs
  /\ requests \subseteq [root : Roots, epoch : Nat]
  /\ aggregated \subseteq requests
  /\ approved \subseteq Messages
  /\ crashes \in Nat

(* Only what the finality gate and every acceptance hook let through is    *)
(* ever put before the sidecar, whatever was rejected, deferred, restarted *)
(* or batched with it (process_messages, process_single_root).             *)
RequestsAreApproved == \A q \in requests : q.root \subseteq RootOf(approved)

(* A message reported as Signed has an aggregated proof that covers its    *)
(* leaf: no stale request id or stale tree makes a worker report another   *)
(* root's success (process_single_root, set_pending_request_id).           *)
SignedIsAttested ==
  \A m \in Messages : status[m] = "Signed" =>
    \E q \in aggregated : Leaf[m] \in q.root

(* The request id, the epoch and the proof kept with a root all belong to  *)
(* requests made for that same root, through every interleaving of the     *)
(* separate read-modify-write saves of its row.                            *)
GenuineTree(r, t) ==
  /\ t.epoch # None => [root |-> r, epoch |-> t.epoch] \in requests
  /\ t.proof # None => [root |-> r, epoch |-> t.proof] \in aggregated

LabelsAreGenuine ==
  \A r \in Roots :
    /\ GenuineTree(r, trees[r])
    /\ pendingId[r] # None => [root |-> r, epoch |-> pendingId[r]] \in requests

(* A message is only moved to Processing once some saved tree holds it, so *)
(* a crash between the two writes loses nothing: the sync loop finds the   *)
(* root again (process_messages saves the tree first).                     *)
ProcessingIsCovered ==
  \A m \in Messages : status[m] = "Processing" =>
    \E r \in Roots : m \in trees[r].ids

(* While the sweep is active no request is made for a tree that holds a    *)
(* message the sweep has not confirmed, and no such message is reported,   *)
(* although its tree may have been built, queued or asked for by a process *)
(* that ran without the sweep, and rows are saved over while workers hold  *)
(* their roots (evaluate_finality_gate, process_single_root).              *)
UnconfirmedIsNeverSigned ==
  [][sweepActive =>
       /\ \A q \in requests' \ requests : trees[q.root].ids \subseteq canonical
       /\ \A m \in Messages \ canonical :
            status'[m] = "Signed" => status[m] = "Signed"]_vars

(* A message that was rejected or abandoned keeps that status.             *)
VerdictIsFinal ==
  [][\A m \in Messages : status[m] \in {"Rejected", "Abandoned"} =>
       status'[m] = status[m]]_vars

(* A root with a proof has the epoch the submitters need (EpochMissing in  *)
(* relay_submitter and provider otherwise).                                *)
ProvedTreeHasEpoch ==
  \A r \in Roots : trees[r].proof # None => trees[r].epoch # None

(* A proof that was stored is never overwritten by a save of a tree that   *)
(* was read before the proof arrived.                                      *)
ProofIsKept ==
  [][\A r \in Roots : trees[r].proof # None => trees'[r].proof # None]_vars

(* Every saved root that may be signed gets its proof in the end, through  *)
(* failed calls, duplicates in the queue, epoch changes and restarts.      *)
MaySign(r) == Saved(r) /\ ~Unconfirmed(r)
RootsGetProved ==
  \A r \in Roots : MaySign(r) ~> (trees[r].proof # None \/ ~MaySign(r))

(* The message loop is never stuck behind a full queue: with the sync loop *)
(* refilling it, a tick that blocked on send still ends.                   *)
TicksEnd == (loop.pc # "idle") ~> (loop.pc = "idle")

(* Every message of a batch reaches a terminal status, also one whose leaf *)
(* another message shares (the comment in build_merkle_tree).              *)
Terminal == {"Signed", "Rejected", "Abandoned"}
BatchedReachTerminal ==
  \A m \in Messages : (status[m] = "Processing") ~> (status[m] \in Terminal)

-----------------------------------------------------------------------------
(* The inductive invariant behind the safety properties above.             *)

(* Every saved payload is the tree of its own row, made of approved ids.   *)
RootedTree(r, t) == RootOf(t.ids) = r /\ t.ids \subseteq approved

TreesAreRooted == \A r \in Roots : Saved(r) => RootedTree(r, trees[r])

(* What waits for a worker is a saved root, and stays one.                 *)
QueuedIsSaved ==
  /\ \A i \in 1..Len(queue) : Saved(queue[i])
  /\ \A r \in syncTodo : Saved(r)

(* The message loop batches approved messages, and has saved the batch it  *)
(* is marking.                                                             *)
LoopIsSound ==
  /\ loop.accepted \subseteq approved
  /\ loop.pc = "mark" => Saved(RootOf(loop.batch))

(* What a worker holds across its calls: a saved root, the id of a request *)
(* for that root, and a tree that was once the payload of that row.        *)
Requested == {"store", "reread", "label", "fetch", "fetched", "attach", "report"}
Proved    == {"fetched", "attach", "report"}

WorkerIsSound(w) ==
  LET q == [root |-> worker[w].root, epoch |-> worker[w].id]
  IN  /\ worker[w].pc # "idle" => Saved(worker[w].root)
      /\ worker[w].pc = "sign" => worker[w].id # None
      /\ worker[w].pc \in Requested => q \in requests
      /\ worker[w].pc \in Proved => q \in aggregated
      /\ worker[w].pc \in {"label", "attach"} =>
           /\ worker[w].tree.ids # {} /\ RootedTree(worker[w].root, worker[w].tree)
           /\ GenuineTree(worker[w].root, worker[w].tree)
      /\ worker[w].pc = "report" => RootOf(worker[w].todo) \subseteq worker[w].root

SignerInv ==
  /\ TypeOK
  /\ TreesAreRooted
  /\ QueuedIsSaved
  /\ LoopIsSound
  /\ \A w \in Workers : WorkerIsSound(w)
  /\ RequestsAreApproved
  /\ LabelsAreGenuine
  /\ SignedIsAttested

-----------------------------------------------------------------------------
(* What all of this promises: see Attestation.                             *)

Promise == INSTANCE Attestation WITH
  accepted <- approved,
  asked    <- {q.root : q \in requests},
  attested <- {q.root : q \in aggregated},
  reported <- {m \in Messages : status[m] = "Signed"}

PromiseSpec == Promise!Spec

(* And what this operator brings to the bridge it is part of: it vouches   *)
(* only for leaves it accepted, under an epoch of the relay, as Bridge     *)
(* asks of each operator; what is received is the contracts' (sign_message,*)
(* process_messages; see Destination).                                     *)
ThisOperator == {"this"}

Membership == INSTANCE Bridge WITH
  Operators <- ThisOperator, Quorums <- {ThisOperator},
  Messages <- Leaves, Epochs <- 1..MaxEpoch,
  accepted <- [o \in ThisOperator |-> RootOf(approved)],
  vouched  <- [o \in ThisOperator |->
                 {[batch |-> q.root, epoch |-> q.epoch] : q \in requests}],
  received <- [x \in Leaves |-> 0]

MembershipSpec == Membership!Spec

(* Its half of what signer and sweep expect of each other in the tables    *)
(* they share, whatever the sweep does in its own (see SourceSweep).       *)
Tables == INSTANCE Admission

AdmissionSpec == Tables!Spec
=============================================================================
