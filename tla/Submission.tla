----------------------------- MODULE Submission -----------------------------
(***************************************************************************)
(* From a signed tree to a recorded outcome: the relay submitter           *)
(* (operator/src/relay_submitter), its status table in storage, the OZ     *)
(* Relayer it calls, the relayer's webhooks (operator/src/api/webhooks)    *)
(* and the execution events of the Chainlink CCV provider.                 *)
(*                                                                         *)
(* Four kinds of task write the same rows: the submission loop, the        *)
(* polling loop, and the HTTP handlers of both sorts of webhook.  Each of  *)
(* them reads a row in one transaction and saves a whole row in a later    *)
(* one, some with a remote call in between; every such gap is a place      *)
(* where the others run here.                                              *)
(***************************************************************************)
EXTENDS Naturals, Sequences, FiniteSets

CONSTANTS
  Messages,         \* message ids
  Trees,            \* signed trees, one destination chain
  Batch,            \* message_ids of each tree, in order
  Leaf,             \* leaf hash of each message
  Ours,             \* messages whose executor this operator may stand in for
  Handlers,         \* HTTP handlers that may run at the same time
  Monitored,        \* messages whose execution events are reported
  MaxFailures,      \* bound on failed calls of the relayer
  MaxWebhooks,      \* bound on webhooks handled
  MaxCrashes        \* bound on crashes

ASSUME SubmissionConstants ==
  /\ Batch \in [Trees -> Seq(Messages)]
  /\ Ours \subseteq Messages /\ Monitored \subseteq Messages
  /\ MaxFailures \in Nat /\ MaxWebhooks \in Nat /\ MaxCrashes \in Nat

VARIABLES
  proved,     \* trees with a proof
  labelled,   \* proved trees with an epoch
  row,        \* SUBMISSION_STATUS_TABLE
  byKey,      \* IDEMPOTENCY_INDEX_TABLE: <<message, tree>> with a row
  byTx,       \* RELAYER_TX_INDEX_TABLE: <<message, tree>> with a row
  submit,     \* the submission loop
  poll,       \* the polling loop
  handler,    \* the HTTP handlers
  relayer,    \* OZ Relayer: its transaction of each idempotency key
  executed,   \* <<message, outcome>> events of the destination chain
  faults      \* history: numbers of failures, webhooks and crashes

tableVars == <<row, byKey, byTx>>
treeVars  == <<proved, labelled>>
vars == <<treeVars, tableVars, submit, poll, handler, relayer, executed, faults>>

-----------------------------------------------------------------------------
(* Data.  A transaction of the relayer, and the key it was requested with, *)
(* is named by message and tree; an Option is a set of at most one.        *)

Settled  == {"Confirmed", "Failed", "Deduplicated", "Skipped"}
Outcomes == {"Success", "Failure"}

NewRow(s, tx) == [status |-> s, tx |-> tx, exec |-> "None"]

(* What ends a transaction of the relayer.                                 *)
Ends == {"confirmed", "failed"}

IdleSubmit == [pc |-> "idle", trees |-> {}, tree |-> {}, shadows |-> {},
               primaries |-> {}, msg |-> {}]

IdlePoll == [pc |-> "idle", rows |-> {}, write |-> {}]

Fault(kind, bound) ==
  /\ faults[kind] < bound
  /\ faults' = [faults EXCEPT ![kind] = @ + 1]

Init ==
  /\ proved = {} /\ labelled = {}
  /\ row = [m \in Messages |-> NewRow("Absent", {})]
  /\ byKey = {} /\ byTx = {}
  /\ submit = IdleSubmit
  /\ poll = IdlePoll
  /\ handler = [h \in Handlers |-> {}]
  /\ relayer = [k \in Messages \X Trees |-> "none"]
  /\ executed = {}
  /\ faults = [failures |-> 0, webhooks |-> 0, crashes |-> 0]

-----------------------------------------------------------------------------
(* Storage.                                                                *)

(* Fault: the row is replaced as it is.                                    *)
SaveOverwriting(m, r) ==
  /\ row' = [row EXCEPT ![m] = r]
  /\ byTx' = byTx \cup {<<m, t>> : t \in r.tx}

(* save_submission_status replaces the row, except an execution outcome    *)
(* that is already known, and indexes its transaction.                     *)
Save(m, r) ==
  /\ row' = [row EXCEPT ![m] =
               [r EXCEPT !.exec = IF row[m].exec = "None" THEN @ ELSE row[m].exec]]
  /\ byTx' = byTx \cup {<<m, t>> : t \in r.tx}

Ids(t) == {Batch[t][i] : i \in 1..Len(Batch[t])}

(* get_submission_status, get_submission_by_idempotency_key and            *)
(* get_submission_by_relayer_tx_id: the row, found by itself or by index.  *)
RowOf(m)       == {r \in {row[m]} : r.status # "Absent"}
RowOfKey(m, t) == {row[k[1]] : k \in {<<m, t>>} \cap byKey}
RowOfTx(m, t)  == {row[k[1]] : k \in {<<m, t>>} \cap byTx}

(* list_signed_trees_without_submissions                                   *)
NeedsSubmission(t) == \E m \in Ids(t) : row[m].status \notin Settled

(* list_pending_relayer_submissions                                        *)
NeedsPolling(m) == row[m].tx # {} /\ row[m].status \notin Settled

-----------------------------------------------------------------------------
(* The signer (module Signer): a proved tree usually has its epoch.        *)

ProveTree(t) ==
  /\ t \notin proved
  /\ proved' = proved \cup {t}
  /\ labelled' \in {labelled, labelled \cup {t}}
  /\ UNCHANGED <<tableVars, submit, poll, handler, relayer, executed, faults>>

-----------------------------------------------------------------------------
(* The submission loop.                                                    *)

(* Fault: every message of a batch is submitted.                           *)
PrimariesAll(t) == Ids(t)

(* partition_by_leaf: the first message with a leaf stands for the others. *)
Primaries(t) ==
  {Batch[t][i] : i \in {j \in 1..Len(Batch[t]) :
     \A k \in 1..(j - 1) : Leaf[Batch[t][k]] # Leaf[Batch[t][j]]}}

ListTrees ==
  /\ submit.pc = "idle"
  /\ \E t \in proved : NeedsSubmission(t)
  /\ submit' = [submit EXCEPT !.pc = "tree", !.trees = {t \in proved : NeedsSubmission(t)}]
  /\ UNCHANGED <<treeVars, tableVars, poll, handler, relayer, executed, faults>>

NextTree(t) ==
  /\ submit.pc = "tree" /\ t \in submit.trees
  /\ submit' = [submit EXCEPT !.pc = "message", !.trees = @ \ {t}, !.tree = {t},
                              !.primaries = Primaries(t),
                              !.shadows = Ids(t) \ Primaries(t)]
  /\ UNCHANGED <<treeVars, tableVars, poll, handler, relayer, executed, faults>>

EndTree ==
  /\ submit.pc = "message" /\ submit.shadows = {} /\ submit.primaries = {}
  /\ submit' = [submit EXCEPT !.pc = IF submit.trees = {} THEN "idle" ELSE "tree", !.tree = {}]
  /\ UNCHANGED <<treeVars, tableVars, poll, handler, relayer, executed, faults>>

(* record_deduplicated: nothing but a Pending row is replaced.             *)
ReadShadow(m) ==
  /\ submit.pc = "message" /\ m \in submit.shadows
  /\ LET kept == \E r \in RowOf(m) : r.status # "Pending"
     IN  submit' = [submit EXCEPT !.shadows = @ \ {m},
                                  !.pc  = IF kept THEN @ ELSE "shadow",
                                  !.msg = IF kept THEN @ ELSE {m}]
  /\ UNCHANGED <<treeVars, tableVars, poll, handler, relayer, executed, faults>>

WriteShadow(m) ==
  /\ submit.pc = "shadow" /\ m \in submit.msg
  /\ Save(m, NewRow("Deduplicated", {}))
  /\ submit' = [submit EXCEPT !.pc = "message", !.msg = {}]
  /\ UNCHANGED <<treeVars, byKey, poll, handler, relayer, executed, faults>>

(* Fault: a key that was used once is never tried again.                   *)
CheckKeyStrict(m) ==
  /\ submit.pc = "message" /\ submit.shadows = {} /\ m \in submit.primaries
  /\ LET known == \E t \in submit.tree : <<m, t>> \in byKey
     IN  submit' = [submit EXCEPT !.primaries = @ \ {m},
                                  !.pc  = IF known THEN @ ELSE "status",
                                  !.msg = IF known THEN @ ELSE {m}]
  /\ UNCHANGED <<treeVars, tableVars, poll, handler, relayer, executed, faults>>

(* submit_single_message: its idempotency key was used and got somewhere.  *)
CheckKey(m) ==
  /\ submit.pc = "message" /\ submit.shadows = {} /\ m \in submit.primaries
  /\ LET known == \E t \in submit.tree : \E r \in RowOfKey(m, t) :
                    r.tx # {} \/ r.status # "Pending"
     IN  submit' = [submit EXCEPT !.primaries = @ \ {m},
                                  !.pc  = IF known THEN @ ELSE "status",
                                  !.msg = IF known THEN @ ELSE {m}]
  /\ UNCHANGED <<treeVars, tableVars, poll, handler, relayer, executed, faults>>

(* A row that got somewhere under any key, or a tree without epoch, ends   *)
(* the attempt; a message of another executor is left to it.               *)
CheckStatus(m) ==
  /\ submit.pc = "status" /\ m \in submit.msg
  /\ LET stop == \/ \E r \in RowOf(m) : r.status # "Pending"
                 \/ ~(submit.tree \subseteq labelled)
     IN  submit' = IF stop THEN [submit EXCEPT !.pc = "message", !.msg = {}]
                   ELSE [submit EXCEPT !.pc = IF m \in Ours THEN "pending" ELSE "skip"]
  /\ UNCHANGED <<treeVars, tableVars, poll, handler, relayer, executed, faults>>

SaveSkipped(m) ==
  /\ submit.pc = "skip" /\ m \in submit.msg
  /\ Save(m, NewRow("Skipped", {}))
  /\ byKey' = byKey \cup {<<m, t>> : t \in submit.tree}
  /\ submit' = [submit EXCEPT !.pc = "message", !.msg = {}]
  /\ UNCHANGED <<treeVars, poll, handler, relayer, executed, faults>>

(* The row and its key are stored before the call.                         *)
SavePending(m) ==
  /\ submit.pc = "pending" /\ m \in submit.msg
  /\ Save(m, NewRow("Pending", {}))
  /\ byKey' = byKey \cup {<<m, t>> : t \in submit.tree}
  /\ submit' = [submit EXCEPT !.pc = "send"]
  /\ UNCHANGED <<treeVars, poll, handler, relayer, executed, faults>>

(* The relayer answers a known key with the transaction it already has.    *)
Accept(m) ==
  [k \in Messages \X Trees |->
     IF k[1] = m /\ k[2] \in submit.tree /\ relayer[k] = "none" THEN "live" ELSE relayer[k]]

(* send_transaction: posted until a call is answered.                      *)
SendTransaction(m) == relayer' = Accept(m)

Send(m) ==
  /\ submit.pc = "send" /\ m \in submit.msg
  /\ SendTransaction(m)
  /\ submit' = [submit EXCEPT !.pc = "save"]
  /\ UNCHANGED <<treeVars, tableVars, poll, handler, executed, faults>>

(* Fault: a failed call marks the submission Failed.                       *)
SendFailsFinally(m) ==
  /\ submit.pc = "send" /\ m \in submit.msg
  /\ Fault("failures", MaxFailures)
  /\ UNCHANGED relayer \/ SendTransaction(m)
  /\ Save(m, NewRow("Failed", {}))
  /\ submit' = [submit EXCEPT !.pc = "message", !.msg = {}]
  /\ UNCHANGED <<treeVars, byKey, poll, handler, executed>>

(* Every retry failed; the relayer may have accepted the transaction.      *)
SendFails(m) ==
  /\ submit.pc = "send" /\ m \in submit.msg
  /\ Fault("failures", MaxFailures)
  /\ UNCHANGED relayer \/ SendTransaction(m)
  /\ submit' = [submit EXCEPT !.pc = "message", !.msg = {}]
  /\ UNCHANGED <<treeVars, tableVars, poll, handler, executed>>

SaveSubmitted(m) ==
  /\ submit.pc = "save" /\ m \in submit.msg
  /\ Save(m, NewRow("Submitted", submit.tree))
  /\ byKey' = byKey \cup {<<m, t>> : t \in submit.tree}
  /\ submit' = [submit EXCEPT !.pc = "message", !.msg = {}]
  /\ UNCHANGED <<treeVars, poll, handler, relayer, executed, faults>>

SubmitTask ==
  \/ ListTrees \/ EndTree
  \/ \E t \in Trees : NextTree(t)
  \/ \E m \in Messages :
       \/ ReadShadow(m) \/ WriteShadow(m) \/ CheckKey(m) \/ CheckStatus(m)
       \/ SaveSkipped(m) \/ SavePending(m) \/ Send(m) \/ SendFails(m)
       \/ SaveSubmitted(m)

-----------------------------------------------------------------------------
(* The polling loop works on copies of rows, one call for each.            *)

(* Fault: a transaction the relayer has sent counts as mined.              *)
ToldEarly(status, answer) ==
  IF answer = "failed" THEN "Failed" ELSE "Confirmed"

(* update_status_from_response                                             *)
Told(status, answer) ==
  CASE answer = "confirmed" -> "Confirmed"
    [] answer = "failed"    -> "Failed"
    [] OTHER                -> status

GetTransaction(m, t) == relayer[<<m, t>>]

ListPending ==
  /\ poll.pc = "idle"
  /\ \E m \in Messages : NeedsPolling(m)
  /\ poll' = [poll EXCEPT !.pc = "get",
                !.rows = {[msg |-> m, row |-> row[m]] : m \in {n \in Messages : NeedsPolling(n)}}]
  /\ UNCHANGED <<treeVars, tableVars, submit, handler, relayer, executed, faults>>

GetStatus(c) ==
  /\ poll.pc = "get" /\ c \in poll.rows
  /\ \E t \in c.row.tx :
       poll' = [pc |-> "save", rows |-> poll.rows \ {c},
                write |-> {[c EXCEPT !.row.status = Told(@, GetTransaction(c.msg, t))]}]
  /\ UNCHANGED <<treeVars, tableVars, submit, handler, relayer, executed, faults>>

GetFails(c) ==
  /\ poll.pc = "get" /\ c \in poll.rows
  /\ Fault("failures", MaxFailures)
  /\ poll' = [poll EXCEPT !.rows = @ \ {c}]
  /\ UNCHANGED <<treeVars, tableVars, submit, handler, relayer, executed>>

(* The copy is saved whatever the answer was.                              *)
SavePolled(c) ==
  /\ poll.pc = "save" /\ c \in poll.write
  /\ Save(c.msg, c.row)
  /\ poll' = [poll EXCEPT !.pc = "get", !.write = {}]
  /\ UNCHANGED <<treeVars, byKey, submit, handler, relayer, executed, faults>>

EndPoll ==
  /\ poll.pc = "get" /\ poll.rows = {}
  /\ poll' = IdlePoll
  /\ UNCHANGED <<treeVars, tableVars, submit, handler, relayer, executed, faults>>

PollTask ==
  \/ ListPending \/ EndPoll
  \/ \E c \in poll.rows : GetStatus(c) \/ GetFails(c)
  \/ \E c \in poll.write : SavePolled(c)

-----------------------------------------------------------------------------
(* HTTP handlers.  A webhook may come late, repeatedly or never; one that  *)
(* names a transaction without an index entry is dropped.                  *)

Reported(answer) ==
  CASE answer = "none"      -> {}
    [] answer = "live"      -> {"Submitted"}
    [] answer = "confirmed" -> {"Submitted", "Confirmed"}
    [] answer = "failed"    -> {"Submitted", "Failed"}

(* update_status_from_webhook: a status it does not know is left alone.    *)
UpdateStatus(status, told) == IF told \in Settled \cup {"Submitted"} THEN told ELSE status

(* handle_oz_relayer_webhook reads the row, which is saved whatever it was *)
(* told; another event or transaction is answered and dropped.             *)
RelayerWebhook(h, m, t) ==
  /\ handler[h] = {}
  /\ Fault("webhooks", MaxWebhooks)
  /\ \E r \in RowOfTx(m, t), told \in Reported(relayer[<<m, t>>]) \cup {"unknown"} :
       handler' = [handler EXCEPT ![h] =
                     {[msg |-> m, row |-> [r EXCEPT !.status = UpdateStatus(@, told)]]}]
  /\ UNCHANGED <<treeVars, tableVars, submit, poll, relayer, executed>>

(* handle_execution_state_log, also before there is a row.                 *)
ExecutionEvent(h, m, s) ==
  /\ handler[h] = {} /\ <<m, s>> \in executed /\ row[m].exec # s
  /\ Fault("webhooks", MaxWebhooks)
  /\ LET known == IF row[m].status = "Absent" THEN NewRow("Pending", {}) ELSE row[m]
     IN  handler' = [handler EXCEPT ![h] = {[msg |-> m, row |-> [known EXCEPT !.exec = s]]}]
  /\ UNCHANGED <<treeVars, tableVars, submit, poll, relayer, executed>>

SaveHandled(h) ==
  /\ \E c \in handler[h] : Save(c.msg, c.row)
  /\ handler' = [handler EXCEPT ![h] = {}]
  /\ UNCHANGED <<treeVars, byKey, submit, poll, relayer, executed, faults>>

-----------------------------------------------------------------------------
(* The outside: the relayer brings a transaction to an end; the message is *)
(* executed, by whoever's transaction comes first, and again by hand when  *)
(* that failed.                                                            *)

Settle(m, t) ==
  /\ relayer[<<m, t>>] = "live"
  /\ \E s \in Ends : relayer' = [relayer EXCEPT ![<<m, t>>] = s]
  /\ UNCHANGED <<treeVars, tableVars, submit, poll, handler, executed, faults>>

Execute(m, s) ==
  /\ m \in Monitored /\ <<m, "Success">> \notin executed /\ <<m, s>> \notin executed
  /\ executed' = executed \cup {<<m, s>>}
  /\ UNCHANGED <<treeVars, tableVars, submit, poll, handler, relayer, faults>>

Crash ==
  /\ Fault("crashes", MaxCrashes)
  /\ submit' = IdleSubmit /\ poll' = IdlePoll
  /\ handler' = [h \in Handlers |-> {}]
  /\ UNCHANGED <<treeVars, tableVars, relayer, executed>>

Next ==
  \/ \E t \in Trees : ProveTree(t)
  \/ SubmitTask
  \/ PollTask
  \/ \E h \in Handlers :
       \/ \E m \in Messages, t \in Trees : RelayerWebhook(h, m, t)
       \/ \E m \in Messages, s \in Outcomes : ExecutionEvent(h, m, s)
       \/ SaveHandled(h)
  \/ \E m \in Messages, t \in Trees : Settle(m, t)
  \/ \E m \in Messages, s \in Outcomes : Execute(m, s)
  \/ Crash

Spec == Init /\ [][Next]_vars

(* The loops tick, a handler that has begun ends, and the relayer brings   *)
(* every transaction to an end.  No webhook is ever sure to come.          *)
Fairness ==
  /\ WF_vars(SubmitTask) /\ WF_vars(PollTask)
  /\ \A h \in Handlers : WF_vars(SaveHandled(h))
  /\ \A m \in Messages, t \in Trees : WF_vars(Settle(m, t))

FairSpec == Spec /\ Fairness

-----------------------------------------------------------------------------
(* Properties.                                                             *)

(* However often a batch is retried, only one message of those that share  *)
(* a leaf is ever put before the relayer (partition_by_leaf).              *)
OneTransactionPerLeaf ==
  \A t \in Trees : \A m, n \in Ids(t) :
    relayer[<<m, t>>] # "none" /\ relayer[<<n, t>>] # "none" /\ Leaf[m] = Leaf[n] => m = n

(* No stale copy and no late answer makes up an outcome: a row that says   *)
(* Confirmed or Failed has a transaction of its message that ended so.     *)
OutcomeIsTrue ==
  \A m \in Messages :
    /\ row[m].status = "Confirmed" =>
         \E t \in Trees : <<m, t>> \in byTx /\ relayer[<<m, t>>] = "confirmed"
    /\ row[m].status = "Failed" =>
         \E t \in Trees : <<m, t>> \in byTx /\ relayer[<<m, t>>] = "failed"

(* A transaction the relayer accepted without its id being recorded, for a *)
(* lost answer or a crash, leaves a Pending row, so that the next tick     *)
(* asks again under the same key.  (As long as no execution event of the   *)
(* message was handled, see FallbackRecords.)                              *)
IsExecuted(m) == \E s \in Outcomes : <<m, s>> \in executed
UnrecordedIsRetried ==
  \A m \in Messages, t \in Trees :
    relayer[<<m, t>>] # "none" /\ t \notin row[m].tx /\ ~IsExecuted(m) =>
      row[m].status = "Pending"

(* Every message of a proved tree with an epoch ends in a settled row and  *)
(* stays there, through lost, late and repeated webhooks, failed calls and *)
(* crashes, again as long as no execution event interferes.                *)
ProvedIsSettled ==
  \A m \in Messages :
    <>[]((\E t \in labelled : m \in Ids(t)) => row[m].status \in Settled \/ IsExecuted(m))

(* The polling loop makes up for missed webhooks: the outcome of every     *)
(* recorded transaction gets into its row.                                 *)
FallbackRecords ==
  \A m \in Messages, t \in Trees :
    (<<m, t>> \in byTx /\ relayer[<<m, t>>] \in {"confirmed", "failed"})
      ~> (row[m].status \in {"Confirmed", "Failed"})

-----------------------------------------------------------------------------
(* The rows as their readers see them.                                     *)
Rows == INSTANCE SubmissionRows WITH
  Keys <- Messages,
  state <- [m \in Messages |-> row[m].status], exec <- [m \in Messages |-> row[m].exec],
  ended <- {e \in Messages \X Ends : \E t \in Trees : relayer[<<e[1], t>>] = e[2]},
  happened <- executed

(* Whatever the loop, the handlers, the polling and the event handlers     *)
(* save, with late answers, old copies and crashes (save_submission_status *)
(* and its callers), each save is one that SubmissionRows allows: ends and *)
(* outcomes are those that happened, an outcome told is never lost, and    *)
(* what was handed over is not new again.                                  *)
RowsSpec == Rows!Spec
=============================================================================
