------------------------------ MODULE Delivery ------------------------------
(***************************************************************************)
(* The far end of a message's path and what a user sees of it: the         *)
(* transactions that execute it on the destination chain, the operators'   *)
(* submission rows and /verifications endpoint (chainlink_ccv.rs), their   *)
(* debug API (api/mod.rs), and the `msg send`, `msg watch` and `msg e2e`   *)
(* commands (xtask/src/msg.rs), which read all of these one after another. *)
(* Submission has the steps between a signed tree and its row.             *)
(***************************************************************************)
EXTENDS Integers, Sequences, FiniteSets, SequencesExt

CONSTANTS
  Operators,    \* operators, in the order of OPERATOR_PORTS
  Ids,          \* message ids, in key order; they are sent in this order
  Worlds,       \* deployments, with what reaches and designates each operator
  SourceBlock,  \* source block of each message
  Page,         \* messages the debug API lists at most
  Window,       \* MAX_LOG_BLOCK_RANGE
  MaxHeight     \* bound on the destination chain

Unknown == "unknown"
External == "external"
Msgs == ToSet(Ids)
Ops == ToSet(Operators)

ASSUME DeliveryConstants ==
  /\ Ids \in Seq(Msgs) /\ IsInjective(Ids)
  /\ Operators \in Seq(Ops) /\ IsInjective(Operators) /\ External \notin Ops
  /\ Unknown \notin Msgs
  /\ Worlds \subseteq [mode : {"layerzero", "mock", "ccip"},
                      receipts : [Msgs -> {"good", "none", "bad"}],
                      reaches : [Ops -> SUBSET Msgs], designates : [Ops -> SUBSET Msgs]]
  /\ SourceBlock \in [Msgs -> Nat]
  /\ Page \in Nat /\ Window \in Nat /\ MaxHeight \in Nat

VARIABLES
  world,     \* the contracts deployed, the receipts the OnRamp emits with
             \* each message, the messages that reach each operator and the
             \* ones whose executor it is
  nonce,     \* messages the source has emitted
  height,    \* latest block of the destination chain
  mined,     \* transactions of the destination chain, in order
  signed,    \* messages each operator has signed
  row,       \* SUBMISSION_STATUS_TABLE of each operator
  msgCache,     \* msg-cache.json
  cli        \* the running command

deliveryVars == <<world, nonce, height, mined, signed, row, msgCache, cli>>
chainVars == <<height, mined>>
operatorVars == <<signed, row>>

---------------------------------------------------------------------------
NoTx == [by |-> Unknown, msg |-> Unknown]
Own(o, m) == [by |-> o, msg |-> m]

(* A submission row, of which tx is the transaction known to be mined.     *)
NoRow == [state |-> Unknown, tx |-> NoTx, exec |-> Unknown, delivery |-> NoTx]

(* WatchProgress: the submission of the highest rank, and the outcome.     *)
NoProgress == [state |-> Unknown, tx |-> NoTx, exec |-> Unknown, delivery |-> NoTx]

Idle == [pc |-> "idle", goal |-> Unknown, id |-> Unknown, tx |-> Unknown, start |-> 0,
         asked |-> 0, shown |-> {}, progress |-> NoProgress, proof |-> NoTx]

DeliveryInit ==
  /\ world \in Worlds
  /\ nonce = 0 /\ height = 0 /\ mined = <<>>
  /\ signed = [o \in Ops |-> {}]
  /\ row = [o \in Ops |-> [m \in Msgs |-> NoRow]]
  /\ msgCache = Unknown /\ cli = Idle

Sent(m) == \E i \in 1 .. nonce : Ids[i] = m

---------------------------------------------------------------------------
(* The operators and the destination chain.                                *)

(* The operator has stored the message, signed it, and has its proof.      *)
Sign(o, m) ==
  /\ Sent(m) /\ m \in world.reaches[o] \ signed[o]
  /\ signed' = [signed EXCEPT ![o] = @ \cup {m}]
  /\ UNCHANGED <<world, nonce, chainVars, row, msgCache, cli>>

(* A message leads to its signed tree.                                     *)
HasArtifact(o, m) == m \in signed[o]

(* message_executor: the second receipt from the end, if there is one; a   *)
(* LayerZero operator has no executor configured and submits every message.*)
Submits(o, m) ==
  world.mode = "layerzero" \/ (world.receipts[m] # "none" /\ m \in world.designates[o])

(* The submission loop: skip, or hand a transaction to the relayer, when   *)
(* prepare_submission can build one; if its answer is lost the row stays   *)
(* Pending, and the next tick reaches the same transaction.                *)
Submit(o, m) ==
  /\ HasArtifact(o, m) /\ row[o][m].state \in {Unknown, "Pending"}
  /\ \E s \in IF Submits(o, m) THEN {"Pending", "Submitted"} ELSE {"Skipped"} :
       row' = [row EXCEPT ![o][m].state = s, ![o][m].tx = NoTx]
  /\ UNCHANGED <<world, nonce, chainVars, signed, msgCache, cli>>

Landed(tx) == \E i \in DOMAIN mined : mined[i].tx = tx
Succeeded(m) ==
  \E i \in DOMAIN mined : mined[i].tx.msg = m /\ mined[i].outcome \in {"executed", "Success"}

(* What executing a message may come to.  LayerZero's DVN emits a log, the *)
(* mock OffRamp one each time, and CCIP's the receiver's outcome, which a  *)
(* message that failed may still improve, and no more after a success.     *)
Outcomes(m) ==
  {"reverted"} \cup
  CASE world.mode = "layerzero" -> {"verified"}
    [] world.mode = "mock" -> {"executed"}
    [] OTHER -> IF Succeeded(m) THEN {"already"} ELSE {"Success", "Failure"}

(* build_verifier_result: a result needs a signed tree with its proof and  *)
(* the receipts; receipts of another layout are an error.                  *)
Result(o, m) ==
  IF ~HasArtifact(o, m) \/ world.receipts[m] = "none" THEN "missing"
  ELSE IF world.receipts[m] = "bad" THEN "error" ELSE "result"

(* handle_verifications: an error fails the whole request; ids without a   *)
(* result are left out, and an executor goes by the id in each result.     *)
Verifications(o, ids) ==
  IF \E m \in ids : Result(o, m) = "error" THEN {}
  ELSE {m \in ids : Result(o, m) = "result"}

(* The relayer may have a transaction of the operator's for the message.   *)
Requested(o, m) ==
  HasArtifact(o, m) /\ Submits(o, m) /\ row[o][m].state \in {"Pending", "Submitted"}

(* What an executor that asks operators can execute: messages that name it *)
(* and no operator.  A result stays good.                                  *)
Served == UNION {Verifications(o, ids) : o \in Ops, ids \in SUBSET Msgs}
            \ UNION {world.designates[o] : o \in Ops}

Execute(by, m) ==
  /\ IF by = External THEN world.mode # "layerzero" /\ m \in Served
     ELSE Requested(by, m)
  /\ ~Landed(Own(by, m)) /\ height < MaxHeight
  /\ \E outcome \in Outcomes(m) :
       mined' = Append(mined, [tx |-> Own(by, m), outcome |-> outcome,
                               block |-> height + 1])
  /\ height' = height + 1
  /\ UNCHANGED <<world, nonce, operatorVars, msgCache, cli>>

MineEmpty ==
  /\ height < MaxHeight /\ height' = height + 1
  /\ UNCHANGED <<world, nonce, mined, operatorVars, msgCache, cli>>

(* The relayer tells the operator how its transaction ended, by webhook or *)
(* when it is polled; the hash comes with a confirmation.                  *)
Settle(o, m) ==
  /\ row[o][m].state = "Submitted"
  /\ \E i \in DOMAIN mined :
       /\ mined[i].tx = Own(o, m)
       /\ row' = [row EXCEPT ![o][m] =
                    IF mined[i].outcome = "reverted" THEN [@ EXCEPT !.state = "Failed"]
                    ELSE [@ EXCEPT !.state = "Confirmed", !.tx = Own(o, m)]]
  /\ UNCHANGED <<world, nonce, chainVars, signed, msgCache, cli>>

(* A row is taken back: by a late "sent" webhook, by a poll that saves the *)
(* row as it was listed, which has no hash, or by an execution event that  *)
(* does the same with a row from before the submission.  The outcome of    *)
(* the execution stays.  (A watch is not held to what was taken back while *)
(* it asked: shown is only history.)                                       *)
TakenBack(r) ==
  {back \in {[r EXCEPT !.state = "Submitted"], [r EXCEPT !.state = "Submitted", !.tx = NoTx]} :
     r.state \in {"Confirmed", "Failed"}}
  \cup {back \in {[r EXCEPT !.state = "Pending", !.tx = NoTx]} :
          r.exec # Unknown /\ r.state # "Pending"}

TakeBack(o, m) ==
  /\ \E r \in TakenBack(row[o][m]) : row' = [row EXCEPT ![o][m] = r]
  /\ cli' = [cli EXCEPT !.shown = IF world.mode = "mock" /\ m = cli.id THEN @ \ {o} ELSE @]
  /\ UNCHANGED <<world, nonce, chainVars, signed, msgCache>>

(* Fault: the outcome is replaced, the transaction of the first one kept.  *)
ReportLastState(o, i) ==
  /\ world.mode = "ccip" /\ mined[i].outcome \in {"Success", "Failure"}
  /\ LET m == mined[i].tx.msg
     IN  row' = [row EXCEPT ![o][m] =
           [state |-> IF @.state = Unknown THEN "Pending" ELSE @.state, tx |-> @.tx,
            exec |-> mined[i].outcome,
            delivery |-> IF @.exec = Unknown THEN mined[i].tx ELSE @.delivery]]
  /\ UNCHANGED <<world, nonce, chainVars, signed, msgCache, cli>>

(* handle_execution_state_log: the monitor's event of an outcome, in any   *)
(* order; save_submission_status keeps the first, with its transaction.    *)
(* Without a row a Pending one is made for it.                             *)
Report(o, i) ==
  /\ world.mode = "ccip" /\ mined[i].outcome \in {"Success", "Failure"}
  /\ LET m == mined[i].tx.msg
     IN  /\ row[o][m].exec = Unknown
         /\ row' = [row EXCEPT ![o][m] =
              [state |-> IF @.state = Unknown THEN "Pending" ELSE @.state, tx |-> @.tx,
               exec |-> mined[i].outcome, delivery |-> mined[i].tx]]
  /\ UNCHANGED <<world, nonce, chainVars, signed, msgCache, cli>>

---------------------------------------------------------------------------
(* The commands.                                                           *)

Running(pc) == cli.pc = pc

(* preflight_check: e2e wants the operators to answer.                     *)
StartSend(goal) ==
  /\ Running("idle") /\ nonce < Len(Ids)
  /\ cli' = [Idle EXCEPT !.pc = "send", !.goal = goal]
  /\ UNCHANGED <<world, nonce, chainVars, operatorVars, msgCache>>

(* send_layerzero_message, send_via_example_app, send_via_mock_onramp: the *)
(* transaction is mined.                                                   *)
SendMessage ==
  /\ Running("send")
  /\ nonce' = nonce + 1
  /\ cli' = [cli EXCEPT !.pc = "event"]
  /\ UNCHANGED <<world, chainVars, operatorVars, msgCache>>

SaveCache(m) == msgCache' = m

(* source_event_id_with_retry finds the id, and save_cache keeps it; e2e   *)
(* goes on to watch what it sent.                                          *)
ReadEvent ==
  /\ Running("event")
  /\ LET m == Ids[nonce]
     IN  /\ SaveCache(m)
         /\ cli' = IF cli.goal = "send" THEN Idle
                   ELSE [Idle EXCEPT !.pc = "ready", !.id = m, !.tx = m,
                                     !.start = SourceBlock[m]]
  /\ UNCHANGED <<world, nonce, chainVars, operatorVars>>

(* The command fails before the transaction, or after it was mined: the    *)
(* cache still holds the message before.                                   *)
SendFails ==
  /\ Running("send") \/ Running("event")
  /\ cli' = Idle
  /\ UNCHANGED <<world, nonce, chainVars, operatorVars, msgCache>>

Least(a, b) == IF a < b THEN a ELSE b

(* resolve_watch_target: --id and --tx each fall back to the cache; the    *)
(* search starts at the cached block, or at the head.                      *)
StartWatch(id, tx) ==
  /\ Running("idle")
  /\ Unknown \notin {id, tx} \/ msgCache # Unknown
  /\ cli' = [Idle EXCEPT !.pc = "ready",
                !.id = IF id = Unknown THEN msgCache ELSE id,
                !.tx = IF tx = Unknown THEN msgCache ELSE tx,
                !.start = IF msgCache = Unknown THEN height
                          ELSE Least(SourceBlock[msgCache], height)]
  /\ UNCHANGED <<world, nonce, chainVars, operatorVars, msgCache>>

(* wait_for_message_readiness: the monitor has caught up, or not in time.  *)
Ready ==
  /\ Running("ready")
  /\ cli' = [cli EXCEPT !.pc = "ask"]
  /\ UNCHANGED <<world, nonce, chainVars, operatorVars, msgCache>>

NotReady ==
  /\ Running("ready")
  /\ cli' = Idle
  /\ UNCHANGED <<world, nonce, chainVars, operatorVars, msgCache>>

(* The order of the keys of the messages table.                            *)
Precedes(m, n) ==
  \E i, j \in DOMAIN Ids : i < j /\ Ids[i] = m /\ Ids[j] = n

(* list_messages_with_status_filter, by key, of which list_messages shows  *)
(* the first page.                                                         *)
Listed(o) ==
  {m \in signed[o] : Cardinality({n \in signed[o] : Precedes(n, m)}) < Page}

(* The entry a watch takes: the first with its id or its transaction.      *)
Entries(o) ==
  LET found == Listed(o) \cap {cli.id, cli.tx}
  IN  {m \in found : \A n \in found : ~Precedes(n, m)}

Rank(state) ==
  CASE state = "Confirmed" -> 4 [] state = "Submitted" -> 3 [] state = "Failed" -> 2
    [] state = Unknown -> 0 [] OTHER -> 1

(* Fault: each operator's submission replaces the one before.              *)
PreferLast(progress, o, m) ==
  LET r == row[o][m]
  IN  IF r.state = Unknown THEN progress
      ELSE [state |-> r.state,
            tx |-> r.tx,
            exec |-> IF progress.exec = Unknown THEN r.exec ELSE progress.exec,
            delivery |-> IF progress.delivery = NoTx THEN r.delivery ELSE progress.delivery]

(* prefer_submission: the highest rank so far, and the first outcome.      *)
Prefer(progress, o, m) ==
  LET r == row[o][m]
      best == IF Rank(r.state) > Rank(progress.state)
              THEN [progress EXCEPT !.state = r.state, !.tx = r.tx]
              ELSE progress
  IN  IF r.exec = Unknown THEN best
      ELSE [best EXCEPT !.exec = IF @ = Unknown THEN r.exec ELSE @,
                        !.delivery = IF @ = NoTx THEN r.delivery ELSE @]

(* The operator can show how the message ended: its page has a row with    *)
(* the outcome, or with the transaction of a mock OffRamp.                 *)
Shows(o, m) ==
  /\ m \in Listed(o)
  /\ \/ world.mode = "ccip" /\ row[o][m].exec # Unknown
     \/ world.mode = "mock" /\ row[o][m].state = "Confirmed"

(* The operators that could when the round began.                          *)
Showing == IF cli.asked = 0 THEN {o \in Ops : Shows(o, cli.id)} ELSE cli.shown

(* query_progress asks one operator after the other.                       *)
AskOperator ==
  /\ Running("ask") /\ cli.asked < Len(Operators)
  /\ LET o == Operators[cli.asked + 1]
         answers == IF Entries(o) = {} THEN {cli.progress}
                    ELSE {Prefer(cli.progress, o, m) : m \in Entries(o)}
     IN  \E progress \in answers :
           cli' = [cli EXCEPT !.asked = @ + 1, !.shown = Showing, !.progress = progress]
  /\ UNCHANGED <<world, nonce, chainVars, operatorVars, msgCache>>

AskFails ==
  /\ Running("ask") /\ cli.asked < Len(Operators)
  /\ cli' = [cli EXCEPT !.asked = @ + 1, !.shown = Showing \ {Operators[cli.asked + 1]}]
  /\ UNCHANGED <<world, nonce, chainVars, operatorVars, msgCache>>

(* What a watch forgets when it goes on; the next round starts from it.    *)
Going(pc) == [cli EXCEPT !.pc = pc, !.asked = 0, !.shown = {},
                            !.progress = NoProgress]

(* What the operators said is used up when the logs are searched.          *)
Search == [Going("logs") EXCEPT !.shown = cli.shown]

Verdict(pc, tx) == [Going(pc) EXCEPT !.proof = tx, !.start = 0]

(* An outcome some operator has seen is the verdict; without one the       *)
(* destination chain is searched.                                          *)
Conclude ==
  /\ Running("ask") /\ cli.asked = Len(Operators)
  /\ cli' = CASE cli.progress.exec = "Failure" -> Verdict("failed", cli.progress.delivery)
              [] cli.progress.exec = "Success" -> Verdict("verified", cli.progress.delivery)
              [] /\ cli.progress.exec = Unknown /\ cli.progress.tx # NoTx
                 /\ world.mode # "layerzero" -> [cli EXCEPT !.pc = "receipt"]
              [] OTHER -> Search
  /\ UNCHANGED <<world, nonce, chainVars, operatorVars, msgCache>>

(* The log a search takes: LayerZero's any of the DVN, CCV's a             *)
(* MessageExecuted with the id, which only the mock OffRamp emits.         *)
Matches(e) == e.outcome = "verified" \/ (e.outcome = "executed" /\ e.tx.msg = cli.id)

(* ccv_execution_tx_from_receipt.                                          *)
ReadReceipt ==
  /\ Running("receipt")
  /\ cli' = IF \E i \in DOMAIN mined : mined[i].tx = cli.progress.tx /\ Matches(mined[i])
            THEN Verdict("verified", cli.progress.tx)
            ELSE Search
  /\ UNCHANGED <<world, nonce, chainVars, operatorVars, msgCache>>

(* clamp_from_block: no further back than the window, and not ahead of the *)
(* head (the start is a block of the source chain).                        *)
From ==
  LET recent == IF height > Window THEN height - Window ELSE 0
  IN  IF cli.start > height \/ cli.start < recent THEN recent ELSE cli.start

(* latest_layerzero_target_tx, latest_ccv_execution_tx: the last log that  *)
(* matches is the verdict, or there is another round.                      *)
ReadLogs ==
  /\ Running("logs")
  /\ LET found == {i \in DOMAIN mined : mined[i].block >= From /\ Matches(mined[i])}
     IN  \/ found = {} /\ cli' = Going("ask")
         \/ \E last \in found : /\ \A i \in found : i <= last
                                /\ cli' = Verdict("verified", mined[last].tx)
  /\ UNCHANGED <<world, nonce, chainVars, operatorVars, msgCache>>

(* An RPC error of the search ends the watch.                              *)
SearchFails ==
  /\ Running("receipt") \/ Running("logs")
  /\ cli' = Idle
  /\ UNCHANGED <<world, nonce, chainVars, operatorVars, msgCache>>

TimeOut ==
  /\ Running("ask") /\ cli.asked = 0
  /\ cli' = Verdict("timedout", NoTx)
  /\ UNCHANGED <<world, nonce, chainVars, operatorVars, msgCache>>

(* The command prints its verdict and exits.                               *)
Exit ==
  /\ Running("verified") \/ Running("failed") \/ Running("timedout")
  /\ cli' = Idle
  /\ UNCHANGED <<world, nonce, chainVars, operatorVars, msgCache>>

CommandStep ==
  \/ SendMessage \/ ReadEvent \/ Ready \/ AskOperator \/ Conclude
  \/ ReadReceipt \/ ReadLogs \/ Exit

DeliveryNext ==
  \/ \E o \in Ops : \/ \E m \in Msgs : \/ Sign(o, m) \/ Submit(o, m)
                                          \/ Settle(o, m) \/ TakeBack(o, m)
                    \/ \E i \in DOMAIN mined : Report(o, i)
  \/ \E by \in Ops \cup {External}, m \in Msgs : Execute(by, m)
  \/ MineEmpty
  \/ \E goal \in {"send", "e2e"} : StartSend(goal)
  \/ \E id, tx \in {Ids[i] : i \in 1 .. nonce} \cup {Unknown} : StartWatch(id, tx)
  \/ CommandStep
  \/ SendFails \/ NotReady \/ AskFails \/ SearchFails \/ TimeOut

---------------------------------------------------------------------------

(* The verdict of a watch that names one message, over CCIP contracts:     *)
(* "verified" comes with a transaction that delivered that message, and    *)
(* "failed" with one whose receiver reverted, whichever operators answered *)
(* and whatever their rows and the chain did between the questions.        *)
VerdictIsTrue ==
  world.mode # "layerzero" /\ cli.id = cli.tx =>
    /\ cli.pc = "verified" =>
         \E i \in DOMAIN mined : /\ mined[i].tx = cli.proof
                                 /\ cli.proof.msg = cli.id
                                 /\ mined[i].outcome \in {"executed", "Success"}
    /\ cli.pc = "failed" =>
         \E i \in DOMAIN mined : mined[i].tx = cli.proof /\ mined[i].outcome = "Failure"

(* A round of a watch that names one message ends with a verdict if some   *)
(* operator could show how it ended when the round began, answered, and    *)
(* still lists it, with a row that was not taken back: the search of the   *)
(* last blocks, which may have passed, is only for what none knows, or     *)
(* what other messages have crowded out.                                   *)
KnownIsTold ==
  Running("logs") /\ cli.id = cli.tx => \A o \in cli.shown : cli.id \notin Listed(o)

DeliverySpec == DeliveryInit /\ [][DeliveryNext]_deliveryVars

---------------------------------------------------------------------------
(* The rows of all operators, as their readers see them.                   *)
Rows == INSTANCE SubmissionRows WITH
  Keys <- Ops \X Msgs,
  state <- [k \in Ops \X Msgs |->
              IF row[k[1]][k[2]].state = Unknown THEN "Absent" ELSE row[k[1]][k[2]].state],
  exec <- [k \in Ops \X Msgs |->
             IF row[k[1]][k[2]].exec = Unknown THEN "None" ELSE row[k[1]][k[2]].exec],
  ended <- {e \in (Ops \X Msgs) \X {"confirmed", "failed"} :
              \E i \in DOMAIN mined : /\ mined[i].tx = Own(e[1][1], e[1][2])
                                     /\ (e[2] = "failed" <=> mined[i].outcome = "reverted")},
  happened <- {e \in (Ops \X Msgs) \X {"Success", "Failure"} :
                 \E i \in DOMAIN mined : mined[i].tx.msg = e[1][2] /\ mined[i].outcome = e[2]}

(* The rows of all operators, as the commands read them here, change only  *)
(* as SubmissionRows allows, which is what Submission says of the rows of  *)
(* one operator (get_message_details, save_submission_status).             *)
RowsSpec == Rows!Spec
=============================================================================
