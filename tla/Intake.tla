------------------------------- MODULE Intake -------------------------------
(***************************************************************************)
(* How a source message gets into one operator and is admitted to signing: *)
(* the authenticated monitor webhook (api/security.rs, api/mod.rs), the    *)
(* ingestion of its logs by the Chainlink CCV provider, the finality the   *)
(* message asks for (finality, ccip_message_v1.rs), and the acceptance     *)
(* hooks (acceptance.rs, signer/mod.rs).  The reconciliation sweep is off: *)
(* SourceSweep models it and its canonical gate.                           *)
(***************************************************************************)
EXTENDS Integers, Sequences, FiniteSets, SequencesExt

CONSTANTS
  Messages,     \* messages the source OnRamp emits
  Broken,       \* what a log that cannot be decoded is about
  Block,        \* source block of each message
  Envelopes,    \* packed MessageV1 it may have, by lengths and header fields
  Webhooks,     \* acceptance webhooks
  HookLists,    \* signer.acceptance_hooks an operator may be configured with
  MaxAttempts,  \* maxAttempts of every webhook
  MinBatch,     \* signer.min_batch
  MaxBlock,     \* bound on the source chain
  MaxDefers,    \* bound on the deferrals and errors counted
  MaxFaults     \* bound on lost passes

Native == "provider"
Nothing == "nothing"

ASSUME IntakeConstants ==
  /\ Block \in [Messages -> 1 .. MaxBlock]
  /\ \A e \in Envelopes : e.finality \in Nat
  /\ Broken \notin Messages /\ Nothing \notin Messages /\ Native \notin Webhooks
  /\ \A list \in HookLists : list \in Seq(Webhooks \cup {Native}) /\ IsInjective(list)
  /\ MaxAttempts \in 1 .. MaxDefers /\ MinBatch \in Nat
  /\ MaxBlock \in Nat /\ MaxDefers \in Nat /\ MaxFaults \in Nat

VARIABLES
  chain,     \* source chain: its latest, safe and finalized block
  wire,      \* the packed MessageV1 of each message
  hooks,     \* the configured acceptance hooks
  gating,    \* finality_gating
  handler,   \* logs the webhook handler still has to ingest
  status,    \* MESSAGE_STATUS_TABLE
  state,     \* MESSAGE_HOOK_STATE_TABLE: deferrals, errors of each webhook
  cache,     \* AlloyFinalityReader.cache, while it is fresh
  pass,      \* process_messages
  acked,     \* history: messages of events answered with 200
  said,      \* history: last answer of each hook about a message
  streak,    \* history: errors of a webhook since a pass recorded its answer
  given,     \* history: times a hook deferred the message
  faults

intakeVars == <<chain, wire, hooks, gating, handler, status, state, cache,
                pass, acked, said, streak, given, faults>>
passVars == <<status, state, pass, cache>>
doneVars == <<acked, said, streak, given>>

---------------------------------------------------------------------------
(* The wire format.                                                        *)

Total(lengths) == FoldFunction(+, 0, lengths)

(* The packed token transfer: a version, the amount, four short fields and *)
(* a long one, with nothing left over.                                     *)
DecodesToken(token) == token.size >= 39 /\ token.size = 39 + Total(token.lengths)

(* decode: 69 bytes of fixed fields, four short and three long prefixes,   *)
(* and exactly the bytes they announce; a token transfer must decode too.  *)
Decodes(e) ==
  /\ e.size >= 79
  /\ e.size = 79 + Total(e.lengths) + e.token.size
  /\ e.token.size = 0 \/ DecodesToken(e.token)

(* Fault: only the flag is looked at, and the low bits are the depth.      *)
ParseFinalityLoosely(raw) ==
  IF raw = 0 THEN [kind |-> "finalized", depth |-> 0]
  ELSE IF raw = 65536 THEN [kind |-> "safe", depth |-> 0]
  ELSE [kind |-> "confirmations", depth |-> raw % 65536]

ParseFinality(raw) ==
  IF raw = 65536 THEN [kind |-> "safe", depth |-> 0]
  ELSE IF raw # 0 /\ raw < 65536 THEN [kind |-> "confirmations", depth |-> raw]
  ELSE [kind |-> "finalized", depth |-> 0]

(* source_finality: what cannot be read must be final.                     *)
SourceFinality(m) ==
  IF Decodes(wire[m]) THEN ParseFinality(wire[m].finality)
                          ELSE [kind |-> "finalized", depth |-> 0]

IsReady(req, block, head) ==
  \/ block <= head.finalized
  \/ req.kind = "safe" /\ block <= head.safe
  \/ req.kind = "confirmations" /\ block + req.depth <= head.latest

---------------------------------------------------------------------------
Genesis == [latest |-> 0, safe |-> 0, finalized |-> 0]

(* MessageHookState: "due" once deferred_until has passed.                 *)
NewState == [defers |-> 0, errors |-> [w \in Webhooks |-> 0], due |-> FALSE]

IdlePass == [pc |-> "idle", ready |-> {}, msg |-> Nothing, head |-> Genesis,
             at |-> 0, state |-> NewState, deferred |-> FALSE, accepted |-> {}]

NoEvent == [todo |-> <<>>, event |-> {}]

IntakeInitFrom(heads) ==
  /\ chain = heads
  /\ wire \in [Messages -> Envelopes]
  /\ hooks \in HookLists /\ gating \in BOOLEAN
  /\ handler = NoEvent
  /\ status = [m \in Messages |-> Nothing]
  /\ state = [m \in Messages |-> NewState]
  /\ cache = {} /\ pass = IdlePass
  /\ acked = {}
  /\ said = [m \in Messages |-> [h \in Webhooks \cup {Native} |-> Nothing]]
  /\ streak = [m \in Messages |-> [w \in Webhooks |-> 0]]
  /\ given = [m \in Messages |-> 0] /\ faults = 0

(* The source chain mines, and its safe and finalized heads follow.        *)
Mine ==
  /\ chain.latest < MaxBlock
  /\ chain' = [chain EXCEPT !.latest = @ + 1]
  /\ UNCHANGED <<wire, hooks, gating, handler, passVars, doneVars, faults>>

Finalize ==
  /\ \/ chain.finalized < chain.safe /\ chain' = [chain EXCEPT !.finalized = @ + 1]
     \/ chain.safe < chain.latest /\ chain' = [chain EXCEPT !.safe = @ + 1]
  /\ UNCHANGED <<wire, hooks, gating, handler, passVars, doneVars, faults>>

---------------------------------------------------------------------------
(* The monitor's webhook.                                                  *)

Mined(m) == Block[m] <= chain.latest

(* security_middleware lets an event through when its signature is right   *)
(* and its timestamp is in the window; one that is late is answered 401.   *)
Authentic(signed, late) == signed /\ ~late

(* POST /webhook/events: one event carries the logs of one transaction.    *)
Receive ==
  /\ handler = NoEvent
  /\ \E logs \in SeqOf({m \in Messages : Mined(m)} \cup {Broken}, 2),
         signed, late \in BOOLEAN :
       /\ Authentic(signed, late) /\ logs # <<>> /\ IsInjective(logs)
       /\ handler' = [todo |-> logs, event |-> ToSet(logs)]
  /\ UNCHANGED <<chain, wire, hooks, gating, passVars, doneVars, faults>>

(* Fault: a log that fails is skipped and the event acknowledged.          *)
HandleLogLeniently ==
  /\ handler.todo # <<>>
  /\ handler' = [handler EXCEPT !.todo = IF Head(@) = Broken THEN <<>> ELSE Tail(@)]
  /\ status' = [m \in Messages |-> IF m = Head(handler.todo) /\ status[m] = Nothing
                                   THEN "Pending" ELSE status[m]]
  /\ UNCHANGED <<chain, wire, hooks, gating, state, cache, pass, doneVars, faults>>

(* handle_webhook_event takes the logs in turn; the first that cannot be   *)
(* ingested ends the request with an error.  A new message is Pending, a   *)
(* duplicate leaves the stored one alone.                                  *)
HandleLog ==
  /\ handler.todo # <<>>
  /\ LET m == Head(handler.todo)
     IN  IF m = Broken
         THEN handler' = NoEvent /\ UNCHANGED status
         ELSE /\ handler' = [handler EXCEPT !.todo = Tail(@)]
              /\ status' = [status EXCEPT ![m] = IF @ = Nothing THEN "Pending" ELSE @]
  /\ UNCHANGED <<chain, wire, hooks, gating, state, cache, pass, doneVars, faults>>

(* handle_webhook answers 200 once every log went through.                 *)
Acknowledge ==
  /\ handler.todo = <<>> /\ handler.event # {}
  /\ acked' = acked \cup (handler.event \cap Messages)
  /\ handler' = NoEvent
  /\ UNCHANGED <<chain, wire, hooks, gating, passVars, said, streak, given, faults>>

---------------------------------------------------------------------------
(* process_messages: one pass over what is ready, message by message.      *)

Configured == IF hooks = <<>> THEN <<Native>> ELSE hooks

(* The hold of a deferred message runs out.                                *)
HoldEnds(m) ==
  /\ status[m] = "Deferred" /\ ~state[m].due
  /\ state' = [state EXCEPT ![m].due = TRUE]
  /\ UNCHANGED <<chain, wire, hooks, gating, handler, status, cache, pass, doneVars, faults>>

(* list_messages_ready_for_acceptance.                                     *)
StartPass ==
  /\ pass.pc = "idle"
  /\ LET ready == {m \in Messages :
                     status[m] = "Pending" \/ (status[m] = "Deferred" /\ state[m].due)}
     IN  /\ ready # {}
         /\ pass' = [pass EXCEPT !.pc = "next", !.ready = ready]
  /\ UNCHANGED <<chain, wire, hooks, gating, handler, status, state, cache, doneVars, faults>>

(* mark_message_deferred_keep_count and mark_message_deferred.             *)
Defer(m, kept) ==
  /\ status' = [status EXCEPT ![m] = "Deferred"]
  /\ state' = [state EXCEPT ![m] = [kept EXCEPT !.due = FALSE]]

(* The pass, done with its message, or with one it takes now.              *)
Turned == [IdlePass EXCEPT !.pc = "next", !.ready = pass.ready, !.accepted = pass.accepted]
Without(m) == [Turned EXCEPT !.ready = @ \ {m}]

(* The pass at the hooks of a message, its stored state in hand.           *)
AtHooks(m) == [Without(m) EXCEPT !.pc = "hooks", !.msg = m, !.at = 1, !.state = state[m]]

(* MessageHookState.attempts, counted to a bound.                          *)
Up(n) == IF n < MaxDefers THEN n + 1 ELSE n

(* Fault: a message that waits for finality uses up its deferrals.         *)
JudgeCounting(m, head) ==
  IF IsReady(SourceFinality(m), Block[m], head)
  THEN pass' = AtHooks(m) /\ UNCHANGED <<status, state>>
  ELSE Defer(m, [state[m] EXCEPT !.defers = Up(@)]) /\ pass' = Without(m)

(* On to the hooks, or held until the source block is final enough.        *)
Judge(m, head) ==
  IF IsReady(SourceFinality(m), Block[m], head)
  THEN pass' = AtHooks(m) /\ UNCHANGED <<status, state>>
  ELSE Defer(m, state[m]) /\ pass' = Without(m)

(* evaluate_finality_gate: no gate, a cached head, or a new one to read.   *)
NextMessage ==
  /\ pass.pc = "next"
  /\ \E m \in pass.ready :
       \/ ~gating /\ pass' = AtHooks(m) /\ UNCHANGED <<status, state>>
       \/ gating /\ \E head \in cache : Judge(m, head)
       \/ /\ gating /\ cache = {}
          /\ pass' = [pass EXCEPT !.pc = "latest", !.ready = @ \ {m}, !.msg = m]
          /\ UNCHANGED <<status, state>>
  /\ UNCHANGED <<chain, wire, hooks, gating, handler, cache, doneVars, faults>>

(* The cached head is older than HEAD_CACHE_TTL.                           *)
Expire ==
  /\ cache # {} /\ cache' = {}
  /\ UNCHANGED <<chain, wire, hooks, gating, handler, status, state, pass, doneVars, faults>>

(* source_head: three calls, the chain moving in between; a chain without  *)
(* the safe tag is read as finalized.                                      *)
ReadLatest ==
  /\ pass.pc = "latest"
  /\ pass' = [pass EXCEPT !.pc = "finalized", !.head.latest = chain.latest]
  /\ UNCHANGED <<chain, wire, hooks, gating, handler, status, state, cache, doneVars, faults>>

ReadFinalized ==
  /\ pass.pc = "finalized"
  /\ pass' = [pass EXCEPT !.pc = "safe", !.head.finalized = chain.finalized]
  /\ UNCHANGED <<chain, wire, hooks, gating, handler, status, state, cache, doneVars, faults>>

ReadSafe ==
  /\ pass.pc = "safe"
  /\ \E safe \in {chain.safe, pass.head.finalized} :
       LET head == [pass.head EXCEPT !.safe = safe]
       IN  cache' = {head} /\ Judge(pass.msg, head)
  /\ UNCHANGED <<chain, wire, hooks, gating, handler, doneVars, faults>>

(* A call that fails defers the message.                                   *)
ReadFails ==
  /\ pass.pc \in {"latest", "finalized"} /\ faults < MaxFaults
  /\ Defer(pass.msg, state[pass.msg])
  /\ pass' = Turned
  /\ faults' = faults + 1
  /\ UNCHANGED <<chain, wire, hooks, gating, handler, cache, doneVars>>

---------------------------------------------------------------------------
(* evaluate_acceptance_hooks: every hook is asked, in order, until one     *)
(* rejects.                                                                *)

(* evaluate_webhook: a decision, or an error: no answer in time, a status  *)
(* that is not 2xx, a body that is not a decision.  The native hook of     *)
(* both providers accepts.                                                 *)
Answers(h) == IF h = Native THEN {"accept"} ELSE {"accept", "reject", "defer", "error"}

(* The errors of a webhook are counted until it answers.                   *)
Counted(h, answer) ==
  IF h = Native THEN pass.state
  ELSE [pass.state EXCEPT !.errors[h] = IF answer = "error" THEN @ + 1 ELSE 0]

(* What the answer decides: too many errors reject, fewer defer.           *)
Decision(h, answer, kept) ==
  IF answer # "error" THEN answer
  ELSE IF kept.errors[h] >= MaxAttempts THEN "reject" ELSE "defer"

(* Fault: an answer that accepts forgets an earlier hook's deferral.       *)
ApplyLastDecision(decision, kept) ==
  LET m == pass.msg
  IN  IF decision = "reject"
      THEN /\ status' = [status EXCEPT ![m] = "Rejected"]
           /\ state' = [state EXCEPT ![m] = [kept EXCEPT !.due = FALSE]]
           /\ pass' = Turned
      ELSE /\ pass' = [pass EXCEPT !.at = @ + 1, !.state = kept,
                                   !.deferred = decision = "defer"]
           /\ UNCHANGED <<status, state>>

(* apply_acceptance_decision.                                              *)
ApplyDecision(decision, kept) ==
  LET m == pass.msg
  IN  IF decision = "reject"
      THEN /\ status' = [status EXCEPT ![m] = "Rejected"]
           /\ state' = [state EXCEPT ![m] = [kept EXCEPT !.due = FALSE]]
           /\ pass' = Turned
      ELSE /\ pass' = [pass EXCEPT !.at = @ + 1, !.state = kept,
                                   !.deferred = @ \/ decision = "defer"]
           /\ UNCHANGED <<status, state>>

Ask ==
  /\ pass.pc = "hooks" /\ pass.at <= Len(Configured)
  /\ LET h == Configured[pass.at]
         m == pass.msg
     IN  \E answer \in Answers(h) :
           LET kept == Counted(h, answer)
           IN  /\ ApplyDecision(Decision(h, answer, kept), kept)
               /\ said' = [said EXCEPT ![m][h] = answer]
               /\ streak' = IF answer = "error" THEN [streak EXCEPT ![m][h] = Up(@)]
                                                 ELSE streak
  /\ UNCHANGED <<chain, wire, hooks, gating, handler, cache, acked, given, faults>>

(* The pass has recorded the answers about its message.                    *)
Recorded ==
  streak' = [streak EXCEPT ![pass.msg] =
               [w \in Webhooks |-> IF said[pass.msg][w] = "error" THEN @[w] ELSE 0]]

(* Fault: the state of a deferred message is not written back.             *)
HoldStateless ==
  /\ pass.pc = "hooks" /\ pass.at > Len(Configured) /\ pass.deferred
  /\ LET m == pass.msg IN Defer(m, [state[m] EXCEPT !.defers = Up(@)])
  /\ given' = [given EXCEPT ![pass.msg] = Up(@)]
  /\ Recorded /\ pass' = Turned
  /\ UNCHANGED <<chain, wire, hooks, gating, handler, cache, acked, said, faults>>

(* A hook deferred: the message is held, with its state.                   *)
Hold ==
  /\ pass.pc = "hooks" /\ pass.at > Len(Configured) /\ pass.deferred
  /\ Defer(pass.msg, [pass.state EXCEPT !.defers = Up(@)])
  /\ given' = [given EXCEPT ![pass.msg] = Up(@)]
  /\ Recorded /\ pass' = Turned
  /\ UNCHANGED <<chain, wire, hooks, gating, handler, cache, acked, said, faults>>

(* All accepted: clear_message_defer makes it Pending again, and this pass *)
(* may batch it.                                                           *)
Accept ==
  /\ pass.pc = "hooks" /\ pass.at > Len(Configured) /\ ~pass.deferred
  /\ Recorded
  /\ LET m == pass.msg
     IN  /\ status' = [status EXCEPT ![m] = "Pending"]
         /\ state' = [state EXCEPT ![m] = [pass.state EXCEPT !.due = FALSE]]
         /\ pass' = [Turned EXCEPT !.accepted = @ \cup {m}]
  /\ UNCHANGED <<chain, wire, hooks, gating, handler, cache, acked, said, given, faults>>

(* What was accepted is batched, or waits for the next pass when it is too *)
(* little (Signer has the steps of a batch).                               *)
Batch ==
  /\ pass.pc = "next" /\ pass.ready = {}
  /\ status' = [m \in Messages |->
       IF m \in pass.accepted /\ Cardinality(pass.accepted) >= MinBatch
       THEN "Processing" ELSE status[m]]
  /\ pass' = IdlePass
  /\ UNCHANGED <<chain, wire, hooks, gating, handler, state, cache, doneVars, faults>>

(* A storage error ends the pass, or a crash everything in memory.         *)
Lose ==
  /\ pass.pc # "idle" /\ faults < MaxFaults
  /\ pass' = IdlePass /\ faults' = faults + 1
  /\ \/ UNCHANGED <<handler, cache>>
     \/ handler' = NoEvent /\ cache' = {}
  /\ UNCHANGED <<chain, wire, hooks, gating, status, state, doneVars>>

PassStep ==
  \/ StartPass \/ NextMessage \/ ReadLatest \/ ReadFinalized
  \/ ReadSafe \/ Ask \/ Hold \/ Accept \/ Batch

IntakeNext ==
  \/ Mine \/ Finalize \/ Receive \/ HandleLog \/ Acknowledge
  \/ (\E m \in Messages : HoldEnds(m))
  \/ PassStep \/ Expire \/ ReadFails \/ Lose

(* The process runs its handlers and passes, holds end, and the chain goes *)
(* on to finalize.                                                         *)
IntakeFairness ==
  /\ WF_intakeVars(HandleLog) /\ WF_intakeVars(Acknowledge) /\ WF_intakeVars(PassStep)
  /\ \A m \in Messages : WF_intakeVars(HoldEnds(m))
  /\ WF_intakeVars(Mine) /\ WF_intakeVars(Finalize) /\ WF_intakeVars(Expire)

---------------------------------------------------------------------------

(* The wire format of the finality module's doc: no flag and a depth, the  *)
(* safe flag alone, and everything else asks for finality.                 *)
DeepEnough(m) ==
  LET raw == wire[m].finality
      flags == raw \div 65536
      depth == raw % 65536
  IN  \/ Block[m] <= chain.finalized
      \/ /\ Decodes(wire[m])
         /\ \/ flags = 1 /\ depth = 0 /\ Block[m] <= chain.safe
            \/ flags = 0 /\ depth > 0 /\ Block[m] + depth <= chain.latest

(* A message is only batched when its source block is as final as it asks, *)
(* whatever the head cache held, and when every hook that is configured    *)
(* accepted it the last time it was asked, whatever passes were lost.      *)
AdmittedIsEntitled ==
  \A m \in Messages : status[m] = "Processing" =>
    /\ gating => DeepEnough(m)
    /\ \A i \in 1 .. Len(Configured) : said[m][Configured[i]] = "accept"

(* A message is only rejected by a hook that said so, or by a webhook that *)
(* failed MaxAttempts times, through deferrals, lost passes and restarts,  *)
(* with no answer between that a pass recorded; waiting for finality uses  *)
(* up no deferral.                                                         *)
RejectedIsDeserved ==
  \A m \in Messages :
    /\ status[m] = "Rejected" =>
         \E h \in ToSet(Configured) :
           \/ said[m][h] = "reject"
           \/ /\ said[m][h] = "error"
              /\ streak[m][h] >= MaxAttempts
    /\ state[m].defers = given[m]

(* An event answered with 200 is dealt with: every message of it ends      *)
(* batched or rejected, however its webhooks fail, unless one of them      *)
(* defers it again and again.                                              *)
AcknowledgedIsDecided ==
  \A m \in Messages :
    \/ [](m \notin acked)
    \/ <>(status[m] \in {"Processing", "Rejected"})
    \/ []<>(\E w \in Webhooks : said[m][w] = "defer")

IntakeSpec == IntakeInitFrom(Genesis) /\ [][IntakeNext]_intakeVars /\ IntakeFairness
=============================================================================
