---------------------------- MODULE IntakeProofs ----------------------------
(***************************************************************************)
(* Proofs about Intake, for every set of messages, every configuration of  *)
(* hooks, every source chain and any number of lost passes.                *)
(***************************************************************************)
EXTENDS Intake, TLAPS

-----------------------------------------------------------------------------
(* The invariant.                                                          *)

Heads == [latest : Nat, safe : Nat, finalized : Nat]

StateData == [defers : Nat, errors : [Webhooks -> Nat], due : BOOLEAN]

AtMessage == {"latest", "finalized", "safe", "hooks"}

PassData == [pc : {"idle", "next"} \cup AtMessage, ready : SUBSET Messages,
             msg : Messages \cup {Nothing}, head : Heads, at : Nat, state : StateData,
             deferred : BOOLEAN, accepted : SUBSET Messages]

Hooks == Webhooks \cup {Native}

Typed ==
  /\ chain \in Heads
  /\ wire \in [Messages -> Envelopes]
  /\ hooks \in HookLists /\ gating \in BOOLEAN
  /\ status \in [Messages -> {Nothing, "Pending", "Deferred", "Rejected", "Processing"}]
  /\ state \in [Messages -> StateData]
  /\ cache \subseteq Heads /\ pass \in PassData
  /\ said \in [Messages -> [Hooks -> {Nothing, "accept", "reject", "defer", "error"}]]
  /\ streak \in [Messages -> [Webhooks -> 0 .. MaxDefers]]
  /\ given \in [Messages -> Nat]

(* The chain is at least as far as a head that was read of it.             *)
Reaches(head) ==
  /\ head.finalized <= chain.finalized
  /\ head.safe <= chain.safe
  /\ head.latest <= chain.latest

HeadsAreReached ==
  /\ chain.finalized <= chain.safe
  /\ Reaches(pass.head) /\ \A head \in cache : Reaches(head)

(* A pass handles each message once, and only those that are not decided.  *)
IsOpen(m) == status[m] \in {"Pending", "Deferred"}
PassIsSound ==
  /\ \A m \in pass.ready : IsOpen(m)
  /\ pass.ready \cap pass.accepted = {}
  /\ pass.pc = "idle" => pass.accepted = {}
  /\ pass.pc \in AtMessage =>
       /\ pass.msg \in Messages /\ IsOpen(pass.msg)
       /\ pass.msg \notin pass.ready \cup pass.accepted

(* What a message needs to be batched: from when the pass accepts it on.   *)
IsEntitled(m) ==
  /\ gating => DeepEnough(m)
  /\ \A i \in 1 .. Len(Configured) : said[m][Configured[i]] = "accept"
AcceptedAreEntitled ==
  \A m \in Messages : status[m] = "Processing" \/ m \in pass.accepted => IsEntitled(m)

(* Counted errors, of a stored state or of the pass, happened, and only    *)
(* hooks that are asked have any.                                          *)
AreCounted(m, errors) ==
  \A w \in Webhooks :
    /\ streak[m][w] >= errors[w] \/ streak[m][w] = MaxDefers
    /\ w \notin ToSet(Configured) => errors[w] = 0
StatesAreCounted ==
  \A m \in Messages : AreCounted(m, state[m].errors) /\ state[m].defers = given[m]

(* While the hooks of a message are asked: it has passed the finality      *)
(* gate, and what the pass knows is what those before have answered.       *)
HooksAreAsked ==
  pass.pc = "hooks" =>
    /\ gating => DeepEnough(pass.msg)
    /\ pass.at \in 1 .. Len(Configured) + 1
    /\ \A i \in 1 .. pass.at - 1 :
         /\ ~pass.deferred => said[pass.msg][Configured[i]] = "accept"
         /\ Configured[i] \in Webhooks /\ said[pass.msg][Configured[i]] # "error" =>
              pass.state.errors[Configured[i]] = 0
    /\ AreCounted(pass.msg, pass.state.errors)
    /\ pass.state.defers = given[pass.msg]

IsDeserved(m) ==
  \E h \in ToSet(Configured) :
    \/ said[m][h] = "reject"
    \/ /\ said[m][h] = "error"
       /\ streak[m][h] >= MaxAttempts
RejectedAreDeserved == \A m \in Messages : status[m] = "Rejected" => IsDeserved(m)

IntakeInv ==
  /\ Typed
  /\ HeadsAreReached
  /\ PassIsSound
  /\ AcceptedAreEntitled
  /\ StatesAreCounted
  /\ HooksAreAsked
  /\ RejectedAreDeserved

-----------------------------------------------------------------------------
(* The operators of the model.                                             *)

LEMMA ConfiguredHooks ==
  ASSUME Typed
  PROVE  /\ Configured \in Seq(Hooks) /\ Len(Configured) \in Nat
         /\ ToSet(Configured) \subseteq Hooks
         /\ \A i \in 1 .. Len(Configured) : Configured[i] \in Hooks
         /\ \A i, j \in 1 .. Len(Configured) : Configured[i] = Configured[j] => i = j
<1>1. hooks \in Seq(Hooks) /\ IsInjective(hooks)
  BY IntakeConstants DEF Typed, Hooks
<1>2. CASE hooks = <<>>
  <2>1. Configured = <<Native>> /\ Native \in Hooks
    BY <1>2 DEF Configured, Hooks
  <2>2. Configured \in Seq(Hooks) /\ Len(Configured) = 1 /\ Configured[1] = Native
    BY <2>1
  <2> QED
    BY <2>1, <2>2 DEF ToSet
<1>3. CASE hooks # <<>>
  <2>1. Configured = hooks
    BY <1>3 DEF Configured
  <2>2. Configured \in Seq(Hooks) /\ IsInjective(Configured)
    BY <1>1, <2>1
  <2>3. DOMAIN Configured = 1 .. Len(Configured) /\ Len(Configured) \in Nat
    BY <2>2
  <2>4. \A i \in 1 .. Len(Configured) : Configured[i] \in Hooks
    BY <2>2
  <2> HIDE DEF Hooks, Configured
  <2> QED
    BY <2>2, <2>3, <2>4 DEF ToSet, IsInjective
<1> QED
  BY <1>2, <1>3

(* source_finality and is_ready: what a head that was read shows to be     *)
(* deep enough is as deep as the message asks for.                         *)
LEMMA ReadyIsDeepEnough ==
  ASSUME Typed, NEW m \in Messages, NEW head \in Heads, Reaches(head),
         IsReady(SourceFinality(m), Block[m], head)
  PROVE  DeepEnough(m)
<1> DEFINE raw == wire[m].finality
<1>1. raw \in Nat /\ Block[m] \in Nat /\ chain \in Heads
  BY IntakeConstants DEF Typed
<1>2. /\ chain.latest \in Nat /\ chain.safe \in Nat /\ chain.finalized \in Nat
      /\ head.latest \in Nat /\ head.safe \in Nat /\ head.finalized \in Nat
      /\ head.latest <= chain.latest /\ head.safe <= chain.safe
      /\ head.finalized <= chain.finalized
  BY <1>1 DEF Heads, Reaches
<1>3. CASE Block[m] <= head.finalized
  BY <1>1, <1>2, <1>3 DEF DeepEnough
<1>4. CASE SourceFinality(m).kind = "safe" /\ Block[m] <= head.safe
  <2>1. Decodes(wire[m]) /\ raw = 65536
    BY <1>4 DEF SourceFinality, ParseFinality
  <2>2. raw \div 65536 = 1 /\ raw % 65536 = 0 /\ Block[m] <= chain.safe
    BY <1>1, <1>2, <1>4, <2>1
  <2> QED
    BY <2>1, <2>2 DEF DeepEnough
<1>5. CASE SourceFinality(m).kind = "confirmations"
           /\ Block[m] + SourceFinality(m).depth <= head.latest
  <2>1. Decodes(wire[m]) /\ raw # 0 /\ raw < 65536 /\ SourceFinality(m).depth = raw
    BY <1>5 DEF SourceFinality, ParseFinality
  <2>2. raw \div 65536 = 0 /\ raw % 65536 = raw /\ raw > 0
    BY <1>1, <2>1
  <2>3. Block[m] + raw <= chain.latest
    BY <1>1, <1>2, <1>5, <2>1
  <2> QED
    BY <2>1, <2>2, <2>3 DEF DeepEnough
<1> QED
  BY <1>3, <1>4, <1>5 DEF IsReady

LEMMA TurnedFields ==
  ASSUME Typed
  PROVE  /\ Turned \in PassData /\ Turned.pc = "next" /\ Turned.ready = pass.ready
         /\ Turned.accepted = pass.accepted /\ Turned.head = Genesis
         /\ IdlePass \in PassData /\ IdlePass.pc = "idle" /\ IdlePass.ready = {}
         /\ IdlePass.accepted = {} /\ IdlePass.head = Genesis
<1>1. NewState \in StateData /\ Genesis \in Heads
  BY DEF NewState, StateData, Genesis, Heads
<1> HIDE DEF NewState, Genesis, StateData, Heads
<1>2. /\ IdlePass \in PassData /\ IdlePass.pc = "idle" /\ IdlePass.ready = {}
      /\ IdlePass.accepted = {} /\ IdlePass.head = Genesis
  BY <1>1 DEF IdlePass, PassData
<1>3. pass.ready \in SUBSET Messages /\ pass.accepted \in SUBSET Messages
  BY DEF Typed, PassData
<1> QED
  BY <1>2, <1>3 DEF Turned, PassData

LEMMA WithoutFields ==
  ASSUME Typed, NEW m \in Messages
  PROVE  /\ Without(m) \in PassData /\ Without(m).pc = "next"
         /\ Without(m).ready = pass.ready \ {m} /\ Without(m).accepted = pass.accepted
         /\ Without(m).head = Genesis
<1> HIDE DEF Turned
<1> QED
  BY TurnedFields DEF Without, PassData

LEMMA AtHooksFields ==
  ASSUME Typed, NEW m \in Messages
  PROVE  /\ AtHooks(m) \in PassData /\ AtHooks(m).pc = "hooks"
         /\ AtHooks(m).ready = pass.ready \ {m} /\ AtHooks(m).accepted = pass.accepted
         /\ AtHooks(m).head = Genesis /\ AtHooks(m).msg = m /\ AtHooks(m).at = 1
         /\ AtHooks(m).state = state[m]
<1>1. state[m] \in StateData
  BY DEF Typed
<1>2. "hooks" \in AtMessage
  BY DEF AtMessage
<1>3. AtHooks(m) = [Without(m) EXCEPT !.pc = "hooks", !.msg = m, !.at = 1, !.state = state[m]]
  BY DEF AtHooks
<1> DEFINE w == Without(m)
<1>4. w \in PassData /\ w.ready = pass.ready \ {m} /\ w.accepted = pass.accepted
      /\ w.head = Genesis
  BY WithoutFields
<1> HIDE DEF w
<1>5. AtHooks(m) = [w EXCEPT !.pc = "hooks", !.msg = m, !.at = 1, !.state = state[m]]
  BY <1>3 DEF w
<1>6. AtHooks(m) = [pc |-> "hooks", ready |-> w.ready, msg |-> m, head |-> w.head, at |-> 1,
                    state |-> state[m], deferred |-> w.deferred, accepted |-> w.accepted]
  BY <1>4, <1>5 DEF PassData
<1>7. AtHooks(m) \in PassData
  BY <1>1, <1>2, <1>4, <1>6 DEF PassData
<1> QED
  BY <1>4, <1>6, <1>7

LEMMA DeferEffect ==
  ASSUME Typed, NEW m \in Messages, NEW kept \in StateData, Defer(m, kept)
  PROVE  /\ status' \in [Messages -> {Nothing, "Pending", "Deferred", "Rejected", "Processing"}]
         /\ status'[m] = "Deferred"
         /\ state' \in [Messages -> StateData]
         /\ state'[m].defers = kept.defers /\ state'[m].errors = kept.errors
         /\ \A i \in Messages : i # m => status'[i] = status[i] /\ state'[i] = state[i]
<1> DEFINE held == [kept EXCEPT !.due = FALSE]
<1>1. held \in StateData /\ held.defers = kept.defers /\ held.errors = kept.errors
  BY DEF StateData
<1>2. status' = [status EXCEPT ![m] = "Deferred"] /\ state' = [state EXCEPT ![m] = held]
  BY DEF Defer
<1> HIDE DEF held
<1>3. /\ status \in [Messages -> {Nothing, "Pending", "Deferred", "Rejected", "Processing"}]
      /\ state \in [Messages -> StateData]
  BY DEF Typed
<1> QED
  BY <1>1, <1>2, <1>3

LEMMA UpType == \A n \in Nat : Up(n) \in Nat
BY DEF Up

-----------------------------------------------------------------------------
(* The steps that have nothing to do with hooks.                           *)

LEMMA SameWorld ==
  ASSUME UNCHANGED <<chain, wire, hooks, gating>>
  PROVE  /\ Configured' = Configured
         /\ \A m \in Messages : DeepEnough(m)' <=> DeepEnough(m)
         /\ \A head \in Heads : Reaches(head)' <=> Reaches(head)
BY DEF Configured, DeepEnough, Reaches

LEMMA SameAnswers ==
  ASSUME UNCHANGED <<hooks, said, streak>>, NEW m \in Messages
  PROVE  /\ IsDeserved(m) => IsDeserved(m)'
         /\ \A errors \in [Webhooks -> Nat] : AreCounted(m, errors) => AreCounted(m, errors)'
BY DEF Configured, IsDeserved, AreCounted

LEMMA EntitledStays ==
  ASSUME UNCHANGED <<chain, wire, hooks, gating>>, NEW m \in Messages,
         IsEntitled(m), said'[m] = said[m]
  PROVE  IsEntitled(m)'
BY SameWorld DEF IsEntitled

(* The source chain moves, and no message is less deep than it was.        *)
LEMMA ChainKeepsInv == ASSUME IntakeInv, Mine \/ Finalize PROVE IntakeInv'
<1> USE DEF IntakeInv
<1>1. UNCHANGED <<wire, hooks, gating, handler, passVars, doneVars>>
  BY DEF Mine, Finalize
<1>2. UNCHANGED <<wire, hooks, gating, status, state, pass, cache, said, streak, given>>
      /\ Configured' = Configured
  BY <1>1 DEF passVars, doneVars, Configured
<1>3. /\ chain \in Heads /\ chain.latest \in Nat /\ chain.safe \in Nat /\ chain.finalized \in Nat
      /\ chain.finalized <= chain.safe
  BY DEF Typed, Heads, HeadsAreReached
<1>4. /\ chain' \in Heads
      /\ chain'.latest >= chain.latest /\ chain'.safe >= chain.safe
      /\ chain'.finalized >= chain.finalized /\ chain'.finalized <= chain'.safe
  <2>1. CASE Mine
    BY <1>3, <2>1 DEF Mine, Heads
  <2>2. CASE chain.finalized < chain.safe /\ chain' = [chain EXCEPT !.finalized = @ + 1]
    BY <1>3, <2>2 DEF Heads
  <2>3. CASE chain.safe < chain.latest /\ chain' = [chain EXCEPT !.safe = @ + 1]
    BY <1>3, <2>3 DEF Heads
  <2> QED
    BY <2>1, <2>2, <2>3 DEF Finalize
<1>5. chain'.latest \in Nat /\ chain'.safe \in Nat /\ chain'.finalized \in Nat
  BY <1>4 DEF Heads
<1>6. \A head \in Heads : Reaches(head) => Reaches(head)'
  BY <1>3, <1>4, <1>5 DEF Reaches, Heads
<1>7. ASSUME NEW m \in Messages, DeepEnough(m) PROVE DeepEnough(m)'
  <2>1. Block[m] \in Nat /\ wire[m].finality \in Nat /\ wire' = wire
    BY <1>2, IntakeConstants DEF Typed
  <2>2. wire[m].finality % 65536 \in Nat
    BY <2>1
  <2> QED
    BY <1>3, <1>4, <1>5, <1>7, <2>1, <2>2 DEF DeepEnough
<1>8. Typed'
  BY <1>2, <1>4 DEF Typed
<1>9. HeadsAreReached'
  <2>1. pass.head \in Heads /\ cache \subseteq Heads
    BY DEF Typed, PassData
  <2> QED
    BY <1>2, <1>4, <1>6, <2>1 DEF HeadsAreReached, Reaches
<1>10. PassIsSound' /\ StatesAreCounted' /\ RejectedAreDeserved'
  BY <1>2 DEF PassIsSound, IsOpen, StatesAreCounted, AreCounted, RejectedAreDeserved, IsDeserved
<1>11. AcceptedAreEntitled'
  BY <1>2, <1>7 DEF AcceptedAreEntitled, IsEntitled
<1>12. HooksAreAsked'
  <2>1. CASE pass.pc # "hooks"
    BY <1>2, <2>1 DEF HooksAreAsked
  <2>2. CASE pass.pc = "hooks"
    <3>1. pass.msg \in Messages
      BY <2>2 DEF PassIsSound, AtMessage
    <3>2. \A m \in Messages : DeepEnough(m) => DeepEnough(m)'
      BY <1>7
    <3>3. gating => DeepEnough(pass.msg)'
      BY <1>2, <2>2, <3>1, <3>2 DEF HooksAreAsked, DeepEnough
    <3> QED
      BY <1>2, <2>2, <3>3 DEF HooksAreAsked, AreCounted
  <2> QED
    BY <2>1, <2>2
<1> QED
  BY <1>8, <1>9, <1>10, <1>11, <1>12

(* Steps that leave the pass and the answers as they are.                  *)
LEMMA OthersKeepInv ==
  ASSUME IntakeInv,
         HandleLog \/ Receive \/ Acknowledge \/ Expire \/ (\E m \in Messages : HoldEnds(m))
         \/ UNCHANGED intakeVars
  PROVE  IntakeInv'
<1> USE DEF IntakeInv
<1>1. UNCHANGED <<chain, wire, hooks, gating, pass, said, streak, given>>
  BY DEF HandleLog, Receive, Acknowledge, Expire, HoldEnds, intakeVars, passVars, doneVars
<1>2. cache' \subseteq cache
  BY DEF HandleLog, Receive, Acknowledge, Expire, HoldEnds, intakeVars, passVars
<1>3. /\ status' \in [Messages -> {Nothing, "Pending", "Deferred", "Rejected", "Processing"}]
      /\ \A m \in Messages :
           \/ status'[m] = status[m]
           \/ status[m] = Nothing /\ status'[m] = "Pending"
  <2>1. CASE HandleLog
    <3>1. \/ UNCHANGED status
          \/ \E l : status' = [status EXCEPT ![l] = IF @ = Nothing THEN "Pending" ELSE @]
      BY <2>1 DEF HandleLog
    <3> QED
      BY <3>1 DEF Typed
  <2>2. CASE ~HandleLog
    <3>1. UNCHANGED status
      BY <2>2 DEF Receive, Acknowledge, Expire, HoldEnds, intakeVars, passVars
    <3> QED
      BY <3>1 DEF Typed
  <2> QED
    BY <2>1, <2>2
<1>4. /\ state' \in [Messages -> StateData]
      /\ \A m \in Messages : state'[m].defers = state[m].defers /\ state'[m].errors = state[m].errors
  <2>1. state \in [Messages -> StateData]
    BY DEF Typed
  <2>2. CASE \E m \in Messages : HoldEnds(m)
    <3>1. PICK m \in Messages : HoldEnds(m)
      BY <2>2
    <3>2. state' = [state EXCEPT ![m].due = TRUE]
      BY <3>1 DEF HoldEnds
    <3> DEFINE held == [state[m] EXCEPT !.due = TRUE]
    <3>3. held \in StateData /\ held.defers = state[m].defers /\ held.errors = state[m].errors
      BY <2>1 DEF StateData
    <3>4. state' = [state EXCEPT ![m] = held]
      BY <3>2
    <3> HIDE DEF held
    <3> QED
      BY <2>1, <3>3, <3>4
  <2>3. CASE ~\E m \in Messages : HoldEnds(m)
    <3>1. UNCHANGED state
      BY <2>3 DEF HandleLog, Receive, Acknowledge, Expire, intakeVars, passVars
    <3> QED
      BY <2>1, <3>1
  <2> QED
    BY <2>2, <2>3
<1>5. Typed'
  BY <1>1, <1>2, <1>3, <1>4 DEF Typed
<1>6. HeadsAreReached'
  BY <1>1, <1>2 DEF HeadsAreReached, Reaches
<1>7. \A m \in Messages : IsOpen(m) => IsOpen(m)'
  BY <1>3 DEF IsOpen
<1>8. PassIsSound'
  <2>1. \A m \in pass.ready : m \in Messages
    BY DEF Typed, PassData
  <2>2. pass.pc \in AtMessage => IsOpen(pass.msg)'
    BY <1>1, <1>7 DEF PassIsSound, IsOpen
  <2>3. \A m \in pass.ready : IsOpen(m)'
    BY <1>7, <2>1 DEF PassIsSound
  <2> QED
    BY <1>1, <2>2, <2>3 DEF PassIsSound, IsOpen
<1>9. AcceptedAreEntitled'
  BY <1>1, <1>3, EntitledStays DEF AcceptedAreEntitled
<1>10. StatesAreCounted'
  BY <1>1, <1>4 DEF StatesAreCounted, AreCounted, Configured
<1>11. HooksAreAsked'
  BY <1>1, SameWorld DEF HooksAreAsked, AreCounted, DeepEnough
<1>12. RejectedAreDeserved'
  BY <1>1, <1>3, SameAnswers DEF RejectedAreDeserved
<1> QED
  BY <1>5, <1>6, <1>8, <1>9, <1>10, <1>11, <1>12

-----------------------------------------------------------------------------
(* The finality gate.                                                      *)

(* A message is on to its hooks, having passed the gate if there is one.   *)
LEMMA GatePasses ==
  ASSUME IntakeInv, NEW m \in Messages, IsOpen(m), m \notin pass.accepted,
         gating => DeepEnough(m), pass' = AtHooks(m),
         UNCHANGED <<chain, wire, hooks, gating, status, state, said, streak, given>>,
         cache' \subseteq Heads, \A head \in cache' : Reaches(head)
  PROVE  IntakeInv'
<1> USE DEF IntakeInv
<1>1. /\ pass' \in PassData /\ pass'.pc = "hooks"
      /\ pass'.ready = pass.ready \ {m} /\ pass'.accepted = pass.accepted
      /\ pass'.head = Genesis /\ pass'.msg = m /\ pass'.at = 1 /\ pass'.state = state[m]
  BY AtHooksFields
<1>2. Typed'
  BY <1>1 DEF Typed
<1>3. HeadsAreReached'
  <2>1. chain \in Heads
    BY DEF Typed
  <2>2. Reaches(Genesis)
    BY <2>1 DEF Heads, Reaches, Genesis
  <2> QED
    BY <1>1, <2>2 DEF HeadsAreReached, Reaches
<1>4. PassIsSound'
  BY <1>1 DEF PassIsSound, IsOpen
<1>5. AcceptedAreEntitled'
  BY <1>1, EntitledStays DEF AcceptedAreEntitled
<1>6. StatesAreCounted' /\ RejectedAreDeserved'
  BY DEF StatesAreCounted, AreCounted, Configured, RejectedAreDeserved, IsDeserved
<1>7. HooksAreAsked'
  <2>1. gating => DeepEnough(pass.msg)'
    BY <1>1 DEF DeepEnough
  <2>2. AreCounted(m, state[m].errors) /\ state[m].defers = given[m]
    BY DEF StatesAreCounted
  <2>3. AreCounted(pass.msg, pass.state.errors)'
    BY <1>1, <2>2 DEF AreCounted, Configured
  <2>4. Configured' = Configured /\ Len(Configured) \in Nat
    BY ConfiguredHooks DEF Configured
  <2>5. 1 \in 1 .. Len(Configured) + 1 /\ 1 .. 1 - 1 = {}
    BY <2>4
  <2> QED
    BY <1>1, <2>1, <2>2, <2>3, <2>4, <2>5 DEF HooksAreAsked
<1> QED
  BY <1>2, <1>3, <1>4, <1>5, <1>6, <1>7

(* A message is held as it is, and the pass goes on.                       *)
LEMMA GateHolds ==
  ASSUME IntakeInv, NEW m \in Messages, IsOpen(m), m \notin pass.accepted,
         Defer(m, state[m]),
         pass' \in PassData, pass'.pc = "next", pass'.head = Genesis,
         pass'.ready \subseteq pass.ready \ {m}, pass'.accepted = pass.accepted,
         UNCHANGED <<chain, wire, hooks, gating, said, streak, given>>,
         cache' \subseteq Heads, \A head \in cache' : Reaches(head)
  PROVE  IntakeInv'
<1> USE DEF IntakeInv
<1>1. state[m] \in StateData
  BY DEF Typed
<1>2. /\ status' \in [Messages -> {Nothing, "Pending", "Deferred", "Rejected", "Processing"}]
      /\ status'[m] = "Deferred"
      /\ state' \in [Messages -> StateData]
      /\ state'[m].defers = state[m].defers /\ state'[m].errors = state[m].errors
      /\ \A i \in Messages : i # m => status'[i] = status[i] /\ state'[i] = state[i]
  BY <1>1, DeferEffect
<1>3. Typed'
  BY <1>2 DEF Typed
<1>4. HeadsAreReached'
  <2>1. chain \in Heads
    BY DEF Typed
  <2>2. Reaches(Genesis)
    BY <2>1 DEF Heads, Reaches, Genesis
  <2> QED
    BY <2>2 DEF HeadsAreReached, Reaches
<1>5. PassIsSound'
  <2>1. pass.ready \subseteq Messages
    BY DEF Typed, PassData
  <2>2. "next" \notin AtMessage
    BY DEF AtMessage
  <2> QED
    BY <1>2, <2>1, <2>2 DEF PassIsSound, IsOpen
<1>6. AcceptedAreEntitled'
  BY <1>2, EntitledStays DEF AcceptedAreEntitled
<1>7. StatesAreCounted'
  BY <1>2 DEF StatesAreCounted, AreCounted, Configured
<1>8. RejectedAreDeserved'
  BY <1>2, SameAnswers DEF RejectedAreDeserved
<1>9. HooksAreAsked'
  BY DEF HooksAreAsked
<1> QED
  BY <1>3, <1>4, <1>5, <1>6, <1>7, <1>8, <1>9

LEMMA JudgeKeepsInv ==
  ASSUME IntakeInv, NEW m \in Messages, IsOpen(m), m \notin pass.accepted,
         NEW head \in Heads, Reaches(head), Judge(m, head),
         UNCHANGED <<chain, wire, hooks, gating, said, streak, given>>,
         cache' \subseteq Heads, \A h \in cache' : Reaches(h)
  PROVE  IntakeInv'
<1>1. CASE IsReady(SourceFinality(m), Block[m], head)
  <2>1. DeepEnough(m)
    BY <1>1, ReadyIsDeepEnough DEF IntakeInv
  <2>2. pass' = AtHooks(m) /\ UNCHANGED <<status, state>>
    BY <1>1 DEF Judge
  <2> QED
    BY <2>1, <2>2, GatePasses
<1>2. CASE ~IsReady(SourceFinality(m), Block[m], head)
  <2>1. Defer(m, state[m]) /\ pass' = Without(m)
    BY <1>2 DEF Judge
  <2>2. /\ Without(m) \in PassData /\ Without(m).pc = "next"
        /\ Without(m).ready = pass.ready \ {m} /\ Without(m).accepted = pass.accepted
        /\ Without(m).head = Genesis
    BY WithoutFields DEF IntakeInv
  <2> QED
    BY <2>1, <2>2, GateHolds
<1> QED
  BY <1>1, <1>2

(* Steps of the pass that change neither rows nor answers.                 *)
LEMMA PassMovesKeepsInv ==
  ASSUME IntakeInv,
         UNCHANGED <<chain, wire, hooks, gating, status, state, said, streak, given>>,
         cache' \subseteq cache, pass' \in PassData, pass'.pc # "hooks", Reaches(pass'.head),
         \A m \in pass'.ready : IsOpen(m), pass'.ready \cap pass'.accepted = {},
         pass'.accepted \subseteq pass.accepted, pass'.pc = "idle" => pass'.accepted = {},
         pass'.pc \in AtMessage =>
           /\ pass'.msg \in Messages /\ IsOpen(pass'.msg)
           /\ pass'.msg \notin pass'.ready \cup pass'.accepted
  PROVE  IntakeInv'
<1> USE DEF IntakeInv
<1>1. Typed'
  BY DEF Typed
<1>2. HeadsAreReached'
  BY DEF HeadsAreReached, Reaches
<1>3. PassIsSound'
  BY DEF PassIsSound, IsOpen
<1>4. AcceptedAreEntitled'
  BY EntitledStays DEF AcceptedAreEntitled
<1>5. StatesAreCounted' /\ RejectedAreDeserved'
  BY DEF StatesAreCounted, AreCounted, Configured, RejectedAreDeserved, IsDeserved
<1>6. HooksAreAsked'
  BY DEF HooksAreAsked
<1> QED
  BY <1>1, <1>2, <1>3, <1>4, <1>5, <1>6

LEMMA StartKeepsInv == ASSUME IntakeInv, StartPass \/ Lose PROVE IntakeInv'
<1> USE DEF IntakeInv
<1>1. /\ UNCHANGED <<chain, wire, hooks, gating, status, state, said, streak, given>>
      /\ cache' \subseteq cache
  BY DEF StartPass, Lose, doneVars
<1>2. pass \in PassData
  BY DEF Typed
<1>3. CASE StartPass
  <2> DEFINE ready == {m \in Messages :
                         status[m] = "Pending" \/ (status[m] = "Deferred" /\ state[m].due)}
  <2>1. pass' = [pass EXCEPT !.pc = "next", !.ready = ready]
    BY <1>3 DEF StartPass
  <2>2. ready \subseteq Messages /\ \A m \in ready : IsOpen(m)
    BY DEF IsOpen
  <2> HIDE DEF ready
  <2>3. /\ pass' \in PassData /\ pass'.pc = "next" /\ pass'.head = pass.head
        /\ pass'.ready = ready /\ pass'.accepted = pass.accepted
    BY <1>2, <2>1, <2>2 DEF PassData
  <2>4. pass.pc = "idle"
    BY <1>3 DEF StartPass
  <2> QED
    BY <1>1, <2>2, <2>3, <2>4, PassMovesKeepsInv DEF PassIsSound, HeadsAreReached, AtMessage
<1>4. CASE Lose
  <2>1. pass' = IdlePass
    BY <1>4 DEF Lose
  <2>2. chain \in Heads
    BY DEF Typed
  <2>3. Reaches(Genesis)
    BY <2>2 DEF Heads, Reaches, Genesis
  <2>4. "idle" \notin AtMessage
    BY DEF AtMessage
  <2> QED
    BY <1>1, <2>1, <2>3, <2>4, TurnedFields, PassMovesKeepsInv
<1> QED
  BY <1>3, <1>4

(* evaluate_finality_gate: no gate, a cached head, or three calls whose    *)
(* answers the chain has reached by the time the last is in.               *)
LEMMA GateKeepsInv ==
  ASSUME IntakeInv, NextMessage \/ ReadLatest \/ ReadFinalized \/ ReadSafe \/ ReadFails
  PROVE  IntakeInv'
<1> USE DEF IntakeInv
<1>1. pass \in PassData /\ pass.head \in Heads /\ chain \in Heads /\ cache \subseteq Heads
  BY DEF Typed, PassData
<1>2. /\ chain.latest \in Nat /\ chain.safe \in Nat /\ chain.finalized \in Nat
      /\ pass.head.latest \in Nat /\ pass.head.safe \in Nat /\ pass.head.finalized \in Nat
      /\ chain.finalized <= chain.safe /\ Reaches(pass.head)
      /\ \A head \in cache : Reaches(head)
  BY <1>1 DEF Heads, HeadsAreReached
<1>3. UNCHANGED <<chain, wire, hooks, gating, said, streak, given>>
  BY DEF NextMessage, ReadLatest, ReadFinalized, ReadSafe, ReadFails, doneVars
<1>4. CASE NextMessage
  <2>1. PICK m \in pass.ready :
          \/ ~gating /\ pass' = AtHooks(m) /\ UNCHANGED <<status, state>>
          \/ gating /\ \E head \in cache : Judge(m, head)
          \/ /\ gating /\ cache = {}
             /\ pass' = [pass EXCEPT !.pc = "latest", !.ready = @ \ {m}, !.msg = m]
             /\ UNCHANGED <<status, state>>
    BY <1>4 DEF NextMessage
  <2>2. m \in Messages /\ IsOpen(m) /\ m \notin pass.accepted /\ cache' = cache
    BY <1>1, <1>4, <2>1 DEF PassData, PassIsSound, NextMessage
  <2>3. CASE ~gating /\ pass' = AtHooks(m) /\ UNCHANGED <<status, state>>
    BY <1>1, <1>2, <1>3, <2>2, <2>3, GatePasses
  <2>4. CASE gating /\ \E head \in cache : Judge(m, head)
    <3>1. PICK head \in cache : Judge(m, head)
      BY <2>4
    <3>2. head \in Heads /\ Reaches(head)
      BY <1>1, <1>2
    <3> QED
      BY <1>1, <1>2, <1>3, <2>2, <3>1, <3>2, JudgeKeepsInv
  <2>5. CASE /\ pass' = [pass EXCEPT !.pc = "latest", !.ready = @ \ {m}, !.msg = m]
             /\ UNCHANGED <<status, state>>
    <3>1. /\ pass' \in PassData /\ pass'.pc = "latest" /\ pass'.head = pass.head
          /\ pass'.ready = pass.ready \ {m} /\ pass'.accepted = pass.accepted /\ pass'.msg = m
      BY <1>1, <2>2, <2>5 DEF PassData, AtMessage
    <3> QED
      BY <1>2, <1>3, <2>2, <2>5, <3>1, PassMovesKeepsInv DEF PassIsSound
  <2> QED
    BY <2>1, <2>3, <2>4, <2>5
<1>5. CASE ReadLatest \/ ReadFinalized
  <2>1. /\ pass.pc \in AtMessage /\ pass'.pc \in {"finalized", "safe"}
        /\ UNCHANGED <<status, state, cache>>
    BY <1>1, <1>5 DEF ReadLatest, ReadFinalized, PassData, AtMessage
  <2> DEFINE first  == [pass.head EXCEPT !.latest = chain.latest]
             second == [pass.head EXCEPT !.finalized = chain.finalized]
  <2>2. first \in Heads /\ second \in Heads /\ Reaches(first) /\ Reaches(second)
    BY <1>1, <1>2 DEF Heads, Reaches
  <2>3. \/ pass' = [pass EXCEPT !.pc = "finalized", !.head = first]
        \/ pass' = [pass EXCEPT !.pc = "safe", !.head = second]
    BY <1>1, <1>5 DEF ReadLatest, ReadFinalized, PassData
  <2> HIDE DEF first, second
  <2>4. /\ pass' \in PassData /\ (pass'.head = first \/ pass'.head = second)
        /\ pass'.ready = pass.ready /\ pass'.accepted = pass.accepted /\ pass'.msg = pass.msg
    BY <1>1, <2>2, <2>3 DEF PassData, AtMessage
  <2> QED
    BY <1>3, <2>1, <2>2, <2>4, PassMovesKeepsInv DEF PassIsSound
<1>6. CASE ReadSafe
  <2>1. PICK safe \in {chain.safe, pass.head.finalized} :
          /\ cache' = {[pass.head EXCEPT !.safe = safe]}
          /\ Judge(pass.msg, [pass.head EXCEPT !.safe = safe])
    BY <1>6 DEF ReadSafe
  <2> DEFINE head == [pass.head EXCEPT !.safe = safe]
  <2>2. safe \in Nat /\ safe <= chain.safe
    BY <1>2, <2>1 DEF Reaches
  <2>3. head \in Heads /\ Reaches(head)
    BY <1>1, <1>2, <2>2 DEF Heads, Reaches
  <2>4. cache' = {head} /\ Judge(pass.msg, head)
    BY <2>1
  <2> HIDE DEF head
  <2>5. pass.msg \in Messages /\ IsOpen(pass.msg) /\ pass.msg \notin pass.accepted
    BY <1>6 DEF ReadSafe, PassIsSound, AtMessage
  <2> QED
    BY <1>3, <2>3, <2>4, <2>5, JudgeKeepsInv
<1>7. CASE ReadFails
  <2>1. /\ Defer(pass.msg, state[pass.msg]) /\ pass' = Turned /\ cache' = cache
        /\ pass.pc \in AtMessage
    BY <1>7 DEF ReadFails, AtMessage
  <2>2. /\ pass.msg \in Messages /\ IsOpen(pass.msg) /\ pass.msg \notin pass.accepted
        /\ pass.ready \subseteq pass.ready \ {pass.msg}
    BY <2>1 DEF PassIsSound
  <2> QED
    BY <1>1, <1>2, <1>3, <2>1, <2>2, TurnedFields, GateHolds
<1> QED
  BY <1>4, <1>5, <1>6, <1>7

-----------------------------------------------------------------------------
(* The acceptance hooks.                                                   *)

(* What the pass counts once a hook has answered.                          *)
LEMMA CountedEffect ==
  ASSUME Typed, NEW h \in Hooks, NEW answer \in Answers(h)
  PROVE  /\ Counted(h, answer) \in StateData
         /\ Counted(h, answer).defers = pass.state.defers
         /\ \A w \in Webhooks :
              Counted(h, answer).errors[w] =
                IF w # h THEN pass.state.errors[w]
                ELSE IF answer = "error" THEN pass.state.errors[w] + 1 ELSE 0
<1>1. pass.state \in StateData /\ Native \notin Webhooks
  BY IntakeConstants DEF Typed, PassData
<1>2. CASE h = Native
  BY <1>1, <1>2 DEF Counted
<1>3. CASE h # Native
  <2> DEFINE n == IF answer = "error" THEN pass.state.errors[h] + 1 ELSE 0
             errors == [pass.state.errors EXCEPT ![h] = n]
  <2>1. h \in Webhooks /\ pass.state.errors \in [Webhooks -> Nat]
    BY <1>1, <1>3 DEF Hooks, StateData
  <2>2. n \in Nat
    BY <2>1
  <2>3. Counted(h, answer) = [pass.state EXCEPT !.errors[h] = n]
    BY <1>3 DEF Counted
  <2> HIDE DEF n
  <2>4. errors \in [Webhooks -> Nat]
        /\ \A w \in Webhooks : errors[w] = IF w # h THEN pass.state.errors[w] ELSE n
    BY <2>1, <2>2
  <2>5. Counted(h, answer) = [pass.state EXCEPT !.errors = errors]
    BY <2>3
  <2> HIDE DEF errors
  <2>6. Counted(h, answer) \in StateData /\ Counted(h, answer).errors = errors
        /\ Counted(h, answer).defers = pass.state.defers
    BY <1>1, <2>4, <2>5 DEF StateData
  <2> QED
    BY <2>4, <2>6 DEF n
<1> QED
  BY <1>2, <1>3

(* A hook is asked: its answer is the only one that changes.               *)
LEMMA AskEffect ==
  ASSUME IntakeInv, Ask
  PROVE  \E h \in Hooks, answer \in {"accept", "reject", "defer", "error"} :
           /\ pass.at \in 1 .. Len(Configured) /\ h = Configured[pass.at]
           /\ pass.pc = "hooks" /\ pass.msg \in Messages
           /\ answer \in Answers(h) /\ (answer = "error" => h \in Webhooks)
           /\ ApplyDecision(Decision(h, answer, Counted(h, answer)), Counted(h, answer))
           /\ said' \in [Messages -> [Hooks -> {Nothing, "accept", "reject", "defer", "error"}]]
           /\ said'[pass.msg][h] = answer
           /\ \A i \in Messages : i # pass.msg => said'[i] = said[i] /\ streak'[i] = streak[i]
           /\ \A g \in Hooks : g # h => said'[pass.msg][g] = said[pass.msg][g]
           /\ streak' \in [Messages -> [Webhooks -> 0 .. MaxDefers]]
           /\ \A w \in Webhooks :
                streak'[pass.msg][w] =
                  IF w = h /\ answer = "error" THEN Up(streak[pass.msg][w])
                                               ELSE streak[pass.msg][w]
<1> USE DEF IntakeInv
<1> DEFINE h == Configured[pass.at]
           m == pass.msg
<1>1. PICK answer \in Answers(h) :
        /\ ApplyDecision(Decision(h, answer, Counted(h, answer)), Counted(h, answer))
        /\ said' = [said EXCEPT ![m][h] = answer]
        /\ streak' = IF answer = "error" THEN [streak EXCEPT ![m][h] = Up(@)] ELSE streak
  BY DEF Ask
<1>2. pass.pc = "hooks" /\ m \in Messages /\ pass.at \in 1 .. Len(Configured)
  <2>1. pass.pc = "hooks" /\ pass.at <= Len(Configured)
    BY DEF Ask
  <2>2. pass.at \in 1 .. Len(Configured) + 1 /\ Len(Configured) \in Nat
    BY <2>1, ConfiguredHooks DEF HooksAreAsked
  <2> QED
    BY <2>1, <2>2 DEF PassIsSound, AtMessage
<1>3. h \in Hooks
  BY <1>2, ConfiguredHooks
<1>4. /\ answer \in {"accept", "reject", "defer", "error"}
      /\ answer = "error" => h \in Webhooks
  BY <1>1, <1>3 DEF Answers, Hooks
<1> HIDE DEF h, m
<1>5. /\ said \in [Messages -> [Hooks -> {Nothing, "accept", "reject", "defer", "error"}]]
      /\ streak \in [Messages -> [Webhooks -> 0 .. MaxDefers]]
  BY DEF Typed
<1>6. /\ said' \in [Messages -> [Hooks -> {Nothing, "accept", "reject", "defer", "error"}]]
      /\ said'[m][h] = answer
      /\ \A i \in Messages : i # m => said'[i] = said[i]
      /\ \A g \in Hooks : g # h => said'[m][g] = said[m][g]
  BY <1>1, <1>2, <1>3, <1>4, <1>5
<1>7. \A n \in 0 .. MaxDefers : Up(n) \in 0 .. MaxDefers
  BY IntakeConstants DEF Up
<1>8. /\ streak' \in [Messages -> [Webhooks -> 0 .. MaxDefers]]
      /\ \A i \in Messages : i # m => streak'[i] = streak[i]
      /\ \A w \in Webhooks :
           streak'[m][w] = IF w = h /\ answer = "error" THEN Up(streak[m][w]) ELSE streak[m][w]
  <2>1. CASE answer = "error"
    <3>1. streak' = [streak EXCEPT ![m][h] = Up(streak[m][h])]
      BY <1>1, <2>1
    <3>2. Up(streak[m][h]) \in 0 .. MaxDefers
      BY <1>2, <1>4, <1>5, <1>7, <2>1
    <3> QED
      BY <1>2, <1>4, <1>5, <2>1, <3>1, <3>2
  <2>2. CASE answer # "error"
    BY <1>1, <1>5, <2>2
  <2> QED
    BY <2>1, <2>2
<1> QED
  BY <1>1, <1>2, <1>3, <1>4, <1>6, <1>8 DEF h, m

LEMMA AskKeepsInv == ASSUME IntakeInv, Ask PROVE IntakeInv'
<1> USE DEF IntakeInv
<1>1. PICK h \in Hooks, answer \in {"accept", "reject", "defer", "error"} :
        /\ pass.at \in 1 .. Len(Configured) /\ h = Configured[pass.at]
        /\ pass.pc = "hooks" /\ pass.msg \in Messages
        /\ answer \in Answers(h) /\ (answer = "error" => h \in Webhooks)
        /\ ApplyDecision(Decision(h, answer, Counted(h, answer)), Counted(h, answer))
        /\ said' \in [Messages -> [Hooks -> {Nothing, "accept", "reject", "defer", "error"}]]
        /\ said'[pass.msg][h] = answer
        /\ \A i \in Messages : i # pass.msg => said'[i] = said[i] /\ streak'[i] = streak[i]
        /\ \A g \in Hooks : g # h => said'[pass.msg][g] = said[pass.msg][g]
        /\ streak' \in [Messages -> [Webhooks -> 0 .. MaxDefers]]
        /\ \A w \in Webhooks :
             streak'[pass.msg][w] =
               IF w = h /\ answer = "error" THEN Up(streak[pass.msg][w])
                                            ELSE streak[pass.msg][w]
  BY AskEffect
<1>2. UNCHANGED <<chain, wire, hooks, gating, cache, given>>
  BY DEF Ask
<1>0. PICK m \in Messages : m = pass.msg
  BY <1>1
<1> DEFINE kept == Counted(h, answer)
           decision == Decision(h, answer, kept)
<1>3. /\ m \in Messages /\ IsOpen(m) /\ m \notin pass.ready \cup pass.accepted
      /\ h \in ToSet(Configured)
  <2>1. DOMAIN Configured = 1 .. Len(Configured)
    BY ConfiguredHooks
  <2> QED
    BY <1>0, <1>1, <2>1 DEF PassIsSound, AtMessage, ToSet
<1>4. /\ kept \in StateData /\ kept.defers = given[m]
      /\ \A w \in Webhooks :
           kept.errors[w] = IF w # h THEN pass.state.errors[w]
                            ELSE IF answer = "error" THEN pass.state.errors[w] + 1 ELSE 0
  BY <1>0, <1>1, CountedEffect DEF HooksAreAsked
<1>5. /\ AreCounted(m, pass.state.errors)
      /\ streak[m] \in [Webhooks -> 0 .. MaxDefers] /\ MaxDefers \in Nat
      /\ pass.state.errors \in [Webhooks -> Nat]
      /\ MaxAttempts \in 1 .. MaxDefers
  BY <1>0, <1>1, IntakeConstants DEF HooksAreAsked, Typed, PassData, StateData
<1>6. Configured' = Configured
  BY <1>2 DEF Configured
<1> HIDE DEF kept
<1>7. \A w \in Webhooks : streak'[m][w] >= streak[m][w]
  BY <1>0, <1>1, <1>5 DEF Up
<1>8. \A w \in Webhooks :
        /\ streak'[m][w] >= kept.errors[w] \/ streak'[m][w] = MaxDefers
        /\ w \notin ToSet(Configured) => kept.errors[w] = 0
  <2> SUFFICES ASSUME NEW w \in Webhooks
               PROVE  /\ streak'[m][w] >= kept.errors[w] \/ streak'[m][w] = MaxDefers
                      /\ w \notin ToSet(Configured) => kept.errors[w] = 0
    OBVIOUS
  <2>1. /\ streak[m][w] \in 0 .. MaxDefers /\ pass.state.errors[w] \in Nat
        /\ streak[m][w] >= pass.state.errors[w] \/ streak[m][w] = MaxDefers
        /\ w \notin ToSet(Configured) => pass.state.errors[w] = 0
    BY <1>5 DEF AreCounted
  <2>2. CASE w # h
    BY <1>0, <1>1, <1>4, <2>1, <2>2
  <2>3. CASE w = h /\ answer # "error"
    BY <1>0, <1>1, <1>3, <1>4, <2>1, <2>3
  <2>4. CASE w = h /\ answer = "error"
    <3>1. streak'[m][w] = Up(streak[m][w]) /\ kept.errors[w] = pass.state.errors[w] + 1
      BY <1>0, <1>1, <1>4, <2>4
    <3> QED
      BY <1>3, <1>5, <2>1, <2>4, <3>1 DEF Up
  <2> QED
    BY <2>2, <2>3, <2>4
<1>9. \A i \in Messages : \A e \in [Webhooks -> Nat] : AreCounted(i, e) => AreCounted(i, e)'
  <2> SUFFICES ASSUME NEW i \in Messages, NEW e \in [Webhooks -> Nat], AreCounted(i, e)
               PROVE  AreCounted(i, e)'
    OBVIOUS
  <2>1. \A w \in Webhooks :
          /\ streak'[i][w] \in 0 .. MaxDefers /\ streak[i][w] \in 0 .. MaxDefers
          /\ streak'[i][w] >= streak[i][w]
    <3>1. CASE i = m
      BY <1>1, <1>5, <1>7, <3>1
    <3>2. CASE i # m
      <4>1. streak'[i] = streak[i] /\ streak[i] \in [Webhooks -> 0 .. MaxDefers]
        BY <1>0, <1>1, <3>2 DEF Typed
      <4> QED
        BY <1>5, <4>1
    <3> QED
      BY <3>1, <3>2
  <2>2. \A w \in Webhooks :
          /\ streak'[i][w] >= e[w] \/ streak'[i][w] = MaxDefers
          /\ w \notin ToSet(Configured) => e[w] = 0
    <3> SUFFICES ASSUME NEW w \in Webhooks
                 PROVE  /\ streak'[i][w] >= e[w] \/ streak'[i][w] = MaxDefers
                        /\ w \notin ToSet(Configured) => e[w] = 0
      OBVIOUS
    <3>1. /\ streak'[i][w] \in 0 .. MaxDefers /\ streak[i][w] \in 0 .. MaxDefers
          /\ streak'[i][w] >= streak[i][w] /\ e[w] \in Nat
      BY <2>1
    <3> QED
      BY <1>5, <3>1 DEF AreCounted
  <2> QED
    BY <1>6, <2>2 DEF AreCounted
<1>10. \A i \in Messages \ {m} : IsDeserved(i) => IsDeserved(i)'
  BY <1>0, <1>1, <1>6 DEF IsDeserved
<1>11. \A i \in Messages \ {m} : IsEntitled(i) => IsEntitled(i)'
  BY <1>0, <1>1, <1>2, EntitledStays
<1>12. CASE decision = "reject"
  <2> DEFINE stored == [kept EXCEPT !.due = FALSE]
  <2>1. /\ status' = [status EXCEPT ![m] = "Rejected"]
        /\ state' = [state EXCEPT ![m] = stored]
        /\ pass' = Turned
    BY <1>0, <1>1, <1>12 DEF ApplyDecision, kept
  <2>2. stored \in StateData /\ stored.defers = kept.defers /\ stored.errors = kept.errors
    BY <1>4 DEF StateData
  <2> HIDE DEF stored
  <2>3. /\ status' \in [Messages -> {Nothing, "Pending", "Deferred", "Rejected", "Processing"}]
        /\ status'[m] = "Rejected" /\ \A i \in Messages : i # m => status'[i] = status[i]
        /\ state' \in [Messages -> StateData]
        /\ state'[m] = stored /\ \A i \in Messages : i # m => state'[i] = state[i]
    BY <1>3, <2>1, <2>2 DEF Typed
  <2>4. /\ pass' \in PassData /\ pass'.pc = "next" /\ pass'.ready = pass.ready
        /\ pass'.accepted = pass.accepted /\ pass'.head = Genesis
    BY <2>1, TurnedFields
  <2>5. Typed'
    BY <1>1, <1>2, <2>3, <2>4 DEF Typed
  <2>6. HeadsAreReached'
    <3>1. chain \in Heads
      BY DEF Typed
    <3>2. Reaches(Genesis)
      BY <3>1 DEF Heads, Reaches, Genesis
    <3> QED
      BY <1>2, <2>4, <3>2 DEF HeadsAreReached, Reaches
  <2>7. PassIsSound'
    <3>1. pass.ready \subseteq Messages
      BY DEF Typed, PassData
    <3> QED
      BY <1>3, <2>3, <2>4, <3>1 DEF PassIsSound, IsOpen, AtMessage
  <2>8. AcceptedAreEntitled'
    BY <1>3, <1>11, <2>3, <2>4 DEF AcceptedAreEntitled
  <2>9. StatesAreCounted'
    <3>1. \A i \in Messages : i # m => AreCounted(i, state[i].errors)'
      <4>1. \A i \in Messages : AreCounted(i, state[i].errors) /\ state[i].errors \in [Webhooks -> Nat]
        BY DEF StatesAreCounted, Typed, StateData
      <4> QED
        BY <1>9, <2>3, <4>1 DEF AreCounted
    <3>2. AreCounted(m, state[m].errors)'
      BY <1>6, <1>8, <2>2, <2>3 DEF AreCounted
    <3> QED
      BY <1>2, <1>4, <2>2, <2>3, <3>1, <3>2 DEF StatesAreCounted
  <2>10. HooksAreAsked'
    BY <2>4 DEF HooksAreAsked
  <2>11. IsDeserved(m)'
    <3>1. CASE answer # "error"
      <4>1. answer = "reject"
        BY <1>12, <3>1 DEF Decision
      <4> QED
        BY <1>0, <1>1, <1>3, <1>6, <4>1 DEF IsDeserved
    <3>2. CASE answer = "error"
      <4>1. kept.errors[h] >= MaxAttempts /\ h \in Webhooks
        BY <1>1, <1>12, <3>2 DEF Decision
      <4>2. streak'[m][h] >= MaxAttempts
        <5>1. streak'[m][h] \in 0 .. MaxDefers /\ kept.errors[h] \in Nat
          BY <1>1, <1>3, <1>4, <4>1 DEF StateData
        <5> QED
          BY <1>5, <1>8, <4>1, <5>1
      <4> QED
        BY <1>0, <1>1, <1>3, <1>6, <3>2, <4>2 DEF IsDeserved
    <3> QED
      BY <3>1, <3>2
  <2>12. RejectedAreDeserved'
    BY <1>10, <2>3, <2>11 DEF RejectedAreDeserved
  <2> QED
    BY <2>5, <2>6, <2>7, <2>8, <2>9, <2>10, <2>12
<1>13. CASE decision # "reject"
  <2>1. /\ pass' = [pass EXCEPT !.at = @ + 1, !.state = kept,
                                !.deferred = @ \/ decision = "defer"]
        /\ UNCHANGED <<status, state>>
    BY <1>0, <1>1, <1>13 DEF ApplyDecision, kept
  <2>2. pass \in PassData
    BY DEF Typed
  <2> DEFINE held == pass.deferred \/ decision = "defer"
  <2>3. held \in BOOLEAN /\ held = (pass.deferred \/ decision = "defer")
    OBVIOUS
  <2>4. pass' = [pass EXCEPT !.at = pass.at + 1, !.state = kept, !.deferred = held]
    BY <2>1, <2>2 DEF PassData
  <2> HIDE DEF decision, held
  <2>5. /\ pass' \in PassData /\ pass'.pc = pass.pc /\ pass'.ready = pass.ready
        /\ pass'.accepted = pass.accepted /\ pass'.head = pass.head /\ pass'.msg = pass.msg
        /\ pass'.at = pass.at + 1 /\ pass'.state = kept /\ pass'.deferred = held
    <3>1. pass' = [pc |-> pass.pc, ready |-> pass.ready, msg |-> pass.msg, head |-> pass.head,
                   at |-> pass.at + 1, state |-> kept, deferred |-> held,
                   accepted |-> pass.accepted]
      BY <2>2, <2>4 DEF PassData
    <3>2. pass.at + 1 \in Nat
      BY <2>2 DEF PassData
    <3>3. pass' \in PassData
      BY <1>4, <2>2, <2>3, <3>1, <3>2 DEF PassData
    <3> QED
      BY <3>1, <3>3
  <2>6. Typed'
    BY <1>1, <1>2, <2>1, <2>5 DEF Typed
  <2>7. HeadsAreReached'
    BY <1>2, <2>5 DEF HeadsAreReached, Reaches
  <2>8. PassIsSound'
    BY <2>1, <2>5 DEF PassIsSound, IsOpen
  <2>9. AcceptedAreEntitled'
    BY <1>3, <1>11, <2>1, <2>5 DEF AcceptedAreEntitled, IsOpen
  <2>10. StatesAreCounted'
    <3>1. \A i \in Messages : AreCounted(i, state[i].errors) /\ state[i].errors \in [Webhooks -> Nat]
      BY DEF StatesAreCounted, Typed, StateData
    <3>2. \A i \in Messages : AreCounted(i, state[i].errors)'
      BY <1>9, <2>1, <3>1 DEF AreCounted
    <3> QED
      BY <1>2, <2>1, <3>2 DEF StatesAreCounted
  <2>11. RejectedAreDeserved'
    BY <1>3, <1>10, <2>1 DEF RejectedAreDeserved, IsOpen
  <2>12. HooksAreAsked'
    <3>1. gating => DeepEnough(m)
      BY <1>0, <1>1 DEF HooksAreAsked
    <3>2. (gating => DeepEnough(pass.msg))'
      BY <1>0, <1>2, <2>5, <3>1 DEF DeepEnough
    <3>3. /\ Len(Configured) \in Nat
          /\ \A i \in 1 .. Len(Configured) : Configured[i] \in Hooks
          /\ \A i, j \in 1 .. Len(Configured) : Configured[i] = Configured[j] => i = j
      BY ConfiguredHooks
    <3>4. pass.at + 1 \in 1 .. Len(Configured) + 1
      BY <1>1, <3>3
    <3>5. ASSUME NEW i \in 1 .. pass.at
          PROVE  /\ ~held => said'[m][Configured[i]] = "accept"
                 /\ Configured[i] \in Webhooks /\ said'[m][Configured[i]] # "error" =>
                      kept.errors[Configured[i]] = 0
      <4>1. i \in 1 .. Len(Configured) /\ pass.at \in 1 .. Len(Configured)
        BY <1>1, <3>3
      <4>2. CASE i = pass.at
        <5>1. Configured[i] = h /\ said'[m][h] = answer
          BY <1>0, <1>1, <4>2
        <5>2. ~held => answer = "accept"
          BY <1>13, <2>3 DEF decision, Decision
        <5> QED
          BY <1>4, <5>1, <5>2
      <4>3. CASE i # pass.at
        <5>1. i \in 1 .. pass.at - 1
          BY <4>1, <4>3
        <5>2. Configured[i] # h /\ Configured[i] \in Hooks
          BY <1>1, <3>3, <4>1, <4>3
        <5>3. said'[m][Configured[i]] = said[m][Configured[i]]
          BY <1>0, <1>1, <5>2
        <5>4. /\ ~pass.deferred => said[m][Configured[i]] = "accept"
              /\ Configured[i] \in Webhooks /\ said[m][Configured[i]] # "error" =>
                   pass.state.errors[Configured[i]] = 0
          BY <1>0, <1>1, <5>1 DEF HooksAreAsked
        <5>5. ~held => ~pass.deferred
          BY <2>3
        <5> QED
          BY <1>4, <5>2, <5>3, <5>4, <5>5
      <4> QED
        BY <4>2, <4>3
    <3>6. pass'.at - 1 = pass.at
      BY <1>1, <2>5, <3>3
    <3>7. AreCounted(pass.msg, pass.state.errors)'
      BY <1>0, <1>6, <1>8, <2>5 DEF AreCounted
    <3> QED
      BY <1>0, <1>2, <1>4, <1>6, <2>5, <3>2, <3>4, <3>5, <3>6, <3>7 DEF HooksAreAsked
  <2> QED
    BY <2>6, <2>7, <2>8, <2>9, <2>10, <2>11, <2>12
<1> QED
  BY <1>12, <1>13

(* The answers are recorded: what the state counts was not an answer.      *)
LEMMA RecordedEffect ==
  ASSUME IntakeInv, pass.pc = "hooks", pass.at > Len(Configured), Recorded, UNCHANGED hooks,
         NEW m \in Messages, m = pass.msg
  PROVE  /\ streak' \in [Messages -> [Webhooks -> 0 .. MaxDefers]]
         /\ \A i \in Messages : i # m => streak'[i] = streak[i]
         /\ \A errors \in [Webhooks -> Nat] : errors = pass.state.errors => AreCounted(m, errors)'
<1> USE DEF IntakeInv
<1>1. /\ streak \in [Messages -> [Webhooks -> 0 .. MaxDefers]] /\ MaxDefers \in Nat
      /\ pass.state \in StateData /\ Configured' = Configured
  BY IntakeConstants DEF Typed, PassData, Configured
<1> DEFINE new == [w \in Webhooks |-> IF said[m][w] = "error" THEN streak[m][w] ELSE 0]
<1>2. new \in [Webhooks -> 0 .. MaxDefers]
  BY <1>1
<1>3. streak' = [streak EXCEPT ![m] = new]
  BY <1>1 DEF Recorded
<1>4. streak'[m] = new /\ \A i \in Messages : i # m => streak'[i] = streak[i]
  BY <1>1, <1>3
<1>5. AreCounted(m, pass.state.errors)
  BY DEF HooksAreAsked
<1>6. /\ Len(Configured) \in Nat /\ pass.at \in 1 .. Len(Configured) + 1
      /\ DOMAIN Configured = 1 .. Len(Configured)
  BY ConfiguredHooks DEF HooksAreAsked
<1>7. pass.at - 1 = Len(Configured)
  BY <1>6
<1>8. ASSUME NEW w \in Webhooks
      PROVE  new[w] >= pass.state.errors[w] \/ new[w] = MaxDefers
  <2>1. pass.state.errors[w] \in Nat
    BY <1>1 DEF StateData
  <2>2. CASE said[m][w] = "error"
    BY <1>5, <2>2 DEF AreCounted
  <2>3. CASE said[m][w] # "error" /\ w \in ToSet(Configured)
    <3>1. PICK i \in 1 .. Len(Configured) : w = Configured[i]
      BY <1>6, <2>3 DEF ToSet
    <3>2. pass.state.errors[w] = 0
      BY <1>7, <2>3, <3>1 DEF HooksAreAsked
    <3> QED
      BY <2>3, <3>2
  <2>4. CASE said[m][w] # "error" /\ w \notin ToSet(Configured)
    BY <1>5, <2>4 DEF AreCounted
  <2> QED
    BY <2>2, <2>3, <2>4
<1> HIDE DEF new
<1>9. \A errors \in [Webhooks -> Nat] : errors = pass.state.errors => AreCounted(m, errors)'
  BY <1>1, <1>4, <1>5, <1>8 DEF AreCounted
<1> QED
  BY <1>1, <1>2, <1>3, <1>4, <1>9

(* All hooks were asked: the message is held, or the pass may batch it.    *)
LEMMA DecideKeepsInv == ASSUME IntakeInv, Hold \/ Accept PROVE IntakeInv'
<1> USE DEF IntakeInv
<1>1. /\ pass.pc = "hooks" /\ pass.at > Len(Configured) /\ Recorded
      /\ UNCHANGED <<chain, wire, hooks, gating, cache, said>>
  BY DEF Hold, Accept
<1>2. PICK m \in Messages :
        m = pass.msg /\ IsOpen(m) /\ m \notin pass.ready \cup pass.accepted
  BY <1>1 DEF PassIsSound, AtMessage
<1>3. /\ streak' \in [Messages -> [Webhooks -> 0 .. MaxDefers]]
      /\ \A i \in Messages : i # m => streak'[i] = streak[i]
      /\ \A errors \in [Webhooks -> Nat] : errors = pass.state.errors => AreCounted(m, errors)'
  BY <1>1, <1>2, RecordedEffect
<1>4. /\ pass.state \in StateData /\ pass.state.errors \in [Webhooks -> Nat]
      /\ pass.state.defers \in Nat /\ pass.state.defers = given[m]
      /\ given \in [Messages -> Nat]
  BY <1>1, <1>2 DEF Typed, PassData, StateData, HooksAreAsked
<1>5. PICK kept \in StateData, s \in {"Pending", "Deferred"} :
        /\ status' = [status EXCEPT ![m] = s]
        /\ state' = [state EXCEPT ![m] = kept]
        /\ kept.errors = pass.state.errors
        /\ given' \in [Messages -> Nat] /\ kept.defers = given'[m]
        /\ \A i \in Messages : i # m => given'[i] = given[i]
        /\ pass' \in PassData /\ pass'.pc = "next" /\ pass'.head = Genesis
        /\ pass'.ready = pass.ready
        /\ \/ pass'.accepted = pass.accepted
           \/ pass'.accepted = pass.accepted \cup {m} /\ ~pass.deferred
  <2>1. CASE Hold
    <3> DEFINE more == [pass.state EXCEPT !.defers = Up(@)]
               kept == [more EXCEPT !.due = FALSE]
    <3>1. Up(pass.state.defers) \in Nat
      BY <1>4, UpType
    <3>2. more \in StateData /\ more.errors = pass.state.errors
          /\ more.defers = Up(pass.state.defers)
      BY <1>4, <3>1 DEF StateData
    <3> HIDE DEF more
    <3>3. kept \in StateData /\ kept.errors = pass.state.errors
          /\ kept.defers = Up(pass.state.defers)
      BY <3>2 DEF StateData
    <3> HIDE DEF kept
    <3>4. status' = [status EXCEPT ![m] = "Deferred"] /\ state' = [state EXCEPT ![m] = kept]
          /\ given' = [given EXCEPT ![m] = Up(given[m])] /\ pass' = Turned
      BY <1>2, <2>1 DEF Hold, Defer, kept, more
    <3>5. given' \in [Messages -> Nat] /\ given'[m] = kept.defers
          /\ \A i \in Messages : i # m => given'[i] = given[i]
      BY <1>4, <3>1, <3>3, <3>4
    <3> QED
      BY <3>3, <3>4, <3>5, TurnedFields
  <2>2. CASE Accept
    <3> DEFINE kept == [pass.state EXCEPT !.due = FALSE]
    <3>1. kept \in StateData /\ kept.errors = pass.state.errors /\ kept.defers = given[m]
      BY <1>4 DEF StateData
    <3> HIDE DEF kept
    <3>2. status' = [status EXCEPT ![m] = "Pending"] /\ state' = [state EXCEPT ![m] = kept]
          /\ pass' = [Turned EXCEPT !.accepted = @ \cup {m}]
          /\ UNCHANGED given /\ ~pass.deferred
      BY <1>2, <2>2 DEF Accept, kept
    <3> DEFINE t == Turned
    <3>3. t \in PassData /\ t.pc = "next" /\ t.ready = pass.ready
          /\ t.accepted = pass.accepted /\ t.head = Genesis
      BY TurnedFields
    <3> HIDE DEF t
    <3>4. pass' = [t EXCEPT !.accepted = @ \cup {m}]
      BY <3>2 DEF t
    <3>5. /\ pass' \in PassData /\ pass'.pc = "next" /\ pass'.head = Genesis
          /\ pass'.ready = pass.ready /\ pass'.accepted = pass.accepted \cup {m}
      BY <3>3, <3>4 DEF PassData
    <3> QED
      BY <1>4, <3>1, <3>2, <3>5
  <2> QED
    BY <2>1, <2>2
<1>6. /\ status' \in [Messages -> {Nothing, "Pending", "Deferred", "Rejected", "Processing"}]
      /\ status'[m] = s /\ \A i \in Messages : i # m => status'[i] = status[i]
      /\ state' \in [Messages -> StateData]
      /\ state'[m] = kept /\ \A i \in Messages : i # m => state'[i] = state[i]
  BY <1>5 DEF Typed
<1>7. Typed'
  BY <1>1, <1>3, <1>5, <1>6 DEF Typed
<1>8. HeadsAreReached'
  <2>1. chain \in Heads
    BY DEF Typed
  <2>2. Reaches(Genesis)
    BY <2>1 DEF Heads, Reaches, Genesis
  <2> QED
    BY <1>1, <1>5, <2>2 DEF HeadsAreReached, Reaches
<1>9. PassIsSound'
  <2>1. pass.ready \subseteq Messages
    BY DEF Typed, PassData
  <2> QED
    BY <1>2, <1>5, <1>6, <2>1 DEF PassIsSound, IsOpen, AtMessage
<1>10. AcceptedAreEntitled'
  <2>1. \A i \in Messages : i # m /\ IsEntitled(i) => IsEntitled(i)'
    BY <1>1, EntitledStays
  <2>2. ~pass.deferred => IsEntitled(m)
    <3>1. Len(Configured) \in Nat /\ pass.at \in 1 .. Len(Configured) + 1
      BY <1>1, ConfiguredHooks DEF HooksAreAsked
    <3>2. pass.at - 1 = Len(Configured)
      BY <1>1, <3>1
    <3> QED
      BY <1>1, <1>2, <3>2 DEF HooksAreAsked, IsEntitled
  <2>3. IsEntitled(m) => IsEntitled(m)'
    BY <1>1, EntitledStays
  <2> QED
    BY <1>2, <1>5, <1>6, <2>1, <2>2, <2>3 DEF AcceptedAreEntitled, IsOpen
<1>11. StatesAreCounted'
  <2>1. ASSUME NEW i \in Messages, i # m PROVE AreCounted(i, state[i].errors)'
    <3>1. streak'[i] = streak[i] /\ state'[i] = state[i] /\ Configured' = Configured
      BY <1>1, <1>3, <1>6, <2>1 DEF Configured
    <3> QED
      BY <3>1 DEF StatesAreCounted, AreCounted
  <2>2. AreCounted(m, state[m].errors)'
    BY <1>3, <1>4, <1>5, <1>6 DEF AreCounted
  <2> QED
    BY <1>5, <1>6, <2>1, <2>2 DEF StatesAreCounted
<1>12. RejectedAreDeserved'
  <2>1. \A i \in Messages : i # m /\ IsDeserved(i) => IsDeserved(i)'
    BY <1>1, <1>3 DEF IsDeserved, Configured
  <2> QED
    BY <1>6, <2>1 DEF RejectedAreDeserved
<1>13. HooksAreAsked'
  BY <1>5 DEF HooksAreAsked
<1> QED
  BY <1>7, <1>8, <1>9, <1>10, <1>11, <1>12, <1>13

LEMMA BatchKeepsInv == ASSUME IntakeInv, Batch PROVE IntakeInv'
<1> USE DEF IntakeInv
<1>1. /\ UNCHANGED <<chain, wire, hooks, gating, state, cache, said, streak, given>>
      /\ pass' = IdlePass
  BY DEF Batch, doneVars
<1>2. /\ pass' \in PassData /\ pass'.pc = "idle" /\ pass'.ready = {}
      /\ pass'.accepted = {} /\ pass'.head = Genesis
  BY <1>1, TurnedFields
<1>3. /\ status' \in [Messages -> {Nothing, "Pending", "Deferred", "Rejected", "Processing"}]
      /\ \A m \in Messages :
           \/ status'[m] = status[m]
           \/ m \in pass.accepted /\ status'[m] = "Processing"
  BY DEF Batch, Typed
<1>4. Typed'
  BY <1>1, <1>2, <1>3 DEF Typed
<1>5. HeadsAreReached'
  <2>1. chain \in Heads
    BY DEF Typed
  <2>2. Reaches(Genesis)
    BY <2>1 DEF Heads, Reaches, Genesis
  <2> QED
    BY <1>1, <1>2, <2>2 DEF HeadsAreReached, Reaches
<1>6. PassIsSound' /\ HooksAreAsked'
  BY <1>2 DEF PassIsSound, HooksAreAsked, AtMessage
<1>7. AcceptedAreEntitled'
  BY <1>1, <1>2, <1>3, EntitledStays DEF AcceptedAreEntitled
<1>8. StatesAreCounted'
  BY <1>1 DEF StatesAreCounted, AreCounted, Configured
<1>9. RejectedAreDeserved'
  BY <1>1, <1>3, SameAnswers DEF RejectedAreDeserved
<1> QED
  BY <1>4, <1>5, <1>6, <1>7, <1>8, <1>9

-----------------------------------------------------------------------------
(* Theorems.                                                               *)

LEMMA InitInv ==
  ASSUME NEW heads \in Heads, heads.finalized <= heads.safe, IntakeInitFrom(heads)
  PROVE  IntakeInv
<1>1. /\ NewState \in StateData /\ NewState.defers = 0
      /\ \A w \in Webhooks : NewState.errors[w] = 0
  BY DEF NewState, StateData
<1>2. Genesis \in Heads /\ Genesis.latest = 0 /\ Genesis.safe = 0 /\ Genesis.finalized = 0
  BY DEF Genesis, Heads
<1>3. heads.latest \in Nat /\ heads.safe \in Nat /\ heads.finalized \in Nat
  BY DEF Heads
<1> HIDE DEF NewState, Genesis
<1>4. /\ IdlePass \in PassData /\ IdlePass.pc = "idle" /\ IdlePass.ready = {}
      /\ IdlePass.accepted = {} /\ IdlePass.head = Genesis
  BY <1>1, <1>2 DEF IdlePass, PassData
<1> HIDE DEF IdlePass
<1>5. Typed
  <2>1. /\ chain \in Heads /\ wire \in [Messages -> Envelopes]
        /\ hooks \in HookLists /\ gating \in BOOLEAN /\ cache \subseteq Heads
        /\ pass \in PassData
    BY <1>4 DEF IntakeInitFrom
  <2>2. /\ status \in [Messages -> {Nothing, "Pending", "Deferred", "Rejected", "Processing"}]
        /\ state \in [Messages -> StateData] /\ given \in [Messages -> Nat]
    BY <1>1 DEF IntakeInitFrom
  <2>3. said \in [Messages -> [Hooks -> {Nothing, "accept", "reject", "defer", "error"}]]
    BY DEF IntakeInitFrom, Hooks
  <2>4. streak \in [Messages -> [Webhooks -> 0 .. MaxDefers]]
    BY IntakeConstants DEF IntakeInitFrom
  <2> QED
    BY <2>1, <2>2, <2>3, <2>4 DEF Typed
<1>6. HeadsAreReached
  BY <1>2, <1>3, <1>4 DEF IntakeInitFrom, HeadsAreReached, Reaches
<1>7. PassIsSound /\ HooksAreAsked
  BY <1>4 DEF IntakeInitFrom, PassIsSound, HooksAreAsked, AtMessage
<1>8. AcceptedAreEntitled /\ RejectedAreDeserved
  BY <1>4 DEF IntakeInitFrom, AcceptedAreEntitled, RejectedAreDeserved, Nothing
<1>9. StatesAreCounted
  BY <1>1, IntakeConstants DEF IntakeInitFrom, StatesAreCounted, AreCounted
<1> QED
  BY <1>5, <1>6, <1>7, <1>8, <1>9 DEF IntakeInv

LEMMA NextInv == IntakeInv /\ [IntakeNext]_intakeVars => IntakeInv'
BY ChainKeepsInv, OthersKeepInv, StartKeepsInv, GateKeepsInv, AskKeepsInv, DecideKeepsInv,
   BatchKeepsInv DEF IntakeNext, PassStep

(* The invariant holds in every behaviour.                                 *)
THEOREM IntakeInvariant == IntakeSpec => []IntakeInv
<1>1. IntakeInitFrom(Genesis) => IntakeInv
  <2>1. Genesis \in Heads /\ Genesis.finalized <= Genesis.safe
    BY DEF Genesis, Heads
  <2> QED
    BY <2>1, InitInv
<1> QED
  BY <1>1, NextInv, PTL DEF IntakeSpec

(* What is batched is as final as it asks and was accepted by every hook   *)
(* when it was last asked (evaluate_finality_gate, process_messages).      *)
THEOREM AdmittedAreEntitled == IntakeSpec => []AdmittedIsEntitled
<1>1. IntakeInv => AdmittedIsEntitled
  BY DEF IntakeInv, AcceptedAreEntitled, IsEntitled, AdmittedIsEntitled
<1> QED
  BY <1>1, IntakeInvariant, PTL

(* What is rejected was rejected by a hook or failed one MaxAttempts times *)
(* in a row, and only hooks use up deferrals (apply_acceptance_decision,   *)
(* mark_message_deferred_keep_count).                                      *)
THEOREM RejectedAreJustified == IntakeSpec => []RejectedIsDeserved
<1>1. IntakeInv => RejectedIsDeserved
  BY DEF IntakeInv, RejectedAreDeserved, IsDeserved, StatesAreCounted, RejectedIsDeserved
<1> QED
  BY <1>1, IntakeInvariant, PTL

=============================================================================
