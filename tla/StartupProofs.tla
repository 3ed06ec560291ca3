---------------------------- MODULE StartupProofs ----------------------------
(***************************************************************************)
(* Proofs about Startup, for any number of operators, keystores, edits and *)
(* attempts.                                                               *)
(***************************************************************************)
EXTENDS Startup, TLAPS

-----------------------------------------------------------------------------
(* The invariant.                                                          *)

FileData ==
  [rpc       : {"none", "string", "literal", "env"},
   selectors : BOOLEAN,
   finality  : {"default", "on", "off"},
   executor  : [enabled : {"unset", "on", "off"}, address : {"unset", "zero", "self", "bad"}],
   sweep     : {"on", "off", "zero"},
   hooks     : {"none", "invalid", "duplicate", "reserved", "unset"},
   balance   : {"plain", "wide", "bad"}]
SettingsData ==
  [rpc : {"none", "right", "wrong"}, secret : {"old", "new", "short"},
   pass : {"unset", "test", "mine"}, ops : BOOLEAN]
Secrets      == {"none", "old", "new", "short"}
Variables    == [rpc : {"none", "right", "wrong"}, secret : Secrets]
OperatorData ==
  [pc : {"absent", "load", "build", "connect", "serving", "refused"}, vars : Variables,
   loaded : FileData, seen : Nat]
CommandData ==
  [pc : {"idle", "publish", "generate", "signers", "validate", "up", "wait"},
   deploys : BOOLEAN, attempt : Nat, at : Nat]

Typed ==
  /\ stack \in [local : BOOLEAN, provider : {"layerzero", "chainlink_ccv"}]
  /\ file \in FileData /\ settings \in SettingsData
  /\ override \in BOOLEAN
  /\ missing \in Keys \cup {"none", "all"}
  /\ keystore \in [Signers -> {"none", "test", "mine"}]
  /\ trigger \in Secrets /\ snapshot \in Variables
  /\ monitor \in [up : BOOLEAN, env : Secrets, secret : Secrets]
  /\ relayer \in [up : BOOLEAN, pass : {"none", "unset", "test", "mine"}]
  /\ operator \in [Operators -> OperatorData]
  /\ start \in CommandData /\ started \in BOOLEAN
  /\ sent \in [to : {"nobody", "zero", "self", "unset"}, at : Nat]
  /\ outcome \in [Operators -> {"none", "submitted", "skipped"}]
  /\ changes \in Nat

(* What an operator serves is the file as it was at the edit it has seen.  *)
HasLoaded(o) == operator[o].pc \in {"build", "connect", "serving"}
LoadedFits ==
  \A o \in Operators : HasLoaded(o) =>
    /\ operator[o].seen <= changes
    /\ operator[o].seen = changes => operator[o].loaded = file
    /\ OperatorParses(operator[o].loaded)

(* So is what a message was sent from.                                     *)
Designates(f) == XtaskParses(f) /\ sent.to = OperatorExecutorAddress(f)
SentFits ==
  sent # Unsent =>
    /\ sent.at <= changes
    /\ sent.at = changes => Designates(file)
    /\ \A o \in Operators :
         HasLoaded(o) /\ operator[o].seen = sent.at => Designates(operator[o].loaded)

(* Nothing is edited under a running command, whose checks stay true.      *)
CommandFits ==
  /\ start.pc # "idle" => ~started /\ start.at = changes /\ XtaskLoads(file)
  /\ start.pc \in {"signers", "validate", "up", "wait"} => trigger = settings.secret
  /\ start.pc \in {"signers", "up", "wait"} => ~start.deploys
  /\ start.pc \in {"validate", "up", "wait"} /\ ~start.deploys => LoadSigners
  /\ start.pc \in {"up", "wait"} =>
       /\ PublishedConfiguration
       /\ ~stack.local => RuntimeSourceRpc(file) = "right"

(* What the containers of public chains were created with.                 *)
ContainersFit ==
  /\ start.pc = "wait" =>
       /\ relayer.pass = settings.pass
       /\ snapshot = OperatorVariables
       /\ ~stack.local => /\ monitor.secret = trigger
                          /\ \A o \in Operators : operator[o].vars = OperatorVariables
  /\ started /\ ~stack.local =>
       /\ snapshot.secret = trigger /\ monitor.secret = trigger
       /\ \A o \in Operators : operator[o].vars.secret = trigger

StartupInv == Typed /\ LoadedFits /\ SentFits /\ CommandFits /\ ContainersFit

-----------------------------------------------------------------------------
(* The operators.                                                          *)

LEMMA ConstantFields ==
  /\ Absent \in OperatorData /\ Absent.pc = "absent"
  /\ IdleStart \in CommandData /\ IdleStart.pc = "idle"
  /\ NoMonitor \in [up : BOOLEAN, env : Secrets, secret : Secrets]
  /\ NoRelayer \in [up : BOOLEAN, pass : {"none", "unset", "test", "mine"}]
  /\ NoVariables \in Variables
  /\ Unsent \in [to : {"nobody", "zero", "self", "unset"}, at : Nat]
<1>1. NoVariables \in Variables
  BY DEF NoVariables, Variables, Secrets
<1>2. ShippedFile(TRUE, FALSE) \in FileData
  BY DEF ShippedFile, NoExecutor, FileData
<1> HIDE DEF FileData, Variables, NoVariables
<1>3. Absent \in OperatorData /\ Absent.pc = "absent"
  BY <1>1, <1>2 DEF Absent, OperatorData
<1> QED
  BY <1>1, <1>3 DEF IdleStart, CommandData, NoMonitor, NoRelayer, Unsent, Secrets

(* One operator moves on, with the variables it was created with.          *)
Others ==
  UNCHANGED <<stack, file, settings, override, changes, missing, keystore, monitor, relayer,
              sent, outcome, trigger, snapshot, start, started>>

LEMMA OneOperatorKeeps ==
  ASSUME StartupInv, NEW o \in Operators, NEW op \in OperatorData, Others,
         operator' = [operator EXCEPT ![o] = op],
         op.vars = operator[o].vars,
         op.pc \in {"build", "connect", "serving"} =>
           \/ HasLoaded(o) /\ op.loaded = operator[o].loaded /\ op.seen = operator[o].seen
           \/ op.loaded = file /\ op.seen = changes /\ OperatorParses(file)
  PROVE  StartupInv'
<1>1. /\ Typed /\ LoadedFits /\ SentFits /\ CommandFits /\ ContainersFit
      /\ operator \in [Operators -> OperatorData] /\ changes \in Nat
      /\ UNCHANGED <<stack, file, settings, override, changes, missing, keystore, monitor,
                     relayer, sent, outcome, trigger, snapshot, start, started>>
  BY DEF StartupInv, Typed, Others
<1> HIDE DEF OperatorData
<1>2. /\ operator' \in [Operators -> OperatorData] /\ operator'[o] = op
      /\ \A p \in Operators \ {o} : operator'[p] = operator[p]
      /\ \A p \in Operators : operator'[p].vars = operator[p].vars
  BY <1>1
<1>3. Typed'
  BY <1>1, <1>2 DEF Typed, Keys, IsCcv
<1>4. \A p \in Operators : HasLoaded(p)' =>
        \/ /\ HasLoaded(p)
           /\ operator'[p].loaded = operator[p].loaded /\ operator'[p].seen = operator[p].seen
        \/ operator'[p].loaded = file /\ operator'[p].seen = changes /\ OperatorParses(file)
  BY <1>2 DEF HasLoaded
<1>5. LoadedFits'
  BY <1>1, <1>4 DEF LoadedFits
<1>6. SentFits'
  <2> SUFFICES ASSUME sent # Unsent
               PROVE  /\ sent.at <= changes
                      /\ sent.at = changes => Designates(file)
                      /\ \A p \in Operators :
                           HasLoaded(p)' /\ operator'[p].seen = sent.at =>
                             Designates(operator'[p].loaded)
    BY <1>1 DEF SentFits, Designates
  <2> QED
    BY <1>1, <1>4 DEF SentFits
<1>7. CommandFits'
  BY <1>1 DEF CommandFits, XtaskLoads, LoadSigners, PublishedConfiguration,
     ValidatesSelectors, CcipSelector, IsCcv, Opens, RequiredKeys, CcvRequired, Overridden,
     RuntimeSourceRpc, ResolveRpcUrl
<1>8. ContainersFit'
  BY <1>1, <1>2 DEF ContainersFit, OperatorVariables
<1> QED
  BY <1>3, <1>5, <1>6, <1>7, <1>8 DEF StartupInv

LEMMA OperatorStepsKeep ==
  ASSUME StartupInv, NEW o \in Operators, Load(o) \/ Build(o) \/ Serve(o) \/ Restarts(o)
  PROVE  StartupInv'
<1>1. /\ Typed /\ operator[o] \in OperatorData /\ file \in FileData /\ changes \in Nat
      /\ operator \in [Operators -> OperatorData]
  BY DEF StartupInv, Typed
<1>2. Others
  BY DEF Load, Build, Serve, Restarts, OnlyOperators, Others, inputVars, deployedVars,
     messageVars, commandVars
<1>3. ASSUME NEW pc \in {"load", "connect", "serving", "refused"}, To(o, pc),
             pc \in {"connect", "serving"} => HasLoaded(o)
      PROVE  StartupInv'
  <2> DEFINE op == [operator[o] EXCEPT !.pc = pc]
  <2>1. operator' = [operator EXCEPT ![o] = op]
    BY <1>3 DEF To
  <2>2. /\ op \in OperatorData /\ op.vars = operator[o].vars /\ op.pc = pc
        /\ op.loaded = operator[o].loaded /\ op.seen = operator[o].seen
    BY <1>1 DEF OperatorData
  <2> HIDE DEF op
  <2> QED
    BY <1>2, <1>3, <2>1, <2>2, OneOperatorKeeps
<1>4. ASSUME OperatorParses(file),
             operator' = [operator EXCEPT ![o].pc = "build", ![o].loaded = file,
                                          ![o].seen = changes]
      PROVE  StartupInv'
  <2>1. PICK old \in OperatorData : old = operator[o]
    BY <1>1
  <2> DEFINE op == [pc |-> "build", vars |-> old.vars, loaded |-> file, seen |-> changes]
  <2>2. op \in OperatorData /\ op.vars = operator[o].vars /\ op.loaded = file
        /\ op.seen = changes
    BY <1>1, <2>1 DEF OperatorData
  <2>3. [old EXCEPT !.pc = "build", !.loaded = file, !.seen = changes] = op
    <3> DEFINE r1 == [pc |-> "build", vars |-> old.vars, loaded |-> old.loaded,
                      seen |-> old.seen]
               r2 == [pc |-> "build", vars |-> old.vars, loaded |-> file, seen |-> old.seen]
    <3>1. [old EXCEPT !.pc = "build"] = r1
      BY DEF OperatorData
    <3>2. [r1 EXCEPT !.loaded = file] = r2
      OBVIOUS
    <3>3. [r2 EXCEPT !.seen = changes] = op
      OBVIOUS
    <3> HIDE DEF r1, r2, op
    <3>4. [old EXCEPT !.pc = "build", !.loaded = file] = r2
      BY <3>1, <3>2
    <3> QED
      BY <3>3, <3>4
  <2> HIDE DEF OperatorData, op
  <2>4. operator' = [operator EXCEPT ![o] =
                       [operator[o] EXCEPT !.pc = "build", !.loaded = file, !.seen = changes]]
    BY <1>1, <1>4
  <2>5. operator' = [operator EXCEPT ![o] = op]
    BY <2>1, <2>3, <2>4
  <2> QED
    BY <1>2, <1>4, <2>2, <2>5, OneOperatorKeeps
<1>5. CASE Load(o)
  BY <1>3, <1>4, <1>5 DEF Load
<1>6. CASE Build(o)
  BY <1>3, <1>6 DEF Build, HasLoaded
<1>7. CASE Serve(o)
  BY <1>3, <1>7 DEF Serve, HasLoaded
<1>8. CASE Restarts(o)
  BY <1>3, <1>8 DEF Restarts
<1> QED
  BY <1>5, <1>6, <1>7, <1>8

(* Operators that are created anew have loaded nothing.                    *)
LEMMA NothingLoaded ==
  ASSUME StartupInv, \A o \in Operators : HasLoaded(o)' => operator'[o] = operator[o],
         UNCHANGED <<file, sent, changes>>
  PROVE  LoadedFits' /\ SentFits'
<1>1. LoadedFits /\ SentFits /\ \A o \in Operators : HasLoaded(o)' => HasLoaded(o)
  BY DEF StartupInv, HasLoaded
<1>2. LoadedFits'
  BY <1>1 DEF LoadedFits
<1>3. SentFits'
  <2> SUFFICES ASSUME sent # Unsent
               PROVE  /\ sent.at <= changes
                      /\ sent.at = changes => Designates(file)
                      /\ \A p \in Operators :
                           HasLoaded(p)' /\ operator'[p].seen = sent.at =>
                             Designates(operator'[p].loaded)
    BY DEF SentFits, Designates
  <2> QED
    BY <1>1 DEF SentFits
<1> QED
  BY <1>2, <1>3

LEMMA RestartOperatorsKeeps ==
  ASSUME StartupInv, RestartOperators
  PROVE  StartupInv'
<1>1. /\ Typed /\ CommandFits /\ ContainersFit /\ start.pc = "idle"
      /\ operator \in [Operators -> OperatorData] /\ snapshot \in Variables
      /\ operator' = [o \in Operators |-> Created(snapshot, operator[o])]
      /\ UNCHANGED <<stack, file, settings, override, changes, missing, keystore, monitor,
                     relayer, sent, outcome, trigger, snapshot, start, started>>
  BY DEF StartupInv, Typed, RestartOperators, RestartVariables, OnlyOperators, inputVars,
     deployedVars, messageVars, commandVars
<1>2. \A o \in Operators :
        /\ operator'[o] \in OperatorData /\ operator'[o].pc = "load"
        /\ operator'[o].vars = snapshot
  <2> TAKE o \in Operators
  <2>1. operator'[o] = [operator[o] EXCEPT !.pc = "load",
                          !.vars = [rpc |-> snapshot.rpc, secret |-> snapshot.secret]]
        /\ operator[o] \in OperatorData
    BY <1>1 DEF Created
  <2>2. [rpc |-> snapshot.rpc, secret |-> snapshot.secret] = snapshot
    BY <1>1 DEF Variables
  <2>3. operator'[o] = [pc |-> "load", vars |-> snapshot, loaded |-> operator[o].loaded,
                        seen |-> operator[o].seen]
    BY <2>1, <2>2 DEF OperatorData
  <2> QED
    BY <1>1, <2>1, <2>3 DEF OperatorData
<1> HIDE DEF OperatorData
<1>3. operator' \in [Operators -> OperatorData]
  BY <1>1, <1>2
<1>4. Typed'
  BY <1>1, <1>3 DEF Typed, Keys, IsCcv
<1>5. LoadedFits' /\ SentFits'
  BY <1>1, <1>2, NothingLoaded DEF HasLoaded
<1>6. CommandFits'
  BY <1>1 DEF CommandFits
<1>7. ContainersFit'
  BY <1>1, <1>2 DEF ContainersFit
<1> QED
  BY <1>4, <1>5, <1>6, <1>7 DEF StartupInv

-----------------------------------------------------------------------------
(* The edits.                                                              *)

LEMMA EditedFile ==
  ASSUME file \in FileData, NEW f \in DOMAIN FieldValues, NEW v \in FieldValues[f],
         file' = [file EXCEPT ![f] = v]
  PROVE  file' \in FileData
<1>1. f \in {"rpc", "selectors", "finality", "executor", "sweep", "hooks", "balance"}
  BY DEF FieldValues
<1>2. CASE f = "rpc"
  BY <1>2 DEF FieldValues, FileData
<1>3. CASE f = "selectors"
  BY <1>3 DEF FieldValues, FileData
<1>4. CASE f = "finality"
  BY <1>4 DEF FieldValues, FileData
<1>5. CASE f = "executor"
  BY <1>5 DEF FieldValues, FileData, NoExecutor, ExecutorOf
<1>6. CASE f = "sweep"
  BY <1>6 DEF FieldValues, FileData
<1>7. CASE f = "hooks"
  BY <1>7 DEF FieldValues, FileData
<1>8. CASE f = "balance"
  BY <1>8 DEF FieldValues, FileData
<1> QED
  BY <1>1, <1>2, <1>3, <1>4, <1>5, <1>6, <1>7, <1>8

LEMMA EditedSettings ==
  ASSUME settings \in SettingsData, NEW f \in DOMAIN SettingValues, NEW v \in SettingValues[f],
         settings' = [settings EXCEPT ![f] = v]
  PROVE  settings' \in SettingsData
<1>1. f \in {"rpc", "secret", "pass", "ops"}
  BY DEF SettingValues
<1>2. CASE f = "rpc"
  BY <1>2 DEF SettingValues, SettingsData
<1>3. CASE f = "secret"
  BY <1>3 DEF SettingValues, SettingsData
<1>4. CASE f = "pass"
  BY <1>4 DEF SettingValues, SettingsData
<1>5. CASE f = "ops"
  BY <1>5 DEF SettingValues, SettingsData
<1> QED
  BY <1>1, <1>2, <1>3, <1>4, <1>5

(* What was loaded and sent is older than an edit.                         *)
LEMMA EditKeeps ==
  ASSUME StartupInv, Edit
  PROVE  StartupInv'
<1>1. /\ Typed /\ LoadedFits /\ SentFits /\ CommandFits /\ ContainersFit
      /\ start.pc = "idle" /\ changes' = changes + 1 /\ changes \in Nat
      /\ operator \in [Operators -> OperatorData]
      /\ sent \in [to : {"nobody", "zero", "self", "unset"}, at : Nat]
      /\ UNCHANGED <<stack, override, missing, monitor, operator, relayer, sent, outcome,
                     trigger, snapshot, start, started>>
  BY DEF StartupInv, Typed, Edit, GenerateSigner, deployedVars, containerVars, messageVars,
     commandVars
<1>2. /\ file' \in FileData /\ settings' \in SettingsData
      /\ keystore' \in [Signers -> {"none", "test", "mine"}]
  <2>1. CASE \E f \in DOMAIN FieldValues : \E v \in FieldValues[f] :
               file' = [file EXCEPT ![f] = v] /\ UNCHANGED <<settings, deployedVars>>
    <3>1. PICK f \in DOMAIN FieldValues : \E v \in FieldValues[f] :
            file' = [file EXCEPT ![f] = v] /\ UNCHANGED <<settings, keystore>>
      BY <2>1 DEF deployedVars
    <3>2. PICK v \in FieldValues[f] :
            file' = [file EXCEPT ![f] = v] /\ UNCHANGED <<settings, keystore>>
      BY <3>1
    <3>3. file' \in FileData
      BY <1>1, <3>2, EditedFile DEF Typed
    <3> QED
      BY <1>1, <3>2, <3>3 DEF Typed
  <2>2. CASE \E f \in DOMAIN SettingValues : \E v \in SettingValues[f] :
               settings' = [settings EXCEPT ![f] = v] /\ UNCHANGED <<file, deployedVars>>
    <3>1. PICK f \in DOMAIN SettingValues : \E v \in SettingValues[f] :
            settings' = [settings EXCEPT ![f] = v] /\ UNCHANGED <<file, keystore>>
      BY <2>2 DEF deployedVars
    <3>2. PICK v \in SettingValues[f] :
            settings' = [settings EXCEPT ![f] = v] /\ UNCHANGED <<file, keystore>>
      BY <3>1
    <3>3. settings' \in SettingsData
      BY <1>1, <3>2, EditedSettings DEF Typed
    <3> QED
      BY <1>1, <3>2, <3>3 DEF Typed
  <2>3. CASE GenerateSigner
    BY <1>1, <2>3 DEF GenerateSigner, Typed
  <2> QED
    BY <2>1, <2>2, <2>3 DEF Edit
<1>3. Typed'
  BY <1>1, <1>2 DEF Typed, Keys, IsCcv
<1>4. \A o \in Operators : HasLoaded(o)' <=> HasLoaded(o)
  BY <1>1 DEF HasLoaded
<1>5. LoadedFits'
  BY <1>1, <1>4 DEF LoadedFits, OperatorData
<1>6. SentFits'
  BY <1>1, <1>4 DEF SentFits, Designates, HasLoaded
<1>7. CommandFits' /\ ContainersFit'
  BY <1>1 DEF CommandFits, ContainersFit
<1> QED
  BY <1>3, <1>5, <1>6, <1>7 DEF StartupInv

-----------------------------------------------------------------------------
(* The messages.                                                           *)

LEMMA SendDefaultKeeps ==
  ASSUME StartupInv, SendDefault
  PROVE  StartupInv'
<1>1. /\ Typed /\ LoadedFits /\ CommandFits /\ ContainersFit /\ XtaskParses(file)
      /\ changes \in Nat /\ file \in FileData
      /\ sent' = [to |-> OperatorExecutorAddress(file), at |-> changes]
      /\ OperatorExecutorAddress(file) # "bad"
      /\ UNCHANGED <<stack, file, settings, override, changes, missing, keystore, monitor,
                     operator, relayer, outcome, trigger, snapshot, start, started>>
  BY DEF StartupInv, Typed, SendDefault, XtaskLoads, inputVars, deployedVars, containerVars,
     commandVars
<1>2. sent' \in [to : {"nobody", "zero", "self", "unset"}, at : Nat]
  <2>1. OperatorExecutorAddress(file) \in {"zero", "self", "unset"}
    BY <1>1 DEF OperatorExecutorAddress, FileData
  <2> QED
    BY <1>1, <2>1
<1>3. Typed'
  BY <1>1, <1>2 DEF Typed, Keys, IsCcv
<1>4. LoadedFits'
  BY <1>1 DEF LoadedFits, HasLoaded
<1>5. SentFits'
  BY <1>1 DEF SentFits, LoadedFits, HasLoaded, Designates, XtaskParses,
     OperatorExecutorAddress
<1>6. CommandFits' /\ ContainersFit'
  BY <1>1 DEF CommandFits, ContainersFit, OperatorVariables, XtaskLoads, LoadSigners,
     PublishedConfiguration, ValidatesSelectors, CcipSelector, IsCcv, Opens, RequiredKeys,
     CcvRequired, Overridden, RuntimeSourceRpc, ResolveRpcUrl, XtaskParses
<1> QED
  BY <1>3, <1>4, <1>5, <1>6 DEF StartupInv

(* Everything but the outcomes stays.                                      *)
LEMMA ExecuteKeeps ==
  ASSUME StartupInv, NEW o \in Operators, Execute(o)
  PROVE  StartupInv'
<1>1. /\ Typed /\ LoadedFits /\ SentFits /\ CommandFits /\ ContainersFit
      /\ outcome' \in [Operators -> {"none", "submitted", "skipped"}]
      /\ UNCHANGED <<stack, file, settings, override, changes, missing, keystore, monitor,
                     operator, relayer, sent, trigger, snapshot, start, started>>
  BY DEF StartupInv, Typed, Execute, inputVars, deployedVars, containerVars, commandVars
<1>2. Typed'
  BY <1>1 DEF Typed, Keys, IsCcv
<1>3. LoadedFits' /\ SentFits'
  BY <1>1 DEF LoadedFits, HasLoaded, SentFits, Designates
<1>4. CommandFits' /\ ContainersFit'
  BY <1>1 DEF CommandFits, ContainersFit, OperatorVariables, XtaskLoads, LoadSigners,
     PublishedConfiguration, ValidatesSelectors, CcipSelector, IsCcv, Opens, RequiredKeys,
     CcvRequired, Overridden, RuntimeSourceRpc, ResolveRpcUrl
<1> QED
  BY <1>2, <1>3, <1>4 DEF StartupInv

LEMMA MonitorRestartsKeeps ==
  ASSUME StartupInv, MonitorRestarts
  PROVE  StartupInv'
<1>1. /\ Typed /\ LoadedFits /\ SentFits /\ CommandFits /\ ContainersFit
      /\ monitor' = [monitor EXCEPT !.secret = trigger] /\ trigger \in Secrets
      /\ monitor \in [up : BOOLEAN, env : Secrets, secret : Secrets]
      /\ UNCHANGED <<stack, file, settings, override, changes, missing, keystore,
                     operator, relayer, sent, outcome, trigger, snapshot, start, started>>
  BY DEF StartupInv, Typed, MonitorRestarts, inputVars, deployedVars, messageVars, commandVars
<1>2. monitor' \in [up : BOOLEAN, env : Secrets, secret : Secrets] /\ monitor'.secret = trigger
  BY <1>1
<1>3. Typed'
  BY <1>1, <1>2 DEF Typed, Keys, IsCcv
<1>4. LoadedFits' /\ SentFits'
  BY <1>1 DEF LoadedFits, HasLoaded, SentFits, Designates
<1>5. CommandFits' /\ ContainersFit'
  BY <1>1, <1>2 DEF CommandFits, ContainersFit, OperatorVariables, XtaskLoads, LoadSigners,
     PublishedConfiguration, ValidatesSelectors, CcipSelector, IsCcv, Opens, RequiredKeys,
     CcvRequired, Overridden, RuntimeSourceRpc, ResolveRpcUrl
<1> QED
  BY <1>3, <1>4, <1>5 DEF StartupInv

-----------------------------------------------------------------------------
(* The commands.                                                           *)

LEMMA GotoFields ==
  ASSUME start \in CommandData, NEW pc \in {"generate", "signers", "validate", "up", "wait"},
         GotoStart(pc)
  PROVE  /\ start' \in CommandData /\ start'.pc = pc
         /\ start'.deploys = start.deploys /\ start'.at = start.at
BY DEF GotoStart, CommandData

(* What the checks of a command say, they say of files alone.              *)
LEMMA ChecksStay ==
  ASSUME UNCHANGED <<stack, file, settings, override, missing, keystore>>
  PROVE  /\ XtaskLoads(file)' = XtaskLoads(file)
         /\ LoadSigners' = LoadSigners
         /\ PublishedConfiguration' = PublishedConfiguration
         /\ RuntimeSourceRpc(file)' = RuntimeSourceRpc(file)
         /\ OperatorVariables' = OperatorVariables
BY DEF XtaskLoads, XtaskParses, ValidatesSelectors, CcipSelector, IsCcv, LoadSigners, Opens,
   PublishedConfiguration, RequiredKeys, CcvRequired, Overridden, RuntimeSourceRpc,
   ResolveRpcUrl, OperatorVariables

LEMMA EnsuredKeystores ==
  ASSUME Typed
  PROVE  EnsureRelayerKeystores \in [Signers -> {"none", "test", "mine"}]
<1>1. RelayerPassphrase \in {"test", "mine"} /\ keystore \in [Signers -> {"none", "test", "mine"}]
  BY DEF RelayerPassphrase, Typed, SettingsData
<1>2. GenerateKeystores(RelayerPassphrase) \in [Signers -> {"none", "test", "mine"}]
  BY <1>1 DEF GenerateKeystores
<1> QED
  BY <1>1, <1>2 DEF EnsureRelayerKeystores

LEMMA SameKeeps ==
  ASSUME StartupInv,
         UNCHANGED <<stack, file, settings, override, changes, missing, keystore, monitor,
                     operator, relayer, sent, outcome, trigger, snapshot, start, started>>
  PROVE  StartupInv'
<1>1. Typed /\ CommandFits /\ ContainersFit
  BY DEF StartupInv
<1>2. Typed'
  BY <1>1 DEF Typed, Keys, IsCcv
<1>3. LoadedFits' /\ SentFits'
  BY NothingLoaded
<1>4. CommandFits' /\ ContainersFit'
  BY <1>1, ChecksStay DEF CommandFits, ContainersFit
<1> QED
  BY <1>2, <1>3, <1>4 DEF StartupInv

(* A command begins, or ends at once.                                      *)
LEMMA BeginSteps ==
  ASSUME StartupInv, RunStart \/ RunDeploy \/ RunFinalize
  PROVE  StartupInv'
<1>1. /\ Typed /\ LoadedFits /\ SentFits /\ CommandFits /\ ContainersFit
      /\ changes \in Nat
  BY DEF StartupInv, Typed
<1>2. ASSUME UNCHANGED <<stack, file, settings, override, changes, sent, outcome, trigger,
                         snapshot>>,
             keystore' \in [Signers -> {"none", "test", "mine"}],
             missing' \in Keys \cup {"none", "all"},
             UNCHANGED <<monitor, operator, relayer>>
               \/ (stack.local /\ ResetLocalRuntime),
             XtaskLoads(file),
             start' = IdleStart \/ \E pc \in {"publish", "generate"}, d \in BOOLEAN :
                                      start' = Begun(pc, d),
             started' = FALSE
      PROVE  StartupInv'
  <2>1. /\ start' \in CommandData /\ start'.pc \in {"idle", "publish", "generate"}
        /\ start'.pc # "idle" => start'.at = changes
    BY <1>1, <1>2, ConstantFields DEF Begun, CommandData
  <2>2. /\ operator' \in [Operators -> OperatorData]
        /\ monitor' \in [up : BOOLEAN, env : Secrets, secret : Secrets]
        /\ relayer' \in [up : BOOLEAN, pass : {"none", "unset", "test", "mine"}]
        /\ \A o \in Operators : HasLoaded(o)' => operator'[o] = operator[o]
    <3>1. CASE UNCHANGED <<monitor, operator, relayer>>
      BY <1>1, <3>1 DEF Typed
    <3>2. CASE ResetLocalRuntime
      BY <3>2, ConstantFields DEF ResetLocalRuntime, HasLoaded
    <3> QED
      BY <1>2, <3>1, <3>2
  <2>3. Typed'
    BY <1>1, <1>2, <2>1, <2>2 DEF Typed, Keys, IsCcv
  <2>4. LoadedFits' /\ SentFits'
    BY <1>2, <2>2, NothingLoaded
  <2>5. XtaskLoads(file)'
    BY <1>2 DEF XtaskLoads, XtaskParses, ValidatesSelectors, CcipSelector, IsCcv
  <2>6. CommandFits' /\ ContainersFit'
    BY <1>2, <2>1, <2>5 DEF CommandFits, ContainersFit
  <2> QED
    BY <2>3, <2>4, <2>6 DEF StartupInv
<1>3. CASE RunStart
  <2>1. CASE BringUp /\ XtaskLoads(file)
    BY <1>1, <1>2, <2>1 DEF BringUp, Typed, inputVars, deployedVars, messageVars,
       containerVars
  <2>2. CASE UNCHANGED startupVars
    BY <2>2, SameKeeps DEF startupVars, inputVars, deployedVars, containerVars, messageVars,
       commandVars
  <2> QED
    BY <1>3, <2>1, <2>2 DEF RunStart
<1>4. CASE RunDeploy
  <2>1. CASE start' = Begun("publish", TRUE) /\ started' = FALSE
    BY <1>1, <1>2, <1>4, <2>1, EnsuredKeystores DEF RunDeploy, Typed, inputVars,
       messageVars, containerVars
  <2>2. CASE UNCHANGED <<start, started>>
    <3>1. /\ keystore' \in [Signers -> {"none", "test", "mine"}] /\ start.pc = "idle"
          /\ UNCHANGED <<stack, file, settings, override, changes, missing, monitor, operator,
                         relayer, sent, outcome, trigger, snapshot, start, started>>
      BY <1>1, <1>4, <2>2, EnsuredKeystores, ConstantFields DEF RunDeploy, inputVars,
         messageVars, containerVars
    <3>2. Typed'
      BY <1>1, <3>1 DEF Typed, Keys, IsCcv
    <3>3. LoadedFits' /\ SentFits'
      BY <3>1, NothingLoaded
    <3>4. CommandFits' /\ ContainersFit'
      BY <1>1, <3>1 DEF CommandFits, ContainersFit
    <3> QED
      BY <3>2, <3>3, <3>4 DEF StartupInv
  <2> QED
    BY <1>4, <2>1, <2>2 DEF RunDeploy
<1>5. CASE RunFinalize
  <2>1. /\ UNCHANGED <<stack, file, settings, override, changes, keystore, sent, outcome,
                       trigger, snapshot, monitor, operator, relayer>>
        /\ missing' \in Keys \cup {"none", "all"} /\ XtaskLoads(file)
        /\ start' = Begun("generate", TRUE) /\ started' = FALSE
    BY <1>1, <1>5 DEF RunFinalize, Typed, inputVars, messageVars, containerVars
  <2> QED
    BY <1>1, <1>2, <2>1 DEF Typed
<1> QED
  BY <1>3, <1>4, <1>5

(* A step of a command that leaves the containers alone.                   *)
LEMMA CheckSteps ==
  ASSUME StartupInv, PublishDeployed \/ GenerateArtifacts \/ VerifySigners \/ ValidateStack
                     \/ UpFails \/ StartFails \/ StartSucceeds
  PROVE  StartupInv'
<1>1. /\ Typed /\ CommandFits /\ ContainersFit /\ start \in CommandData
      /\ start.pc # "idle" /\ ~started /\ start.at = changes /\ XtaskLoads(file)
  BY DEF StartupInv, Typed, CommandFits, PublishDeployed, GenerateArtifacts, VerifySigners,
     ValidateStack, UpFails, StartFails, StartSucceeds
<1>2. /\ UNCHANGED <<stack, file, settings, override, changes, keystore, monitor, operator,
                     relayer, sent, outcome, snapshot>>
      /\ missing' \in Keys \cup {"none", "all"} /\ trigger' \in Secrets
      /\ UNCHANGED missing \/ start.pc = "publish"
      /\ UNCHANGED trigger \/ start.pc = "generate"
  BY <1>1 DEF PublishDeployed, GenerateArtifacts, VerifySigners, ValidateStack, UpFails,
     StartFails, StartSucceeds, OnlyCommand, inputVars, deployedVars, containerVars,
     messageVars, Typed, SettingsData, Secrets
<1>3. /\ start' \in CommandData
      /\ \/ start'.pc = "idle" /\ UNCHANGED started
         \/ start'.pc = "idle" /\ StartSucceeds
         \/ /\ UNCHANGED started /\ start'.pc # "idle"
            /\ start'.deploys = start.deploys /\ start'.at = start.at
            /\ \/ PublishDeployed /\ start'.pc = "generate"
               \/ GenerateArtifacts /\ start'.pc = IF start.deploys THEN "validate" ELSE "signers"
               \/ VerifySigners /\ start'.pc = "validate"
               \/ ValidateStack /\ start'.pc = "up"
               \/ UpFails /\ start'.pc = "up"
  <2>1. CASE start' = IdleStart
    BY <2>1, ConstantFields DEF PublishDeployed, GenerateArtifacts, VerifySigners,
       ValidateStack, UpFails, StartFails, StartSucceeds
  <2>2. CASE PublishDeployed /\ GotoStart("generate")
    BY <1>1, <2>2, GotoFields DEF PublishDeployed
  <2>3. CASE GenerateArtifacts /\ GotoStart(IF start.deploys THEN "validate" ELSE "signers")
    <3>1. (IF start.deploys THEN "validate" ELSE "signers") \in {"validate", "signers"}
      OBVIOUS
    <3> QED
      BY <1>1, <2>3, <3>1, GotoFields DEF GenerateArtifacts
  <2>4. CASE VerifySigners /\ GotoStart("validate")
    BY <1>1, <2>4, GotoFields DEF VerifySigners
  <2>5. CASE ValidateStack /\ GotoStart("up")
    BY <1>1, <2>5, GotoFields DEF ValidateStack
  <2>6. CASE UpFails /\ start' = [start EXCEPT !.pc = "up", !.attempt = @ + 1]
    <3>1. PICK old \in CommandData : old = start
      BY <1>1
    <3>2. [old EXCEPT !.pc = "up", !.attempt = @ + 1] =
            [pc |-> "up", deploys |-> old.deploys, attempt |-> old.attempt + 1, at |-> old.at]
      <4>1. [old EXCEPT !.pc = "up"] =
              [pc |-> "up", deploys |-> old.deploys, attempt |-> old.attempt, at |-> old.at]
        BY DEF CommandData
      <4>2. [old EXCEPT !.pc = "up", !.attempt = @ + 1] =
              [[old EXCEPT !.pc = "up"] EXCEPT !.attempt = old.attempt + 1]
        BY DEF CommandData
      <4>3. [[pc |-> "up", deploys |-> old.deploys, attempt |-> old.attempt, at |-> old.at]
               EXCEPT !.attempt = old.attempt + 1] =
              [pc |-> "up", deploys |-> old.deploys, attempt |-> old.attempt + 1, at |-> old.at]
        OBVIOUS
      <4> QED
        BY <4>1, <4>2, <4>3
    <3>3. start' = [pc |-> "up", deploys |-> start.deploys, attempt |-> start.attempt + 1,
                    at |-> start.at]
      BY <2>6, <3>1, <3>2
    <3>4. start' \in CommandData
      BY <1>1, <3>3 DEF CommandData
    <3> QED
      BY <2>6, <3>3, <3>4 DEF UpFails
  <2> QED
    BY <2>1, <2>2, <2>3, <2>4, <2>5, <2>6 DEF PublishDeployed, GenerateArtifacts,
       VerifySigners, ValidateStack, UpFails, StartFails, StartSucceeds
<1>4. started' \in BOOLEAN
  BY <1>1, <1>3 DEF Typed, StartSucceeds
<1>5. Typed'
  BY <1>1, <1>2, <1>3, <1>4 DEF Typed, Keys, IsCcv
<1>6. LoadedFits' /\ SentFits'
  BY <1>2, NothingLoaded
<1>7. XtaskLoads(file)' /\ LoadSigners' = LoadSigners
      /\ RuntimeSourceRpc(file)' = RuntimeSourceRpc(file)
      /\ OperatorVariables' = OperatorVariables
  BY <1>1, <1>2 DEF XtaskLoads, XtaskParses, ValidatesSelectors, CcipSelector, IsCcv,
     LoadSigners, Opens, RuntimeSourceRpc, ResolveRpcUrl, OperatorVariables
<1>8. CASE start'.pc = "idle"
  <2>1. CommandFits'
    BY <1>8 DEF CommandFits
  <2>2. ContainersFit'
    <3>1. CASE UNCHANGED started
      BY <1>1, <1>8, <3>1 DEF ContainersFit
    <3>2. CASE StartSucceeds
      <4>1. /\ snapshot = OperatorVariables /\ start.pc = "wait" /\ UNCHANGED trigger
            /\ ~stack.local => /\ monitor.secret = trigger
                               /\ \A o \in Operators : operator[o].vars = OperatorVariables
        BY <1>1, <3>2 DEF StartSucceeds, ContainersFit
      <4>2. trigger = settings.secret
        BY <1>1, <4>1 DEF CommandFits
      <4>3. OperatorVariables.secret = settings.secret
        BY DEF OperatorVariables
      <4> QED
        BY <1>2, <1>8, <4>1, <4>2, <4>3 DEF ContainersFit
    <3> QED
      BY <1>3, <1>8, <3>1, <3>2
  <2> QED
    BY <1>5, <1>6, <2>1, <2>2 DEF StartupInv
<1>9. CASE /\ UNCHANGED started /\ start'.pc # "idle"
           /\ start'.deploys = start.deploys /\ start'.at = start.at
           /\ \/ PublishDeployed /\ start'.pc = "generate"
              \/ GenerateArtifacts /\ start'.pc = IF start.deploys THEN "validate" ELSE "signers"
              \/ VerifySigners /\ start'.pc = "validate"
              \/ ValidateStack /\ start'.pc = "up"
              \/ UpFails /\ start'.pc = "up"
  <2>1. ContainersFit'
    <3>1. start'.pc # "wait" /\ started' = FALSE
      <4>1. (IF start.deploys THEN "validate" ELSE "signers") # "wait"
        OBVIOUS
      <4> QED
        BY <1>1, <1>9, <4>1 DEF Typed
    <3> QED
      BY <3>1 DEF ContainersFit
  <2>2. CommandFits'
    <3>1. ~started' /\ start'.at = changes' /\ XtaskLoads(file)'
      BY <1>1, <1>2, <1>7, <1>9
    <3>2. CASE PublishDeployed /\ start'.pc = "generate"
      BY <3>1, <3>2 DEF CommandFits
    <3>3. CASE GenerateArtifacts /\ start'.pc = IF start.deploys THEN "validate" ELSE "signers"
      <4>1. trigger' = settings'.secret
        BY <1>2, <1>9, <3>3, ConstantFields DEF GenerateArtifacts
      <4> QED
        BY <1>9, <3>1, <3>3, <4>1 DEF CommandFits
    <3>4. CASE VerifySigners /\ start'.pc = "validate"
      <4>1. LoadSigners' /\ trigger' = settings'.secret
        BY <1>1, <1>2, <1>7, <1>9, <3>4, ConstantFields DEF VerifySigners, CommandFits
      <4> QED
        BY <3>1, <3>4, <4>1 DEF CommandFits
    <3>5. CASE ValidateStack /\ start'.pc = "up"
      <4>1. /\ trigger' = settings'.secret /\ ~start.deploys /\ LoadSigners
            /\ PublishedConfiguration /\ UNCHANGED missing
            /\ ~stack.local => RuntimeSourceRpc(file) = "right"
        BY <1>1, <1>2, <1>9, <3>5, ConstantFields DEF ValidateStack, CommandFits,
           ValidateExternalRuntime
      <4>2. PublishedConfiguration'
        BY <1>2, <4>1, ChecksStay
      <4> QED
        BY <1>2, <1>7, <1>9, <3>1, <3>5, <4>1, <4>2 DEF CommandFits
    <3>6. CASE UpFails /\ start'.pc = "up"
      <4>1. start.pc = "wait" /\ UNCHANGED <<missing, trigger>>
        BY <1>2, <3>6 DEF UpFails
      <4>2. PublishedConfiguration' = PublishedConfiguration
        BY <1>2, <4>1, ChecksStay
      <4>3. /\ trigger = settings.secret /\ ~start.deploys /\ LoadSigners
            /\ PublishedConfiguration /\ (~stack.local => RuntimeSourceRpc(file) = "right")
        BY <1>1, <4>1 DEF CommandFits
      <4>4. /\ trigger' = settings'.secret /\ ~start'.deploys /\ LoadSigners'
            /\ PublishedConfiguration'
            /\ ~stack'.local => (RuntimeSourceRpc(file)' = "right")
        BY <1>2, <1>7, <1>9, <4>1, <4>2, <4>3
      <4> QED
        BY <1>9, <3>1, <3>6, <4>4 DEF CommandFits
    <3> QED
      BY <1>9, <3>2, <3>3, <3>4, <3>5, <3>6
  <2> QED
    BY <1>5, <1>6, <2>1, <2>2 DEF StartupInv
<1> QED
  BY <1>3, <1>8, <1>9

(* Containers are created with the settings of the moment.                 *)
LEMMA ComposeUpKeeps ==
  ASSUME StartupInv, ComposeUp
  PROVE  StartupInv'
<1>1. /\ Typed /\ LoadedFits /\ SentFits /\ CommandFits /\ start \in CommandData
      /\ start.pc = "up" /\ ~started /\ start.at = changes /\ XtaskLoads(file)
      /\ trigger = settings.secret /\ trigger \in Secrets /\ settings \in SettingsData
      /\ operator \in [Operators -> OperatorData]
      /\ monitor \in [up : BOOLEAN, env : Secrets, secret : Secrets]
      /\ relayer \in [up : BOOLEAN, pass : {"none", "unset", "test", "mine"}]
  BY DEF StartupInv, Typed, CommandFits, ComposeUp
<1>2. /\ UNCHANGED <<stack, file, settings, override, changes, missing, keystore, sent,
                     outcome, trigger, started>>
      /\ snapshot' = OperatorVariables /\ GotoStart("wait")
      /\ operator' = [o \in Operators |->
           IF ~stack.local \/ operator[o].pc = "absent" \/ operator[o].vars # OperatorVariables
           THEN Created(settings, operator[o]) ELSE operator[o]]
      /\ \/ UNCHANGED monitor /\ stack.local
         \/ monitor' = [up |-> TRUE, env |-> settings.secret, secret |-> trigger]
      /\ \/ UNCHANGED relayer /\ relayer.pass = settings.pass
         \/ relayer' = [up |-> TRUE, pass |-> settings.pass]
  BY DEF ComposeUp, WriteSnapshot, inputVars, deployedVars, messageVars
<1>3. OperatorVariables \in Variables
  BY <1>1 DEF OperatorVariables, Variables, SettingsData, Secrets
<1>4. \A o \in Operators :
        /\ operator'[o] \in OperatorData
        /\ HasLoaded(o)' => operator'[o] = operator[o]
        /\ ~stack.local => operator'[o].vars = OperatorVariables
  <2> TAKE o \in Operators
  <2>1. CASE operator'[o] = operator[o] /\ stack.local
    BY <1>1, <2>1
  <2>2. CASE operator'[o] = Created(settings, operator[o])
    <3>1. operator[o] \in OperatorData
      BY <1>1
    <3>2. Created(settings, operator[o]) =
            [pc |-> "load", vars |-> OperatorVariables, loaded |-> operator[o].loaded,
             seen |-> operator[o].seen]
      <4>1. PICK old \in OperatorData : old = operator[o]
        BY <3>1
      <4>2. PICK v \in Variables : v = OperatorVariables
        BY <1>3
      <4>3. [old EXCEPT !.pc = "load", !.vars = v] =
              [pc |-> "load", vars |-> v, loaded |-> old.loaded, seen |-> old.seen]
        <5> HIDE DEF FileData, Variables
        <5>1. [old EXCEPT !.pc = "load"] =
                [pc |-> "load", vars |-> old.vars, loaded |-> old.loaded, seen |-> old.seen]
          BY DEF OperatorData
        <5>2. [old EXCEPT !.pc = "load", !.vars = v] =
                [[old EXCEPT !.pc = "load"] EXCEPT !.vars = v]
          BY DEF OperatorData
        <5>3. [[pc |-> "load", vars |-> old.vars, loaded |-> old.loaded, seen |-> old.seen]
                 EXCEPT !.vars = v] =
                [pc |-> "load", vars |-> v, loaded |-> old.loaded, seen |-> old.seen]
          OBVIOUS
        <5> QED
          BY <5>1, <5>2, <5>3
      <4> QED
        BY <4>1, <4>2, <4>3 DEF Created, OperatorVariables
    <3>3. Created(settings, operator[o]) \in OperatorData
      BY <1>3, <3>1, <3>2 DEF OperatorData
    <3>4. operator'[o].pc = "load" /\ operator'[o].vars = OperatorVariables
      BY <2>2, <3>2
    <3> QED
      BY <2>2, <3>3, <3>4 DEF HasLoaded
  <2> QED
    BY <1>2, <2>1, <2>2
<1>5. operator' \in [Operators -> OperatorData]
  <2> HIDE DEF OperatorData
  <2> QED
    BY <1>2, <1>4
<1>6. /\ monitor' \in [up : BOOLEAN, env : Secrets, secret : Secrets]
      /\ ~stack.local => monitor'.secret = trigger
      /\ relayer' \in [up : BOOLEAN, pass : {"none", "unset", "test", "mine"}]
      /\ relayer'.pass = settings.pass
  <2>1. settings.secret \in Secrets /\ settings.pass \in {"none", "unset", "test", "mine"}
    BY <1>1 DEF SettingsData, Secrets
  <2>2. /\ monitor' \in [up : BOOLEAN, env : Secrets, secret : Secrets]
        /\ ~stack.local => monitor'.secret = trigger
    <3>1. CASE UNCHANGED monitor /\ stack.local
      BY <1>1, <3>1
    <3>2. CASE monitor' = [up |-> TRUE, env |-> settings.secret, secret |-> trigger]
      BY <1>1, <2>1, <3>2
    <3> QED
      BY <1>2, <3>1, <3>2
  <2>3. /\ relayer' \in [up : BOOLEAN, pass : {"none", "unset", "test", "mine"}]
        /\ relayer'.pass = settings.pass
    <3>1. CASE UNCHANGED relayer /\ relayer.pass = settings.pass
      BY <1>1, <3>1
    <3>2. CASE relayer' = [up |-> TRUE, pass |-> settings.pass]
      BY <2>1, <3>2
    <3> QED
      BY <1>2, <3>1, <3>2
  <2> QED
    BY <2>2, <2>3
<1>7. /\ start' \in CommandData /\ start'.pc = "wait"
      /\ start'.deploys = start.deploys /\ start'.at = start.at
  BY <1>1, <1>2, GotoFields
<1>8. Typed'
  BY <1>1, <1>2, <1>3, <1>5, <1>6, <1>7 DEF Typed, Keys, IsCcv
<1>9. LoadedFits' /\ SentFits'
  BY <1>2, <1>4, NothingLoaded
<1>10. CommandFits'
  BY <1>1, <1>2, <1>7, ChecksStay DEF CommandFits
<1>11. ContainersFit'
  BY <1>1, <1>2, <1>4, <1>6, <1>7, ChecksStay DEF ContainersFit
<1> QED
  BY <1>8, <1>9, <1>10, <1>11 DEF StartupInv

-----------------------------------------------------------------------------
(* The theorems.                                                           *)

LEMMA InitFits ==
  ASSUME StartupInit
  PROVE  StartupInv
<1>1. /\ stack \in [local : BOOLEAN, provider : {"layerzero", "chainlink_ccv"}]
      /\ file = ShippedFile(stack.local, IsCcv)
      /\ settings \in [rpc : {"right"}, secret : {"old"}, pass : {"unset", "mine"}, ops : {TRUE}]
      /\ missing \in Keys \cup {"none", "all"} /\ override \in BOOLEAN
      /\ keystore \in {[n \in Signers |-> p] : p \in {"none", RelayerPassphrase}}
      /\ trigger = "none" /\ snapshot = NoVariables
      /\ monitor = NoMonitor /\ relayer = NoRelayer
      /\ operator = [o \in Operators |-> Absent]
      /\ start = IdleStart /\ started = FALSE
      /\ sent = Unsent /\ outcome = [o \in Operators |-> "none"]
      /\ changes = 0
  BY DEF StartupInit
<1>2. file \in FileData
  BY <1>1 DEF ShippedFile, NoExecutor, ExecutorOf, FileData, IsCcv
<1>3. settings \in SettingsData
  BY <1>1 DEF SettingsData
<1>4. keystore \in [Signers -> {"none", "test", "mine"}]
  <2>1. RelayerPassphrase \in {"test", "mine"}
    BY <1>1 DEF RelayerPassphrase
  <2> QED
    BY <1>1, <2>1
<1> HIDE DEF OperatorData, CommandData, Absent, NoMonitor, NoRelayer, NoVariables, Unsent
<1>5. /\ operator \in [Operators -> OperatorData]
      /\ outcome \in [Operators -> {"none", "submitted", "skipped"}]
      /\ \A o \in Operators : ~HasLoaded(o)
  BY <1>1, ConstantFields DEF HasLoaded
<1>6. trigger \in Secrets /\ started \in BOOLEAN
  BY <1>1 DEF Secrets
<1>7. Typed
  BY <1>1, <1>2, <1>3, <1>4, <1>5, <1>6, ConstantFields DEF Typed
<1>8. LoadedFits /\ SentFits /\ CommandFits /\ ContainersFit
  BY <1>1, <1>5, ConstantFields DEF LoadedFits, SentFits, CommandFits, ContainersFit
<1> QED
  BY <1>7, <1>8 DEF StartupInv

LEMMA NextKeeps ==
  ASSUME StartupInv, [StartupNext]_startupVars
  PROVE  StartupInv'
<1>1. CASE Edit
  BY <1>1, EditKeeps
<1>2. CASE StartCommand
  BY <1>2, BeginSteps, CheckSteps, ComposeUpKeeps DEF StartCommand
<1>3. CASE MonitorRestarts \/ RestartOperators \/ SendDefault
  BY <1>3, MonitorRestartsKeeps, RestartOperatorsKeeps, SendDefaultKeeps
<1>4. CASE \E o \in Operators : Load(o) \/ Build(o) \/ Serve(o) \/ Restarts(o) \/ Execute(o)
  BY <1>4, OperatorStepsKeep, ExecuteKeeps
<1>5. CASE UNCHANGED startupVars
  BY <1>5, SameKeeps DEF startupVars, inputVars, deployedVars, containerVars, messageVars,
     commandVars
<1> QED
  BY <1>1, <1>2, <1>3, <1>4, <1>5 DEF StartupNext

(* Files, running command, containers and messages fit together in every   *)
(* reachable state, however the files are edited between commands.         *)
THEOREM StartupInvariant ==
  StartupSpec => []StartupInv
<1>1. StartupInit => StartupInv
  BY InitFits
<1>2. StartupInv /\ [StartupNext]_startupVars => StartupInv'
  BY NextKeeps
<1> QED
  BY <1>1, <1>2, PTL DEF StartupSpec

(* A start on public chains leaves monitor and operators with one webhook  *)
(* secret, until the next command that writes the triggers.                *)
THEOREM WebhooksStayAuthentic ==
  StartupSpec => []WebhooksAuthenticate
<1>1. StartupInv => WebhooksAuthenticate
  BY DEF StartupInv, ContainersFit, WebhooksAuthenticate
<1> QED
  BY <1>1, StartupInvariant, PTL

(* What validate and verify_signers checked, the relayer can open and the  *)
(* operators can read and sweep by.                                        *)
LEMMA InvariantMeansReadable ==
  ASSUME StartupInv
  PROVE  ValidatedIsReadable
<1> SUFFICES ASSUME start.pc = "wait"
             PROVE  /\ Opens(relayer.pass)
                    /\ \A o \in Operators :
                         operator[o].pc = "build" /\ operator[o].seen = start.at /\ ~override =>
                           /\ ReadsDeployments(operator[o].loaded)
                           /\ ~stack.local /\ operator[o].loaded.sweep = "on"
                              /\ operator[o].loaded.rpc # "none" =>
                                /\ SweepRuns(operator[o].loaded, operator[o].vars)
                                /\ ResolvedRpcUrl(operator[o].loaded, operator[o].vars) = "right"
  BY DEF ValidatedIsReadable
<1>1. /\ Typed /\ start.at = changes /\ XtaskLoads(file) /\ LoadSigners
      /\ PublishedConfiguration /\ relayer.pass = settings.pass
      /\ ~stack.local => /\ RuntimeSourceRpc(file) = "right"
                         /\ \A o \in Operators : operator[o].vars = OperatorVariables
  BY DEF StartupInv, CommandFits, ContainersFit
<1>2. Opens(relayer.pass)
  BY <1>1 DEF LoadSigners
<1>3. ASSUME NEW o \in Operators, operator[o].pc = "build", operator[o].seen = start.at,
             ~override
      PROVE  /\ ReadsDeployments(operator[o].loaded)
             /\ ~stack.local /\ operator[o].loaded.sweep = "on"
                /\ operator[o].loaded.rpc # "none" =>
                  /\ SweepRuns(operator[o].loaded, operator[o].vars)
                  /\ ResolvedRpcUrl(operator[o].loaded, operator[o].vars) = "right"
  <2>1. operator[o].loaded = file /\ OperatorParses(file)
    BY <1>1, <1>3 DEF StartupInv, LoadedFits, HasLoaded
  <2>2. missing \notin RequiredKeys /\ missing # "all"
    BY <1>1 DEF PublishedConfiguration
  <2>3. ReadsDeployments(file)
    BY <1>1, <1>3, <2>2 DEF ReadsDeployments, NestedDeployments, RequiredKeys, CcvRequired,
       LzRequired, Overridden, XtaskLoads, ValidatesSelectors
  <2>4. ASSUME ~stack.local, file.sweep = "on", file.rpc # "none"
        PROVE  SweepRuns(file, operator[o].vars) /\ ResolvedRpcUrl(file, operator[o].vars) = "right"
    <3>1. file.rpc \in {"literal", "env"} /\ operator[o].vars.rpc = settings.rpc
      BY <1>1, <2>1, <2>4 DEF Typed, FileData, OperatorParses, OperatorVariables
    <3>2. ResolvedRpcUrl(file, operator[o].vars) = "right"
      BY <1>1, <2>4, <3>1 DEF ResolvedRpcUrl, RuntimeSourceRpc, ResolveRpcUrl
    <3>3. SweepFilters
      BY <2>2 DEF SweepFilters, RequiredKeys, LzRequired
    <3> QED
      BY <2>4, <3>2, <3>3 DEF SweepRuns
  <2> QED
    BY <2>1, <2>3, <2>4
<1> QED
  BY <1>2, <1>3

THEOREM ValidatedStaysReadable ==
  StartupSpec => []ValidatedIsReadable
<1>1. StartupInv => ValidatedIsReadable
  BY InvariantMeansReadable
<1> QED
  BY <1>1, StartupInvariant, PTL

(* Two readers of one file agree on the default executor: of a message     *)
(* sent from the file an operator has loaded none is skipped.              *)
LEMMA DefaultStep ==
  ASSUME StartupInv, [StartupNext]_startupVars, NEW o \in Operators,
         outcome[o] = "none", outcome'[o] = "skipped"
  PROVE  operator[o].seen # sent.at
<1>1. \E p \in Operators : Execute(p)
  BY DEF StartupNext, startupVars, messageVars, Edit, StartCommand, RunStart, BringUp,
     RunDeploy, RunFinalize, PublishDeployed, GenerateArtifacts, VerifySigners,
     ValidateStack, ComposeUp, StartSucceeds, UpFails, StartFails, OnlyCommand,
     MonitorRestarts, RestartOperators, SendDefault, Load, Build, Serve, Restarts,
     OnlyOperators
<1>2. PICK p \in Operators : Execute(p)
  BY <1>1
<1>3. p = o
  BY <1>2 DEF Execute, StartupInv, Typed
<1>4. /\ sent # Unsent /\ operator[o].pc = "serving" /\ ExecutorEnabled(operator[o].loaded)
      /\ operator[o].loaded.executor.address \notin {"unset", sent.to}
  BY <1>2, <1>3 DEF Execute, StartupInv, Typed
<1> SUFFICES ASSUME operator[o].seen = sent.at
             PROVE  FALSE
  OBVIOUS
<1>5. /\ XtaskParses(operator[o].loaded)
      /\ sent.to = OperatorExecutorAddress(operator[o].loaded)
  BY <1>4 DEF StartupInv, SentFits, Designates, HasLoaded
<1>6. operator[o].loaded.executor.enabled = "on"
  BY <1>4, <1>5 DEF XtaskParses, ExecutorEnabled, NoExecutor
<1> QED
  BY <1>4, <1>5, <1>6 DEF OperatorExecutorAddress

THEOREM DefaultsAreSubmitted ==
  StartupSpec => DefaultIsSubmitted
<1>1. StartupInv /\ [StartupNext]_startupVars =>
        [\A o \in Operators :
           outcome[o] = "none" /\ outcome'[o] = "skipped" => operator[o].seen # sent.at]_startupVars
  BY DefaultStep
<1> QED
  BY <1>1, StartupInvariant, PTL DEF StartupSpec, DefaultIsSubmitted

=============================================================================
