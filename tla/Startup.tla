------------------------------- MODULE Startup -------------------------------
(***************************************************************************)
(* How a deployed stack comes up and stays up: xtask start, the containers *)
(* it creates, and the operator's start inside them.  Two programs read    *)
(* the same config/environments/<env>.json and deployments/<env>.json,     *)
(* each with a reader of its own and at its own time: xtask when a command *)
(* runs, an operator whenever its container starts, which a crash can make *)
(* any time.  The variables of a container are those of its creation.      *)
(*                                                                         *)
(* Files and settings are edited between commands, not under one.  Of the  *)
(* environment file the model keeps what the two readers judge, of the     *)
(* settings (.env.<env>) the source RPC, the webhook secret and the        *)
(* passphrases, and of the deployments at most one key that is not         *)
(* published.  The keystores are those of the relayer, in their order.     *)
(* The chain's part of a command is in Deployment; here it may fail.       *)
(***************************************************************************)
EXTENDS Integers

CONSTANTS
  Operators,
  SignerCount, \* RELAYER_SIGNER_COUNT (3 in the code)
  MaxChanges,  \* bound on the edits
  MaxUps       \* attempts of docker compose up (3 in the code)

ASSUME StartupConstants ==
  MaxChanges \in Nat /\ MaxUps \in Nat \ {0} /\ SignerCount \in Nat \ {0}

VARIABLES
  stack,     \* whether the chains are local, and the provider
  file,      \* config/environments/<env>.json
  settings,  \* .env.<env>
  missing,   \* the key deployments/<env>.json lacks
  keystore,  \* the passphrase of each of the relayer's keystores
  override,  \* whether CCV_*_ADDRESS variables are set where xtask runs
  trigger,   \* the secret in the monitor's generated triggers
  snapshot,  \* generated/<env>/compose.env
  monitor,   \* the monitor's container
  operator,  \* the operators' containers
  relayer,   \* the relayer's container
  start,     \* the running command: a start, or a deploy or finalize
  started,   \* whether a start has succeeded and none begun since
  sent,      \* a message sent with the default executor
  outcome,   \* what each operator has decided of it
  changes

inputVars     == <<stack, file, settings, override, changes>>
deployedVars  == <<missing, keystore>>
containerVars == <<monitor, operator, relayer>>
messageVars   == <<sent, outcome>>
commandVars   == <<trigger, snapshot, start, started>>
startupVars   == <<inputVars, deployedVars, containerVars, messageVars, commandVars>>

IsCcv == stack.provider = "chainlink_ccv"

---------------------------------------------------------------------------
(* The files *)

NoExecutor == [enabled |-> "unset", address |-> "unset"]
ExecutorOf(enabled, address) == [enabled |-> enabled, address |-> address]

\* The environment files of the repository.
ShippedFile(local, ccv) ==
  [rpc       |-> IF local /\ ~ccv THEN "none" ELSE "env",
   selectors |-> ~local /\ ccv,
   finality  |-> IF local /\ ccv THEN "on" ELSE "default",
   executor  |-> IF ccv THEN ExecutorOf("on", "self") ELSE NoExecutor,
   sweep     |-> "on",
   hooks     |-> "none",
   balance   |-> "plain"]

\* What a field may be edited to.  rpc: no endpoint, a plain string, a tagged
\* literal, or a reference to SOURCE_RPC_URL.  balance: a number of 64 bits,
\* of more, or none.
FieldValues ==
  [rpc       |-> {"none", "string", "literal", "env"},
   selectors |-> BOOLEAN,
   finality  |-> {"default", "on", "off"},
   executor  |-> {NoExecutor} \cup
                 {ExecutorOf(e, a) : e \in {"unset", "on", "off"}, a \in {"zero", "self", "bad"}},
   sweep     |-> {"on", "off", "zero"},
   hooks     |-> {"none", "invalid", "duplicate", "reserved", "unset"},
   balance   |-> {"plain", "wide", "bad"}]

\* And a setting.  ops: whether the passphrases of the other signers are there.
SettingValues ==
  [rpc    |-> {"none", "right", "wrong"},
   secret |-> {"old", "new", "short"},
   pass   |-> {"unset", "test", "mine"},
   ops    |-> BOOLEAN]

Keys ==
  IF IsCcv THEN {"src.resolver", "dst.resolver", "src.verifier", "dst.verifier",
                 "src.onRamp", "dst.onRamp", "src.offRamp", "dst.offRamp"}
           ELSE {"src.dvn", "dst.dvn"}

Signers == 1..SignerCount

\* generate-signer, which asks for a passphrase of its own.
GenerateSigner ==
  \E n \in Signers, p \in {"test", "mine"} :
    /\ keystore[n] = "none"
    /\ keystore' = [keystore EXCEPT ![n] = p]
    /\ UNCHANGED <<file, settings, missing>>

\* A user edits a field or a setting, or makes a keystore.
Edit ==
  /\ start.pc = "idle" /\ changes < MaxChanges
  /\ changes' = changes + 1
  /\ \/ \E f \in DOMAIN FieldValues : \E v \in FieldValues[f] :
          file' = [file EXCEPT ![f] = v] /\ UNCHANGED <<settings, deployedVars>>
     \/ \E f \in DOMAIN SettingValues : \E v \in SettingValues[f] :
          settings' = [settings EXCEPT ![f] = v] /\ UNCHANGED <<file, deployedVars>>
     \/ GenerateSigner
  /\ UNCHANGED <<stack, override, containerVars, messageVars, commandVars>>

---------------------------------------------------------------------------
(* The operator's reading *)

\* An endpoint is an object with a type and a value.
OperatorParses(f) == f.rpc # "string"

\* A variable is looked up in the container; there is no other source.
ResolvedRpcUrl(f, v) ==
  CASE f.rpc = "literal" -> "right" [] f.rpc = "env" -> v.rpc [] OTHER -> "none"

CcipSelector(f) == f.selectors \/ stack.local

NestedDeployments ==
  IF IsCcv THEN {"src.resolver", "dst.resolver", "src.onRamp", "dst.offRamp"} ELSE {"dst.dvn"}

ReadsDeployments(f) ==
  missing \notin NestedDeployments \cup {"all"} /\ (IsCcv => CcipSelector(f))

ResolvesHookEnv(f)   == f.hooks # "unset"
ValidatesHeaders(f)  == f.hooks # "reserved"
ValidatesHook(f)     == f.hooks # "invalid" /\ ValidatesHeaders(f)
UniqueHookKeys(f)    == f.hooks # "duplicate"

ValidatesConfig(f) == f.sweep # "zero" /\ ValidatesHook(f) /\ UniqueHookKeys(f)

\* Without a word in the file only LayerZero is self-executed.
ExecutorEnabled(f) ==
  f.executor.enabled = "on" \/ (f.executor.enabled = "unset" /\ ~IsCcv)

FromEnvironment(f) ==
  /\ ResolvesHookEnv(f)
  /\ ReadsDeployments(f)
  /\ f.executor.address # "bad"
  /\ ValidatesConfig(f)

ValidatesSecrets(v) == v.secret # "short"

\* Without a word in the file CCV is gated.
FinalityGating(f) == f.finality = "on" \/ (f.finality = "default" /\ IsCcv)

HasFinalityReader(f, v) == FinalityGating(f) => ResolvedRpcUrl(f, v) # "none"

\* A LayerZero operator starts without the source DVN, and sweeps nothing.
SweepFilters == IsCcv \/ missing # "src.dvn"

SweepRuns(f, v) == f.sweep = "on" /\ ResolvedRpcUrl(f, v) # "none" /\ SweepFilters

---------------------------------------------------------------------------
(* The operator's start *)

NoVariables == [rpc |-> "none", secret |-> "none"]
Absent == [pc |-> "absent", vars |-> NoVariables, loaded |-> ShippedFile(TRUE, FALSE), seen |-> 0]
Created(v, op) == [op EXCEPT !.pc = "load", !.vars = [rpc |-> v.rpc, secret |-> v.secret]]

To(o, pc) == operator' = [operator EXCEPT ![o].pc = pc]
OnlyOperators ==
  UNCHANGED <<inputVars, deployedVars, monitor, relayer, messageVars, commandVars>>

Load(o) ==
  /\ operator[o].pc = "load"
  /\ IF OperatorParses(file)
     THEN operator' = [operator EXCEPT ![o].pc = "build", ![o].loaded = file, ![o].seen = changes]
     ELSE To(o, "refused")
  /\ OnlyOperators

Build(o) ==
  /\ operator[o].pc = "build"
  /\ To(o, IF FromEnvironment(operator[o].loaded) THEN "connect" ELSE "refused")
  /\ OnlyOperators

\* Secrets, then what is created from them; the sidecar may not answer.
Serve(o) ==
  LET op == operator[o]
  IN /\ op.pc = "connect"
     /\ \/ To(o, IF ValidatesSecrets(op.vars) /\ HasFinalityReader(op.loaded, op.vars)
                 THEN "serving" ELSE "refused")
        \/ To(o, "refused")
     /\ OnlyOperators

\* A container whose program ends, for whatever reason, is started again.
Restarts(o) ==
  /\ operator[o].pc \in {"refused", "serving"}
  /\ To(o, "load")
  /\ OnlyOperators

---------------------------------------------------------------------------
(* xtask's reading *)

\* An endpoint may be a string; an executor has both its fields.
XtaskParses(f) ==
  \/ f.executor = NoExecutor
  \/ f.executor.enabled # "unset" /\ f.executor.address # "unset"

ValidatesSelectors(f) == IsCcv => CcipSelector(f)

XtaskLoads(f) == XtaskParses(f) /\ ValidatesSelectors(f)

ResolveRpcUrl(f) ==
  CASE f.rpc \in {"string", "literal"} -> "right"
    [] f.rpc = "env" -> settings.rpc
    [] OTHER -> "none"

\* An endpoint of the file, or else the setting.
RuntimeSourceRpc(f) ==
  CASE stack.local -> "right"
    [] ~stack.local /\ ResolveRpcUrl(f) # "none" -> ResolveRpcUrl(f)
    [] OTHER -> settings.rpc

Overridden == IF override THEN {"src.onRamp", "dst.onRamp", "src.offRamp", "dst.offRamp"} ELSE {}

CcvRequired == {"src.resolver", "dst.resolver", "src.verifier", "dst.verifier",
                "src.onRamp", "dst.onRamp", "src.offRamp", "dst.offRamp"} \ Overridden
LzRequired == {"src.dvn", "dst.dvn"}

\* Fault: the destination OffRamp is only used by the operators, and not asked for.
RequiredButOffRamp == IF IsCcv THEN CcvRequired \ {"dst.offRamp"} ELSE LzRequired

\* The keys a validation asks deployments for.
RequiredKeys == IF IsCcv THEN CcvRequired ELSE LzRequired

PublishedConfiguration == missing \notin RequiredKeys \cup {"all"}

\* Other keystores than the relayer's, each with a passphrase in the settings.
ResolveSigner == settings.ops

\* Local operators and deployers are anvil's accounts.
OperatorSigners == stack.local \/ ResolveSigner

\* Fault: a message designates nobody unless told to.
NobodyDesignated(f) == "zero"

\* The address the file names, while self-execution is on.
OperatorExecutorAddress(f) ==
  IF f.executor.enabled = "on" THEN f.executor.address ELSE "zero"

---------------------------------------------------------------------------
(* The relayer's keystores *)

\* Every keystore is there and opens with the passphrase.
Opens(p) == \A n \in Signers : keystore[n] = p

\* Only what generates keystores has a passphrase of its own to fall back on.
RelayerPassphrase == IF settings.pass = "unset" THEN "test" ELSE settings.pass

\* In their order, each that is missing is made and then each is opened: the
\* first that has another passphrase ends it.
GenerateKeystores(p) ==
  [n \in Signers |->
     IF keystore[n] = "none" /\ \A m \in 1..(n-1) : keystore[m] \in {"none", p}
     THEN p ELSE keystore[n]]

\* Keystores that are all there are not opened.
EnsureRelayerKeystores ==
  IF \A n \in Signers : keystore[n] # "none" THEN keystore ELSE GenerateKeystores(RelayerPassphrase)

KeystoresEnsured ==
  \/ \A n \in Signers : keystore[n] # "none"
  \/ \A n \in Signers : keystore[n] \in {"none", RelayerPassphrase}

LoadSigners == settings.pass # "unset" /\ Opens(settings.pass)

---------------------------------------------------------------------------
(* Commands *)

IdleStart == [pc |-> "idle", deploys |-> FALSE, attempt |-> 1, at |-> 0]
Begun(pc, deploys) == [pc |-> pc, deploys |-> deploys, attempt |-> 1, at |-> changes]
GotoStart(pc) == start' = [start EXCEPT !.pc = pc]
OnlyCommand == UNCHANGED <<inputVars, deployedVars, messageVars, containerVars>>

DeploymentComplete == missing # "all"

NoMonitor == [up |-> FALSE, env |-> "none", secret |-> "none"]
NoRelayer == [up |-> FALSE, pass |-> "none"]

\* The service containers are removed, not the chains.
ResetLocalRuntime ==
  /\ operator' = [o \in Operators |-> Absent]
  /\ monitor' = NoMonitor /\ relayer' = NoRelayer

\* A local stack that is told to reset does so before anything else.
BringUp ==
  /\ UNCHANGED containerVars \/ (stack.local /\ ResetLocalRuntime)
  /\ start' = IF DeploymentComplete THEN Begun("generate", FALSE) ELSE IdleStart
  /\ started' = FALSE
  /\ UNCHANGED <<inputVars, deployedVars, messageVars, trigger, snapshot>>

RunStart ==
  /\ start = IdleStart
  /\ IF XtaskLoads(file) THEN BringUp ELSE UNCHANGED startupVars

\* Deploy makes sure of the keystores before it does anything on the chain.
RunDeploy ==
  /\ start = IdleStart /\ XtaskLoads(file)
  /\ RuntimeSourceRpc(file) \in {"right", "wrong"}
  /\ keystore' = EnsureRelayerKeystores
  /\ IF KeystoresEnsured
     THEN start' = Begun("publish", TRUE) /\ started' = FALSE
     ELSE UNCHANGED <<start, started>>
  /\ UNCHANGED <<inputVars, missing, containerVars, messageVars, trigger, snapshot>>

\* The scripts of a relay are given the operators' keys and the signers'
\* addresses.
RelayEnvs == OperatorSigners /\ LoadSigners

\* What the scripts have written is published; a relay that is there is kept.
PublishDeployed ==
  /\ start.pc = "publish"
  /\ IF RelayEnvs \/ missing # "all"
     THEN missing' = "none" /\ GotoStart("generate")
     ELSE missing' = missing /\ start' = IdleStart
  /\ UNCHANGED <<inputVars, keystore, containerVars, messageVars, trigger, snapshot, started>>

\* Finalize publishes what an earlier deploy has written.
RunFinalize ==
  /\ start = IdleStart /\ XtaskLoads(file)
  /\ \/ missing' = missing
     \/ missing' = "none" /\ \A n \in Signers : keystore[n] # "none"
  /\ start' = Begun("generate", TRUE) /\ started' = FALSE
  /\ UNCHANGED <<inputVars, keystore, containerVars, messageVars, trigger, snapshot>>

MonitorAddress == IF IsCcv THEN "src.onRamp" ELSE "src.dvn"

RenderMonitorNetwork == RuntimeSourceRpc(file) # "none"
RenderMonitorDefinition ==
  MonitorAddress \in Overridden \/ missing \notin {MonitorAddress, "all"}
RenderRelayer        == stack.local \/ file.balance = "plain"
RenderSidecarEnvs    == RuntimeSourceRpc(file) # "none" /\ OperatorSigners

\* What cannot be rendered leaves what was rendered before it.
GenerateArtifacts ==
  /\ start.pc = "generate"
  /\ trigger' = IF RenderMonitorNetwork THEN settings.secret ELSE trigger
  /\ IF RenderMonitorNetwork /\ RenderMonitorDefinition /\ RenderRelayer /\ RenderSidecarEnvs
     THEN GotoStart(IF start.deploys THEN "validate" ELSE "signers") ELSE start' = IdleStart
  /\ OnlyCommand /\ UNCHANGED <<snapshot, started>>

VerifySigners ==
  /\ start.pc = "signers"
  /\ IF LoadSigners THEN GotoStart("validate") ELSE start' = IdleStart
  /\ OnlyCommand /\ UNCHANGED <<trigger, snapshot, started>>

LoadRequired == XtaskParses(file)

\* The RPC answers, for the chain the file names, and there is a deployer.
ValidateExternalRuntime == RuntimeSourceRpc(file) = "right" /\ OperatorSigners

\* The relayer's least balance is a number of 128 bits here.
ValidateRelayerSigners == LoadSigners /\ file.balance \in {"plain", "wide"}

\* A deploy on public chains leaves the signers to the start.
ManagedOperators == ~start.deploys \/ stack.local

ValidateStack ==
  /\ start.pc = "validate"
  /\ IF /\ LoadRequired
        /\ stack.local \/ ValidateExternalRuntime
        /\ PublishedConfiguration
        /\ ManagedOperators => ValidateRelayerSigners /\ OperatorSigners
        /\ ~start.deploys
     THEN GotoStart("up") ELSE start' = IdleStart
  /\ OnlyCommand /\ UNCHANGED <<trigger, snapshot, started>>

\* What the compose file gives the operators of .env.<env>.
OperatorVariables == [rpc |-> settings.rpc, secret |-> settings.secret]

\* compose.env keeps the settings for what recreates containers without xtask.
WriteSnapshot == snapshot' = OperatorVariables

\* Compose creates a container anew when told to, on public chains, or when
\* its variables have changed.
ComposeUp ==
  /\ start.pc = "up"
  /\ WriteSnapshot
  /\ operator' = [o \in Operators |->
       IF ~stack.local \/ operator[o].pc = "absent" \/ operator[o].vars # OperatorVariables
       THEN Created(settings, operator[o]) ELSE operator[o]]
  /\ monitor' = IF ~stack.local \/ ~monitor.up \/ monitor.env # settings.secret
                THEN [up |-> TRUE, env |-> settings.secret, secret |-> trigger]
                ELSE monitor
  /\ relayer' = IF ~stack.local \/ ~relayer.up \/ relayer.pass # settings.pass
                THEN [up |-> TRUE, pass |-> settings.pass] ELSE relayer
  /\ GotoStart("wait")
  /\ UNCHANGED <<inputVars, deployedVars, messageVars, trigger, started>>

\* The relayer needs every keystore, and the passphrase of its own.
Healthy == Opens(relayer.pass) /\ \A o \in Operators : operator[o].pc = "serving"

\* Compose waits for every container to be healthy; then the relays of a
\* local stack must have found each other.
StartSucceeds ==
  /\ start.pc = "wait" /\ Healthy
  /\ start' = IdleStart /\ started' = TRUE
  /\ OnlyCommand /\ UNCHANGED <<trigger, snapshot>>

UpFails ==
  /\ start.pc = "wait" /\ ~Healthy
  /\ start' = IF start.attempt < MaxUps
              THEN [start EXCEPT !.pc = "up", !.attempt = @ + 1] ELSE IdleStart
  /\ OnlyCommand /\ UNCHANGED <<trigger, snapshot, started>>

\* The chain, a keystore, docker: any step may fail.
StartFails ==
  /\ start.pc # "idle"
  /\ start' = IdleStart
  /\ OnlyCommand /\ UNCHANGED <<trigger, snapshot, started>>

---------------------------------------------------------------------------
(* What happens without xtask *)

MonitorRestarts ==
  /\ monitor.up
  /\ monitor' = [monitor EXCEPT !.secret = trigger]
  /\ UNCHANGED <<inputVars, deployedVars, operator, relayer, messageVars, commandVars>>

\* Fault: the settings are read where they are edited.
SettingsNow == settings

RestartVariables == snapshot

\* make restart-operators: compose, given compose.env.
RestartOperators ==
  /\ start.pc = "idle"
  /\ snapshot # NoVariables
  /\ operator' = [o \in Operators |-> Created(RestartVariables, operator[o])]
  /\ OnlyOperators

---------------------------------------------------------------------------
(* A message sent with the default executor *)

Unsent == [to |-> "nobody", at |-> 0]

SendDefault ==
  /\ IsCcv /\ sent = Unsent
  /\ XtaskLoads(file)
  /\ OperatorExecutorAddress(file) # "bad"
  /\ sent' = [to |-> OperatorExecutorAddress(file), at |-> changes]
  /\ UNCHANGED <<inputVars, deployedVars, containerVars, commandVars, outcome>>

\* A decision is kept: a skipped message is not looked at again.
Execute(o) ==
  LET f == operator[o].loaded
  IN /\ sent # Unsent /\ outcome[o] = "none"
     /\ operator[o].pc = "serving" /\ ExecutorEnabled(f)
     /\ outcome' = [outcome EXCEPT ![o] =
          IF f.executor.address \in {"unset", sent.to} THEN "submitted" ELSE "skipped"]
     /\ UNCHANGED <<inputVars, deployedVars, containerVars, commandVars, sent>>

---------------------------------------------------------------------------

StartupInit ==
  /\ stack \in [local : BOOLEAN, provider : {"layerzero", "chainlink_ccv"}]
  /\ file = ShippedFile(stack.local, IsCcv)
  /\ settings \in [rpc : {"right"}, secret : {"old"}, pass : {"unset", "mine"}, ops : {TRUE}]
  /\ missing \in Keys \cup {"none", "all"}
  /\ keystore \in {[n \in Signers |-> p] : p \in {"none", RelayerPassphrase}}
  /\ missing # "all" => keystore[1] # "none"
  /\ override \in BOOLEAN /\ (override => IsCcv)
  /\ trigger = "none" /\ snapshot = NoVariables
  /\ monitor = NoMonitor /\ relayer = NoRelayer
  /\ operator = [o \in Operators |-> Absent]
  /\ start = IdleStart /\ started = FALSE
  /\ sent = Unsent /\ outcome = [o \in Operators |-> "none"]
  /\ changes = 0

StartCommand ==
  \/ RunStart \/ RunDeploy \/ RunFinalize \/ PublishDeployed
  \/ GenerateArtifacts \/ VerifySigners \/ ValidateStack \/ ComposeUp
  \/ StartSucceeds \/ UpFails \/ StartFails

StartupNext ==
  \/ Edit \/ StartCommand
  \/ MonitorRestarts \/ RestartOperators \/ SendDefault
  \/ \E o \in Operators : Load(o) \/ Build(o) \/ Serve(o) \/ Restarts(o) \/ Execute(o)

StartupSpec == StartupInit /\ [][StartupNext]_startupVars

---------------------------------------------------------------------------
(* Properties *)

\* What start has validated serves the containers.  The relayer it creates
\* opens every keystore.  An operator that reads the files as they were
\* validated finds every contract it refuses to start without and, on public
\* chains, sweeps the right chain if its file asks for it: the sweep is not
\* silently left out for want of the source contract or of the RPC that the
\* file takes from the settings.  CCV_* variables excepted: they reach only
\* xtask.
ValidatedIsReadable ==
  start.pc = "wait" =>
    /\ Opens(relayer.pass)
    /\ \A o \in Operators :
         LET op == operator[o]
         IN op.pc = "build" /\ op.seen = start.at /\ ~override =>
              /\ ReadsDeployments(op.loaded)
              /\ ~stack.local /\ op.loaded.sweep = "on" /\ op.loaded.rpc # "none"
                   => SweepRuns(op.loaded, op.vars) /\ ResolvedRpcUrl(op.loaded, op.vars) = "right"

\* Once a start on public chains has succeeded, the monitor signs its
\* webhooks with the secret the operators know, until the next command that
\* writes its triggers: through crashes, edits of the settings and make restart-operators.
WebhooksAuthenticate ==
  started /\ ~stack.local =>
    \A o \in Operators : operator[o].pc = "serving" => operator[o].vars.secret = monitor.secret

\* A message sent from the file an operator has loaded, without naming an
\* executor, is not skipped by that operator.
DefaultIsSubmitted ==
  [][\A o \in Operators :
       outcome[o] = "none" /\ outcome'[o] = "skipped" => operator[o].seen # sent.at]_startupVars
=============================================================================
