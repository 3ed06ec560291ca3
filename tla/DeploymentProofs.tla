-------------------------- MODULE DeploymentProofs --------------------------
(***************************************************************************)
(* Proofs about Deployment, for any number of contracts, attempts and, on  *)
(* public chains, edits.                                                   *)
(***************************************************************************)
EXTENDS Deployment, TLAPS

-----------------------------------------------------------------------------
(* The invariant.                                                          *)

ContractData == [kind : {"settlement", "dst"}, keys : BOOLEAN, genesis : BOOLEAN, on : Nat]
ScriptData   == [addr : Nat, on : Nat, sent : 0..2]
FileData     == [relay : Nat, dst : [Providers -> [addr : Nat, on : Nat]]]

RelaySteps  == {"relay", "sync", "stack", "checkpoint"}
CcvSteps    == {"fresh", "source", "factory", "verifier", "wire"}
Steps ==
  RelaySteps \cup CcvSteps \cup
    {"idle", "genesis", "publish", "generate", "validate", "services"}
CommandData ==
  [name : {"none", "deploy", "finalize", "refresh-genesis", "start"}, env : Envs,
   pc : Steps, attempt : Nat \ {0}]

Typed ==
  /\ local \in BOOLEAN
  /\ provider \in [Envs -> Providers]
  /\ contracts \in Seq(ContractData)
  /\ factory \in BOOLEAN
  /\ broadcast \in [relay : ScriptData, stack : ScriptData]
  /\ link \in Envs \cup {"none"}
  /\ data \in [Envs -> FileData] /\ published \in [Envs -> FileData]
  /\ cmd \in CommandData
  /\ lost \in Nat /\ edits \in Nat

Configured(e) == IF e = LzEnv THEN "layerzero" ELSE "chainlink_ccv"
Ccv(files)    == files.dst["chainlink_ccv"]

(* Nothing is published of two providers.                                  *)
OneProvider ==
  \A e \in Envs : \/ published[e].dst["layerzero"] = None
                  \/ Ccv(published[e]) = None

(* What is published came from deploy-data, which nothing empties.         *)
DataLasts ==
  \A e \in Envs :
    /\ published[e].relay # 0 => data[e].relay # 0
    /\ Ccv(published[e]) # None => Ccv(data[e]) # None

(* An address that has no code, on chains that were never reset, is the    *)
(* next one to be created.                                                 *)
AddressesFit ==
  /\ broadcast.relay # NoScript => broadcast.relay.addr # 0
  /\ lost = 0 => /\ broadcast.relay.addr <= Next1
                 /\ \A e \in Envs : data[e].relay <= Next1
  /\ lost # 0 => local

(* On public chains an environment keeps the provider it was published     *)
(* with, and a CCV environment its relay.                                  *)
PublicProviders ==
  ~local =>
    /\ \A e \in Envs : /\ Detected(e) \in {"none", Configured(e)}
                       /\ provider[e] # Configured(e) => Detected(e) # "none"
    /\ Ccv(data[LzEnv]) = None
PublicRelays ==
  ~local => \A e \in Envs : Detected(e) = "chainlink_ccv" /\ published[e].relay # 0 =>
                              data[e].relay = published[e].relay

(* On local chains that were never reset a verifier comes after a factory. *)
FactoryFirst == local /\ lost = 0 => \A e \in Envs : Ccv(data[e]) # None => factory

(* A local environment does not change its provider twice.                 *)
EditsFit ==
  /\ edits <= MaxEdits
  /\ local => MaxEdits <= 1
  /\ edits = 0 => /\ \A e \in Envs : provider[e] = Configured(e)
                  /\ Ccv(data[LzEnv]) = None

(* A verifier is recorded beside the settlement it was deployed for.       *)
DataAgree ==
  \A e \in Envs :
    lost = 0 /\ (provider[e] = "chainlink_ccv" \/ ~local) /\ Ccv(data[e]).on # 0 =>
      data[e].relay = Ccv(data[e]).on
PublishedAgree ==
  \A e \in Envs : lost = 0 /\ Ccv(published[e]).on # 0 =>
                    published[e].relay = Ccv(published[e]).on

FilesFit ==
  /\ OneProvider /\ DataLasts /\ AddressesFit /\ PublicProviders /\ PublicRelays
  /\ FactoryFirst /\ EditsFit /\ DataAgree /\ PublishedAgree

(* Each step belongs to a command, and to a provider.                      *)
StepsFit ==
  /\ At("idle") => cmd.name = "none"
  /\ cmd.pc \in RelaySteps \cup CcvSteps => cmd.name = "deploy"
  /\ At("publish") => cmd.name \in {"deploy", "finalize"}
  /\ At("services") => cmd.name = "start"
  /\ cmd.pc \in {"sync", "stack"} => Provider = "layerzero"
  /\ cmd.pc \in CcvSteps => Provider = "chainlink_ccv"
  /\ At("fresh") => local
  /\ At("source") => ~local
  /\ At("sync") => broadcast.relay # NoScript

(* A command that writes deploy-data or publishes it is linked to its      *)
(* environment, where nothing of another provider is published.            *)
WritesItsOwn ==
  cmd.name \in {"deploy", "finalize"} => link = Env /\ ProviderUnchanged(Env)

(* A relay is deployed for CCV before the factory on a local chain, and on *)
(* a public one when the recorded one has no code.                         *)
RelayIsNeeded ==
  /\ At("relay") /\ Provider = "chainlink_ccv" =>
       IF local THEN ~factory ELSE cmd.attempt = 1 => ~HasCode(Artifacts.relay)
  /\ At("verifier") /\ local => factory

(* What was validated still holds when the services start.                 *)
StartIsValid ==
  At("services") => /\ HasGenesis(published[Env].relay) /\ HasKeys(published[Env].relay)
                    /\ ValidateChainState

CommandFits == StepsFit /\ WritesItsOwn /\ RelayIsNeeded /\ StartIsValid

DeploymentInv == Typed /\ FilesFit /\ CommandFits


-----------------------------------------------------------------------------
(* The data.                                                               *)

LEMMA NoneFields ==
  /\ None \in [addr : Nat, on : Nat] /\ None.addr = 0 /\ None.on = 0
  /\ NoFiles \in FileData /\ NoFiles.relay = 0 /\ NoFiles.dst["layerzero"] = None
  /\ Ccv(NoFiles) = None
  /\ NoScript \in ScriptData
BY DEF None, NoFiles, FileData, Providers, Ccv, NoScript, ScriptData

LEMMA IdleFields ==
  Idle \in CommandData /\ Idle.name = "none" /\ Idle.pc = "idle" /\ Idle.env = LzEnv
BY DEF Idle, CommandData, Steps, Envs

LEMMA IsDetected ==
  ASSUME NEW e \in Envs
  PROVE  /\ Detected(e) \in {"layerzero", "chainlink_ccv", "none"}
         /\ Detected(e) = "layerzero" <=> published[e].dst["layerzero"] # None
         /\ Detected(e) = "chainlink_ccv" <=>
              published[e].dst["layerzero"] = None /\ Ccv(published[e]) # None
         /\ Detected(e) = "none" <=>
              published[e].dst["layerzero"] = None /\ Ccv(published[e]) = None
BY DEF Detected, Ccv

LEMMA CommandType ==
  ASSUME Typed
  PROVE  /\ Env \in Envs /\ Provider \in Providers
         /\ cmd.attempt \in Nat \ {0} /\ Len(contracts) \in Nat /\ Next1 \in Nat \ {0}
         /\ \A e \in Envs : data[e] \in FileData /\ published[e] \in FileData
BY DEF Typed, CommandData, Env, Provider, Next1

LEMMA GotoFields ==
  ASSUME Typed, NEW pc \in Steps, Goto(pc)
  PROVE  /\ cmd' \in CommandData /\ cmd'.pc = pc /\ cmd'.name = cmd.name
         /\ cmd'.env = cmd.env /\ cmd'.attempt = 1
<1>1. cmd \in CommandData /\ cmd' = [cmd EXCEPT !.pc = pc, !.attempt = 1]
  BY DEF Typed, Goto
<1>2. cmd' = [name |-> cmd.name, env |-> cmd.env, pc |-> pc, attempt |-> 1]
  BY <1>1 DEF CommandData
<1> HIDE DEF Steps
<1>3. cmd' \in CommandData
  BY <1>1, <1>2 DEF CommandData
<1> QED
  BY <1>2, <1>3

(* A contract with code stays one with code as contracts are created.      *)
LEMMA CodeLasts ==
  ASSUME Typed, Typed', Len(contracts) <= Len(contracts')
  PROVE  /\ Next1 <= Next1'
         /\ \A a \in Nat : HasCode(a) => HasCode(a)'
         /\ \A a \in Nat : a # 0 /\ a <= Next1 /\ ~HasCode(a) => a = Next1
<1>1. Len(contracts) \in Nat /\ Len(contracts') \in Nat
  BY DEF Typed
<1> QED
  BY <1>1 DEF Next1, HasCode

-----------------------------------------------------------------------------
(* What a step must show of the command it leaves.                         *)

LEMMA IdleFits ==
  ASSUME cmd' = Idle
  PROVE  CommandFits'
BY IdleFields DEF CommandFits, StepsFit, WritesItsOwn, RelayIsNeeded, StartIsValid, At,
   RelaySteps, CcvSteps

(* A command goes on, to a step of its own.                                *)
LEMMA GotoFits ==
  ASSUME Typed, CommandFits, NEW pc \in Steps \ {"idle", "services"}, Goto(pc),
         UNCHANGED <<local, provider, link>>,
         cmd.name \in {"deploy", "finalize"} => ProviderUnchanged(Env)',
         pc \in RelaySteps \cup CcvSteps => cmd.name = "deploy",
         pc = "publish" => cmd.name \in {"deploy", "finalize"},
         pc \in {"sync", "stack"} => Provider = "layerzero",
         pc \in CcvSteps => Provider = "chainlink_ccv",
         pc = "fresh" => local, pc = "source" => ~local,
         pc = "sync" => broadcast'.relay # NoScript,
         pc = "relay" /\ Provider = "chainlink_ccv" =>
           IF local THEN ~factory' ELSE ~HasCode(Artifacts.relay)',
         pc = "verifier" /\ local => factory'
  PROVE  cmd' \in CommandData /\ CommandFits'
<1>1. /\ cmd' \in CommandData /\ cmd'.pc = pc /\ cmd'.name = cmd.name
      /\ cmd'.env = cmd.env /\ cmd'.attempt = 1
  BY GotoFields
<1>2. Env' = Env /\ Provider' = Provider
  BY <1>1 DEF Env, Provider
<1>3. StepsFit'
  BY <1>1, <1>2 DEF StepsFit, At
<1>4. WritesItsOwn'
  BY <1>1, <1>2 DEF CommandFits, WritesItsOwn
<1>5. RelayIsNeeded' /\ StartIsValid'
  BY <1>1, <1>2 DEF RelayIsNeeded, StartIsValid, At
<1> QED
  BY <1>1, <1>3, <1>4, <1>5 DEF CommandFits

LEMMA SameProvider ==
  ASSUME Typed, UNCHANGED <<provider, published>>, cmd'.env = cmd.env
  PROVE  ProviderUnchanged(Env)' <=> ProviderUnchanged(Env)
BY DEF ProviderUnchanged, Detected, Env

(* The relay script is tried again.                                        *)
LEMMA RetryFits ==
  ASSUME Typed, CommandFits, At("relay"), cmd' = [cmd EXCEPT !.attempt = @ + 1],
         UNCHANGED <<local, provider, factory, link, published>>
  PROVE  cmd' \in CommandData /\ CommandFits'
<1>1. StepsFit /\ WritesItsOwn /\ cmd \in CommandData /\ cmd.pc = "relay"
  BY DEF Typed, CommandFits, At
<1>2. /\ cmd' \in CommandData /\ cmd'.pc = "relay" /\ cmd'.name = cmd.name
      /\ cmd'.env = cmd.env /\ cmd'.attempt # 1
  BY <1>1 DEF CommandData
<1>3. Env' = Env /\ Provider' = Provider
  BY <1>2 DEF Env, Provider
<1>4. StepsFit' /\ WritesItsOwn'
  BY <1>1, <1>2, <1>3, SameProvider DEF StepsFit, WritesItsOwn, At, RelaySteps, CcvSteps
<1>5. RelayIsNeeded' /\ StartIsValid'
  BY <1>1, <1>2, <1>3 DEF CommandFits, RelayIsNeeded, StartIsValid, At
<1> QED
  BY <1>2, <1>4, <1>5 DEF CommandFits

(* A step of the command that changes nothing else.                        *)
SameFiles == UNCHANGED <<chainVars, configVars, fileVars, broadcast>>

LEMMA SameFilesKeep ==
  ASSUME DeploymentInv, SameFiles, cmd' \in CommandData, CommandFits'
  PROVE  DeploymentInv'
<1>1. UNCHANGED <<contracts, factory, lost, local, provider, edits, link, data, published,
                  broadcast>>
  BY DEF SameFiles, chainVars, configVars, fileVars
<1>2. Typed'
  BY <1>1 DEF DeploymentInv, Typed
<1>3. FilesFit'
  BY <1>1 DEF DeploymentInv, FilesFit, OneProvider, DataLasts, AddressesFit,
     PublicProviders, PublicRelays, FactoryFirst, EditsFit, DataAgree, PublishedAgree,
     Detected, Next1, Ccv
<1> QED
  BY <1>2, <1>3 DEF DeploymentInv

LEMMA CommandSteps ==
  ASSUME DeploymentInv,
         \/ RelayAttemptFails \/ CcvFresh \/ CcvKeepRelay \/ CcvWire
         \/ KeepGenesis \/ Prepare \/ Validate \/ StartServices \/ Fail
         \/ \E e \in Envs : RefreshGenesis(e) \/ BeginStart(e)
  PROVE  DeploymentInv'
<1>1. Typed /\ CommandFits /\ StepsFit /\ WritesItsOwn /\ cmd \in CommandData
  BY DEF DeploymentInv, Typed, CommandFits
<1>2. SameFiles
  BY DEF RelayAttemptFails, CcvFresh, CcvKeepRelay, CcvWire, KeepGenesis, Prepare, Validate,
     StartServices, Fail, RefreshGenesis, BeginStart, SameFiles
<1>3. UNCHANGED <<contracts, factory, lost, local, provider, edits, link, data, published,
                  broadcast>>
  BY <1>2 DEF SameFiles, chainVars, configVars, fileVars
<1>4. SUFFICES cmd' \in CommandData /\ CommandFits'
  BY <1>2, <1>4, SameFilesKeep
<1>5. CASE cmd' = Idle
  BY <1>5, IdleFields, IdleFits
<1>6. ASSUME NEW pc \in Steps, Goto(pc)
      PROVE  cmd.name \in {"deploy", "finalize"} => ProviderUnchanged(Env)'
  BY <1>1, <1>3, <1>6, GotoFields, SameProvider DEF WritesItsOwn
<1>7. CASE RelayAttemptFails
  BY <1>1, <1>3, <1>7, RetryFits DEF RelayAttemptFails
<1>8. CASE CcvFresh
  <2>1. /\ cmd' = Idle \/ (~factory /\ Goto("relay"))
        /\ At("fresh") /\ local /\ cmd.name = "deploy"
    BY <1>1, <1>8 DEF CcvFresh, End, StepsFit, At, CcvSteps
  <2>2. CASE ~factory /\ Goto("relay")
    BY <1>1, <1>3, <1>6, <2>1, <2>2, GotoFits DEF Steps, RelaySteps, CcvSteps
  <2> QED
    BY <1>5, <2>1, <2>2
<1>9. CASE CcvKeepRelay
  <2>1. At("source") /\ ~local /\ cmd.name = "deploy" /\ Provider = "chainlink_ccv"
    BY <1>1, <1>9 DEF CcvKeepRelay, StepsFit, At, CcvSteps
  <2>2. Goto("factory") \/ (~HasCode(Artifacts.relay) /\ Goto("relay"))
    BY <1>9 DEF CcvKeepRelay
  <2>3. CASE Goto("factory")
    BY <1>1, <1>3, <1>6, <2>1, <2>3, GotoFits DEF Steps, RelaySteps, CcvSteps
  <2>4. CASE ~HasCode(Artifacts.relay) /\ Goto("relay")
    <3>1. ~HasCode(Artifacts.relay)'
      BY <1>3, <2>4 DEF HasCode, Artifacts
    <3> QED
      BY <1>1, <1>3, <1>6, <2>1, <2>4, <3>1, GotoFits DEF Steps, RelaySteps, CcvSteps
  <2> QED
    BY <2>2, <2>3, <2>4
<1>10. CASE CcvWire
  <2>1. Goto("checkpoint") /\ cmd.name = "deploy"
    BY <1>1, <1>10 DEF CcvWire, StepsFit, At, CcvSteps
  <2> QED
    BY <1>1, <1>3, <1>6, <2>1, GotoFits DEF Steps, RelaySteps, CcvSteps
<1>11. CASE KeepGenesis
  <2>1. \/ cmd.name = "deploy" /\ Goto("publish")
        \/ Goto("validate")
        \/ cmd' = Idle
    BY <1>11 DEF KeepGenesis, AfterGenesis, End
  <2>2. CASE cmd.name = "deploy" /\ Goto("publish")
    BY <1>1, <1>3, <1>6, <2>2, GotoFits DEF Steps, RelaySteps, CcvSteps
  <2>3. CASE Goto("validate")
    BY <1>1, <1>3, <1>6, <2>3, GotoFits DEF Steps, RelaySteps, CcvSteps
  <2> QED
    BY <1>5, <2>1, <2>2, <2>3
<1>12. CASE Prepare
  <2>1. Goto("genesis") \/ Goto("validate")
    BY <1>12 DEF Prepare
  <2>2. CASE Goto("genesis")
    BY <1>1, <1>3, <1>6, <2>2, GotoFits DEF Steps, RelaySteps, CcvSteps
  <2>3. CASE Goto("validate")
    BY <1>1, <1>3, <1>6, <2>3, GotoFits DEF Steps, RelaySteps, CcvSteps
  <2> QED
    BY <2>1, <2>2, <2>3
<1>13. CASE Validate
  <2>1. /\ ValidateChainState /\ ValidateGenesis
        /\ (cmd.name = "start" /\ ValidateKeys /\ Goto("services")) \/ cmd' = Idle
    BY <1>13 DEF Validate, End
  <2>2. CASE cmd.name = "start" /\ ValidateKeys /\ Goto("services")
    <3>1. "services" \in Steps
      BY DEF Steps
    <3>2. /\ cmd' \in CommandData /\ cmd'.pc = "services" /\ cmd'.name = "start"
          /\ cmd'.env = cmd.env
      BY <1>1, <2>2, <3>1, GotoFields
    <3>3. Env' = Env /\ Provider' = Provider
      BY <1>3, <3>2 DEF Env, Provider
    <3>4. StepsFit' /\ WritesItsOwn' /\ RelayIsNeeded'
      BY <3>2 DEF StepsFit, WritesItsOwn, RelayIsNeeded, At, RelaySteps, CcvSteps
    <3>5. StartIsValid'
      BY <1>3, <2>1, <2>2, <3>3 DEF StartIsValid, ValidateChainState, ValidateGenesis,
         ValidateKeys, HasGenesis, HasKeys, IsSettlement, HasCode, CheckCode, Dst,
         ExpectedSettlement
    <3> QED
      BY <3>2, <3>4, <3>5 DEF CommandFits
  <2> QED
    BY <1>5, <2>1, <2>2
<1>14. CASE StartServices \/ Fail
  BY <1>5, <1>14 DEF StartServices, Fail, End
<1>15. ASSUME NEW e \in Envs, RefreshGenesis(e) \/ BeginStart(e)
       PROVE  cmd' \in CommandData /\ CommandFits'
  <2>1. PICK name \in {"refresh-genesis", "start"}, pc \in {"genesis", "generate"} :
          cmd' = [name |-> name, env |-> e, pc |-> pc, attempt |-> 1]
    BY <1>15 DEF RefreshGenesis, BeginStart
  <2>2. cmd' \in CommandData /\ cmd'.name = name /\ cmd'.pc = pc
    BY <2>1 DEF CommandData, Steps
  <2> QED
    BY <2>2 DEF CommandFits, StepsFit, WritesItsOwn, RelayIsNeeded, StartIsValid, At,
       RelaySteps, CcvSteps
<1> QED
  BY <1>7, <1>8, <1>9, <1>10, <1>11, <1>12, <1>13, <1>14, <1>15


-----------------------------------------------------------------------------
(* The steps between commands.                                             *)

LEMMA NoCommand ==
  ASSUME cmd = Idle, UNCHANGED cmd
  PROVE  CommandFits'
BY IdleFits

LEMMA BeginSteps ==
  ASSUME DeploymentInv, NEW e \in Envs, BeginDeploy(e) \/ BeginFinalize(e)
  PROVE  DeploymentInv'
<1>1. /\ UNCHANGED <<contracts, factory, lost, local, provider, edits, data, published,
                     broadcast>>
      /\ link' = e /\ cmd = Idle
  BY DEF BeginDeploy, BeginFinalize, FinalizeUnlessChanged, EnsureLink, chainVars,
     configVars
<1>2. /\ Typed /\ FilesFit /\ provider[e] \in Providers
  BY DEF DeploymentInv, Typed
<1>3. cmd' = Idle \/ /\ ProviderUnchanged(e)
                     /\ \E name \in {"deploy", "finalize"}, pc \in Steps :
                          /\ cmd' = [name |-> name, env |-> e, pc |-> pc, attempt |-> 1]
                          /\ name = "finalize" => pc = "publish"
                          /\ name = "deploy" => pc = FirstStep(e)
  <2>1. FirstStep(e) \in Steps
    BY DEF FirstStep, Steps, RelaySteps, CcvSteps
  <2>2. CASE BeginDeploy(e)
    BY <1>1, <2>1, <2>2 DEF BeginDeploy
  <2>3. CASE BeginFinalize(e)
    BY <1>1, <2>3 DEF BeginFinalize, FinalizeUnlessChanged, Steps
  <2> QED
    BY <2>2, <2>3
<1>4. cmd' \in CommandData /\ CommandFits'
  <2>1. CASE cmd' = Idle
    BY <2>1, IdleFields, IdleFits
  <2>2. CASE /\ ProviderUnchanged(e)
             /\ \E name \in {"deploy", "finalize"}, pc \in Steps :
                  /\ cmd' = [name |-> name, env |-> e, pc |-> pc, attempt |-> 1]
                  /\ name = "finalize" => pc = "publish"
                  /\ name = "deploy" => pc = FirstStep(e)
    <3>1. PICK name \in {"deploy", "finalize"}, pc \in Steps :
                  /\ cmd' = [name |-> name, env |-> e, pc |-> pc, attempt |-> 1]
                  /\ name = "finalize" => pc = "publish"
                  /\ name = "deploy" => pc = FirstStep(e)
      BY <2>2
    <3>2. /\ cmd' \in CommandData /\ cmd'.name = name /\ cmd'.pc = pc /\ cmd'.env = e
          /\ Env' = e /\ Provider' = provider[e]
      BY <1>1, <3>1 DEF CommandData, Env, Provider
    <3>3. WritesItsOwn'
      BY <1>1, <2>2, <3>2 DEF WritesItsOwn, ProviderUnchanged, Detected
    <3>4. /\ pc = "publish" \/ (name = "deploy" /\ pc \in {"relay", "fresh", "source"})
          /\ pc = "relay" => provider[e] = "layerzero"
          /\ pc = "fresh" => provider[e] # "layerzero" /\ local
          /\ pc = "source" => provider[e] # "layerzero" /\ ~local
      BY <1>2, <3>1 DEF FirstStep
    <3>5. StepsFit' /\ RelayIsNeeded' /\ StartIsValid'
      BY <1>1, <1>2, <3>2, <3>4 DEF StepsFit, RelayIsNeeded, StartIsValid, At, RelaySteps,
         CcvSteps, Providers
    <3> QED
      BY <3>2, <3>3, <3>5 DEF CommandFits
  <2> QED
    BY <1>3, <2>1, <2>2
<1>5. Typed'
  BY <1>1, <1>2, <1>4 DEF Typed
<1>6. FilesFit'
  BY <1>1, <1>2 DEF FilesFit, OneProvider, DataLasts, AddressesFit,
     PublicProviders, PublicRelays, FactoryFirst, EditsFit, DataAgree, PublishedAgree,
     Detected, Next1, Ccv
<1> QED
  BY <1>4, <1>5, <1>6 DEF DeploymentInv

LEMMA ResetFields ==
  ASSUME Typed, ResetChains
  PROVE  /\ contracts' \in Seq(ContractData) /\ factory' \in BOOLEAN
         /\ lost' \in Nat /\ lost' # 0
<1>1. /\ contracts # <<>> /\ contracts' = <<>> /\ factory' = FALSE
      /\ lost' = lost + Len(contracts)
      /\ contracts \in Seq(ContractData) /\ lost \in Nat
  BY DEF ResetChains, Typed
<1>2. Len(contracts) \in Nat /\ Len(contracts) # 0
  BY <1>1
<1>3. \A S : <<>> \in Seq(S)
  OBVIOUS
<1>4. contracts' \in Seq(ContractData)
  BY <1>1, <1>3
<1>5. factory' \in BOOLEAN
  BY <1>1
<1>6. lost' \in Nat /\ lost' # 0
  BY <1>1, <1>2
<1> QED
  BY <1>4, <1>5, <1>6

LEMMA RunChainsKeeps ==
  ASSUME DeploymentInv, RunChains
  PROVE  DeploymentInv'
<1>1. /\ cmd = Idle /\ local /\ ResetChains
      /\ UNCHANGED <<local, provider, edits, link, data, published, broadcast, cmd>>
  BY DEF RunChains, configVars, fileVars
<1>2. Typed /\ FilesFit
  BY DEF DeploymentInv
<1>3. Typed'
  BY <1>1, <1>2, ResetFields DEF Typed
<1>4. FilesFit'
  BY <1>1, <1>2, ResetFields DEF FilesFit, OneProvider, DataLasts, AddressesFit,
     PublicProviders, PublicRelays, FactoryFirst, EditsFit, DataAgree, PublishedAgree,
     Detected, Ccv
<1> QED
  BY <1>1, <1>3, <1>4, NoCommand DEF DeploymentInv

LEMMA CleanKeeps ==
  ASSUME DeploymentInv, NEW e \in Envs, Clean(e)
  PROVE  DeploymentInv'
<1>1. /\ cmd = Idle
      /\ UNCHANGED <<local, provider, edits, link, data, cmd>>
      /\ \/ /\ local
            /\ published' = [published EXCEPT ![e] = NoFiles]
            /\ broadcast' = [relay |-> NoScript, stack |-> NoScript]
            /\ ResetChains \/ UNCHANGED <<contracts, factory, lost>>
         \/ UNCHANGED <<published, broadcast, contracts, factory, lost>>
  BY DEF Clean, chainVars, configVars
<1>2. Typed /\ FilesFit /\ published \in [Envs -> FileData] /\ Len(contracts) \in Nat
  BY DEF DeploymentInv, Typed
<1> HIDE DEF NoFiles, None
<1>3. CASE UNCHANGED <<published, broadcast, contracts, factory, lost>>
  <2>1. Typed'
    BY <1>1, <1>2, <1>3 DEF Typed
  <2>2. FilesFit'
    BY <1>1, <1>2, <1>3 DEF FilesFit, OneProvider, DataLasts, AddressesFit,
       PublicProviders, PublicRelays, FactoryFirst, EditsFit, DataAgree, PublishedAgree,
       Detected, Next1, Ccv
  <2> QED
    BY <1>1, <2>1, <2>2, NoCommand DEF DeploymentInv
<1>4. CASE /\ local
           /\ published' = [published EXCEPT ![e] = NoFiles]
           /\ broadcast' = [relay |-> NoScript, stack |-> NoScript]
           /\ ResetChains \/ UNCHANGED <<contracts, factory, lost>>
  <2>1. /\ published' \in [Envs -> FileData]
        /\ \A d \in Envs : published'[d] = published[d] \/ published'[d] = NoFiles
    BY <1>2, <1>4, NoneFields
  <2>2. broadcast' \in [relay : ScriptData, stack : ScriptData] /\ broadcast'.relay = NoScript
    BY <1>4, NoneFields
  <2>3. /\ contracts' \in Seq(ContractData) /\ factory' \in BOOLEAN /\ lost' \in Nat
        /\ lost' # 0 \/ UNCHANGED <<contracts, factory, lost>>
    BY <1>2, <1>4, ResetFields DEF Typed
  <2>4. Typed'
    BY <1>1, <1>2, <2>1, <2>2, <2>3 DEF Typed
  <2>5. OneProvider' /\ DataLasts' /\ PublishedAgree'
    BY <1>1, <1>2, <2>1, <2>3, NoneFields
       DEF FilesFit, OneProvider, DataLasts, PublishedAgree, Ccv
  <2>6. AddressesFit'
    BY <1>1, <1>2, <1>4, <2>2, <2>3 DEF FilesFit, AddressesFit, Next1, NoScript
  <2>7. PublicProviders' /\ PublicRelays' /\ FactoryFirst' /\ EditsFit' /\ DataAgree'
    BY <1>1, <1>2, <1>4, <2>3 DEF FilesFit, PublicProviders, PublicRelays, FactoryFirst,
       EditsFit, DataAgree, Ccv
  <2> QED
    BY <1>1, <2>4, <2>5, <2>6, <2>7, NoCommand DEF DeploymentInv, FilesFit
<1> QED
  BY <1>1, <1>3, <1>4

LEMMA EditProviderKeeps ==
  ASSUME DeploymentInv, NEW e \in Envs, EditProvider(e)
  PROVE  DeploymentInv'
<1>1. /\ cmd = Idle /\ edits < MaxEdits /\ Detected(e) # "none" /\ edits' = edits + 1
      /\ provider' = [provider EXCEPT ![e] = IF @ = "layerzero" THEN "chainlink_ccv"
                                                                ELSE "layerzero"]
      /\ UNCHANGED <<contracts, factory, lost, local, link, data, published, broadcast, cmd>>
  BY DEF EditProvider, chainVars, fileVars
<1>2. /\ Typed /\ FilesFit /\ provider \in [Envs -> Providers] /\ edits \in Nat
      /\ MaxEdits \in Nat
  BY DeploymentConstants DEF DeploymentInv, Typed
<1>3. /\ provider' \in [Envs -> Providers] /\ edits' \in Nat /\ edits' # 0
      /\ edits' <= MaxEdits
      /\ \A d \in Envs : d # e => provider'[d] = provider[d]
      /\ provider[e] # "layerzero" => provider'[e] = "layerzero"
  BY <1>1, <1>2 DEF Providers
<1>4. Typed'
  BY <1>1, <1>2, <1>3 DEF Typed
<1>5. OneProvider' /\ DataLasts' /\ AddressesFit' /\ PublicRelays' /\ FactoryFirst'
      /\ PublishedAgree'
  BY <1>1, <1>2 DEF FilesFit, OneProvider, DataLasts, AddressesFit, PublicRelays,
     FactoryFirst, PublishedAgree, Detected, Next1, Ccv
<1>6. EditsFit'
  BY <1>1, <1>2, <1>3 DEF FilesFit, EditsFit
<1>7. PublicProviders'
  BY <1>1, <1>2, <1>3 DEF FilesFit, PublicProviders, Detected, Configured, Ccv
<1>8. DataAgree'
  <2> SUFFICES ASSUME NEW d \in Envs, lost = 0, provider'[d] = "chainlink_ccv" \/ ~local,
                      Ccv(data[d]).on # 0
               PROVE  data[d].relay = Ccv(data[d]).on
    BY <1>1 DEF DataAgree, Ccv
  <2>1. CASE ~local \/ provider[d] = "chainlink_ccv"
    BY <1>2, <2>1 DEF FilesFit, DataAgree
  <2>2. CASE local /\ provider[d] # "chainlink_ccv"
    <3>1. d = e /\ edits = 0
      BY <1>1, <1>2, <1>3, <2>2 DEF FilesFit, EditsFit
    <3>2. d = LzEnv
      BY <1>2, <2>2, <3>1 DEF FilesFit, EditsFit, Configured
    <3>3. Ccv(data[d]).on = 0
      BY <1>2, <3>1, <3>2, NoneFields DEF FilesFit, EditsFit
    <3> QED
      BY <3>3
  <2> QED
    BY <2>1, <2>2
<1> QED
  BY <1>1, <1>4, <1>5, <1>6, <1>7, <1>8, NoCommand DEF DeploymentInv, FilesFit


-----------------------------------------------------------------------------
(* deploy-data is written.                                                 *)

(* The environment a command writes for has its own provider, on public    *)
(* chains and before any edit.                                             *)
LEMMA WritesItsProvider ==
  ASSUME DeploymentInv, cmd.name \in {"deploy", "finalize"}, ~local \/ edits = 0
  PROVE  Provider = Configured(Env)
<1>1. Env \in Envs /\ ProviderUnchanged(Env)
  BY CommandType DEF DeploymentInv, CommandFits, WritesItsOwn
<1>2. CASE ~local
  BY <1>1, <1>2 DEF DeploymentInv, FilesFit, PublicProviders, ProviderUnchanged, Provider
<1>3. CASE edits = 0
  BY <1>1, <1>3 DEF DeploymentInv, FilesFit, EditsFit, Provider
<1> QED
  BY <1>2, <1>3

(* A relay is recorded.                                                    *)
LEMMA RelayIsRecorded ==
  ASSUME DeploymentInv, cmd.name = "deploy", NEW a \in Nat \ {0}, lost = 0 => a <= Next1,
         data' = [data EXCEPT ![link].relay = a],
         Provider = "chainlink_ccv" =>
           /\ a = Next1
           /\ IF local THEN ~factory ELSE ~HasCode(Artifacts.relay),
         UNCHANGED <<local, provider, lost, published>>
  PROVE  /\ data' \in [Envs -> FileData]
         /\ \A e \in Envs : Ccv(data'[e]) = Ccv(data[e])
         /\ lost = 0 => \A e \in Envs : data'[e].relay <= Next1
         /\ DataLasts' /\ PublicRelays' /\ DataAgree'
<1>1. /\ link = Env /\ Env \in Envs /\ ProviderUnchanged(Env) /\ Typed /\ FilesFit
      /\ data \in [Envs -> FileData] /\ Provider \in Providers /\ Next1 \in Nat
  BY CommandType DEF DeploymentInv, CommandFits, WritesItsOwn, Typed
<1>2. /\ data' \in [Envs -> FileData] /\ data'[Env].relay = a
      /\ data'[Env].dst = data[Env].dst
      /\ \A e \in Envs \ {Env} : data'[e] = data[e]
  BY <1>1 DEF FileData
<1>3. \A e \in Envs : Ccv(data'[e]) = Ccv(data[e])
  BY <1>2 DEF Ccv
<1>4. lost = 0 => \A e \in Envs : data'[e].relay <= Next1
  BY <1>1, <1>2 DEF FilesFit, AddressesFit
<1>5. DataLasts'
  BY <1>1, <1>2, <1>3 DEF FilesFit, DataLasts, Ccv
<1>6. lost = 0 /\ ~local /\ Provider = "chainlink_ccv" /\ data[Env].relay # 0 =>
        data[Env].relay = a
  <2> SUFFICES ASSUME lost = 0, ~local, Provider = "chainlink_ccv", data[Env].relay # 0
               PROVE  data[Env].relay = a
    OBVIOUS
  <2>1. ~HasCode(data[Env].relay) /\ a = Next1
    BY <1>1 DEF Artifacts
  <2>2. data[Env].relay \in Nat /\ data[Env].relay <= Next1 /\ Len(contracts) \in Nat
    BY <1>1, CommandType DEF FilesFit, AddressesFit, FileData
  <2> QED
    BY <2>1, <2>2 DEF HasCode, Next1
<1>7. ~local => lost = 0
  BY <1>1 DEF FilesFit, AddressesFit
<1>8. PublicRelays'
  <2> SUFFICES ASSUME ~local, NEW e \in Envs, Detected(e) = "chainlink_ccv",
                      published[e].relay # 0
               PROVE  data'[e].relay = published[e].relay
    BY DEF PublicRelays, Detected
  <2>1. data[e].relay = published[e].relay
    BY <1>1 DEF FilesFit, PublicRelays
  <2>2. CASE e = Env
    BY <1>1, <1>2, <1>6, <1>7, <2>1, <2>2 DEF ProviderUnchanged, Provider
  <2> QED
    BY <1>2, <2>1, <2>2
<1>9. DataAgree'
  <2> SUFFICES ASSUME NEW e \in Envs, lost = 0, provider[e] = "chainlink_ccv" \/ ~local,
                      Ccv(data[e]).on # 0
               PROVE  data'[e].relay = Ccv(data[e]).on
    BY <1>3 DEF DataAgree, Ccv
  <2>1. data[e].relay = Ccv(data[e]).on
    BY <1>1 DEF FilesFit, DataAgree
  <2>2. CASE e = Env /\ Provider = "chainlink_ccv" /\ local
    BY <1>1, <2>2, NoneFields DEF FilesFit, FactoryFirst
  <2>3. CASE e = Env /\ Provider = "chainlink_ccv" /\ ~local
    BY <1>2, <1>6, <2>1, <2>3
  <2>4. CASE e = Env /\ Provider = "layerzero"
    <3>1. ~local /\ Env = LzEnv
      BY <2>4, WritesItsProvider DEF Configured, Provider
    <3> QED
      BY <1>1, <2>4, <3>1, NoneFields DEF FilesFit, PublicProviders
  <2> QED
    BY <1>1, <1>2, <2>1, <2>2, <2>3, <2>4 DEF Providers
<1> QED
  BY <1>2, <1>3, <1>4, <1>5, <1>8, <1>9

(* Contracts are created and a relay is recorded: what files must show.    *)
LEMMA FilesGrow ==
  ASSUME DeploymentInv, Len(contracts') \in Nat, Len(contracts) <= Len(contracts'),
         UNCHANGED <<local, provider, lost, edits, published>>,
         factory => factory',
         broadcast'.relay # NoScript => broadcast'.relay.addr # 0,
         lost = 0 => /\ broadcast'.relay.addr \in Nat /\ broadcast'.relay.addr <= Next1
                     /\ \A e \in Envs : data'[e].relay \in Nat /\ data'[e].relay <= Next1,
         \A e \in Envs : Ccv(data'[e]) # Ccv(data[e]) =>
           /\ local => factory'
           /\ ~local \/ edits = 0 => e # LzEnv,
         DataLasts' /\ PublicRelays' /\ DataAgree'
  PROVE  FilesFit'
<1>1. FilesFit /\ Typed /\ Len(contracts) \in Nat /\ Next1 <= Next1' /\ Next1 \in Nat
      /\ Next1' \in Nat
  BY DEF DeploymentInv, Typed, Next1
<1>2. OneProvider' /\ PublishedAgree'
  BY <1>1 DEF FilesFit, OneProvider, PublishedAgree, Ccv
<1>3. AddressesFit'
  BY <1>1 DEF FilesFit, AddressesFit
<1>4. PublicProviders' /\ EditsFit'
  BY <1>1 DEF FilesFit, PublicProviders, EditsFit, Detected, Ccv, Envs
<1>5. FactoryFirst'
  BY <1>1 DEF FilesFit, FactoryFirst, Ccv
<1> QED
  BY <1>2, <1>3, <1>4, <1>5 DEF FilesFit


-----------------------------------------------------------------------------
(* The steps that create contracts.                                        *)

(* What an attempt of the relay script changes.                            *)
LEMMA RelayScriptEffects ==
  ASSUME DeploymentInv, At("relay"), NEW resume \in BOOLEAN, NEW done \in Steps,
         RelayScript(resume, done)
  PROVE  \E a \in Nat \ {0} :
           /\ lost = 0 => a <= Next1
           /\ ~resume => a = Next1
           /\ contracts' \in Seq(ContractData) /\ Len(contracts) <= Len(contracts')
           /\ broadcast' \in [relay : ScriptData, stack : ScriptData]
           /\ broadcast'.relay # NoScript /\ broadcast'.relay.addr = a
           /\ data' = IF resume THEN data ELSE [data EXCEPT ![link].relay = a]
           /\ \/ Goto(done) \/ cmd' = Idle
              \/ cmd' = [cmd EXCEPT !.attempt = @ + 1]
           /\ UNCHANGED <<factory, lost, local, provider, edits, link, published>>
<1> DEFINE fresh == [addr |-> Next1, on |-> 0, sent |-> 0]
           b == IF resume THEN broadcast.relay ELSE fresh
<1>1. PICK k \in 0..2 :
        /\ b # NoScript
        /\ CanSend(b, k, 2)
        /\ b.sent = 1 /\ k = 2 => IsSettlement(b.addr)
        /\ contracts' = RelaySent(b, k)
        /\ broadcast' = [broadcast EXCEPT !.relay = [b EXCEPT !.sent = k]]
        /\ data' = IF resume THEN data ELSE [data EXCEPT ![link].relay = b.addr]
        /\ \/ Goto(done) \/ cmd' = Idle
           \/ cmd' = [cmd EXCEPT !.attempt = @ + 1]
        /\ UNCHANGED <<factory, lost, local, provider, edits, link, published>>
  <2>1. PICK k \in 0..2 :
        /\ b # NoScript
        /\ CanSend(b, k, 2)
        /\ b.sent = 1 /\ k = 2 => IsSettlement(b.addr)
        /\ contracts' = RelaySent(b, k)
        /\ broadcast' = [broadcast EXCEPT !.relay = [b EXCEPT !.sent = k]]
        /\ data' = IF resume THEN data ELSE [data EXCEPT ![link].relay = b.addr]
        /\ IF k = 2 THEN Goto(done)
           ELSE IF cmd.attempt < MaxAttempts THEN cmd' = [cmd EXCEPT !.attempt = @ + 1]
           ELSE End
        /\ UNCHANGED <<factory, lost, configVars, link, published>>
    BY DEF RelayScript
  <2> QED
    BY <2>1 DEF configVars, End
<1>2. /\ Typed /\ contracts \in Seq(ContractData) /\ Len(contracts) \in Nat
      /\ Next1 \in Nat \ {0} /\ FilesFit
      /\ broadcast \in [relay : ScriptData, stack : ScriptData]
  BY CommandType DEF DeploymentInv, Typed
<1>3. b \in ScriptData /\ b.addr \in Nat \ {0} /\ (lost = 0 => b.addr <= Next1)
      /\ (~resume => b.addr = Next1)
  <2>1. fresh \in ScriptData
    BY <1>2 DEF ScriptData
  <2>2. CASE resume
    BY <1>1, <1>2, <2>2 DEF FilesFit, AddressesFit, ScriptData
  <2>3. CASE ~resume
    BY <1>2, <2>1, <2>3
  <2> QED
    BY <2>2, <2>3
<1> HIDE DEF b, fresh
<1>4. contracts' \in Seq(ContractData) /\ Len(contracts) <= Len(contracts')
  <2>1. k \in b.sent..2 /\ b.sent \in 0..2
    BY <1>1, <1>3 DEF CanSend, ScriptData
  <2>2. CASE k = b.sent
    BY <1>1, <1>2, <2>1, <2>2 DEF RelaySent
  <2>3. CASE k > b.sent /\ b.sent = 0
    <3>1. contracts' = Append(contracts, [Settlement EXCEPT !.keys = (k = 2)])
      BY <1>1, <2>1, <2>3 DEF RelaySent
    <3>2. [Settlement EXCEPT !.keys = (k = 2)] \in ContractData
      BY DEF Settlement, ContractData
    <3> HIDE DEF ContractData
    <3> QED
      BY <1>2, <3>1, <3>2
  <2>4. CASE k > b.sent /\ b.sent # 0
    <3>1. contracts' = [contracts EXCEPT ![b.addr].keys = TRUE] /\ IsSettlement(b.addr)
      BY <1>1, <2>1, <2>4 DEF RelaySent
    <3>2. b.addr \in 1..Len(contracts) /\ contracts[b.addr] \in ContractData
      BY <1>2, <3>1 DEF IsSettlement, HasCode
    <3>3. [contracts[b.addr] EXCEPT !.keys = TRUE] \in ContractData
      BY <3>2 DEF ContractData
    <3>4. contracts' = [contracts EXCEPT ![b.addr] = [contracts[b.addr] EXCEPT !.keys = TRUE]]
      BY <3>1
    <3> HIDE DEF ContractData
    <3> QED
      BY <1>2, <3>2, <3>3, <3>4
  <2> QED
    BY <2>1, <2>2, <2>3, <2>4
<1>5. /\ broadcast' \in [relay : ScriptData, stack : ScriptData]
      /\ broadcast'.relay.addr = b.addr /\ broadcast'.relay # NoScript
  <2>1. [b EXCEPT !.sent = k] \in ScriptData /\ [b EXCEPT !.sent = k].addr = b.addr
    BY <1>1, <1>3 DEF ScriptData
  <2> HIDE DEF ScriptData
  <2>2. broadcast' = [relay |-> [b EXCEPT !.sent = k], stack |-> broadcast.stack]
    BY <1>1, <1>2
  <2> QED
    BY <1>2, <1>3, <2>1, <2>2 DEF NoScript
<1> QED
  BY <1>1, <1>3, <1>4, <1>5

LEMMA RelayScriptKeeps ==
  ASSUME DeploymentInv, At("relay"), NEW resume \in BOOLEAN,
         NEW done \in {"sync", "factory"}, RelayScript(resume, done),
         done = "sync" => Provider = "layerzero",
         done = "factory" => Provider = "chainlink_ccv",
         ~resume /\ Provider = "chainlink_ccv" => cmd.attempt = 1
  PROVE  DeploymentInv'
<1>1. /\ Typed /\ FilesFit /\ CommandFits /\ cmd.name = "deploy" /\ done \in Steps
      /\ cmd \in CommandData /\ WritesItsOwn
  BY DEF DeploymentInv, CommandFits, StepsFit, At, RelaySteps, Steps, CcvSteps, Typed
<1>2. PICK a \in Nat \ {0} :
           /\ lost = 0 => a <= Next1
           /\ ~resume => a = Next1
           /\ contracts' \in Seq(ContractData) /\ Len(contracts) <= Len(contracts')
           /\ broadcast' \in [relay : ScriptData, stack : ScriptData]
           /\ broadcast'.relay # NoScript /\ broadcast'.relay.addr = a
           /\ data' = IF resume THEN data ELSE [data EXCEPT ![link].relay = a]
           /\ \/ Goto(done) \/ cmd' = Idle
              \/ cmd' = [cmd EXCEPT !.attempt = @ + 1]
           /\ UNCHANGED <<factory, lost, local, provider, edits, link, published>>
  BY <1>1, RelayScriptEffects
<1>3. /\ data' \in [Envs -> FileData]
      /\ \A e \in Envs : Ccv(data'[e]) = Ccv(data[e])
      /\ lost = 0 => \A e \in Envs : data'[e].relay <= Next1
      /\ DataLasts' /\ PublicRelays' /\ DataAgree'
  <2>1. CASE resume
    <3>1. UNCHANGED <<data, local, provider, lost, published>>
      BY <1>2, <2>1
    <3> QED
      BY <1>1, <3>1 DEF FilesFit, Typed, DataLasts, PublicRelays, DataAgree, AddressesFit,
         Detected, Ccv
  <2>2. CASE ~resume
    <3>1. Provider = "chainlink_ccv" => IF local THEN ~factory ELSE ~HasCode(Artifacts.relay)
      BY <1>1, <2>2 DEF CommandFits, RelayIsNeeded
    <3> QED
      BY <1>1, <1>2, <2>2, <3>1, RelayIsRecorded
  <2> QED
    BY <2>1, <2>2
<1>4. \A e \in Envs : data'[e].relay \in Nat
  BY <1>3 DEF FileData
<1>5. FilesFit'
  <2>1. Len(contracts') \in Nat
    BY <1>2
  <2> QED
    BY <1>2, <1>3, <1>4, <2>1, FilesGrow
<1>6. cmd' \in CommandData /\ CommandFits'
  <2>1. CASE cmd' = Idle
    BY <2>1, IdleFields, IdleFits
  <2>2. CASE cmd' = [cmd EXCEPT !.attempt = @ + 1]
    BY <1>1, <1>2, <2>2, RetryFits
  <2>3. CASE Goto(done)
    <3>1. ProviderUnchanged(Env)'
      BY <1>1, <1>2, <2>3, GotoFields, SameProvider DEF WritesItsOwn
    <3> QED
      BY <1>1, <1>2, <2>3, <3>1, GotoFits DEF Steps, RelaySteps, CcvSteps
  <2> QED
    BY <1>2, <2>1, <2>2, <2>3
<1>7. Typed'
  BY <1>1, <1>2, <1>3, <1>6 DEF Typed
<1> QED
  BY <1>5, <1>6, <1>7 DEF DeploymentInv

LEMMA RelayStepsKeep ==
  ASSUME DeploymentInv, LzRelay \/ CcvRelay
  PROVE  DeploymentInv'
<1>1. CASE LzRelay
  <2>1. /\ At("relay") /\ Provider = "layerzero"
        /\ RelayScript(broadcast.relay # NoScript, "sync")
    BY <1>1 DEF LzRelay
  <2> QED
    BY <2>1, RelayScriptKeeps
<1>2. CASE CcvRelay
  <2>1. /\ At("relay") /\ Provider = "chainlink_ccv"
        /\ RelayScript(cmd.attempt > 1, "factory")
        /\ ~(cmd.attempt > 1) => cmd.attempt = 1
    BY <1>2, CommandType DEF CcvRelay, DeploymentInv
  <2>2. (cmd.attempt > 1) \in BOOLEAN
    BY CommandType DEF DeploymentInv
  <2> QED
    BY <2>1, <2>2, RelayScriptKeeps
<1> QED
  BY <1>1, <1>2


LEMMA SyncKeeps ==
  ASSUME DeploymentInv, Sync
  PROVE  DeploymentInv'
<1>1. /\ Typed /\ FilesFit /\ CommandFits /\ WritesItsOwn
      /\ At("sync") /\ cmd.name = "deploy" /\ Provider = "layerzero"
      /\ broadcast.relay # NoScript
  BY DEF DeploymentInv, CommandFits, StepsFit, At, RelaySteps, Sync
<1>2. /\ data' = [data EXCEPT ![link].relay = broadcast.relay.addr] /\ Goto("stack")
      /\ UNCHANGED <<contracts, factory, lost, local, provider, edits, link, published,
                     broadcast>>
  BY DEF Sync, chainVars, configVars
<1>3. broadcast.relay.addr \in Nat \ {0} /\ (lost = 0 => broadcast.relay.addr <= Next1)
  BY <1>1 DEF Typed, FilesFit, AddressesFit, ScriptData
<1>4. /\ data' \in [Envs -> FileData]
      /\ \A e \in Envs : Ccv(data'[e]) = Ccv(data[e])
      /\ lost = 0 => \A e \in Envs : data'[e].relay <= Next1
      /\ DataLasts' /\ PublicRelays' /\ DataAgree'
  BY <1>1, <1>2, <1>3, RelayIsRecorded
<1>5. \A e \in Envs : data'[e].relay \in Nat
  BY <1>4 DEF FileData
<1>6. Len(contracts') \in Nat /\ Len(contracts) <= Len(contracts')
  BY <1>1, <1>2 DEF Typed
<1>7. FilesFit'
  BY <1>2, <1>3, <1>4, <1>5, <1>6, FilesGrow
<1>8. ProviderUnchanged(Env)'
  BY <1>1, <1>2, GotoFields, SameProvider DEF WritesItsOwn, Steps, RelaySteps
<1>9. cmd' \in CommandData /\ CommandFits'
  BY <1>1, <1>2, <1>8, GotoFits DEF Steps, RelaySteps, CcvSteps
<1>10. Typed'
  BY <1>1, <1>2, <1>4, <1>9 DEF Typed
<1> QED
  BY <1>7, <1>9, <1>10 DEF DeploymentInv

(* A verifier or a DVN is created for the recorded settlement.             *)
LEMMA CreateScriptKeeps ==
  ASSUME DeploymentInv, cmd.name = "deploy",
         NEW p \in Providers, NEW done \in {"checkpoint", "wire"},
         CreateScript(Artifacts.relay, p, done), p = Provider,
         done = "wire" => p = "chainlink_ccv" /\ (local => factory),
         done = "checkpoint" => p = "layerzero"
  PROVE  DeploymentInv'
<1> DEFINE on  == Artifacts.relay
           dst == [addr |-> Next1, on |-> on]
<1>1. /\ Typed /\ FilesFit /\ CommandFits /\ WritesItsOwn /\ Provider = p
      /\ link = Env /\ Env \in Envs /\ Next1 \in Nat \ {0} /\ data \in [Envs -> FileData]
      /\ on = data[Env].relay /\ on \in Nat
      /\ broadcast \in [relay : ScriptData, stack : ScriptData]
      /\ contracts \in Seq(ContractData) /\ done \in Steps
  BY CommandType DEF DeploymentInv, CommandFits, WritesItsOwn, Typed, Artifacts, FileData,
     Steps, RelaySteps, CcvSteps
<1>2. PICK k \in 0..1 :
        /\ contracts' = IF k = 1 THEN Append(contracts, Verifier(on)) ELSE contracts
        /\ data' = [data EXCEPT ![Env].dst[p] = dst]
        /\ Goto(done) \/ cmd' = Idle
        /\ UNCHANGED <<factory, lost, local, provider, edits, link, published>>
        /\ broadcast' = IF p = "layerzero"
                        THEN [broadcast EXCEPT !.stack = [addr |-> Next1, on |-> on, sent |-> k]]
                        ELSE broadcast
  BY <1>1 DEF CreateScript, configVars, End
<1>3. contracts' \in Seq(ContractData) /\ Len(contracts) <= Len(contracts')
      /\ Len(contracts') \in Nat
  <2>1. Verifier(on) \in ContractData
    BY <1>1 DEF Verifier, ContractData
  <2> HIDE DEF ContractData, on
  <2> QED
    BY <1>1, <1>2, <2>1
<1>4. /\ broadcast' \in [relay : ScriptData, stack : ScriptData]
      /\ broadcast'.relay = broadcast.relay
  <2>1. [addr |-> Next1, on |-> on, sent |-> k] \in ScriptData
    BY <1>1, <1>2 DEF ScriptData
  <2> HIDE DEF ScriptData, on
  <2> QED
    BY <1>1, <1>2, <2>1
<1>5. dst \in [addr : Nat, on : Nat] /\ dst # None /\ dst.on = data[Env].relay
  BY <1>1 DEF None
<1> HIDE DEF dst, on
<1>6. /\ data' \in [Envs -> FileData]
      /\ \A e \in Envs : data'[e].relay = data[e].relay /\ data'[e].relay \in Nat
      /\ \A e \in Envs \ {Env} : data'[e] = data[e]
      /\ p # "chainlink_ccv" => Ccv(data'[Env]) = Ccv(data[Env])
      /\ p = "chainlink_ccv" => Ccv(data'[Env]) = dst
  <2>1. data[Env] \in [relay : Nat, dst : [Providers -> [addr : Nat, on : Nat]]]
    BY <1>1 DEF FileData
  <2>2. data'[Env] = [data[Env] EXCEPT !.dst[p] = dst]
    BY <1>1, <1>2
  <2>3. /\ data'[Env].relay = data[Env].relay
        /\ data'[Env].dst = [data[Env].dst EXCEPT ![p] = dst]
        /\ data'[Env] \in FileData
    BY <1>5, <2>1, <2>2 DEF FileData
  <2>4. \A e \in Envs \ {Env} : data'[e] = data[e]
    BY <1>1, <1>2
  <2>5. data' \in [Envs -> FileData]
    BY <1>1, <1>2, <2>3, <2>4
  <2>6. /\ p # "chainlink_ccv" => Ccv(data'[Env]) = Ccv(data[Env])
        /\ p = "chainlink_ccv" => Ccv(data'[Env]) = dst
    BY <2>1, <2>3 DEF Ccv, Providers
  <2>7. \A e \in Envs : data'[e].relay = data[e].relay /\ data'[e].relay \in Nat
    BY <1>1, <2>3, <2>4 DEF FileData
  <2> QED
    BY <2>4, <2>5, <2>6, <2>7
<1>7. DataLasts'
  BY <1>1, <1>2, <1>5, <1>6 DEF FilesFit, DataLasts, Ccv
<1>8. PublicRelays'
  BY <1>1, <1>2, <1>6 DEF FilesFit, PublicRelays, Detected
<1>9. DataAgree'
  BY <1>1, <1>2, <1>5, <1>6 DEF FilesFit, DataAgree
<1>10. \A e \in Envs : Ccv(data'[e]) # Ccv(data[e]) =>
         /\ local => factory'
         /\ ~local \/ edits = 0 => e # LzEnv
  <2> SUFFICES ASSUME NEW e \in Envs, Ccv(data'[e]) # Ccv(data[e])
               PROVE  /\ local => factory'
                      /\ ~local \/ edits = 0 => e # LzEnv
    OBVIOUS
  <2>1. e = Env /\ Provider = "chainlink_ccv"
    BY <1>1, <1>6
  <2>2. ~local \/ edits = 0 => e # LzEnv
    BY <2>1, WritesItsProvider DEF Configured
  <2> QED
    BY <1>2, <2>1, <2>2
<1>11. FilesFit'
  <2>1. lost = 0 => /\ broadcast'.relay.addr \in Nat /\ broadcast'.relay.addr <= Next1
                    /\ \A e \in Envs : data'[e].relay \in Nat /\ data'[e].relay <= Next1
    BY <1>1, <1>4, <1>6 DEF FilesFit, AddressesFit, ScriptData
  <2>2. broadcast'.relay # NoScript => broadcast'.relay.addr # 0
    BY <1>1, <1>4 DEF FilesFit, AddressesFit
  <2> QED
    BY <1>2, <1>3, <1>7, <1>8, <1>9, <1>10, <2>1, <2>2, FilesGrow
<1>12. cmd' \in CommandData /\ CommandFits'
  <2>1. CASE cmd' = Idle
    BY <2>1, IdleFields, IdleFits
  <2>2. CASE Goto(done)
    <3>1. ProviderUnchanged(Env)'
      BY <1>1, <1>2, <2>2, GotoFields, SameProvider DEF WritesItsOwn
    <3> QED
      BY <1>1, <1>2, <2>2, <3>1, GotoFits DEF Steps, RelaySteps, CcvSteps
  <2> QED
    BY <1>2, <2>1, <2>2
<1>13. Typed'
  BY <1>1, <1>2, <1>3, <1>4, <1>6, <1>12 DEF Typed
<1> QED
  BY <1>11, <1>12, <1>13 DEF DeploymentInv

LEMMA VerifierStepsKeep ==
  ASSUME DeploymentInv, LzStackFresh \/ LocalVerifier \/ EnsureVerifier
  PROVE  DeploymentInv'
<1>1. Typed /\ CommandFits /\ StepsFit /\ WritesItsOwn /\ RelayIsNeeded
  BY DEF DeploymentInv, CommandFits
<1>2. CASE LzStackFresh
  <2>1. /\ CreateScript(Artifacts.relay, "layerzero", "checkpoint")
        /\ cmd.name = "deploy" /\ Provider = "layerzero"
    BY <1>1, <1>2 DEF LzStackFresh, StepsFit, At, RelaySteps
  <2> QED
    BY <2>1, CreateScriptKeeps DEF Providers
<1>3. ASSUME At("verifier"), CreateScript(Artifacts.relay, "chainlink_ccv", "wire")
      PROVE  DeploymentInv'
  <2>1. cmd.name = "deploy" /\ Provider = "chainlink_ccv" /\ (local => factory)
    BY <1>1, <1>3 DEF StepsFit, At, CcvSteps, RelayIsNeeded
  <2> QED
    BY <1>3, <2>1, CreateScriptKeeps DEF Providers
<1>4. CASE LocalVerifier
  BY <1>3, <1>4 DEF LocalVerifier
<1>5. CASE EnsureVerifier
  <2>1. CASE SameFiles /\ Goto("wire")
    <3>1. cmd.name = "deploy" /\ Provider = "chainlink_ccv"
      BY <1>1, <1>5 DEF EnsureVerifier, StepsFit, At, CcvSteps
    <3>2. UNCHANGED <<local, provider, link, published>>
      BY <2>1 DEF SameFiles, configVars, fileVars
    <3>3. ProviderUnchanged(Env)'
      BY <1>1, <2>1, <3>1, <3>2, GotoFields, SameProvider DEF WritesItsOwn, Steps, CcvSteps
    <3>4. cmd' \in CommandData /\ CommandFits'
      BY <1>1, <2>1, <3>1, <3>2, <3>3, GotoFits DEF Steps, RelaySteps, CcvSteps
    <3> QED
      BY <2>1, <3>4, SameFilesKeep
  <2> QED
    BY <1>3, <1>5, <2>1 DEF EnsureVerifier, SameFiles
<1> QED
  BY <1>2, <1>4, <1>5


LEMMA LzStackResumeKeeps ==
  ASSUME DeploymentInv, LzStackResume
  PROVE  DeploymentInv'
<1>1. /\ Typed /\ FilesFit /\ CommandFits /\ WritesItsOwn /\ cmd.name = "deploy"
      /\ contracts \in Seq(ContractData) /\ broadcast \in [relay : ScriptData, stack : ScriptData]
  BY DEF DeploymentInv, CommandFits, StepsFit, At, RelaySteps, LzStackResume, Typed
<1>2. /\ contracts' = contracts \/ contracts' = Append(contracts, Verifier(broadcast.stack.on))
      /\ broadcast' = [broadcast EXCEPT !.stack.sent = 1] /\ Goto("checkpoint")
      /\ UNCHANGED <<factory, lost, local, provider, edits, link, data, published>>
  BY DEF LzStackResume, configVars, fileVars
<1>3. contracts' \in Seq(ContractData) /\ Len(contracts) <= Len(contracts')
      /\ Len(contracts') \in Nat
  <2>1. Verifier(broadcast.stack.on) \in ContractData
    BY <1>1 DEF Verifier, ContractData, ScriptData
  <2> HIDE DEF ContractData
  <2> QED
    BY <1>1, <1>2, <2>1
<1>4. /\ broadcast' \in [relay : ScriptData, stack : ScriptData]
      /\ broadcast'.relay = broadcast.relay
  <2>1. [broadcast.stack EXCEPT !.sent = 1] \in ScriptData
    BY <1>1 DEF ScriptData
  <2>2. broadcast' = [broadcast EXCEPT !.stack = [broadcast.stack EXCEPT !.sent = 1]]
    BY <1>2
  <2> HIDE DEF ScriptData
  <2> QED
    BY <1>1, <2>1, <2>2
<1>5. FilesFit'
  <2>1. lost = 0 => /\ broadcast'.relay.addr \in Nat /\ broadcast'.relay.addr <= Next1
                    /\ \A e \in Envs : data'[e].relay \in Nat /\ data'[e].relay <= Next1
    BY <1>1, <1>2, <1>4 DEF FilesFit, AddressesFit, ScriptData, Typed, FileData
  <2>2. broadcast'.relay # NoScript => broadcast'.relay.addr # 0
    BY <1>1, <1>4 DEF FilesFit, AddressesFit
  <2>3. DataLasts' /\ PublicRelays' /\ DataAgree'
    BY <1>1, <1>2 DEF FilesFit, DataLasts, PublicRelays, DataAgree, Detected, Ccv
  <2> QED
    BY <1>2, <1>3, <2>1, <2>2, <2>3, FilesGrow
<1>6. ProviderUnchanged(Env)'
  BY <1>1, <1>2, GotoFields, SameProvider DEF WritesItsOwn, Steps, RelaySteps
<1>7. cmd' \in CommandData /\ CommandFits'
  BY <1>1, <1>2, <1>6, GotoFits DEF Steps, RelaySteps, CcvSteps
<1>8. Typed'
  BY <1>1, <1>2, <1>3, <1>4, <1>7 DEF Typed
<1> QED
  BY <1>5, <1>7, <1>8 DEF DeploymentInv

LEMMA FactoryStepsKeep ==
  ASSUME DeploymentInv, LocalFactory \/ EnsureFactory
  PROVE  DeploymentInv'
<1>1. /\ Typed /\ FilesFit /\ CommandFits /\ WritesItsOwn /\ cmd.name = "deploy"
      /\ Provider = "chainlink_ccv"
  BY DEF DeploymentInv, CommandFits, StepsFit, At, CcvSteps, LocalFactory, EnsureFactory
<1>2. /\ factory' = TRUE /\ (Goto("verifier") \/ cmd' = Idle)
      /\ UNCHANGED <<contracts, lost, local, provider, edits, link, data, published, broadcast>>
  BY DEF LocalFactory, EnsureFactory, configVars, fileVars, End
<1>3. FilesFit'
  BY <1>1, <1>2 DEF FilesFit, OneProvider, DataLasts, AddressesFit, PublicProviders,
     PublicRelays, FactoryFirst, EditsFit, DataAgree, PublishedAgree, Detected, Next1, Ccv
<1>4. cmd' \in CommandData /\ CommandFits'
  <2>1. CASE cmd' = Idle
    BY <2>1, IdleFields, IdleFits
  <2>2. CASE Goto("verifier")
    <3>1. ProviderUnchanged(Env)'
      BY <1>1, <1>2, <2>2, GotoFields, SameProvider DEF WritesItsOwn, Steps, CcvSteps
    <3> QED
      BY <1>1, <1>2, <2>2, <3>1, GotoFits DEF Steps, RelaySteps, CcvSteps
  <2> QED
    BY <1>2, <2>1, <2>2
<1>5. factory' \in BOOLEAN
  BY <1>2
<1>6. Typed'
  BY <1>1, <1>2, <1>4, <1>5 DEF Typed
<1> QED
  BY <1>3, <1>4, <1>6 DEF DeploymentInv

LEMMA CommitGenesisKeeps ==
  ASSUME DeploymentInv, CommitGenesis
  PROVE  DeploymentInv'
<1>1. /\ Typed /\ FilesFit /\ CommandFits /\ WritesItsOwn /\ contracts \in Seq(ContractData)
  BY DEF DeploymentInv, CommandFits, Typed
<1>2. /\ HasCode(RelayOf) /\ contracts' = [contracts EXCEPT ![RelayOf].genesis = TRUE]
      /\ UNCHANGED <<factory, lost, local, provider, edits, link, data, published, broadcast>>
      /\ \/ cmd.name = "deploy" /\ Goto("publish")
         \/ Goto("validate")
         \/ cmd' = Idle
  BY DEF CommitGenesis, GenesisReady, HasKeys, IsSettlement, CommitOutcome, AfterGenesis,
     End, configVars, fileVars
<1>3. contracts' \in Seq(ContractData) /\ Len(contracts') = Len(contracts)
  <2>1. RelayOf \in 1..Len(contracts) /\ contracts[RelayOf] \in ContractData
    BY <1>1, <1>2 DEF HasCode
  <2>2. [contracts[RelayOf] EXCEPT !.genesis = TRUE] \in ContractData
    BY <2>1 DEF ContractData
  <2>3. contracts' = [contracts EXCEPT ![RelayOf] = [contracts[RelayOf] EXCEPT !.genesis = TRUE]]
    BY <1>2
  <2> HIDE DEF ContractData
  <2> QED
    BY <1>1, <2>1, <2>2, <2>3
<1>4. FilesFit'
  BY <1>1, <1>2, <1>3 DEF FilesFit, OneProvider, DataLasts, AddressesFit, PublicProviders,
     PublicRelays, FactoryFirst, EditsFit, DataAgree, PublishedAgree, Detected, Next1, Ccv
<1>5. cmd' \in CommandData /\ CommandFits'
  <2>1. CASE cmd' = Idle
    BY <2>1, IdleFields, IdleFits
  <2>2. ASSUME NEW pc \in {"publish", "validate"}, Goto(pc)
        PROVE  cmd.name \in {"deploy", "finalize"} => ProviderUnchanged(Env)'
    BY <1>1, <1>2, <2>2, GotoFields, SameProvider DEF WritesItsOwn, Steps
  <2>3. CASE cmd.name = "deploy" /\ Goto("publish")
    BY <1>1, <1>2, <2>2, <2>3, GotoFits DEF Steps, RelaySteps, CcvSteps
  <2>4. CASE Goto("validate")
    BY <1>1, <1>2, <2>2, <2>4, GotoFits DEF Steps, RelaySteps, CcvSteps
  <2> QED
    BY <1>2, <2>1, <2>3, <2>4
<1>6. Typed'
  BY <1>1, <1>2, <1>3, <1>5 DEF Typed
<1> QED
  BY <1>4, <1>5, <1>6 DEF DeploymentInv

-----------------------------------------------------------------------------
(* What is published.                                                      *)

LEMMA PublishEffects ==
  ASSUME DeploymentInv, Publish
  PROVE  /\ cmd.name \in {"deploy", "finalize"} /\ ProviderUnchanged(Env)
         /\ Env \in Envs /\ Provider \in Providers
         /\ published' \in [Envs -> FileData]
         /\ \A e \in Envs \ {Env} : published'[e] = published[e]
         /\ published'[Env].relay = data[Env].relay
         /\ published'[Env].dst[Provider] = data[Env].dst[Provider]
              \/ published'[Env].dst[Provider] = published[Env].dst[Provider]
         /\ Ccv(data[Env]) # None /\ Provider = "chainlink_ccv" =>
              Ccv(published'[Env]) = Ccv(data[Env])
         /\ \A p \in Providers \ {Provider} :
              published'[Env].dst[p] = None /\ published[Env].dst[p] = None
         /\ published[Env].dst[Provider] # None => published'[Env].dst[Provider] # None
<1>1. /\ link = Env /\ ProviderUnchanged(Env) /\ Env \in Envs /\ Provider \in Providers
      /\ cmd.name \in {"deploy", "finalize"} /\ FilesFit /\ published \in [Envs -> FileData]
      /\ data \in [Envs -> FileData]
  <2>1. cmd.name \in {"deploy", "finalize"}
    BY DEF DeploymentInv, CommandFits, StepsFit, At, RelaySteps, Publish
  <2> QED
    BY <2>1, CommandType DEF DeploymentInv, CommandFits, WritesItsOwn, Typed
<1> DEFINE old == published[Env]
           files == data[Env]
<1>2. published' = [published EXCEPT ![Env] = Merged(old, files)]
  BY <1>1 DEF Publish, Artifacts
<1>3. old \in FileData /\ files \in FileData
  BY <1>1
<1>4. old.relay # 0 => files.relay # 0
  BY <1>1 DEF FilesFit, DataLasts
<1>5. \A p \in Providers \ {Provider} : old.dst[p] = None
  BY <1>1, IsDetected DEF ProviderUnchanged, Provider, Providers, FilesFit, OneProvider, Ccv
<1> HIDE DEF old, files
<1> DEFINE new == Merged(old, files)
<1>6. /\ new \in FileData
      /\ new.relay = files.relay
      /\ new.dst = [p \in Providers |-> IF p = Provider /\ files.dst[p] # None
                                        THEN files.dst[p] ELSE old.dst[p]]
  BY <1>3, <1>4 DEF Merged, FileData
<1>7. /\ new.dst[Provider] = files.dst[Provider] \/ new.dst[Provider] = old.dst[Provider]
      /\ Ccv(files) # None /\ Provider = "chainlink_ccv" => Ccv(new) = Ccv(files)
      /\ \A p \in Providers \ {Provider} : new.dst[p] = None
      /\ old.dst[Provider] # None => new.dst[Provider] # None
  BY <1>1, <1>5, <1>6 DEF Ccv
<1> HIDE DEF new
<1>8. published' \in [Envs -> FileData] /\ published'[Env] = new
      /\ \A e \in Envs \ {Env} : published'[e] = published[e]
  BY <1>1, <1>2, <1>6 DEF new
<1> QED
  BY <1>1, <1>5, <1>6, <1>7, <1>8 DEF old, files

LEMMA PublishKeeps ==
  ASSUME DeploymentInv, Publish
  PROVE  DeploymentInv'
<1>1. Typed /\ FilesFit /\ CommandFits /\ StepsFit
  BY DEF DeploymentInv, CommandFits
<1>2. /\ UNCHANGED <<contracts, factory, lost, local, provider, edits, link, data, broadcast>>
      /\ Goto("genesis") \/ Goto("generate")
  BY DEF Publish, chainVars, configVars
<1>3. /\ cmd.name \in {"deploy", "finalize"} /\ ProviderUnchanged(Env)
      /\ Env \in Envs /\ Provider \in Providers
      /\ published' \in [Envs -> FileData]
      /\ \A e \in Envs \ {Env} : published'[e] = published[e]
      /\ published'[Env].relay = data[Env].relay
      /\ Ccv(data[Env]) # None /\ Provider = "chainlink_ccv" =>
           Ccv(published'[Env]) = Ccv(data[Env])
      /\ \A p \in Providers \ {Provider} : published'[Env].dst[p] = None
  BY PublishEffects
<1>4. Provider # "chainlink_ccv" => Ccv(published'[Env]) = None
  BY <1>3 DEF Ccv, Providers
<1>5. Provider # "layerzero" => published'[Env].dst["layerzero"] = None
  BY <1>3 DEF Providers
<1>6. Ccv(published'[Env]) # None =>
        Provider = "chainlink_ccv" /\ Ccv(published'[Env]) = Ccv(data[Env])
  <2> SUFFICES ASSUME Ccv(published'[Env]) # None, Ccv(data[Env]) = None,
                      Provider = "chainlink_ccv"
               PROVE  FALSE
    BY <1>3, <1>4
  <2>1. Ccv(published[Env]) = None
    BY <1>1, <1>3 DEF FilesFit, DataLasts
  <2>2. published'[Env].dst[Provider] = data[Env].dst[Provider]
          \/ published'[Env].dst[Provider] = published[Env].dst[Provider]
    BY PublishEffects
  <2> QED
    BY <2>1, <2>2 DEF Ccv
<1>7. Detected(Env)' \in {"none", Provider} /\ OneProvider'
  <2>1. Env' = Env
    BY <1>1, <1>2, GotoFields DEF Env, Steps
  <2>2. Detected(Env)' \in {"none", Provider}
    BY <1>3, <1>4, <1>5, <2>1 DEF Detected, Providers, Ccv
  <2>3. OneProvider'
    BY <1>1, <1>3, <1>4, <1>5 DEF FilesFit, OneProvider, Ccv
  <2> QED
    BY <2>2, <2>3
<1>8. cmd' \in CommandData /\ CommandFits' /\ Env' = Env
  <2>1. Env' = Env /\ Provider' = Provider
    BY <1>1, <1>2, GotoFields DEF Env, Provider, Steps
  <2>2. ProviderUnchanged(Env)'
    BY <1>2, <1>7, <2>1 DEF ProviderUnchanged, Provider
  <2>3. ASSUME NEW pc \in {"genesis", "generate"}, Goto(pc)
        PROVE  cmd' \in CommandData /\ CommandFits'
    <3>1. UNCHANGED <<local, provider, link>>
      BY <1>2
    <3>2. /\ pc \in Steps \ {"idle", "services"} /\ pc \notin RelaySteps \cup CcvSteps
          /\ pc \notin {"publish", "relay", "verifier", "sync", "stack", "fresh", "source"}
      BY DEF Steps, RelaySteps, CcvSteps
    <3> QED
      BY <1>1, <2>2, <2>3, <3>1, <3>2, GotoFits
  <2> QED
    BY <1>2, <2>1, <2>3
<1>9. DataLasts'
  BY <1>1, <1>2, <1>3, <1>6 DEF FilesFit, DataLasts, Ccv
<1>10. PublicProviders'
  <2> SUFFICES ASSUME ~local, NEW e \in Envs
               PROVE  /\ Detected(e)' \in {"none", Configured(e)}
                      /\ provider[e] # Configured(e) => Detected(e)' # "none"
    BY <1>1, <1>2 DEF FilesFit, PublicProviders, Ccv
  <2>1. CASE e = Env
    <3>1. Provider = Configured(Env)
      BY <1>3, WritesItsProvider
    <3> QED
      BY <1>7, <1>8, <2>1, <3>1 DEF Provider
  <2>2. CASE e # Env
    BY <1>1, <1>3, <2>2 DEF FilesFit, PublicProviders, Detected
  <2> QED
    BY <2>1, <2>2
<1>11. PublicRelays'
  BY <1>1, <1>2, <1>3 DEF FilesFit, PublicRelays, Detected
<1>12. PublishedAgree'
  BY <1>1, <1>2, <1>3, <1>6, NoneFields DEF FilesFit, PublishedAgree, DataAgree, Provider, Ccv
<1>13. AddressesFit' /\ FactoryFirst' /\ EditsFit' /\ DataAgree'
  BY <1>1, <1>2 DEF FilesFit, AddressesFit, FactoryFirst, EditsFit, DataAgree, Next1, Ccv
<1>14. Typed'
  BY <1>1, <1>2, <1>3, <1>8 DEF Typed
<1> QED
  BY <1>7, <1>8, <1>9, <1>10, <1>11, <1>12, <1>13, <1>14 DEF DeploymentInv, FilesFit


-----------------------------------------------------------------------------
(* The theorems.                                                           *)

(* Two edits of one local environment change its provider and change it    *)
(* back, with deploy-data of the first deployment left behind: on local    *)
(* chains the invariant needs one edit at most.                            *)
EditedOnce == local => MaxEdits <= 1

LEMMA InitFits ==
  ASSUME Init, EditedOnce
  PROVE  DeploymentInv
<1>1. cmd = Idle /\ local \in BOOLEAN /\ factory = FALSE /\ contracts = <<>> /\ link = "none"
      /\ lost = 0 /\ edits = 0
      /\ provider = [e \in Envs |-> Configured(e)]
      /\ broadcast = [relay |-> NoScript, stack |-> NoScript]
      /\ data = [e \in Envs |-> NoFiles] /\ published = [e \in Envs |-> NoFiles]
  BY DEF Init, Configured
<1> HIDE DEF NoFiles, NoScript, Idle, None
<1>2. broadcast \in [relay : ScriptData, stack : ScriptData] /\ broadcast.relay = NoScript
  BY <1>1, NoneFields
<1>3. /\ data \in [Envs -> FileData] /\ published \in [Envs -> FileData]
      /\ \A e \in Envs : /\ data[e].relay = 0 /\ published[e].relay = 0
                         /\ Ccv(data[e]) = None /\ Ccv(published[e]) = None
                         /\ published[e].dst["layerzero"] = None
                         /\ Detected(e) = "none"
  BY <1>1, NoneFields, IsDetected
<1>4. provider \in [Envs -> Providers] /\ \A e \in Envs : provider[e] = Configured(e)
  BY <1>1 DEF Configured, Providers
<1>5. \A S : <<>> \in Seq(S)
  OBVIOUS
<1>6. cmd \in CommandData /\ link \in Envs \cup {"none"} /\ contracts \in Seq(ContractData)
      /\ factory \in BOOLEAN /\ lost \in Nat /\ edits \in Nat
  BY <1>1, <1>5, IdleFields
<1>7. Typed
  BY <1>1, <1>2, <1>3, <1>4, <1>6 DEF Typed
<1>8. OneProvider /\ DataLasts /\ PublicProviders /\ PublicRelays /\ FactoryFirst /\ DataAgree
      /\ PublishedAgree
  BY <1>1, <1>3, <1>4, NoneFields DEF OneProvider, DataLasts, PublicProviders, PublicRelays,
     FactoryFirst, DataAgree, PublishedAgree, Envs
<1>9. EditsFit
  BY <1>1, <1>3, <1>4, DeploymentConstants DEF EditsFit, EditedOnce, Envs
<1>10. AddressesFit
  <2>1. Next1 = 1
    BY <1>1 DEF Next1
  <2>2. NoScript.addr = 0
    BY DEF NoScript
  <2> QED
    BY <1>1, <1>2, <1>3, <2>1, <2>2 DEF AddressesFit
<1>11. CommandFits
  BY <1>1, IdleFields DEF CommandFits, StepsFit, WritesItsOwn, RelayIsNeeded, StartIsValid, At,
     RelaySteps, CcvSteps
<1> QED
  BY <1>7, <1>8, <1>9, <1>10, <1>11 DEF DeploymentInv, FilesFit

LEMMA NextKeeps ==
  ASSUME DeploymentInv, [Next]_vars
  PROVE  DeploymentInv'
<1>1. CASE \E e \in Envs : EditProvider(e) \/ Deploy(e) \/ BeginStart(e) \/ Clean(e)
  BY <1>1, EditProviderKeeps, BeginSteps, CommandSteps, CleanKeeps DEF Deploy
<1>2. CASE LzStep
  BY <1>2, RelayStepsKeep, SyncKeeps, VerifierStepsKeep, LzStackResumeKeeps DEF LzStep
<1>3. CASE CcvStep
  BY <1>3, CommandSteps, RelayStepsKeep, FactoryStepsKeep, VerifierStepsKeep DEF CcvStep
<1>4. CASE RunChains
  BY <1>4, RunChainsKeeps
<1>5. CASE Publish
  BY <1>5, PublishKeeps
<1>6. CASE CommitGenesis
  BY <1>6, CommitGenesisKeeps
<1>7. CASE RelayAttemptFails \/ KeepGenesis \/ Prepare \/ Validate \/ StartServices \/ Fail
  BY <1>7, CommandSteps
<1>8. CASE UNCHANGED vars
  <2>1. SameFiles /\ UNCHANGED cmd
    BY <1>8 DEF vars, SameFiles, chainVars, configVars, fileVars
  <2>2. /\ UNCHANGED <<contracts, local, provider, factory, link, data, published, broadcast>>
        /\ cmd \in CommandData /\ CommandFits
    BY <2>1 DEF SameFiles, chainVars, configVars, fileVars, DeploymentInv, Typed
  <2>3. CommandFits'
    BY <2>1, <2>2 DEF CommandFits, StepsFit, WritesItsOwn, RelayIsNeeded, StartIsValid, At,
       Env, Provider, ProviderUnchanged, Detected, Artifacts, HasCode, HasGenesis, HasKeys,
       IsSettlement, ValidateChainState, CheckCode, Dst, ExpectedSettlement
  <2> QED
    BY <2>1, <2>2, <2>3, SameFilesKeep
<1> QED
  BY <1>1, <1>2, <1>3, <1>4, <1>5, <1>6, <1>7, <1>8 DEF Next

LEMMA LocalStays ==
  ASSUME [Next]_vars
  PROVE  local' = local
BY DEF Next, vars, configVars, SameFiles, RunChains, EditProvider, Deploy, BeginDeploy,
   BeginFinalize, FinalizeUnlessChanged, RefreshGenesis, BeginStart, Clean, LzStep, LzRelay,
   RelayScript, Sync, LzStackFresh, LzStackResume, CreateScript, CcvStep, CcvFresh,
   CcvKeepRelay, CcvRelay, CcvWire, LocalFactory, EnsureFactory, LocalVerifier,
   EnsureVerifier, RelayAttemptFails, Publish, KeepGenesis, CommitGenesis, Prepare,
   Validate, StartServices, Fail

(* The chains, the files of every environment and the running command fit  *)
(* together in every reachable state.                                      *)
THEOREM DeploymentInvariant ==
  Spec => [](EditedOnce => DeploymentInv)
<1>1. Init => (EditedOnce => DeploymentInv)
  BY InitFits
<1>2. (EditedOnce => DeploymentInv) /\ [Next]_vars => (EditedOnce => DeploymentInv)'
  BY NextKeeps, LocalStays DEF EditedOnce
<1> QED
  BY <1>1, <1>2, PTL DEF Spec

(* What start brings up is one deployment.                                 *)
LEMMA InvariantMeansOneDeployment ==
  ASSUME DeploymentInv
  PROVE  StartedIsOneDeployment
<1> SUFFICES ASSUME At("services")
             PROVE  LET s == published[Env].relay
                    IN /\ HasGenesis(s) /\ HasKeys(s)
                       /\ HasCode(Dst.addr)
                       /\ contracts[Dst.addr].kind = "dst" =>
                            contracts[Dst.addr].on = ExpectedSettlement
                       /\ lost = 0 => ExpectedSettlement = s
  BY DEF StartedIsOneDeployment
<1>1. /\ HasGenesis(published[Env].relay) /\ HasKeys(published[Env].relay)
      /\ ValidateChainState
  BY DEF DeploymentInv, CommandFits, StartIsValid
<1>2. HasCode(Dst.addr) /\ HasCode(ExpectedSettlement)
  BY <1>1 DEF ValidateChainState, CheckCode
<1>3. lost = 0 => ExpectedSettlement = published[Env].relay
  <2>1. CASE Provider = "layerzero"
    BY <2>1 DEF ExpectedSettlement
  <2>2. CASE Provider = "chainlink_ccv"
    <3>1. ExpectedSettlement = Ccv(published[Env]).on
      BY <2>2 DEF ExpectedSettlement, Dst, Ccv
    <3>2. Ccv(published[Env]).on # 0
      BY <1>2, <3>1 DEF HasCode
    <3> QED
      BY <3>1, <3>2, CommandType DEF DeploymentInv, FilesFit, PublishedAgree
  <2> QED
    BY <2>1, <2>2, CommandType DEF DeploymentInv, Providers
<1> QED
  BY <1>1, <1>2, <1>3 DEF ValidateChainState

(* Whatever failed, was resumed, edited (once, on local chains) or cleaned *)
(* before, start brings up one deployment: chains::deploy, publish and     *)
(* validate leave no published verifier beside another settlement.         *)
THEOREM StartsAreOneDeployment ==
  Spec => [](EditedOnce => StartedIsOneDeployment)
<1>1. (EditedOnce => DeploymentInv) => (EditedOnce => StartedIsOneDeployment)
  BY InvariantMeansOneDeployment
<1> QED
  BY <1>1, DeploymentInvariant, PTL

(* Only a publish changes the file of a public environment, and it         *)
(* publishes the recorded relay of the provider published before.          *)
LEMMA KeepsSettlementStep ==
  ASSUME DeploymentInv, [Next]_vars, NEW e \in Envs, ~local,
         Detected(e) = "chainlink_ccv", HasGenesis(published[e].relay)
  PROVE  published'[e].relay = published[e].relay /\ Detected(e)' = "chainlink_ccv"
<1>1. CASE UNCHANGED published
  BY <1>1 DEF Detected
<1>2. CASE Publish
  <2>1. /\ ProviderUnchanged(Env) /\ Env \in Envs /\ Provider \in Providers
        /\ \A d \in Envs \ {Env} : published'[d] = published[d]
        /\ published'[Env].relay = data[Env].relay
        /\ \A p \in Providers \ {Provider} : published'[Env].dst[p] = None
        /\ published[Env].dst[Provider] # None => published'[Env].dst[Provider] # None
    BY <1>2, PublishEffects
  <2>2. CASE e # Env
    BY <2>1, <2>2 DEF Detected
  <2>3. CASE e = Env
    <3>1. Provider = "chainlink_ccv"
      BY <2>1, <2>3 DEF ProviderUnchanged, Provider
    <3>2. published[e].relay # 0
      BY DEF HasGenesis, IsSettlement, HasCode
    <3>3. data[e].relay = published[e].relay
      BY <3>2 DEF DeploymentInv, FilesFit, PublicRelays
    <3>4. published[e].dst["chainlink_ccv"] # None
      BY IsDetected DEF Ccv
    <3>5. /\ published'[e].dst["layerzero"] = None
          /\ published'[e].dst["chainlink_ccv"] # None
      BY <2>1, <2>3, <3>1, <3>4 DEF Providers
    <3> QED
      BY <2>1, <2>3, <3>3, <3>5 DEF Detected
  <2> QED
    BY <2>2, <2>3
<1>3. UNCHANGED published \/ Publish
  BY DEF Next, vars, fileVars, RunChains, EditProvider, Deploy, BeginDeploy,
   BeginFinalize, FinalizeUnlessChanged, RefreshGenesis, BeginStart, Clean, LzStep, LzRelay,
   RelayScript, Sync, LzStackFresh, LzStackResume, CreateScript, CcvStep, CcvFresh,
   CcvKeepRelay, CcvRelay, CcvWire, LocalFactory, EnsureFactory, LocalVerifier,
   EnsureVerifier, RelayAttemptFails, KeepGenesis, CommitGenesis, Prepare,
   Validate, StartServices, Fail
<1> QED
  BY <1>1, <1>2, <1>3

(* A public CCV environment keeps the settlement it published, whatever    *)
(* commands, edits and other environments' deployments follow.             *)
THEOREM KeepsSettlement ==
  Spec => KeepsItsSettlement
<1>1. (EditedOnce => DeploymentInv) /\ [Next]_vars =>
        [\A e \in Envs :
           ~local /\ Detected(e) = "chainlink_ccv" /\ HasGenesis(published[e].relay)
             => /\ published'[e].relay = published[e].relay
                /\ Detected(e)' = "chainlink_ccv"]_vars
  BY KeepsSettlementStep DEF EditedOnce
<1> QED
  BY <1>1, DeploymentInvariant, PTL DEF Spec, KeepsItsSettlement

=============================================================================
