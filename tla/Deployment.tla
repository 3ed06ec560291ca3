----------------------------- MODULE Deployment -----------------------------
(***************************************************************************)
(* The commands of xtask that deploy a stack and start it: chains, deploy, *)
(* finalize, refresh-genesis, start and clean, one at a time, for two      *)
(* environments on one pair of chains (local and local-ccv, or testnet and *)
(* testnet-ccv).  A deployment lives in four places no transaction spans:  *)
(* the chain, the broadcasts of forge, contracts/deploy-data (a link to    *)
(* the directory of one environment) and deployments/<env>.json.  Each     *)
(* step may fail and end its command there.                                *)
(*                                                                         *)
(* The destination chain stands for both: what is deployed on the source   *)
(* chain is deployed by the same steps just before.  Of a relay            *)
(* infrastructure the model keeps its Settlement, which goes with its      *)
(* Driver and KeyRegistry.  A script of forge simulates, writes deploy-    *)
(* data, records its transactions in its broadcast and sends a prefix of   *)
(* them; --resume sends the rest of a recorded broadcast and writes        *)
(* nothing else.  An address is the place of a contract in the order of    *)
(* creation, so that a chain reset hands out the same addresses again.     *)
(***************************************************************************)
EXTENDS Integers, Sequences

CONSTANTS
  LzEnv, CcvEnv,  \* the environments, by the provider they are configured with
  MaxContracts,   \* bound on the contracts created, the discarded ones included
  MaxAttempts,    \* attempts of the relay script (3 in the code)
  Edited,         \* environments whose activeProvider is edited, once deployed
  MaxEdits        \* bound on the edits

ASSUME DeploymentConstants ==
  /\ LzEnv # CcvEnv
  /\ MaxContracts \in Nat /\ MaxAttempts \in Nat /\ MaxEdits \in Nat

VARIABLES
  local,      \* is_local of both environments
  provider,   \* activeProvider of each
  contracts,  \* the contracts of the chain, in the order of creation
  factory,    \* whether the CREATE2 factory is deployed
  broadcast,  \* the last broadcast of the relay script and of the LayerZero stack
  link,       \* environment contracts/deploy-data leads to
  data,       \* contracts/deploy-data-envs/<env>
  published,  \* deployments/<env>.json
  cmd,        \* the running command
  lost,       \* how many contracts chains --fresh has discarded
  edits

chainVars  == <<contracts, factory, lost>>
configVars == <<local, provider, edits>>
fileVars   == <<link, data, published>>
vars == <<chainVars, configVars, fileVars, broadcast, cmd>>

Envs      == {LzEnv, CcvEnv}
Providers == {"layerzero", "chainlink_ccv"}

None     == [addr |-> 0, on |-> 0]
NoScript == [addr |-> 0, on |-> 0, sent |-> 0]
NoFiles  == [relay |-> 0, dst |-> [p \in Providers |-> None]]
Idle     == [name |-> "none", env |-> LzEnv, pc |-> "idle", attempt |-> 1]

Settlement   == [kind |-> "settlement", keys |-> FALSE, genesis |-> FALSE, on |-> 0]
Verifier(on) == [kind |-> "dst", keys |-> FALSE, genesis |-> FALSE, on |-> on]

\* The running command's environment and what is known of it.
Env       == cmd.env
Provider  == provider[Env]
Artifacts == data[link]
HasCode(a)      == a \in 1..Len(contracts)
IsSettlement(a) == HasCode(a) /\ contracts[a].kind = "settlement"
HasGenesis(a)   == IsSettlement(a) /\ contracts[a].genesis
Detected(e) ==
  CASE published[e].dst["layerzero"] # None     -> "layerzero"
    [] /\ published[e].dst["layerzero"] = None
       /\ published[e].dst["chainlink_ccv"] # None -> "chainlink_ccv"
    [] OTHER -> "none"

At(pc)   == cmd.pc = pc
Goto(pc) == cmd' = [cmd EXCEPT !.pc = pc, !.attempt = 1]
End      == cmd' = Idle

---------------------------------------------------------------------------
(* The scripts of forge *)

Next1 == Len(contracts) + 1

\* A recorded transaction keeps its nonce: a contract can still be created
\* only at the address the simulation gave it.
CanSend(b, k, total) ==
  /\ k \in b.sent..total
  /\ b.sent = 0 /\ k > 0 => b.addr = Next1 /\ Next1 + lost <= MaxContracts

\* The relay script creates the contracts, then registers the operators' keys.
RelaySent(b, k) ==
  CASE k = b.sent -> contracts
    [] k > b.sent /\ b.sent = 0 -> Append(contracts, [Settlement EXCEPT !.keys = (k = 2)])
    [] OTHER -> [contracts EXCEPT ![b.addr].keys = TRUE]

RelayScript(resume, done) ==
  \E k \in 0..2 :
    LET b == IF resume THEN broadcast.relay ELSE [addr |-> Next1, on |-> 0, sent |-> 0]
    IN /\ b # NoScript
       /\ CanSend(b, k, 2)
       /\ b.sent = 1 /\ k = 2 => IsSettlement(b.addr)
       /\ contracts' = RelaySent(b, k)
       /\ broadcast' = [broadcast EXCEPT !.relay = [b EXCEPT !.sent = k]]
       /\ data' = IF resume THEN data ELSE [data EXCEPT ![link].relay = b.addr]
       /\ IF k = 2 THEN Goto(done)
          ELSE IF cmd.attempt < MaxAttempts THEN cmd' = [cmd EXCEPT !.attempt = @ + 1]
          ELSE End
       /\ UNCHANGED <<factory, lost, configVars, link, published>>

\* An attempt that sends nothing: no broadcast to resume, an unreachable RPC.
RelayAttemptFails ==
  /\ At("relay")
  /\ cmd.attempt < MaxAttempts
  /\ cmd' = [cmd EXCEPT !.attempt = @ + 1]
  /\ UNCHANGED <<chainVars, configVars, fileVars, broadcast>>

\* A script that creates one contract bound to a settlement.
CreateScript(on, p, done) ==
  \E k \in 0..1 :
    /\ Next1 + lost <= MaxContracts
    /\ contracts' = IF k = 1 THEN Append(contracts, Verifier(on)) ELSE contracts
    /\ data' = [data EXCEPT ![link].dst[p] = [addr |-> Next1, on |-> on]]
    /\ IF k = 1 THEN Goto(done) ELSE End
    /\ UNCHANGED <<factory, lost, configVars, link, published>>
    /\ broadcast' = IF p = "layerzero"
                    THEN [broadcast EXCEPT !.stack = [addr |-> Next1, on |-> on, sent |-> k]]
                    ELSE broadcast

---------------------------------------------------------------------------
(* chains, and the edits of a user *)

ResetChains ==
  /\ contracts # <<>>
  /\ contracts' = <<>> /\ factory' = FALSE
  /\ lost' = lost + Len(contracts)

\* chains --fresh: new chains, and nothing else forgotten.
RunChains ==
  /\ cmd = Idle /\ local
  /\ ResetChains
  /\ UNCHANGED <<configVars, fileVars, broadcast, cmd>>

EditProvider(e) ==
  /\ cmd = Idle /\ edits < MaxEdits
  /\ e \in Edited /\ Detected(e) # "none"
  /\ provider' = [provider EXCEPT ![e] = IF @ = "layerzero" THEN "chainlink_ccv" ELSE "layerzero"]
  /\ edits' = edits + 1
  /\ UNCHANGED <<chainVars, local, fileVars, broadcast, cmd>>

---------------------------------------------------------------------------
(* deploy *)

EnsureLink(e) == link' = e

ProviderUnchanged(e) == Detected(e) \in {"none", provider[e]}

FirstStep(e) ==
  CASE provider[e] = "layerzero"         -> "relay"
    [] provider[e] # "layerzero" /\ local -> "fresh"
    [] OTHER                             -> "source"

BeginDeploy(e) ==
  /\ cmd = Idle
  /\ EnsureLink(e)
  /\ IF ProviderUnchanged(e)
     THEN cmd' = [name |-> "deploy", env |-> e, pc |-> FirstStep(e), attempt |-> 1]
     ELSE cmd' = cmd
  /\ UNCHANGED <<chainVars, configVars, data, published, broadcast>>

\* LayerZero resumes whatever broadcast the chain id has.
LzRelay ==
  /\ At("relay") /\ Provider = "layerzero"
  /\ RelayScript(broadcast.relay # NoScript, "sync")

\* Deploy-data is rewritten from the broadcast.
Sync ==
  /\ At("sync")
  /\ data' = [data EXCEPT ![link].relay = broadcast.relay.addr]
  /\ Goto("stack")
  /\ UNCHANGED <<chainVars, configVars, link, published, broadcast>>

LzStackFresh ==
  /\ At("stack")
  /\ local \/ broadcast.stack = NoScript
  /\ CreateScript(Artifacts.relay, "layerzero", "checkpoint")

LzStackResume ==
  /\ At("stack")
  /\ ~local /\ broadcast.stack # NoScript
  /\ LET b == broadcast.stack
     IN /\ CanSend(b, 1, 1)
        /\ contracts' = IF b.sent = 1 THEN contracts ELSE Append(contracts, Verifier(b.on))
        /\ broadcast' = [broadcast EXCEPT !.stack.sent = 1]
  /\ Goto("checkpoint")
  /\ UNCHANGED <<factory, lost, configVars, fileVars>>

\* Local CCV: the factory's key must be unused, the relay is deployed anew.
CcvFresh ==
  /\ At("fresh")
  /\ IF factory THEN End ELSE Goto("relay")
  /\ UNCHANGED <<chainVars, configVars, fileVars, broadcast>>

\* CCIP contracts that exist: a relay with code is kept.
CcvKeepRelay ==
  /\ At("source")
  /\ Goto(IF HasCode(Artifacts.relay) THEN "factory" ELSE "relay")
  /\ UNCHANGED <<chainVars, configVars, fileVars, broadcast>>

CcvRelay ==
  /\ At("relay") /\ Provider = "chainlink_ccv"
  /\ RelayScript(cmd.attempt > 1, "factory")

\* Each script runs once.  The factory's requires a nonce of 0.
LocalFactory ==
  /\ At("factory") /\ local
  /\ ~factory
  /\ factory' = TRUE
  /\ Goto("verifier") \/ End
  /\ UNCHANGED <<contracts, lost, configVars, fileVars, broadcast>>

\* With CCIP contracts that exist the code on chain decides.
EnsureFactory ==
  /\ At("factory") /\ ~local
  /\ factory' = TRUE
  /\ Goto("verifier")
  /\ UNCHANGED <<contracts, lost, configVars, fileVars, broadcast>>

\* The verifier that deploy-data records serves when it has code, was deployed
\* for this settlement and knows a maximal validity of epochs.
IsCurrent ==
  LET v == Artifacts.dst["chainlink_ccv"]
  IN /\ HasCode(v.addr)
     /\ v.on = Artifacts.relay
     /\ contracts[v.addr].kind = "dst"

LocalVerifier ==
  /\ At("verifier") /\ local
  /\ CreateScript(Artifacts.relay, "chainlink_ccv", "wire")

EnsureVerifier ==
  /\ At("verifier") /\ ~local
  /\ IF IsCurrent
     THEN /\ Goto("wire")
          /\ UNCHANGED <<chainVars, configVars, fileVars, broadcast>>
     ELSE CreateScript(Artifacts.relay, "chainlink_ccv", "wire")

\* registerVerifier, the example applications and their peers.
CcvWire ==
  /\ At("wire")
  /\ Goto("checkpoint")
  /\ UNCHANGED <<chainVars, configVars, fileVars, broadcast>>

---------------------------------------------------------------------------
(* publish and genesis *)

\* What deploy-data has of the active provider replaces what was published.
Merged(old, files) ==
  [relay |-> IF files.relay # 0 THEN files.relay ELSE old.relay,
   dst   |-> [p \in Providers |-> IF p = Provider /\ files.dst[p] # None
                                  THEN files.dst[p] ELSE old.dst[p]]]

Publish ==
  /\ \/ At("checkpoint") /\ Goto("genesis")
     \/ At("publish") /\ Goto("generate")
  /\ published' = [published EXCEPT ![Env] = Merged(published[Env], Artifacts)]
  /\ UNCHANGED <<chainVars, configVars, link, data, broadcast>>

\* deploy takes the addresses of deploy-data, the other commands the published.
RelayOf == IF cmd.name = "deploy" THEN Artifacts.relay ELSE published[Env].relay
AfterGenesis ==
  CASE cmd.name = "deploy" -> Goto("publish")
    [] cmd.name = "start"  -> Goto("validate")
    [] OTHER               -> End

\* A genesis ages: whether one that is there is fresh enough for the command
\* is a choice.  refresh-genesis asks for a new one in any case.
KeepGenesis ==
  /\ At("genesis")
  /\ cmd.name # "refresh-genesis"
  /\ HasGenesis(RelayOf)
  /\ AfterGenesis
  /\ UNCHANGED <<chainVars, configVars, fileVars, broadcast>>

HasKeys(a) == IsSettlement(a) /\ contracts[a].keys

\* relay_utils computes a genesis once the operators' keys and stake are there.
GenesisReady == HasKeys(RelayOf)

\* The transaction may land although the command reports a failure.
CommitOutcome == AfterGenesis \/ End

\* On public chains the driver, which came with the settlement, must be there.
WaitForContract == ~local => HasCode(RelayOf)

CommitGenesis ==
  /\ At("genesis")
  /\ WaitForContract /\ GenesisReady
  /\ contracts' = [contracts EXCEPT ![RelayOf].genesis = TRUE]
  /\ CommitOutcome
  /\ UNCHANGED <<factory, lost, configVars, fileVars, broadcast>>

RefreshGenesis(e) ==
  /\ cmd = Idle
  /\ published[e].relay # 0
  /\ cmd' = [name |-> "refresh-genesis", env |-> e, pc |-> "genesis", attempt |-> 1]
  /\ UNCHANGED <<chainVars, configVars, fileVars, broadcast>>

FinalizeUnlessChanged(e) ==
  /\ IF ProviderUnchanged(e)
     THEN cmd' = [name |-> "finalize", env |-> e, pc |-> "publish", attempt |-> 1]
     ELSE cmd' = cmd
  /\ UNCHANGED <<chainVars, configVars, data, published, broadcast>>

\* Fault: only deploy leads the link to its environment.
FinalizeWhereverLinked(e) ==
  /\ cmd = Idle /\ link \in Envs
  /\ link' = link
  /\ FinalizeUnlessChanged(e)

\* deploy stopped after its contracts landed: the steps that follow them.
BeginFinalize(e) ==
  /\ cmd = Idle
  /\ EnsureLink(e)
  /\ FinalizeUnlessChanged(e)

---------------------------------------------------------------------------
(* generate, configure, validate *)

Dst == published[Env].dst[Provider]

\* The monitor of the active provider needs its contract's address.
RenderMonitor == Dst # None

\* What is configured is what is published.
CanConfigure == HasCode(Dst.addr)

\* CCV configures the verifiers; LayerZero has nothing to configure.
ConfigureStartup == Provider = "chainlink_ccv" => CanConfigure

\* Only a local start looks at the age of the genesis.
EnsuresEpochFresh == cmd.name = "start" /\ local

Prepare ==
  /\ At("generate")
  /\ RenderMonitor
  /\ ConfigureStartup
  /\ Goto(IF EnsuresEpochFresh THEN "genesis" ELSE "validate")
  /\ UNCHANGED <<chainVars, configVars, fileVars, broadcast>>

\* The active provider's contracts are published.
ValidateConfiguration == Dst # None

\* The settlement the published contract must be bound to.
ExpectedSettlement == IF Provider = "layerzero" THEN published[Env].relay ELSE Dst.on

CheckCode == HasCode(Dst.addr) /\ HasCode(ExpectedSettlement)

\* Fault: the published contracts need only have code.
ValidateCode == CheckCode

\* A contract that answers no settlement() is not taken for a mismatch.
ValidateChainState ==
  /\ CheckCode
  /\ contracts[Dst.addr].kind = "dst" => contracts[Dst.addr].on = ExpectedSettlement

ValidateGenesis == HasGenesis(published[Env].relay)

ValidateKeys == HasKeys(published[Env].relay)

Validate ==
  /\ At("validate")
  /\ ValidateConfiguration
  /\ ValidateChainState
  /\ ValidateGenesis
  /\ cmd.name = "start" \/ local => ValidateKeys
  /\ IF cmd.name = "start" THEN Goto("services") ELSE End
  /\ UNCHANGED <<chainVars, configVars, fileVars, broadcast>>

---------------------------------------------------------------------------
(* start and clean *)

BeginStart(e) ==
  /\ cmd = Idle
  /\ Detected(e) # "none"
  /\ cmd' = [name |-> "start", env |-> e, pc |-> "generate", attempt |-> 1]
  /\ UNCHANGED <<chainVars, configVars, fileVars, broadcast>>

StartServices ==
  /\ At("services") /\ End
  /\ UNCHANGED <<chainVars, configVars, fileVars, broadcast>>

\* Only a local environment loses anything: its file, the broadcasts of every
\* environment and the chains, which go with their containers and data (the
\* containers stay when docker fails, which clean ignores); deploy-data stays.
Clean(e) ==
  /\ cmd = Idle
  /\ IF local
     THEN /\ published' = [published EXCEPT ![e] = NoFiles]
          /\ broadcast' = [relay |-> NoScript, stack |-> NoScript]
          /\ ResetChains \/ UNCHANGED chainVars
     ELSE UNCHANGED <<published, broadcast, chainVars>>
  /\ UNCHANGED <<configVars, link, data, cmd>>

\* Any step of a command may fail: a missing setting, an RPC, docker, forge.
Fail ==
  /\ cmd # Idle
  /\ End
  /\ UNCHANGED <<chainVars, configVars, fileVars, broadcast>>

Init ==
  /\ local \in BOOLEAN
  /\ provider = [e \in Envs |-> IF e = LzEnv THEN "layerzero" ELSE "chainlink_ccv"]
  /\ contracts = <<>> /\ factory = FALSE
  /\ broadcast = [relay |-> NoScript, stack |-> NoScript]
  /\ link = "none"
  /\ data = [e \in Envs |-> NoFiles]
  /\ published = [e \in Envs |-> NoFiles]
  /\ cmd = Idle
  /\ lost = 0 /\ edits = 0

Deploy(e) == BeginDeploy(e) \/ BeginFinalize(e) \/ RefreshGenesis(e)
LzStep    == LzRelay \/ Sync \/ LzStackFresh \/ LzStackResume
CcvStep   == CcvFresh \/ CcvKeepRelay \/ CcvRelay \/ CcvWire
             \/ LocalFactory \/ EnsureFactory \/ LocalVerifier \/ EnsureVerifier

Next ==
  \/ RunChains
  \/ \E e \in Envs : EditProvider(e) \/ Deploy(e) \/ BeginStart(e) \/ Clean(e)
  \/ LzStep \/ CcvStep \/ RelayAttemptFails
  \/ Publish \/ KeepGenesis \/ CommitGenesis
  \/ Prepare \/ Validate \/ StartServices
  \/ Fail

Spec == Init /\ [][Next]_vars

---------------------------------------------------------------------------
(* Properties *)

\* A stack that start brings up is one deployment, whatever failed,
\* was resumed, edited or cleaned before: the published settlement has a
\* genesis and the operators' keys, and the published DVN or verifier checks
\* its proofs against that settlement (against the one published with it, on
\* a local chain that was reset, where old addresses are handed out again).
StartedIsOneDeployment ==
  At("services") =>
    LET s == published[Env].relay
    IN /\ HasGenesis(s) /\ HasKeys(s)
       /\ HasCode(Dst.addr)
       /\ contracts[Dst.addr].kind = "dst" => contracts[Dst.addr].on = ExpectedSettlement
       /\ lost = 0 => ExpectedSettlement = s

\* On public chains a CCV environment keeps the settlement it published once
\* that has a genesis, through failed and repeated commands, edits, and the
\* other environment's deployments on the same chains.
KeepsItsSettlement ==
  [][\A e \in Envs :
       ~local /\ Detected(e) = "chainlink_ccv" /\ HasGenesis(published[e].relay)
         => /\ published'[e].relay = published[e].relay
            /\ Detected(e)' = "chainlink_ccv"]_vars
=============================================================================
