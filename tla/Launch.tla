------------------------------- MODULE Launch -------------------------------
(***************************************************************************)
(* How the fhEVM contracts get onto a chain: the test task of              *)
(* hardhat.config.ts, the script launch-fhevm.sh (pnpm fhevm:start) and a   *)
(* manual task:launchFhevm, with the tasks they run (taskTFHE.ts,           *)
(* taskDeploy.ts, taskGatewayRelayer.ts).                                   *)
(*                                                                         *)
(* The contracts refer to each other by address before they exist: the     *)
(* address of each is computed from the key that will deploy it and the     *)
(* nonce that key is expected to have, written to a .env file, which the    *)
(* tasks read, and to a .sol constant, which contracts are compiled with.   *)
(* A deployment that lands elsewhere is noticed after it was made.  Files   *)
(* outlive a launch, a launch may be killed or repeated, a write may fail   *)
(* and only be logged, the node may be shared, and the faucet that funds    *)
(* the accounts refuses a transaction whose sequence number is taken.       *)
(***************************************************************************)
EXTENDS Integers, Sequences, FiniteSets

CONSTANTS
  Signer9,            \* the tenth account of the mnemonic
  GatewayDeployer, GatewayOwner, Relayer,   \* the keys of .env
  MaxLaunches,        \* bound: launches started
  MaxFaults           \* bound: failed writes, faucet errors, strangers' transactions

(* The last conjunct: a key is not one of the marks that stand for no address. *)
ASSUME LaunchAssumption ==
  /\ Signer9 \notin {GatewayDeployer, GatewayOwner, Relayer}
  /\ MaxLaunches \in Nat /\ MaxFaults \in Nat
  /\ {"nothing", "shipped"} \cap {Signer9, GatewayDeployer, GatewayOwner, Relayer} = {}

Keys      == {Signer9, GatewayDeployer, GatewayOwner, Relayer}
Contracts == {"acl", "exec", "kms", "gateway"}
Modes     == {"test", "node", "fund"}       \* hardhat test, launch-fhevm.sh, task:launchFhevm
Networks  == {"hardhat", "node"}

(* getCreateAddress: an address is its creator and the creator's nonce.     *)
(* Nothing is an empty or missing file, Shipped what the package or the      *)
(* launch of another mnemonic left in it.                                   *)
Nothing == <<"nothing", 0>>
Shipped == <<"shipped", 0>>

Creator(c) == IF c = "gateway" THEN GatewayDeployer ELSE Signer9

ExpectedNonce(c) ==
  CASE c = "acl" -> 0 [] c = "exec" -> 1 [] c = "kms" -> 2 [] c = "gateway" -> 0

Precomputed(c) == <<Creator(c), ExpectedNonce(c)>>

(* What each mode runs, in order.  The script compiles the contracts after  *)
(* the gateway's address is known, the test task before any is; the last    *)
(* steps are task:launchFhevm, without its funding in the script.           *)
Compute == [c \in Contracts |-> <<"compute", c>>]
Deploy  == [c \in Contracts |-> <<"deploy", c>>]

Core == <<Compute["acl"], Compute["exec"], Compute["kms"],
          Deploy["acl"], Deploy["exec"], Deploy["kms"]>>

LaunchFhevm == <<<<"wait">>, Deploy["gateway"], <<"addRelayer">>>>

Program == [
  test |-> <<<<"build", "contracts">>, <<"build", "copy">>, <<"mock">>, Compute["gateway"]>>
             \o Core \o <<<<"fund">>>> \o LaunchFhevm,
  node |-> <<<<"build", "copy">>, Compute["gateway"], <<"build", "contracts">>>>
             \o Core \o LaunchFhevm,
  fund |-> <<<<"fund">>>> \o LaunchFhevm]

VARIABLES
  mode, pc, outcome,      \* the launch: what runs, its next step, how it ended
  env, sol,               \* files: the addresses in .env.* and in the .sol constants
  built,                  \* artifacts: the constants the contracts, and the copy of fhevm, were compiled with
  layout,                 \* artifacts: the mode whose directory the copy was compiled from
  edited,                 \* the tasks name the artifacts by the script's directory
  chain,                  \* of each network: nonces, code, funded accounts, relayers, mocked precompile
  calls,                  \* the three calls of getCoin
  pending,                \* coins accepted by the faucet and not in a block yet
  launches, faults,       \* what counts against the bounds
  sound,                  \* history: the launch met its assumptions and no fault
  settled                 \* history: whether an earlier launch has written all the files

launchVars == <<mode, pc, outcome>>
fileVars   == <<env, sol>>
artifacts  == <<built, layout, edited>>
funding    == <<calls, pending>>
bounds     == <<launches, faults>>
vars == <<launchVars, fileVars, artifacts, chain, funding, bounds, sound, settled>>

NotBuilt == [c \in Contracts |-> Nothing]

(* A network nobody has used, with the accounts in funded able to pay.      *)
FreshChain(funded) ==
  [nonce |-> [k \in Keys |-> 0], code |-> {}, funded |-> funded, relaying |-> {}, mocked |-> FALSE]

Roles == {"deployer", "owner", "relayer"}
Account == [deployer |-> GatewayDeployer, owner |-> GatewayOwner, relayer |-> Relayer]
GatewayKeys == {GatewayDeployer, GatewayOwner, Relayer}

Running == outcome = "running"
At(step) == Running /\ Program[mode][pc] = step
Net == IF mode = "test" THEN "hardhat" ELSE "node"

(* Mutant: the end of the program is not noticed.                           *)
ProceedPastEnd ==
  /\ pc' = pc + 1
  /\ outcome' = IF pc < Len(Program[mode]) THEN "running" ELSE "done"
  /\ UNCHANGED mode

(* The next step, or the end.                                               *)
Proceed ==
  /\ pc' = IF pc < Len(Program[mode]) THEN pc + 1 ELSE pc
  /\ outcome' = IF pc < Len(Program[mode]) THEN "running" ELSE "done"
  /\ UNCHANGED mode

(* A step throws.  The test task and launchFhevm end there; the script, a    *)
(* list of commands without `set -e', goes on with its next command.        *)
InLaunchFhevm == pc > Len(Program[mode]) - Len(LaunchFhevm)

Throw ==
  IF mode = "node" /\ ~InLaunchFhevm
  THEN Proceed
  ELSE outcome' = "failed" /\ UNCHANGED <<mode, pc>>
-----------------------------------------------------------------------------
Init ==
  /\ mode = "test" /\ pc = 1 /\ outcome = "idle"
  /\ \E old \in {Nothing, Shipped} : env = [c \in Contracts |-> old]
  /\ sol = [c \in Contracts |-> Shipped]
  /\ built = [u \in {"contracts", "copy"} |-> NotBuilt]
  /\ layout = "test" /\ edited = FALSE
  /\ \E funded \in {{}, GatewayKeys} :
       chain = [hardhat |-> FreshChain({}), node |-> FreshChain(funded)]
  /\ calls = [r \in Roles |-> "none"] /\ pending = {}
  /\ launches = 0 /\ faults = 0
  /\ sound = FALSE /\ settled = "no"

(* A launch presupposes sources that compile, tasks that fit its directory   *)
(* and, for the node, a fresh one whose accounts can pay.                   *)
MeetsAssumptions(m) ==
  /\ \A c \in Contracts : sol[c] # Nothing
  /\ edited <=> m = "node"
  /\ m # "fund"
  /\ m = "node" => /\ \A k \in Keys : chain["node"].nonce[k] = 0
                   /\ GatewayKeys \subseteq chain["node"].funded

(* Somebody starts a launch.  The test task works on a chain of its own      *)
(* process; both it and the script begin with hardhat clean.                *)
Start(m) ==
  /\ ~Running /\ launches < MaxLaunches
  /\ launches' = launches + 1
  /\ mode' = m /\ pc' = 1 /\ outcome' = "running"
  /\ built' = IF m = "fund" THEN built ELSE [u \in DOMAIN built |-> NotBuilt]
  /\ chain' = IF m = "test" THEN [chain EXCEPT !["hardhat"] = FreshChain({})] ELSE chain
  /\ calls' = [r \in Roles |-> "none"]
  /\ sound' = MeetsAssumptions(m)
  /\ settled' = IF settled = "next" THEN "yes" ELSE settled
  /\ UNCHANGED <<fileVars, layout, edited, pending, faults>>

(* compile:specific.  A constant file that is empty does not compile.  The   *)
(* copy of fhevm is taken from the package when it is compiled.             *)
Build(u) ==
  /\ At(<<"build", u>>)
  /\ layout' = IF u = "copy" THEN mode ELSE layout
  /\ UNCHANGED <<fileVars, edited, chain, funding, bounds, sound, settled>>
  /\ IF Nothing \in {sol[c] : c \in Contracts}
     THEN Throw /\ UNCHANGED built
     ELSE Proceed /\ built' = [built EXCEPT ![u] = sol]

(* hardhat_setCode at 0x5d.                                                 *)
MockPrecompile ==
  /\ At(<<"mock">>)
  /\ chain' = [chain EXCEPT !["hardhat"].mocked = TRUE]
  /\ Proceed
  /\ UNCHANGED <<fileVars, artifacts, funding, bounds, sound, settled>>

(* Mutant: only the .env file is written.                                   *)
ComputeEnvOnly(c) ==
  /\ At(Compute[c])
  /\ Proceed
  /\ env' = [env EXCEPT ![c] = Precomputed(c)]
  /\ settled' = IF c = "kms" /\ sound /\ settled = "no" THEN "next" ELSE settled
  /\ UNCHANGED <<sol, artifacts, chain, funding, bounds, sound>>

(* task:computeXAddress and task:computePredeployAddress.                   *)
ComputeAddress(c) ==
  /\ At(Compute[c])
  /\ Proceed
  /\ env' = [env EXCEPT ![c] = Precomputed(c)]
  /\ sol' = [sol EXCEPT ![c] = Precomputed(c)]
  /\ settled' = IF c = "kms" /\ sound /\ settled = "no" THEN "next" ELSE settled
  /\ UNCHANGED <<artifacts, chain, funding, bounds, sound>>

(* The same task when one of its writes, or both, fail: the error is caught  *)
(* and logged.  The file keeps its content or, truncated first, has none.    *)
ComputeAddressFails(c) ==
  /\ At(Compute[c]) /\ faults < MaxFaults
  /\ Proceed
  /\ \E e \in {Precomputed(c), env[c], Nothing}, s \in {Precomputed(c), sol[c], Nothing} :
       /\ <<e, s>> # <<Precomputed(c), Precomputed(c)>>
       /\ env' = [env EXCEPT ![c] = e]
       /\ sol' = [sol EXCEPT ![c] = s]
  /\ faults' = faults + 1 /\ sound' = FALSE
  /\ settled' = IF sol'[c] = Precomputed(c) THEN settled ELSE "no"
  /\ UNCHANGED <<artifacts, chain, funding, launches>>
-----------------------------------------------------------------------------
(* Deployments.  The factory is found by the directory its artifact was      *)
(* compiled from, the executor's by its bare name.  (Mutant: by the test      *)
(* task's directory always.)                                                *)
FactoryOfTests(c) ==
  /\ built["copy"] # NotBuilt
  /\ c # "exec" => layout = "test"

FactoryFound(c) ==
  /\ built["copy"] # NotBuilt
  /\ c # "exec" => (edited <=> layout = "node")

(* The constructor's address: the ACL is told of the executor before it       *)
(* exists, the gateway of the KMS verifier; both come from .env files.       *)
NeedsAddress == [acl |-> "exec", gateway |-> "kms"]

Argument(c) == IF c \in DOMAIN NeedsAddress THEN env[NeedsAddress[c]] ELSE Shipped

CanPay(key) == Net = "hardhat" \/ key = Signer9 \/ key \in chain[Net].funded

CanDeploy(c) == FactoryFound(c) /\ Argument(c) # Nothing /\ CanPay(Creator(c))

LandsAt(c) == <<Creator(c), chain[Net].nonce[Creator(c)]>>

(* The deployment's transaction takes the creator's next nonce, wherever    *)
(* that is.                                                                 *)
Deployed(c) ==
  [chain EXCEPT
     ![Net].nonce[Creator(c)] = @ + 1,
     ![Net].code = @ \cup {[kind |-> c, at |-> LandsAt(c), told |-> Argument(c),
                            constants |-> built["copy"]]}]

(* Mutant: the address is not compared with the .env file.                  *)
DeployUnchecked(c) ==
  /\ At(Deploy[c])
  /\ UNCHANGED <<fileVars, artifacts, funding, bounds, sound, settled>>
  /\ IF CanDeploy(c) THEN chain' = Deployed(c) /\ Proceed ELSE UNCHANGED chain /\ Throw

(* task:deployX: throws before the transaction when something it needs is    *)
(* missing, and after it when the contract landed elsewhere: the nonce and    *)
(* the code stay.                                                           *)
DeployContract(c) ==
  /\ At(Deploy[c])
  /\ UNCHANGED <<fileVars, artifacts, funding, bounds, sound, settled>>
  /\ IF CanDeploy(c)
     THEN /\ chain' = Deployed(c)
          /\ IF LandsAt(c) = env[c] THEN Proceed ELSE Throw
     ELSE UNCHANGED chain /\ Throw

-----------------------------------------------------------------------------
(* task:launchFhevm: funding, a pause, the gateway and its relayer.         *)

SetBalances ==
  /\ At(<<"fund">>) /\ Net = "hardhat"
  /\ chain' = [chain EXCEPT !["hardhat"].funded = GatewayKeys]
  /\ Proceed
  /\ UNCHANGED <<fileVars, artifacts, funding, bounds, sound, settled>>

(* The faucet of the node reads its account's sequence number and signs.     *)
FaucetSigns(r) ==
  /\ At(<<"fund">>) /\ Net = "node" /\ calls[r] = "none"
  /\ calls' = [calls EXCEPT ![r] = "signed"]
  /\ UNCHANGED <<launchVars, fileVars, artifacts, chain, pending, bounds, sound, settled>>

(* The node accepts it: every other transaction signed so far is outrun.    *)
Outrun(cs) == [r \in Roles |-> IF cs[r] = "signed" THEN "outrun" ELSE cs[r]]

FaucetAccepts(r) ==
  /\ outcome \in {"running", "failed"} /\ calls[r] = "signed"
  /\ calls' = [Outrun(calls) EXCEPT ![r] = "paid"]
  /\ pending' = pending \cup {Account[r]}
  /\ UNCHANGED <<launchVars, fileVars, artifacts, chain, bounds, sound, settled>>

(* Mutants: an "account sequence mismatch" ends getCoin; it sends the same   *)
(* transaction again.                                                       *)
GetCoinGivesUp(r) ==
  /\ At(<<"fund">>) /\ calls[r] = "outrun"
  /\ calls' = [calls EXCEPT ![r] = "paid"]
  /\ UNCHANGED <<launchVars, fileVars, artifacts, chain, pending, bounds, sound, settled>>

GetCoinResends(r) ==
  /\ At(<<"fund">>) /\ calls[r] = "outrun"
  /\ UNCHANGED vars

(* "account sequence mismatch": getCoin calls itself again.                 *)
GetCoinAgain(r) ==
  /\ At(<<"fund">>) /\ calls[r] = "outrun"
  /\ calls' = [calls EXCEPT ![r] = "none"]
  /\ UNCHANGED <<launchVars, fileVars, artifacts, chain, pending, bounds, sound, settled>>

(* Promise.all: all three have returned.                                    *)
AllFunded ==
  /\ At(<<"fund">>) /\ Net = "node"
  /\ \A r \in Roles : calls[r] \in {"paid", "refused"}
  /\ Proceed
  /\ UNCHANGED <<fileVars, artifacts, chain, funding, bounds, sound, settled>>

(* Any other answer of the faucet: getCoin looks for the mismatch only and   *)
(* returns; a command that fails rejects, and Promise.all with it, although   *)
(* the other calls may still be answered.                                   *)
FaucetRefuses(r) ==
  /\ At(<<"fund">>) /\ calls[r] = "signed" /\ faults < MaxFaults
  /\ calls' = [calls EXCEPT ![r] = "refused"]
  /\ faults' = faults + 1 /\ sound' = FALSE
  /\ UNCHANGED <<launchVars, fileVars, artifacts, chain, pending, launches, settled>>

FaucetFails(r) ==
  /\ At(<<"fund">>) /\ calls[r] \in {"none", "signed"} /\ faults < MaxFaults
  /\ calls' = [calls EXCEPT ![r] = "refused"]
  /\ Throw
  /\ faults' = faults + 1 /\ sound' = FALSE
  /\ UNCHANGED <<fileVars, artifacts, chain, pending, launches, settled>>

(* Five seconds, in which a block may be made or not.                       *)
WaitFiveSeconds ==
  /\ At(<<"wait">>)
  /\ Proceed
  /\ UNCHANGED <<fileVars, artifacts, chain, funding, bounds, sound, settled>>

NodeMakesBlock ==
  /\ pending # {}
  /\ chain' = [chain EXCEPT !["node"].funded = @ \cup pending]
  /\ pending' = {}
  /\ UNCHANGED <<launchVars, fileVars, artifacts, calls, bounds, sound, settled>>

CodeAt(n, a) == {d \in chain[n].code : d.at = a}

(* task:addRelayer and task:removeRelayer: the owner's transaction to the     *)
(* gateway whose address is in the .env file.                               *)
AddRelayer ==
  /\ At(<<"addRelayer">>)
  /\ UNCHANGED <<fileVars, artifacts, funding, bounds, sound, settled>>
  /\ IF CodeAt(Net, env["gateway"]) # {} /\ CanPay(GatewayOwner)
     THEN /\ chain' = [chain EXCEPT ![Net].nonce[GatewayOwner] = @ + 1,
                                    ![Net].relaying = @ \cup {env["gateway"]}]
          /\ Proceed
     ELSE UNCHANGED chain /\ Throw

RemoveRelayer ==
  /\ ~Running
  /\ env["gateway"] \in chain["node"].relaying
  /\ chain' = [chain EXCEPT !["node"].nonce[GatewayOwner] = @ + 1,
                            !["node"].relaying = @ \ {env["gateway"]}]
  /\ outcome' = "idle"
  /\ UNCHANGED <<mode, pc, fileVars, artifacts, funding, bounds, sound, settled>>
-----------------------------------------------------------------------------
(* What else happens around a launch.                                       *)

(* The launch is killed between two of its steps.                           *)
Kill ==
  /\ Running /\ faults < MaxFaults
  /\ outcome' = "failed" /\ sound' = FALSE /\ faults' = faults + 1
  /\ UNCHANGED <<mode, pc, fileVars, artifacts, chain, funding, launches, settled>>

(* Signer 9 is also the wallet `anotherWallet' of tests and tasks.          *)
StrangerOnNode ==
  /\ faults < MaxFaults
  /\ chain' = [chain EXCEPT !["node"].nonce[Signer9] = @ + 1]
  /\ faults' = faults + 1 /\ sound' = FALSE
  /\ UNCHANGED <<launchVars, fileVars, artifacts, funding, launches, settled>>

(* Somebody else asks the same faucet.                                      *)
StrangerAtFaucet ==
  /\ faults < MaxFaults
  /\ calls' = Outrun(calls) /\ faults' = faults + 1
  /\ UNCHANGED <<launchVars, fileVars, artifacts, chain, pending, launches, sound, settled>>

(* "Please relaunch a clean instance of the fhEVM", with its accounts funded  *)
(* or not.                                                                  *)
CleanNode ==
  /\ ~Running
  /\ \E funded \in {{}, GatewayKeys} : chain' = [chain EXCEPT !["node"] = FreshChain(funded)]
  /\ pending' = {} /\ outcome' = "idle" /\ calls' = [r \in Roles |-> "none"]
  /\ UNCHANGED <<mode, pc, fileVars, artifacts, bounds, sound, settled>>

(* README.md:126: the directory in the tasks has to be edited for the node.  *)
EditTasks ==
  /\ ~Running
  /\ edited' = ~edited
  /\ UNCHANGED <<launchVars, fileVars, built, layout, chain, funding, bounds, sound, settled>>

LaunchStep ==
  \/ \E u \in {"contracts", "copy"} : Build(u)
  \/ \E c \in Contracts : ComputeAddress(c) \/ DeployContract(c)
  \/ \E r \in Roles : FaucetSigns(r) \/ FaucetAccepts(r) \/ GetCoinAgain(r)
  \/ MockPrecompile \/ SetBalances \/ AllFunded \/ WaitFiveSeconds \/ AddRelayer

Environment ==
  \/ \E m \in Modes : Start(m)
  \/ \E c \in Contracts : ComputeAddressFails(c)
  \/ \E r \in Roles : FaucetRefuses(r) \/ FaucetFails(r)
  \/ NodeMakesBlock \/ Kill \/ StrangerOnNode \/ StrangerAtFaucet
  \/ CleanNode \/ EditTasks \/ RemoveRelayer

Next == LaunchStep \/ Environment

(* A running launch takes its next step: it is a sequential program that      *)
(* awaits calls which return.  Nobody is obliged to start one.              *)
Spec == Init /\ [][Next]_vars /\ WF_vars(LaunchStep)

-----------------------------------------------------------------------------
(* Properties.                                                             *)

TypeOK ==
  LET Addresses == {Nothing, Shipped} \cup (Keys \X Nat)
  IN  /\ mode \in Modes /\ pc \in 1 .. Len(Program[mode])
      /\ outcome \in {"idle", "running", "done", "failed"}
      /\ env \in [Contracts -> Addresses] /\ sol \in [Contracts -> Addresses]
      /\ \A u \in DOMAIN built : built[u] \in [Contracts -> Addresses]
      /\ \A n \in Networks : /\ chain[n].nonce \in [Keys -> Nat]
                             /\ chain[n].funded \subseteq GatewayKeys
      /\ calls \in [Roles -> {"none", "signed", "outrun", "paid", "refused"}]

InPlace(n, c) == {d \in CodeAt(n, Precomputed(c)) : d.kind = c}

GatewayServes(n) ==
  InPlace(n, "gateway") # {} /\ Precomputed("gateway") \in chain[n].relaying

CoreIsWired(n) ==
  /\ \A c \in {"acl", "exec", "kms"} : InPlace(n, c) # {}
  /\ \A d \in InPlace(n, "acl") : d.told = Precomputed("exec")
  /\ \A d \in InPlace(n, "gateway") : d.told = Precomputed("kms")

(* A launch that reports success has its gateway at the address that was      *)
(* computed for it, with the relayer added; a test run, and a script that met *)
(* its assumptions and no fault, also has the other contracts in place, the   *)
(* ACL told of the executor and the gateway of the KMS verifier, although     *)
(* both were told before, and from files whose writing may have failed.      *)
LaunchedIsWired ==
  outcome = "done" =>
    /\ GatewayServes(Net)
    /\ mode = "test" \/ sound => CoreIsWired(Net)

(* The test task compiles before it computes the addresses.  So its contracts *)
(* know the right ones only from files of an earlier launch: once one has     *)
(* written them all, every later test run is compiled with the addresses at  *)
(* which its contracts are, the executor with that of the ACL among them.    *)
TestsRunAgainstDeployed ==
  outcome = "done" /\ mode = "test" /\ settled = "yes" =>
    /\ \A c \in Contracts : built["contracts"][c] = Precomputed(c)
    /\ \A d \in InPlace("hardhat", "exec") : d.constants["acl"] = Precomputed("acl")

(* Three concurrent calls draw on one faucet, whose transactions outrun each  *)
(* other: when launchFhevm has gone past them, each account has its coin,     *)
(* unless the faucet gave an answer that getCoin does not look for.          *)
EveryAccountGetsItsCoin ==
  Running /\ mode = "fund" /\ pc > 1 =>
    \A r \in Roles : calls[r] # "refused" => Account[r] \in chain["node"].funded \cup pending

(* A launch ends, however often its faucet calls have to be repeated.        *)
LaunchEnds == Running ~> ~Running

(* A launch that met its assumptions succeeds unless a fault hits it: order,  *)
(* nonces and addresses of the whole procedure agree.                        *)
SoundLaunchSucceeds == (Running /\ sound) ~> (outcome = "done" \/ ~sound)
=============================================================================
