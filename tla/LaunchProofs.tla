---------------------------- MODULE LaunchProofs ----------------------------
(***************************************************************************)
(* Proofs about the launch of the fhEVM contracts, for any keys (one key may *)
(* deploy the gateway, own it and relay for it) and any number of launches   *)
(* and faults.                                                              *)
(*                                                                         *)
(* The invariant is told in terms of the steps that the launch has passed:   *)
(* what each leaves behind on the chain and in the files, and that nothing   *)
(* undoes it before the end.                                                *)
(***************************************************************************)
EXTENDS Launch, TLAPS

-----------------------------------------------------------------------------
(* The invariant.                                                          *)

Live == outcome \in {"running", "done"}

(* The number of the step that comes next, which is past the last one when   *)
(* the launch is done.                                                      *)
Reached == IF outcome = "done" THEN pc + 1 ELSE pc

Passed(step) ==
  Live /\ \E i \in 1 .. Len(Program[mode]) : Program[mode][i] = step /\ i < Reached

Addresses == {Nothing, Shipped} \cup (Keys \X Nat)

Codes == [kind : Contracts, at : Keys \X Nat, told : Addresses,
          constants : [Contracts -> Addresses]]

Chains == [nonce : [Keys -> Nat], code : SUBSET Codes, funded : SUBSET GatewayKeys,
           relaying : SUBSET Addresses, mocked : BOOLEAN]

ControlTypes ==
  /\ mode \in Modes /\ pc \in 1 .. Len(Program[mode])
  /\ outcome \in {"idle", "running", "done", "failed"}
  /\ outcome = "done" => pc = Len(Program[mode])
  /\ layout \in {"test", "node"} /\ edited \in BOOLEAN
  /\ sound \in BOOLEAN /\ settled \in {"no", "next", "yes"}
  /\ sound => mode # "fund"

(* A file has the address that is expected for the contract, or none.        *)
Known(c) == {Nothing, Shipped, Precomputed(c)}

FileTypes ==
  /\ env \in [Contracts -> Addresses] /\ sol \in [Contracts -> Addresses]
  /\ \A c \in Contracts : env[c] \in Known(c) /\ sol[c] \in Known(c)
  /\ built \in [{"contracts", "copy"} -> [Contracts -> Addresses]]

ChainTypes ==
  /\ chain \in [Networks -> Chains]
  /\ \A n \in Networks : \A d \in chain[n].code : d.at[2] < chain[n].nonce[d.at[1]]

FundingTypes ==
  /\ calls \in [Roles -> {"none", "signed", "outrun", "paid", "refused"}]
  /\ pending \subseteq GatewayKeys

(* The launches that cannot pass a deployment which did not succeed.         *)
Sure == mode = "test" \/ sound

(* What the deployments leave on the chain.                                 *)
DeploymentsStand ==
  /\ Passed(Deploy["gateway"]) =>
       env["gateway"] = Precomputed("gateway") /\ InPlace(Net, "gateway") # {}
  /\ Passed(<<"addRelayer">>) => Precomputed("gateway") \in chain[Net].relaying
  /\ Sure =>
       /\ \A c \in {"acl", "exec", "kms"} :
            Passed(Deploy[c]) => env[c] = Precomputed(c) /\ InPlace(Net, c) # {}
       /\ Passed(Deploy["acl"]) => \A d \in InPlace(Net, "acl") : d.told = env["exec"]
       /\ Passed(Deploy["gateway"]) => \A d \in InPlace(Net, "gateway") : d.told = env["kms"]

(* Why no step of a sound launch throws before the gateway's.                *)
CoreNonce ==
  IF Passed(Deploy["kms"]) THEN 3
  ELSE IF Passed(Deploy["exec"]) THEN 2
  ELSE IF Passed(Deploy["acl"]) THEN 1 ELSE 0

SoundIsOnCourse ==
  Running /\ sound =>
    /\ mode # "fund"
    /\ \A c \in Contracts : sol[c] # Nothing
    /\ \A c \in Contracts :
         Passed(Compute[c]) => env[c] = Precomputed(c) /\ sol[c] = Precomputed(c)
    /\ mode = "node" =>
         /\ edited
         /\ chain["node"].nonce[Signer9] = CoreNonce
         /\ Passed(<<"build", "copy">>) => built["copy"] # NotBuilt /\ layout = "node"

(* The constants that a test run is compiled with.                          *)
SettledIsCompiled ==
  /\ settled # "no" => \A c \in Contracts : sol[c] = Precomputed(c)
  /\ settled = "yes" /\ mode = "test" =>
       \A u \in {"contracts", "copy"} :
         Passed(<<"build", u>>) => \A c \in Contracts : built[u][c] = Precomputed(c)
  /\ Live /\ mode = "test" =>
       \A d \in chain["hardhat"].code : Passed(Deploy[d.kind]) /\ d.constants = built["copy"]

(* What the accounts get from the faucet.                                   *)
CoinsArrive ==
  /\ \A r \in Roles : calls[r] = "paid" => Account[r] \in chain["node"].funded \cup pending
  /\ mode = "fund" /\ Passed(<<"fund">>) => \A r \in Roles : calls[r] \in {"paid", "refused"}

LaunchInv ==
  /\ ControlTypes /\ FileTypes /\ ChainTypes /\ FundingTypes
  /\ DeploymentsStand /\ SoundIsOnCourse /\ SettledIsCompiled /\ CoinsArrive

-----------------------------------------------------------------------------
(* The programs, step by step.                                             *)

LEMMA StepNames ==
  /\ \A c \in Contracts : Compute[c] = <<"compute", c>> /\ Deploy[c] = <<"deploy", c>>
  /\ Contracts = {"acl", "exec", "kms", "gateway"}
  BY DEF Compute, Deploy, Contracts

LEMMA CoreSteps ==
  /\ Core = <<<<"compute", "acl">>, <<"compute", "exec">>, <<"compute", "kms">>,
              <<"deploy", "acl">>, <<"deploy", "exec">>, <<"deploy", "kms">>>>
  /\ LaunchFhevm = <<<<"wait">>, <<"deploy", "gateway">>, <<"addRelayer">>>>
  BY DEF Core, LaunchFhevm, Compute, Deploy, Contracts

LEMMA TestProgram ==
  /\ Len(Program["test"]) = 14
  /\ Program["test"][1] = <<"build", "contracts">>
  /\ Program["test"][2] = <<"build", "copy">>
  /\ Program["test"][3] = <<"mock">>
  /\ Program["test"][4] = <<"compute", "gateway">>
  /\ Program["test"][5] = <<"compute", "acl">>
  /\ Program["test"][6] = <<"compute", "exec">>
  /\ Program["test"][7] = <<"compute", "kms">>
  /\ Program["test"][8] = <<"deploy", "acl">>
  /\ Program["test"][9] = <<"deploy", "exec">>
  /\ Program["test"][10] = <<"deploy", "kms">>
  /\ Program["test"][11] = <<"fund">>
  /\ Program["test"][12] = <<"wait">>
  /\ Program["test"][13] = <<"deploy", "gateway">>
  /\ Program["test"][14] = <<"addRelayer">>
<1>1. Program["test"] = <<<<"build", "contracts">>, <<"build", "copy">>, <<"mock">>,
                          <<"compute", "gateway">>>> \o Core \o <<<<"fund">>>> \o LaunchFhevm
  BY DEF Program, Compute, Contracts
<1> QED BY <1>1, CoreSteps

LEMMA NodeProgram ==
  /\ Len(Program["node"]) = 12
  /\ Program["node"][1] = <<"build", "copy">>
  /\ Program["node"][2] = <<"compute", "gateway">>
  /\ Program["node"][3] = <<"build", "contracts">>
  /\ Program["node"][4] = <<"compute", "acl">>
  /\ Program["node"][5] = <<"compute", "exec">>
  /\ Program["node"][6] = <<"compute", "kms">>
  /\ Program["node"][7] = <<"deploy", "acl">>
  /\ Program["node"][8] = <<"deploy", "exec">>
  /\ Program["node"][9] = <<"deploy", "kms">>
  /\ Program["node"][10] = <<"wait">>
  /\ Program["node"][11] = <<"deploy", "gateway">>
  /\ Program["node"][12] = <<"addRelayer">>
<1>1. Program["node"] = <<<<"build", "copy">>, <<"compute", "gateway">>,
                          <<"build", "contracts">>>> \o Core \o LaunchFhevm
  BY DEF Program, Compute, Contracts
<1> QED BY <1>1, CoreSteps

LEMMA FundProgram ==
  /\ Len(Program["fund"]) = 4
  /\ Program["fund"][1] = <<"fund">>
  /\ Program["fund"][2] = <<"wait">>
  /\ Program["fund"][3] = <<"deploy", "gateway">>
  /\ Program["fund"][4] = <<"addRelayer">>
<1>1. Program["fund"] = <<<<"fund">>>> \o LaunchFhevm
  BY DEF Program
<1> QED BY <1>1, CoreSteps

(* Each step of a program occurs once.                                      *)
LEMMA TestOnce ==
  ASSUME NEW i \in 1 .. 14, NEW j \in 1 .. 14, Program["test"][i] = Program["test"][j]
  PROVE  i = j
<1>1. i \in {1, 2, 3, 4, 5, 6, 7, 8, 9, 10, 11, 12, 13, 14}
  OBVIOUS
<1>2. j \in {1, 2, 3, 4, 5, 6, 7, 8, 9, 10, 11, 12, 13, 14}
  OBVIOUS
<1> QED BY <1>1, <1>2, TestProgram

LEMMA NodeOnce ==
  ASSUME NEW i \in 1 .. 12, NEW j \in 1 .. 12, Program["node"][i] = Program["node"][j]
  PROVE  i = j
<1>1. i \in {1, 2, 3, 4, 5, 6, 7, 8, 9, 10, 11, 12}
  OBVIOUS
<1>2. j \in {1, 2, 3, 4, 5, 6, 7, 8, 9, 10, 11, 12}
  OBVIOUS
<1> QED BY <1>1, <1>2, NodeProgram

LEMMA FundOnce ==
  ASSUME NEW i \in 1 .. 4, NEW j \in 1 .. 4, Program["fund"][i] = Program["fund"][j]
  PROVE  i = j
<1>1. i \in {1, 2, 3, 4} /\ j \in {1, 2, 3, 4}
  OBVIOUS
<1> QED BY <1>1, FundProgram

(* The step k of the program is the next one when pc is there, and passed     *)
(* when pc is beyond.                                                       *)
LEMMA StepPlace ==
  ASSUME ControlTypes, NEW k \in 1 .. Len(Program[mode]), NEW step, Program[mode][k] = step
  PROVE  /\ Running => (At(step) <=> pc = k) /\ (Passed(step) <=> k < pc)
         /\ outcome = "done" => Passed(step)
<1>1. mode \in {"test", "node", "fund"} /\ pc \in 1 .. Len(Program[mode])
  BY DEF ControlTypes, Modes
<1>2. \A i \in 1 .. Len(Program[mode]) : Program[mode][i] = step => i = k
  <2>1. CASE mode = "test"
    BY <2>1, TestOnce, TestProgram
  <2>2. CASE mode = "node"
    BY <2>2, NodeOnce, NodeProgram
  <2>3. CASE mode = "fund"
    BY <2>3, FundOnce, FundProgram
  <2> QED BY <1>1, <2>1, <2>2, <2>3
<1>3. Len(Program[mode]) \in Nat
  BY <1>1, TestProgram, NodeProgram, FundProgram
<1>4. ASSUME Running PROVE (At(step) <=> pc = k) /\ (Passed(step) <=> k < pc)
  <2>1. outcome = "running" /\ Reached = pc
    BY <1>4 DEF Running, Reached
  <2>2. At(step) <=> pc = k
    BY <1>1, <1>2, <1>4 DEF At
  <2>3. Passed(step) <=> k < pc
    BY <1>2, <2>1 DEF Passed, Live
  <2> QED BY <2>2, <2>3
<1>5. ASSUME outcome = "done" PROVE Passed(step)
  <2>1. Reached = pc + 1 /\ pc = Len(Program[mode])
    BY <1>5 DEF Reached, ControlTypes
  <2>2. k < Reached
    BY <1>3, <2>1
  <2> QED BY <1>5, <2>2 DEF Passed, Live
<1> QED BY <1>4, <1>5

LEMMA TestPlaces ==
  ASSUME ControlTypes, Running, mode = "test"
  PROVE  /\ pc \in 1 .. 14
         /\ (At(<<"build", "contracts">>) <=> pc = 1) /\ (Passed(<<"build", "contracts">>) <=> 1 < pc)
         /\ (At(<<"build", "copy">>) <=> pc = 2) /\ (Passed(<<"build", "copy">>) <=> 2 < pc)
         /\ (At(<<"mock">>) <=> pc = 3) /\ (Passed(<<"mock">>) <=> 3 < pc)
         /\ (At(Compute["gateway"]) <=> pc = 4) /\ (Passed(Compute["gateway"]) <=> 4 < pc)
         /\ (At(Compute["acl"]) <=> pc = 5) /\ (Passed(Compute["acl"]) <=> 5 < pc)
         /\ (At(Compute["exec"]) <=> pc = 6) /\ (Passed(Compute["exec"]) <=> 6 < pc)
         /\ (At(Compute["kms"]) <=> pc = 7) /\ (Passed(Compute["kms"]) <=> 7 < pc)
         /\ (At(Deploy["acl"]) <=> pc = 8) /\ (Passed(Deploy["acl"]) <=> 8 < pc)
         /\ (At(Deploy["exec"]) <=> pc = 9) /\ (Passed(Deploy["exec"]) <=> 9 < pc)
         /\ (At(Deploy["kms"]) <=> pc = 10) /\ (Passed(Deploy["kms"]) <=> 10 < pc)
         /\ (At(<<"fund">>) <=> pc = 11) /\ (Passed(<<"fund">>) <=> 11 < pc)
         /\ (At(<<"wait">>) <=> pc = 12) /\ (Passed(<<"wait">>) <=> 12 < pc)
         /\ (At(Deploy["gateway"]) <=> pc = 13) /\ (Passed(Deploy["gateway"]) <=> 13 < pc)
         /\ (At(<<"addRelayer">>) <=> pc = 14) /\ (Passed(<<"addRelayer">>) <=> 14 < pc)
<1>1. Len(Program[mode]) = 14 /\ pc \in 1 .. 14
  BY TestProgram DEF ControlTypes
<1>2. /\ "acl" \in Contracts /\ "exec" \in Contracts /\ "kms" \in Contracts
      /\ "gateway" \in Contracts
  BY DEF Contracts
<1>3. \A k \in 1 .. 14 :
        (At(Program[mode][k]) <=> pc = k) /\ (Passed(Program[mode][k]) <=> k < pc)
  BY <1>1, StepPlace
<1>4. /\ Program[mode][1] = <<"build", "contracts">>
      /\ Program[mode][2] = <<"build", "copy">>
      /\ Program[mode][3] = <<"mock">>
      /\ Program[mode][4] = Compute["gateway"]
      /\ Program[mode][5] = Compute["acl"]
      /\ Program[mode][6] = Compute["exec"]
      /\ Program[mode][7] = Compute["kms"]
      /\ Program[mode][8] = Deploy["acl"]
      /\ Program[mode][9] = Deploy["exec"]
      /\ Program[mode][10] = Deploy["kms"]
      /\ Program[mode][11] = <<"fund">>
      /\ Program[mode][12] = <<"wait">>
      /\ Program[mode][13] = Deploy["gateway"]
      /\ Program[mode][14] = <<"addRelayer">>
  BY <1>1, <1>2, StepNames, TestProgram
<1>5. \A step : \A k \in 1 .. 14 :
        Program[mode][k] = step => (At(step) <=> pc = k) /\ (Passed(step) <=> k < pc)
  BY <1>3
<1>6. {1, 2, 3, 4, 5, 6, 7, 8, 9, 10, 11, 12, 13, 14} \subseteq 1 .. 14
  OBVIOUS
<1> QED BY <1>1, <1>4, <1>5, <1>6, SMTT(60)

LEMMA NodePlaces ==
  ASSUME ControlTypes, Running, mode = "node"
  PROVE  /\ pc \in 1 .. 12
         /\ (At(<<"build", "copy">>) <=> pc = 1) /\ (Passed(<<"build", "copy">>) <=> 1 < pc)
         /\ (At(Compute["gateway"]) <=> pc = 2) /\ (Passed(Compute["gateway"]) <=> 2 < pc)
         /\ (At(<<"build", "contracts">>) <=> pc = 3) /\ (Passed(<<"build", "contracts">>) <=> 3 < pc)
         /\ (At(Compute["acl"]) <=> pc = 4) /\ (Passed(Compute["acl"]) <=> 4 < pc)
         /\ (At(Compute["exec"]) <=> pc = 5) /\ (Passed(Compute["exec"]) <=> 5 < pc)
         /\ (At(Compute["kms"]) <=> pc = 6) /\ (Passed(Compute["kms"]) <=> 6 < pc)
         /\ (At(Deploy["acl"]) <=> pc = 7) /\ (Passed(Deploy["acl"]) <=> 7 < pc)
         /\ (At(Deploy["exec"]) <=> pc = 8) /\ (Passed(Deploy["exec"]) <=> 8 < pc)
         /\ (At(Deploy["kms"]) <=> pc = 9) /\ (Passed(Deploy["kms"]) <=> 9 < pc)
         /\ (At(<<"wait">>) <=> pc = 10) /\ (Passed(<<"wait">>) <=> 10 < pc)
         /\ (At(Deploy["gateway"]) <=> pc = 11) /\ (Passed(Deploy["gateway"]) <=> 11 < pc)
         /\ (At(<<"addRelayer">>) <=> pc = 12) /\ (Passed(<<"addRelayer">>) <=> 12 < pc)
<1>1. Len(Program[mode]) = 12 /\ pc \in 1 .. 12
  BY NodeProgram DEF ControlTypes
<1>2. /\ "acl" \in Contracts /\ "exec" \in Contracts /\ "kms" \in Contracts
      /\ "gateway" \in Contracts
  BY DEF Contracts
<1>3. \A k \in 1 .. 12 :
        (At(Program[mode][k]) <=> pc = k) /\ (Passed(Program[mode][k]) <=> k < pc)
  BY <1>1, StepPlace
<1>4. /\ Program[mode][1] = <<"build", "copy">>
      /\ Program[mode][2] = Compute["gateway"]
      /\ Program[mode][3] = <<"build", "contracts">>
      /\ Program[mode][4] = Compute["acl"]
      /\ Program[mode][5] = Compute["exec"]
      /\ Program[mode][6] = Compute["kms"]
      /\ Program[mode][7] = Deploy["acl"]
      /\ Program[mode][8] = Deploy["exec"]
      /\ Program[mode][9] = Deploy["kms"]
      /\ Program[mode][10] = <<"wait">>
      /\ Program[mode][11] = Deploy["gateway"]
      /\ Program[mode][12] = <<"addRelayer">>
  BY <1>1, <1>2, StepNames, NodeProgram
<1>5. \A step : \A k \in 1 .. 12 :
        Program[mode][k] = step => (At(step) <=> pc = k) /\ (Passed(step) <=> k < pc)
  BY <1>3
<1>6. {1, 2, 3, 4, 5, 6, 7, 8, 9, 10, 11, 12} \subseteq 1 .. 12
  OBVIOUS
<1> QED BY <1>1, <1>4, <1>5, <1>6, SMTT(60)

LEMMA FundPlaces ==
  ASSUME ControlTypes, Running, mode = "fund"
  PROVE  /\ pc \in 1 .. 4
         /\ (At(<<"fund">>) <=> pc = 1) /\ (Passed(<<"fund">>) <=> 1 < pc)
         /\ (At(<<"wait">>) <=> pc = 2) /\ (Passed(<<"wait">>) <=> 2 < pc)
         /\ (At(Deploy["gateway"]) <=> pc = 3) /\ (Passed(Deploy["gateway"]) <=> 3 < pc)
         /\ (At(<<"addRelayer">>) <=> pc = 4) /\ (Passed(<<"addRelayer">>) <=> 4 < pc)
<1>1. Len(Program[mode]) = 4 /\ pc \in 1 .. 4
  BY FundProgram DEF ControlTypes
<1>2. /\ "acl" \in Contracts /\ "exec" \in Contracts /\ "kms" \in Contracts
      /\ "gateway" \in Contracts
  BY DEF Contracts
<1>3. \A k \in 1 .. 4 :
        (At(Program[mode][k]) <=> pc = k) /\ (Passed(Program[mode][k]) <=> k < pc)
  BY <1>1, StepPlace
<1> QED BY <1>1, <1>2, <1>3, StepNames, FundProgram

(* What the order of the steps says, in all programs.                       *)
LEMMA StepsOfFund ==
  ASSUME ControlTypes, Running, mode = "fund", NEW step, At(step) \/ Passed(step)
  PROVE  step \in {<<"fund">>, <<"wait">>, Deploy["gateway"], <<"addRelayer">>}
<1>1. /\ Len(Program[mode]) = 4 /\ pc \in 1 .. 4 /\ "gateway" \in Contracts
      /\ \A i \in 1 .. 4 : i = 1 \/ i = 2 \/ i = 3 \/ i = 4
  BY FundProgram DEF ControlTypes, Contracts
<1>2. PICK i \in 1 .. 4 : Program[mode][i] = step
  BY <1>1 DEF At, Passed
<1> QED BY <1>1, <1>2, StepNames, FundProgram

LEMMA StepsOfNode ==
  ASSUME ControlTypes, Running, mode = "node"
  PROVE  ~At(<<"fund">>) /\ ~At(<<"mock">>) /\ ~Passed(<<"fund">>)
<1>1. /\ Len(Program[mode]) = 12 /\ pc \in 1 .. 12
      /\ \A i \in 1 .. 12 : i \in {1, 2, 3, 4, 5, 6, 7, 8, 9, 10, 11, 12}
  BY NodeProgram DEF ControlTypes
<1>2. \A i \in 1 .. 12 : Program[mode][i] # <<"fund">> /\ Program[mode][i] # <<"mock">>
  BY <1>1, NodeProgram
<1> QED BY <1>1, <1>2 DEF At, Passed

CoreContracts == {"acl", "exec", "kms"}

LEMMA AtOnce ==
  ASSUME ControlTypes, Running, NEW step, At(step)
  PROVE  ~Passed(step)
<1>1. pc \in 1 .. Len(Program[mode]) /\ Program[mode][pc] = step
  BY DEF At, ControlTypes
<1>2. pc \in Nat
  BY TestProgram, NodeProgram, FundProgram DEF ControlTypes, Modes
<1> QED BY <1>1, <1>2, StepPlace

LEMMA BeforeDeployments ==
  ASSUME ControlTypes, Running,
         NEW u \in {"contracts", "copy"}, NEW c \in Contracts,
         At(<<"build", u>>) \/ At(Compute[c]) \/ At(<<"mock">>)
  PROVE  /\ mode # "fund" /\ (At(<<"mock">>) => mode = "test")
         /\ mode = "node" => ~InLaunchFhevm
         /\ \A d \in Contracts : ~Passed(Deploy[d])
         /\ ~Passed(<<"addRelayer">>)
<1>1. mode # "fund"
  <2>1. <<"build", u>> \notin {<<"fund">>, <<"wait">>, Deploy["gateway"], <<"addRelayer">>}
    BY StepNames
  <2>2. Compute[c] \notin {<<"fund">>, <<"wait">>, Deploy["gateway"], <<"addRelayer">>}
    BY StepNames
  <2>3. <<"mock">> \notin {<<"fund">>, <<"wait">>, Deploy["gateway"], <<"addRelayer">>}
    BY StepNames
  <2> QED BY <2>1, <2>2, <2>3, StepsOfFund
<1>2. c \in {"acl", "exec", "kms", "gateway"} /\ mode \in {"test", "node", "fund"}
  BY DEF Contracts, ControlTypes, Modes
<1>3. CASE mode = "test"
  <2>1. pc <= 7
    BY <1>2, <1>3, TestPlaces
  <2>2. \A d \in {"acl", "exec", "kms", "gateway"} : ~Passed(Deploy[d])
    BY <1>3, <2>1, TestPlaces
  <2> QED BY <1>3, <2>1, <2>2, TestPlaces DEF Contracts
<1>4. CASE mode = "node"
  <2>1. pc <= 6
    BY <1>2, <1>4, NodePlaces, StepsOfNode
  <2>2. \A d \in {"acl", "exec", "kms", "gateway"} : ~Passed(Deploy[d])
    BY <1>4, <2>1, NodePlaces
  <2>3. ~InLaunchFhevm
    BY <1>4, <2>1, NodePlaces, NodeProgram, CoreSteps DEF InLaunchFhevm
  <2> QED BY <1>4, <2>1, <2>2, <2>3, NodePlaces, StepsOfNode DEF Contracts
<1> QED BY <1>1, <1>2, <1>3, <1>4

(* The files are complete when the last address is computed.                *)
LEMMA LastComputed ==
  ASSUME ControlTypes, Running, At(Compute["kms"])
  PROVE  \A c \in Contracts : c # "kms" => Passed(Compute[c])
<1>1. mode # "fund" /\ mode \in {"test", "node", "fund"}
  BY BeforeDeployments DEF Contracts, ControlTypes, Modes
<1>2. CASE mode = "test"
  BY <1>2, TestPlaces DEF Contracts
<1>3. CASE mode = "node"
  BY <1>3, NodePlaces DEF Contracts
<1> QED BY <1>1, <1>2, <1>3

LEMMA AtCoreDeployment ==
  ASSUME ControlTypes, Running, NEW c \in CoreContracts, At(Deploy[c])
  PROVE  /\ mode # "fund" /\ (mode = "node" => ~InLaunchFhevm)
         /\ \A d \in Contracts : Passed(Compute[d])
         /\ \A u \in {"contracts", "copy"} : Passed(<<"build", u>>)
         /\ Passed(Deploy["acl"]) <=> c # "acl"
         /\ Passed(Deploy["exec"]) <=> c = "kms"
         /\ ~Passed(Deploy["kms"])
         /\ ~Passed(Deploy["gateway"]) /\ ~Passed(<<"addRelayer">>)
<1>1. mode # "fund" /\ mode \in {"test", "node", "fund"}
  <2>1. Deploy[c] \notin {<<"fund">>, <<"wait">>, Deploy["gateway"], <<"addRelayer">>}
    BY StepNames DEF CoreContracts
  <2> QED BY <2>1, StepsOfFund DEF ControlTypes, Modes
<1>2. c = "acl" \/ c = "exec" \/ c = "kms"
  BY DEF CoreContracts
<1>3. CASE mode = "test"
  <2>1. pc = 8 \/ pc = 9 \/ pc = 10
    BY <1>2, <1>3, TestPlaces
  <2>2. \A d \in Contracts : Passed(Compute[d])
    BY <1>3, <2>1, TestPlaces DEF Contracts
  <2>3. /\ Passed(<<"build", "contracts">>) /\ Passed(<<"build", "copy">>)
        /\ ~Passed(Deploy["kms"]) /\ ~Passed(Deploy["gateway"]) /\ ~Passed(<<"addRelayer">>)
    BY <1>2, <1>3, <2>1, TestPlaces
  <2>4. (Passed(Deploy["acl"]) <=> c # "acl") /\ (Passed(Deploy["exec"]) <=> c = "kms")
    BY <1>2, <1>3, <2>1, TestPlaces
  <2> QED BY <1>3, <2>2, <2>3, <2>4
<1>4. CASE mode = "node"
  <2>1. pc = 7 \/ pc = 8 \/ pc = 9
    BY <1>2, <1>4, NodePlaces
  <2>2. \A d \in Contracts : Passed(Compute[d])
    BY <1>4, <2>1, NodePlaces DEF Contracts
  <2>3. /\ Passed(<<"build", "contracts">>) /\ Passed(<<"build", "copy">>)
        /\ ~Passed(Deploy["kms"]) /\ ~Passed(Deploy["gateway"]) /\ ~Passed(<<"addRelayer">>)
    BY <1>2, <1>4, <2>1, NodePlaces
  <2>4. (Passed(Deploy["acl"]) <=> c # "acl") /\ (Passed(Deploy["exec"]) <=> c = "kms")
    BY <1>2, <1>4, <2>1, NodePlaces
  <2>5. ~InLaunchFhevm
    BY <1>4, <2>1, NodeProgram, CoreSteps DEF InLaunchFhevm
  <2> QED BY <1>4, <2>2, <2>3, <2>4, <2>5
<1> QED BY <1>1, <1>3, <1>4

LEMMA AtGateway ==
  ASSUME ControlTypes, Running, At(Deploy["gateway"]) \/ At(<<"addRelayer">>)
  PROVE  /\ InLaunchFhevm
         /\ mode # "fund" => \A c \in CoreContracts : Passed(Deploy[c])
         /\ At(<<"addRelayer">>) => Passed(Deploy["gateway"]) /\ ~At(Deploy["gateway"])
         /\ ~Passed(<<"addRelayer">>)
<1>1. mode \in {"test", "node", "fund"}
  BY DEF ControlTypes, Modes
<1>2. CASE mode = "test"
  <2>1. pc = 13 \/ pc = 14
    BY <1>2, TestPlaces
  <2>2. InLaunchFhevm
    BY <1>2, <2>1, TestProgram, CoreSteps DEF InLaunchFhevm
  <2> QED BY <1>2, <2>1, <2>2, TestPlaces DEF CoreContracts
<1>3. CASE mode = "node"
  <2>1. pc = 11 \/ pc = 12
    BY <1>3, NodePlaces
  <2>2. InLaunchFhevm
    BY <1>3, <2>1, NodeProgram, CoreSteps DEF InLaunchFhevm
  <2> QED BY <1>3, <2>1, <2>2, NodePlaces DEF CoreContracts
<1>4. CASE mode = "fund"
  <2>1. pc = 3 \/ pc = 4
    BY <1>4, FundPlaces
  <2>2. InLaunchFhevm
    BY <1>4, <2>1, FundProgram, CoreSteps DEF InLaunchFhevm
  <2> QED BY <1>4, <2>1, <2>2, FundPlaces
<1> QED BY <1>1, <1>2, <1>3, <1>4

-----------------------------------------------------------------------------
(* How a step moves the launch.                                            *)

LEMMA PassedWhileRunning ==
  ASSUME Running, NEW step
  PROVE  Passed(step) <=> \E i \in 1 .. Len(Program[mode]) : Program[mode][i] = step /\ i < pc
  BY DEF Passed, Running, Live, Reached

LEMMA ProceedPasses ==
  ASSUME ControlTypes, Running, Proceed
  PROVE  /\ mode' = mode /\ pc' \in 1 .. Len(Program[mode']) /\ outcome' \in {"running", "done"}
         /\ outcome' = "done" => pc' = Len(Program[mode'])
         /\ \A step : Passed(step)' <=> Passed(step) \/ At(step)
<1>1. /\ mode' = mode /\ outcome = "running"
      /\ pc \in 1 .. Len(Program[mode]) /\ Len(Program[mode]) \in Nat
  BY TestProgram, NodeProgram, FundProgram DEF Proceed, Running, ControlTypes, Modes
<1>2. /\ pc' \in 1 .. Len(Program[mode']) /\ outcome' \in {"running", "done"}
      /\ outcome' = "done" => pc' = Len(Program[mode'])
      /\ Reached' = pc + 1
  BY <1>1 DEF Proceed, Reached
<1>3. ASSUME NEW step PROVE Passed(step)' <=> Passed(step) \/ At(step)
  <2> DEFINE Within(k) == \E i \in 1 .. Len(Program[mode]) : Program[mode][i] = step /\ i < k
  <2>1. Passed(step)' <=> Within(pc + 1)
    BY <1>1, <1>2 DEF Passed, Live
  <2>2. Passed(step) <=> Within(pc)
    BY PassedWhileRunning
  <2>3. Within(pc + 1) <=> Within(pc) \/ Program[mode][pc] = step
    <3>1. \A i \in 1 .. Len(Program[mode]) : i < pc + 1 <=> i < pc \/ i = pc
      BY <1>1
    <3> QED BY <1>1, <3>1
  <2> HIDE DEF Within
  <2> QED BY <2>1, <2>2, <2>3 DEF At
<1> QED BY <1>1, <1>2, <1>3

LEMMA FailedPasses ==
  ASSUME outcome' \notin {"running", "done"}
  PROVE  ~Live' /\ ~Running' /\ \A step : ~Passed(step)'
  BY DEF Passed, Live, Running

LEMMA StartPasses ==
  ASSUME outcome' = "running", pc' = 1
  PROVE  \A step : ~Passed(step)'
  BY DEF Passed, Live, Reached

LEMMA StillPasses ==
  ASSUME UNCHANGED launchVars
  PROVE  /\ Live' = Live /\ Running' = Running /\ Net' = Net
         /\ \A step : Passed(step)' <=> Passed(step)
  BY DEF launchVars, Passed, Live, Reached, Running, Net

(* When the launch is done, every step of it is passed.                     *)
LEMMA DonePasses ==
  ASSUME ControlTypes, outcome = "done"
  PROVE  /\ Passed(Deploy["gateway"]) /\ Passed(<<"addRelayer">>)
         /\ mode # "fund" => \A c \in CoreContracts : Passed(Deploy[c])
         /\ mode = "test" => Passed(<<"build", "contracts">>) /\ Passed(<<"build", "copy">>)
<1>1. mode \in {"test", "node", "fund"}
  BY DEF ControlTypes, Modes
<1>2. \A k \in 1 .. Len(Program[mode]) : Passed(Program[mode][k])
  BY StepPlace
<1>3. /\ "acl" \in Contracts /\ "exec" \in Contracts /\ "kms" \in Contracts
      /\ "gateway" \in Contracts
  BY DEF Contracts
<1>4. CASE mode = "test"
  <2>1. /\ 1 \in 1 .. 14 /\ 2 \in 1 .. 14 /\ 8 \in 1 .. 14 /\ 9 \in 1 .. 14 /\ 10 \in 1 .. 14
        /\ 13 \in 1 .. 14 /\ 14 \in 1 .. 14
    OBVIOUS
  <2>2. \A k \in 1 .. 14 : Passed(Program["test"][k])
    BY <1>2, <1>4, TestProgram
  <2> QED BY <1>3, <1>4, <2>1, <2>2, StepNames, TestProgram DEF CoreContracts
<1>5. CASE mode = "node"
  <2>1. /\ 7 \in 1 .. 12 /\ 8 \in 1 .. 12 /\ 9 \in 1 .. 12
        /\ 11 \in 1 .. 12 /\ 12 \in 1 .. 12
    OBVIOUS
  <2>2. \A k \in 1 .. 12 : Passed(Program["node"][k])
    BY <1>2, <1>5, NodeProgram
  <2> QED BY <1>3, <1>5, <2>1, <2>2, StepNames, NodeProgram DEF CoreContracts
<1>6. CASE mode = "fund"
  <2>1. 3 \in 1 .. 4 /\ 4 \in 1 .. 4
    OBVIOUS
  <2>2. \A k \in 1 .. 4 : Passed(Program["fund"][k])
    BY <1>2, <1>6, FundProgram
  <2> QED BY <1>3, <1>6, <2>1, <2>2, StepNames, FundProgram
<1> QED BY <1>1, <1>4, <1>5, <1>6

-----------------------------------------------------------------------------
(* What keeps each part of the invariant when a step leaves its facts alone. *)

SameCode == \A n \in Networks : chain'[n].code = chain[n].code
SameRelayers == \A n \in Networks : chain'[n].relaying = chain[n].relaying

SameSteps ==
  /\ mode' = mode
  /\ \A c \in Contracts : Passed(Deploy[c])' <=> Passed(Deploy[c])
  /\ \A c \in Contracts : Passed(Compute[c])' <=> Passed(Compute[c])
  /\ \A u \in {"contracts", "copy"} : Passed(<<"build", u>>)' <=> Passed(<<"build", u>>)
  /\ Passed(<<"addRelayer">>)' <=> Passed(<<"addRelayer">>)

LEMMA ContractNames ==
  /\ Contracts = {"acl", "exec", "kms", "gateway"} /\ CoreContracts \subseteq Contracts
  /\ "acl" \in Contracts /\ "exec" \in Contracts /\ "kms" \in Contracts /\ "gateway" \in Contracts
  BY DEF Contracts, CoreContracts

LEMMA SamePlaces ==
  ASSUME SameCode, mode' = mode, NEW c
  PROVE  Net' = Net /\ Net \in Networks /\ InPlace(Net, c)' = InPlace(Net, c)
<1>1. Net' = Net /\ Net \in Networks
  BY DEF Net, Networks
<1>2. chain'[Net].code = chain[Net].code
  BY <1>1 DEF SameCode
<1> QED BY <1>1, <1>2 DEF InPlace, CodeAt, Precomputed, Creator, ExpectedNonce

LEMMA DeploymentsStandStill ==
  ASSUME DeploymentsStand, SameSteps, SameCode, SameRelayers, env' = env, sound' => sound
  PROVE  DeploymentsStand'
<1>1. mode' = mode /\ Net' = Net /\ Net \in Networks /\ (Sure' => Sure)
  BY SamePlaces DEF SameSteps, Sure
<1>2. \A c : InPlace(Net, c)' = InPlace(Net, c)
  BY <1>1, SamePlaces
<1>3. chain'[Net].relaying = chain[Net].relaying
  BY <1>1 DEF SameRelayers
<1>4. \A c : Precomputed(c)' = Precomputed(c)
  BY DEF Precomputed, Creator, ExpectedNonce
<1>5. /\ Passed(Deploy["gateway"])' <=> Passed(Deploy["gateway"])
      /\ Passed(Deploy["acl"])' <=> Passed(Deploy["acl"])
      /\ \A c \in CoreContracts : Passed(Deploy[c])' <=> Passed(Deploy[c])
      /\ Passed(<<"addRelayer">>)' <=> Passed(<<"addRelayer">>)
  BY ContractNames DEF SameSteps
<1>6. Passed(Deploy["gateway"])' =>
        env'["gateway"] = Precomputed("gateway") /\ InPlace(Net, "gateway")' # {}
  BY <1>2, <1>5 DEF DeploymentsStand
<1>7. Passed(<<"addRelayer">>)' => Precomputed("gateway") \in chain'[Net].relaying
  BY <1>3, <1>5 DEF DeploymentsStand
<1>8. Sure' => \A c \in CoreContracts :
                 Passed(Deploy[c])' => env'[c] = Precomputed(c) /\ InPlace(Net, c)' # {}
  BY <1>1, <1>2, <1>5 DEF DeploymentsStand, CoreContracts
<1>9. Sure' => /\ Passed(Deploy["acl"])' => \A d \in InPlace(Net, "acl")' : d.told = env'["exec"]
               /\ Passed(Deploy["gateway"])' =>
                    \A d \in InPlace(Net, "gateway")' : d.told = env'["kms"]
  BY <1>1, <1>2, <1>5 DEF DeploymentsStand
<1> QED BY <1>1, <1>4, <1>6, <1>7, <1>8, <1>9 DEF DeploymentsStand, CoreContracts

LEMMA NothingDeployed ==
  ASSUME \A c \in Contracts : ~Passed(Deploy[c])', ~Passed(<<"addRelayer">>)'
  PROVE  DeploymentsStand'
<1>1. \A c \in {"acl", "exec", "kms"} : ~Passed(Deploy[c])'
  BY ContractNames
<1>2. ~Passed(Deploy["acl"])' /\ ~Passed(Deploy["gateway"])'
  BY ContractNames
<1> QED BY <1>1, <1>2 DEF DeploymentsStand

LEMMA CoreNonceStill ==
  ASSUME SameSteps
  PROVE  CoreNonce' = CoreNonce
  BY ContractNames DEF SameSteps, CoreNonce

LEMMA SoundStaysOnCourse ==
  ASSUME SoundIsOnCourse, Running, SameSteps, sound' => sound,
         env' = env, sol' = sol, edited' = edited, built' = built, layout' = layout,
         chain'["node"].nonce[Signer9] = chain["node"].nonce[Signer9]
  PROVE  SoundIsOnCourse'
<1>1. CoreNonce' = CoreNonce
  BY CoreNonceStill
<1>2. Passed(<<"build", "copy">>)' <=> Passed(<<"build", "copy">>)
  BY DEF SameSteps
<1>3. \A c \in Contracts : Passed(Compute[c])' <=> Passed(Compute[c])
  BY DEF SameSteps
<1>4. mode' = mode
  BY DEF SameSteps
<1>5. NotBuilt' = NotBuilt /\ \A c : Precomputed(c)' = Precomputed(c)
  BY DEF NotBuilt, Precomputed, Creator, ExpectedNonce
<1> QED BY <1>1, <1>2, <1>3, <1>4, <1>5 DEF SoundIsOnCourse

LEMMA SettledStaysCompiled ==
  ASSUME SettledIsCompiled, mode' = mode, sol' = sol, settled' = settled, built' = built,
         chain'["hardhat"].code = chain["hardhat"].code, Live' => Live,
         \A u \in {"contracts", "copy"} : Passed(<<"build", u>>)' => Passed(<<"build", u>>),
         ChainTypes,
         Live' => \A c \in Contracts : Passed(Deploy[c]) => Passed(Deploy[c])'
  PROVE  SettledIsCompiled'
<1>1. \A d \in chain["hardhat"].code : d.kind \in Contracts
  <2>1. chain["hardhat"] \in Chains
    BY DEF ChainTypes, Networks
  <2> QED BY <2>1 DEF Chains, Codes
<1>2. \A c : Precomputed(c)' = Precomputed(c)
  BY DEF Precomputed, Creator, ExpectedNonce
<1>3. settled' # "no" => \A c \in Contracts : sol'[c] = Precomputed(c)
  BY DEF SettledIsCompiled
<1>4. settled' = "yes" /\ mode' = "test" =>
        \A u \in {"contracts", "copy"} :
          Passed(<<"build", u>>)' => \A c \in Contracts : built'[u][c] = Precomputed(c)
  BY DEF SettledIsCompiled
<1>5. Live' /\ mode' = "test" =>
        \A d \in chain'["hardhat"].code : Passed(Deploy[d.kind])' /\ d.constants = built'["copy"]
  BY <1>1 DEF SettledIsCompiled
<1> QED BY <1>2, <1>3, <1>4, <1>5 DEF SettledIsCompiled

LEMMA CoinsStay ==
  ASSUME CoinsArrive, calls' = calls, mode' = mode,
         Passed(<<"fund">>)' => Passed(<<"fund">>) \/ mode # "fund",
         chain["node"].funded \cup pending \subseteq chain'["node"].funded \cup pending'
  PROVE  CoinsArrive'
<1>1. Roles' = Roles /\ Account' = Account
  BY DEF Roles, Account
<1> QED BY <1>1 DEF CoinsArrive

-----------------------------------------------------------------------------
(* Steps that leave the launch where it is.                                 *)

LEMMA SameStepsStill ==
  ASSUME UNCHANGED launchVars
  PROVE  SameSteps /\ (Passed(<<"fund">>)' <=> Passed(<<"fund">>))
<1>1. mode' = mode
  BY DEF launchVars
<1>2. \A step : Passed(step)' <=> Passed(step)
  BY StillPasses
<1>3. /\ \A c \in Contracts : Passed(Deploy[c])' <=> Passed(Deploy[c])
      /\ \A c \in Contracts : Passed(Compute[c])' <=> Passed(Compute[c])
  <2>1. Deploy' = Deploy /\ Compute' = Compute
    BY DEF Deploy, Compute
  <2> QED BY <1>2, <2>1
<1> QED BY <1>1, <1>2, <1>3 DEF SameSteps

LEMMA LaunchAside ==
  ASSUME LaunchInv, UNCHANGED <<launchVars, fileVars, artifacts, settled>>,
         sound' \in BOOLEAN, sound' => sound, SameCode, SameRelayers,
         Running /\ sound' => chain'["node"].nonce[Signer9] = chain["node"].nonce[Signer9]
  PROVE  /\ ControlTypes' /\ FileTypes' /\ DeploymentsStand' /\ SoundIsOnCourse'
         /\ SettledIsCompiled'
<1>1. /\ SameSteps /\ Live' = Live /\ Running' = Running
  BY SameStepsStill, StillPasses
<1>2. ControlTypes'
  BY DEF LaunchInv, ControlTypes, launchVars, artifacts
<1>3. FileTypes'
  BY DEF LaunchInv, FileTypes, fileVars, artifacts, Known, Precomputed, Creator, ExpectedNonce
<1>4. DeploymentsStand'
  BY <1>1, DeploymentsStandStill DEF LaunchInv, fileVars
<1>5. SoundIsOnCourse'
  <2>1. CASE Running /\ sound'
    BY <1>1, <2>1, SoundStaysOnCourse DEF LaunchInv, fileVars, artifacts
  <2>2. CASE ~(Running /\ sound')
    BY <1>1, <2>2 DEF SoundIsOnCourse
  <2> QED BY <2>1, <2>2
<1>6. SettledIsCompiled'
  <2>1. chain'["hardhat"].code = chain["hardhat"].code
    BY DEF SameCode, Networks
  <2> QED BY <1>1, <2>1, SettledStaysCompiled
          DEF LaunchInv, SameSteps, fileVars, artifacts
<1> QED BY <1>2, <1>3, <1>4, <1>5, <1>6

LEMMA ChainStays ==
  ASSUME ChainTypes, UNCHANGED chain
  PROVE  ChainTypes' /\ SameCode /\ SameRelayers
  BY DEF ChainTypes, SameCode, SameRelayers, Networks, Chains, Codes, Addresses, Keys, Contracts,
         Nothing, Shipped, GatewayKeys

(* The faucet's calls and answers.                                          *)
LEMMA AccountsAreKeys ==
  \A r \in Roles : Account[r] \in GatewayKeys
  BY DEF Roles, Account, GatewayKeys

LEMMA FaucetKeeps ==
  ASSUME LaunchInv, NEW r \in Roles,
         FaucetSigns(r) \/ FaucetAccepts(r) \/ GetCoinAgain(r) \/ FaucetRefuses(r)
           \/ StrangerAtFaucet
  PROVE  LaunchInv'
<1>1. /\ UNCHANGED <<launchVars, fileVars, artifacts, settled, chain>>
      /\ sound' \in BOOLEAN /\ (sound' => sound)
  <2>1. sound \in BOOLEAN
    BY DEF LaunchInv, ControlTypes
  <2>2. /\ UNCHANGED <<launchVars, fileVars, artifacts, settled, chain>>
        /\ sound' = sound \/ sound' = FALSE
    BY DEF FaucetSigns, FaucetAccepts, GetCoinAgain, FaucetRefuses, StrangerAtFaucet
  <2>3. CASE sound' = sound
    BY <2>1, <2>2, <2>3, Zenon
  <2>4. CASE sound' = FALSE
    BY <2>2, <2>4, Zenon
  <2> QED BY <2>2, <2>3, <2>4, Zenon
<1>2. ChainTypes' /\ SameCode /\ SameRelayers
  BY <1>1, ChainStays DEF LaunchInv
<1>3. /\ ControlTypes' /\ FileTypes' /\ DeploymentsStand' /\ SoundIsOnCourse'
      /\ SettledIsCompiled'
  BY <1>1, <1>2, LaunchAside
<1>4. /\ calls \in [Roles -> {"none", "signed", "outrun", "paid", "refused"}]
      /\ pending \subseteq GatewayKeys
  BY DEF LaunchInv, FundingTypes
<1>5. /\ \A q \in Roles : calls[q] = "paid" => Account[q] \in chain["node"].funded \cup pending
      /\ mode = "fund" /\ Passed(<<"fund">>) => \A q \in Roles : calls[q] \in {"paid", "refused"}
  BY DEF LaunchInv, CoinsArrive
<1>6. Passed(<<"fund">>)' <=> Passed(<<"fund">>)
  BY <1>1, SameStepsStill
<1>7. mode' = mode /\ ControlTypes
  BY <1>1 DEF launchVars, LaunchInv
<1>8. /\ calls' \in [Roles -> {"none", "signed", "outrun", "paid", "refused"}]
      /\ pending' \subseteq GatewayKeys /\ pending \subseteq pending'
  <2>1. Outrun(calls) \in [Roles -> {"none", "signed", "outrun", "paid", "refused"}]
    BY <1>4 DEF Outrun
  <2>2. CASE FaucetAccepts(r)
    BY <1>4, <2>1, <2>2, AccountsAreKeys DEF FaucetAccepts
  <2>3. CASE StrangerAtFaucet
    BY <1>4, <2>1, <2>3 DEF StrangerAtFaucet
  <2>4. CASE FaucetSigns(r) \/ GetCoinAgain(r) \/ FaucetRefuses(r)
    BY <1>4, <2>4 DEF FaucetSigns, GetCoinAgain, FaucetRefuses
  <2> QED BY <2>2, <2>3, <2>4
<1>9. \A q \in Roles : calls'[q] = "paid" =>
                         calls[q] = "paid" \/ Account[q] \in pending'
  <2>1. \A q \in Roles : Outrun(calls)[q] = "paid" => calls[q] = "paid"
    BY DEF Outrun
  <2>2. CASE FaucetAccepts(r)
    <3>1. Outrun(calls) \in [Roles -> {"none", "signed", "outrun", "paid", "refused"}]
      BY <1>4 DEF Outrun
    <3> QED BY <2>1, <2>2, <3>1 DEF FaucetAccepts
  <2>3. CASE StrangerAtFaucet
    BY <2>1, <2>3 DEF StrangerAtFaucet
  <2>4. CASE FaucetSigns(r) \/ GetCoinAgain(r) \/ FaucetRefuses(r)
    BY <1>4, <2>4 DEF FaucetSigns, GetCoinAgain, FaucetRefuses
  <2> QED BY <2>2, <2>3, <2>4
<1>10. mode = "fund" /\ Passed(<<"fund">>) => \A q \in Roles : calls'[q] \in {"paid", "refused"}
  <2> SUFFICES ASSUME mode = "fund", Passed(<<"fund">>), NEW q \in Roles
               PROVE  calls'[q] \in {"paid", "refused"}
    OBVIOUS
  <2>1. calls[q] \in {"paid", "refused"} /\ calls[r] \in {"paid", "refused"}
    BY <1>5
  <2>2. ~(At(<<"fund">>))
    BY <1>7, AtOnce DEF At
  <2>3. CASE FaucetAccepts(r)
    BY <2>1, <2>3 DEF FaucetAccepts
  <2>4. CASE StrangerAtFaucet
    BY <2>1, <2>4 DEF StrangerAtFaucet, Outrun
  <2>5. CASE FaucetSigns(r) \/ GetCoinAgain(r) \/ FaucetRefuses(r)
    BY <2>2, <2>5 DEF FaucetSigns, GetCoinAgain, FaucetRefuses
  <2> QED BY <2>3, <2>4, <2>5
<1>11. CoinsArrive'
  <2>1. Roles' = Roles /\ Account' = Account /\ chain' = chain
    BY <1>1 DEF Roles, Account
  <2> QED BY <1>5, <1>6, <1>7, <1>8, <1>9, <1>10, <2>1 DEF CoinsArrive
<1>12. FundingTypes'
  <2>1. Roles' = Roles /\ GatewayKeys' = GatewayKeys
    BY DEF Roles, GatewayKeys
  <2> QED BY <1>8, <2>1 DEF FundingTypes
<1> QED BY <1>2, <1>3, <1>11, <1>12 DEF LaunchInv

(* What the node does besides.                                              *)
LEMMA ChainKept ==
  ASSUME ChainTypes, NEW n \in Networks, NEW new \in Chains,
         chain' = [chain EXCEPT ![n] = new],
         new.code = chain[n].code,
         \A k \in Keys : chain[n].nonce[k] <= new.nonce[k]
  PROVE  ChainTypes' /\ SameCode
<1>1. chain \in [Networks -> Chains]
  BY DEF ChainTypes
<1>2. chain' \in [Networks -> Chains]
  BY <1>1
<1>3. SameCode
  BY <1>1 DEF SameCode
<1>4. ASSUME NEW m \in Networks, NEW d \in chain'[m].code
      PROVE  d.at[2] < chain'[m].nonce[d.at[1]]
  <2>1. d \in chain[m].code /\ d.at[2] < chain[m].nonce[d.at[1]]
    BY <1>3 DEF SameCode, ChainTypes
  <2>2. CASE m # n
    BY <1>1, <2>1, <2>2
  <2>3. CASE m = n
    <3>1. d \in Codes /\ chain[m] \in Chains
      BY <1>1, <2>1 DEF Chains
    <3>2. d.at[1] \in Keys /\ d.at[2] \in Nat
      BY <3>1 DEF Codes
    <3>3. chain[n].nonce[d.at[1]] \in Nat /\ new.nonce[d.at[1]] \in Nat
      BY <2>3, <3>1, <3>2 DEF Chains
    <3>4. chain'[m] = new
      BY <1>1, <2>3
    <3> QED BY <2>1, <2>3, <3>2, <3>3, <3>4
  <2> QED BY <2>2, <2>3
<1>5. Networks' = Networks /\ Chains' = Chains
  BY DEF Networks, Chains, Codes, Addresses, Keys, Contracts, Nothing, Shipped, GatewayKeys
<1> QED BY <1>2, <1>3, <1>4, <1>5 DEF ChainTypes

LEMMA NodeMakesBlockKeeps ==
  ASSUME LaunchInv, NodeMakesBlock
  PROVE  LaunchInv'
<1> DEFINE old == chain["node"]
           new == [old EXCEPT !.funded = @ \cup pending]
<1>1. /\ UNCHANGED <<launchVars, fileVars, artifacts, settled, calls, sound>>
      /\ chain' = [chain EXCEPT !["node"] = new] /\ pending' = {}
  BY DEF NodeMakesBlock
<1>2. /\ chain \in [Networks -> Chains] /\ "node" \in Networks /\ old \in Chains
      /\ pending \subseteq GatewayKeys /\ sound \in BOOLEAN
  BY DEF LaunchInv, ChainTypes, FundingTypes, ControlTypes, Networks
<1>3. /\ new \in Chains /\ new.code = old.code /\ new.nonce = old.nonce
      /\ new.relaying = old.relaying /\ new.funded = old.funded \cup pending
  BY <1>2 DEF Chains
<1>4. \A k \in Keys : old.nonce[k] <= new.nonce[k]
  <2>1. \A k \in Keys : old.nonce[k] \in Nat
    BY <1>2 DEF Chains
  <2> QED BY <1>3, <2>1
<1>5. \A n \in Networks : chain'[n] = IF n = "node" THEN new ELSE chain[n]
  BY <1>1, <1>2
<1> HIDE DEF new
<1>6. ChainTypes' /\ SameCode
  BY <1>1, <1>2, <1>3, <1>4, ChainKept DEF LaunchInv
<1>7. SameRelayers /\ chain'["node"].nonce = old.nonce
  BY <1>2, <1>3, <1>5 DEF SameRelayers
<1>8. /\ ControlTypes' /\ FileTypes' /\ DeploymentsStand' /\ SoundIsOnCourse'
      /\ SettledIsCompiled'
  BY <1>1, <1>2, <1>6, <1>7, LaunchAside
<1>9. FundingTypes'
  BY <1>1 DEF LaunchInv, FundingTypes, Roles
<1>10. CoinsArrive'
  BY <1>1, <1>2, <1>3, <1>5, SameStepsStill, CoinsStay DEF LaunchInv, launchVars
<1> QED BY <1>6, <1>8, <1>9, <1>10 DEF LaunchInv

LEMMA StrangerOnNodeKeeps ==
  ASSUME LaunchInv, StrangerOnNode
  PROVE  LaunchInv'
<1> DEFINE old == chain["node"]
           nonces == [old.nonce EXCEPT ![Signer9] = @ + 1]
           new == [old EXCEPT !.nonce = nonces]
<1>1. /\ UNCHANGED <<launchVars, fileVars, artifacts, settled, funding>> /\ sound' = FALSE
      /\ chain' = [chain EXCEPT !["node"] = new]
  BY DEF StrangerOnNode
<1>2. /\ chain \in [Networks -> Chains] /\ "node" \in Networks /\ old \in Chains
      /\ sound \in BOOLEAN
  BY DEF LaunchInv, ChainTypes, ControlTypes, Networks
<1>3. old.nonce \in [Keys -> Nat] /\ Signer9 \in Keys
  BY <1>2 DEF Chains, Keys
<1>4. nonces \in [Keys -> Nat] /\ \A k \in Keys : old.nonce[k] <= nonces[k]
  BY <1>3
<1> HIDE DEF nonces
<1>5. /\ new \in Chains /\ new.code = old.code /\ new.nonce = nonces
      /\ new.relaying = old.relaying /\ new.funded = old.funded
  BY <1>2, <1>4 DEF Chains
<1>6. \A n \in Networks : chain'[n] = IF n = "node" THEN new ELSE chain[n]
  BY <1>1, <1>2
<1> HIDE DEF new
<1>7. ChainTypes' /\ SameCode
  BY <1>1, <1>2, <1>4, <1>5, ChainKept DEF LaunchInv
<1>8. SameRelayers
  BY <1>2, <1>5, <1>6 DEF SameRelayers
<1>9. /\ ControlTypes' /\ FileTypes' /\ DeploymentsStand' /\ SoundIsOnCourse'
      /\ SettledIsCompiled'
  BY <1>1, <1>2, <1>7, <1>8, LaunchAside
<1>10. FundingTypes'
  BY <1>1 DEF LaunchInv, FundingTypes, Roles, funding, GatewayKeys
<1>11. CoinsArrive'
  BY <1>1, <1>2, <1>5, <1>6, SameStepsStill, CoinsStay DEF LaunchInv, launchVars, funding
<1> QED BY <1>7, <1>9, <1>10, <1>11 DEF LaunchInv

(* Steps that end the launch, or come when there is none.                   *)
LEMMA EndedWith ==
  ASSUME ControlTypes, FileTypes, SettledIsCompiled,
         outcome' \in {"idle", "failed"}, sound' \in BOOLEAN, sound' => sound,
         UNCHANGED <<mode, pc, fileVars, edited, settled>>, layout' \in {"test", "node"},
         built' \in [{"contracts", "copy"} -> [Contracts -> Addresses]]
  PROVE  /\ ControlTypes' /\ FileTypes' /\ DeploymentsStand' /\ SoundIsOnCourse'
         /\ SettledIsCompiled' /\ \A step : ~Passed(step)'
<1>1. ~Live' /\ ~Running' /\ \A step : ~Passed(step)'
  BY FailedPasses
<1>2. ControlTypes'
  BY DEF ControlTypes
<1>3. FileTypes'
  BY DEF FileTypes, fileVars, Known, Precomputed, Creator, ExpectedNonce
<1>4. DeploymentsStand'
  BY <1>1, NothingDeployed
<1>5. SoundIsOnCourse'
  BY <1>1 DEF SoundIsOnCourse
<1>6. SettledIsCompiled'
  BY <1>1 DEF SettledIsCompiled, fileVars, Precomputed, Creator, ExpectedNonce
<1> QED BY <1>1, <1>2, <1>3, <1>4, <1>5, <1>6

LEMMA EndedLaunch ==
  ASSUME ControlTypes, FileTypes, SettledIsCompiled,
         outcome' \in {"idle", "failed"}, sound' \in BOOLEAN, sound' => sound,
         UNCHANGED <<mode, pc, fileVars, artifacts, settled>>
  PROVE  /\ ControlTypes' /\ FileTypes' /\ DeploymentsStand' /\ SoundIsOnCourse'
         /\ SettledIsCompiled' /\ \A step : ~Passed(step)'
<1>1. layout' \in {"test", "node"} /\ edited' = edited
  BY DEF ControlTypes, artifacts
<1>2. built' \in [{"contracts", "copy"} -> [Contracts -> Addresses]]
  BY DEF FileTypes, artifacts
<1> QED BY <1>1, <1>2, EndedWith

LEMMA KillKeeps ==
  ASSUME LaunchInv, Kill
  PROVE  LaunchInv'
<1>1. /\ outcome' = "failed" /\ sound' = FALSE
      /\ UNCHANGED <<mode, pc, fileVars, artifacts, chain, funding, settled>>
  BY DEF Kill
<1>2. /\ ControlTypes' /\ FileTypes' /\ DeploymentsStand' /\ SoundIsOnCourse'
      /\ SettledIsCompiled' /\ \A step : ~Passed(step)'
  BY <1>1, EndedLaunch DEF LaunchInv
<1>3. ChainTypes'
  BY <1>1, ChainStays DEF LaunchInv
<1>4. FundingTypes' /\ CoinsArrive'
  BY <1>1, <1>2 DEF LaunchInv, FundingTypes, CoinsArrive, funding, Roles, GatewayKeys, Account
<1> QED BY <1>2, <1>3, <1>4 DEF LaunchInv

LEMMA FaucetFailsKeeps ==
  ASSUME LaunchInv, NEW r \in Roles, FaucetFails(r)
  PROVE  LaunchInv'
<1>1. At(<<"fund">>) /\ Running /\ ControlTypes
  BY DEF FaucetFails, At, LaunchInv
<1>2. mode # "node"
  BY <1>1, StepsOfNode
<1>3. /\ outcome' = "failed" /\ sound' = FALSE
      /\ UNCHANGED <<mode, pc, fileVars, artifacts, chain, pending, settled>>
      /\ calls' = [calls EXCEPT ![r] = "refused"]
  BY <1>2 DEF FaucetFails, Throw
<1>4. /\ ControlTypes' /\ FileTypes' /\ DeploymentsStand' /\ SoundIsOnCourse'
      /\ SettledIsCompiled' /\ \A step : ~Passed(step)'
  BY <1>3, EndedLaunch DEF LaunchInv
<1>5. ChainTypes'
  BY <1>3, ChainStays DEF LaunchInv
<1>6. FundingTypes' /\ CoinsArrive'
  <2>1. Roles' = Roles /\ Account' = Account /\ GatewayKeys' = GatewayKeys
    BY DEF Roles, Account, GatewayKeys
  <2>2. FundingTypes'
    BY <1>3, <2>1 DEF LaunchInv, FundingTypes
  <2>3. \A q \in Roles : calls'[q] = "paid" => calls[q] = "paid"
    BY <1>3 DEF LaunchInv, FundingTypes
  <2> QED BY <1>3, <1>4, <2>1, <2>2, <2>3 DEF LaunchInv, CoinsArrive
<1> QED BY <1>4, <1>5, <1>6 DEF LaunchInv

LEMMA EditTasksKeeps ==
  ASSUME LaunchInv, EditTasks
  PROVE  LaunchInv'
<1>1. /\ UNCHANGED <<launchVars, fileVars, built, layout, chain, funding, sound, settled>>
      /\ edited' \in BOOLEAN /\ ~Running
  BY DEF EditTasks
<1>2. ControlTypes'
  BY <1>1 DEF LaunchInv, ControlTypes, launchVars
<1>3. FileTypes'
  BY <1>1 DEF LaunchInv, FileTypes, fileVars, Known, Precomputed, Creator, ExpectedNonce
<1>4. ChainTypes' /\ SameCode /\ SameRelayers
  BY <1>1, ChainStays DEF LaunchInv
<1>5. FundingTypes'
  BY <1>1 DEF LaunchInv, FundingTypes, funding, Roles, GatewayKeys
<1>6. /\ SameSteps /\ (Passed(<<"fund">>)' <=> Passed(<<"fund">>))
      /\ Live' = Live /\ Running' = Running /\ mode' = mode
  BY <1>1, SameStepsStill, StillPasses DEF launchVars
<1>7. DeploymentsStand'
  BY <1>1, <1>4, <1>6, DeploymentsStandStill DEF LaunchInv, fileVars
<1>8. SoundIsOnCourse'
  BY <1>1, <1>6 DEF SoundIsOnCourse
<1>9. SettledIsCompiled'
  <2>1. chain'["hardhat"].code = chain["hardhat"].code
    BY <1>1
  <2> QED BY <1>1, <1>6, <2>1, SettledStaysCompiled DEF LaunchInv, SameSteps, fileVars
<1>10. CoinsArrive'
  BY <1>1, <1>6, CoinsStay DEF LaunchInv, funding
<1> QED BY <1>2, <1>3, <1>4, <1>5, <1>7, <1>8, <1>9, <1>10 DEF LaunchInv

(* A chain that begins anew.                                                *)
LEMMA FreshChains ==
  ASSUME NEW funded \in SUBSET GatewayKeys
  PROVE  /\ FreshChain(funded) \in Chains /\ FreshChain(funded).code = {}
         /\ FreshChain(funded).funded = funded
         /\ \A k \in Keys : FreshChain(funded).nonce[k] = 0
  BY DEF FreshChain, Chains

LEMMA ChainRenewed ==
  ASSUME ChainTypes, NEW n \in Networks, NEW funded \in SUBSET GatewayKeys,
         chain' = [chain EXCEPT ![n] = FreshChain(funded)]
  PROVE  ChainTypes'
<1>1. chain \in [Networks -> Chains]
  BY DEF ChainTypes
<1>2. chain' \in [Networks -> Chains]
  BY <1>1, FreshChains
<1>3. ASSUME NEW m \in Networks, NEW d \in chain'[m].code
      PROVE  d.at[2] < chain'[m].nonce[d.at[1]]
  <2>1. m # n
    BY <1>1, <1>3, FreshChains
  <2>2. chain'[m] = chain[m]
    BY <1>1, <2>1
  <2> QED BY <2>2 DEF ChainTypes
<1>4. Networks' = Networks /\ Chains' = Chains
  BY DEF Networks, Chains, Codes, Addresses, Keys, Contracts, Nothing, Shipped, GatewayKeys
<1> QED BY <1>2, <1>3, <1>4 DEF ChainTypes

LEMMA CleanNodeKeeps ==
  ASSUME LaunchInv, CleanNode
  PROVE  LaunchInv'
<1>1. /\ outcome' = "idle" /\ pending' = {} /\ calls' = [r \in Roles |-> "none"]
      /\ UNCHANGED <<mode, pc, fileVars, artifacts, bounds, sound, settled>>
  BY DEF CleanNode
<1>2. PICK funded \in SUBSET GatewayKeys : chain' = [chain EXCEPT !["node"] = FreshChain(funded)]
  BY DEF CleanNode
<1>3. sound' \in BOOLEAN
  BY <1>1 DEF LaunchInv, ControlTypes
<1>4. /\ ControlTypes' /\ FileTypes' /\ DeploymentsStand' /\ SoundIsOnCourse'
      /\ SettledIsCompiled' /\ \A step : ~Passed(step)'
  BY <1>1, <1>3, EndedLaunch DEF LaunchInv
<1>5. ChainTypes'
  BY <1>2, ChainRenewed DEF LaunchInv, Networks
<1>6. FundingTypes' /\ CoinsArrive'
  BY <1>1, <1>4 DEF FundingTypes, CoinsArrive, Roles, GatewayKeys
<1> QED BY <1>4, <1>5, <1>6 DEF LaunchInv

LEMMA ProgramsAreNotEmpty ==
  ASSUME NEW m \in Modes
  PROVE  Len(Program[m]) \in Nat /\ 1 \in 1 .. Len(Program[m])
  BY TestProgram, NodeProgram, FundProgram DEF Modes

LEMMA StartKeeps ==
  ASSUME LaunchInv, NEW m \in Modes, Start(m)
  PROVE  LaunchInv'
<1>1. /\ mode' = m /\ pc' = 1 /\ outcome' = "running"
      /\ built' = IF m = "fund" THEN built ELSE [u \in DOMAIN built |-> NotBuilt]
      /\ chain' = IF m = "test" THEN [chain EXCEPT !["hardhat"] = FreshChain({})] ELSE chain
      /\ calls' = [r \in Roles |-> "none"]
      /\ sound' = MeetsAssumptions(m)
      /\ settled' = IF settled = "next" THEN "yes" ELSE settled
      /\ UNCHANGED <<fileVars, layout, edited, pending, faults>>
  BY DEF Start
<1>2. \A step : ~Passed(step)'
  BY <1>1, StartPasses
<1>3. ControlTypes'
  <2>1. sound' \in BOOLEAN
    BY <1>1 DEF MeetsAssumptions
  <2>2. settled' \in {"no", "next", "yes"} /\ layout' \in {"test", "node"} /\ edited' \in BOOLEAN
    BY <1>1 DEF LaunchInv, ControlTypes
  <2>3. mode' \in Modes /\ pc' \in 1 .. Len(Program[mode'])
    BY <1>1, ProgramsAreNotEmpty
  <2>4. sound' => mode' # "fund"
    BY <1>1 DEF MeetsAssumptions
  <2> QED BY <1>1, <2>1, <2>2, <2>3, <2>4 DEF ControlTypes, Modes, Program
<1>4. FileTypes'
  <2>1. built' \in [{"contracts", "copy"} -> [Contracts -> Addresses]]
    <3>1. NotBuilt \in [Contracts -> Addresses]
      BY DEF NotBuilt, Addresses
    <3> QED BY <1>1, <3>1 DEF LaunchInv, FileTypes
  <2> QED BY <1>1, <2>1 DEF LaunchInv, FileTypes, fileVars, Known, Precomputed, Creator,
                            ExpectedNonce
<1>5. ChainTypes'
  <2>1. CASE m = "test"
    <3>1. {} \in SUBSET GatewayKeys /\ "hardhat" \in Networks
      BY DEF Networks
    <3> QED BY <1>1, <2>1, <3>1, ChainRenewed DEF LaunchInv
  <2>2. CASE m # "test"
    BY <1>1, <2>2, ChainStays DEF LaunchInv
  <2> QED BY <2>1, <2>2
<1>6. FundingTypes' /\ CoinsArrive'
  BY <1>1, <1>2 DEF LaunchInv, FundingTypes, CoinsArrive, Roles, GatewayKeys
<1>7. DeploymentsStand'
  BY <1>2, NothingDeployed
<1>8. SoundIsOnCourse'
  <2> SUFFICES ASSUME sound'
               PROVE  /\ mode' # "fund" /\ \A c \in Contracts : sol'[c] # Nothing
                      /\ mode' = "node" =>
                           edited' /\ chain'["node"].nonce[Signer9] = CoreNonce'
    BY <1>2 DEF SoundIsOnCourse
  <2>1. MeetsAssumptions(m)
    BY <1>1
  <2>2. mode' # "fund" /\ \A c \in Contracts : sol'[c] # Nothing
    BY <1>1, <2>1 DEF MeetsAssumptions, fileVars
  <2>3. ASSUME m = "node"
        PROVE  edited' /\ chain'["node"].nonce[Signer9] = CoreNonce'
    <3>1. edited' /\ chain' = chain /\ chain["node"].nonce[Signer9] = 0
      BY <1>1, <2>1, <2>3 DEF MeetsAssumptions, Keys
    <3>2. CoreNonce' = 0
      BY <1>2 DEF CoreNonce
    <3> QED BY <3>1, <3>2
  <2> QED BY <1>1, <2>2, <2>3
<1>9. SettledIsCompiled'
  <2>1. settled' # "no" => \A c \in Contracts : sol'[c] = Precomputed(c)
    BY <1>1 DEF LaunchInv, SettledIsCompiled, fileVars
  <2>2. mode' = "test" => chain'["hardhat"].code = {}
    <3>1. chain \in [Networks -> Chains] /\ "hardhat" \in Networks
      BY DEF LaunchInv, ChainTypes, Networks
    <3>2. FreshChain({}).code = {}
      BY FreshChains
    <3> QED BY <1>1, <3>1, <3>2
  <2>3. \A c : Precomputed(c)' = Precomputed(c)
    BY DEF Precomputed, Creator, ExpectedNonce
  <2> QED BY <1>2, <2>1, <2>2, <2>3 DEF SettledIsCompiled
<1> QED BY <1>3, <1>4, <1>5, <1>6, <1>7, <1>8, <1>9 DEF LaunchInv

-----------------------------------------------------------------------------
(* Steps of the program that deploy nothing.                                *)

LEMMA StepsApart ==
  ASSUME ControlTypes, Running, Proceed, NEW step, At(step)
  PROVE  \A other : other # step => (Passed(other)' <=> Passed(other))
<1>1. \A other : other # step => ~At(other)
  BY DEF At
<1>2. \A other : Passed(other)' <=> Passed(other) \/ At(other)
  BY ProceedPasses
<1> QED BY <1>1, <1>2

LEMMA SameStepsApart ==
  ASSUME ControlTypes, Running, Proceed, NEW step \in {<<"mock">>, <<"fund">>, <<"wait">>}, At(step)
  PROVE  SameSteps
<1>1. \A other : other # step => (Passed(other)' <=> Passed(other))
  BY StepsApart
<1>2. /\ Deploy' = Deploy /\ Compute' = Compute /\ mode' = mode
  BY DEF Deploy, Compute, Proceed
<1>3. /\ \A c \in Contracts : Deploy[c] # step /\ Compute[c] # step
      /\ \A u \in {"contracts", "copy"} : <<"build", u>> # step
      /\ <<"addRelayer">> # step
  BY StepNames
<1> QED BY <1>1, <1>2, <1>3 DEF SameSteps

LEMMA NeutralStep ==
  ASSUME LaunchInv, Running, Proceed, NEW step \in {<<"mock">>, <<"fund">>, <<"wait">>}, At(step),
         UNCHANGED <<fileVars, artifacts, sound, settled>>, SameCode, SameRelayers,
         chain'["node"].nonce[Signer9] = chain["node"].nonce[Signer9]
  PROVE  /\ ControlTypes' /\ FileTypes' /\ DeploymentsStand' /\ SoundIsOnCourse'
         /\ SettledIsCompiled'
<1>1. ControlTypes /\ SameSteps
  BY SameStepsApart DEF LaunchInv
<1>2. /\ mode' = mode /\ pc' \in 1 .. Len(Program[mode']) /\ outcome' \in {"running", "done"}
      /\ outcome' = "done" => pc' = Len(Program[mode'])
  BY <1>1, ProceedPasses
<1>3. ControlTypes'
  BY <1>1, <1>2 DEF ControlTypes, artifacts, Modes, Program
<1>4. FileTypes'
  BY DEF LaunchInv, FileTypes, fileVars, artifacts, Known, Precomputed, Creator, ExpectedNonce
<1>5. DeploymentsStand'
  BY <1>1, DeploymentsStandStill DEF LaunchInv, fileVars
<1>6. SoundIsOnCourse'
  BY <1>1, SoundStaysOnCourse DEF LaunchInv, fileVars, artifacts
<1>7. SettledIsCompiled'
  <2>1. chain'["hardhat"].code = chain["hardhat"].code
    BY DEF SameCode, Networks
  <2>2. Live
    BY DEF Live, Running
  <2> QED BY <1>1, <1>2, <2>1, <2>2, SettledStaysCompiled
          DEF LaunchInv, SameSteps, fileVars, artifacts
<1> QED BY <1>3, <1>4, <1>5, <1>6, <1>7

LEMMA WaitFiveSecondsKeeps ==
  ASSUME LaunchInv, WaitFiveSeconds
  PROVE  LaunchInv'
<1>1. /\ At(<<"wait">>) /\ Running /\ Proceed
      /\ UNCHANGED <<fileVars, artifacts, chain, funding, sound, settled>>
  BY DEF WaitFiveSeconds, At
<1>2. ChainTypes' /\ SameCode /\ SameRelayers
  BY <1>1, ChainStays DEF LaunchInv
<1>3. /\ ControlTypes' /\ FileTypes' /\ DeploymentsStand' /\ SoundIsOnCourse'
      /\ SettledIsCompiled'
  BY <1>1, <1>2, NeutralStep
<1>4. FundingTypes'
  BY <1>1 DEF LaunchInv, FundingTypes, funding, Roles, GatewayKeys
<1>5. CoinsArrive'
  <2>1. Passed(<<"fund">>)' <=> Passed(<<"fund">>)
    BY <1>1, StepsApart DEF LaunchInv
  <2>2. mode' = mode
    BY <1>1 DEF Proceed
  <2> QED BY <1>1, <2>1, <2>2, CoinsStay DEF LaunchInv, funding
<1> QED BY <1>2, <1>3, <1>4, <1>5 DEF LaunchInv

LEMMA AllFundedKeeps ==
  ASSUME LaunchInv, AllFunded
  PROVE  LaunchInv'
<1>1. /\ At(<<"fund">>) /\ Running /\ Proceed
      /\ \A r \in Roles : calls[r] \in {"paid", "refused"}
      /\ UNCHANGED <<fileVars, artifacts, chain, funding, sound, settled>>
  BY DEF AllFunded, At
<1>2. ChainTypes' /\ SameCode /\ SameRelayers
  BY <1>1, ChainStays DEF LaunchInv
<1>3. /\ ControlTypes' /\ FileTypes' /\ DeploymentsStand' /\ SoundIsOnCourse'
      /\ SettledIsCompiled'
  BY <1>1, <1>2, NeutralStep
<1>4. FundingTypes'
  BY <1>1 DEF LaunchInv, FundingTypes, funding, Roles, GatewayKeys
<1>5. CoinsArrive'
  <2>1. Roles' = Roles /\ Account' = Account
    BY DEF Roles, Account
  <2> QED BY <1>1, <2>1 DEF LaunchInv, CoinsArrive, funding
<1> QED BY <1>2, <1>3, <1>4, <1>5 DEF LaunchInv

(* The two steps of a test run that set something on its own chain.          *)
LEMMA SettingsKeep ==
  ASSUME LaunchInv, MockPrecompile \/ SetBalances
  PROVE  LaunchInv'
<1> DEFINE old == chain["hardhat"]
           mocked == [old EXCEPT !.mocked = TRUE]
           paid == [old EXCEPT !.funded = GatewayKeys]
<1>1. PICK step \in {<<"mock">>, <<"fund">>} : At(step)
  BY DEF MockPrecompile, SetBalances
<1>2. /\ Running /\ Proceed /\ UNCHANGED <<fileVars, artifacts, funding, sound, settled>>
  BY DEF MockPrecompile, SetBalances, At
<1>3. /\ chain \in [Networks -> Chains] /\ "hardhat" \in Networks /\ "node" \in Networks
      /\ old \in Chains
  BY DEF LaunchInv, ChainTypes, Networks
<1>4. PICK new \in Chains : /\ chain' = [chain EXCEPT !["hardhat"] = new]
                            /\ new.code = old.code /\ new.relaying = old.relaying
                            /\ new.nonce = old.nonce
  <2>1. mocked \in Chains /\ paid \in Chains
    BY <1>3 DEF Chains
  <2>2. CASE MockPrecompile
    <3>1. chain' = [chain EXCEPT !["hardhat"] = mocked]
      BY <2>2 DEF MockPrecompile
    <3>2. mocked.code = old.code /\ mocked.relaying = old.relaying /\ mocked.nonce = old.nonce
      BY <1>3 DEF Chains
    <3> HIDE DEF mocked
    <3> QED BY <2>1, <3>1, <3>2
  <2>3. CASE SetBalances
    <3>1. chain' = [chain EXCEPT !["hardhat"] = paid]
      BY <2>3 DEF SetBalances
    <3>2. paid.code = old.code /\ paid.relaying = old.relaying /\ paid.nonce = old.nonce
      BY <1>3 DEF Chains
    <3> HIDE DEF paid
    <3> QED BY <2>1, <3>1, <3>2
  <2> QED BY <2>2, <2>3
<1>5. \A k \in Keys : old.nonce[k] <= new.nonce[k]
  <2>1. \A k \in Keys : old.nonce[k] \in Nat
    BY <1>3 DEF Chains
  <2> QED BY <1>4, <2>1
<1>6. ChainTypes' /\ SameCode
  BY <1>3, <1>4, <1>5, ChainKept DEF LaunchInv
<1>7. SameRelayers /\ chain'["node"] = chain["node"]
  BY <1>3, <1>4 DEF SameRelayers
<1>8. /\ ControlTypes' /\ FileTypes' /\ DeploymentsStand' /\ SoundIsOnCourse'
      /\ SettledIsCompiled'
  BY <1>1, <1>2, <1>6, <1>7, NeutralStep
<1>9. FundingTypes'
  BY <1>2 DEF LaunchInv, FundingTypes, funding, Roles, GatewayKeys
<1>10. CoinsArrive'
  <2>1. mode' = mode /\ mode # "fund"
    <3>1. CASE MockPrecompile
      <4>1. At(<<"mock">>)
        BY <3>1 DEF MockPrecompile
      <4>2. mode # "fund"
        BY <1>2, <4>1, BeforeDeployments, ContractNames DEF LaunchInv
      <4> QED BY <1>2, <4>2 DEF Proceed
    <3>2. CASE SetBalances
      BY <1>2, <3>2 DEF SetBalances, Net, Proceed
    <3> QED BY <3>1, <3>2
  <2> QED BY <1>2, <1>7, <2>1, CoinsStay DEF LaunchInv, funding
<1> QED BY <1>6, <1>8, <1>9, <1>10 DEF LaunchInv

(* Compilation.                                                            *)
LEMMA BuildKeeps ==
  ASSUME LaunchInv, NEW u \in {"contracts", "copy"}, Build(u)
  PROVE  LaunchInv'
<1> DEFINE Compiles == \A c \in Contracts : sol[c] # Nothing
           step == <<"build", u>>
<1>1. /\ At(step) /\ Running /\ ControlTypes
      /\ layout' = (IF u = "copy" THEN mode ELSE layout)
      /\ UNCHANGED <<fileVars, edited, chain, funding, sound, settled>>
  BY DEF Build, At, LaunchInv, bounds
<1>2. /\ Compiles => Proceed /\ built' = [built EXCEPT ![u] = sol]
      /\ ~Compiles => Throw /\ built' = built
  BY DEF Build
<1>3. /\ mode \in {"test", "node"} /\ (mode = "node" => ~InLaunchFhevm)
      /\ \A c \in Contracts : ~Passed(Deploy[c])
      /\ ~Passed(<<"addRelayer">>)
  <2>1. "acl" \in Contracts
    BY ContractNames
  <2> QED BY <1>1, <2>1, BeforeDeployments DEF ControlTypes, Modes
<1>4. layout' \in {"test", "node"}
  BY <1>1, <1>3 DEF ControlTypes
<1>5. built' \in [{"contracts", "copy"} -> [Contracts -> Addresses]]
  BY <1>2 DEF LaunchInv, FileTypes
<1>6. ChainTypes'
  BY <1>1, ChainStays DEF LaunchInv
<1>7. FundingTypes'
  BY <1>1 DEF LaunchInv, FundingTypes, funding, Roles, GatewayKeys
<1>8. CASE ~Proceed
  <2>1. outcome' = "failed" /\ UNCHANGED <<mode, pc>>
    BY <1>2, <1>8 DEF Throw
  <2>2. sound' \in BOOLEAN
    BY <1>1 DEF ControlTypes
  <2>3. /\ ControlTypes' /\ FileTypes' /\ DeploymentsStand' /\ SoundIsOnCourse'
        /\ SettledIsCompiled' /\ \A s : ~Passed(s)'
    BY <1>1, <1>4, <1>5, <2>1, <2>2, EndedWith DEF LaunchInv
  <2>4. CoinsArrive'
    BY <1>1, <2>1, <2>3, CoinsStay DEF LaunchInv, funding
  <2> QED BY <1>6, <1>7, <2>3, <2>4 DEF LaunchInv
<1>9. CASE Proceed
  <2>1. /\ mode' = mode /\ pc' \in 1 .. Len(Program[mode']) /\ outcome' \in {"running", "done"}
        /\ outcome' = "done" => pc' = Len(Program[mode'])
        /\ \A s : Passed(s)' <=> Passed(s) \/ At(s)
    BY <1>1, <1>9, ProceedPasses
  <2>2. \A s : s # step => (Passed(s)' <=> Passed(s))
    BY <1>1, <1>9, StepsApart
  <2>3. /\ \A c \in Contracts : ~Passed(Deploy[c])'
        /\ ~Passed(<<"addRelayer">>)'
        /\ \A c \in Contracts : Passed(Compute[c])' <=> Passed(Compute[c])
        /\ Passed(<<"fund">>)' <=> Passed(<<"fund">>)
    <3>1. \A c \in Contracts : Deploy[c] # step /\ Compute[c] # step
      BY StepNames
    <3>2. <<"addRelayer">> # step /\ <<"fund">> # step
      OBVIOUS
    <3>3. Deploy' = Deploy /\ Compute' = Compute
      BY DEF Deploy, Compute
    <3> HIDE DEF step
    <3> QED BY <1>3, <2>2, <3>1, <3>2, <3>3
  <2>4. ControlTypes'
    BY <1>1, <1>4, <2>1 DEF ControlTypes, Modes, Program
  <2>5. FileTypes'
    BY <1>1, <1>5 DEF LaunchInv, FileTypes, fileVars, Known, Precomputed, Creator, ExpectedNonce
  <2>6. DeploymentsStand'
    BY <2>3, NothingDeployed
  <2>7. SoundIsOnCourse'
    <3> SUFFICES ASSUME sound PROVE SoundIsOnCourse'
      BY <1>1 DEF SoundIsOnCourse
    <3>1. /\ mode # "fund" /\ Compiles
          /\ \A c \in Contracts :
               Passed(Compute[c]) => env[c] = Precomputed(c) /\ sol[c] = Precomputed(c)
          /\ mode = "node" =>
               /\ edited /\ chain["node"].nonce[Signer9] = CoreNonce
               /\ Passed(<<"build", "copy">>) => built["copy"] # NotBuilt /\ layout = "node"
      BY <1>1 DEF LaunchInv, SoundIsOnCourse
    <3>2. CoreNonce' = CoreNonce
      <4>1. \A c \in Contracts : ~Passed(Deploy[c]) /\ ~Passed(Deploy[c])'
        BY <1>3, <2>3
      <4> QED BY <4>1, ContractNames DEF CoreNonce
    <3>3. Passed(<<"build", "copy">>)' /\ mode = "node"
            => built'["copy"] # NotBuilt /\ layout' = "node"
      <4>1. CASE u = "copy"
        <5>1. built'["copy"] = sol
          BY <1>2, <3>1, <4>1 DEF LaunchInv, FileTypes
        <5>2. sol["acl"] # Nothing /\ NotBuilt["acl"] = Nothing
          BY <3>1, ContractNames DEF NotBuilt
        <5> QED BY <1>1, <4>1, <5>1, <5>2
      <4>2. CASE u # "copy"
        <5>1. <<"build", "copy">> # step
          BY <4>2
        <5>2. Passed(<<"build", "copy">>)' <=> Passed(<<"build", "copy">>)
          BY <2>2, <5>1
        <5>3. built'["copy"] = built["copy"] /\ layout' = layout
          BY <1>1, <1>2, <4>2 DEF LaunchInv, FileTypes
        <5> QED BY <3>1, <5>2, <5>3
      <4> QED BY <4>1, <4>2
    <3>4. NotBuilt' = NotBuilt /\ \A c : Precomputed(c)' = Precomputed(c)
      BY DEF NotBuilt, Precomputed, Creator, ExpectedNonce
    <3> QED BY <1>1, <2>1, <2>3, <3>1, <3>2, <3>3, <3>4 DEF SoundIsOnCourse, fileVars
  <2>8. SettledIsCompiled'
    <3>1. settled # "no" => \A c \in Contracts : sol[c] = Precomputed(c)
      BY DEF LaunchInv, SettledIsCompiled
    <3>2. ASSUME settled = "yes", mode = "test", NEW v \in {"contracts", "copy"},
                 Passed(<<"build", v>>)', NEW c \in Contracts
          PROVE  built'[v][c] = Precomputed(c)
      <4>0. Compiles
        <5> SUFFICES ASSUME ~Compiles PROVE FALSE
          OBVIOUS
        <5>1. outcome' = "failed"
          BY <1>2, <3>2 DEF Throw
        <5> QED BY <2>1, <5>1
      <4>1. built' = [built EXCEPT ![u] = sol]
        BY <1>2, <4>0
      <4>2. CASE v = u
        BY <3>1, <3>2, <4>1, <4>2 DEF LaunchInv, FileTypes
      <4>3. CASE v # u
        <5>1. <<"build", v>> # step
          BY <4>3
        <5>2. Passed(<<"build", v>>)
          BY <2>2, <3>2, <5>1
        <5>3. built'[v] = built[v]
          BY <4>1, <4>3 DEF LaunchInv, FileTypes
        <5> QED BY <3>2, <5>2, <5>3 DEF LaunchInv, SettledIsCompiled
      <4> QED BY <4>2, <4>3
    <3>3. mode = "test" => chain["hardhat"].code = {}
      <4> SUFFICES ASSUME mode = "test", NEW d \in chain["hardhat"].code PROVE FALSE
        OBVIOUS
      <4>1. Live /\ d.kind \in Contracts
        BY <1>1 DEF Live, Running, LaunchInv, ChainTypes, Networks, Chains, Codes
      <4> QED BY <1>3, <4>1 DEF LaunchInv, SettledIsCompiled
    <3>4. \A c : Precomputed(c)' = Precomputed(c)
      BY DEF Precomputed, Creator, ExpectedNonce
    <3> QED BY <1>1, <2>1, <3>1, <3>2, <3>3, <3>4 DEF SettledIsCompiled, fileVars
  <2>9. CoinsArrive'
    BY <1>1, <2>1, <2>3, CoinsStay DEF LaunchInv, funding
  <2> QED BY <1>6, <1>7, <2>4, <2>5, <2>6, <2>7, <2>8, <2>9 DEF LaunchInv
<1> QED BY <1>8, <1>9

(* Addresses.                                                              *)
LEMMA AddressesDiffer ==
  /\ \A c \in Contracts : Precomputed(c) \in Addresses /\ Precomputed(c) # Nothing
  /\ \A c \in Contracts : Precomputed(c) # Shipped
  /\ Shipped # Nothing /\ Shipped \in Addresses /\ Nothing \in Addresses
  /\ \A c \in Contracts : Creator(c) \in Keys /\ ExpectedNonce(c) \in Nat
  BY LaunchAssumption DEF Contracts, Precomputed, Creator, ExpectedNonce, Nothing, Shipped,
                          Addresses, Keys

LEMMA AddressWritten ==
  ASSUME LaunchInv, NEW c \in Contracts, At(Compute[c]), Proceed,
         NEW e \in Known(c), NEW s \in Known(c),
         env' = [env EXCEPT ![c] = e], sol' = [sol EXCEPT ![c] = s],
         sound' \in BOOLEAN,
         sound' => sound /\ e = Precomputed(c) /\ s = Precomputed(c),
         settled' \in {"no", "next", "yes"},
         settled' # "no" => s = Precomputed(c) /\ (settled # "no" \/ (c = "kms" /\ sound)),
         settled' = "yes" => settled = "yes",
         UNCHANGED <<artifacts, chain, funding>>
  PROVE  LaunchInv'
<1>1. Running /\ ControlTypes /\ mode' = mode
  BY DEF At, LaunchInv, Proceed
<1>2. /\ mode # "fund" /\ \A d \in Contracts : ~Passed(Deploy[d])
  <2>1. "copy" \in {"contracts", "copy"}
    OBVIOUS
  <2> QED BY <1>1, <2>1, BeforeDeployments
<1>3. ~Passed(<<"addRelayer">>)
  <2>1. "copy" \in {"contracts", "copy"}
    OBVIOUS
  <2> QED BY <1>1, <2>1, BeforeDeployments
<1>4. /\ pc' \in 1 .. Len(Program[mode']) /\ outcome' \in {"running", "done"}
      /\ outcome' = "done" => pc' = Len(Program[mode'])
      /\ \A step : Passed(step)' <=> Passed(step) \/ At(step)
  BY <1>1, ProceedPasses
<1>5. \A step : step # Compute[c] => (Passed(step)' <=> Passed(step))
  BY <1>1, StepsApart
<1>6. /\ \A d \in Contracts : ~Passed(Deploy[d])'
      /\ ~Passed(<<"addRelayer">>)'
      /\ \A d \in Contracts : Passed(Compute[d])' => d = c \/ Passed(Compute[d])
      /\ \A u \in {"contracts", "copy"} : Passed(<<"build", u>>)' <=> Passed(<<"build", u>>)
      /\ Passed(<<"fund">>)' <=> Passed(<<"fund">>)
  <2>1. /\ \A d \in Contracts : Deploy[d] # Compute[c] /\ (Compute[d] = Compute[c] => d = c)
        /\ \A u \in {"contracts", "copy"} : <<"build", u>> # Compute[c]
        /\ <<"addRelayer">> # Compute[c] /\ <<"fund">> # Compute[c]
    BY StepNames
  <2>2. Deploy' = Deploy /\ Compute' = Compute
    BY DEF Deploy, Compute
  <2> QED BY <1>2, <1>3, <1>5, <2>1, <2>2
<1>7. ControlTypes'
  BY <1>1, <1>4 DEF ControlTypes, artifacts, Modes, Program
<1>8. /\ env \in [Contracts -> Addresses] /\ sol \in [Contracts -> Addresses]
      /\ \A d \in Contracts : env[d] \in Known(d) /\ sol[d] \in Known(d)
  BY DEF LaunchInv, FileTypes
<1>9. \A d \in Contracts : /\ env'[d] = IF d = c THEN e ELSE env[d]
                           /\ sol'[d] = IF d = c THEN s ELSE sol[d]
  BY <1>8
<1>10. FileTypes'
  <2>1. e \in Addresses /\ s \in Addresses
    BY AddressesDiffer DEF Known
  <2>2. env' \in [Contracts -> Addresses] /\ sol' \in [Contracts -> Addresses]
    BY <1>8, <2>1
  <2>3. \A d \in Contracts : env'[d] \in Known(d) /\ sol'[d] \in Known(d)
    BY <1>8, <1>9
  <2>4. \A d : Known(d)' = Known(d)
    BY DEF Known, Precomputed, Creator, ExpectedNonce
  <2> QED BY <2>2, <2>3, <2>4 DEF LaunchInv, FileTypes, artifacts
<1>11. ChainTypes'
  BY ChainStays DEF LaunchInv
<1>12. FundingTypes'
  BY DEF LaunchInv, FundingTypes, funding, Roles, GatewayKeys
<1>13. DeploymentsStand'
  BY <1>6, NothingDeployed
<1>14. SoundIsOnCourse'
  <2> SUFFICES ASSUME sound' PROVE SoundIsOnCourse'
    BY DEF SoundIsOnCourse
  <2>1. sound /\ e = Precomputed(c) /\ s = Precomputed(c)
    OBVIOUS
  <2>2. /\ mode # "fund" /\ \A d \in Contracts : sol[d] # Nothing
        /\ \A d \in Contracts :
             Passed(Compute[d]) => env[d] = Precomputed(d) /\ sol[d] = Precomputed(d)
        /\ mode = "node" =>
             /\ edited /\ chain["node"].nonce[Signer9] = CoreNonce
             /\ Passed(<<"build", "copy">>) => built["copy"] # NotBuilt /\ layout = "node"
    BY <1>1, <2>1 DEF LaunchInv, SoundIsOnCourse
  <2>3. CoreNonce' = CoreNonce
    BY <1>2, <1>6, ContractNames DEF CoreNonce
  <2>4. \A d \in Contracts : sol'[d] # Nothing
    BY <1>9, <2>1, <2>2, AddressesDiffer
  <2>5. \A d \in Contracts :
          Passed(Compute[d])' => env'[d] = Precomputed(d) /\ sol'[d] = Precomputed(d)
    BY <1>6, <1>9, <2>1, <2>2
  <2>6. NotBuilt' = NotBuilt /\ \A d : Precomputed(d)' = Precomputed(d)
    BY DEF NotBuilt, Precomputed, Creator, ExpectedNonce
  <2> QED BY <1>1, <1>6, <2>2, <2>3, <2>4, <2>5, <2>6 DEF SoundIsOnCourse, artifacts
<1>15. SettledIsCompiled'
  <2>1. ASSUME settled' # "no", NEW d \in Contracts PROVE sol'[d] = Precomputed(d)
    <3>1. CASE d = c
      BY <1>9, <2>1, <3>1
    <3>2. CASE d # c /\ settled # "no"
      BY <1>9, <3>2 DEF LaunchInv, SettledIsCompiled
    <3>3. CASE d # c /\ settled = "no"
      <4>1. c = "kms" /\ sound
        BY <2>1, <3>3
      <4>2. Passed(Compute[d])
        BY <1>1, <3>3, <4>1, LastComputed
      <4>3. sol[d] = Precomputed(d)
        BY <1>1, <4>1, <4>2 DEF LaunchInv, SoundIsOnCourse
      <4> QED BY <1>9, <3>3, <4>3
    <3> QED BY <3>1, <3>2, <3>3
  <2>2. settled' = "yes" /\ mode' = "test" =>
          \A u \in {"contracts", "copy"} :
            Passed(<<"build", u>>)' => \A d \in Contracts : built'[u][d] = Precomputed(d)
    BY <1>1, <1>6 DEF LaunchInv, SettledIsCompiled, artifacts
  <2>3. mode = "test" => chain["hardhat"].code = {}
    <3> SUFFICES ASSUME mode = "test", NEW d \in chain["hardhat"].code PROVE FALSE
      OBVIOUS
    <3>1. Live /\ d.kind \in Contracts
      BY <1>1 DEF Live, Running, LaunchInv, ChainTypes, Networks, Chains, Codes
    <3> QED BY <1>2, <3>1 DEF LaunchInv, SettledIsCompiled
  <2>4. \A d : Precomputed(d)' = Precomputed(d)
    BY DEF Precomputed, Creator, ExpectedNonce
  <2> QED BY <1>1, <2>1, <2>2, <2>3, <2>4 DEF SettledIsCompiled
<1>16. CoinsArrive'
  BY <1>1, <1>6, CoinsStay DEF LaunchInv, funding
<1> QED BY <1>7, <1>10, <1>11, <1>12, <1>13, <1>14, <1>15, <1>16 DEF LaunchInv

LEMMA ComputeAddressKeeps ==
  ASSUME LaunchInv, NEW c \in Contracts, ComputeAddress(c)
  PROVE  LaunchInv'
<1>1. /\ At(Compute[c]) /\ Proceed
      /\ env' = [env EXCEPT ![c] = Precomputed(c)]
      /\ sol' = [sol EXCEPT ![c] = Precomputed(c)]
      /\ settled' = (IF c = "kms" /\ sound /\ settled = "no" THEN "next" ELSE settled)
      /\ UNCHANGED <<artifacts, chain, funding, sound>>
  BY DEF ComputeAddress
<1>2. sound' \in BOOLEAN /\ settled' \in {"no", "next", "yes"}
  BY <1>1 DEF LaunchInv, ControlTypes
<1>3. Precomputed(c) \in Known(c)
  BY DEF Known
<1>4. /\ settled' # "no" => (settled # "no" \/ (c = "kms" /\ sound))
      /\ settled' = "yes" => settled = "yes"
      /\ sound' => sound
  BY <1>1
<1> QED BY <1>1, <1>2, <1>3, <1>4, AddressWritten

LEMMA ComputeAddressFailsKeeps ==
  ASSUME LaunchInv, NEW c \in Contracts, ComputeAddressFails(c)
  PROVE  LaunchInv'
<1>1. /\ At(Compute[c]) /\ Proceed /\ sound' = FALSE
      /\ settled' = (IF sol'[c] = Precomputed(c) THEN settled ELSE "no")
      /\ UNCHANGED <<artifacts, chain, funding>>
  BY DEF ComputeAddressFails
<1>2. PICK e \in {Precomputed(c), env[c], Nothing}, s \in {Precomputed(c), sol[c], Nothing} :
        env' = [env EXCEPT ![c] = e] /\ sol' = [sol EXCEPT ![c] = s]
  BY DEF ComputeAddressFails
<1>3. e \in Known(c) /\ s \in Known(c)
  <2>1. env[c] \in Known(c) /\ sol[c] \in Known(c)
    BY DEF LaunchInv, FileTypes
  <2> QED BY <2>1 DEF Known
<1>4. sol'[c] = s
  BY <1>2 DEF LaunchInv, FileTypes
<1>5. sound' \in BOOLEAN /\ settled' \in {"no", "next", "yes"}
  BY <1>1 DEF LaunchInv, ControlTypes
<1>6. /\ settled' # "no" => s = Precomputed(c) /\ (settled # "no" \/ (c = "kms" /\ sound))
      /\ settled' = "yes" => settled = "yes"
      /\ ~sound'
  BY <1>1, <1>4
<1> QED BY <1>1, <1>2, <1>3, <1>5, <1>6, AddressWritten

-----------------------------------------------------------------------------
(* Deployments.                                                            *)

NewCode(c) ==
  [kind |-> c, at |-> LandsAt(c), told |-> Argument(c), constants |-> built["copy"]]

LEMMA DeployedChain ==
  ASSUME FileTypes, ChainTypes, NEW c \in Contracts, chain' = Deployed(c)
  PROVE  /\ ChainTypes' /\ SameRelayers /\ Net \in Networks
         /\ NewCode(c) \in Codes
         /\ \A n \in Networks : n # Net => chain'[n] = chain[n]
         /\ chain'[Net].code = chain[Net].code \cup {NewCode(c)}
         /\ chain'[Net].nonce = [chain[Net].nonce EXCEPT ![Creator(c)] = @ + 1]
         /\ chain'[Net].funded = chain[Net].funded
<1> DEFINE old == chain[Net]
           key == Creator(c)
           rec == NewCode(c)
           nonces == [old.nonce EXCEPT ![key] = @ + 1]
           codes == old.code \cup {rec}
           new == [old EXCEPT !.nonce = nonces, !.code = codes]
<1>1. chain \in [Networks -> Chains] /\ Net \in Networks /\ old \in Chains
  BY DEF ChainTypes, Net, Networks
<1>2. key \in Keys /\ old.nonce \in [Keys -> Nat] /\ old.code \subseteq Codes
  BY <1>1, AddressesDiffer DEF Chains
<1>3. rec \in Codes
  <2>1. LandsAt(c) \in Keys \X Nat
    BY <1>2 DEF LandsAt
  <2>2. Argument(c) \in Addresses
    BY AddressesDiffer, ContractNames DEF FileTypes, Argument, NeedsAddress
  <2>3. built["copy"] \in [Contracts -> Addresses]
    BY DEF FileTypes
  <2> QED BY <2>1, <2>2, <2>3 DEF NewCode, Codes
<1>4. chain' = [chain EXCEPT ![Net] = new]
  BY DEF Deployed, NewCode
<1>5. nonces \in [Keys -> Nat] /\ nonces[key] = old.nonce[key] + 1
  BY <1>2
<1>6. \A k \in Keys : old.nonce[k] <= nonces[k] /\ nonces[k] \in Nat /\ old.nonce[k] \in Nat
  BY <1>2, <1>5
<1> HIDE DEF nonces, rec, key
<1>7. codes \subseteq Codes
  BY <1>2, <1>3
<1> HIDE DEF codes
<1>8. /\ new \in Chains /\ new.code = codes /\ new.nonce = nonces
      /\ new.funded = old.funded /\ new.relaying = old.relaying
  BY <1>1, <1>5, <1>7 DEF Chains
<1> HIDE DEF new
<1>9. \A n \in Networks : chain'[n] = IF n = Net THEN new ELSE chain[n]
  BY <1>1, <1>4
<1>10. chain' \in [Networks -> Chains]
  BY <1>1, <1>4, <1>8
<1>11. rec.at = <<key, old.nonce[key]>>
  BY DEF rec, key, NewCode, LandsAt
<1>12. ASSUME NEW n \in Networks, NEW d \in chain'[n].code
       PROVE  d.at[2] < chain'[n].nonce[d.at[1]]
  <2>1. CASE n # Net
    BY <1>9, <1>12, <2>1 DEF ChainTypes
  <2>2. CASE n = Net
    <3>1. chain'[n] = new /\ (d \in old.code \/ d = rec)
      BY <1>8, <1>9, <1>12, <2>2 DEF codes
    <3>2. CASE d = rec
      <4>1. d.at[1] = key /\ d.at[2] = old.nonce[key]
        BY <1>11, <3>2
      <4>2. old.nonce[key] < nonces[key]
        BY <1>2, <1>5
      <4> QED BY <1>8, <3>1, <4>1, <4>2
    <3>3. CASE d \in old.code
      <4>1. d.at[2] < old.nonce[d.at[1]] /\ d \in Codes
        BY <1>1, <1>2, <3>3 DEF ChainTypes
      <4>2. d.at[1] \in Keys /\ d.at[2] \in Nat
        BY <4>1 DEF Codes
      <4> QED BY <1>6, <1>8, <3>1, <4>1, <4>2
    <3> QED BY <3>1, <3>2, <3>3
  <2> QED BY <2>1, <2>2
<1>13. ChainTypes'
  <2>1. Networks' = Networks /\ Chains' = Chains
    BY DEF Networks, Chains, Codes, Addresses, Keys, Contracts, Nothing, Shipped, GatewayKeys
  <2> QED BY <1>10, <1>12, <2>1 DEF ChainTypes
<1>14. SameRelayers
  BY <1>8, <1>9 DEF SameRelayers
<1> QED BY <1>1, <1>3, <1>8, <1>9, <1>13, <1>14 DEF codes, nonces, rec, key

(* A sound launch can make each of its first three deployments, and they      *)
(* land where they should.                                                  *)
LEMMA SoundDeploys ==
  ASSUME LaunchInv, Running, sound, mode = "node", NEW c \in CoreContracts, At(Deploy[c])
  PROVE  CanDeploy(c) /\ LandsAt(c) = env[c]
<1>1. ControlTypes /\ c \in Contracts
  BY ContractNames DEF LaunchInv
<1>2. /\ \A d \in Contracts : Passed(Compute[d])
      /\ Passed(<<"build", "copy">>)
      /\ Passed(Deploy["acl"]) <=> c # "acl"
      /\ Passed(Deploy["exec"]) <=> c = "kms"
      /\ ~Passed(Deploy["kms"])
  BY <1>1, AtCoreDeployment
<1>3. /\ edited /\ chain["node"].nonce[Signer9] = CoreNonce
      /\ built["copy"] # NotBuilt /\ layout = "node"
      /\ \A d \in Contracts : env[d] = Precomputed(d)
  BY <1>2 DEF LaunchInv, SoundIsOnCourse
<1>4. FactoryFound(c)
  BY <1>3 DEF FactoryFound
<1>5. Argument(c) # Nothing
  BY <1>3, AddressesDiffer, ContractNames DEF Argument, NeedsAddress
<1>6. Creator(c) = Signer9 /\ CanPay(Signer9)
  BY DEF Creator, CoreContracts, CanPay
<1>7. LandsAt(c) = <<Signer9, CoreNonce>>
  BY <1>3, <1>6 DEF LandsAt, Net
<1>8. CoreNonce = ExpectedNonce(c)
  <2>1. CASE c = "acl"
    BY <1>2, <2>1 DEF CoreNonce, ExpectedNonce
  <2>2. CASE c = "exec"
    BY <1>2, <2>2 DEF CoreNonce, ExpectedNonce
  <2>3. CASE c = "kms"
    BY <1>2, <2>3 DEF CoreNonce, ExpectedNonce
  <2> QED BY <2>1, <2>2, <2>3 DEF CoreContracts
<1>9. LandsAt(c) = env[c]
  BY <1>1, <1>3, <1>6, <1>7, <1>8 DEF Precomputed
<1> QED BY <1>4, <1>5, <1>6, <1>9 DEF CanDeploy

(* A deployment that lands where the file says is the first of its key, or    *)
(* the second or third, as expected, and nothing else is at that address.    *)
LEMMA LandsAsExpected ==
  ASSUME FileTypes, ChainTypes, NEW c \in Contracts, LandsAt(c) = env[c], chain' = Deployed(c)
  PROVE  /\ env[c] = Precomputed(c)
         /\ InPlace(Net, c) = {}
         /\ \A d \in chain'[Net].code : d.at = Precomputed(c) => d = NewCode(c)
<1> DEFINE key == Creator(c)
           nonce == chain[Net].nonce[key]
<1>1. key \in Keys /\ ExpectedNonce(c) \in Nat /\ Precomputed(c) = <<key, ExpectedNonce(c)>>
  BY AddressesDiffer DEF Precomputed
<1>2. chain \in [Networks -> Chains] /\ Net \in Networks /\ nonce \in Nat
  BY <1>1 DEF ChainTypes, Net, Networks, Chains
<1>3. env[c] = <<key, nonce>>
  BY DEF LandsAt
<1>4. key # "nothing" /\ key # "shipped"
  BY <1>1, LaunchAssumption DEF Keys
<1>5. env[c] = Precomputed(c)
  <2>1. env[c] # Nothing /\ env[c] # Shipped
    <3> HIDE DEF key, nonce
    <3> QED BY <1>3, <1>4 DEF Nothing, Shipped
  <2> QED BY <2>1 DEF FileTypes, Known
<1>6. nonce = ExpectedNonce(c)
  BY <1>1, <1>3, <1>5
<1>7. \A d \in chain[Net].code : d.at # Precomputed(c)
  <2> SUFFICES ASSUME NEW d \in chain[Net].code, d.at = Precomputed(c) PROVE FALSE
    OBVIOUS
  <2>1. d.at[2] < chain[Net].nonce[d.at[1]]
    BY <1>2 DEF ChainTypes
  <2>2. d.at[1] = key /\ d.at[2] = nonce
    BY <1>1, <1>6
  <2> QED BY <1>2, <2>1, <2>2
<1>8. InPlace(Net, c) = {}
  BY <1>7 DEF InPlace, CodeAt
<1>9. chain'[Net].code = chain[Net].code \cup {NewCode(c)}
  BY DeployedChain
<1> QED BY <1>5, <1>7, <1>8, <1>9

LEMMA DeployContractKeeps ==
  ASSUME LaunchInv, NEW c \in Contracts, DeployContract(c)
  PROVE  LaunchInv'
<1> DEFINE step == Deploy[c]
           Lands == CanDeploy(c) /\ LandsAt(c) = env[c]
<1>1. /\ At(step) /\ Running /\ ControlTypes /\ FileTypes /\ ChainTypes
      /\ UNCHANGED <<fileVars, artifacts, funding, bounds, sound, settled>>
  BY DEF DeployContract, At, LaunchInv
<1>2. /\ Lands => chain' = Deployed(c) /\ Proceed
      /\ ~Lands => Throw /\ (chain' = Deployed(c) \/ chain' = chain)
  BY DEF DeployContract
<1>3. CASE chain' = Deployed(c) \/ chain' = chain
  <2>1. ChainTypes' /\ SameRelayers
    BY <1>1, <1>3, DeployedChain, ChainStays
  <2>2. chain'["node"].funded = chain["node"].funded
    <3>1. CASE chain' = Deployed(c)
      <4>1. /\ \A n \in Networks : n # Net => chain'[n] = chain[n]
            /\ chain'[Net].funded = chain[Net].funded
        BY <1>1, <3>1, DeployedChain
      <4> QED BY <4>1 DEF Networks
    <3> QED BY <1>3, <3>1
  <2>3. FundingTypes'
    BY <1>1 DEF LaunchInv, FundingTypes, funding, Roles, GatewayKeys
  <2>4. CASE ~Proceed
    <3>1. outcome' = "failed" /\ UNCHANGED <<mode, pc>>
      BY <1>2, <2>4 DEF Throw
    <3>2. sound' \in BOOLEAN
      BY <1>1 DEF ControlTypes
    <3>3. /\ ControlTypes' /\ FileTypes' /\ DeploymentsStand' /\ SoundIsOnCourse'
          /\ SettledIsCompiled' /\ \A s : ~Passed(s)'
      BY <1>1, <3>1, <3>2, EndedLaunch DEF LaunchInv
    <3>4. CoinsArrive'
      BY <1>1, <2>2, <3>1, <3>3, CoinsStay DEF LaunchInv, funding
    <3> QED BY <2>1, <2>3, <3>3, <3>4 DEF LaunchInv
  <2>5. CASE Proceed
    <3>1. /\ mode' = mode /\ Net' = Net
          /\ pc' \in 1 .. Len(Program[mode']) /\ outcome' \in {"running", "done"}
          /\ outcome' = "done" => pc' = Len(Program[mode'])
          /\ \A s : Passed(s)' <=> Passed(s) \/ At(s)
      BY <1>1, <2>5, ProceedPasses DEF Net
    <3>2. /\ \A d \in Contracts : Passed(Deploy[d])' <=> Passed(Deploy[d]) \/ d = c
          /\ \A d \in Contracts : Passed(Compute[d])' <=> Passed(Compute[d])
          /\ \A u \in {"contracts", "copy"} : Passed(<<"build", u>>)' <=> Passed(<<"build", u>>)
          /\ Passed(<<"addRelayer">>)' <=> Passed(<<"addRelayer">>)
          /\ Passed(<<"fund">>)' <=> Passed(<<"fund">>)
      <4>1. /\ \A d \in Contracts : (Deploy[d] = step <=> d = c) /\ Compute[d] # step
            /\ \A u \in {"contracts", "copy"} : <<"build", u>> # step
            /\ <<"addRelayer">> # step /\ <<"fund">> # step
        BY StepNames
      <4>2. Deploy' = Deploy /\ Compute' = Compute
        BY DEF Deploy, Compute
      <4>3. \A s : s # step => (Passed(s)' <=> Passed(s))
        BY <1>1, <2>5, StepsApart
      <4>4. Passed(step)'
        BY <1>1, <3>1
      <4> HIDE DEF step
      <4> QED BY <4>1, <4>2, <4>3, <4>4
    <3>3. ControlTypes'
      BY <1>1, <3>1 DEF ControlTypes, artifacts, Modes, Program
    <3>4. FileTypes'
      BY <1>1 DEF FileTypes, fileVars, artifacts, Known, Precomputed, Creator, ExpectedNonce
    <3>5. c # "gateway" => c \in CoreContracts
      BY DEF Contracts, CoreContracts
    <3>6. Sure \/ c = "gateway" => Lands
      <4>1. ASSUME ~Lands, c = "gateway" PROVE FALSE
        <5>1. InLaunchFhevm
          BY <1>1, <4>1, AtGateway
        <5>2. outcome' = "failed"
          BY <1>2, <4>1, <5>1 DEF Throw
        <5> QED BY <3>1, <5>2
      <4>2. ASSUME ~Lands, Sure, c # "gateway" PROVE FALSE
        <5>1. mode = "node" /\ sound
          <6>1. outcome' # "failed"
            BY <3>1
          <6>2. mode = "node"
            BY <1>2, <4>2, <6>1 DEF Throw
          <6> QED BY <4>2, <6>2 DEF Sure
        <5> QED BY <1>1, <3>5, <4>2, <5>1, SoundDeploys
      <4> QED BY <4>1, <4>2
    <3>7. DeploymentsStand'
      <4> DEFINE Places(d) == InPlace(Net, d)
      <4>1. \A d : Precomputed(d)' = Precomputed(d)
        BY DEF Precomputed, Creator, ExpectedNonce
      <4>2. Sure' <=> Sure
        BY <1>1, <3>1 DEF Sure
      <4>3. CASE Lands
        <5>1. /\ env[c] = Precomputed(c)
              /\ \A d \in chain'[Net].code : d.at = Precomputed(c) => d = NewCode(c)
              /\ chain'[Net].code = chain[Net].code \cup {NewCode(c)}
          BY <1>1, <1>2, <4>3, LandsAsExpected, DeployedChain
        <5>2. NewCode(c).kind = c /\ NewCode(c).at = Precomputed(c)
          BY <4>3, <5>1 DEF NewCode
        <5>3. InPlace(Net, c)' = {NewCode(c)}
          BY <3>1, <4>1, <5>1, <5>2 DEF InPlace, CodeAt
        <5>4. \A d : d # c => InPlace(Net, d)' = InPlace(Net, d)
          BY <3>1, <4>1, <5>1, <5>2 DEF InPlace, CodeAt
        <5>5. NewCode(c).told = Argument(c)
          BY DEF NewCode
        <5>6. /\ c = "acl" => Argument(c) = env["exec"]
              /\ c = "gateway" => Argument(c) = env["kms"]
          BY DEF Argument, NeedsAddress
        <5>7. env' = env
          BY <1>1 DEF fileVars
        <5>8. Passed(Deploy["gateway"])' =>
                env'["gateway"] = Precomputed("gateway") /\ InPlace(Net, "gateway")' # {}
          BY <3>2, <5>1, <5>3, <5>4, <5>7, ContractNames DEF LaunchInv, DeploymentsStand
        <5>9. Passed(<<"addRelayer">>)' => Precomputed("gateway") \in chain'[Net].relaying
          <6>1. Net \in Networks
            BY DEF Net, Networks
          <6> QED BY <2>1, <3>2, <6>1 DEF LaunchInv, DeploymentsStand, SameRelayers
        <5>10. Sure' => \A d \in {"acl", "exec", "kms"} :
                 Passed(Deploy[d])' => env'[d] = Precomputed(d) /\ InPlace(Net, d)' # {}
          BY <3>2, <4>2, <5>1, <5>3, <5>4, <5>7, ContractNames DEF LaunchInv, DeploymentsStand
        <5>11. Sure' /\ Passed(Deploy["acl"])' =>
                 \A d \in InPlace(Net, "acl")' : d.told = env'["exec"]
          BY <3>2, <4>2, <5>3, <5>4, <5>5, <5>6, <5>7, ContractNames
             DEF LaunchInv, DeploymentsStand
        <5>12. Sure' /\ Passed(Deploy["gateway"])' =>
                 \A d \in InPlace(Net, "gateway")' : d.told = env'["kms"]
          BY <3>2, <4>2, <5>3, <5>4, <5>5, <5>6, <5>7, ContractNames
             DEF LaunchInv, DeploymentsStand
        <5> QED BY <3>1, <4>1, <5>8, <5>9, <5>10, <5>11, <5>12 DEF DeploymentsStand
      <4>4. CASE ~Lands
        <5>1. ~Sure' /\ c # "gateway"
          BY <3>6, <4>2, <4>4
        <5>2. ~Passed(Deploy["gateway"])' /\ ~Passed(<<"addRelayer">>)'
          <6>1. ~Passed(Deploy["gateway"]) /\ ~Passed(<<"addRelayer">>)
            BY <1>1, <3>5, <5>1, AtCoreDeployment
          <6> QED BY <3>2, <5>1, <6>1, ContractNames
        <5> QED BY <5>1, <5>2 DEF DeploymentsStand
      <4> QED BY <4>3, <4>4
    <3>8. SoundIsOnCourse'
      <4> SUFFICES ASSUME sound PROVE SoundIsOnCourse'
        BY <1>1 DEF SoundIsOnCourse
      <4>1. /\ mode # "fund" /\ \A d \in Contracts : sol[d] # Nothing
            /\ \A d \in Contracts :
                 Passed(Compute[d]) => env[d] = Precomputed(d) /\ sol[d] = Precomputed(d)
            /\ mode = "node" =>
                 /\ edited /\ chain["node"].nonce[Signer9] = CoreNonce
                 /\ Passed(<<"build", "copy">>) => built["copy"] # NotBuilt /\ layout = "node"
        BY <1>1 DEF LaunchInv, SoundIsOnCourse
      <4>2. mode = "node" => chain'["node"].nonce[Signer9] = CoreNonce'
        <5> SUFFICES ASSUME mode = "node" PROVE chain'["node"].nonce[Signer9] = CoreNonce'
          OBVIOUS
        <5>1. Net = "node" /\ Lands
          BY <3>6 DEF Net, Sure
        <5>2. chain'["node"].nonce = [chain["node"].nonce EXCEPT ![Creator(c)] = @ + 1]
          BY <1>1, <1>2, <5>1, DeployedChain
        <5>3. chain["node"].nonce \in [Keys -> Nat] /\ Signer9 \in Keys
          BY <1>1 DEF ChainTypes, Networks, Chains, Keys
        <5>4. CASE c = "gateway"
          <6>1. Creator(c) # Signer9
            BY <5>4, LaunchAssumption DEF Creator
          <6>2. CoreNonce' = CoreNonce
            BY <3>2, <5>4, ContractNames DEF CoreNonce
          <6> QED BY <4>1, <5>2, <5>3, <6>1, <6>2
        <5>5. CASE c # "gateway"
          <6>1. Creator(c) = Signer9
            BY <5>5 DEF Creator
          <6>2. /\ Passed(Deploy["acl"]) <=> c # "acl"
                /\ Passed(Deploy["exec"]) <=> c = "kms"
                /\ ~Passed(Deploy["kms"])
            BY <1>1, <3>5, <5>5, AtCoreDeployment
          <6>3. CoreNonce' = CoreNonce + 1
            <7>1. CASE c = "acl"
              BY <3>2, <6>2, <7>1, ContractNames DEF CoreNonce
            <7>2. CASE c = "exec"
              BY <3>2, <6>2, <7>2, ContractNames DEF CoreNonce
            <7>3. CASE c = "kms"
              BY <3>2, <6>2, <7>3, ContractNames DEF CoreNonce
            <7> QED BY <3>5, <5>5, <7>1, <7>2, <7>3 DEF CoreContracts
          <6> QED BY <4>1, <5>2, <5>3, <6>1, <6>3
        <5> QED BY <5>4, <5>5
      <4>3. NotBuilt' = NotBuilt /\ \A d : Precomputed(d)' = Precomputed(d)
        BY DEF NotBuilt, Precomputed, Creator, ExpectedNonce
      <4> QED BY <1>1, <3>1, <3>2, <4>1, <4>2, <4>3 DEF SoundIsOnCourse, fileVars, artifacts
    <3>9. SettledIsCompiled'
      <4>1. settled' # "no" => \A d \in Contracts : sol'[d] = Precomputed(d)
        BY <1>1 DEF LaunchInv, SettledIsCompiled, fileVars
      <4>2. settled' = "yes" /\ mode' = "test" =>
              \A u \in {"contracts", "copy"} :
                Passed(<<"build", u>>)' => \A d \in Contracts : built'[u][d] = Precomputed(d)
        BY <1>1, <3>1, <3>2 DEF LaunchInv, SettledIsCompiled, artifacts
      <4>3. ASSUME mode = "test", NEW d \in chain'["hardhat"].code
            PROVE  Passed(Deploy[d.kind])' /\ d.constants = built["copy"]
        <5>1. Net = "hardhat" /\ Live
          BY <1>1, <4>3 DEF Net, Live, Running
        <5>2. CASE d \in chain["hardhat"].code
          <6>1. Passed(Deploy[d.kind]) /\ d.constants = built["copy"] /\ d.kind \in Contracts
            BY <1>1, <4>3, <5>1, <5>2
               DEF LaunchInv, SettledIsCompiled, ChainTypes, Networks, Chains, Codes
          <6> QED BY <3>2, <6>1
        <5>3. CASE d = NewCode(c)
          <6>1. d.kind = c /\ d.constants = built["copy"]
            BY <5>3 DEF NewCode
          <6> QED BY <3>2, <6>1
        <5>4. d \in chain["hardhat"].code \/ d = NewCode(c)
          BY <1>1, <1>3, <4>3, <5>1, DeployedChain
        <5> QED BY <5>2, <5>3, <5>4
      <4>4. \A d : Precomputed(d)' = Precomputed(d)
        BY DEF Precomputed, Creator, ExpectedNonce
      <4>5. built' = built
        BY <1>1 DEF artifacts
      <4> QED BY <3>1, <4>1, <4>2, <4>3, <4>4, <4>5 DEF SettledIsCompiled
    <3>10. CoinsArrive'
      BY <1>1, <2>2, <3>1, <3>2, CoinsStay DEF LaunchInv, funding
    <3> QED BY <2>1, <2>3, <3>3, <3>4, <3>7, <3>8, <3>9, <3>10 DEF LaunchInv
  <2> QED BY <2>4, <2>5
<1> QED BY <1>2, <1>3

-----------------------------------------------------------------------------
(* The gateway's relayer.                                                   *)

LEMMA OwnersTransaction ==
  ASSUME ChainTypes, NEW n \in Networks, NEW relaying \in SUBSET Addresses,
         chain' = [chain EXCEPT ![n].nonce[GatewayOwner] = @ + 1, ![n].relaying = relaying]
  PROVE  /\ ChainTypes' /\ SameCode
         /\ chain'["node"].nonce[Signer9] = chain["node"].nonce[Signer9]
         /\ chain'["node"].funded = chain["node"].funded
         /\ chain'[n].relaying = relaying
<1> DEFINE old == chain[n]
           nonces == [old.nonce EXCEPT ![GatewayOwner] = @ + 1]
           new == [old EXCEPT !.nonce = nonces, !.relaying = relaying]
<1>1. chain \in [Networks -> Chains] /\ old \in Chains
  BY DEF ChainTypes
<1>2. /\ old.nonce \in [Keys -> Nat] /\ GatewayOwner \in Keys /\ Signer9 \in Keys
      /\ Signer9 # GatewayOwner
  BY <1>1, LaunchAssumption DEF Chains, Keys
<1>3. /\ nonces \in [Keys -> Nat] /\ nonces[Signer9] = old.nonce[Signer9]
      /\ \A k \in Keys : old.nonce[k] <= nonces[k]
  BY <1>2
<1>4. chain' = [chain EXCEPT ![n] = new]
  BY <1>1
<1> HIDE DEF nonces
<1>5. /\ new \in Chains /\ new.code = old.code /\ new.nonce = nonces
      /\ new.relaying = relaying /\ new.funded = old.funded
  BY <1>1, <1>3 DEF Chains
<1> HIDE DEF new
<1>6. \A m \in Networks : chain'[m] = IF m = n THEN new ELSE chain[m]
  BY <1>1, <1>4
<1>7. ChainTypes' /\ SameCode
  BY <1>1, <1>3, <1>4, <1>5, ChainKept
<1>8. "node" \in Networks
  BY DEF Networks
<1> QED BY <1>3, <1>5, <1>6, <1>7, <1>8

LEMMA AddRelayerKeeps ==
  ASSUME LaunchInv, AddRelayer
  PROVE  LaunchInv'
<1> DEFINE step == <<"addRelayer">>
           Accepted == CodeAt(Net, env["gateway"]) # {} /\ CanPay(GatewayOwner)
<1>1. /\ At(step) /\ Running /\ ControlTypes /\ ChainTypes /\ Net \in Networks
      /\ UNCHANGED <<fileVars, artifacts, funding, bounds, sound, settled>>
  BY DEF AddRelayer, At, LaunchInv, Net, Networks
<1>2. FundingTypes'
  BY <1>1 DEF LaunchInv, FundingTypes, funding, Roles, GatewayKeys
<1>3. InLaunchFhevm /\ Passed(Deploy["gateway"])
  BY <1>1, AtGateway
<1>4. CASE ~Accepted
  <2>1. chain' = chain /\ outcome' = "failed" /\ UNCHANGED <<mode, pc>>
    BY <1>3, <1>4 DEF AddRelayer, Throw
  <2>2. sound' \in BOOLEAN /\ (sound' => sound)
    BY <1>1 DEF ControlTypes
  <2>3. /\ ControlTypes' /\ FileTypes' /\ DeploymentsStand' /\ SoundIsOnCourse'
        /\ SettledIsCompiled' /\ \A s : ~Passed(s)'
    BY <1>1, <2>1, <2>2, EndedLaunch DEF LaunchInv
  <2>4. ChainTypes'
    BY <1>1, <2>1, ChainStays
  <2>5. CoinsArrive'
    BY <1>1, <2>1, <2>3, CoinsStay DEF LaunchInv, funding
  <2> QED BY <1>2, <2>3, <2>4, <2>5 DEF LaunchInv
<1>5. CASE Accepted
  <2> DEFINE relaying == chain[Net].relaying \cup {env["gateway"]}
  <2>1. /\ chain' = [chain EXCEPT ![Net].nonce[GatewayOwner] = @ + 1, ![Net].relaying = relaying]
        /\ Proceed
    BY <1>5 DEF AddRelayer
  <2>2. relaying \in SUBSET Addresses
    BY <1>1, ContractNames DEF LaunchInv, ChainTypes, Chains, FileTypes
  <2>3. env["gateway"] \in relaying
    OBVIOUS
  <2> HIDE DEF relaying
  <2>4. /\ ChainTypes' /\ SameCode
        /\ chain'["node"].nonce[Signer9] = chain["node"].nonce[Signer9]
        /\ chain'["node"].funded = chain["node"].funded
        /\ chain'[Net].relaying = relaying
    BY <1>1, <2>1, <2>2, OwnersTransaction
  <2>5. /\ mode' = mode /\ Net' = Net
        /\ pc' \in 1 .. Len(Program[mode']) /\ outcome' \in {"running", "done"}
        /\ outcome' = "done" => pc' = Len(Program[mode'])
    BY <1>1, <2>1, ProceedPasses DEF Net
  <2>6. /\ \A d \in Contracts : Passed(Deploy[d])' <=> Passed(Deploy[d])
        /\ \A d \in Contracts : Passed(Compute[d])' <=> Passed(Compute[d])
        /\ \A u \in {"contracts", "copy"} : Passed(<<"build", u>>)' <=> Passed(<<"build", u>>)
        /\ Passed(<<"fund">>)' <=> Passed(<<"fund">>)
    <3>1. /\ \A d \in Contracts : Deploy[d] # step /\ Compute[d] # step
          /\ \A u \in {"contracts", "copy"} : <<"build", u>> # step
          /\ <<"fund">> # step
      BY StepNames
    <3>2. Deploy' = Deploy /\ Compute' = Compute
      BY DEF Deploy, Compute
    <3>3. \A s : s # step => (Passed(s)' <=> Passed(s))
      BY <1>1, <2>1, StepsApart
    <3> HIDE DEF step
    <3> QED BY <3>1, <3>2, <3>3
  <2>7. ControlTypes'
    BY <1>1, <2>5 DEF ControlTypes, artifacts, Modes, Program
  <2>8. FileTypes'
    BY <1>1 DEF LaunchInv, FileTypes, fileVars, artifacts, Known, Precomputed, Creator,
                ExpectedNonce
  <2>9. DeploymentsStand'
    <3>1. \A d : Precomputed(d)' = Precomputed(d)
      BY DEF Precomputed, Creator, ExpectedNonce
    <3>2. \A d : InPlace(Net, d)' = InPlace(Net, d)
      BY <2>4, <2>5, SamePlaces
    <3>3. env' = env /\ (Sure' <=> Sure)
      BY <1>1, <2>5 DEF fileVars, Sure
    <3>4. env["gateway"] = Precomputed("gateway")
      BY <1>3 DEF LaunchInv, DeploymentsStand
    <3>5. Precomputed("gateway") \in chain'[Net].relaying
      BY <2>3, <2>4, <3>4
    <3>6. Passed(Deploy["gateway"])' =>
            env'["gateway"] = Precomputed("gateway") /\ InPlace(Net, "gateway")' # {}
      BY <2>6, <3>2, <3>3, ContractNames DEF LaunchInv, DeploymentsStand
    <3>7. Sure' => \A d \in {"acl", "exec", "kms"} :
            Passed(Deploy[d])' => env'[d] = Precomputed(d) /\ InPlace(Net, d)' # {}
      BY <2>6, <3>2, <3>3, ContractNames DEF LaunchInv, DeploymentsStand
    <3>8. Sure' =>
            /\ Passed(Deploy["acl"])' => \A d \in InPlace(Net, "acl")' : d.told = env'["exec"]
            /\ Passed(Deploy["gateway"])' =>
                 \A d \in InPlace(Net, "gateway")' : d.told = env'["kms"]
      BY <2>6, <3>2, <3>3, ContractNames DEF LaunchInv, DeploymentsStand
    <3> QED BY <2>5, <3>1, <3>5, <3>6, <3>7, <3>8 DEF DeploymentsStand
  <2>10. SoundIsOnCourse'
    <3>1. CoreNonce' = CoreNonce
      BY <2>6, ContractNames DEF CoreNonce
    <3>2. NotBuilt' = NotBuilt /\ \A d : Precomputed(d)' = Precomputed(d)
      BY DEF NotBuilt, Precomputed, Creator, ExpectedNonce
    <3>3. sound' = sound /\ UNCHANGED <<env, sol, built, layout, edited>>
      BY <1>1 DEF fileVars, artifacts
    <3> QED BY <1>1, <2>4, <2>5, <2>6, <3>1, <3>2, <3>3 DEF LaunchInv, SoundIsOnCourse
  <2>11. SettledIsCompiled'
    <3>1. chain'["hardhat"].code = chain["hardhat"].code
      BY <2>4 DEF SameCode, Networks
    <3>2. Live
      BY <1>1 DEF Live, Running
    <3>3. /\ \A u \in {"contracts", "copy"} : Passed(<<"build", u>>)' => Passed(<<"build", u>>)
          /\ \A c \in Contracts : Passed(Deploy[c]) => Passed(Deploy[c])'
      BY <2>6
    <3>4. mode' = mode /\ sol' = sol /\ settled' = settled /\ built' = built
      BY <1>1, <2>5 DEF fileVars, artifacts
    <3> QED BY <1>1, <3>1, <3>2, <3>3, <3>4, SettledStaysCompiled DEF LaunchInv
  <2>12. CoinsArrive'
    BY <1>1, <2>4, <2>5, <2>6, CoinsStay DEF LaunchInv, funding
  <2> QED BY <1>2, <2>4, <2>7, <2>8, <2>9, <2>10, <2>11, <2>12 DEF LaunchInv
<1> QED BY <1>4, <1>5

LEMMA RemoveRelayerKeeps ==
  ASSUME LaunchInv, RemoveRelayer
  PROVE  LaunchInv'
<1> DEFINE relaying == chain["node"].relaying \ {env["gateway"]}
<1>1. /\ outcome' = "idle"
      /\ chain' = [chain EXCEPT !["node"].nonce[GatewayOwner] = @ + 1,
                                !["node"].relaying = relaying]
      /\ UNCHANGED <<mode, pc, fileVars, artifacts, funding, bounds, sound, settled>>
  BY DEF RemoveRelayer
<1>2. "node" \in Networks /\ relaying \in SUBSET Addresses
  BY DEF LaunchInv, ChainTypes, Chains, Networks
<1> HIDE DEF relaying
<1>3. ChainTypes' /\ chain'["node"].funded = chain["node"].funded
  BY <1>1, <1>2, OwnersTransaction DEF LaunchInv
<1>4. sound' \in BOOLEAN /\ (sound' => sound)
  BY <1>1 DEF LaunchInv, ControlTypes
<1>5. /\ ControlTypes' /\ FileTypes' /\ DeploymentsStand' /\ SoundIsOnCourse'
      /\ SettledIsCompiled' /\ \A s : ~Passed(s)'
  BY <1>1, <1>4, EndedLaunch DEF LaunchInv
<1>6. FundingTypes'
  BY <1>1 DEF LaunchInv, FundingTypes, funding, Roles, GatewayKeys
<1>7. CoinsArrive'
  BY <1>1, <1>3, <1>5, CoinsStay DEF LaunchInv, funding
<1> QED BY <1>3, <1>5, <1>6, <1>7 DEF LaunchInv

-----------------------------------------------------------------------------
(* The invariant holds from the start and every step keeps it.              *)

LEMMA LaunchInitially ==
  ASSUME Init
  PROVE  LaunchInv
<1>1. /\ mode = "test" /\ pc = 1 /\ outcome = "idle"
      /\ sol = [c \in Contracts |-> Shipped]
      /\ built = [u \in {"contracts", "copy"} |-> NotBuilt]
      /\ layout = "test" /\ edited = FALSE
      /\ calls = [r \in Roles |-> "none"] /\ pending = {}
      /\ sound = FALSE /\ settled = "no"
  BY DEF Init
<1>2. PICK old \in {Nothing, Shipped} : env = [c \in Contracts |-> old]
  BY DEF Init
<1>3. PICK funded \in SUBSET GatewayKeys :
        chain = [hardhat |-> FreshChain({}), node |-> FreshChain(funded)]
  BY DEF Init
<1>4. ~Live /\ ~Running /\ \A step : ~Passed(step)
  BY <1>1 DEF Live, Running, Passed
<1>5. ControlTypes
  <2>1. pc \in 1 .. Len(Program[mode]) /\ mode \in Modes
    BY <1>1, ProgramsAreNotEmpty DEF Modes
  <2> QED BY <1>1, <2>1 DEF ControlTypes
<1>6. FileTypes
  <2>1. NotBuilt \in [Contracts -> Addresses]
    BY DEF NotBuilt, Addresses
  <2>2. \A c \in Contracts : env[c] \in {Nothing, Shipped} /\ sol[c] = Shipped
    BY <1>1, <1>2
  <2> QED BY <1>1, <1>2, <2>1, <2>2 DEF FileTypes, Addresses, Known
<1>7. ChainTypes
  <2>1. chain["hardhat"] = FreshChain({}) /\ chain["node"] = FreshChain(funded)
    BY <1>3
  <2>2. /\ FreshChain({}) \in Chains /\ FreshChain({}).code = {}
        /\ FreshChain(funded) \in Chains /\ FreshChain(funded).code = {}
    BY FreshChains
  <2>3. chain \in [Networks -> Chains]
    BY <1>3, <2>1, <2>2 DEF Networks
  <2> QED BY <2>1, <2>2, <2>3 DEF ChainTypes, Networks
<1>8. FundingTypes /\ CoinsArrive
  BY <1>1, <1>4 DEF FundingTypes, CoinsArrive
<1>9. DeploymentsStand /\ SoundIsOnCourse /\ SettledIsCompiled
  BY <1>1, <1>4 DEF DeploymentsStand, SoundIsOnCourse, SettledIsCompiled
<1> QED BY <1>5, <1>6, <1>7, <1>8, <1>9 DEF LaunchInv

LEMMA LaunchInductive ==
  ASSUME LaunchInv, [Next]_vars
  PROVE  LaunchInv'
<1>1. ASSUME UNCHANGED vars PROVE LaunchInv'
  <2>1. /\ UNCHANGED <<launchVars, fileVars, artifacts, settled>>
        /\ UNCHANGED <<chain, funding, sound>>
    BY <1>1 DEF vars
  <2>2. ChainTypes' /\ SameCode /\ SameRelayers
    BY <2>1, ChainStays DEF LaunchInv
  <2>3. sound' \in BOOLEAN
    BY <2>1 DEF LaunchInv, ControlTypes
  <2>4. /\ ControlTypes' /\ FileTypes' /\ DeploymentsStand' /\ SoundIsOnCourse'
        /\ SettledIsCompiled'
    BY <2>1, <2>2, <2>3, LaunchAside
  <2>5. FundingTypes' /\ CoinsArrive'
    <3>1. FundingTypes'
      BY <2>1 DEF LaunchInv, FundingTypes, funding, Roles, GatewayKeys
    <3> QED BY <2>1, <3>1, SameStepsStill, CoinsStay DEF LaunchInv, launchVars, funding
  <2> QED BY <2>2, <2>4, <2>5 DEF LaunchInv
<1>2. ASSUME LaunchStep PROVE LaunchInv'
  <2>1. CASE \E u \in {"contracts", "copy"} : Build(u)
    BY <2>1, BuildKeeps
  <2>2. CASE \E c \in Contracts : ComputeAddress(c) \/ DeployContract(c)
    BY <2>2, ComputeAddressKeeps, DeployContractKeeps
  <2>3. CASE \E r \in Roles : FaucetSigns(r) \/ FaucetAccepts(r) \/ GetCoinAgain(r)
    BY <2>3, FaucetKeeps
  <2>4. CASE MockPrecompile \/ SetBalances
    BY <2>4, SettingsKeep
  <2>5. CASE AllFunded
    BY <2>5, AllFundedKeeps
  <2>6. CASE WaitFiveSeconds
    BY <2>6, WaitFiveSecondsKeeps
  <2>7. CASE AddRelayer
    BY <2>7, AddRelayerKeeps
  <2> QED BY <1>2, <2>1, <2>2, <2>3, <2>4, <2>5, <2>6, <2>7 DEF LaunchStep
<1>3. ASSUME Environment PROVE LaunchInv'
  <2>1. CASE \E m \in Modes : Start(m)
    BY <2>1, StartKeeps
  <2>2. CASE \E c \in Contracts : ComputeAddressFails(c)
    BY <2>2, ComputeAddressFailsKeeps
  <2>3. CASE \E r \in Roles : FaucetRefuses(r) \/ FaucetFails(r)
    BY <2>3, FaucetKeeps, FaucetFailsKeeps
  <2>4. CASE StrangerAtFaucet
    <3>1. "owner" \in Roles
      BY DEF Roles
    <3> QED BY <2>4, <3>1, FaucetKeeps
  <2>5. CASE NodeMakesBlock
    BY <2>5, NodeMakesBlockKeeps
  <2>6. CASE Kill
    BY <2>6, KillKeeps
  <2>7. CASE StrangerOnNode
    BY <2>7, StrangerOnNodeKeeps
  <2>8. CASE CleanNode
    BY <2>8, CleanNodeKeeps
  <2>9. CASE EditTasks
    BY <2>9, EditTasksKeeps
  <2>10. CASE RemoveRelayer
    BY <2>10, RemoveRelayerKeeps
  <2> QED BY <1>3, <2>1, <2>2, <2>3, <2>4, <2>5, <2>6, <2>7, <2>8, <2>9, <2>10 DEF Environment
<1> QED BY <1>1, <1>2, <1>3 DEF Next

LEMMA LaunchHolds ==
  Spec => []LaunchInv
<1>1. Init => LaunchInv
  BY LaunchInitially
<1>2. LaunchInv /\ [Next]_vars => LaunchInv'
  BY LaunchInductive
<1> QED BY <1>1, <1>2, PTL DEF Spec

-----------------------------------------------------------------------------
(* What follows from it.                                                   *)

(* Every file and every argument of a deployment is an address, a launch is  *)
(* always at one of its steps, and each network counts nonces and funds only *)
(* the accounts of .env.                                                     *)
THEOREM LaunchTypes ==
  Spec => []TypeOK
<1>1. LaunchInv => TypeOK
  <2> SUFFICES ASSUME LaunchInv PROVE TypeOK
    OBVIOUS
  <2>1. \A n \in Networks : chain[n].nonce \in [Keys -> Nat] /\ chain[n].funded \subseteq GatewayKeys
    BY DEF LaunchInv, ChainTypes, Chains
  <2>2. \A u \in DOMAIN built : built[u] \in [Contracts -> Addresses]
    BY DEF LaunchInv, FileTypes
  <2>3. env \in [Contracts -> Addresses] /\ sol \in [Contracts -> Addresses]
    BY DEF LaunchInv, FileTypes
  <2>4. /\ mode \in Modes /\ pc \in 1 .. Len(Program[mode])
        /\ outcome \in {"idle", "running", "done", "failed"}
    BY DEF LaunchInv, ControlTypes
  <2>5. calls \in [Roles -> {"none", "signed", "outrun", "paid", "refused"}]
    BY DEF LaunchInv, FundingTypes
  <2> QED BY <2>1, <2>2, <2>3, <2>4, <2>5 DEF TypeOK, Addresses
<1> QED BY <1>1, LaunchHolds, PTL

(* hardhat.config.ts, launch-fhevm.sh, taskDeploy.ts: a launch that reports    *)
(* success has its gateway at the address that was computed before, with its  *)
(* relayer; a test run or an undisturbed script also has the ACL told of the  *)
(* executor and the gateway of the KMS verifier, both in place.              *)
THEOREM SuccessIsWired ==
  Spec => []LaunchedIsWired
<1>1. LaunchInv => LaunchedIsWired
  <2> SUFFICES ASSUME LaunchInv, outcome = "done"
               PROVE  /\ GatewayServes(Net)
                      /\ mode = "test" \/ sound => CoreIsWired(Net)
    BY DEF LaunchedIsWired
  <2>1. /\ Passed(Deploy["gateway"]) /\ Passed(<<"addRelayer">>)
        /\ mode # "fund" => \A c \in CoreContracts : Passed(Deploy[c])
    BY DonePasses DEF LaunchInv
  <2>2. GatewayServes(Net)
    BY <2>1 DEF LaunchInv, DeploymentsStand, GatewayServes
  <2>3. ASSUME mode = "test" \/ sound PROVE CoreIsWired(Net)
    <3>1. Sure /\ mode # "fund"
      BY <2>3 DEF LaunchInv, ControlTypes, Sure
    <3>2. \A c \in {"acl", "exec", "kms"} : Passed(Deploy[c])
      BY <2>1, <3>1 DEF CoreContracts
    <3>3. \A c \in {"acl", "exec", "kms"} : env[c] = Precomputed(c) /\ InPlace(Net, c) # {}
      BY <3>1, <3>2 DEF LaunchInv, DeploymentsStand
    <3>4. /\ \A d \in InPlace(Net, "acl") : d.told = env["exec"]
          /\ \A d \in InPlace(Net, "gateway") : d.told = env["kms"]
      BY <2>1, <3>1, <3>2 DEF LaunchInv, DeploymentsStand
    <3> QED BY <3>3, <3>4 DEF CoreIsWired
  <2> QED BY <2>2, <2>3
<1> QED BY <1>1, LaunchHolds, PTL

(* hardhat.config.ts compiles before it computes: once a launch has written   *)
(* every file, a test run that succeeds was compiled with the addresses at    *)
(* which its contracts are.                                                  *)
THEOREM TestsAreCompiled ==
  Spec => []TestsRunAgainstDeployed
<1>1. LaunchInv => TestsRunAgainstDeployed
  <2> SUFFICES ASSUME LaunchInv, outcome = "done", mode = "test", settled = "yes"
               PROVE  /\ \A c \in Contracts : built["contracts"][c] = Precomputed(c)
                      /\ \A d \in InPlace("hardhat", "exec") :
                           d.constants["acl"] = Precomputed("acl")
    BY DEF TestsRunAgainstDeployed
  <2>1. Passed(<<"build", "contracts">>) /\ Passed(<<"build", "copy">>)
    BY DonePasses DEF LaunchInv
  <2>2. \A u \in {"contracts", "copy"} : \A c \in Contracts : built[u][c] = Precomputed(c)
    BY <2>1 DEF LaunchInv, SettledIsCompiled
  <2>3. \A d \in InPlace("hardhat", "exec") : d.constants = built["copy"]
    BY DEF LaunchInv, SettledIsCompiled, InPlace, CodeAt, Live
  <2> QED BY <2>2, <2>3, ContractNames
<1> QED BY <1>1, LaunchHolds, PTL

(* taskDeploy.ts getCoin: three calls draw on one faucet whose transactions    *)
(* outrun each other; when launchFhevm goes on, every account has its coin or *)
(* the faucet gave another answer than the mismatch that is looked for.      *)
THEOREM CoinsArriveInTime ==
  Spec => []EveryAccountGetsItsCoin
<1>1. LaunchInv => EveryAccountGetsItsCoin
  <2> SUFFICES ASSUME LaunchInv, Running, mode = "fund", pc > 1,
                      NEW r \in Roles, calls[r] # "refused"
               PROVE  Account[r] \in chain["node"].funded \cup pending
    BY DEF EveryAccountGetsItsCoin
  <2>1. pc \in 1 .. 4 /\ (Passed(<<"fund">>) <=> 1 < pc)
    BY FundPlaces DEF LaunchInv
  <2>2. Passed(<<"fund">>)
    BY <2>1
  <2>3. calls[r] = "paid"
    BY <2>2 DEF LaunchInv, CoinsArrive
  <2> QED BY <2>3 DEF LaunchInv, CoinsArrive
<1> QED BY <1>1, LaunchHolds, PTL
=============================================================================
