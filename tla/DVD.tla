-------------------------------- MODULE DVD ---------------------------------
(***************************************************************************)
(* Two tokens, the contract that swaps them (DVDTransferManager.sol), the   *)
(* script that demonstrates a swap (scripts/executeDVD.ts), and everybody   *)
(* else.                                                                   *)
(*                                                                         *)
(* Each token is an instance of module Token; a call of the manager that    *)
(* calls both tokens is the conjunction of their steps, for it is one       *)
(* transaction: when one of them reverts nothing happens.  But a token      *)
(* reverts only on what it can see.  Amounts are encrypted, and a           *)
(* transferFrom that may not move them moves zero and returns true.         *)
(*                                                                         *)
(* The script is a process: it sends one transaction after the other, as    *)
(* the agent, as Alice and as Bob, and others come between.                 *)
(***************************************************************************)
EXTENDS EncryptedWords, Sequences

CONSTANTS
  NumWallets,
  Alice, Bob,       \* the wallets of the script
  Manager,          \* the DVDTransferManager
  Owner,            \* its owner
  Agent,            \* the agent of both tokens (tokenAgent)
  MaxDeliveries,    \* bound: deliveries, beyond which only the script initiates one
  MaxOthers,        \* bound: steps of anybody but the script
  Traded            \* bound: the amounts that they transfer, freeze and swap

Wallets == 1 .. NumWallets

(* The words hold the 1000 tokens of the script (two units of 500 here).     *)
ASSUME DVDAssumption ==
  /\ NumWallets \in Nat \ {0} /\ WordSize > 2
  /\ {Alice, Bob} \subseteq Wallets
  /\ MaxDeliveries \in Nat /\ MaxOthers \in Nat
  /\ Traded \subseteq Amounts

VARIABLES
  balancesA, frozenTokensA, frozenA, allowancesA, totalSupplyA, writtenA, pausedA,
  agentsA, registeredA, verifiedA, overflowedA,
  balancesB, frozenTokensB, frozenB, allowancesB, totalSupplyB, writtenB, pausedB,
  agentsB, registeredB, verifiedB, overflowedB,
  readable,         \* the balances that their wallet may decrypt, as token and wallet
  deliveries,       \* every delivery initiated; the transferID is its place, as it hashes txNonce
  open,             \* the places with an entry in token1ToDeliver and token2ToDeliver
  step, outcome,    \* the script: its next step, how it ended
  transferId,       \* the script: what initiateTransfer returned
  others,           \* steps of others, against the bound
  calm              \* history: only the script has acted, and compliance let all of it through

varsA == <<balancesA, frozenTokensA, frozenA, allowancesA, totalSupplyA, writtenA, pausedA,
           agentsA, registeredA, verifiedA, overflowedA>>
varsB == <<balancesB, frozenTokensB, frozenB, allowancesB, totalSupplyB, writtenB, pausedB,
           agentsB, registeredB, verifiedB, overflowedB>>
managerVars == <<deliveries, open>>
scriptVars  == <<step, outcome, transferId>>
vars == <<varsA, varsB, readable, managerVars, scriptVars, others, calm>>

A == INSTANCE Token WITH
       Spenders <- {Manager}, Operators <- {Agent}, FeeModule <- Manager, Collector <- Alice, Fees <- {0},
       balances <- balancesA, frozenTokens <- frozenTokensA, frozen <- frozenA,
       allowances <- allowancesA, totalSupply <- totalSupplyA, written <- writtenA,
       paused <- pausedA, agents <- agentsA, registered <- registeredA, verified <- verifiedA,
       overflowed <- overflowedA

B == INSTANCE Token WITH
       Spenders <- {Manager}, Operators <- {Agent}, FeeModule <- Manager, Collector <- Alice, Fees <- {0},
       balances <- balancesB, frozenTokens <- frozenTokensB, frozen <- frozenB,
       allowances <- allowancesB, totalSupply <- totalSupplyB, written <- writtenB,
       paused <- pausedB, agents <- agentsB, registered <- registeredB, verified <- verifiedB,
       overflowed <- overflowedB

Tokens == {"A", "B"}

(* A token of these two charges no fee: compliance lets an amount through,    *)
(* refuses it when asked, or when told.  (Both is as when told.)            *)
Answers == {a \in [can : BOOLEAN, done : BOOLEAN, charges : {FALSE}, fee : {0}, feeDone : {TRUE}] :
              a.can \/ a.done}
Yes == [can |-> TRUE, done |-> TRUE, charges |-> FALSE, fee |-> 0, feeDone |-> TRUE]

(* _transfer lets the receiver decrypt its new balance and not the sender;   *)
(* _mint and _burn let the wallet.                                          *)
ReadableAfter(readers, token, from, to) == (readers \cup {<<token, to>>}) \ {<<token, from>>}
-----------------------------------------------------------------------------
(* The manager.                                                            *)

Delivery == [maker : Wallets, token1 : Tokens, amount1 : Amounts,
             taker : Wallets, token2 : Tokens, amount2 : Amounts]

(* Mutant: the transferID hashes the nonce after it was increased.           *)
InitiateNextNonce(d) ==
  /\ deliveries' = Append(deliveries, d)
  /\ open' = open \cup {Len(deliveries') + 1}
  /\ UNCHANGED <<varsA, varsB, readable>>

(* initiateDVDTransfer: whatever its amounts, which nobody can compare with   *)
(* anything.                                                                *)
InitiateDVDTransfer(d) ==
  /\ deliveries' = Append(deliveries, d)
  /\ open' = open \cup {Len(deliveries) + 1}
  /\ UNCHANGED <<varsA, varsB, readable>>

IsTREXAgent(caller) == caller \in agentsA \cup agentsB

TransferFrom(token, from, to, amount, answer) ==
  IF token = "A" THEN A!TransferFrom(Manager, from, to, amount, answer)
                 ELSE B!TransferFrom(Manager, from, to, amount, answer)

(* Mutant: the delivery is not deleted.                                     *)
TakeKeepsDelivery(id, caller, answer1, answer2) ==
  LET d == deliveries[id]
  IN  /\ id \in open
      /\ caller = d.taker \/ IsTREXAgent(caller)
      /\ TransferFrom(d.token1, d.maker, d.taker, d.amount1, answer1)
      /\ TransferFrom(d.token2, d.taker, d.maker, d.amount2, answer2)
      /\ readable' = ReadableAfter(ReadableAfter(readable, d.token1, d.maker, d.taker),
                                   d.token2, d.taker, d.maker)
      /\ UNCHANGED managerVars

(* takeDVDTransfer: the taker, or an agent of a token, has both tokens move   *)
(* what was agreed, with the approvals that maker and taker have given.      *)
TakeDVDTransfer(id, caller, answer1, answer2) ==
  LET d == deliveries[id]
  IN  /\ id \in open
      /\ caller = d.taker \/ IsTREXAgent(caller)
      /\ TransferFrom(d.token1, d.maker, d.taker, d.amount1, answer1)
      /\ TransferFrom(d.token2, d.taker, d.maker, d.amount2, answer2)
      /\ readable' = ReadableAfter(ReadableAfter(readable, d.token1, d.maker, d.taker),
                                   d.token2, d.taker, d.maker)
      /\ open' = open \ {id}
      /\ UNCHANGED deliveries

CancelDVDTransfer(id, caller) ==
  LET d == deliveries[id]
  IN  /\ id \in open
      /\ caller \in {d.taker, d.maker, Owner} \/ IsTREXAgent(caller)
      /\ open' = open \ {id}
      /\ UNCHANGED <<deliveries, varsA, varsB, readable>>

-----------------------------------------------------------------------------
(* The script: 1000 tokens of each kind are minted, then 1000 A are swapped   *)
(* for 500 B.  Amounts are counted in units of 500.                         *)
Thousand    == 2
FiveHundred == 1

Mint(token, wallet, amount, answer) ==
  /\ IF token = "A" THEN A!Mint(wallet, amount, answer) /\ UNCHANGED varsB
                    ELSE B!Mint(wallet, amount, answer) /\ UNCHANGED varsA
  /\ readable' = readable \cup {<<token, wallet>>}
  /\ UNCHANGED managerVars

Approve(token, wallet, amount) ==
  /\ IF token = "A" THEN A!Approve(wallet, Manager, amount) /\ UNCHANGED varsB
                    ELSE B!Approve(wallet, Manager, amount) /\ UNCHANGED varsA
  /\ UNCHANGED <<readable, managerVars>>

TheSwap == [maker |-> Alice, token1 |-> "A", amount1 |-> Thousand,
            taker |-> Bob, token2 |-> "B", amount2 |-> FiveHundred]

(* Mutant: the delivery is taken before the taker's approval.               *)
TransactionsTakeFirst == <<"mintA", "readAliceA", "mintB", "readBobB",
                           "approveA", "initiate", "take", "approveB">>

Transactions == <<"mintA", "readAliceA", "mintB", "readBobB",
                  "approveA", "initiate", "approveB", "take">>

Results == <<"readBobA", "readBobB", "readAliceA", "readAliceB">>

Script == Transactions \o Results

Transaction(name, answer1, answer2) ==
  \/ name = "mintA" /\ Mint("A", Alice, Thousand, answer1)
  \/ name = "mintB" /\ Mint("B", Bob, Thousand, answer1)
  \/ name = "approveA" /\ Approve("A", Alice, Thousand)
  \/ name = "approveB" /\ Approve("B", Bob, FiveHundred)
  \/ name = "initiate" /\ InitiateDVDTransfer(TheSwap)
  \/ name = "take" /\ TakeDVDTransfer(transferId, Bob, answer1, answer2)

Running == outcome = "running"

Proceed ==
  /\ step' = IF step < Len(Script) THEN step + 1 ELSE step
  /\ outcome' = IF step < Len(Script) THEN "running" ELSE "done"

(* A transaction goes through, whatever it has moved.                       *)
ScriptSends ==
  /\ Running /\ UNCHANGED others
  /\ \E answer1, answer2 \in Answers :
       /\ Transaction(Script[step], answer1, answer2)
       /\ calm' = (calm /\ answer1 = Yes /\ answer2 = Yes)
  /\ transferId' = IF Script[step] = "initiate" THEN Len(deliveries') ELSE transferId
  /\ Proceed

Reads == [readAliceA |-> <<"A", Alice>>, readAliceB |-> <<"B", Alice>>,
          readBobA |-> <<"A", Bob>>, readBobB |-> <<"B", Bob>>]

(* decryptCypher of a balance its wallet may decrypt.                       *)
ScriptDecrypts ==
  /\ Running
  /\ Script[step] \in DOMAIN Reads /\ Reads[Script[step]] \in readable
  /\ Proceed
  /\ UNCHANGED <<varsA, varsB, readable, managerVars, transferId, others, calm>>

(* A transaction that reverts and a decryption that is refused throw: the    *)
(* script logs the error and ends.                                          *)
ScriptThrows ==
  /\ Running
  /\ IF Script[step] \in DOMAIN Reads
     THEN Reads[Script[step]] \notin readable
     ELSE ~ENABLED Transaction(Script[step], Yes, Yes)
  /\ outcome' = "failed"
  /\ UNCHANGED <<varsA, varsB, readable, managerVars, step, transferId, others, calm>>

ScriptStep == ScriptSends \/ ScriptDecrypts \/ ScriptThrows
-----------------------------------------------------------------------------
Init ==
  /\ A!Init!1 /\ A!Init!2 /\ A!Init!3 /\ A!Init!4 /\ A!Init!5 /\ A!Init!6
  /\ B!Init!1 /\ B!Init!2 /\ B!Init!3 /\ B!Init!4 /\ B!Init!5 /\ B!Init!6
  /\ pausedA = FALSE /\ agentsA = {Agent} /\ registeredA = Wallets
  /\ pausedB = FALSE /\ agentsB = {Agent} /\ registeredB = Wallets
  /\ verifiedA = Wallets /\ overflowedA = FALSE
  /\ verifiedB = Wallets /\ overflowedB = FALSE
  /\ readable = {} /\ deliveries = <<>> /\ open = {}
  /\ step = 1 /\ outcome = "running" /\ transferId = 0
  /\ others = 0 /\ calm = TRUE

(* What a holder or an agent of one token does to it.  (A mint, a burn and a *)
(* forced transfer change readable as _mint, _burn and _transfer do.)       *)
TokenStep ==
  \/ /\ \E from, to \in Wallets, amount \in Traded, answer \in Answers :
          \/ /\ A!Transfer(from, to, amount, answer) /\ UNCHANGED varsB
             /\ readable' = ReadableAfter(readable, "A", from, to)
          \/ /\ B!Transfer(from, to, amount, answer) /\ UNCHANGED varsA
             /\ readable' = ReadableAfter(readable, "B", from, to)
     /\ UNCHANGED managerVars
  \/ /\ \E w \in Wallets, amount \in Traded :
          \/ A!FreezePartialTokens(w, amount) /\ UNCHANGED varsB
          \/ B!FreezePartialTokens(w, amount) /\ UNCHANGED varsA
     /\ UNCHANGED <<readable, managerVars>>
  \/ /\ \E w \in Wallets :
          \/ (A!ClaimsChange(w) \/ A!SetAddressFrozen(w, TRUE)) /\ UNCHANGED varsB
          \/ (B!ClaimsChange(w) \/ B!SetAddressFrozen(w, TRUE)) /\ UNCHANGED varsA
     /\ UNCHANGED <<readable, managerVars>>
  \/ \E token \in Tokens, w \in Wallets, amount \in Amounts : Approve(token, w, amount)

ManagerStep ==
  \/ /\ Len(deliveries) < MaxDeliveries
     /\ \E d \in Delivery :
          /\ d.token1 # d.token2 /\ {d.amount1, d.amount2} \subseteq Traded
          /\ InitiateDVDTransfer(d)
  \/ \E id \in open, caller \in {Agent, Owner} :
       \/ CancelDVDTransfer(id, caller)
       \/ \E answer1, answer2 \in Answers : TakeDVDTransfer(id, caller, answer1, answer2)

OthersStep ==
  /\ others < MaxOthers
  /\ TokenStep \/ ManagerStep
  /\ others' = others + 1 /\ calm' = FALSE
  /\ UNCHANGED scriptVars

Next == ScriptStep \/ OthersStep

(* The script awaits each transaction and goes on: as long as it runs, it    *)
(* goes to its next step or throws.  (One of the two it can do in every such *)
(* state, so this is weak fairness of ScriptStep.)                          *)
ScriptAdvances ==
  /\ Running
  /\ Proceed \/ (outcome' = "failed" /\ UNCHANGED step)

Spec == Init /\ [][Next]_vars /\ WF_<<step, outcome>>(ScriptAdvances)
-----------------------------------------------------------------------------
(* Properties.                                                             *)

DVDTypeOK ==
  /\ A!TypeOK /\ B!TypeOK
  /\ readable \subseteq Tokens \X Wallets
  /\ deliveries \in Seq(Delivery) /\ open \subseteq DOMAIN deliveries
  /\ step \in DOMAIN Script /\ outcome \in {"running", "done", "failed"}
  /\ transferId \in DOMAIN deliveries \cup {0}

Deliveries == INSTANCE Settlement WITH
  Assets <- Tokens, Owners <- Wallets,
  holdings <- [A |-> balancesA, B |-> balancesB],
  approved <- [A |-> [w \in Wallets |-> allowancesA[w][Manager]],
               B |-> [w \in Wallets |-> allowancesB[w][Manager]]],
  agreements <- [n \in DOMAIN deliveries |->
    [maker |-> deliveries[n].maker, asset1 |-> deliveries[n].token1, amount1 |-> deliveries[n].amount1,
     taker |-> deliveries[n].taker, asset2 |-> deliveries[n].token2, amount2 |-> deliveries[n].amount2]],
  pending <- open

(* Every delivery is settled or cancelled at most once; each of its sides is  *)
(* delivered in full or not at all, out of what its giver holds and within    *)
(* the giver's allowance as the token has it, whatever others do to the       *)
(* tokens, to the approvals and with other deliveries; and nothing but a      *)
(* settlement spends an approval.                                           *)
DeliversAsAgreed == Deliveries!Spec

Swapped ==
  /\ balancesA[Alice] = 0 /\ balancesA[Bob] = Thousand
  /\ balancesB[Alice] = FiveHundred /\ balancesB[Bob] = Thousand - FiveHundred

(* Left alone, and with compliance willing, the script comes to swap 1000 A   *)
(* for 500 B, from approvals in the right amounts and in the right order.    *)
ScriptSwaps == (Running /\ calm) ~> (Swapped \/ ~calm)
=============================================================================
