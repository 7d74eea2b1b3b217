----------------------------- MODULE Compliance -----------------------------
(***************************************************************************)
(* The modular compliance of the token                                      *)
(* (contracts/compliance/modular/ModularCompliance.sol) with three of its   *)
(* modules: MaxBalance keeps a book of what each identity holds and caps it, *)
(* SupplyLimit caps the supply, TransferFees charges the receiver of a       *)
(* transfer by calling the token back.                                      *)
(*                                                                         *)
(* The token asks every module before it moves an amount (moduleCheck) and   *)
(* then tells every module of the amount it is about to move                 *)
(* (moduleTransferAction, moduleMintAction, moduleBurnAction), in the order  *)
(* of the list of modules; a module that is told may still refuse, after     *)
(* others have taken the move into their books.  The steps of the ledger are *)
(* those of Token, with the answers computed here.                          *)
(***************************************************************************)
EXTENDS Token, Sequences

CONSTANTS
  Identities,           \* the ONCHAINIDs of the investors
  NoIdentity,           \* the zero address: the wallet is not registered
  MaxBalanceModule,     \* the addresses of the modules; the fee module is
  SupplyLimitModule,    \* FeeModule, as in Token
  FullRate              \* the fee rate that stands for 100%

ComplianceModules == {MaxBalanceModule, SupplyLimitModule, FeeModule}

ASSUME ComplianceAssumption ==
  /\ NoIdentity \notin Identities
  /\ MaxBalanceModule # SupplyLimitModule
  /\ FeeModule \notin {MaxBalanceModule, SupplyLimitModule}
  /\ FullRate \in Nat \ {0}
  /\ Fees = Amounts

VARIABLES
  identity,         \* the identity that the registry stores for a wallet
  verifiedIds,      \* the identities that have the claims the token requires
  modules,          \* _modules: the bound modules, in the order they are told
  maxBalance,       \* _maxBalance of MaxBalance
  idBalance,        \* _IDBalance of MaxBalance
  bookedIds,        \* the identities whose entry in _IDBalance was ever written
  presetDone,       \* _compliancePresetStatus of MaxBalance
  supplyLimit,      \* _supplyLimits of SupplyLimit
  supplyKnown,      \* SupplyLimit may access the ciphertext of the supply
  feeRate,          \* the rate in _fees of TransferFees
  strayed           \* history: tokens have got past the books of MaxBalance

bookVars == <<idBalance, bookedIds>>
ruleVars == <<modules, maxBalance, presetDone, supplyLimit, supplyKnown, feeRate>>
complianceVars == <<identity, verifiedIds, ruleVars, bookVars, strayed>>

Bound(m) == \E i \in DOMAIN modules : modules[i] = m

(* Is the fee taken, and booked, before MaxBalance is told of the transfer?  *)
FeeComesFirst ==
  \E i, j \in DOMAIN modules : i < j /\ modules[i] = FeeModule /\ modules[j] = MaxBalanceModule

(* MaxBalance reverts for a wallet without an identity.                     *)
Identified(ids, wallets) ==
  Bound(MaxBalanceModule) => \A w \in wallets : ids[w] # NoIdentity

(* What an identity really holds: the balances of its wallets.              *)
Holdings(ids, bal, id) == Total([w \in Wallets |-> IF ids[w] = id THEN bal[w] ELSE 0])

-----------------------------------------------------------------------------
(* Asking the modules.                                                     *)

(* Mutant: the maximum is compared with the amount alone.                   *)
WithinMaxByAmount(book, id, v) == v <= maxBalance

WithinMax(book, id, v) == AddWord(book[id], v) <= maxBalance

(* Mutant: the question is left to the moment the module is told.           *)
MayAlwaysReceive(id, v) == TRUE

MayReceive(id, v) ==
  Bound(MaxBalanceModule) => v <= maxBalance /\ WithinMax(idBalance, id, v)

(* Mutant: the supply is compared with the limit before the mint.           *)
MayCreateLate(id, v) ==
  /\ MayReceive(id, v)
  /\ Bound(SupplyLimitModule) => totalSupply <= supplyLimit

MayCreate(id, v) ==
  /\ MayReceive(id, v)
  /\ Bound(SupplyLimitModule) => AddWord(totalSupply, v) <= supplyLimit

(* SupplyLimit adds the supply whatever it is asked about, and reverts       *)
(* without access to it.  A supply that was never written needs no access.   *)
SupplyReadable == Bound(SupplyLimitModule) /\ SupplySlot \in written => supplyKnown

(* Each mint and burn makes a new ciphertext of the supply, and allows it to *)
(* the modules that are bound at that moment.  One that is bound later reads *)
(* nothing, and transfers and mints revert until a burn.                    *)
AllowSupply == supplyKnown' = Bound(SupplyLimitModule)

(* Telling the modules.                                                    *)

(* MaxBalance.moduleTransferAction: does it accept the transfer, and its     *)
(* book afterwards.  It writes the receiver's entry and then reads back the  *)
(* sender's, which is the same one within an identity.                      *)
Accepts(book, id, v) == Bound(MaxBalanceModule) => WithinMax(book, id, v)

(* Mutant: both entries are read before either is written.                  *)
BookedFromCopies(book, from, to, v) ==
  LET saved == Select(WithinMax(book, to, v), v, 0)
  IN  IF Bound(MaxBalanceModule)
      THEN [book EXCEPT ![from] = SubWord(book[from], saved), ![to] = AddWord(book[to], saved)]
      ELSE book

Booked(book, from, to, v) ==
  LET saved    == Select(WithinMax(book, to, v), v, 0)
      credited == [book EXCEPT ![to] = AddWord(book[to], saved)]
  IN  IF Bound(MaxBalanceModule)
      THEN [credited EXCEPT ![from] = SubWord(credited[from], saved)]
      ELSE book

Charges(ids, from, to) ==
  /\ Bound(FeeModule)
  /\ feeRate > 0
  /\ ids[from] # ids[to]
  /\ Collector \notin {from, to}

FeeOf(v) == ((v * feeRate) % WordSize) \div FullRate

(* Everything that happens while the modules are told of a transfer of v:    *)
(* the answers the token gets, and what is left in the book.  The fee is a   *)
(* forced transfer of its own, of which the modules are told too.           *)
Told(ids, known, from, to, can, v) ==
  LET charges == Charges(ids, from, to)
      fee     == IF charges THEN FeeOf(v) ELSE 0
      paid    == Covered(Current, to, fee)
      nested  == charges /\ Collector \in known
      WithFee(book) == IF nested THEN Booked(book, ids[to], ids[Collector], paid) ELSE book
      WithMove(book) == Booked(book, ids[from], ids[to], v)
      beforeMove == IF FeeComesFirst THEN WithFee(idBalance) ELSE idBalance
      beforeFee  == IF FeeComesFirst THEN idBalance ELSE WithMove(idBalance)
  IN  [answer |->
         [can     |-> can,
          done    |-> Accepts(beforeMove, ids[to], v),
          charges |-> charges,
          fee     |-> fee,
          feeDone |-> fee > 0 /\ nested => Accepts(beforeFee, ids[Collector], paid)],
       book |-> IF FeeComesFirst THEN WithMove(beforeMove) ELSE WithFee(beforeFee),
       ids  |-> {ids[from], ids[to]} \cup (IF nested THEN {ids[Collector]} ELSE {})]

(* forcedTransfer tells nobody when the receiver is not verified.           *)
NotTold ==
  [answer |-> [can |-> TRUE, done |-> TRUE, charges |-> FALSE, fee |-> 0, feeDone |-> TRUE],
   book   |-> idBalance,
   ids    |-> {}]

Keep(told) ==
  /\ idBalance' = told.book
  /\ bookedIds' = IF Bound(MaxBalanceModule) THEN bookedIds \cup told.ids ELSE bookedIds

-----------------------------------------------------------------------------
ComplianceInit ==
  /\ Init
  /\ identity = [w \in Wallets |-> NoIdentity]
  /\ verifiedIds = {}
  /\ modules = <<>>
  /\ maxBalance = 0
  /\ idBalance = [id \in Identities |-> 0]
  /\ bookedIds = {}
  /\ presetDone = FALSE
  /\ supplyLimit = 0
  /\ supplyKnown = FALSE
  /\ feeRate = 0
  /\ strayed = FALSE

(* The operations of the token that involve its compliance.                 *)

(* transfer and transferFrom ask about the amount that the sender can cover, *)
(* and tell of the amount that the answer leaves.                           *)
Asked(from, to, covered) ==
  LET can == MayReceive(identity[to], covered)
  IN  Told(identity, verified, from, to, can, Select(can, covered, 0))

CompliantTransfer(from, to, amount) ==
  LET told == Asked(from, to, Select(amount <= FreeTokens(Current, from), amount, 0))
  IN  /\ to \in verified
      /\ SupplyReadable
      /\ Identified(identity, {from, to})
      /\ Transfer(from, to, amount, told.answer)
      /\ Keep(told)
      /\ UNCHANGED <<identity, verifiedIds, ruleVars, strayed>>

CompliantTransferFrom(spender, from, to, amount) ==
  LET told == Asked(from, to, Select(Spendable(spender, from, amount), amount, 0))
  IN  /\ to \in verified
      /\ SupplyReadable
      /\ Identified(identity, {from, to})
      /\ TransferFrom(spender, from, to, amount, told.answer)
      /\ Keep(told)
      /\ UNCHANGED <<identity, verifiedIds, ruleVars, strayed>>

CompliantForcedTransfer(from, to, amount) ==
  LET told == IF to \in verified
              THEN Told(identity, verified, from, to, TRUE, Covered(Current, from, amount))
              ELSE NotTold
  IN  /\ to \in verified => Identified(identity, {from, to})
      /\ ForcedTransfer(from, to, amount, told.answer)
      /\ Keep(told)
      /\ UNCHANGED <<identity, verifiedIds, ruleVars, strayed>>

(* The agent names the identity, which may be another than the lost wallet's; *)
(* the forced transfer finds both wallets registered.                       *)
CompliantRecovery(lost, new, id) ==
  LET ids   == [identity EXCEPT ![new] = id]
      valid == id \in verifiedIds
      known == IF valid THEN verified \cup {new} ELSE verified
      told  == IF valid THEN Told(ids, known, lost, new, TRUE, balances[lost]) ELSE NotTold
  IN  /\ valid => Identified(ids, {lost, new})
      /\ RecoverAddress(lost, new, valid, told.answer)
      /\ Keep(told)
      /\ identity' = [ids EXCEPT ![lost] = NoIdentity]
      /\ strayed' = (strayed \/ balances'[lost] > 0 \/ balances[new] > 0)
      /\ UNCHANGED <<verifiedIds, ruleVars>>

CompliantMint(to, amount) ==
  LET can == MayCreate(identity[to], amount)
      v   == Select(can, amount, 0)
      ok  == Accepts(idBalance, identity[to], v)
      answer == [NotTold.answer EXCEPT !.can = can, !.done = ok]
  IN  /\ to \in verified
      /\ SupplyReadable
      /\ Mint(to, amount, answer)
      /\ IF Bound(MaxBalanceModule)
         THEN /\ idBalance' = [idBalance EXCEPT
                   ![identity[to]] = AddWord(idBalance[identity[to]], Select(ok, v, 0))]
              /\ bookedIds' = bookedIds \cup {identity[to]}
         ELSE UNCHANGED bookVars
      /\ AllowSupply
      /\ UNCHANGED <<identity, verifiedIds, modules, maxBalance, presetDone, supplyLimit, feeRate,
                     strayed>>

(* MaxBalance.moduleBurnAction selects the entry, which must have been       *)
(* written; its test for a negative result is never true.                   *)
CompliantBurn(w, amount) ==
  /\ Identified(identity, {w})
  /\ Burn(w, amount)
  /\ IF Bound(MaxBalanceModule)
     THEN /\ identity[w] \in bookedIds
          /\ idBalance' = [idBalance EXCEPT
               ![identity[w]] = SubWord(idBalance[identity[w]], Covered(Current, w, amount))]
     ELSE UNCHANGED idBalance
  /\ AllowSupply
  /\ UNCHANGED <<identity, verifiedIds, modules, maxBalance, presetDone, supplyLimit, feeRate,
                 bookedIds, strayed>>

-----------------------------------------------------------------------------
(* The registry.  None of its operations tells the compliance.              *)

Register(w, id) ==
  /\ RegisterIdentity(w, id \in verifiedIds)
  /\ identity' = [identity EXCEPT ![w] = id]
  /\ strayed' = (strayed \/ balances[w] > 0)
  /\ UNCHANGED <<verifiedIds, ruleVars, bookVars>>

UpdateIdentity(w, id) ==
  /\ w \in registered
  /\ SetIdentityRegistry(registered,
       IF id \in verifiedIds THEN verified \cup {w} ELSE verified \ {w})
  /\ identity' = [identity EXCEPT ![w] = id]
  /\ strayed' = (strayed \/ (balances[w] > 0 /\ id # identity[w]))
  /\ UNCHANGED <<verifiedIds, ruleVars, bookVars>>

Deregister(w) ==
  /\ DeleteIdentity(w)
  /\ identity' = [identity EXCEPT ![w] = NoIdentity]
  /\ strayed' = (strayed \/ balances[w] > 0)
  /\ UNCHANGED <<verifiedIds, ruleVars, bookVars>>

(* An identity gains or loses the claims that the token requires.           *)
ClaimsOf(id) ==
  LET ids == IF id \in verifiedIds THEN verifiedIds \ {id} ELSE verifiedIds \cup {id}
  IN  /\ verifiedIds' = ids
      /\ SetIdentityRegistry(registered, {w \in registered : identity[w] \in ids})
      /\ UNCHANGED <<identity, ruleVars, bookVars, strayed>>

-----------------------------------------------------------------------------
(* The owner of the compliance: the list of modules, and their settings,     *)
(* which callModuleFunction passes on to bound modules only.                *)

AddModule(m) ==
  /\ ~Bound(m)
  /\ m = MaxBalanceModule => presetDone
  /\ m = FeeModule => FeeModule \in agents
  /\ modules' = Append(modules, m)
  /\ strayed' = IF m = MaxBalanceModule
                THEN idBalance # [id \in Identities |-> Holdings(identity, balances, id)]
                ELSE strayed
  /\ UNCHANGED <<identity, verifiedIds, maxBalance, presetDone, supplyLimit, supplyKnown, feeRate,
                 bookVars>>
  /\ UNCHANGED vars

(* Mutant: the last module is copied, not moved.                            *)
RemoveModuleKeepsLast(m) ==
  /\ \E i \in DOMAIN modules :
       /\ modules[i] = m
       /\ modules' = [modules EXCEPT ![i] = modules[Len(modules)]]
  /\ UNCHANGED <<identity, verifiedIds, maxBalance, presetDone, supplyLimit, supplyKnown, feeRate,
                 bookVars, strayed>>
  /\ UNCHANGED vars

(* The last module takes the place of the one that is removed.              *)
RemoveModule(m) ==
  /\ \E i \in DOMAIN modules :
       /\ modules[i] = m
       /\ modules' = SubSeq([modules EXCEPT ![i] = modules[Len(modules)]], 1, Len(modules) - 1)
  /\ UNCHANGED <<identity, verifiedIds, maxBalance, presetDone, supplyLimit, supplyKnown, feeRate,
                 bookVars, strayed>>
  /\ UNCHANGED vars

(* Mutant: a book that is in use can be preset.                             *)
PreSetWhileBound(id, amount) ==
  /\ idBalance' = [idBalance EXCEPT ![id] = amount]
  /\ bookedIds' = bookedIds \cup {id}
  /\ UNCHANGED <<identity, verifiedIds, ruleVars, strayed>>
  /\ UNCHANGED vars

PreSetModuleState(id, amount) ==
  /\ ~Bound(MaxBalanceModule)
  /\ idBalance' = [idBalance EXCEPT ![id] = amount]
  /\ bookedIds' = bookedIds \cup {id}
  /\ UNCHANGED <<identity, verifiedIds, ruleVars, strayed>>
  /\ UNCHANGED vars

PresetCompleted ==
  /\ presetDone' = TRUE
  /\ UNCHANGED <<identity, verifiedIds, modules, maxBalance, supplyLimit, supplyKnown, feeRate, bookVars,
                 strayed>>
  /\ UNCHANGED vars

SetMaxBalance(max) ==
  /\ Bound(MaxBalanceModule)
  /\ maxBalance' = max
  /\ UNCHANGED <<identity, verifiedIds, modules, presetDone, supplyLimit, supplyKnown, feeRate, bookVars,
                 strayed>>
  /\ UNCHANGED vars

SetSupplyLimit(limit) ==
  /\ Bound(SupplyLimitModule)
  /\ supplyLimit' = limit
  /\ UNCHANGED <<identity, verifiedIds, modules, maxBalance, presetDone, supplyKnown, feeRate, bookVars,
                 strayed>>
  /\ UNCHANGED vars

SetFee(rate) ==
  /\ Bound(FeeModule)
  /\ Collector \in verified
  /\ feeRate' = rate
  /\ UNCHANGED <<identity, verifiedIds, modules, maxBalance, presetDone, supplyLimit, supplyKnown, bookVars,
                 strayed>>
  /\ UNCHANGED vars

-----------------------------------------------------------------------------
CompliantStep ==
  \/ \E from, to \in Wallets, amount \in Amounts :
       \/ CompliantTransfer(from, to, amount)
       \/ CompliantForcedTransfer(from, to, amount)
       \/ \E s \in Spenders : CompliantTransferFrom(s, from, to, amount)
  \/ \E lost, new \in Wallets, id \in Identities : CompliantRecovery(lost, new, id)
  \/ \E w \in Wallets, amount \in Amounts : CompliantMint(w, amount) \/ CompliantBurn(w, amount)

IdentityStep ==
  \/ \E w \in Wallets, id \in Identities : Register(w, id) \/ UpdateIdentity(w, id)
  \/ \E w \in Wallets : Deregister(w)
  \/ \E id \in Identities : ClaimsOf(id)

OwnerStep ==
  \/ \E m \in ComplianceModules : AddModule(m) \/ RemoveModule(m)
  \/ \E id \in Identities, amount \in Amounts : PreSetModuleState(id, amount)
  \/ PresetCompleted
  \/ \E amount \in Amounts : SetMaxBalance(amount) \/ SetSupplyLimit(amount)
  \/ \E rate \in 0 .. FullRate : SetFee(rate)

(* The operations of the token that its compliance hears nothing of.        *)
SilentStep ==
  /\ \/ AllowanceStep \/ RoleStep \/ Pause \/ Unpause
     \/ \E w \in Wallets, freeze \in BOOLEAN : SetAddressFrozen(w, freeze)
     \/ \E w \in Wallets, amount \in Amounts :
          FreezePartialTokens(w, amount) \/ UnfreezePartialTokens(w, amount)
  /\ UNCHANGED complianceVars

ComplianceNext == CompliantStep \/ IdentityStep \/ OwnerStep \/ SilentStep

ComplianceSpec == ComplianceInit /\ [][ComplianceNext]_<<vars, complianceVars>>

-----------------------------------------------------------------------------
(* Properties.                                                             *)

(* Types; and the registry the ledger sees is the one of the identities: a   *)
(* wallet is verified exactly if the identity stored for it is.             *)
ComplianceTypeOK ==
  /\ identity \in [Wallets -> Identities \cup {NoIdentity}]
  /\ registered = {w \in Wallets : identity[w] # NoIdentity}
  /\ verified = {w \in Wallets : identity[w] \in verifiedIds}
  /\ verifiedIds \subseteq Identities
  /\ modules \in Seq(ComplianceModules)
  /\ \A i, j \in DOMAIN modules : modules[i] = modules[j] => i = j
  /\ maxBalance \in Amounts /\ supplyLimit \in Amounts
  /\ idBalance \in [Identities -> Amounts]
  /\ bookedIds \subseteq Identities
  /\ feeRate \in 0 .. FullRate
  /\ {presetDone, strayed, supplyKnown} \subseteq BOOLEAN

(* MaxBalance never sees a balance: it follows what it is told.  While it is *)
(* bound, its book says what each identity holds, whatever the order of the  *)
(* modules and although a fee is booked in the middle of a transfer, unless  *)
(* the registry or a recovery has moved tokens past it.                     *)
BookIsWhatIdentitiesHold ==
  Bound(MaxBalanceModule) /\ ~strayed /\ ~overflowed =>
    \A id \in Identities : idBalance[id] = Holdings(identity, balances, id)

(* README: MaxBalance "enforces the limit at the identity level": no step    *)
(* makes what an identity holds grow beyond the maximum, be it by a transfer *)
(* between several of its wallets, a fee, a forced transfer or a mint.       *)
MaxBalanceIsEnforced ==
  [][Bound(MaxBalanceModule) /\ ~strayed' /\ ~overflowed' =>
       \A id \in Identities :
         Holdings(identity', balances', id) > Holdings(identity, balances, id) =>
           Holdings(identity', balances', id) <= maxBalance]_<<vars, complianceVars>>

(* What a holder transfers never costs the receiver anything: a fee is taken *)
(* from the receiver before the tokens arrive, and the transfer is not       *)
(* refused any more after that.                                             *)
ReceiverNeverPaysForNothing ==
  [][~strayed /\ ~overflowed =>
       \A to \in Wallets :
         balances'[to] < balances[to] =>
           ~\E from \in Wallets \ {to}, amount \in Amounts :
              CompliantTransfer(from, to, amount)]_<<vars, complianceVars>>

(* README: SupplyLimit "aims to define the total supply that a token can     *)
(* have": the tokens in circulation do not grow beyond the limit, as long as *)
(* no mint overflows.                                                       *)
SupplyLimitIsEnforced ==
  [][Bound(SupplyLimitModule) /\ ~overflowed' /\ Total(balances') > Total(balances) =>
       Total(balances') <= supplyLimit]_<<vars, complianceVars>>

=============================================================================
