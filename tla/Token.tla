------------------------------- MODULE Token --------------------------------
(***************************************************************************)
(* The ledger of the security token (contracts/token/Token.sol): balances, *)
(* partial and full freezes, allowances, supply, pause, agents, and what    *)
(* the token sees of the identity registry.                                 *)
(*                                                                         *)
(* A step is one transaction that did not revert, with every nested call it *)
(* makes; a batch function is several such steps in a row, which no other   *)
(* transaction can come between.  The compliance contract is reduced here   *)
(* to its answers: whether it lets an amount through (canTransfer), whether *)
(* its modules accept it when they are told of it (transferred, created),   *)
(* and the fee the fee module takes from the receiver, by calling the token *)
(* back, while it is being told.  Every set of modules gives such answers,  *)
(* so what holds here holds under any of them.                              *)
(***************************************************************************)
EXTENDS EncryptedWords, WalletSums

CONSTANTS
  Spenders,     \* addresses that may be given an allowance
  Operators,    \* addresses that the owner may make agents of the token
  FeeModule,    \* the address of the transfer fee module
  Collector,    \* the wallet that collects transfer fees
  Fees          \* the fees that the fee module may charge

ASSUME TokenAssumption ==
  /\ Collector \in Wallets
  /\ Fees \subseteq Amounts

VARIABLES
  balances,           \* _balances
  frozenTokens,       \* _frozenTokens: the part of a balance that is frozen
  frozen,             \* _frozen: the wallets frozen as a whole
  allowances,         \* _allowances[owner][spender]
  totalSupply,        \* _totalSupply
  written,            \* the storage slots that hold a ciphertext, i.e. were computed once
  paused,             \* _tokenPaused
  agents,             \* the Agent role of the token
  registered,         \* the wallets that the identity registry knows
  verified,           \* the wallets for which isVerified answers true
  overflowed          \* history: a mint has carried totalSupply past its word

ledgerVars == <<balances, frozenTokens, totalSupply, written, overflowed>>
registryVars == <<registered, verified>>
vars == <<balances, frozenTokens, frozen, allowances, totalSupply,
          written, paused, agents, registered, verified, overflowed>>

(* What the compliance contract answers to one operation: canTransfer,      *)
(* transferred or created, whether the fee module charges the transfer in   *)
(* between, the fee, and whether the modules accept the transfer of it.     *)
Answers == {a \in [can : BOOLEAN, done : BOOLEAN, charges : BOOLEAN, fee : Fees, feeDone : BOOLEAN] :
              /\ a.fee = 0 => a.feeDone
              /\ ~a.charges => a.fee = 0}

(* The slots of the contract's storage that hold encrypted amounts.  The    *)
(* library computes with an empty slot as with zero, but it cannot select an *)
(* empty slot or grant access to it: such a call reverts.                   *)
SupplySlot           == <<"totalSupply">>
BalanceSlot(w)       == <<"balance", w>>
FrozenSlot(w)        == <<"frozenTokens", w>>
AllowanceSlot(w, s)  == <<"allowance", w, s>>

Slots == {SupplySlot} \cup {BalanceSlot(w) : w \in Wallets} \cup {FrozenSlot(w) : w \in Wallets}
           \cup {AllowanceSlot(w, s) : w \in Wallets, s \in Spenders}

-----------------------------------------------------------------------------
(* The steps that several operations of the token share.  A ledger is a     *)
(* record of the balances and the frozen amounts, so that nested calls can  *)
(* be composed.                                                             *)

Ledger == [bal : [Wallets -> Amounts], frozen : [Wallets -> Amounts]]

Current == [bal |-> balances, frozen |-> frozenTokens]

(* Mutant: both balances are read before either is written.                 *)
MovedFromCopies(bal, from, to, v) ==
  [bal EXCEPT ![from] = SubWord(bal[from], v), ![to] = AddWord(bal[to], v)]

(* _transfer credits the receiver first and then reads the sender's balance *)
(* back from storage: a transfer to oneself leaves the balance as it was.   *)
Moved(bal, from, to, v) ==
  LET credited == [bal EXCEPT ![to] = AddWord(bal[to], v)]
  IN  [credited EXCEPT ![from] = SubWord(credited[from], v)]

FreeTokens(led, w) == SubWord(led.bal[w], led.frozen[w])

(* The amount a forced transfer or a burn works with: all or nothing.       *)
Covered(led, w, amount) == Select(led.bal[w] < amount, 0, amount)

(* forcedTransfer and burn first release as many frozen tokens of w as are  *)
(* missing for v.                                                           *)
Released(led, w, v) ==
  LET free    == FreeTokens(led, w)
      missing == SubWord(Select(v > free, v, free), free)
  IN  [led EXCEPT !.frozen = [led.frozen EXCEPT ![w] = SubWord(led.frozen[w], missing)]]

(* Mutant: the fee is taken without releasing frozen tokens.                *)
FeeTakenFromFrozen(led, known, to, answer) ==
  IF Collector \in known
  THEN [led EXCEPT !.bal = Moved(led.bal, to, Collector,
         Select(answer.feeDone, Covered(led, to, answer.fee), 0))]
  ELSE led

(* The fee module calls token.forcedTransfer(to, collector, fee) while the  *)
(* transfer it charges for is still in progress: the receiver has not been  *)
(* credited yet.                                                            *)
FeeTaken(led, known, to, answer) ==
  LET v == Covered(led, to, answer.fee)
      r == Released(led, to, v)
  IN  IF Collector \in known
      THEN [r EXCEPT !.bal = Moved(r.bal, to, Collector, Select(answer.feeDone, v, 0))]
      ELSE r

(* The module charges nothing within one identity (one wallet in particular) *)
(* or when the collector is a party, and its call back needs the Agent role. *)
FeeAllowed(from, to, answer, v) ==
  answer.charges => /\ FeeModule \in agents
                    /\ from # to
                    /\ Collector \notin {from, to}
                    /\ answer.fee <= v

(* The ledger after forcedTransfer(from, to, amount), when the registry     *)
(* verifies the wallets of known.  Nothing moves when `to' is not one.      *)
ForcedMove(led, known, from, to, amount, answer) ==
  LET v       == Covered(led, from, amount)
      r       == Released(led, from, v)
      charged == FeeTaken(r, known, to, answer)
  IN  IF to \in known
      THEN [charged EXCEPT !.bal = Moved(charged.bal, from, to, Select(answer.done, v, 0))]
      ELSE r

(* The slots that _transfer writes, with the fee charged on the way, and     *)
(* those that forcedTransfer writes.                                        *)
TransferWrites(known, from, to, answer) ==
  {BalanceSlot(from), BalanceSlot(to)}
    \cup (IF answer.charges THEN {FrozenSlot(to)} ELSE {})
    \cup (IF answer.charges /\ Collector \in known THEN {BalanceSlot(Collector)} ELSE {})

ForcedWrites(known, from, to, answer) ==
  {FrozenSlot(from)} \cup (IF to \in known THEN TransferWrites(known, from, to, answer) ELSE {})

(* Mutants: what is frozen already is left out of the comparison; a balance  *)
(* cannot be frozen to the last token.                                      *)
FrozenMoreUnchecked(led, w, amount) ==
  [led EXCEPT !.frozen = [led.frozen EXCEPT
     ![w] = AddWord(led.frozen[w], Select(led.bal[w] < amount, 0, amount))]]

FrozenMoreStrictly(led, w, amount) ==
  LET sum == AddWord(led.frozen[w], amount)
  IN  [led EXCEPT !.frozen =
         [led.frozen EXCEPT ![w] = AddWord(led.frozen[w], Select(led.bal[w] <= sum, 0, amount))]]

(* freezePartialTokens: the sum it compares with the balance may wrap.      *)
FrozenMore(led, w, amount) ==
  LET sum == AddWord(led.frozen[w], amount)
  IN  [led EXCEPT !.frozen =
         [led.frozen EXCEPT ![w] = AddWord(led.frozen[w], Select(led.bal[w] < sum, 0, amount))]]

SetLedger(led) ==
  /\ balances' = led.bal
  /\ frozenTokens' = led.frozen

-----------------------------------------------------------------------------
Init ==
  /\ balances = [w \in Wallets |-> 0]
  /\ frozenTokens = [w \in Wallets |-> 0]
  /\ frozen = {}
  /\ allowances = [w \in Wallets |-> [s \in Spenders |-> 0]]
  /\ totalSupply = 0
  /\ written = {}
  /\ paused = TRUE
  /\ agents = {}
  /\ registered = {}
  /\ verified = {}
  /\ overflowed = FALSE

(* Holders and spenders.                                                   *)

(* Mutant: the receiver's balance is read before the compliance is told, and *)
(* its fee is taken, and written after.                                     *)
HolderMoveStale(from, to, covered, answer) ==
  LET v       == Select(answer.can, covered, 0)
      charged == FeeTaken(Current, verified, to, answer)
      moved   == Select(answer.done, v, 0)
  IN  /\ ~paused
      /\ frozen \cap {from, to} = {}
      /\ to \in verified
      /\ SupplySlot \in written
      /\ FeeAllowed(from, to, answer, v)
      /\ SetLedger([charged EXCEPT !.bal =
           [Moved(charged.bal, from, to, moved) EXCEPT
              ![to] = IF from = to THEN balances[to] ELSE AddWord(balances[to], moved)]])
      /\ written' = written \cup TransferWrites(verified, from, to, answer)

(* What transfer and transferFrom share once they know the amount that the  *)
(* sender can cover: ask the compliance, tell it, move what both allow.     *)
HolderMove(from, to, covered, answer) ==
  LET v       == Select(answer.can, covered, 0)
      charged == FeeTaken(Current, verified, to, answer)
  IN  /\ ~paused
      /\ frozen \cap {from, to} = {}
      /\ to \in verified
      /\ SupplySlot \in written
      /\ FeeAllowed(from, to, answer, v)
      /\ SetLedger([charged EXCEPT
           !.bal = Moved(charged.bal, from, to, Select(answer.done, v, 0))])
      /\ written' = written \cup TransferWrites(verified, from, to, answer)

(* Mutant: the whole balance may be spent, its frozen part included.        *)
TransferOfFrozen(from, to, amount, answer) ==
  /\ HolderMove(from, to, Select(amount <= balances[from], amount, 0), answer)
  /\ UNCHANGED <<frozen, allowances, totalSupply, paused, agents, registryVars, overflowed>>

Transfer(from, to, amount, answer) ==
  /\ HolderMove(from, to, Select(amount <= FreeTokens(Current, from), amount, 0), answer)
  /\ UNCHANGED <<frozen, allowances, totalSupply, paused, agents, registryVars, overflowed>>

(* _updateAllowance, which updates nothing: do the allowance and the free    *)
(* tokens of the owner suffice?  (Mutant: the allowance is not asked.)      *)
SpendableByAnyone(spender, from, amount) == amount <= FreeTokens(Current, from)

Spendable(spender, from, amount) ==
  amount <= allowances[from][spender] /\ amount <= FreeTokens(Current, from)

(* Mutant: the allowance is charged with what a module refuses, and only    *)
(* with that.                                                               *)
TransferFromChargesRefusals(spender, from, to, amount, answer) ==
  LET allowance == allowances[from][spender]
  IN  /\ AllowanceSlot(from, spender) \in written
      /\ HolderMove(from, to, Select(Spendable(spender, from, amount), amount, 0), answer)
      /\ allowances' = [allowances EXCEPT ![from] = [allowances[from] EXCEPT
           ![spender] = Select(answer.done, allowance, SubWord(allowance, amount))]]
      /\ UNCHANGED <<frozen, totalSupply, paused, agents, registryVars, overflowed>>

(* The allowance is charged with the raw amount, even when what moves is    *)
(* zero because the allowance, the balance or the compliance refused it.  So *)
(* a request for more than is allowed moves nothing and wraps the allowance  *)
(* around, to more than it was.                                             *)
TransferFrom(spender, from, to, amount, answer) ==
  LET allowance == allowances[from][spender]
  IN  /\ AllowanceSlot(from, spender) \in written
      /\ HolderMove(from, to, Select(Spendable(spender, from, amount), amount, 0), answer)
      /\ allowances' = [allowances EXCEPT ![from] = [allowances[from] EXCEPT
           ![spender] = Select(answer.done, SubWord(allowance, amount), allowance)]]
      /\ UNCHANGED <<frozen, totalSupply, paused, agents, registryVars, overflowed>>

SetAllowance(owner, spender, amount) ==
  /\ allowances' = [allowances EXCEPT ![owner] = [allowances[owner] EXCEPT ![spender] = amount]]
  /\ written' = written \cup {AllowanceSlot(owner, spender)}
  /\ UNCHANGED <<balances, frozenTokens, totalSupply, overflowed,
                 frozen, paused, agents, registryVars>>

Approve(owner, spender, amount) == SetAllowance(owner, spender, amount)

IncreaseAllowance(owner, spender, amount) ==
  SetAllowance(owner, spender, AddWord(allowances[owner][spender], amount))

(* Mutant: the difference does not wrap around.                             *)
DecreaseBelowZero(owner, spender, amount) ==
  SetAllowance(owner, spender, allowances[owner][spender] - amount)

(* Taking back more than is left wraps around too.                          *)
DecreaseAllowance(owner, spender, amount) ==
  SetAllowance(owner, spender, SubWord(allowances[owner][spender], amount))

-----------------------------------------------------------------------------
(* Agents.                                                                 *)

(* onlyAgent: the fee module, a contract, only calls from within a transfer. *)
OnlyAgent == agents \ {FeeModule} # {}

Pause ==
  /\ OnlyAgent /\ ~paused
  /\ paused' = TRUE
  /\ UNCHANGED <<ledgerVars, frozen, allowances, agents, registryVars>>

Unpause ==
  /\ OnlyAgent /\ paused
  /\ paused' = FALSE
  /\ UNCHANGED <<ledgerVars, frozen, allowances, agents, registryVars>>

(* Mutant: the supply counts what the compliance has refused.               *)
MintCountsRefused(to, amount, answer) ==
  LET v == Select(answer.can /\ answer.done, amount, 0)
  IN  /\ OnlyAgent
      /\ to \in verified
      /\ balances' = [balances EXCEPT ![to] = AddWord(balances[to], v)]
      /\ totalSupply' = AddWord(totalSupply, amount)
      /\ written' = written \cup {SupplySlot, BalanceSlot(to)}
      /\ overflowed' = (overflowed \/ totalSupply + amount >= WordSize)
      /\ UNCHANGED <<frozenTokens, frozen, allowances, paused, agents, registryVars>>

Mint(to, amount, answer) ==
  LET v == Select(answer.can /\ answer.done, amount, 0)
  IN  /\ OnlyAgent
      /\ to \in verified
      /\ balances' = [balances EXCEPT ![to] = AddWord(balances[to], v)]
      /\ totalSupply' = AddWord(totalSupply, v)
      /\ written' = written \cup {SupplySlot, BalanceSlot(to)}
      /\ overflowed' = (overflowed \/ totalSupply + v >= WordSize)
      /\ UNCHANGED <<frozenTokens, frozen, allowances, paused, agents, registryVars>>

Burn(w, amount) ==
  LET v == Covered(Current, w, amount)
      r == Released(Current, w, v)
  IN  /\ OnlyAgent
      /\ SetLedger([r EXCEPT !.bal = [r.bal EXCEPT ![w] = SubWord(r.bal[w], v)]])
      /\ totalSupply' = SubWord(totalSupply, v)
      /\ written' = written \cup {SupplySlot, BalanceSlot(w), FrozenSlot(w)}
      /\ UNCHANGED <<frozen, allowances, paused, agents, registryVars, overflowed>>

ForcedTransfer(from, to, amount, answer) ==
  /\ OnlyAgent
  /\ to \in verified => SupplySlot \in written
  /\ FeeAllowed(from, to, answer, IF to \in verified THEN Covered(Current, from, amount) ELSE 0)
  /\ SetLedger(ForcedMove(Current, verified, from, to, amount, answer))
  /\ written' = written \cup ForcedWrites(verified, from, to, answer)
  /\ UNCHANGED <<frozen, allowances, totalSupply, paused, agents, registryVars, overflowed>>

SetAddressFrozen(w, freeze) ==
  /\ OnlyAgent
  /\ frozen' = IF freeze THEN frozen \cup {w} ELSE frozen \ {w}
  /\ UNCHANGED <<ledgerVars, allowances, paused, agents, registryVars>>

FreezePartialTokens(w, amount) ==
  /\ OnlyAgent
  /\ SetLedger(FrozenMore(Current, w, amount))
  /\ written' = written \cup {FrozenSlot(w)}
  /\ UNCHANGED <<frozen, allowances, totalSupply, paused, agents, registryVars, overflowed>>

UnfreezePartialTokens(w, amount) ==
  /\ OnlyAgent
  /\ frozenTokens' = [frozenTokens EXCEPT
       ![w] = SubWord(frozenTokens[w], Select(frozenTokens[w] < amount, 0, amount))]
  /\ written' = written \cup {FrozenSlot(w)}
  /\ UNCHANGED <<balances, totalSupply, overflowed,
                 frozen, allowances, paused, agents, registryVars>>

(* Mutant: the new wallet is frozen before it has received the tokens.      *)
RecoverFreezesEarly(lost, new, valid, answer) ==
  LET known     == IF valid THEN verified \cup {new} ELSE verified
      tokens    == balances[lost]
      frozenAmt == IF tokens = 0 THEN 0 ELSE frozenTokens[lost]
      early     == FrozenMore(Current, new, frozenAmt)
  IN  /\ OnlyAgent
      /\ {BalanceSlot(lost), FrozenSlot(lost)} \subseteq written
      /\ lost \in registered /\ new \notin registered
      /\ valid => SupplySlot \in written
      /\ FeeAllowed(lost, new, answer, IF valid THEN tokens ELSE 0)
      /\ SetLedger(ForcedMove(early, known, lost, new, tokens, answer))
      /\ written' = written \cup ForcedWrites(known, lost, new, answer) \cup {FrozenSlot(new)}
      /\ frozen' = IF lost \in frozen THEN frozen \cup {new} ELSE frozen
      /\ registered' = (registered \cup {new}) \ {lost}
      /\ verified' = known \ {lost}
      /\ UNCHANGED <<allowances, totalSupply, paused, agents, overflowed>>

(* recoveryAddress reads balance and frozen amount of the lost wallet first, *)
(* registers the new one, forces the transfer, freezes the same amount       *)
(* again, carries the full freeze over and deletes the lost wallet's         *)
(* identity.  It selects the lost wallet's balance and frozen amount, which  *)
(* must have been written.  That the new wallet is a key of the investor's   *)
(* ONCHAINID is a fact about the identity; whether that identity is verified *)
(* is `valid'.                                                               *)
RecoverAddress(lost, new, valid, answer) ==
  LET known     == IF valid THEN verified \cup {new} ELSE verified
      tokens    == balances[lost]
      frozenAmt == IF tokens = 0 THEN 0 ELSE frozenTokens[lost]
      moved     == ForcedMove(Current, known, lost, new, tokens, answer)
  IN  /\ OnlyAgent
      /\ {BalanceSlot(lost), FrozenSlot(lost)} \subseteq written
      /\ lost \in registered /\ new \notin registered
      /\ valid => SupplySlot \in written
      /\ FeeAllowed(lost, new, answer, IF valid THEN tokens ELSE 0)
      /\ SetLedger(FrozenMore(moved, new, frozenAmt))
      /\ written' = written \cup ForcedWrites(known, lost, new, answer) \cup {FrozenSlot(new)}
      /\ frozen' = IF lost \in frozen THEN frozen \cup {new} ELSE frozen
      /\ registered' = (registered \cup {new}) \ {lost}
      /\ verified' = known \ {lost}
      /\ UNCHANGED <<allowances, totalSupply, paused, agents, overflowed>>

-----------------------------------------------------------------------------
(* The owner, and what happens in the registry and in the identities.      *)

AddAgent(a) ==
  /\ a \notin agents
  /\ agents' = agents \cup {a}
  /\ UNCHANGED <<ledgerVars, frozen, allowances, paused, registryVars>>

RemoveAgent(a) ==
  /\ a \in agents
  /\ agents' = agents \ {a}
  /\ UNCHANGED <<ledgerVars, frozen, allowances, paused, registryVars>>

(* Another registry may know and verify other wallets.                     *)
SetIdentityRegistry(known, valid) ==
  /\ valid \subseteq known
  /\ registered' = known
  /\ verified' = valid
  /\ UNCHANGED <<ledgerVars, frozen, allowances, paused, agents>>

RegisterIdentity(w, valid) ==
  /\ w \notin registered
  /\ registered' = registered \cup {w}
  /\ verified' = IF valid THEN verified \cup {w} ELSE verified
  /\ UNCHANGED <<ledgerVars, frozen, allowances, paused, agents>>

(* Mutant: a wallet without an identity is still verified.                  *)
DeleteIdentityKeepsClaims(w) ==
  /\ w \in registered
  /\ registered' = registered \ {w}
  /\ UNCHANGED <<ledgerVars, frozen, allowances, paused, agents, verified>>

DeleteIdentity(w) ==
  /\ w \in registered
  /\ registered' = registered \ {w}
  /\ verified' = verified \ {w}
  /\ UNCHANGED <<ledgerVars, frozen, allowances, paused, agents>>

(* A claim is added, revoked or required: isVerified changes its answer.    *)
ClaimsChange(w) ==
  /\ w \in registered
  /\ verified' = IF w \in verified THEN verified \ {w} ELSE verified \cup {w}
  /\ UNCHANGED <<ledgerVars, frozen, allowances, paused, agents, registered>>

-----------------------------------------------------------------------------
HolderStep ==
  \E from, to \in Wallets, amount \in Amounts, answer \in Answers :
    \/ Transfer(from, to, amount, answer)
    \/ \E s \in Spenders : TransferFrom(s, from, to, amount, answer)

AllowanceStep ==
  \E owner \in Wallets, s \in Spenders, amount \in Amounts :
    \/ Approve(owner, s, amount)
    \/ IncreaseAllowance(owner, s, amount)
    \/ DecreaseAllowance(owner, s, amount)

AgentStep ==
  \/ Pause
  \/ Unpause
  \/ \E w \in Wallets, amount \in Amounts :
       \/ Burn(w, amount)
       \/ FreezePartialTokens(w, amount)
       \/ UnfreezePartialTokens(w, amount)
       \/ \E answer \in Answers : Mint(w, amount, answer)
       \/ \E to \in Wallets, answer \in Answers : ForcedTransfer(w, to, amount, answer)
  \/ \E w \in Wallets, freeze \in BOOLEAN : SetAddressFrozen(w, freeze)
  \/ \E lost, new \in Wallets, valid \in BOOLEAN, answer \in Answers :
       RecoverAddress(lost, new, valid, answer)

RegistryStep ==
  \/ \E w \in Wallets : DeleteIdentity(w) \/ ClaimsChange(w)
  \/ \E w \in Wallets, valid \in BOOLEAN : RegisterIdentity(w, valid)
  \/ \E known, valid \in SUBSET Wallets : SetIdentityRegistry(known, valid)

RoleStep == \E a \in Operators : AddAgent(a) \/ RemoveAgent(a)

Next == HolderStep \/ AllowanceStep \/ AgentStep \/ RegistryStep \/ RoleStep

Spec == Init /\ [][Next]_vars

-----------------------------------------------------------------------------
(* Properties.                                                             *)

(* Every variable keeps its type: amounts stay within the word, the verified *)
(* wallets are registered ones.                                             *)
TypeOK ==
  /\ balances \in [Wallets -> Amounts]
  /\ frozenTokens \in [Wallets -> Amounts]
  /\ frozen \subseteq Wallets
  /\ allowances \in [Wallets -> [Spenders -> Amounts]]
  /\ totalSupply \in Amounts
  /\ written \subseteq Slots
  /\ paused \in BOOLEAN
  /\ agents \subseteq Operators
  /\ registered \subseteq Wallets
  /\ verified \subseteq registered
  /\ overflowed \in BOOLEAN

(* As long as no mint has carried the supply past its word, the balances add *)
(* up to totalSupply: no transfer, fee, burn or recovery creates or loses a  *)
(* token, although each is a chain of unchecked additions and subtractions   *)
(* on separate storage slots, some of them in a nested call.                 *)
SupplyIsSumOfBalances == ~overflowed => Total(balances) = totalSupply

(* After an overflow the sum and the supply still agree modulo the word.     *)
SupplyIsSumModuloWord == Total(balances) % WordSize = totalSupply

(* IToken.getFrozenTokens: "the amount of frozen tokens is always <= to the  *)
(* total balance of the wallet".  The code keeps it as long as no mint has   *)
(* overflowed; transfer relies on it when it subtracts one from the other.   *)
FrozenWithinBalance ==
  ~overflowed => \A w \in Wallets : frozenTokens[w] <= balances[w]

(* While the token has no agent nothing is forced: the supply and the frozen *)
(* amounts stay as they are, a paused token and a frozen wallet keep their   *)
(* balances, and a holder never spends below the frozen part of a balance.   *)
WithoutAgentNothingIsForced ==
  [][agents = {} /\ ~overflowed =>
       /\ UNCHANGED <<totalSupply, frozenTokens, frozen>>
       /\ \A w \in Wallets :
            /\ paused \/ w \in frozen => balances'[w] = balances[w]
            /\ balances'[w] < balances[w] => balances'[w] >= frozenTokens[w]]_vars

(* Recovery is not a way out of a freeze: whenever it takes the lost wallet's *)
(* tokens away, at least as many tokens are frozen on the new wallet as were  *)
(* on the lost one, and a full freeze follows too.                           *)
RecoveryCarriesFreeze ==
  [][\A lost, new \in Wallets :
       /\ ~overflowed
       /\ balances'[lost] < balances[lost]
       /\ \E valid \in BOOLEAN, answer \in Answers : RecoverAddress(lost, new, valid, answer)
       => /\ frozenTokens'[new] >= frozenTokens[lost]
          /\ lost \in frozen => new \in frozen']_vars
=============================================================================
