------------------------------ MODULE DVDProofs ------------------------------
(***************************************************************************)
(* Proofs about the swap: for any two tokens as they are deployed, any word *)
(* that holds the amounts of the script, any number of wallets, and any     *)
(* number of deliveries and of steps of others, the swap manager settles    *)
(* what module Settlement promises.                                        *)
(*                                                                         *)
(* What is proved of one token in TokenProofs is used here of two: PA and PB *)
(* are those proofs about A and about B.  Their token and the one of module  *)
(* DVD are two instances of the same module, so each operation that is used  *)
(* is first shown to be the same in both.                                   *)
(***************************************************************************)
EXTENDS DVD, SequenceTheorems, TLAPS

PA == INSTANCE TokenProofs WITH
       Spenders <- {Manager}, Operators <- {Agent}, FeeModule <- Manager,
       Collector <- Alice, Fees <- {0},
       balances <- balancesA, frozenTokens <- frozenTokensA, frozen <- frozenA,
       allowances <- allowancesA, totalSupply <- totalSupplyA, written <- writtenA,
       paused <- pausedA, agents <- agentsA, registered <- registeredA, verified <- verifiedA,
       overflowed <- overflowedA

PB == INSTANCE TokenProofs WITH
       Spenders <- {Manager}, Operators <- {Agent}, FeeModule <- Manager,
       Collector <- Alice, Fees <- {0},
       balances <- balancesB, frozenTokens <- frozenTokensB, frozen <- frozenB,
       allowances <- allowancesB, totalSupply <- totalSupplyB, written <- writtenB,
       paused <- pausedB, agents <- agentsB, registered <- registeredB, verified <- verifiedB,
       overflowed <- overflowedB

-----------------------------------------------------------------------------
(* A function on a prefix of the naturals is a sequence.                   *)
LEMMA IsSeq ==
  ASSUME NEW n \in Nat, NEW S, NEW s \in [1 .. n -> S]
  PROVE  s \in Seq(S)
BY SeqDef

(* The eight transactions and decryptions of the script, then its four     *)
(* results.                                                                *)
LEMMA ScriptIs ==
  /\ Len(Script) = 12 /\ DOMAIN Script = 1 .. 12
  /\ \A i \in 1 .. 8 : Script[i] = Transactions[i]
  /\ \A i \in 9 .. 12 : Script[i] = Results[i - 8]
<1> DEFINE S == {Transactions[i] : i \in 1 .. 8} \cup {Results[i] : i \in 1 .. 4}
<1>1. Transactions = [i \in 1 .. 8 |-> Transactions[i]]
  BY DEF Transactions
<1>2. Results = [i \in 1 .. 4 |-> Results[i]]
  BY DEF Results
<1>3. Transactions \in [1 .. 8 -> S] /\ Results \in [1 .. 4 -> S]
  BY <1>1, <1>2, Zenon
<1>4. Len(Transactions) = 8 /\ Len(Results) = 4
  BY DEF Transactions, Results
<1>5. Transactions \in Seq(S) /\ Results \in Seq(S)
  <2> HIDE DEF S
  <2> QED BY <1>3, IsSeq
<1> HIDE DEF S
<1>6. /\ Len(Script) = 8 + 4
      /\ \A i \in 1 .. 8 + 4 : Script[i] = IF i <= 8 THEN Transactions[i] ELSE Results[i - 8]
  <2>1. /\ Len(Transactions \o Results) = Len(Transactions) + Len(Results)
        /\ \A i \in 1 .. Len(Transactions) + Len(Results) : (Transactions \o Results)[i] =
             IF i <= Len(Transactions) THEN Transactions[i] ELSE Results[i - Len(Transactions)]
    BY <1>5, ConcatProperties, Zenon
  <2> QED BY <1>4, <2>1, Zenon DEF Script
<1>7. DOMAIN Script = 1 .. Len(Script)
  BY <1>5, ConcatProperties, LenProperties, Zenon DEF Script
<1> QED BY <1>6, <1>7

-----------------------------------------------------------------------------
(* Token A.  Its operations are those that the proofs are about.           *)

LEMMA SameWordsA ==
  /\ \A a, b : A!AddWord(a, b) = PA!AddWord(a, b) /\ A!SubWord(a, b) = PA!SubWord(a, b)
  /\ \A c, y, n : A!Select(c, y, n) = PA!Select(c, y, n)
  /\ A!Current = PA!Current
BY Zenon DEF A!AddWord, PA!AddWord, A!SubWord, PA!SubWord, A!Select, PA!Select,
             A!Current, PA!Current

LEMMA SameMovedA ==
  ASSUME NEW bal, NEW from, NEW to, NEW v
  PROVE  A!Moved(bal, from, to, v) = PA!Moved(bal, from, to, v)
BY Zenon DEF A!Moved, PA!Moved, A!AddWord, PA!AddWord, A!SubWord, PA!SubWord

LEMMA SameFreeA ==
  ASSUME NEW led, NEW w
  PROVE  A!FreeTokens(led, w) = PA!FreeTokens(led, w)
BY Zenon, SameWordsA DEF A!FreeTokens, PA!FreeTokens

LEMMA SameCoveredA ==
  ASSUME NEW led, NEW w, NEW v
  PROVE  A!Covered(led, w, v) = PA!Covered(led, w, v)
BY Zenon, SameWordsA DEF A!Covered, PA!Covered

LEMMA SameReleasedA ==
  ASSUME NEW led, NEW w, NEW v
  PROVE  A!Released(led, w, v) = PA!Released(led, w, v)
BY Zenon DEF A!Released, PA!Released, A!FreeTokens, PA!FreeTokens,
             A!SubWord, PA!SubWord, A!Select, PA!Select

LEMMA SameFeeTakenA ==
  ASSUME NEW led, NEW known, NEW to, NEW answer
  PROVE  A!FeeTaken(led, known, to, answer) = PA!FeeTaken(led, known, to, answer)
<1>1. A!Covered(led, to, answer.fee) = PA!Covered(led, to, answer.fee)
  BY SameCoveredA
<1> DEFINE v == PA!Covered(led, to, answer.fee)
<1>2. A!Released(led, to, v) = PA!Released(led, to, v)
  BY SameReleasedA
<1> DEFINE r == PA!Released(led, to, v)
<1>3. A!Select(answer.feeDone, v, 0) = PA!Select(answer.feeDone, v, 0)
  BY SameWordsA
<1>4. A!Moved(r.bal, to, Alice, PA!Select(answer.feeDone, v, 0))
      = PA!Moved(r.bal, to, Alice, PA!Select(answer.feeDone, v, 0))
  BY SameMovedA
<1> QED BY Zenon, <1>1, <1>2, <1>3, <1>4 DEF A!FeeTaken, PA!FeeTaken

LEMMA SameHolderMoveA ==
  ASSUME NEW from, NEW to, NEW covered, NEW answer
  PROVE  A!HolderMove(from, to, covered, answer) <=> PA!HolderMove(from, to, covered, answer)
<1> DEFINE v == PA!Select(answer.can, covered, 0)
           charged == PA!FeeTaken(PA!Current, verifiedA, to, answer)
           moved == PA!Select(answer.done, v, 0)
<1>1. /\ A!Select(answer.can, covered, 0) = v /\ A!Current = PA!Current
      /\ A!Select(answer.done, v, 0) = moved
  BY SameWordsA
<1>2. A!FeeTaken(PA!Current, verifiedA, to, answer) = charged
  BY SameFeeTakenA
<1>3. A!Moved(charged.bal, from, to, moved) = PA!Moved(charged.bal, from, to, moved)
  BY SameMovedA
<1>4. A!FeeAllowed(from, to, answer, v) = PA!FeeAllowed(from, to, answer, v)
  BY Zenon DEF A!FeeAllowed, PA!FeeAllowed
<1>5. A!TransferWrites(verifiedA, from, to, answer) = PA!TransferWrites(verifiedA, from, to, answer)
      /\ A!SupplySlot = PA!SupplySlot
  BY Zenon DEF A!TransferWrites, PA!TransferWrites, A!SupplySlot, PA!SupplySlot,
              A!BalanceSlot, PA!BalanceSlot, A!FrozenSlot, PA!FrozenSlot
<1> DEFINE led == [charged EXCEPT !.bal = PA!Moved(charged.bal, from, to, moved)]
<1>6. A!SetLedger(led) = PA!SetLedger(led)
  BY Zenon DEF A!SetLedger, PA!SetLedger
<1>7. A!HolderMove(from, to, covered, answer) <=>
       (/\ ~pausedA
        /\ frozenA \cap {from, to} = {}
        /\ to \in verifiedA
        /\ PA!SupplySlot \in writtenA
        /\ PA!FeeAllowed(from, to, answer, v)
        /\ PA!SetLedger(led)
        /\ writtenA' = writtenA \cup PA!TransferWrites(verifiedA, from, to, answer))
  BY Zenon, <1>1, <1>2, <1>3, <1>4, <1>5, <1>6 DEF A!HolderMove
<1>8. PA!HolderMove(from, to, covered, answer) <=>
       (/\ ~pausedA
        /\ frozenA \cap {from, to} = {}
        /\ to \in verifiedA
        /\ PA!SupplySlot \in writtenA
        /\ PA!FeeAllowed(from, to, answer, v)
        /\ PA!SetLedger(led)
        /\ writtenA' = writtenA \cup PA!TransferWrites(verifiedA, from, to, answer))
  BY Zenon DEF PA!HolderMove
<1> HIDE DEF v, charged, moved, led
<1> QED BY <1>7, <1>8

LEMMA SameTransferA ==
  ASSUME NEW from, NEW to, NEW amount, NEW answer
  PROVE  A!Transfer(from, to, amount, answer) <=> PA!Transfer(from, to, amount, answer)
BY Zenon, SameWordsA, SameFreeA, SameHolderMoveA
   DEF A!Transfer, PA!Transfer, A!registryVars, PA!registryVars

LEMMA SameTransferFromA ==
  ASSUME NEW s, NEW from, NEW to, NEW amount, NEW answer
  PROVE  A!TransferFrom(s, from, to, amount, answer)
           <=> PA!TransferFrom(s, from, to, amount, answer)
<1>1. A!Spendable(s, from, amount) = PA!Spendable(s, from, amount)
  BY Zenon, SameWordsA, SameFreeA DEF A!Spendable, PA!Spendable
<1> QED BY Zenon, <1>1, SameWordsA, SameHolderMoveA
        DEF A!TransferFrom, PA!TransferFrom, A!registryVars, PA!registryVars,
            A!AllowanceSlot, PA!AllowanceSlot

LEMMA SameMintA ==
  ASSUME NEW to, NEW amount, NEW answer
  PROVE  A!Mint(to, amount, answer) <=> PA!Mint(to, amount, answer)
BY Zenon, SameWordsA
   DEF A!Mint, PA!Mint, A!OnlyAgent, PA!OnlyAgent, A!registryVars, PA!registryVars,
       A!SupplySlot, PA!SupplySlot, A!BalanceSlot, PA!BalanceSlot

LEMMA SameFreezeA ==
  ASSUME NEW w, NEW amount
  PROVE  A!FreezePartialTokens(w, amount) <=> PA!FreezePartialTokens(w, amount)
<1>1. A!FrozenMore(A!Current, w, amount) = PA!FrozenMore(PA!Current, w, amount)
  BY Zenon, SameWordsA DEF A!FrozenMore, PA!FrozenMore
<1> QED BY Zenon, <1>1 DEF A!FreezePartialTokens, PA!FreezePartialTokens, A!OnlyAgent, PA!OnlyAgent,
          A!SetLedger, PA!SetLedger, A!registryVars, PA!registryVars, A!FrozenSlot, PA!FrozenSlot

LEMMA SameRestA ==
  ASSUME NEW w, NEW amount
  PROVE  /\ A!Approve(w, Manager, amount) <=> PA!SetAllowance(w, Manager, amount)
         /\ A!SetAddressFrozen(w, TRUE) <=> PA!SetAddressFrozen(w, TRUE)
         /\ A!ClaimsChange(w) <=> PA!ClaimsChange(w)
BY Zenon DEF A!Approve, A!SetAllowance, PA!SetAllowance, A!SetAddressFrozen, PA!SetAddressFrozen,
  A!ClaimsChange, PA!ClaimsChange, A!OnlyAgent, PA!OnlyAgent, A!registryVars, PA!registryVars,
  A!ledgerVars, PA!ledgerVars, A!AllowanceSlot, PA!AllowanceSlot

LEMMA SameTypeA == A!TypeOK <=> PA!TypeOK
BY DEF A!TypeOK, PA!TypeOK, A!Slots, PA!Slots, A!Wallets, PA!Wallets, A!Amounts, PA!Amounts,
  A!SupplySlot, PA!SupplySlot, A!BalanceSlot, PA!BalanceSlot, A!FrozenSlot, PA!FrozenSlot,
  A!AllowanceSlot, PA!AllowanceSlot

-----------------------------------------------------------------------------
(* Token A is as its own inductive invariant says, and its supply has never *)
(* passed its word.                                                        *)
GoodA == PA!IInv /\ ~overflowedA

(* The constants of token A are as its proofs assume, and what compliance  *)
(* answers in this module is among the answers of module Token.            *)
LEMMA SettingA ==
  /\ PA!Wallets = Wallets /\ PA!Amounts = Amounts
  /\ Answers \subseteq PA!Answers
  /\ \A answer \in Answers : answer.fee = 0
  /\ NumWallets \in Nat \ {0} /\ Alice \in PA!Wallets /\ {0} \subseteq PA!Amounts
  /\ WordSize \in Nat \ {0}
<1>1. PA!Wallets = Wallets /\ PA!Amounts = Amounts
  BY DEF PA!Wallets, Wallets, PA!Amounts, Amounts
<1>2. \A answer \in Answers : answer \in PA!Answers /\ answer.fee = 0
  BY DEF Answers, PA!Answers
<1> QED BY <1>1, <1>2, DVDAssumption, WordSizeAssumption DEF Wallets, Amounts

(* What each operation leaves of token A.                                  *)
LEMMA TransferOfA ==
  ASSUME GoodA, NEW from \in Wallets, NEW to \in Wallets, NEW amount \in Amounts,
         NEW answer \in Answers, A!Transfer(from, to, amount, answer)
  PROVE  GoodA' /\ UNCHANGED <<allowancesA, totalSupplyA>>
<1>1. PA!Transfer(from, to, amount, answer)
  BY SameTransferA
<1>2. PA!IInv'
  BY <1>1, SettingA, PA!TransferInv, PA!WordSizeAssumption, PA!NumWalletsAssumption,
     PA!TokenAssumption DEF GoodA
<1> QED BY <1>1, <1>2 DEF GoodA, PA!Transfer

LEMMA TransferFromOfA ==
  ASSUME GoodA, NEW from \in Wallets, NEW to \in Wallets, NEW amount \in Amounts,
         NEW answer \in Answers, A!TransferFrom(Manager, from, to, amount, answer)
  PROVE  /\ GoodA' /\ UNCHANGED totalSupplyA
         /\ \E paid \in BOOLEAN :
              /\ paid => amount <= balancesA[from] /\ amount <= allowancesA[from][Manager]
              /\ balancesA' =
                   IF paid /\ from # to
                   THEN [balancesA EXCEPT ![from] = SubWord(balancesA[from], amount),
                                          ![to] = AddWord(balancesA[to], amount)]
                   ELSE balancesA
<1>1. PA!TransferFrom(Manager, from, to, amount, answer)
  BY SameTransferFromA
<1>2. PA!IInv'
  BY <1>1, SettingA, PA!TransferFromInv, PA!WordSizeAssumption, PA!NumWalletsAssumption,
     PA!TokenAssumption DEF GoodA
<1>3. \E paid \in BOOLEAN :
        /\ paid => amount <= balancesA[from] /\ amount <= allowancesA[from][Manager]
        /\ balancesA' =
             IF paid /\ from # to
             THEN [balancesA EXCEPT ![from] = PA!SubWord(balancesA[from], amount),
                                    ![to] = PA!AddWord(balancesA[to], amount)]
             ELSE balancesA
  BY <1>1, SettingA, PA!TransferFromDelivers, PA!WordSizeAssumption, PA!NumWalletsAssumption,
     PA!TokenAssumption DEF GoodA
<1>4. \A a, b : PA!SubWord(a, b) = SubWord(a, b) /\ PA!AddWord(a, b) = AddWord(a, b)
  BY Zenon DEF PA!SubWord, SubWord, PA!AddWord, AddWord
<1>5. UNCHANGED <<totalSupplyA, overflowedA>>
  BY <1>1 DEF PA!TransferFrom
<1> QED BY <1>2, <1>3, <1>4, <1>5 DEF GoodA

LEMMA ApproveOfA ==
  ASSUME GoodA, NEW w \in Wallets, NEW amount \in Amounts, A!Approve(w, Manager, amount)
  PROVE  GoodA' /\ UNCHANGED <<balancesA, totalSupplyA>>
<1>1. PA!SetAllowance(w, Manager, amount)
  BY SameRestA
<1>2. PA!IInv'
  BY <1>1, SettingA, PA!SetAllowanceInv, PA!WordSizeAssumption, PA!NumWalletsAssumption,
     PA!TokenAssumption DEF GoodA
<1> QED BY <1>1, <1>2 DEF GoodA, PA!SetAllowance

(* The first mint cannot overflow: an amount is less than the word.        *)
LEMMA MintOfA ==
  ASSUME GoodA, totalSupplyA = 0, NEW to \in Wallets, NEW amount \in Amounts,
         NEW answer \in Answers, A!Mint(to, amount, answer)
  PROVE  GoodA' /\ UNCHANGED allowancesA
<1>1. PA!Mint(to, amount, answer)
  BY SameMintA
<1>2. PA!IInv'
  BY <1>1, SettingA, PA!MintInv, PA!WordSizeAssumption, PA!NumWalletsAssumption,
     PA!TokenAssumption DEF GoodA
<1>3. ~overflowedA'
  <2> DEFINE v == PA!Select(answer.can /\ answer.done, amount, 0)
  <2>1. v \in 0 .. WordSize - 1
    BY WordSizeAssumption DEF PA!Select, Amounts
  <2>2. overflowedA' = (overflowedA \/ totalSupplyA + v >= WordSize)
    BY <1>1 DEF PA!Mint
  <2> HIDE DEF v
  <2>3. ~(totalSupplyA + v >= WordSize)
    BY <2>1, WordSizeAssumption
  <2> QED BY <2>2, <2>3, Zenon DEF GoodA
<1> QED BY <1>1, <1>2, <1>3 DEF GoodA, PA!Mint

LEMMA RestOfA ==
  ASSUME GoodA, NEW w \in Wallets, NEW amount \in Amounts,
         \/ A!FreezePartialTokens(w, amount)
         \/ A!ClaimsChange(w)
         \/ A!SetAddressFrozen(w, TRUE)
  PROVE  GoodA' /\ UNCHANGED <<balancesA, allowancesA, totalSupplyA>>
<1>1. \/ PA!FreezePartialTokens(w, amount)
      \/ PA!ClaimsChange(w)
      \/ PA!SetAddressFrozen(w, TRUE)
  BY SameFreezeA, SameRestA
<1>2. CASE PA!FreezePartialTokens(w, amount)
  <2>1. PA!IInv'
    BY <1>2, SettingA, PA!FreezePartialTokensInv, PA!WordSizeAssumption, PA!NumWalletsAssumption,
       PA!TokenAssumption DEF GoodA
  <2>2. PA!FrozenMore(PA!Current, w, amount).bal = balancesA
    BY DEF PA!FrozenMore, PA!Current
  <2>3. UNCHANGED <<allowancesA, totalSupplyA, overflowedA>> /\ balancesA' = balancesA
    BY <1>2, <2>2 DEF PA!FreezePartialTokens, PA!SetLedger
  <2> QED BY <2>1, <2>3 DEF GoodA
<1>3. CASE PA!ClaimsChange(w)
  <2>1. PA!IInv'
    BY <1>3, SettingA, PA!RegistryStepInv, PA!WordSizeAssumption, PA!NumWalletsAssumption,
       PA!TokenAssumption DEF GoodA, PA!RegistryStep
  <2> QED BY <1>3, <2>1 DEF GoodA, PA!ClaimsChange, PA!ledgerVars
<1>4. CASE PA!SetAddressFrozen(w, TRUE)
  <2>1. PA!IInv'
    BY <1>4, SettingA, PA!AgentStepInv, PA!WordSizeAssumption, PA!NumWalletsAssumption,
       PA!TokenAssumption DEF GoodA, PA!AgentStep
  <2> QED BY <1>4, <2>1 DEF GoodA, PA!SetAddressFrozen, PA!ledgerVars
<1> QED BY <1>1, <1>2, <1>3, <1>4

LEMMA StutterOfA ==
  ASSUME GoodA, UNCHANGED varsA
  PROVE  GoodA' /\ UNCHANGED <<balancesA, allowancesA, totalSupplyA>>
<1>1. UNCHANGED PA!vars
  BY DEF varsA, PA!vars
<1>2. PA!IInv'
  BY <1>1, SettingA, PA!NextInv, PA!WordSizeAssumption, PA!NumWalletsAssumption,
     PA!TokenAssumption DEF GoodA
<1> QED BY <1>2 DEF GoodA, varsA

LEMMA InitOfA ==
  ASSUME Init
  PROVE  GoodA /\ totalSupplyA = 0
<1>1. /\ balancesA = [w \in PA!Wallets |-> 0]
      /\ frozenTokensA = [w \in PA!Wallets |-> 0]
      /\ frozenA = {}
      /\ allowancesA = [w \in PA!Wallets |-> [s \in {Manager} |-> 0]]
      /\ totalSupplyA = 0
      /\ writtenA = {}
  BY DEF Init, A!Init, A!Wallets, PA!Wallets
<1>2. /\ pausedA = FALSE /\ agentsA = {Agent} /\ registeredA = Wallets
      /\ verifiedA = Wallets /\ overflowedA = FALSE
  BY DEF Init
<1>3. 0 \in PA!Amounts /\ PA!Wallets = Wallets
  BY SettingA
<1>4. PA!TypeOK
  BY <1>1, <1>2, <1>3 DEF PA!TypeOK
<1>5. PA!Total(balancesA) = 0
  BY <1>1, SettingA, PA!TotalZero, PA!WordSizeAssumption, PA!NumWalletsAssumption,
     PA!TokenAssumption
<1>6. /\ PA!Current \in PA!Ledger
      /\ PA!Current.bal = balancesA
      /\ PA!Current.frozen = frozenTokensA
  BY <1>4, SettingA, PA!CurrentType, PA!WordSizeAssumption, PA!NumWalletsAssumption,
     PA!TokenAssumption
<1>7. PA!LedgerFits(PA!Current, totalSupplyA)
  BY <1>1, <1>5, <1>6 DEF PA!LedgerFits
<1> QED BY <1>1, <1>2, <1>4, <1>7 DEF GoodA, PA!IInv

-----------------------------------------------------------------------------
(* Token B, likewise.                                                      *)

LEMMA SameWordsB ==
  /\ \A a, b : B!AddWord(a, b) = PB!AddWord(a, b) /\ B!SubWord(a, b) = PB!SubWord(a, b)
  /\ \A c, y, n : B!Select(c, y, n) = PB!Select(c, y, n)
  /\ B!Current = PB!Current
BY Zenon DEF B!AddWord, PB!AddWord, B!SubWord, PB!SubWord, B!Select, PB!Select,
             B!Current, PB!Current

LEMMA SameMovedB ==
  ASSUME NEW bal, NEW from, NEW to, NEW v
  PROVE  B!Moved(bal, from, to, v) = PB!Moved(bal, from, to, v)
BY Zenon DEF B!Moved, PB!Moved, B!AddWord, PB!AddWord, B!SubWord, PB!SubWord

LEMMA SameFreeB ==
  ASSUME NEW led, NEW w
  PROVE  B!FreeTokens(led, w) = PB!FreeTokens(led, w)
BY Zenon, SameWordsB DEF B!FreeTokens, PB!FreeTokens

LEMMA SameCoveredB ==
  ASSUME NEW led, NEW w, NEW v
  PROVE  B!Covered(led, w, v) = PB!Covered(led, w, v)
BY Zenon, SameWordsB DEF B!Covered, PB!Covered

LEMMA SameReleasedB ==
  ASSUME NEW led, NEW w, NEW v
  PROVE  B!Released(led, w, v) = PB!Released(led, w, v)
BY Zenon DEF B!Released, PB!Released, B!FreeTokens, PB!FreeTokens,
             B!SubWord, PB!SubWord, B!Select, PB!Select

LEMMA SameFeeTakenB ==
  ASSUME NEW led, NEW known, NEW to, NEW answer
  PROVE  B!FeeTaken(led, known, to, answer) = PB!FeeTaken(led, known, to, answer)
<1>1. B!Covered(led, to, answer.fee) = PB!Covered(led, to, answer.fee)
  BY SameCoveredB
<1> DEFINE v == PB!Covered(led, to, answer.fee)
<1>2. B!Released(led, to, v) = PB!Released(led, to, v)
  BY SameReleasedB
<1> DEFINE r == PB!Released(led, to, v)
<1>3. B!Select(answer.feeDone, v, 0) = PB!Select(answer.feeDone, v, 0)
  BY SameWordsB
<1>4. B!Moved(r.bal, to, Alice, PB!Select(answer.feeDone, v, 0))
      = PB!Moved(r.bal, to, Alice, PB!Select(answer.feeDone, v, 0))
  BY SameMovedB
<1> QED BY Zenon, <1>1, <1>2, <1>3, <1>4 DEF B!FeeTaken, PB!FeeTaken

LEMMA SameHolderMoveB ==
  ASSUME NEW from, NEW to, NEW covered, NEW answer
  PROVE  B!HolderMove(from, to, covered, answer) <=> PB!HolderMove(from, to, covered, answer)
<1> DEFINE v == PB!Select(answer.can, covered, 0)
           charged == PB!FeeTaken(PB!Current, verifiedB, to, answer)
           moved == PB!Select(answer.done, v, 0)
<1>1. /\ B!Select(answer.can, covered, 0) = v /\ B!Current = PB!Current
      /\ B!Select(answer.done, v, 0) = moved
  BY SameWordsB
<1>2. B!FeeTaken(PB!Current, verifiedB, to, answer) = charged
  BY SameFeeTakenB
<1>3. B!Moved(charged.bal, from, to, moved) = PB!Moved(charged.bal, from, to, moved)
  BY SameMovedB
<1>4. B!FeeAllowed(from, to, answer, v) = PB!FeeAllowed(from, to, answer, v)
  BY Zenon DEF B!FeeAllowed, PB!FeeAllowed
<1>5. B!TransferWrites(verifiedB, from, to, answer) = PB!TransferWrites(verifiedB, from, to, answer)
      /\ B!SupplySlot = PB!SupplySlot
  BY Zenon DEF B!TransferWrites, PB!TransferWrites, B!SupplySlot, PB!SupplySlot,
              B!BalanceSlot, PB!BalanceSlot, B!FrozenSlot, PB!FrozenSlot
<1> DEFINE led == [charged EXCEPT !.bal = PB!Moved(charged.bal, from, to, moved)]
<1>6. B!SetLedger(led) = PB!SetLedger(led)
  BY Zenon DEF B!SetLedger, PB!SetLedger
<1>7. B!HolderMove(from, to, covered, answer) <=>
       (/\ ~pausedB
        /\ frozenB \cap {from, to} = {}
        /\ to \in verifiedB
        /\ PB!SupplySlot \in writtenB
        /\ PB!FeeAllowed(from, to, answer, v)
        /\ PB!SetLedger(led)
        /\ writtenB' = writtenB \cup PB!TransferWrites(verifiedB, from, to, answer))
  BY Zenon, <1>1, <1>2, <1>3, <1>4, <1>5, <1>6 DEF B!HolderMove
<1>8. PB!HolderMove(from, to, covered, answer) <=>
       (/\ ~pausedB
        /\ frozenB \cap {from, to} = {}
        /\ to \in verifiedB
        /\ PB!SupplySlot \in writtenB
        /\ PB!FeeAllowed(from, to, answer, v)
        /\ PB!SetLedger(led)
        /\ writtenB' = writtenB \cup PB!TransferWrites(verifiedB, from, to, answer))
  BY Zenon DEF PB!HolderMove
<1> HIDE DEF v, charged, moved, led
<1> QED BY <1>7, <1>8

LEMMA SameTransferB ==
  ASSUME NEW from, NEW to, NEW amount, NEW answer
  PROVE  B!Transfer(from, to, amount, answer) <=> PB!Transfer(from, to, amount, answer)
BY Zenon, SameWordsB, SameFreeB, SameHolderMoveB
   DEF B!Transfer, PB!Transfer, B!registryVars, PB!registryVars

LEMMA SameTransferFromB ==
  ASSUME NEW s, NEW from, NEW to, NEW amount, NEW answer
  PROVE  B!TransferFrom(s, from, to, amount, answer)
           <=> PB!TransferFrom(s, from, to, amount, answer)
<1>1. B!Spendable(s, from, amount) = PB!Spendable(s, from, amount)
  BY Zenon, SameWordsB, SameFreeB DEF B!Spendable, PB!Spendable
<1> QED BY Zenon, <1>1, SameWordsB, SameHolderMoveB
        DEF B!TransferFrom, PB!TransferFrom, B!registryVars, PB!registryVars,
            B!AllowanceSlot, PB!AllowanceSlot

LEMMA SameMintB ==
  ASSUME NEW to, NEW amount, NEW answer
  PROVE  B!Mint(to, amount, answer) <=> PB!Mint(to, amount, answer)
BY Zenon, SameWordsB
   DEF B!Mint, PB!Mint, B!OnlyAgent, PB!OnlyAgent, B!registryVars, PB!registryVars,
       B!SupplySlot, PB!SupplySlot, B!BalanceSlot, PB!BalanceSlot

LEMMA SameFreezeB ==
  ASSUME NEW w, NEW amount
  PROVE  B!FreezePartialTokens(w, amount) <=> PB!FreezePartialTokens(w, amount)
<1>1. B!FrozenMore(B!Current, w, amount) = PB!FrozenMore(PB!Current, w, amount)
  BY Zenon, SameWordsB DEF B!FrozenMore, PB!FrozenMore
<1> QED BY Zenon, <1>1 DEF B!FreezePartialTokens, PB!FreezePartialTokens, B!OnlyAgent, PB!OnlyAgent,
          B!SetLedger, PB!SetLedger, B!registryVars, PB!registryVars, B!FrozenSlot, PB!FrozenSlot

LEMMA SameRestB ==
  ASSUME NEW w, NEW amount
  PROVE  /\ B!Approve(w, Manager, amount) <=> PB!SetAllowance(w, Manager, amount)
         /\ B!SetAddressFrozen(w, TRUE) <=> PB!SetAddressFrozen(w, TRUE)
         /\ B!ClaimsChange(w) <=> PB!ClaimsChange(w)
BY Zenon DEF B!Approve, B!SetAllowance, PB!SetAllowance, B!SetAddressFrozen, PB!SetAddressFrozen,
  B!ClaimsChange, PB!ClaimsChange, B!OnlyAgent, PB!OnlyAgent, B!registryVars, PB!registryVars,
  B!ledgerVars, PB!ledgerVars, B!AllowanceSlot, PB!AllowanceSlot

LEMMA SameTypeB == B!TypeOK <=> PB!TypeOK
BY DEF B!TypeOK, PB!TypeOK, B!Slots, PB!Slots, B!Wallets, PB!Wallets, B!Amounts, PB!Amounts,
  B!SupplySlot, PB!SupplySlot, B!BalanceSlot, PB!BalanceSlot, B!FrozenSlot, PB!FrozenSlot,
  B!AllowanceSlot, PB!AllowanceSlot

-----------------------------------------------------------------------------
GoodB == PB!IInv /\ ~overflowedB

LEMMA SettingB ==
  /\ PB!Wallets = Wallets /\ PB!Amounts = Amounts
  /\ Answers \subseteq PB!Answers
  /\ \A answer \in Answers : answer.fee = 0
  /\ NumWallets \in Nat \ {0} /\ Alice \in PB!Wallets /\ {0} \subseteq PB!Amounts
  /\ WordSize \in Nat \ {0}
<1>1. PB!Wallets = Wallets /\ PB!Amounts = Amounts
  BY DEF PB!Wallets, Wallets, PB!Amounts, Amounts
<1>2. \A answer \in Answers : answer \in PB!Answers /\ answer.fee = 0
  BY DEF Answers, PB!Answers
<1> QED BY <1>1, <1>2, DVDAssumption, WordSizeAssumption DEF Wallets, Amounts

LEMMA TransferOfB ==
  ASSUME GoodB, NEW from \in Wallets, NEW to \in Wallets, NEW amount \in Amounts,
         NEW answer \in Answers, B!Transfer(from, to, amount, answer)
  PROVE  GoodB' /\ UNCHANGED <<allowancesB, totalSupplyB>>
<1>1. PB!Transfer(from, to, amount, answer)
  BY SameTransferB
<1>2. PB!IInv'
  BY <1>1, SettingB, PB!TransferInv, PB!WordSizeAssumption, PB!NumWalletsAssumption,
     PB!TokenAssumption DEF GoodB
<1> QED BY <1>1, <1>2 DEF GoodB, PB!Transfer

LEMMA TransferFromOfB ==
  ASSUME GoodB, NEW from \in Wallets, NEW to \in Wallets, NEW amount \in Amounts,
         NEW answer \in Answers, B!TransferFrom(Manager, from, to, amount, answer)
  PROVE  /\ GoodB' /\ UNCHANGED totalSupplyB
         /\ \E paid \in BOOLEAN :
              /\ paid => amount <= balancesB[from] /\ amount <= allowancesB[from][Manager]
              /\ balancesB' =
                   IF paid /\ from # to
                   THEN [balancesB EXCEPT ![from] = SubWord(balancesB[from], amount),
                                          ![to] = AddWord(balancesB[to], amount)]
                   ELSE balancesB
<1>1. PB!TransferFrom(Manager, from, to, amount, answer)
  BY SameTransferFromB
<1>2. PB!IInv'
  BY <1>1, SettingB, PB!TransferFromInv, PB!WordSizeAssumption, PB!NumWalletsAssumption,
     PB!TokenAssumption DEF GoodB
<1>3. \E paid \in BOOLEAN :
        /\ paid => amount <= balancesB[from] /\ amount <= allowancesB[from][Manager]
        /\ balancesB' =
             IF paid /\ from # to
             THEN [balancesB EXCEPT ![from] = PB!SubWord(balancesB[from], amount),
                                    ![to] = PB!AddWord(balancesB[to], amount)]
             ELSE balancesB
  BY <1>1, SettingB, PB!TransferFromDelivers, PB!WordSizeAssumption, PB!NumWalletsAssumption,
     PB!TokenAssumption DEF GoodB
<1>4. \A a, b : PB!SubWord(a, b) = SubWord(a, b) /\ PB!AddWord(a, b) = AddWord(a, b)
  BY Zenon DEF PB!SubWord, SubWord, PB!AddWord, AddWord
<1>5. UNCHANGED <<totalSupplyB, overflowedB>>
  BY <1>1 DEF PB!TransferFrom
<1> QED BY <1>2, <1>3, <1>4, <1>5 DEF GoodB

LEMMA ApproveOfB ==
  ASSUME GoodB, NEW w \in Wallets, NEW amount \in Amounts, B!Approve(w, Manager, amount)
  PROVE  GoodB' /\ UNCHANGED <<balancesB, totalSupplyB>>
<1>1. PB!SetAllowance(w, Manager, amount)
  BY SameRestB
<1>2. PB!IInv'
  BY <1>1, SettingB, PB!SetAllowanceInv, PB!WordSizeAssumption, PB!NumWalletsAssumption,
     PB!TokenAssumption DEF GoodB
<1> QED BY <1>1, <1>2 DEF GoodB, PB!SetAllowance

LEMMA MintOfB ==
  ASSUME GoodB, totalSupplyB = 0, NEW to \in Wallets, NEW amount \in Amounts,
         NEW answer \in Answers, B!Mint(to, amount, answer)
  PROVE  GoodB' /\ UNCHANGED allowancesB
<1>1. PB!Mint(to, amount, answer)
  BY SameMintB
<1>2. PB!IInv'
  BY <1>1, SettingB, PB!MintInv, PB!WordSizeAssumption, PB!NumWalletsAssumption,
     PB!TokenAssumption DEF GoodB
<1>3. ~overflowedB'
  <2> DEFINE v == PB!Select(answer.can /\ answer.done, amount, 0)
  <2>1. v \in 0 .. WordSize - 1
    BY WordSizeAssumption DEF PB!Select, Amounts
  <2>2. overflowedB' = (overflowedB \/ totalSupplyB + v >= WordSize)
    BY <1>1 DEF PB!Mint
  <2> HIDE DEF v
  <2>3. ~(totalSupplyB + v >= WordSize)
    BY <2>1, WordSizeAssumption
  <2> QED BY <2>2, <2>3, Zenon DEF GoodB
<1> QED BY <1>1, <1>2, <1>3 DEF GoodB, PB!Mint

LEMMA RestOfB ==
  ASSUME GoodB, NEW w \in Wallets, NEW amount \in Amounts,
         \/ B!FreezePartialTokens(w, amount)
         \/ B!ClaimsChange(w)
         \/ B!SetAddressFrozen(w, TRUE)
  PROVE  GoodB' /\ UNCHANGED <<balancesB, allowancesB, totalSupplyB>>
<1>1. \/ PB!FreezePartialTokens(w, amount)
      \/ PB!ClaimsChange(w)
      \/ PB!SetAddressFrozen(w, TRUE)
  BY SameFreezeB, SameRestB
<1>2. CASE PB!FreezePartialTokens(w, amount)
  <2>1. PB!IInv'
    BY <1>2, SettingB, PB!FreezePartialTokensInv, PB!WordSizeAssumption, PB!NumWalletsAssumption,
       PB!TokenAssumption DEF GoodB
  <2>2. PB!FrozenMore(PB!Current, w, amount).bal = balancesB
    BY DEF PB!FrozenMore, PB!Current
  <2>3. UNCHANGED <<allowancesB, totalSupplyB, overflowedB>> /\ balancesB' = balancesB
    BY <1>2, <2>2 DEF PB!FreezePartialTokens, PB!SetLedger
  <2> QED BY <2>1, <2>3 DEF GoodB
<1>3. CASE PB!ClaimsChange(w)
  <2>1. PB!IInv'
    BY <1>3, SettingB, PB!RegistryStepInv, PB!WordSizeAssumption, PB!NumWalletsAssumption,
       PB!TokenAssumption DEF GoodB, PB!RegistryStep
  <2> QED BY <1>3, <2>1 DEF GoodB, PB!ClaimsChange, PB!ledgerVars
<1>4. CASE PB!SetAddressFrozen(w, TRUE)
  <2>1. PB!IInv'
    BY <1>4, SettingB, PB!AgentStepInv, PB!WordSizeAssumption, PB!NumWalletsAssumption,
       PB!TokenAssumption DEF GoodB, PB!AgentStep
  <2> QED BY <1>4, <2>1 DEF GoodB, PB!SetAddressFrozen, PB!ledgerVars
<1> QED BY <1>1, <1>2, <1>3, <1>4

LEMMA StutterOfB ==
  ASSUME GoodB, UNCHANGED varsB
  PROVE  GoodB' /\ UNCHANGED <<balancesB, allowancesB, totalSupplyB>>
<1>1. UNCHANGED PB!vars
  BY DEF varsB, PB!vars
<1>2. PB!IInv'
  BY <1>1, SettingB, PB!NextInv, PB!WordSizeAssumption, PB!NumWalletsAssumption,
     PB!TokenAssumption DEF GoodB
<1> QED BY <1>2 DEF GoodB, varsB

LEMMA InitOfB ==
  ASSUME Init
  PROVE  GoodB /\ totalSupplyB = 0
<1>1. /\ balancesB = [w \in PB!Wallets |-> 0]
      /\ frozenTokensB = [w \in PB!Wallets |-> 0]
      /\ frozenB = {}
      /\ allowancesB = [w \in PB!Wallets |-> [s \in {Manager} |-> 0]]
      /\ totalSupplyB = 0
      /\ writtenB = {}
  BY DEF Init, B!Init, B!Wallets, PB!Wallets
<1>2. /\ pausedB = FALSE /\ agentsB = {Agent} /\ registeredB = Wallets
      /\ verifiedB = Wallets /\ overflowedB = FALSE
  BY DEF Init
<1>3. 0 \in PB!Amounts /\ PB!Wallets = Wallets
  BY SettingB
<1>4. PB!TypeOK
  BY <1>1, <1>2, <1>3 DEF PB!TypeOK
<1>5. PB!Total(balancesB) = 0
  BY <1>1, SettingB, PB!TotalZero, PB!WordSizeAssumption, PB!NumWalletsAssumption,
     PB!TokenAssumption
<1>6. /\ PB!Current \in PB!Ledger
      /\ PB!Current.bal = balancesB
      /\ PB!Current.frozen = frozenTokensB
  BY <1>4, SettingB, PB!CurrentType, PB!WordSizeAssumption, PB!NumWalletsAssumption,
     PB!TokenAssumption
<1>7. PB!LedgerFits(PB!Current, totalSupplyB)
  BY <1>1, <1>5, <1>6 DEF PB!LedgerFits
<1> QED BY <1>1, <1>2, <1>4, <1>7 DEF GoodB, PB!IInv

-----------------------------------------------------------------------------
(* Settlement.  What it calls an agreement, its book and its holdings.     *)

Entry(d) == [maker |-> d.maker, asset1 |-> d.token1, amount1 |-> d.amount1,
             taker |-> d.taker, asset2 |-> d.token2, amount2 |-> d.amount2]
Book(ds) == [n \in DOMAIN ds |-> Entry(ds[n])]

Both(a, b) == [A |-> a, B |-> b]

LEMMA BothAre ==
  ASSUME NEW a, NEW b
  PROVE  /\ Both(a, b)["A"] = a /\ Both(a, b)["B"] = b
         /\ \A S : a \in S /\ b \in S => Both(a, b) \in [Tokens -> S]
         /\ \A x, y : [Both(a, b) EXCEPT !["A"] = x, !["B"] = y] = Both(x, y)
         /\ \A x, y : [Both(a, b) EXCEPT !["B"] = x, !["A"] = y] = Both(y, x)
BY DEF Both, Tokens

(* No delivery swaps a token for itself.                                   *)
Proper == {d \in Delivery : d.token1 # d.token2}

LEMMA EntryIs ==
  ASSUME NEW d \in Proper
  PROVE  Entry(d) \in Deliveries!Agreement
<1>1. /\ d.maker \in Wallets /\ d.taker \in Wallets /\ d.token1 \in Tokens /\ d.token2 \in Tokens
      /\ d.amount1 \in Amounts /\ d.amount2 \in Amounts /\ d.token1 # d.token2
  BY DEF Proper, Delivery
<1> QED BY <1>1 DEF Entry, Deliveries!Agreement, Deliveries!Amounts, Amounts

(* Two prefixes of the naturals that are equal are equally long.           *)
LEMMA SameLength ==
  ASSUME NEW m \in Nat, NEW n \in Nat, 1 .. m = 1 .. n
  PROVE  m = n
<1>1. m # 0 => m \in 1 .. n
  OBVIOUS
<1>2. n # 0 => n \in 1 .. m
  OBVIOUS
<1> QED BY <1>1, <1>2

LEMMA BookIs ==
  ASSUME NEW ds \in Seq(Proper)
  PROVE  /\ Book(ds) \in Seq(Deliveries!Agreement)
         /\ Len(Book(ds)) = Len(ds)
         /\ \A n \in 1 .. Len(ds) : Book(ds)[n] = Entry(ds[n])
<1>1. DOMAIN ds = 1 .. Len(ds) /\ Len(ds) \in Nat
  BY LenProperties
<1>2. \A n \in 1 .. Len(ds) : ds[n] \in Proper
  BY ElementOfSeq
<1>3. Book(ds) \in [1 .. Len(ds) -> Deliveries!Agreement]
  BY <1>1, <1>2, EntryIs DEF Book
<1>4. Book(ds) \in Seq(Deliveries!Agreement)
  BY <1>1, <1>3, IsSeq
<1>5. DOMAIN Book(ds) = 1 .. Len(Book(ds)) /\ Len(Book(ds)) \in Nat
  BY <1>4, LenProperties
<1>6. DOMAIN Book(ds) = 1 .. Len(ds)
  BY <1>1 DEF Book
<1>7. Len(Book(ds)) = Len(ds)
  BY <1>1, <1>5, <1>6, SameLength
<1> QED BY <1>1, <1>4, <1>7 DEF Book

(* Appending a delivery appends an agreement.                              *)
LEMMA BookGrows ==
  ASSUME NEW ds \in Seq(Proper), NEW d \in Proper
  PROVE  /\ Append(ds, d) \in Seq(Proper)
         /\ Len(Append(ds, d)) = Len(ds) + 1
         /\ Len(Book(Append(ds, d))) = Len(Book(ds)) + 1
         /\ SubSeq(Book(Append(ds, d)), 1, Len(Book(ds))) = Book(ds)
         /\ Book(Append(ds, d))[Len(Book(ds)) + 1] \in Deliveries!Agreement
<1> DEFINE es == Append(ds, d)
<1>1. /\ es \in Seq(Proper) /\ Len(es) = Len(ds) + 1 /\ Len(ds) \in Nat
      /\ \A n \in 1 .. Len(ds) : es[n] = ds[n]
  BY AppendProperties, LenProperties
<1> HIDE DEF es
<1>2. /\ Book(es) \in Seq(Deliveries!Agreement) /\ Len(Book(es)) = Len(ds) + 1
      /\ \A n \in 1 .. Len(ds) + 1 : Book(es)[n] = Entry(es[n])
  BY <1>1, BookIs
<1>3. /\ Book(ds) \in Seq(Deliveries!Agreement) /\ Len(Book(ds)) = Len(ds)
      /\ \A n \in 1 .. Len(ds) : Book(ds)[n] = Entry(ds[n])
  BY BookIs
<1>4. \A n \in 1 .. Len(ds) : Book(es)[n] = Book(ds)[n]
  BY <1>1, <1>2, <1>3
<1>5. \A n \in 1 .. Len(ds) + 1 : Book(es)[n] \in Deliveries!Agreement
  BY <1>2, ElementOfSeq
<1> DEFINE sub == SubSeq(Book(es), 1, Len(ds))
<1>6. /\ sub \in Seq(Deliveries!Agreement)
      /\ Len(sub) = Len(ds)
      /\ \A n \in 1 .. Len(ds) : sub[n] = Book(es)[n]
  <2>1. \A n \in 1 .. Len(ds) : Book(es)[n] \in Deliveries!Agreement
    BY <1>1, <1>5
  <2>2. /\ sub \in Seq(Deliveries!Agreement)
        /\ Len(sub) = IF 1 <= Len(ds) THEN Len(ds) - 1 + 1 ELSE 0
        /\ \A n \in 1 .. Len(ds) - 1 + 1 : sub[n] = Book(es)[1 + n - 1]
    BY <1>1, <2>1, SubSeqProperties
  <2> HIDE DEF sub
  <2> QED BY <1>1, <2>2
<1>7. sub = Book(ds)
  <2> HIDE DEF sub
  <2> QED BY <1>3, <1>4, <1>6, SeqEqual
<1> QED BY <1>1, <1>2, <1>3, <1>5, <1>7 DEF es

-----------------------------------------------------------------------------
(* The inductive invariant: both tokens are good, and a token has no supply *)
(* before the script has minted it, so that its mint is the first.         *)
StateOK ==
  /\ readable \subseteq Tokens \X Wallets
  /\ deliveries \in Seq(Proper) /\ open \subseteq DOMAIN deliveries
  /\ step \in DOMAIN Script /\ outcome \in {"running", "done", "failed"}
  /\ transferId \in DOMAIN deliveries \cup {0}
  /\ step <= 1 => totalSupplyA = 0
  /\ step <= 3 => totalSupplyB = 0

DInv == GoodA /\ GoodB /\ StateOK

Approved(a, b) == Both([w \in Wallets |-> a[w][Manager]], [w \in Wallets |-> b[w][Manager]])

LEMMA BooksType ==
  ASSUME NEW a \in [Wallets -> Amounts], NEW b \in [Wallets -> Amounts],
         NEW p \in [Wallets -> [{Manager} -> Amounts]],
         NEW q \in [Wallets -> [{Manager} -> Amounts]]
  PROVE  /\ Both(a, b) \in [Tokens -> [Wallets -> Amounts]]
         /\ Approved(p, q) \in [Tokens -> [Wallets -> Amounts]]
<1> DEFINE x == [w \in Wallets |-> p[w][Manager]]
           y == [w \in Wallets |-> q[w][Manager]]
<1>1. x \in [Wallets -> Amounts] /\ y \in [Wallets -> Amounts]
  OBVIOUS
<1>2. Both(x, y) \in [Tokens -> [Wallets -> Amounts]]
  <2> HIDE DEF x, y
  <2> QED BY <1>1, BothAre
<1> QED BY <1>2, BothAre DEF Approved

LEMMA GoodTypes ==
  ASSUME GoodA, GoodB
  PROVE  /\ balancesA \in [Wallets -> Amounts] /\ balancesB \in [Wallets -> Amounts]
         /\ allowancesA \in [Wallets -> [{Manager} -> Amounts]]
         /\ allowancesB \in [Wallets -> [{Manager} -> Amounts]]
BY SettingA, SettingB DEF GoodA, GoodB, PA!IInv, PB!IInv, PA!TypeOK, PB!TypeOK

LEMMA GoodTypesNext ==
  ASSUME GoodA', GoodB'
  PROVE  /\ balancesA' \in [Wallets -> Amounts] /\ balancesB' \in [Wallets -> Amounts]
         /\ allowancesA' \in [Wallets -> [{Manager} -> Amounts]]
         /\ allowancesB' \in [Wallets -> [{Manager} -> Amounts]]
         /\ Both(balancesA', balancesB') \in [Tokens -> [Wallets -> Amounts]]
         /\ Approved(allowancesA', allowancesB') \in [Tokens -> [Wallets -> Amounts]]
<1>1. /\ balancesA' \in [Wallets -> Amounts] /\ balancesB' \in [Wallets -> Amounts]
      /\ allowancesA' \in [Wallets -> [{Manager} -> Amounts]]
      /\ allowancesB' \in [Wallets -> [{Manager} -> Amounts]]
  BY SettingA, SettingB DEF GoodA, GoodB, PA!IInv, PB!IInv, PA!TypeOK, PB!TypeOK
<1> QED BY <1>1, BooksType

(* A step that leaves the manager alone, and either all approvals or all   *)
(* balances, is a step elsewhere.                                          *)
LEMMA ElsewhereStep ==
  ASSUME GoodA', GoodB', UNCHANGED managerVars,
         \/ UNCHANGED <<allowancesA, allowancesB>>
         \/ UNCHANGED <<balancesA, balancesB>>
  PROVE  Deliveries!Elsewhere
<1>1. /\ Both(balancesA', balancesB') \in [Tokens -> [Wallets -> Amounts]]
      /\ Approved(allowancesA', allowancesB') \in [Tokens -> [Wallets -> Amounts]]
  BY GoodTypesNext
<1>2. Deliveries!Amounts = Amounts
  BY DEF Deliveries!Amounts, Amounts
<1>3. UNCHANGED Deliveries!book
  BY DEF managerVars, Deliveries!book
<1> QED BY <1>1, <1>2, <1>3 DEF Deliveries!Elsewhere, Both, Approved

(* Initiating a delivery opens an agreement.                               *)
LEMMA OpenStep ==
  ASSUME deliveries \in Seq(Proper), NEW d \in Proper, InitiateDVDTransfer(d)
  PROVE  /\ deliveries' \in Seq(Proper) /\ Len(deliveries') = Len(deliveries) + 1
         /\ open' = open \cup {Len(deliveries')}
         /\ UNCHANGED <<varsA, varsB, readable>>
         /\ Deliveries!Open
<1> DEFINE es == Append(deliveries, d)
<1>1. /\ deliveries' = es /\ open' = open \cup {Len(deliveries) + 1}
      /\ UNCHANGED <<varsA, varsB, readable>>
  BY DEF InitiateDVDTransfer
<1>2. /\ es \in Seq(Proper) /\ Len(es) = Len(deliveries) + 1
      /\ Len(Book(es)) = Len(Book(deliveries)) + 1
      /\ SubSeq(Book(es), 1, Len(Book(deliveries))) = Book(deliveries)
      /\ Book(es)[Len(Book(deliveries)) + 1] \in Deliveries!Agreement
  BY BookGrows
<1>3. Len(Book(deliveries)) = Len(deliveries)
  BY BookIs
<1> HIDE DEF es
<1>4. /\ Len(Book(deliveries')) = Len(Book(deliveries)) + 1
      /\ SubSeq(Book(deliveries'), 1, Len(Book(deliveries))) = Book(deliveries)
      /\ Book(deliveries')[Len(Book(deliveries'))] \in Deliveries!Agreement
      /\ open' = open \cup {Len(Book(deliveries'))}
  BY <1>1, <1>2, <1>3
<1>5. UNCHANGED <<balancesA, balancesB, allowancesA, allowancesB>>
  BY <1>1 DEF varsA, varsB
<1>6. Deliveries!Open
  BY <1>4, <1>5 DEF Deliveries!Open, Book, Entry
<1> QED BY <1>1, <1>2, <1>6

LEMMA CancelStep ==
  ASSUME NEW id \in open, NEW caller, CancelDVDTransfer(id, caller)
  PROVE  /\ open' = open \ {id}
         /\ UNCHANGED <<varsA, varsB, readable, deliveries>>
         /\ Deliveries!Cancel(id)
BY DEF CancelDVDTransfer, Deliveries!Cancel, varsA, varsB
LEMMA CanGiveIs ==
  ASSUME NEW w \in Wallets, NEW amount
  PROVE  /\ Deliveries!CanGive("A", w, amount) <=>
              amount <= balancesA[w] /\ amount <= allowancesA[w][Manager]
         /\ Deliveries!CanGive("B", w, amount) <=>
              amount <= balancesB[w] /\ amount <= allowancesB[w][Manager]
BY DEF Deliveries!CanGive

LEMMA PassesIs ==
  ASSUME NEW h \in [Wallets -> Amounts], NEW paid \in BOOLEAN, NEW from \in Wallets,
         NEW to \in Wallets, NEW amount
  PROVE  Deliveries!Passes(h, paid, from, to, amount) =
           IF paid /\ from # to
           THEN [h EXCEPT ![from] = SubWord(h[from], amount), ![to] = AddWord(h[to], amount)]
           ELSE h
<1>1. Deliveries!SubWord(h[from], amount) = SubWord(h[from], amount)
      /\ Deliveries!AddWord(h[to], amount) = AddWord(h[to], amount)
  BY Zenon DEF Deliveries!SubWord, SubWord, Deliveries!AddWord, AddWord
<1> QED BY <1>1 DEF Deliveries!Passes

(* A transferFrom passes the amount as Settlement says.                    *)
LEMMA PaysA ==
  ASSUME GoodA, GoodB, NEW from \in Wallets, NEW to \in Wallets, NEW amount \in Amounts,
         NEW answer \in Answers, A!TransferFrom(Manager, from, to, amount, answer)
  PROVE  /\ GoodA' /\ UNCHANGED totalSupplyA
         /\ \E paid \in BOOLEAN :
              /\ paid => Deliveries!CanGive("A", from, amount)
              /\ balancesA' = Deliveries!Passes(balancesA, paid, from, to, amount)
<1>1. GoodA' /\ UNCHANGED totalSupplyA
  BY TransferFromOfA
<1>2. PICK paid \in BOOLEAN :
        /\ paid => amount <= balancesA[from] /\ amount <= allowancesA[from][Manager]
        /\ balancesA' =
             IF paid /\ from # to
             THEN [balancesA EXCEPT ![from] = SubWord(balancesA[from], amount),
                                    ![to] = AddWord(balancesA[to], amount)]
             ELSE balancesA
  BY TransferFromOfA
<1>3. paid => Deliveries!CanGive("A", from, amount)
  BY <1>2, CanGiveIs
<1>4. balancesA \in [Wallets -> Amounts]
  BY GoodTypes
<1>5. balancesA' = Deliveries!Passes(balancesA, paid, from, to, amount)
  BY <1>2, <1>4, PassesIs
<1> QED BY <1>1, <1>3, <1>5

LEMMA PaysB ==
  ASSUME GoodA, GoodB, NEW from \in Wallets, NEW to \in Wallets, NEW amount \in Amounts,
         NEW answer \in Answers, B!TransferFrom(Manager, from, to, amount, answer)
  PROVE  /\ GoodB' /\ UNCHANGED totalSupplyB
         /\ \E paid \in BOOLEAN :
              /\ paid => Deliveries!CanGive("B", from, amount)
              /\ balancesB' = Deliveries!Passes(balancesB, paid, from, to, amount)
<1>1. GoodB' /\ UNCHANGED totalSupplyB
  BY TransferFromOfB
<1>2. PICK paid \in BOOLEAN :
        /\ paid => amount <= balancesB[from] /\ amount <= allowancesB[from][Manager]
        /\ balancesB' =
             IF paid /\ from # to
             THEN [balancesB EXCEPT ![from] = SubWord(balancesB[from], amount),
                                    ![to] = AddWord(balancesB[to], amount)]
             ELSE balancesB
  BY TransferFromOfB
<1>3. paid => Deliveries!CanGive("B", from, amount)
  BY <1>2, CanGiveIs
<1>4. balancesB \in [Wallets -> Amounts]
  BY GoodTypes
<1>5. balancesB' = Deliveries!Passes(balancesB, paid, from, to, amount)
  BY <1>2, <1>4, PassesIs
<1> QED BY <1>1, <1>3, <1>5

(* Taking a delivery settles its agreement.                                *)
LEMMA SettleStep ==
  ASSUME GoodA, GoodB, deliveries \in Seq(Proper), open \subseteq DOMAIN deliveries,
         NEW id \in open, NEW caller, NEW answer1 \in Answers, NEW answer2 \in Answers,
         TakeDVDTransfer(id, caller, answer1, answer2)
  PROVE  /\ GoodA' /\ GoodB'
         /\ UNCHANGED <<totalSupplyA, totalSupplyB, deliveries>>
         /\ open' = open \ {id}
         /\ Deliveries!Settle(id)
<1> DEFINE d == deliveries[id]
           e == Book(deliveries)[id]
<1>1. d \in Proper /\ e = Entry(d)
  BY LenProperties, ElementOfSeq DEF Book
<1>2. /\ d.maker \in Wallets /\ d.taker \in Wallets
      /\ d.amount1 \in Amounts /\ d.amount2 \in Amounts
      /\ \/ d.token1 = "A" /\ d.token2 = "B"
         \/ d.token1 = "B" /\ d.token2 = "A"
  BY <1>1 DEF Proper, Delivery, Tokens
<1>3. /\ e.maker = d.maker /\ e.asset1 = d.token1 /\ e.amount1 = d.amount1
      /\ e.taker = d.taker /\ e.asset2 = d.token2 /\ e.amount2 = d.amount2
  BY <1>1 DEF Entry
<1>4. /\ TransferFrom(d.token1, d.maker, d.taker, d.amount1, answer1)
      /\ TransferFrom(d.token2, d.taker, d.maker, d.amount2, answer2)
      /\ open' = open \ {id} /\ UNCHANGED deliveries
  BY DEF TakeDVDTransfer
<1>5. balancesA \in [Wallets -> Amounts] /\ balancesB \in [Wallets -> Amounts]
  BY GoodTypes
<1> HIDE DEF d, e
<1>6. /\ GoodA' /\ GoodB' /\ UNCHANGED <<totalSupplyA, totalSupplyB>>
      /\ \E paid1, paid2 \in BOOLEAN :
           /\ paid1 => Deliveries!CanGive(e.asset1, e.maker, e.amount1)
           /\ paid2 => Deliveries!CanGive(e.asset2, e.taker, e.amount2)
           /\ Both(balancesA', balancesB') = [Both(balancesA, balancesB) EXCEPT
                ![e.asset1] = Deliveries!Passes(Both(balancesA, balancesB)[e.asset1], paid1,
                                                e.maker, e.taker, e.amount1),
                ![e.asset2] = Deliveries!Passes(Both(balancesA, balancesB)[e.asset2], paid2,
                                                e.taker, e.maker, e.amount2)]
  <2>1. CASE d.token1 = "A" /\ d.token2 = "B"
    <3>1. /\ A!TransferFrom(Manager, d.maker, d.taker, d.amount1, answer1)
          /\ B!TransferFrom(Manager, d.taker, d.maker, d.amount2, answer2)
      BY <1>4, <2>1, Zenon DEF TransferFrom
    <3>2. PICK paid1 \in BOOLEAN :
            /\ paid1 => Deliveries!CanGive("A", d.maker, d.amount1)
            /\ balancesA' = Deliveries!Passes(balancesA, paid1, d.maker, d.taker, d.amount1)
      BY <1>2, <3>1, PaysA
    <3>3. PICK paid2 \in BOOLEAN :
            /\ paid2 => Deliveries!CanGive("B", d.taker, d.amount2)
            /\ balancesB' = Deliveries!Passes(balancesB, paid2, d.taker, d.maker, d.amount2)
      BY <1>2, <3>1, PaysB
    <3>4. GoodA' /\ GoodB' /\ UNCHANGED <<totalSupplyA, totalSupplyB>>
      BY <1>2, <3>1, PaysA, PaysB
    <3>5. Both(balancesA', balancesB') = [Both(balancesA, balancesB) EXCEPT
                !["A"] = balancesA', !["B"] = balancesB']
      BY BothAre
    <3>6. Both(balancesA, balancesB)["A"] = balancesA /\ Both(balancesA, balancesB)["B"] = balancesB
      BY BothAre
    <3>7. /\ Deliveries!Passes(Both(balancesA, balancesB)[e.asset1], paid1,
                              e.maker, e.taker, e.amount1) = balancesA'
          /\ Deliveries!Passes(Both(balancesA, balancesB)[e.asset2], paid2,
                              e.taker, e.maker, e.amount2) = balancesB'
          /\ e.asset1 = "A" /\ e.asset2 = "B"
      BY <1>3, <2>1, <3>2, <3>3, <3>6, Zenon
    <3>9. Both(balancesA', balancesB') = [Both(balancesA, balancesB) EXCEPT
                ![e.asset1] = Deliveries!Passes(Both(balancesA, balancesB)[e.asset1], paid1,
                                                e.maker, e.taker, e.amount1),
                ![e.asset2] = Deliveries!Passes(Both(balancesA, balancesB)[e.asset2], paid2,
                                                e.taker, e.maker, e.amount2)]
      BY <3>5, <3>7
    <3>8. /\ paid1 => Deliveries!CanGive(e.asset1, e.maker, e.amount1)
          /\ paid2 => Deliveries!CanGive(e.asset2, e.taker, e.amount2)
      BY <1>3, <2>1, <3>2, <3>3, Zenon
    <3> QED BY <3>2, <3>3, <3>4, <3>8, <3>9, Zenon
  <2>2. CASE d.token1 = "B" /\ d.token2 = "A"
    <3>1. /\ B!TransferFrom(Manager, d.maker, d.taker, d.amount1, answer1)
          /\ A!TransferFrom(Manager, d.taker, d.maker, d.amount2, answer2)
      <4>1. "B" # "A"
        OBVIOUS
      <4> QED BY <1>4, <2>2, <4>1, Zenon DEF TransferFrom
    <3>2. PICK paid1 \in BOOLEAN :
            /\ paid1 => Deliveries!CanGive("B", d.maker, d.amount1)
            /\ balancesB' = Deliveries!Passes(balancesB, paid1, d.maker, d.taker, d.amount1)
      BY <1>2, <3>1, PaysB
    <3>3. PICK paid2 \in BOOLEAN :
            /\ paid2 => Deliveries!CanGive("A", d.taker, d.amount2)
            /\ balancesA' = Deliveries!Passes(balancesA, paid2, d.taker, d.maker, d.amount2)
      BY <1>2, <3>1, PaysA
    <3>4. GoodA' /\ GoodB' /\ UNCHANGED <<totalSupplyA, totalSupplyB>>
      BY <1>2, <3>1, PaysA, PaysB
    <3>5. Both(balancesA', balancesB') = [Both(balancesA, balancesB) EXCEPT
                !["B"] = balancesB', !["A"] = balancesA']
      BY BothAre
    <3>6. Both(balancesA, balancesB)["A"] = balancesA /\ Both(balancesA, balancesB)["B"] = balancesB
      BY BothAre
    <3>7. /\ Deliveries!Passes(Both(balancesA, balancesB)[e.asset1], paid1,
                              e.maker, e.taker, e.amount1) = balancesB'
          /\ Deliveries!Passes(Both(balancesA, balancesB)[e.asset2], paid2,
                              e.taker, e.maker, e.amount2) = balancesA'
          /\ e.asset1 = "B" /\ e.asset2 = "A"
      BY <1>3, <2>2, <3>2, <3>3, <3>6, Zenon
    <3>9. Both(balancesA', balancesB') = [Both(balancesA, balancesB) EXCEPT
                ![e.asset1] = Deliveries!Passes(Both(balancesA, balancesB)[e.asset1], paid1,
                                                e.maker, e.taker, e.amount1),
                ![e.asset2] = Deliveries!Passes(Both(balancesA, balancesB)[e.asset2], paid2,
                                                e.taker, e.maker, e.amount2)]
      BY <3>5, <3>7
    <3>8. /\ paid1 => Deliveries!CanGive(e.asset1, e.maker, e.amount1)
          /\ paid2 => Deliveries!CanGive(e.asset2, e.taker, e.amount2)
      BY <1>3, <2>2, <3>2, <3>3, Zenon
    <3> QED BY <3>2, <3>3, <3>4, <3>8, <3>9, Zenon
  <2> QED BY <1>2, <2>1, <2>2
<1>7. /\ Approved(allowancesA', allowancesB') \in [Tokens -> [Wallets -> Amounts]]
      /\ Deliveries!Amounts = Amounts
  BY <1>6, GoodTypesNext DEF Deliveries!Amounts, Amounts
<1>8. PICK paid1 \in BOOLEAN, paid2 \in BOOLEAN :
           /\ paid1 => Deliveries!CanGive(e.asset1, e.maker, e.amount1)
           /\ paid2 => Deliveries!CanGive(e.asset2, e.taker, e.amount2)
           /\ Both(balancesA', balancesB') = [Both(balancesA, balancesB) EXCEPT
                ![e.asset1] = Deliveries!Passes(@, paid1, e.maker, e.taker, e.amount1),
                ![e.asset2] = Deliveries!Passes(@, paid2, e.taker, e.maker, e.amount2)]
  BY <1>3, <1>2, <1>6
<1>9. Deliveries!Settle(id)
  BY <1>4, <1>7, <1>8, Zenon DEF Deliveries!Settle, Both, Approved, Book, Entry, e
<1> QED BY <1>4, <1>6, <1>9

-----------------------------------------------------------------------------
LEMMA ReadableType ==
  ASSUME NEW readers \in SUBSET (Tokens \X Wallets), NEW token \in Tokens,
         NEW from \in Wallets, NEW to \in Wallets
  PROVE  /\ ReadableAfter(readers, token, from, to) \in SUBSET (Tokens \X Wallets)
         /\ readers \cup {<<token, to>>} \in SUBSET (Tokens \X Wallets)
BY DEF ReadableAfter

(* What every step of the two contracts and of others amounts to.          *)
Effect ==
  /\ GoodA' /\ GoodB'
  /\ readable' \subseteq Tokens \X Wallets
  /\ deliveries' \in Seq(Proper) /\ open' \subseteq DOMAIN deliveries'
  /\ DOMAIN deliveries \subseteq DOMAIN deliveries'
  /\ Deliveries!Next

LEMMA ElsewhereEffect ==
  ASSUME DInv, GoodA', GoodB', UNCHANGED managerVars,
         readable' \subseteq Tokens \X Wallets,
         \/ UNCHANGED <<allowancesA, allowancesB>>
         \/ UNCHANGED <<balancesA, balancesB>>
  PROVE  Effect
<1>1. Deliveries!Elsewhere
  BY ElsewhereStep
<1>2. deliveries' = deliveries /\ open' = open
  BY DEF managerVars
<1> QED BY <1>1, <1>2 DEF Effect, Deliveries!Next, DInv, StateOK

LEMMA MintEffect ==
  ASSUME DInv, NEW w \in Wallets, NEW amount \in Amounts, NEW answer \in Answers
  PROVE  /\ totalSupplyA = 0 /\ Mint("A", w, amount, answer) => Effect /\ UNCHANGED totalSupplyB
         /\ totalSupplyB = 0 /\ Mint("B", w, amount, answer) => Effect /\ UNCHANGED totalSupplyA
<1>0. /\ GoodA /\ GoodB /\ readable \in SUBSET (Tokens \X Wallets)
      /\ {"A", "B"} \subseteq Tokens /\ "B" # "A"
  BY DEF DInv, StateOK, Tokens
<1>1. ASSUME totalSupplyA = 0, Mint("A", w, amount, answer)
      PROVE  Effect /\ UNCHANGED totalSupplyB
  <2>1. /\ A!Mint(w, amount, answer) /\ UNCHANGED varsB /\ UNCHANGED managerVars
        /\ readable' = readable \cup {<<"A", w>>}
    BY <1>1, Zenon DEF Mint
  <2>2. GoodA' /\ UNCHANGED allowancesA
    BY <1>0, <1>1, <2>1, MintOfA
  <2>3. GoodB' /\ UNCHANGED <<balancesB, allowancesB, totalSupplyB>>
    BY <1>0, <2>1, StutterOfB
  <2>4. readable' \subseteq Tokens \X Wallets
    BY <1>0, <2>1, ReadableType
  <2> QED BY <2>1, <2>2, <2>3, <2>4, ElsewhereEffect
<1>2. ASSUME totalSupplyB = 0, Mint("B", w, amount, answer)
      PROVE  Effect /\ UNCHANGED totalSupplyA
  <2>1. /\ B!Mint(w, amount, answer) /\ UNCHANGED varsA /\ UNCHANGED managerVars
        /\ readable' = readable \cup {<<"B", w>>}
    BY <1>0, <1>2, Zenon DEF Mint
  <2>2. GoodB' /\ UNCHANGED allowancesB
    BY <1>0, <1>2, <2>1, MintOfB
  <2>3. GoodA' /\ UNCHANGED <<balancesA, allowancesA, totalSupplyA>>
    BY <1>0, <2>1, StutterOfA
  <2>4. readable' \subseteq Tokens \X Wallets
    BY <1>0, <2>1, ReadableType
  <2> QED BY <2>1, <2>2, <2>3, <2>4, ElsewhereEffect
<1> QED BY <1>1, <1>2

LEMMA ApproveEffect ==
  ASSUME DInv, NEW token \in Tokens, NEW w \in Wallets, NEW amount \in Amounts,
         Approve(token, w, amount)
  PROVE  Effect /\ UNCHANGED <<totalSupplyA, totalSupplyB>>
<1>0. GoodA /\ GoodB /\ readable \in SUBSET (Tokens \X Wallets)
  BY DEF DInv, StateOK
<1>1. UNCHANGED managerVars /\ readable' = readable
  BY DEF Approve
<1>2. CASE token = "A"
  <2>1. A!Approve(w, Manager, amount) /\ UNCHANGED varsB
    BY <1>2, Zenon DEF Approve
  <2>2. GoodA' /\ UNCHANGED <<balancesA, totalSupplyA>>
    BY <1>0, <2>1, ApproveOfA
  <2>3. GoodB' /\ UNCHANGED <<balancesB, allowancesB, totalSupplyB>>
    BY <1>0, <2>1, StutterOfB
  <2> QED BY <1>0, <1>1, <2>2, <2>3, ElsewhereEffect
<1>3. CASE token # "A"
  <2>1. B!Approve(w, Manager, amount) /\ UNCHANGED varsA
    BY <1>3, Zenon DEF Approve
  <2>2. GoodB' /\ UNCHANGED <<balancesB, totalSupplyB>>
    BY <1>0, <2>1, ApproveOfB
  <2>3. GoodA' /\ UNCHANGED <<balancesA, allowancesA, totalSupplyA>>
    BY <1>0, <2>1, StutterOfA
  <2> QED BY <1>0, <1>1, <2>2, <2>3, ElsewhereEffect
<1> QED BY <1>2, <1>3

LEMMA TokenEffect ==
  ASSUME DInv, TokenStep
  PROVE  Effect /\ UNCHANGED <<totalSupplyA, totalSupplyB>>
<1>0. /\ GoodA /\ GoodB /\ readable \in SUBSET (Tokens \X Wallets)
      /\ Traded \subseteq Amounts /\ 0 \in Amounts /\ {"A", "B"} \subseteq Tokens
  BY DVDAssumption, SettingA DEF DInv, StateOK, Tokens
<1>1. ASSUME UNCHANGED managerVars, NEW from \in Wallets, NEW to \in Wallets,
             NEW amount \in Traded, NEW answer \in Answers,
             A!Transfer(from, to, amount, answer), UNCHANGED varsB,
             readable' = ReadableAfter(readable, "A", from, to)
      PROVE  Effect /\ UNCHANGED <<totalSupplyA, totalSupplyB>>
  <2>1. GoodA' /\ UNCHANGED <<allowancesA, totalSupplyA>>
    BY <1>0, <1>1, TransferOfA
  <2>2. GoodB' /\ UNCHANGED <<balancesB, allowancesB, totalSupplyB>>
    BY <1>0, <1>1, StutterOfB
  <2>3. readable' \subseteq Tokens \X Wallets
    BY <1>0, <1>1, ReadableType
  <2> QED BY <1>1, <2>1, <2>2, <2>3, ElsewhereEffect
<1>2. ASSUME UNCHANGED managerVars, NEW from \in Wallets, NEW to \in Wallets,
             NEW amount \in Traded, NEW answer \in Answers,
             B!Transfer(from, to, amount, answer), UNCHANGED varsA,
             readable' = ReadableAfter(readable, "B", from, to)
      PROVE  Effect /\ UNCHANGED <<totalSupplyA, totalSupplyB>>
  <2>1. GoodB' /\ UNCHANGED <<allowancesB, totalSupplyB>>
    BY <1>0, <1>2, TransferOfB
  <2>2. GoodA' /\ UNCHANGED <<balancesA, allowancesA, totalSupplyA>>
    BY <1>0, <1>2, StutterOfA
  <2>3. readable' \subseteq Tokens \X Wallets
    BY <1>0, <1>2, ReadableType
  <2> QED BY <1>2, <2>1, <2>2, <2>3, ElsewhereEffect
<1>3. ASSUME UNCHANGED <<readable, managerVars>>, NEW w \in Wallets, NEW amount \in Amounts,
             \/ A!FreezePartialTokens(w, amount)
             \/ A!ClaimsChange(w)
             \/ A!SetAddressFrozen(w, TRUE),
             UNCHANGED varsB
      PROVE  Effect /\ UNCHANGED <<totalSupplyA, totalSupplyB>>
  <2>1. GoodA' /\ UNCHANGED <<balancesA, allowancesA, totalSupplyA>>
    BY <1>0, <1>3, RestOfA
  <2>2. GoodB' /\ UNCHANGED <<balancesB, allowancesB, totalSupplyB>>
    BY <1>0, <1>3, StutterOfB
  <2> QED BY <1>0, <1>3, <2>1, <2>2, ElsewhereEffect
<1>4. ASSUME UNCHANGED <<readable, managerVars>>, NEW w \in Wallets, NEW amount \in Amounts,
             \/ B!FreezePartialTokens(w, amount)
             \/ B!ClaimsChange(w)
             \/ B!SetAddressFrozen(w, TRUE),
             UNCHANGED varsA
      PROVE  Effect /\ UNCHANGED <<totalSupplyA, totalSupplyB>>
  <2>1. GoodB' /\ UNCHANGED <<balancesB, allowancesB, totalSupplyB>>
    BY <1>0, <1>4, RestOfB
  <2>2. GoodA' /\ UNCHANGED <<balancesA, allowancesA, totalSupplyA>>
    BY <1>0, <1>4, StutterOfA
  <2> QED BY <1>0, <1>4, <2>1, <2>2, ElsewhereEffect
<1>5. CASE TokenStep!1
  BY <1>1, <1>2, <1>5
<1>6. CASE TokenStep!2
  BY <1>0, <1>3, <1>4, <1>6
<1>7. CASE TokenStep!3
  BY <1>0, <1>3, <1>4, <1>7
<1>8. CASE TokenStep!4
  BY <1>8, ApproveEffect
<1> QED BY <1>5, <1>6, <1>7, <1>8 DEF TokenStep
LEMMA InitiateEffect ==
  ASSUME DInv, NEW d \in Proper, InitiateDVDTransfer(d)
  PROVE  /\ Effect /\ UNCHANGED <<totalSupplyA, totalSupplyB>>
         /\ Len(deliveries') \in DOMAIN deliveries'
<1>0. /\ GoodA /\ GoodB /\ readable \subseteq Tokens \X Wallets
      /\ deliveries \in Seq(Proper) /\ open \subseteq DOMAIN deliveries
  BY DEF DInv, StateOK
<1>1. /\ deliveries' \in Seq(Proper) /\ Len(deliveries') = Len(deliveries) + 1
      /\ open' = open \cup {Len(deliveries')}
      /\ UNCHANGED <<varsA, varsB, readable>>
      /\ Deliveries!Open
  BY <1>0, OpenStep
<1>2. /\ GoodA' /\ GoodB' /\ UNCHANGED <<totalSupplyA, totalSupplyB>>
  BY <1>0, <1>1, StutterOfA, StutterOfB
<1>3. /\ Len(deliveries) \in Nat
      /\ DOMAIN deliveries = 1 .. Len(deliveries) /\ DOMAIN deliveries' = 1 .. Len(deliveries')
  BY <1>0, <1>1, LenProperties
<1>4. /\ DOMAIN deliveries \subseteq DOMAIN deliveries'
      /\ Len(deliveries') \in DOMAIN deliveries'
  BY <1>1, <1>3
<1> QED BY <1>0, <1>1, <1>2, <1>4 DEF Effect, Deliveries!Next

LEMMA TakeEffect ==
  ASSUME DInv, NEW id \in open, NEW caller, NEW answer1 \in Answers, NEW answer2 \in Answers,
         TakeDVDTransfer(id, caller, answer1, answer2)
  PROVE  Effect /\ UNCHANGED <<totalSupplyA, totalSupplyB>>
<1>0. /\ GoodA /\ GoodB /\ readable \in SUBSET (Tokens \X Wallets)
      /\ deliveries \in Seq(Proper) /\ open \subseteq DOMAIN deliveries
  BY DEF DInv, StateOK
<1>1. /\ GoodA' /\ GoodB'
      /\ UNCHANGED <<totalSupplyA, totalSupplyB, deliveries>>
      /\ open' = open \ {id}
      /\ Deliveries!Settle(id)
  BY <1>0, SettleStep
<1> DEFINE d == deliveries[id]
<1>2. d \in Proper
  BY <1>0, LenProperties, ElementOfSeq
<1>3. /\ d.maker \in Wallets /\ d.taker \in Wallets /\ d.token1 \in Tokens /\ d.token2 \in Tokens
  BY <1>2 DEF Proper, Delivery
<1>4. readable' = ReadableAfter(ReadableAfter(readable, d.token1, d.maker, d.taker),
                                d.token2, d.taker, d.maker)
  BY DEF TakeDVDTransfer
<1> HIDE DEF d
<1>5. ReadableAfter(readable, d.token1, d.maker, d.taker) \in SUBSET (Tokens \X Wallets)
  BY <1>0, <1>3, ReadableType
<1>6. readable' \in SUBSET (Tokens \X Wallets)
  BY <1>3, <1>4, <1>5, ReadableType
<1> QED BY <1>0, <1>1, <1>6 DEF Effect, Deliveries!Next

LEMMA CancelEffect ==
  ASSUME DInv, NEW id \in open, NEW caller, CancelDVDTransfer(id, caller)
  PROVE  Effect /\ UNCHANGED <<totalSupplyA, totalSupplyB>>
<1>0. /\ GoodA /\ GoodB /\ readable \subseteq Tokens \X Wallets
      /\ deliveries \in Seq(Proper) /\ open \subseteq DOMAIN deliveries
  BY DEF DInv, StateOK
<1>1. /\ open' = open \ {id}
      /\ UNCHANGED <<varsA, varsB, readable, deliveries>>
      /\ Deliveries!Cancel(id)
  BY CancelStep
<1>2. GoodA' /\ GoodB' /\ UNCHANGED <<totalSupplyA, totalSupplyB>>
  BY <1>0, <1>1, StutterOfA, StutterOfB
<1> QED BY <1>0, <1>1, <1>2 DEF Effect, Deliveries!Next

LEMMA ManagerEffect ==
  ASSUME DInv, ManagerStep
  PROVE  Effect /\ UNCHANGED <<totalSupplyA, totalSupplyB>>
<1>1. CASE ManagerStep!1
  <2>1. PICK d \in Delivery : d.token1 # d.token2 /\ InitiateDVDTransfer(d)
    BY <1>1
  <2> QED BY <2>1, InitiateEffect DEF Proper
<1>2. CASE ManagerStep!2
  BY <1>2, TakeEffect, CancelEffect
<1> QED BY <1>1, <1>2 DEF ManagerStep

LEMMA OthersEffect ==
  ASSUME DInv, OthersStep
  PROVE  DInv' /\ Deliveries!Next
<1>1. Effect /\ UNCHANGED <<totalSupplyA, totalSupplyB, step, outcome, transferId>>
  BY TokenEffect, ManagerEffect DEF OthersStep, scriptVars
<1> QED BY <1>1 DEF Effect, DInv, StateOK

(* What the script does, transaction by transaction.                        *)
LEMMA TransactionEffect ==
  ASSUME DInv, NEW answer1 \in Answers, NEW answer2 \in Answers,
         Transaction(Script[step], answer1, answer2)
  PROVE  /\ Effect
         /\ step > 1 => UNCHANGED totalSupplyA
         /\ step > 3 => UNCHANGED totalSupplyB
         /\ step <= 2 => UNCHANGED totalSupplyB
         /\ Script[step] = "initiate" => Len(deliveries') \in DOMAIN deliveries'
<1> DEFINE name == Script[step]
<1>0. /\ step \in 1 .. 12 /\ (step <= 1 => totalSupplyA = 0) /\ (step <= 3 => totalSupplyB = 0)
      /\ Thousand \in Amounts /\ FiveHundred \in Amounts /\ Alice \in Wallets /\ Bob \in Wallets
      /\ "A" \in Tokens /\ "B" \in Tokens
  BY ScriptIs, DVDAssumption, WordSizeAssumption
     DEF DInv, StateOK, Thousand, FiveHundred, Amounts, Tokens
<1>1. /\ name = "mintA" => step = 1
      /\ name = "mintB" => step = 3
  BY <1>0, ScriptIs DEF Transactions, Results
<1>2. CASE name = "mintA" /\ Mint("A", Alice, Thousand, answer1)
  BY <1>0, <1>1, <1>2, MintEffect
<1>3. CASE name = "mintB" /\ Mint("B", Bob, Thousand, answer1)
  BY <1>0, <1>1, <1>3, MintEffect
<1>4. CASE name = "approveA" /\ Approve("A", Alice, Thousand)
  BY <1>0, <1>4, ApproveEffect
<1>5. CASE name = "approveB" /\ Approve("B", Bob, FiveHundred)
  BY <1>0, <1>5, ApproveEffect
<1>6. CASE name = "initiate" /\ InitiateDVDTransfer(TheSwap)
  <2>1. TheSwap \in Proper
    BY <1>0 DEF TheSwap, Proper, Delivery
  <2> QED BY <1>6, <2>1, InitiateEffect
<1>7. CASE name = "take" /\ TakeDVDTransfer(transferId, Bob, answer1, answer2)
  <2>1. transferId \in open
    BY <1>7 DEF TakeDVDTransfer
  <2> QED BY <1>7, <2>1, TakeEffect
<1> QED BY <1>2, <1>3, <1>4, <1>5, <1>6, <1>7 DEF Transaction

LEMMA ProceedType ==
  ASSUME step \in DOMAIN Script, Proceed
  PROVE  /\ step' \in DOMAIN Script /\ outcome' \in {"running", "done", "failed"}
         /\ step' >= step /\ (step' = step \/ step' = step + 1)
         /\ step \in Nat /\ (step <= 11 => step' = step + 1)
BY ScriptIs DEF Proceed

LEMMA ScriptEffect ==
  ASSUME DInv, ScriptStep
  PROVE  DInv' /\ (Deliveries!Next \/ UNCHANGED Deliveries!vars)
<1>0. /\ GoodA /\ GoodB /\ StateOK /\ step \in DOMAIN Script /\ step \in 1 .. 12
  BY ScriptIs DEF DInv, StateOK
<1>1. CASE ScriptSends
  <2>1. PICK answer1 \in Answers, answer2 \in Answers :
          Transaction(Script[step], answer1, answer2)
    BY <1>1 DEF ScriptSends
  <2>2. /\ Effect
        /\ step > 1 => UNCHANGED totalSupplyA
        /\ step > 3 => UNCHANGED totalSupplyB
        /\ step <= 2 => UNCHANGED totalSupplyB
        /\ Script[step] = "initiate" => Len(deliveries') \in DOMAIN deliveries'
    BY <2>1, TransactionEffect
  <2>3. /\ step' \in DOMAIN Script /\ outcome' \in {"running", "done", "failed"}
        /\ step' >= step /\ (step' = step \/ step' = step + 1)
        /\ step <= 11 => step' = step + 1
    BY <1>0, <1>1, ProceedType DEF ScriptSends
  <2>4. transferId' \in DOMAIN deliveries' \cup {0}
    BY <1>0, <1>1, <2>2 DEF ScriptSends, Effect, StateOK
  <2>5. /\ step' <= 1 => totalSupplyA' = 0
        /\ step' <= 3 => totalSupplyB' = 0
    BY <1>0, <2>2, <2>3 DEF StateOK
  <2> QED BY <2>2, <2>3, <2>4, <2>5 DEF Effect, DInv, StateOK
<1>2. CASE ScriptDecrypts \/ ScriptThrows
  <2>1. /\ UNCHANGED <<varsA, varsB, readable, deliveries, open, transferId>>
        /\ step' \in DOMAIN Script /\ outcome' \in {"running", "done", "failed"}
        /\ step' >= step
    BY <1>0, <1>2, ProceedType DEF ScriptDecrypts, ScriptThrows, managerVars
  <2>2. /\ GoodA' /\ GoodB'
        /\ UNCHANGED <<balancesA, allowancesA, totalSupplyA>>
        /\ UNCHANGED <<balancesB, allowancesB, totalSupplyB>>
    BY <1>0, <2>1, StutterOfA, StutterOfB
  <2>3. UNCHANGED Deliveries!vars
    BY <2>1, <2>2 DEF Deliveries!vars, Deliveries!book
  <2>4. /\ step' <= 1 => totalSupplyA' = 0
        /\ step' <= 3 => totalSupplyB' = 0
    <3>1. step' \in 1 .. 12
      BY <2>1, ScriptIs
    <3> QED BY <1>0, <2>1, <2>2, <3>1 DEF StateOK
  <2> QED BY <1>0, <2>1, <2>2, <2>3, <2>4 DEF DInv, StateOK
<1> QED BY <1>1, <1>2 DEF ScriptStep

(* Every step of the swap is a step of the settlement, or none.            *)
LEMMA NextEffect == DInv /\ [Next]_vars => DInv' /\ [Deliveries!Next]_(Deliveries!vars)
<1> SUFFICES ASSUME DInv, [Next]_vars PROVE DInv' /\ [Deliveries!Next]_(Deliveries!vars)
  OBVIOUS
<1>1. CASE ScriptStep
  BY <1>1, ScriptEffect
<1>2. CASE OthersStep
  BY <1>2, OthersEffect
<1>3. CASE UNCHANGED vars
  <2>1. UNCHANGED <<varsA, varsB, readable, deliveries, open, step, outcome, transferId>>
    BY <1>3 DEF vars, managerVars, scriptVars
  <2>2. /\ GoodA' /\ GoodB'
        /\ UNCHANGED <<balancesA, allowancesA, totalSupplyA>>
        /\ UNCHANGED <<balancesB, allowancesB, totalSupplyB>>
    BY <2>1, StutterOfA, StutterOfB DEF DInv
  <2>3. UNCHANGED Deliveries!vars
    BY <2>1, <2>2 DEF Deliveries!vars, Deliveries!book
  <2> QED BY <2>1, <2>2, <2>3 DEF DInv, StateOK
<1> QED BY <1>1, <1>2, <1>3 DEF Next

LEMMA InitEffect == Init => DInv /\ Deliveries!Init
<1> SUFFICES ASSUME Init PROVE DInv /\ Deliveries!Init
  OBVIOUS
<1>1. GoodA /\ GoodB /\ totalSupplyA = 0 /\ totalSupplyB = 0
  BY InitOfA, InitOfB
<1>2. /\ readable = {} /\ deliveries = <<>> /\ open = {}
      /\ step = 1 /\ outcome = "running" /\ transferId = 0
  BY DEF Init
<1>3. DInv
  BY <1>1, <1>2, ScriptIs, EmptySeq DEF DInv, StateOK
<1>4. /\ Both(balancesA, balancesB) \in [Tokens -> [Wallets -> Amounts]]
      /\ Approved(allowancesA, allowancesB) \in [Tokens -> [Wallets -> Amounts]]
      /\ Deliveries!Amounts = Amounts
  BY <1>1, GoodTypes, BooksType DEF Deliveries!Amounts, Amounts
<1>5. Book(deliveries) = <<>>
  BY <1>2 DEF Book
<1> QED BY <1>2, <1>3, <1>4, <1>5 DEF Deliveries!Init, Both, Approved, Book, Entry

(* Both tokens stay within their words under everything the script, the    *)
(* manager and others do; readable, deliveries and open keep their types, and *)
(* the script never leaves its list of steps.                              *)
THEOREM DVDTypes == Spec => []DVDTypeOK
<1>1. DInv => DVDTypeOK
  <2> SUFFICES ASSUME DInv PROVE DVDTypeOK
    OBVIOUS
  <2>1. A!TypeOK /\ B!TypeOK
    BY SameTypeA, SameTypeB DEF DInv, GoodA, GoodB, PA!IInv, PB!IInv
  <2>2. deliveries \in Seq(Delivery)
    <3>1. deliveries \in Seq(Proper) /\ Proper \subseteq Delivery
      BY DEF DInv, StateOK, Proper
    <3> QED BY <3>1, SeqMonotonic
  <2> QED BY <2>1, <2>2 DEF DVDTypeOK, DInv, StateOK
<1> QED BY <1>1, InitEffect, NextEffect, PTL DEF Spec

(* Every delivery is settled or cancelled at most once; each of its sides is *)
(* delivered in full or not at all, out of what its giver holds and within *)
(* the allowance that the token has on record; and nothing but a settlement *)
(* spends an approval.                                                     *)
THEOREM SwapsAreDeliveries == Spec => DeliversAsAgreed
<1>1. Deliveries!Init /\ [][Deliveries!Next]_(Deliveries!vars) => Deliveries!Spec
  BY PTL DEF Deliveries!Spec
<1> QED BY <1>1, InitEffect, NextEffect, PTL DEF Spec, DeliversAsAgreed
=============================================================================
