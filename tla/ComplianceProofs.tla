-------------------------- MODULE ComplianceProofs --------------------------
(***************************************************************************)
(* The token under its modules is the token of Token: every answer that the  *)
(* modules compute is one that Token allows for, and nothing the registry or *)
(* the owner of the compliance does touches the ledger.  What TokenProofs    *)
(* proves of the ledger therefore holds under the modules.                  *)
(***************************************************************************)
EXTENDS Compliance, TokenProofs, SequenceTheorems

(* The inductive invariant: that of the ledger, and the types.              *)
CInv == IInv /\ ComplianceTypeOK

cvars == <<vars, complianceVars>>

LEMMA FeeOfType ==
  ASSUME NEW v \in Amounts, feeRate \in 0 .. FullRate
  PROVE  FeeOf(v) \in Amounts
<1>1. v * feeRate \in Nat
  BY WordSizeAssumption, ComplianceAssumption DEF Amounts
<1>2. (v * feeRate) % WordSize \in 0 .. WordSize - 1
  BY <1>1, WordSizeAssumption
<1>3. ASSUME NEW x \in 0 .. WordSize - 1
      PROVE  x \div FullRate \in 0 .. WordSize - 1
  BY WordSizeAssumption, ComplianceAssumption
<1> QED BY <1>2, <1>3 DEF FeeOf, Amounts

(* What the modules answer is an answer, whatever their book says.          *)
LEMMA ToldAnswers ==
  ASSUME NEW ids, NEW known, NEW from, NEW to, NEW can \in BOOLEAN, NEW v \in Amounts,
         feeRate \in 0 .. FullRate
  PROVE  Told(ids, known, from, to, can, v).answer \in Answers
<1> DEFINE t == Told(ids, known, from, to, can, v).answer
<1>1. t.fee \in Fees
  BY FeeOfType, ComplianceAssumption, WordClosed DEF Told
<1>2. t \in [can : BOOLEAN, done : BOOLEAN, charges : BOOLEAN, fee : Fees, feeDone : BOOLEAN]
  BY <1>1 DEF Told, Accepts, Charges, Bound
<1>3. t.fee = 0 => t.feeDone
  <2> DEFINE fee    == IF Charges(ids, from, to) THEN FeeOf(v) ELSE 0
             nested == Charges(ids, from, to) /\ Collector \in known
             heard(book) == Accepts(book, ids[Collector], Covered(Current, to, fee))
  <2>1. t.fee = fee
    BY DEF Told
  <2>2. \E book : t.feeDone = (fee > 0 /\ nested => heard(book))
    BY DEF Told
  <2> HIDE DEF fee, nested, heard
  <2>3. fee = 0 => ~(fee > 0)
    OBVIOUS
  <2> QED BY <2>1, <2>2, <2>3, Zenon
<1>4. ~t.charges => t.fee = 0
  BY DEF Told
<1> QED BY <1>2, <1>3, <1>4 DEF Answers

-----------------------------------------------------------------------------
(* Every step is a step of the ledger or leaves it alone.                   *)

LEMMA AskedAnswers ==
  ASSUME CInv, NEW from, NEW to, NEW covered \in Amounts
  PROVE  Asked(from, to, covered).answer \in Answers
<1> DEFINE can == MayReceive(identity[to], covered)
           v   == Select(can, covered, 0)
<1>1. can \in BOOLEAN
  BY DEF MayReceive
<1>2. v \in Amounts
  BY SelectType
<1>3. feeRate \in 0 .. FullRate
  BY DEF CInv, ComplianceTypeOK
<1>4. Asked(from, to, covered) = Told(identity, verified, from, to, can, v)
  BY DEF Asked
<1> HIDE DEF can, v
<1> QED BY <1>1, <1>2, <1>3, <1>4, ToldAnswers

LEMMA NotToldAnswers == NotTold.answer \in Answers
<1>1. 0 \in Fees
  BY WordSizeAssumption, ComplianceAssumption DEF Amounts
<1> QED BY <1>1 DEF NotTold, Answers

LEMMA HolderIsLedgerStep ==
  ASSUME CInv, NEW from \in Wallets, NEW to \in Wallets, NEW amount \in Amounts,
         CompliantTransfer(from, to, amount)
           \/ \E s \in Spenders : CompliantTransferFrom(s, from, to, amount)
  PROVE  HolderStep
<1>1. CASE CompliantTransfer(from, to, amount)
  <2> DEFINE c == Select(amount <= FreeTokens(Current, from), amount, 0)
             a == Asked(from, to, c).answer
  <2>1. c \in Amounts
    BY SelectType
  <2>2. Transfer(from, to, amount, a)
    BY <1>1 DEF CompliantTransfer
  <2> HIDE DEF c
  <2>3. a \in Answers
    BY <2>1, AskedAnswers
  <2> HIDE DEF a
  <2> QED BY <2>2, <2>3 DEF HolderStep
<1>2. ASSUME NEW s \in Spenders, CompliantTransferFrom(s, from, to, amount) PROVE HolderStep
  <2> DEFINE c == Select(Spendable(s, from, amount), amount, 0)
             a == Asked(from, to, c).answer
  <2>1. c \in Amounts
    BY SelectType
  <2>2. TransferFrom(s, from, to, amount, a)
    BY <1>2 DEF CompliantTransferFrom
  <2> HIDE DEF c
  <2>3. a \in Answers
    BY <2>1, AskedAnswers
  <2> HIDE DEF a
  <2> QED BY <2>2, <2>3 DEF HolderStep
<1> QED BY <1>1, <1>2

LEMMA ForcedIsLedgerStep ==
  ASSUME CInv, NEW from \in Wallets, NEW to \in Wallets, NEW amount \in Amounts,
         CompliantForcedTransfer(from, to, amount)
  PROVE  AgentStep
<1> DEFINE told == IF to \in verified
                   THEN Told(identity, verified, from, to, TRUE, Covered(Current, from, amount))
                   ELSE NotTold
<1>1. Covered(Current, from, amount) \in Amounts
  BY CurrentType, CoveredType DEF CInv, IInv
<1>2. told.answer \in Answers
  BY <1>1, ToldAnswers, NotToldAnswers DEF CInv, ComplianceTypeOK
<1>3. ForcedTransfer(from, to, amount, told.answer)
  BY DEF CompliantForcedTransfer
<1> HIDE DEF told
<1> QED BY <1>2, <1>3 DEF AgentStep

LEMMA RecoveryIsLedgerStep ==
  ASSUME CInv, NEW lost \in Wallets, NEW new \in Wallets, NEW id \in Identities,
         CompliantRecovery(lost, new, id)
  PROVE  AgentStep
<1> DEFINE ids   == [identity EXCEPT ![new] = id]
           valid == id \in verifiedIds
           known == IF valid THEN verified \cup {new} ELSE verified
           told  == IF valid THEN Told(ids, known, lost, new, TRUE, balances[lost]) ELSE NotTold
<1>1. balances[lost] \in Amounts /\ valid \in BOOLEAN
  BY DEF CInv, IInv, TypeOK
<1>2. told.answer \in Answers
  BY <1>1, ToldAnswers, NotToldAnswers DEF CInv, ComplianceTypeOK
<1>3. RecoverAddress(lost, new, valid, told.answer)
  BY DEF CompliantRecovery
<1> HIDE DEF told, valid
<1> QED BY <1>1, <1>2, <1>3 DEF AgentStep

LEMMA MintIsLedgerStep ==
  ASSUME CInv, NEW to \in Wallets, NEW amount \in Amounts, CompliantMint(to, amount)
  PROVE  AgentStep
<1> DEFINE can == MayCreate(identity[to], amount)
           v   == Select(can, amount, 0)
           ok  == Accepts(idBalance, identity[to], v)
           answer == [NotTold.answer EXCEPT !.can = can, !.done = ok]
<1>1. can \in BOOLEAN /\ ok \in BOOLEAN
  BY DEF MayCreate, Accepts
<1>2. Mint(to, amount, answer)
  BY DEF CompliantMint
<1> HIDE DEF can, ok
<1>3. answer \in Answers
  BY <1>1, WordClosed, ComplianceAssumption DEF NotTold, Answers
<1> HIDE DEF answer
<1> QED BY <1>2, <1>3 DEF AgentStep

LEMMA IdentityIsLedgerStep ==
  ASSUME CInv, IdentityStep
  PROVE  RegistryStep
<1>1. registered \subseteq Wallets /\ verified \subseteq registered
  BY DEF CInv, IInv, TypeOK
<1>2. ASSUME NEW w \in Wallets, NEW id \in Identities, Register(w, id) PROVE RegistryStep
  <2> DEFINE valid == id \in verifiedIds
  <2>1. RegisterIdentity(w, valid) /\ valid \in BOOLEAN
    BY <1>2 DEF Register
  <2> HIDE DEF valid
  <2> QED BY <2>1 DEF RegistryStep
<1>3. ASSUME NEW w \in Wallets, NEW id \in Identities, UpdateIdentity(w, id) PROVE RegistryStep
  <2> DEFINE valid == IF id \in verifiedIds THEN verified \cup {w} ELSE verified \ {w}
  <2>1. SetIdentityRegistry(registered, valid) /\ valid \in SUBSET Wallets
    BY <1>1, <1>3 DEF UpdateIdentity
  <2> QED BY <1>1, <2>1 DEF RegistryStep
<1>4. ASSUME NEW w \in Wallets, Deregister(w) PROVE RegistryStep
  BY <1>4 DEF Deregister, RegistryStep
<1>5. ASSUME NEW id \in Identities, ClaimsOf(id) PROVE RegistryStep
  <2> DEFINE ids   == IF id \in verifiedIds THEN verifiedIds \ {id} ELSE verifiedIds \cup {id}
             valid == {w \in registered : identity[w] \in ids}
  <2>1. SetIdentityRegistry(registered, valid) /\ valid \in SUBSET Wallets
    BY <1>1, <1>5 DEF ClaimsOf
  <2> HIDE DEF valid
  <2> QED BY <1>1, <2>1 DEF RegistryStep
<1> QED BY <1>2, <1>3, <1>4, <1>5 DEF IdentityStep

LEMMA OwnerLeavesLedger == OwnerStep => UNCHANGED vars
BY DEF OwnerStep, AddModule, RemoveModule, PreSetModuleState, PresetCompleted, SetMaxBalance,
       SetSupplyLimit, SetFee

LEMMA SilentIsLedgerStep == SilentStep => Next
BY DEF SilentStep, Next, AgentStep

LEMMA CompliantIsLedgerStep ==
  ASSUME CInv, CompliantStep
  PROVE  Next
<1>1. ASSUME NEW w \in Wallets, NEW amount \in Amounts, CompliantBurn(w, amount) PROVE AgentStep
  BY <1>1 DEF CompliantBurn, AgentStep
<1> QED BY <1>1, HolderIsLedgerStep, ForcedIsLedgerStep, RecoveryIsLedgerStep, MintIsLedgerStep
        DEF CompliantStep, Next

LEMMA StepIsLedgerStep == CInv /\ [ComplianceNext]_cvars => [Next]_vars
BY CompliantIsLedgerStep, IdentityIsLedgerStep, OwnerLeavesLedger, SilentIsLedgerStep
   DEF ComplianceNext, cvars, Next

-----------------------------------------------------------------------------
(* Types.  The parts of the type invariant, one for each kind of state.     *)

RegistryOK ==
  /\ identity \in [Wallets -> Identities \cup {NoIdentity}]
  /\ registered = {w \in Wallets : identity[w] # NoIdentity}
  /\ verified = {w \in Wallets : identity[w] \in verifiedIds}
  /\ verifiedIds \subseteq Identities

ModulesOK ==
  /\ modules \in Seq(ComplianceModules)
  /\ \A i, j \in DOMAIN modules : modules[i] = modules[j] => i = j

BookOK ==
  /\ idBalance \in [Identities -> Amounts]
  /\ bookedIds \subseteq Identities

RulesOK ==
  /\ maxBalance \in Amounts /\ supplyLimit \in Amounts
  /\ feeRate \in 0 .. FullRate
  /\ {presetDone, strayed, supplyKnown} \subseteq BOOLEAN

LEMMA TypeParts == ComplianceTypeOK <=> RegistryOK /\ ModulesOK /\ BookOK /\ RulesOK
BY DEF ComplianceTypeOK, RegistryOK, ModulesOK, BookOK, RulesOK

(* An identity that MaxBalance looks up is one.                             *)
LEMMA IdentifiedType ==
  ASSUME NEW ids \in [Wallets -> Identities \cup {NoIdentity}], NEW ws \in SUBSET Wallets,
         Identified(ids, ws), Bound(MaxBalanceModule)
  PROVE  \A w \in ws : ids[w] \in Identities
BY DEF Identified

LEMMA BookedType ==
  ASSUME NEW book \in [Identities -> Amounts], NEW from, NEW to, NEW v \in Amounts,
         Bound(MaxBalanceModule) => from \in Identities /\ to \in Identities
  PROVE  Booked(book, from, to, v) \in [Identities -> Amounts]
<1>1. CASE ~Bound(MaxBalanceModule)
  BY <1>1 DEF Booked
<1>2. CASE Bound(MaxBalanceModule)
  <2> DEFINE saved    == Select(WithinMax(book, to, v), v, 0)
             x        == AddWord(book[to], saved)
             credited == [book EXCEPT ![to] = x]
             y        == SubWord(credited[from], saved)
  <2>1. from \in Identities /\ to \in Identities
    BY <1>2
  <2>2. saved \in Amounts
    BY SelectType
  <2>3. Booked(book, from, to, v) = [credited EXCEPT ![from] = y]
    BY <1>2 DEF Booked
  <2> HIDE DEF saved
  <2>4. x \in Amounts
    BY <2>1, <2>2, WordClosed
  <2> HIDE DEF x
  <2>5. credited \in [Identities -> Amounts]
    BY <2>4
  <2>6. y \in Amounts
    BY <2>1, <2>2, <2>5, WordClosed
  <2> HIDE DEF credited, y
  <2> QED BY <2>3, <2>5, <2>6
<1> QED BY <1>1, <1>2

(* What telling the modules leaves in the book of MaxBalance.               *)
LEMMA ToldBook ==
  ASSUME CInv, NEW ids \in [Wallets -> Identities \cup {NoIdentity}], NEW known,
         NEW from \in Wallets, NEW to \in Wallets, NEW can, NEW v \in Amounts,
         Identified(ids, {from, to}),
         Collector \in known => ids[Collector] \in Identities
  PROVE  LET told == Told(ids, known, from, to, can, v)
         IN  /\ told.book \in [Identities -> Amounts]
             /\ Bound(MaxBalanceModule) => told.ids \subseteq Identities
<1> DEFINE charges == Charges(ids, from, to)
           fee     == IF charges THEN FeeOf(v) ELSE 0
           paid    == Covered(Current, to, fee)
           nested  == charges /\ Collector \in known
           WithFee(book) == IF nested THEN Booked(book, ids[to], ids[Collector], paid) ELSE book
           WithMove(book) == Booked(book, ids[from], ids[to], v)
           beforeMove == IF FeeComesFirst THEN WithFee(idBalance) ELSE idBalance
           beforeFee  == IF FeeComesFirst THEN idBalance ELSE WithMove(idBalance)
           told == Told(ids, known, from, to, can, v)
<1>1. /\ Bound(MaxBalanceModule) => ids[from] \in Identities /\ ids[to] \in Identities
      /\ nested => ids[Collector] \in Identities
  BY IdentifiedType
<1>2. idBalance \in [Identities -> Amounts]
  BY DEF CInv, ComplianceTypeOK
<1>3. paid \in Amounts
  <2>1. fee \in Amounts
    BY FeeOfType, WordClosed DEF CInv, ComplianceTypeOK
  <2> HIDE DEF fee
  <2> QED BY <2>1, CurrentType, CoveredType DEF CInv, IInv
<1>4. /\ told.book = IF FeeComesFirst THEN WithMove(beforeMove) ELSE WithFee(beforeFee)
      /\ told.ids = {ids[from], ids[to]} \cup (IF nested THEN {ids[Collector]} ELSE {})
  BY DEF Told
<1> HIDE DEF paid, nested, told
<1>5. ASSUME NEW book \in [Identities -> Amounts]
      PROVE  /\ WithFee(book) \in [Identities -> Amounts]
             /\ WithMove(book) \in [Identities -> Amounts]
  BY <1>1, <1>3, BookedType
<1> HIDE DEF WithFee, WithMove
<1>6. told.book \in [Identities -> Amounts]
  BY <1>2, <1>4, <1>5
<1>7. Bound(MaxBalanceModule) => told.ids \subseteq Identities
  BY <1>1, <1>4
<1> QED BY <1>6, <1>7 DEF told

LEMMA NotToldBook ==
  ASSUME CInv
  PROVE  NotTold.book \in [Identities -> Amounts] /\ NotTold.ids \subseteq Identities
BY DEF NotTold, CInv, ComplianceTypeOK

LEMMA KeepType ==
  ASSUME CInv, NEW told, Keep(told), told.book \in [Identities -> Amounts],
         Bound(MaxBalanceModule) => told.ids \subseteq Identities
  PROVE  BookOK'
BY DEF Keep, BookOK, CInv, ComplianceTypeOK

LEMMA AskedBook ==
  ASSUME CInv, NEW from \in Wallets, NEW to \in Wallets, NEW covered \in Amounts,
         Identified(identity, {from, to}), Keep(Asked(from, to, covered))
  PROVE  BookOK'
<1> DEFINE can == MayReceive(identity[to], covered)
           v   == Select(can, covered, 0)
           told == Asked(from, to, covered)
<1>1. v \in Amounts
  BY SelectType
<1>2. identity \in [Wallets -> Identities \cup {NoIdentity}]
  BY DEF CInv, ComplianceTypeOK
<1>3. Collector \in verified => identity[Collector] \in Identities
  BY DEF CInv, ComplianceTypeOK
<1>4. told = Told(identity, verified, from, to, can, v)
  BY DEF Asked
<1> HIDE DEF can, v
<1>5. /\ told.book \in [Identities -> Amounts]
      /\ Bound(MaxBalanceModule) => told.ids \subseteq Identities
  BY <1>1, <1>2, <1>3, <1>4, ToldBook
<1> HIDE DEF told
<1>6. Keep(told)
  BY DEF told
<1> QED BY <1>5, <1>6, KeepType

LEMMA HolderBook ==
  ASSUME CInv, NEW from \in Wallets, NEW to \in Wallets, NEW amount \in Amounts,
         CompliantTransfer(from, to, amount)
           \/ \E s \in Spenders : CompliantTransferFrom(s, from, to, amount)
  PROVE  BookOK'
<1>1. CASE CompliantTransfer(from, to, amount)
  <2> DEFINE c == Select(amount <= FreeTokens(Current, from), amount, 0)
  <2>1. c \in Amounts
    BY SelectType
  <2>2. Identified(identity, {from, to}) /\ Keep(Asked(from, to, c))
    BY <1>1 DEF CompliantTransfer
  <2> HIDE DEF c
  <2> QED BY <2>1, <2>2, AskedBook
<1>2. ASSUME NEW s \in Spenders, CompliantTransferFrom(s, from, to, amount) PROVE BookOK'
  <2> DEFINE c == Select(Spendable(s, from, amount), amount, 0)
  <2>1. c \in Amounts
    BY SelectType
  <2>2. Identified(identity, {from, to}) /\ Keep(Asked(from, to, c))
    BY <1>2 DEF CompliantTransferFrom
  <2> HIDE DEF c
  <2> QED BY <2>1, <2>2, AskedBook
<1> QED BY <1>1, <1>2

LEMMA ForcedBook ==
  ASSUME CInv, NEW from \in Wallets, NEW to \in Wallets, NEW amount \in Amounts,
         CompliantForcedTransfer(from, to, amount)
  PROVE  BookOK'
<1> DEFINE v    == Covered(Current, from, amount)
           told == IF to \in verified THEN Told(identity, verified, from, to, TRUE, v) ELSE NotTold
<1>1. v \in Amounts
  BY CurrentType, CoveredType DEF CInv, IInv
<1>2. /\ identity \in [Wallets -> Identities \cup {NoIdentity}]
      /\ Collector \in verified => identity[Collector] \in Identities
  BY DEF CInv, ComplianceTypeOK
<1>3. Keep(told) /\ (to \in verified => Identified(identity, {from, to}))
  BY DEF CompliantForcedTransfer
<1> HIDE DEF v
<1>4. /\ told.book \in [Identities -> Amounts]
      /\ Bound(MaxBalanceModule) => told.ids \subseteq Identities
  BY <1>1, <1>2, <1>3, ToldBook, NotToldBook
<1> HIDE DEF told
<1> QED BY <1>3, <1>4, KeepType

LEMMA RecoveryBook ==
  ASSUME CInv, NEW lost \in Wallets, NEW new \in Wallets, NEW id \in Identities,
         CompliantRecovery(lost, new, id)
  PROVE  BookOK'
<1> DEFINE ids   == [identity EXCEPT ![new] = id]
           valid == id \in verifiedIds
           known == IF valid THEN verified \cup {new} ELSE verified
           told  == IF valid THEN Told(ids, known, lost, new, TRUE, balances[lost]) ELSE NotTold
<1>1. balances[lost] \in Amounts
  BY DEF CInv, IInv, TypeOK
<1>2. /\ ids \in [Wallets -> Identities \cup {NoIdentity}]
      /\ Collector \in known => ids[Collector] \in Identities
  BY DEF CInv, ComplianceTypeOK
<1>3. Keep(told) /\ (valid => Identified(ids, {lost, new}))
  BY DEF CompliantRecovery
<1> HIDE DEF ids, known, valid
<1>4. /\ told.book \in [Identities -> Amounts]
      /\ Bound(MaxBalanceModule) => told.ids \subseteq Identities
  BY <1>1, <1>2, <1>3, ToldBook, NotToldBook
<1> HIDE DEF told
<1> QED BY <1>3, <1>4, KeepType

LEMMA MintBook ==
  ASSUME CInv, NEW to \in Wallets, NEW amount \in Amounts, CompliantMint(to, amount)
  PROVE  BookOK'
<1> DEFINE v   == Select(MayCreate(identity[to], amount), amount, 0)
           ok  == Accepts(idBalance, identity[to], v)
           x   == AddWord(idBalance[identity[to]], Select(ok, v, 0))
<1>1. idBalance \in [Identities -> Amounts] /\ bookedIds \subseteq Identities
  BY DEF CInv, ComplianceTypeOK
<1>2. identity[to] \in Identities
  BY DEF CompliantMint, CInv, ComplianceTypeOK
<1>3. v \in Amounts
  BY SelectType
<1>4. \/ UNCHANGED bookVars
      \/ /\ idBalance' = [idBalance EXCEPT ![identity[to]] = x]
         /\ bookedIds' = bookedIds \cup {identity[to]}
  BY DEF CompliantMint
<1> HIDE DEF v
<1>5. Select(ok, v, 0) \in Amounts
  BY <1>3, SelectType
<1>6. x \in Amounts
  BY <1>1, <1>2, <1>5, WordClosed
<1> HIDE DEF x
<1> QED BY <1>1, <1>2, <1>4, <1>6 DEF BookOK, bookVars

LEMMA BurnBook ==
  ASSUME CInv, NEW w \in Wallets, NEW amount \in Amounts, CompliantBurn(w, amount)
  PROVE  BookOK'
<1> DEFINE x == SubWord(idBalance[identity[w]], Covered(Current, w, amount))
<1>1. idBalance \in [Identities -> Amounts] /\ bookedIds \subseteq Identities
  BY DEF CInv, ComplianceTypeOK
<1>2. Covered(Current, w, amount) \in Amounts
  BY CurrentType, CoveredType DEF CInv, IInv
<1>3. /\ bookedIds' = bookedIds
      /\ \/ idBalance' = idBalance
         \/ /\ idBalance' = [idBalance EXCEPT ![identity[w]] = x]
            /\ identity[w] \in bookedIds
  BY DEF CompliantBurn
<1>4. identity[w] \in Identities => x \in Amounts
  BY <1>1, <1>2, WordClosed
<1> HIDE DEF x
<1> QED BY <1>1, <1>3, <1>4 DEF BookOK

-----------------------------------------------------------------------------
(* The other parts.                                                        *)

LEMMA RegistryInv ==
  ASSUME CInv, IdentityStep
  PROVE  RegistryOK'
<1>0. RegistryOK
  BY TypeParts DEF CInv
<1>1. ASSUME NEW w \in Wallets, NEW id \in Identities, Register(w, id) PROVE RegistryOK'
  BY <1>0, <1>1, ComplianceAssumption DEF RegistryOK, Register, RegisterIdentity
<1>2. ASSUME NEW w \in Wallets, NEW id \in Identities, UpdateIdentity(w, id) PROVE RegistryOK'
  BY <1>0, <1>2, ComplianceAssumption DEF RegistryOK, UpdateIdentity, SetIdentityRegistry
<1>3. ASSUME NEW w \in Wallets, Deregister(w) PROVE RegistryOK'
  BY <1>0, <1>3, ComplianceAssumption DEF RegistryOK, Deregister, DeleteIdentity
<1>4. ASSUME NEW id \in Identities, ClaimsOf(id) PROVE RegistryOK'
  BY <1>0, <1>4, ComplianceAssumption DEF RegistryOK, ClaimsOf, SetIdentityRegistry
<1> QED BY <1>1, <1>2, <1>3, <1>4 DEF IdentityStep

LEMMA RecoveryRegistry ==
  ASSUME CInv, NEW lost \in Wallets, NEW new \in Wallets, NEW id \in Identities,
         CompliantRecovery(lost, new, id)
  PROVE  RegistryOK'
<1> DEFINE ids   == [identity EXCEPT ![new] = id]
           known == IF id \in verifiedIds THEN verified \cup {new} ELSE verified
<1>1. /\ identity' = [ids EXCEPT ![lost] = NoIdentity]
      /\ registered' = (registered \cup {new}) \ {lost}
      /\ verified' = known \ {lost}
      /\ verifiedIds' = verifiedIds
      /\ lost \in registered /\ new \notin registered
  BY DEF CompliantRecovery, RecoverAddress
<1>2. RegistryOK
  BY TypeParts DEF CInv
<1> QED BY <1>1, <1>2, ComplianceAssumption DEF RegistryOK

LEMMA AddModuleInv ==
  ASSUME ModulesOK, NEW m \in ComplianceModules, AddModule(m)
  PROVE  ModulesOK'
<1>1. modules \in Seq(ComplianceModules) /\ Len(modules) \in Nat
  BY DEF ModulesOK
<1>2. modules' = Append(modules, m) /\ \A i \in 1 .. Len(modules) : modules[i] # m
  BY <1>1 DEF AddModule, Bound
<1>3. /\ modules' \in Seq(ComplianceModules)
      /\ Len(modules') = Len(modules) + 1
      /\ \A i \in 1 .. Len(modules) : modules'[i] = modules[i]
      /\ modules'[Len(modules) + 1] = m
  BY <1>1, <1>2, AppendProperties
<1>4. \A i, j \in 1 .. Len(modules) : modules[i] = modules[j] => i = j
  BY <1>1 DEF ModulesOK
<1>5. ASSUME NEW i \in 1 .. Len(modules'), NEW j \in 1 .. Len(modules'), modules'[i] = modules'[j]
      PROVE  i = j
  <2>1. \A k \in 1 .. Len(modules') : k \in 1 .. Len(modules) \/ k = Len(modules) + 1
    BY <1>1, <1>3
  <2> QED BY <1>2, <1>3, <1>4, <1>5, <2>1
<1>6. DOMAIN modules' = 1 .. Len(modules')
  BY <1>3
<1> QED BY <1>3, <1>5, <1>6 DEF ModulesOK

LEMMA RemoveModuleInv ==
  ASSUME ModulesOK, NEW m \in ComplianceModules, RemoveModule(m)
  PROVE  ModulesOK'
<1>1. modules \in Seq(ComplianceModules) /\ Len(modules) \in Nat
  BY DEF ModulesOK
<1>2. PICK i \in 1 .. Len(modules) :
        modules' = SubSeq([modules EXCEPT ![i] = modules[Len(modules)]], 1, Len(modules) - 1)
  <2>1. PICK i \in DOMAIN modules :
          modules' = SubSeq([modules EXCEPT ![i] = modules[Len(modules)]], 1, Len(modules) - 1)
    BY DEF RemoveModule
  <2>2. i \in 1 .. Len(modules)
    BY <1>1
  <2> QED BY <2>1, <2>2
<1> DEFINE last  == modules[Len(modules)]
           moved == [modules EXCEPT ![i] = last]
<1>3. last \in ComplianceModules /\ Len(modules) \in Nat \ {0}
  BY <1>1
<1>4. /\ moved \in Seq(ComplianceModules)
      /\ Len(moved) = Len(modules)
      /\ \A j \in 1 .. Len(modules) : moved[j] = IF j = i THEN last ELSE modules[j]
  BY <1>1, <1>3, ExceptSeq
<1>5. \A j \in 1 .. Len(modules) - 1 : moved[j] \in ComplianceModules
  BY <1>3, <1>4
<1> HIDE DEF moved
<1>6. /\ modules' \in Seq(ComplianceModules)
      /\ Len(modules') = Len(modules) - 1
      /\ \A j \in 1 .. Len(modules) - 1 : modules'[j] = moved[j]
  <2>1. modules' = SubSeq(moved, 1, Len(modules) - 1)
    BY <1>2 DEF moved
  <2>2. 1 \in Int /\ Len(modules) - 1 \in Int
    BY <1>3
  <2>3. /\ modules' \in Seq(ComplianceModules)
        /\ Len(modules') = IF 1 <= Len(modules) - 1 THEN (Len(modules) - 1) - 1 + 1 ELSE 0
        /\ \A j \in 1 .. (Len(modules) - 1) - 1 + 1 : modules'[j] = moved[1 + j - 1]
    BY <1>5, <2>1, <2>2, SubSeqProperties
  <2>4. /\ (Len(modules) - 1) - 1 + 1 = Len(modules) - 1
        /\ \A j \in 1 .. Len(modules) - 1 : 1 + j - 1 = j
        /\ Len(modules) - 1 = IF 1 <= Len(modules) - 1 THEN (Len(modules) - 1) - 1 + 1 ELSE 0
    BY <1>3
  <2>5. Len(modules') = Len(modules) - 1
    BY <2>3, <2>4, Zenon
  <2>6. \A j \in 1 .. Len(modules) - 1 : modules'[j] = moved[1 + j - 1]
    BY <2>3, <2>4, Zenon
  <2>7. \A j \in 1 .. Len(modules) - 1 : modules'[j] = moved[j]
    BY <2>4, <2>6, Zenon
  <2> QED BY <2>3, <2>5, <2>7
<1>7. \A j, k \in 1 .. Len(modules) : modules[j] = modules[k] => j = k
  BY <1>1 DEF ModulesOK
<1>8. ASSUME NEW j \in 1 .. Len(modules'), NEW k \in 1 .. Len(modules'), modules'[j] = modules'[k]
      PROVE  j = k
  <2>1. /\ modules'[j] = IF j = i THEN last ELSE modules[j]
        /\ modules'[k] = IF k = i THEN last ELSE modules[k]
        /\ j # Len(modules) /\ k # Len(modules)
        /\ j \in 1 .. Len(modules) /\ k \in 1 .. Len(modules) /\ Len(modules) \in 1 .. Len(modules)
    BY <1>3, <1>4, <1>6
  <2> QED BY <1>7, <1>8, <2>1
<1>9. DOMAIN modules' = 1 .. Len(modules')
  BY <1>6
<1> QED BY <1>6, <1>8, <1>9 DEF ModulesOK

LEMMA OwnerInv ==
  ASSUME CInv, OwnerStep
  PROVE  RegistryOK' /\ ModulesOK' /\ BookOK' /\ RulesOK'
<1>0. RegistryOK /\ ModulesOK /\ BookOK /\ RulesOK
  BY TypeParts DEF CInv
<1>1. RegistryOK'
  BY <1>0 DEF RegistryOK, OwnerStep, AddModule, RemoveModule, PreSetModuleState, PresetCompleted,
              SetMaxBalance, SetSupplyLimit, SetFee, vars
<1>2. BookOK'
  BY <1>0 DEF BookOK, OwnerStep, AddModule, RemoveModule, PreSetModuleState, PresetCompleted,
              SetMaxBalance, SetSupplyLimit, SetFee, bookVars
<1>3. ModulesOK'
  <2>1. ASSUME NEW m \in ComplianceModules, AddModule(m) \/ RemoveModule(m) PROVE ModulesOK'
    BY <1>0, <2>1, AddModuleInv, RemoveModuleInv
  <2> QED BY <1>0, <2>1 DEF ModulesOK, OwnerStep, PreSetModuleState, PresetCompleted, SetMaxBalance,
                           SetSupplyLimit, SetFee, ruleVars
<1>4. RulesOK'
  <2>1. ASSUME NEW m \in ComplianceModules, AddModule(m) PROVE RulesOK'
    BY <1>0, <2>1 DEF RulesOK, AddModule
  <2> QED BY <1>0, <2>1 DEF RulesOK, OwnerStep, RemoveModule, PreSetModuleState, PresetCompleted,
                            SetMaxBalance, SetSupplyLimit, SetFee, ruleVars
<1> QED BY <1>1, <1>2, <1>3, <1>4

(* What a step of the token leaves alone.                                   *)
LEMMA CompliantLeavesRules ==
  ASSUME CInv, CompliantStep
  PROVE  ModulesOK' /\ RulesOK'
<1>0. ModulesOK /\ RulesOK
  BY TypeParts DEF CInv
<1> DEFINE Settings == <<modules, maxBalance, presetDone, supplyLimit, feeRate>>
<1>1. UNCHANGED Settings /\ {strayed', supplyKnown'} \subseteq BOOLEAN
  <2>1. {strayed, supplyKnown} \subseteq BOOLEAN /\ Bound(SupplyLimitModule) \in BOOLEAN
    BY <1>0 DEF RulesOK, Bound
  <2>2. ASSUME NEW lost \in Wallets, NEW new \in Wallets, NEW id \in Identities,
               CompliantRecovery(lost, new, id)
        PROVE  UNCHANGED ruleVars /\ strayed' \in BOOLEAN
    BY <2>2 DEF CompliantRecovery
  <2>3. ASSUME NEW from \in Wallets, NEW to \in Wallets, NEW amount \in Amounts,
               \/ CompliantTransfer(from, to, amount)
               \/ CompliantForcedTransfer(from, to, amount)
               \/ \E s \in Spenders : CompliantTransferFrom(s, from, to, amount)
        PROVE  UNCHANGED <<ruleVars, strayed>>
    BY <2>3 DEF CompliantTransfer, CompliantTransferFrom, CompliantForcedTransfer
  <2>4. ASSUME NEW w \in Wallets, NEW amount \in Amounts,
               CompliantMint(w, amount) \/ CompliantBurn(w, amount)
        PROVE  UNCHANGED <<Settings, strayed>> /\ supplyKnown' \in BOOLEAN
    BY <2>1, <2>4 DEF CompliantMint, CompliantBurn, AllowSupply
  <2> QED BY <2>1, <2>2, <2>3, <2>4 DEF CompliantStep, ruleVars
<1> QED BY <1>0, <1>1 DEF ModulesOK, RulesOK

LEMMA CompliantLeavesRegistry ==
  ASSUME CInv, CompliantStep
  PROVE  RegistryOK'
<1>0. RegistryOK
  BY TypeParts DEF CInv
<1>1. ASSUME NEW lost \in Wallets, NEW new \in Wallets, NEW id \in Identities,
             CompliantRecovery(lost, new, id)
      PROVE  RegistryOK'
  BY <1>1, RecoveryRegistry
<1>2. ASSUME UNCHANGED <<identity, verifiedIds, registered, verified>> PROVE RegistryOK'
  BY <1>0, <1>2 DEF RegistryOK
<1>3. \/ UNCHANGED <<identity, verifiedIds, registered, verified>>
      \/ \E lost, new \in Wallets, id \in Identities : CompliantRecovery(lost, new, id)
  <2>1. ASSUME NEW from \in Wallets, NEW to \in Wallets, NEW amount \in Amounts,
               \/ CompliantTransfer(from, to, amount)
               \/ CompliantForcedTransfer(from, to, amount)
               \/ \E s \in Spenders : CompliantTransferFrom(s, from, to, amount)
        PROVE  UNCHANGED <<identity, verifiedIds, registered, verified>>
    BY <2>1 DEF CompliantTransfer, CompliantTransferFrom, CompliantForcedTransfer, Transfer,
                TransferFrom, ForcedTransfer, registryVars
  <2>2. ASSUME NEW w \in Wallets, NEW amount \in Amounts,
               CompliantMint(w, amount) \/ CompliantBurn(w, amount)
        PROVE  UNCHANGED <<identity, verifiedIds, registered, verified>>
    BY <2>2 DEF CompliantMint, CompliantBurn, Mint, Burn, registryVars
  <2> QED BY <2>1, <2>2 DEF CompliantStep
<1> QED BY <1>1, <1>2, <1>3

LEMMA CompliantBook ==
  ASSUME CInv, CompliantStep
  PROVE  BookOK'
BY HolderBook, ForcedBook, RecoveryBook, MintBook, BurnBook DEF CompliantStep

LEMMA SilentInv ==
  ASSUME CInv, SilentStep
  PROVE  RegistryOK' /\ ModulesOK' /\ BookOK' /\ RulesOK'
<1>0. RegistryOK /\ ModulesOK /\ BookOK /\ RulesOK
  BY TypeParts DEF CInv
<1>1. UNCHANGED complianceVars /\ UNCHANGED registryVars
  BY DEF SilentStep, AllowanceStep, Approve, IncreaseAllowance, DecreaseAllowance, SetAllowance,
         RoleStep, AddAgent, RemoveAgent, Pause, Unpause, SetAddressFrozen, FreezePartialTokens,
         UnfreezePartialTokens
<1> QED BY <1>0, <1>1 DEF complianceVars, ruleVars, bookVars, registryVars, RegistryOK, ModulesOK,
                          BookOK, RulesOK

LEMMA IdentityInv ==
  ASSUME CInv, IdentityStep
  PROVE  RegistryOK' /\ ModulesOK' /\ BookOK' /\ RulesOK'
<1>0. RegistryOK /\ ModulesOK /\ BookOK /\ RulesOK
  BY TypeParts DEF CInv
<1>1. UNCHANGED <<ruleVars, bookVars>> /\ strayed' \in BOOLEAN
  BY <1>0 DEF IdentityStep, Register, UpdateIdentity, Deregister, ClaimsOf, RulesOK
<1> QED BY <1>0, <1>1, RegistryInv DEF ruleVars, bookVars, ModulesOK, BookOK, RulesOK

LEMMA ComplianceNextInv == CInv /\ [ComplianceNext]_cvars => CInv'
<1> SUFFICES ASSUME CInv, [ComplianceNext]_cvars PROVE CInv'
  OBVIOUS
<1>1. IInv'
  BY StepIsLedgerStep, NextInv DEF CInv
<1>2. RegistryOK' /\ ModulesOK' /\ BookOK' /\ RulesOK'
  <2>1. CASE UNCHANGED cvars
    BY <2>1 DEF cvars, vars, complianceVars, ruleVars, bookVars, CInv, ComplianceTypeOK,
                RegistryOK, ModulesOK, BookOK, RulesOK
  <2> QED BY <2>1, CompliantLeavesRules, CompliantLeavesRegistry, CompliantBook, OwnerInv,
             SilentInv, IdentityInv DEF ComplianceNext
<1> QED BY <1>1, <1>2 DEF CInv, ComplianceTypeOK, RegistryOK, ModulesOK, BookOK, RulesOK

LEMMA ComplianceInitInv == ComplianceInit => CInv
<1> SUFFICES ASSUME ComplianceInit PROVE CInv
  OBVIOUS
<1>1. IInv /\ registered = {} /\ verified = {}
  BY InitInv DEF ComplianceInit, Init
<1>2. RegistryOK
  BY <1>1, ComplianceAssumption DEF ComplianceInit, RegistryOK
<1>3. ModulesOK
  BY DEF ComplianceInit, ModulesOK
<1>4. BookOK /\ RulesOK
  <2>1. 0 \in Amounts /\ 0 \in 0 .. FullRate
    BY WordSizeAssumption, ComplianceAssumption DEF Amounts
  <2> QED BY <2>1 DEF ComplianceInit, BookOK, RulesOK
<1> QED BY <1>1, <1>2, <1>3, <1>4, TypeParts DEF CInv

LEMMA CInvHolds == ComplianceSpec => []CInv
<1>1. ComplianceInit => CInv
  BY ComplianceInitInv
<1>2. CInv /\ [ComplianceNext]_cvars => CInv'
  BY ComplianceNextInv
<1> QED BY <1>1, <1>2, PTL DEF ComplianceSpec, cvars

-----------------------------------------------------------------------------
(* Under its modules the token keeps every type of the compliance: the book  *)
(* of MaxBalance stays a book of identities, the list of modules names each  *)
(* at most once, and a wallet is verified exactly if its identity is.        *)
THEOREM ComplianceTypeCorrect == ComplianceSpec => []ComplianceTypeOK
<1>1. CInv => ComplianceTypeOK
  BY DEF CInv
<1> QED BY <1>1, CInvHolds, PTL

(* The token under its modules implements the token of Token, which allows   *)
(* for any answer of a compliance: the answers that MaxBalance, SupplyLimit  *)
(* and TransferFees compute, in whatever order, are among them.              *)
THEOREM RefinesToken == ComplianceSpec => Spec
<1>1. ComplianceInit => Init
  BY DEF ComplianceInit
<1>2. CInv /\ [ComplianceNext]_cvars => [Next]_vars
  BY StepIsLedgerStep
<1> QED BY <1>1, <1>2, CInvHolds, PTL DEF ComplianceSpec, Spec, cvars

(* What TokenProofs proves of the ledger, under the modules: the supply is   *)
(* the sum of the balances and frozen tokens are covered, until a mint       *)
(* overflows, and modulo the word even then; without an agent nothing is     *)
(* forced on a holder; and a recovery carries the freeze over.               *)
THEOREM ModulesKeepTheLedger ==
  ComplianceSpec => /\ []SupplyIsSumOfBalances
                    /\ []SupplyIsSumModuloWord
                    /\ []FrozenWithinBalance
                    /\ WithoutAgentNothingIsForced
                    /\ RecoveryCarriesFreeze
BY RefinesToken, SupplyConserved, SupplyConservedModulo, FrozenIsCovered, HoldersRespectFreezes,
   FreezeSurvivesRecovery

-----------------------------------------------------------------------------
(* The supply limit.                                                       *)

LEMMA SupplyChanges ==
  ASSUME CInv, [ComplianceNext]_cvars
  PROVE  \/ UNCHANGED <<totalSupply, overflowed>>
         \/ \E w \in Wallets, amount \in Amounts :
              CompliantMint(w, amount) \/ CompliantBurn(w, amount)
<1>1. CASE UNCHANGED cvars
  BY <1>1 DEF cvars, vars
<1>2. CASE CompliantStep
  <2>1. ASSUME NEW from \in Wallets, NEW to \in Wallets, NEW amount \in Amounts,
               \/ CompliantTransfer(from, to, amount)
               \/ CompliantForcedTransfer(from, to, amount)
               \/ \E s \in Spenders : CompliantTransferFrom(s, from, to, amount)
        PROVE  UNCHANGED <<totalSupply, overflowed>>
    BY <2>1 DEF CompliantTransfer, CompliantTransferFrom, CompliantForcedTransfer, Transfer,
                TransferFrom, ForcedTransfer
  <2>2. ASSUME NEW lost \in Wallets, NEW new \in Wallets, NEW id \in Identities,
               CompliantRecovery(lost, new, id)
        PROVE  UNCHANGED <<totalSupply, overflowed>>
    BY <2>2 DEF CompliantRecovery, RecoverAddress
  <2> QED BY <1>2, <2>1, <2>2 DEF CompliantStep
<1>3. CASE IdentityStep
  BY <1>3 DEF IdentityStep, Register, RegisterIdentity, UpdateIdentity, SetIdentityRegistry,
              Deregister, DeleteIdentity, ClaimsOf, ledgerVars
<1>4. CASE OwnerStep
  BY <1>4, OwnerLeavesLedger DEF vars
<1>5. CASE SilentStep
  BY <1>5 DEF SilentStep, AllowanceStep, Approve, IncreaseAllowance, DecreaseAllowance,
     SetAllowance, RoleStep, AddAgent, RemoveAgent, Pause, Unpause, SetAddressFrozen,
     FreezePartialTokens, UnfreezePartialTokens, ledgerVars
<1> QED BY <1>1, <1>2, <1>3, <1>4, <1>5 DEF ComplianceNext

(* The sum with zero is what is stored, so a mint that is refused, and moves *)
(* nothing, does not raise the supply; one that is let through has been      *)
(* compared with the limit as it will stand.                                *)
LEMMA MintWithinLimit ==
  ASSUME CInv, NEW to \in Wallets, NEW amount \in Amounts, CompliantMint(to, amount),
         Bound(SupplyLimitModule)
  PROVE  /\ ~overflowed' => ~overflowed
         /\ totalSupply' = totalSupply \/ totalSupply' <= supplyLimit
<1> DEFINE can == MayCreate(identity[to], amount)
           v   == Select(can, amount, 0)
           ok  == Accepts(idBalance, identity[to], v)
           answer == [NotTold.answer EXCEPT !.can = can, !.done = ok]
           created == Select(answer.can /\ answer.done, amount, 0)
<1>1. Mint(to, amount, answer)
  BY DEF CompliantMint
<1>2. /\ totalSupply' = AddWord(totalSupply, created)
      /\ overflowed' = (overflowed \/ totalSupply + created >= WordSize)
  BY <1>1 DEF Mint
<1>3. answer.can = can
  BY DEF NotTold
<1>4. can => AddWord(totalSupply, amount) <= supplyLimit
  BY DEF MayCreate
<1>5. totalSupply \in Amounts
  BY DEF CInv, IInv, TypeOK
<1>6. CASE answer.can /\ answer.done
  <2>1. created = amount
    BY <1>6 DEF Select
  <2> QED BY <1>2, <1>3, <1>4, <1>6, <2>1
<1>7. CASE ~(answer.can /\ answer.done)
  <2>1. created = 0
    BY <1>7 DEF Select
  <2>2. AddWord(totalSupply, 0) = totalSupply
    BY <1>5, WordSizeAssumption DEF AddWord, Amounts
  <2> QED BY <1>2, <2>1, <2>2
<1> QED BY <1>6, <1>7

LEMMA BurnLowersSupply ==
  ASSUME CInv, NEW w \in Wallets, NEW amount \in Amounts, CompliantBurn(w, amount)
  PROVE  /\ overflowed' = overflowed
         /\ ~overflowed => totalSupply' <= totalSupply
<1> DEFINE v == Covered(Current, w, amount)
<1>1. totalSupply' = SubWord(totalSupply, v) /\ overflowed' = overflowed
  BY DEF CompliantBurn, Burn
<1>2. /\ Current.bal = balances /\ balances \in [Wallets -> Amounts]
      /\ v \in Amounts /\ v <= balances[w] /\ totalSupply \in Amounts
  BY CurrentType, CoveredType DEF CInv, IInv, TypeOK
<1>3. ASSUME ~overflowed PROVE totalSupply' <= totalSupply
  <2>1. Total(balances) = totalSupply
    BY <1>2, <1>3 DEF CInv, IInv, LedgerFits
  <2>2. balances \in [Wallets -> Nat]
    BY <1>2, AmountsAreNat
  <2>3. balances[w] <= totalSupply
    BY <2>1, <2>2, TotalBounds
  <2> HIDE DEF v
  <2>4. /\ v \in Nat /\ totalSupply \in Nat /\ balances[w] \in Nat
        /\ v <= totalSupply
    BY <1>2, <2>2, <2>3, AmountsAreNat
  <2> QED BY <1>1, <2>4 DEF SubWord
<1> QED BY <1>1, <1>3

(* While SupplyLimit is bound, no step makes the tokens in circulation grow  *)
(* beyond the limit, until a mint overflows.  The module compares a sum that *)
(* may wrap, with a supply that it reads from the token: what makes it right *)
(* is that this supply is the sum of the balances.                          *)
THEOREM SupplyLimitHolds == ComplianceSpec => SupplyLimitIsEnforced
<1>1. CInv /\ CInv' /\ [ComplianceNext]_cvars =>
        (Bound(SupplyLimitModule) /\ ~overflowed' /\ Total(balances') > Total(balances) =>
           Total(balances') <= supplyLimit)
  <2> SUFFICES ASSUME CInv, CInv', [ComplianceNext]_cvars, Bound(SupplyLimitModule), ~overflowed',
                      Total(balances') > Total(balances)
               PROVE  Total(balances') <= supplyLimit
    OBVIOUS
  <2>1. Total(balances') = totalSupply'
    BY CurrentType DEF CInv, IInv, LedgerFits, Current
  <2>2. ~overflowed => Total(balances) = totalSupply
    BY CurrentType DEF CInv, IInv, LedgerFits
  <2>3. totalSupply \in Nat /\ totalSupply' \in Nat
    BY AmountsAreNat DEF CInv, IInv, TypeOK
  <2>4. ASSUME NEW w \in Wallets, NEW amount \in Amounts, CompliantMint(w, amount)
        PROVE  Total(balances') <= supplyLimit
    BY <2>1, <2>2, <2>3, <2>4, MintWithinLimit
  <2>5. ASSUME NEW w \in Wallets, NEW amount \in Amounts, CompliantBurn(w, amount)
        PROVE  FALSE
    BY <2>1, <2>2, <2>3, <2>5, BurnLowersSupply
  <2>6. CASE UNCHANGED <<totalSupply, overflowed>>
    BY <2>1, <2>2, <2>3, <2>6
  <2> QED BY <2>4, <2>5, <2>6, SupplyChanges
<1> QED BY <1>1, CInvHolds, PTL DEF ComplianceSpec, SupplyLimitIsEnforced, cvars

-----------------------------------------------------------------------------
(* What an identity holds: the sum over its wallets, and how it follows the *)
(* ledger when one wallet changes or two exchange an amount.                *)

(* What the wallets hold that belong to one identity.                       *)
HeldBy(ids, bal, id) == [w \in Wallets |-> IF ids[w] = id THEN bal[w] ELSE 0]

LEMMA HoldingsNat ==
  ASSUME NEW bal \in [Wallets -> Nat], NEW ids, NEW id
  PROVE  /\ Holdings(ids, bal, id) = Total(HeldBy(ids, bal, id))
         /\ HeldBy(ids, bal, id) \in [Wallets -> Nat]
         /\ Holdings(ids, bal, id) \in Nat
<1>1. HeldBy(ids, bal, id) \in [Wallets -> Nat]
  BY DEF HeldBy
<1>2. Holdings(ids, bal, id) = Total(HeldBy(ids, bal, id))
  BY DEF Holdings, HeldBy
<1> QED BY <1>1, <1>2, TotalNat

(* Setting one balance shifts what the wallet's identity holds.             *)
LEMMA HoldingsOfUpdate ==
  ASSUME NEW bal \in [Wallets -> Nat], NEW b \in [Wallets -> Nat], NEW w \in Wallets,
         NEW ids, NEW id, \A y \in Wallets \ {w} : b[y] = bal[y]
  PROVE  /\ ids[w] = id => Holdings(ids, b, id) = Holdings(ids, bal, id) - bal[w] + b[w]
         /\ ids[w] # id => Holdings(ids, b, id) = Holdings(ids, bal, id)
<1> DEFINE h == HeldBy(ids, bal, id)
           k == HeldBy(ids, b, id)
<1>1. h \in [Wallets -> Nat] /\ Holdings(ids, bal, id) = Total(h)
  BY HoldingsNat
<1>2. Holdings(ids, b, id) = Total(k)
  BY HoldingsNat
<1>3. ASSUME ids[w] = id PROVE Holdings(ids, b, id) = Holdings(ids, bal, id) - bal[w] + b[w]
  <2>1. k = [h EXCEPT ![w] = b[w]] /\ h[w] = bal[w]
    BY <1>3 DEF HeldBy
  <2>2. b[w] \in Nat
    OBVIOUS
  <2> HIDE DEF h, k
  <2>3. Total([h EXCEPT ![w] = b[w]]) = Total(h) - h[w] + b[w]
    BY <1>1, <2>2, TotalUpdate
  <2> QED BY <1>1, <1>2, <2>1, <2>3
<1>4. ASSUME ids[w] # id PROVE Holdings(ids, b, id) = Holdings(ids, bal, id)
  <2>1. k = h
    BY <1>4 DEF HeldBy
  <2> QED BY <1>1, <1>2, <2>1
<1> QED BY <1>3, <1>4

(* An identity holds no more than there is, at least what each of its wallets *)
(* holds, and nothing of what a wallet of another identity holds.           *)
LEMMA HoldingsBounds ==
  ASSUME NEW bal \in [Wallets -> Nat], NEW ids, NEW id, NEW w \in Wallets
  PROVE  /\ Holdings(ids, bal, id) <= Total(bal)
         /\ ids[w] = id => bal[w] <= Holdings(ids, bal, id)
         /\ ids[w] # id => Holdings(ids, bal, id) + bal[w] <= Total(bal)
<1>1. ASSUME NEW b \in [Wallets -> Nat] PROVE Holdings(ids, b, id) <= Total(b)
  <2>1. \A y \in Wallets : HeldBy(ids, b, id)[y] <= b[y]
    BY DEF HeldBy
  <2> QED BY <2>1, HoldingsNat, TotalMonotone
<1>2. ASSUME ids[w] = id PROVE bal[w] <= Holdings(ids, bal, id)
  <2>1. HeldBy(ids, bal, id)[w] = bal[w]
    BY <1>2 DEF HeldBy
  <2>2. HeldBy(ids, bal, id)[w] <= Total(HeldBy(ids, bal, id))
    BY HoldingsNat, TotalBounds
  <2> QED BY <2>1, <2>2, HoldingsNat
<1>3. ASSUME ids[w] # id PROVE Holdings(ids, bal, id) + bal[w] <= Total(bal)
  <2> DEFINE b == [bal EXCEPT ![w] = 0]
  <2>1. b \in [Wallets -> Nat] /\ bal[w] \in Nat /\ \A y \in Wallets \ {w} : b[y] = bal[y]
    OBVIOUS
  <2>2. Holdings(ids, b, id) = Holdings(ids, bal, id)
    <3> HIDE DEF b
    <3> QED BY <1>3, <2>1, HoldingsOfUpdate
  <2>3. Total(b) = Total(bal) - bal[w] + 0
    BY TotalUpdate
  <2>4. Holdings(ids, b, id) <= Total(b)
    BY <1>1, <2>1
  <2> HIDE DEF b
  <2> QED BY <2>1, <2>2, <2>3, <2>4, HoldingsNat, TotalNat
<1> QED BY <1>1, <1>2, <1>3

(* A wallet that holds nothing may change its identity.                     *)
LEMMA HoldingsOfEmpty ==
  ASSUME NEW bal \in [Wallets -> Nat], NEW ids, NEW new, NEW w \in Wallets,
         \A x \in Wallets \ {w} : new[x] = ids[x], bal[w] = 0 \/ new[w] = ids[w]
  PROVE  \A id : Holdings(new, bal, id) = Holdings(ids, bal, id)
<1> SUFFICES ASSUME NEW id PROVE Holdings(new, bal, id) = Holdings(ids, bal, id)
  OBVIOUS
<1>1. HeldBy(new, bal, id) = HeldBy(ids, bal, id)
  BY DEF HeldBy
<1> QED BY <1>1, HoldingsNat

LEMMA HoldingsMoved ==
  ASSUME NEW bal \in [Wallets -> Amounts], NEW ids, NEW id, NEW from \in Wallets,
         NEW to \in Wallets, NEW v \in Amounts, v <= bal[from], Total(bal) < WordSize
  PROVE  Holdings(ids, Moved(bal, from, to, v), id) =
           Holdings(ids, bal, id) - Select(ids[from] = id, v, 0) + Select(ids[to] = id, v, 0)
<1>0. /\ bal \in [Wallets -> Nat] /\ v \in Nat /\ bal[from] \in Nat /\ bal[to] \in Nat
      /\ Holdings(ids, bal, id) \in Nat
  BY AmountsAreNat, HoldingsNat
<1>1. CASE from = to
  <2>1. Moved(bal, from, to, v) = bal
    BY <1>1, MovedExact
  <2> QED BY <1>0, <1>1, <2>1 DEF Select
<1>2. CASE from # to
  <2> DEFINE x == bal[to] + v
             c == [bal EXCEPT ![to] = x]
             y == bal[from] - v
             m == Moved(bal, from, to, v)
  <2>1. x \in Nat /\ y \in Nat
    BY <1>0
  <2>2. /\ m \in [Wallets -> Amounts]
        /\ m[from] = y /\ m[to] = x
        /\ \A w \in Wallets \ {from, to} : m[w] = bal[w]
    <3>1. m \in [Wallets -> Amounts]
      BY MovedType
    <3>2. m[from] = y /\ m[to] = x
      BY <1>2, MovedExact
    <3>3. \A w \in Wallets \ {from, to} : m[w] = bal[w]
      BY MovedExact
    <3> QED BY <3>1, <3>2, <3>3
  <2> HIDE DEF x, y, m
  <2>3. /\ c \in [Wallets -> Nat] /\ c[from] = bal[from] /\ c[to] = x
        /\ \A w \in Wallets \ {to} : c[w] = bal[w]
    BY <1>0, <1>2, <2>1
  <2>7. m \in [Wallets -> Nat] /\ \A w \in Wallets \ {from} : m[w] = c[w]
    BY <1>2, <2>2, <2>3, AmountsAreNat
  <2> HIDE DEF c
  <2>4. /\ ids[to] = id => Holdings(ids, c, id) = Holdings(ids, bal, id) - bal[to] + c[to]
        /\ ids[to] # id => Holdings(ids, c, id) = Holdings(ids, bal, id)
    BY <1>0, <2>3, HoldingsOfUpdate
  <2>5. /\ ids[from] = id => Holdings(ids, m, id) = Holdings(ids, c, id) - c[from] + m[from]
        /\ ids[from] # id => Holdings(ids, m, id) = Holdings(ids, c, id)
    BY <2>3, <2>7, HoldingsOfUpdate
  <2>6. Holdings(ids, c, id) \in Nat
    BY <2>3, HoldingsNat
  <2> QED BY <1>0, <2>1, <2>2, <2>3, <2>4, <2>5, <2>6 DEF m, x, y, Select
<1> QED BY <1>1, <1>2

(* The book says what each identity holds.                                  *)
BookFits(book, ids, bal) == \A id \in Identities : book[id] = Holdings(ids, bal, id)

(* From one amount to another: no growth, or growth within the maximum.      *)
GrowsWithin(before, after) == after <= before \/ after <= maxBalance

(* No identity grows beyond the maximum from one ledger to the next.        *)
HoldingsGrowWithin(ids, bal, new) ==
  \A id \in Identities : GrowsWithin(Holdings(ids, bal, id), Holdings(ids, new, id))

(* Booking a move that neither wraps is exact, also within one identity.     *)
LEMMA BookedExact ==
  ASSUME NEW book \in [Identities -> Amounts], NEW a \in Identities, NEW b \in Identities,
         NEW v \in Amounts, NEW s \in Amounts, s = Select(WithinMax(book, b, v), v, 0),
         Bound(MaxBalanceModule), a # b => s <= book[a] /\ book[b] + s < WordSize
  PROVE  /\ \A i \in Identities :
              Booked(book, a, b, v)[i] =
                book[i] - (IF i = a THEN s ELSE 0) + (IF i = b THEN s ELSE 0)
         /\ Booked(book, a, b, v) \in [Identities -> Amounts]
<1> DEFINE x == AddWord(book[b], s)
           credited == [book EXCEPT ![b] = x]
           y == SubWord(credited[a], s)
           d == [credited EXCEPT ![a] = y]
<1>1. Booked(book, a, b, v) = d
  BY DEF Booked
<1>2. /\ book[a] \in Amounts /\ book[b] \in Amounts
      /\ s \in Nat /\ \A i \in Identities : book[i] \in Nat
  BY AmountsAreNat
<1>3. CASE a = b
  <2>1. y = book[a]
    <3>1. credited[a] = x
      BY <1>3
    <3> HIDE DEF credited
    <3> QED BY <1>2, <1>3, <3>1, WordExact
  <2>2. \A i \in Identities : d[i] = book[i]
    <3> HIDE DEF x, y
    <3> QED BY <1>3, <2>1
  <2> HIDE DEF d
  <2> QED BY <1>1, <1>2, <1>3, <2>2, BookedType
<1>4. CASE a # b
  <2>1. x = book[b] + s
    BY <1>2, <1>4, WordExact
  <2>2. y = book[a] - s
    <3>1. credited[a] = book[a]
      BY <1>4
    <3> HIDE DEF credited
    <3> QED BY <1>2, <1>4, <3>1, WordExact
  <2>3. d[a] = y /\ d[b] = x /\ \A i \in Identities \ {a, b} : d[i] = book[i]
    <3> HIDE DEF x, y
    <3> QED BY <1>4
  <2> HIDE DEF d, x, y
  <2>4. ASSUME NEW i \in Identities
        PROVE  d[i] = book[i] - (IF i = a THEN s ELSE 0) + (IF i = b THEN s ELSE 0)
    BY <1>2, <1>4, <2>1, <2>2, <2>3
  <2> QED BY <1>1, <2>4, BookedType
<1> QED BY <1>3, <1>4

(* A move that the sender can pay, of what MaxBalance accepts: its book fits  *)
(* again, and no identity has grown beyond the maximum.                      *)
LEMMA MoveBooked ==
  ASSUME NEW ids, NEW bal \in [Wallets -> Amounts], NEW book \in [Identities -> Amounts],
         BookFits(book, ids, bal), Total(bal) < WordSize, Bound(MaxBalanceModule),
         NEW from \in Wallets, NEW to \in Wallets, ids[from] \in Identities,
         ids[to] \in Identities, NEW v \in Amounts, v <= bal[from],
         NEW s, s = Select(Accepts(book, ids[to], v), v, 0), NEW m, m = Moved(bal, from, to, s)
  PROVE  /\ m \in [Wallets -> Amounts]
         /\ Total(m) = Total(bal)
         /\ Booked(book, ids[from], ids[to], v) \in [Identities -> Amounts]
         /\ BookFits(Booked(book, ids[from], ids[to], v), ids, m)
         /\ HoldingsGrowWithin(ids, bal, m)
<1> DEFINE a == ids[from]
           b == ids[to]
           n == Booked(book, a, b, v)
<1>1. s \in Amounts /\ s <= v
  BY SelectType
<1>2. s \in Nat /\ v \in Nat /\ bal[from] \in Nat /\ bal[to] \in Nat /\ bal \in [Wallets -> Nat]
  BY <1>1, AmountsAreNat
<1>3. s <= bal[from]
  BY <1>1, <1>2
<1>4. m \in [Wallets -> Amounts] /\ Total(m) = Total(bal)
  BY <1>1, <1>3, MovedType, MovedExact
<1>5. ASSUME NEW id
      PROVE  /\ Holdings(ids, m, id) = Holdings(ids, bal, id) - (IF a = id THEN s ELSE 0)
                                                              + (IF b = id THEN s ELSE 0)
             /\ Holdings(ids, m, id) \in Nat /\ Holdings(ids, bal, id) \in Nat
  <2>1. m \in [Wallets -> Nat]
    BY <1>4, AmountsAreNat
  <2>2. Holdings(ids, m, id) \in Nat /\ Holdings(ids, bal, id) \in Nat
    BY <1>2, <2>1, HoldingsNat
  <2>3. Holdings(ids, m, id) =
          Holdings(ids, bal, id) - Select(ids[from] = id, s, 0) + Select(ids[to] = id, s, 0)
    BY <1>1, <1>3, HoldingsMoved
  <2> QED BY <2>2, <2>3 DEF Select
<1>6. /\ bal[from] <= book[a]
      /\ a # b => book[b] + bal[from] <= Total(bal)
      /\ book[a] \in Nat /\ book[b] \in Nat /\ Total(bal) \in Nat
  BY <1>2, HoldingsBounds, AmountsAreNat, TotalNat DEF BookFits
<1>7. WordSize \in Nat
  BY WordSizeAssumption
<1>8. a # b => s <= book[a] /\ book[b] + s < WordSize
  BY <1>2, <1>3, <1>6, <1>7
<1>9. s = Select(WithinMax(book, b, v), v, 0)
  BY DEF Accepts, Select
<1>10. /\ n \in [Identities -> Amounts]
       /\ \A i \in Identities :
            n[i] = book[i] - (IF i = a THEN s ELSE 0) + (IF i = b THEN s ELSE 0)
  <2> HIDE DEF a, b
  <2>1. a \in Identities /\ b \in Identities
    BY DEF a, b
  <2> QED BY <1>1, <1>8, <1>9, <2>1, BookedExact
<1>11. BookFits(n, ids, m)
  <2> SUFFICES ASSUME NEW i \in Identities PROVE n[i] = Holdings(ids, m, i)
    BY DEF BookFits
  <2>1. book[i] = Holdings(ids, bal, i)
    BY DEF BookFits
  <2> HIDE DEF n, a, b
  <2> QED BY <1>5, <1>10, <2>1
<1>12. ASSUME NEW i \in Identities
       PROVE  GrowsWithin(Holdings(ids, bal, i), Holdings(ids, m, i))
  <2>1. book[i] = Holdings(ids, bal, i)
    BY DEF BookFits
  <2>2. CASE s = 0 \/ i # b \/ a = b
    <3> HIDE DEF a, b
    <3> QED BY <1>2, <1>5, <2>2 DEF GrowsWithin
  <2>3. CASE s # 0 /\ i = b /\ a # b
    <3>1. WithinMax(book, b, v) /\ s = v
      BY <1>9, <2>3 DEF Select
    <3>2. AddWord(book[b], s) <= maxBalance
      BY <3>1 DEF WithinMax
    <3>3. AddWord(book[b], s) = book[b] + s
      BY <1>1, <1>8, <2>3, WordExact
    <3>4. Holdings(ids, m, i) = book[b] + s
      <4> HIDE DEF a, b
      <4> QED BY <1>2, <1>5, <1>6, <2>1, <2>3
    <3> QED BY <3>2, <3>3, <3>4 DEF GrowsWithin
  <2> QED BY <2>2, <2>3
<1> QED BY <1>4, <1>10, <1>11, <1>12 DEF HoldingsGrowWithin

(* The transfer and the fee within it concern different senders, and neither *)
(* needs what the other brings: their order does not matter to the ledger.   *)
LEMMA MovesCommute ==
  ASSUME NEW bal \in [Wallets -> Amounts], Total(bal) < WordSize,
         NEW x \in Wallets, NEW y \in Wallets, NEW z \in Wallets, x # y, z \notin {x, y},
         NEW v \in Amounts, v <= bal[x], NEW p \in Amounts, p <= bal[y]
  PROVE  Moved(Moved(bal, x, y, v), y, z, p) = Moved(Moved(bal, y, z, p), x, y, v)
<1> DEFINE a == Moved(bal, x, y, v)
           b == Moved(bal, y, z, p)
           c == Moved(a, y, z, p)
           d == Moved(b, x, y, v)
<1>1. /\ v \in Nat /\ p \in Nat /\ bal[x] \in Nat /\ bal[y] \in Nat /\ bal[z] \in Nat
  BY AmountsAreNat
<1>2. /\ a \in [Wallets -> Amounts] /\ Total(a) = Total(bal)
      /\ a[x] = bal[x] - v /\ a[y] = bal[y] + v
      /\ \A w \in Wallets \ {x, y} : a[w] = bal[w]
  BY MovedBetween
<1>3. /\ b \in [Wallets -> Amounts] /\ Total(b) = Total(bal)
      /\ b[y] = bal[y] - p /\ b[z] = bal[z] + p
      /\ \A w \in Wallets \ {y, z} : b[w] = bal[w]
  BY MovedBetween
<1> HIDE DEF a, b
<1>4. p <= a[y] /\ v <= b[x]
  BY <1>1, <1>2, <1>3
<1>5. /\ c \in [Wallets -> Amounts]
      /\ c[y] = a[y] - p /\ c[z] = a[z] + p
      /\ \A w \in Wallets \ {y, z} : c[w] = a[w]
  BY <1>2, <1>4, MovedBetween
<1>6. /\ d \in [Wallets -> Amounts]
      /\ d[x] = b[x] - v /\ d[y] = b[y] + v
      /\ \A w \in Wallets \ {x, y} : d[w] = b[w]
  BY <1>3, <1>4, MovedBetween
<1> HIDE DEF c, d
<1>7. ASSUME NEW w \in Wallets PROVE c[w] = d[w]
  <2>1. CASE w = x
    BY <1>1, <1>2, <1>3, <1>5, <1>6, <2>1
  <2>2. CASE w = y
    BY <1>1, <1>2, <1>3, <1>5, <1>6, <2>2
  <2>3. CASE w = z
    BY <1>1, <1>2, <1>3, <1>5, <1>6, <2>3
  <2>4. CASE w \notin {x, y, z}
    BY <1>2, <1>3, <1>5, <1>6, <2>4
  <2> QED BY <2>1, <2>2, <2>3, <2>4
<1>8. c = d
  BY <1>5, <1>6, <1>7
<1> QED BY <1>8 DEF a, b, c, d

-----------------------------------------------------------------------------
(* The book of MaxBalance follows the ledger through a transfer and through *)
(* the fee that the transfer pays.                                          *)

LEMMA GrowthTrans ==
  ASSUME NEW ids, NEW x \in [Wallets -> Amounts], NEW y \in [Wallets -> Amounts],
         NEW z \in [Wallets -> Amounts], HoldingsGrowWithin(ids, x, y),
         HoldingsGrowWithin(ids, y, z), maxBalance \in Nat
  PROVE  HoldingsGrowWithin(ids, x, z)
<1> SUFFICES ASSUME NEW i \in Identities
             PROVE  GrowsWithin(Holdings(ids, x, i), Holdings(ids, z, i))
  BY DEF HoldingsGrowWithin
<1>1. x \in [Wallets -> Nat] /\ y \in [Wallets -> Nat] /\ z \in [Wallets -> Nat]
  BY AmountsAreNat
<1>2. /\ Holdings(ids, x, i) \in Nat
      /\ Holdings(ids, y, i) \in Nat
      /\ Holdings(ids, z, i) \in Nat
  BY <1>1, HoldingsNat
<1>3. /\ GrowsWithin(Holdings(ids, x, i), Holdings(ids, y, i))
      /\ GrowsWithin(Holdings(ids, y, i), Holdings(ids, z, i))
  BY DEF HoldingsGrowWithin
<1> QED BY <1>2, <1>3 DEF GrowsWithin

(* The parts of what the modules are told: the fee, what the receiver can pay *)
(* of it, whether it is charged at all, and the book as it is when MaxBalance *)
(* is told of the transfer, and of the fee.                                  *)
FeeIn(ids, from, to, v) == IF Charges(ids, from, to) THEN FeeOf(v) ELSE 0

PaidIn(ids, from, to, v) == Covered(Current, to, FeeIn(ids, from, to, v))

ChargedIn(ids, known, from, to) == Charges(ids, from, to) /\ Collector \in known

BookBeforeMove(ids, known, from, to, v) ==
  IF FeeComesFirst /\ ChargedIn(ids, known, from, to)
  THEN Booked(idBalance, ids[to], ids[Collector], PaidIn(ids, from, to, v))
  ELSE idBalance

BookBeforeFee(ids, from, to, v) ==
  IF FeeComesFirst THEN idBalance ELSE Booked(idBalance, ids[from], ids[to], v)

LEMMA ToldParts ==
  ASSUME NEW ids, NEW known, NEW from, NEW to, NEW can, NEW v,
         NEW told, told = Told(ids, known, from, to, can, v)
  PROVE  /\ told.answer.can = can
         /\ told.answer.fee = FeeIn(ids, from, to, v)
         /\ told.answer.charges = Charges(ids, from, to)
         /\ told.answer.done = Accepts(BookBeforeMove(ids, known, from, to, v), ids[to], v)
         /\ FeeIn(ids, from, to, v) > 0 /\ ChargedIn(ids, known, from, to) =>
              told.answer.feeDone = Accepts(BookBeforeFee(ids, from, to, v), ids[Collector],
                                            PaidIn(ids, from, to, v))
         /\ told.book =
              IF ChargedIn(ids, known, from, to) /\ ~FeeComesFirst
              THEN Booked(BookBeforeFee(ids, from, to, v), ids[to], ids[Collector],
                          PaidIn(ids, from, to, v))
              ELSE Booked(BookBeforeMove(ids, known, from, to, v), ids[from], ids[to], v)
<1> USE DEF FeeIn, PaidIn, ChargedIn, BookBeforeMove, BookBeforeFee
<1>1. CASE FeeComesFirst
  BY <1>1 DEF Told, Accepts
<1>2. CASE ~FeeComesFirst
  BY <1>2 DEF Told, Accepts
<1> QED BY <1>1, <1>2

(* Whatever the order of the modules, the book that a transfer leaves fits    *)
(* the balances it leaves, the fee included.                                 *)
LEMMA ToldFits ==
  ASSUME CInv, ~overflowed, NEW ids \in [Wallets -> Identities \cup {NoIdentity}], NEW known,
         BookFits(idBalance, ids, balances), Bound(MaxBalanceModule),
         NEW from \in Wallets, NEW to \in Wallets, NEW can \in BOOLEAN, NEW v \in Amounts,
         v <= balances[from], Identified(ids, {from, to}),
         Collector \in known => ids[Collector] \in Identities,
         NEW led \in Ledger, led.bal = balances,
         NEW told, told = Told(ids, known, from, to, can, v),
         NEW m, m = Moved(FeeTaken(led, known, to, told.answer).bal, from, to,
                          Select(told.answer.done, v, 0))
  PROVE  /\ m \in [Wallets -> Amounts]
         /\ BookFits(told.book, ids, m)
         /\ HoldingsGrowWithin(ids, balances, m)
<1> DEFINE a      == ids[from]
           b      == ids[to]
           k      == ids[Collector]
           fee    == FeeIn(ids, from, to, v)
           paid   == PaidIn(ids, from, to, v)
           nested == ChargedIn(ids, known, from, to)
           beforeMove == BookBeforeMove(ids, known, from, to, v)
           beforeFee  == BookBeforeFee(ids, from, to, v)
           s == Select(Accepts(beforeMove, b, v), v, 0)
           p == Select(Accepts(beforeFee, k, paid), paid, 0)
           c == FeeTaken(led, known, to, told.answer).bal
<1>1. /\ told.answer.fee = fee
      /\ told.answer.done = Accepts(beforeMove, b, v)
      /\ fee > 0 /\ nested => told.answer.feeDone = Accepts(beforeFee, k, paid)
      /\ told.book = IF nested /\ ~FeeComesFirst THEN Booked(beforeFee, b, k, paid)
                     ELSE Booked(beforeMove, a, b, v)
  BY ToldParts
<1>2. /\ balances \in [Wallets -> Amounts] /\ Total(balances) < WordSize
      /\ idBalance \in [Identities -> Amounts] /\ maxBalance \in Nat
      /\ Current \in Ledger /\ Current.bal = balances
  <2>1. totalSupply < WordSize /\ Total(balances) = totalSupply
    BY CurrentType, WordSizeAssumption DEF CInv, IInv, TypeOK, LedgerFits, Amounts
  <2> QED BY <2>1, CurrentType, AmountsAreNat DEF CInv, IInv, TypeOK, ComplianceTypeOK
<1>3. a \in Identities /\ b \in Identities /\ (nested => k \in Identities)
  BY IdentifiedType DEF ChargedIn
<1>4. fee \in Amounts
  BY FeeOfType, WordClosed DEF FeeIn, CInv, ComplianceTypeOK
<1>5. told.answer \in Answers
  BY ToldAnswers DEF CInv, ComplianceTypeOK
<1>6. paid \in Amounts /\ paid <= balances[to] /\ (fee = 0 => paid = 0)
  <2>1. paid = Covered(Current, to, fee)
    BY DEF PaidIn
  <2> HIDE DEF fee
  <2> QED BY <1>2, <1>4, <2>1, CoveredType DEF Covered, Select
<1>7. nested => from # to /\ Collector \notin {from, to}
  BY DEF ChargedIn, Charges
<1>8. Collector \in known /\ ~nested => fee = 0
  BY DEF ChargedIn, FeeIn
<1>9. m = Moved(c, from, to, s)
  BY <1>1 DEF s
<1>10. Covered(led, to, fee) = paid
  BY <1>2 DEF PaidIn, Covered
<1> HIDE DEF fee, paid, nested, beforeMove, beforeFee
<1>11. s \in Amounts /\ s <= v /\ p \in Amounts /\ p <= paid
  BY <1>6, SelectType
<1>12. c = IF Collector \in known
           THEN Moved(balances, to, Collector, Select(told.answer.feeDone, paid, 0))
           ELSE balances
  BY <1>1, <1>5, <1>10, FeeTakenBal
<1>13. c = IF nested THEN Moved(balances, to, Collector, p) ELSE balances
  <2>1. fee = 0 \/ fee > 0
    BY <1>4, AmountsAreNat
  <2>2. CASE fee = 0
    <3>1. Select(told.answer.feeDone, paid, 0) = 0 /\ p = 0
      BY <1>6, <2>2 DEF Select
    <3>2. Moved(balances, to, Collector, 0) = balances
      <4>1. 0 \in Amounts
        BY <1>6, WordClosed
      <4> QED BY <1>2, <4>1, TokenAssumption, MovedAnyway
    <3> HIDE DEF c, p
    <3> QED BY <1>12, <3>1, <3>2
  <2>3. CASE fee > 0 /\ nested
    <3>1. Collector \in known
      BY <2>3 DEF nested, ChargedIn
    <3>2. told.answer.feeDone = Accepts(beforeFee, k, paid)
      BY <1>1, <2>3
    <3> QED BY <1>12, <2>3, <3>1, <3>2
  <2>4. CASE fee > 0 /\ ~nested
    <3>1. fee # 0
      BY <1>4, <2>4, AmountsAreNat
    <3> HIDE DEF c
    <3> QED BY <1>8, <1>12, <2>4, <3>1
  <2> HIDE DEF c, p
  <2> QED BY <2>1, <2>2, <2>3, <2>4
<1>14. CASE ~nested
  <2>1. beforeMove = idBalance /\ c = balances
    BY <1>13, <1>14 DEF beforeMove, nested, BookBeforeMove
  <2>2. told.book = Booked(idBalance, a, b, v)
    BY <1>1, <1>14, <2>1
  <2>3. m = Moved(balances, from, to, Select(Accepts(idBalance, b, v), v, 0))
    BY <1>9, <2>1
  <2> QED BY <1>2, <1>3, <2>2, <2>3, MoveBooked
<1>15. CASE nested /\ FeeComesFirst
  <2> DEFINE q == Moved(balances, to, Collector, p)
             n == Booked(idBalance, b, k, paid)
  <2>1. /\ p = Select(Accepts(idBalance, k, paid), paid, 0)
        /\ beforeMove = n /\ c = q
    <3>1. beforeFee = idBalance
      BY <1>15 DEF beforeFee, BookBeforeFee
    <3>2. beforeMove = n
      BY <1>15 DEF beforeMove, nested, paid, BookBeforeMove
    <3> HIDE DEF c
    <3> QED BY <1>13, <1>15, <3>1, <3>2
  <2>2. /\ q \in [Wallets -> Amounts] /\ Total(q) = Total(balances)
        /\ n \in [Identities -> Amounts]
        /\ BookFits(n, ids, q)
        /\ HoldingsGrowWithin(ids, balances, q)
    <3> HIDE DEF p
    <3> QED BY <1>2, <1>3, <1>6, <1>15, <2>1, TokenAssumption, MoveBooked
  <2>3. q[from] = balances[from]
    <3>1. from \in Wallets \ {to, Collector}
      BY <1>7, <1>15
    <3> HIDE DEF p
    <3>2. Collector \in Wallets
      BY TokenAssumption
    <3>3. \A w \in Wallets \ {to, Collector} :
            Moved(balances, to, Collector, p)[w] = balances[w]
      <4>1. p \in Amounts /\ balances \in [Wallets -> Amounts]
        BY <1>2, <1>11
      <4> QED BY <3>2, <4>1, MovedAnyway
    <3> QED BY <3>1, <3>3
  <2>4. told.book = Booked(n, a, b, v)
    BY <1>1, <1>15, <2>1
  <2>5. m = Moved(q, from, to, Select(Accepts(n, b, v), v, 0))
    BY <1>9, <2>1
  <2> HIDE DEF q, n
  <2>6. /\ m \in [Wallets -> Amounts]
        /\ BookFits(told.book, ids, m)
        /\ HoldingsGrowWithin(ids, q, m)
    BY <1>2, <1>3, <2>2, <2>3, <2>4, <2>5, MoveBooked
  <2> QED BY <1>2, <2>2, <2>6, GrowthTrans
<1>16. CASE nested /\ ~FeeComesFirst
  <2> DEFINE q == Moved(balances, from, to, s)
             n == Booked(idBalance, a, b, v)
  <2>1. /\ s = Select(Accepts(idBalance, b, v), v, 0)
        /\ p = Select(Accepts(n, k, paid), paid, 0)
    BY <1>16 DEF beforeFee, beforeMove, nested, BookBeforeFee, BookBeforeMove
  <2>2. /\ q \in [Wallets -> Amounts] /\ Total(q) = Total(balances)
        /\ n \in [Identities -> Amounts]
        /\ BookFits(n, ids, q)
        /\ HoldingsGrowWithin(ids, balances, q)
    <3> HIDE DEF s
    <3> QED BY <1>2, <1>3, <2>1, MoveBooked
  <2>3. /\ s <= balances[from] /\ p <= balances[to]
        /\ balances[from] \in Nat /\ balances[to] \in Nat
    <3> HIDE DEF s, p
    <3>1. s \in Nat /\ p \in Nat /\ v \in Nat /\ paid \in Nat
      BY <1>6, <1>11, AmountsAreNat
    <3>2. balances[from] \in Nat /\ balances[to] \in Nat
      BY <1>2, AmountsAreNat
    <3> QED BY <1>6, <1>11, <3>1, <3>2
  <2>4. paid <= q[to]
    <3>1. q[to] = balances[to] + s
      <4> HIDE DEF s
      <4> QED BY <1>2, <1>7, <1>11, <1>16, <2>3, MovedBetween
    <3> HIDE DEF q
    <3> QED BY <1>6, <1>11, <2>3, <3>1, AmountsAreNat
  <2>5. m = Moved(q, to, Collector, p)
    <3>1. m = Moved(Moved(balances, to, Collector, p), from, to, s)
      BY <1>9, <1>13, <1>16
    <3> HIDE DEF s, p
    <3> QED BY <1>2, <1>7, <1>11, <1>16, <2>3, <3>1, TokenAssumption, MovesCommute
  <2>6. told.book = Booked(n, b, k, paid)
    BY <1>1, <1>16 DEF beforeFee, BookBeforeFee
  <2> HIDE DEF q, n, p, s
  <2>7. /\ m \in [Wallets -> Amounts]
        /\ BookFits(told.book, ids, m)
        /\ HoldingsGrowWithin(ids, q, m)
    BY <1>2, <1>3, <1>6, <1>16, <2>1, <2>2, <2>4, <2>5, <2>6, TokenAssumption, MoveBooked
  <2> QED BY <1>2, <2>2, <2>7, GrowthTrans
<1> QED BY <1>14, <1>15, <1>16

(* A step keeps the book of MaxBalance true, and lets no identity grow beyond *)
(* the maximum.                                                             *)
BookStep ==
  /\ BookIsWhatIdentitiesHold'
  /\ Bound(MaxBalanceModule) /\ ~strayed' /\ ~overflowed' =>
       \A id \in Identities :
         GrowsWithin(Holdings(identity, balances, id), Holdings(identity', balances', id))

(* The book fits the balances as long as nothing has got past it.           *)
LEMMA BookFitsNow ==
  ASSUME BookIsWhatIdentitiesHold, Bound(MaxBalanceModule), ~strayed, ~overflowed
  PROVE  BookFits(idBalance, identity, balances)
BY DEF BookIsWhatIdentitiesHold, BookFits

(* What a step with an unchanged list of modules has to show.               *)
LEMMA BookStepFrom ==
  ASSUME UNCHANGED modules,
         Bound(MaxBalanceModule) /\ ~strayed' /\ ~overflowed' =>
           /\ BookFits(idBalance', identity', balances')
           /\ \A id \in Identities :
                GrowsWithin(Holdings(identity, balances, id), Holdings(identity', balances', id))
  PROVE  BookStep
<1>1. Bound(MaxBalanceModule)' <=> Bound(MaxBalanceModule)
  BY DEF Bound
<1>2. BookIsWhatIdentitiesHold'
  BY <1>1 DEF BookIsWhatIdentitiesHold, BookFits
<1> QED BY <1>2 DEF BookStep

LEMMA HolderKeepsBook ==
  ASSUME CInv, BookIsWhatIdentitiesHold, NEW from \in Wallets, NEW to \in Wallets,
         NEW covered \in Amounts, ~overflowed => covered <= balances[from],
         NEW told, told = Asked(from, to, covered),
         HolderMove(from, to, covered, told.answer), Keep(told), Identified(identity, {from, to}),
         UNCHANGED <<identity, ruleVars, strayed, overflowed>>
  PROVE  BookStep
<1> DEFINE can == MayReceive(identity[to], covered)
           v   == Select(can, covered, 0)
<1>1. UNCHANGED <<modules, identity, strayed, overflowed>> /\ idBalance' = told.book
  BY DEF ruleVars, Keep
<1> SUFFICES ASSUME Bound(MaxBalanceModule), ~strayed', ~overflowed'
             PROVE  /\ BookFits(idBalance', identity', balances')
                    /\ \A id \in Identities :
                         GrowsWithin(Holdings(identity, balances, id),
                                     Holdings(identity', balances', id))
  BY <1>1, BookStepFrom
<1>2. BookFits(idBalance, identity, balances) /\ ~overflowed
  BY <1>1, BookFitsNow
<1>3. can \in BOOLEAN /\ v \in Amounts
  BY SelectType DEF MayReceive
<1>4. v <= balances[from]
  <2>1. covered \in Nat /\ balances[from] \in Nat
    BY AmountsAreNat DEF CInv, IInv, TypeOK
  <2> QED BY <1>2, <2>1 DEF Select
<1>5. /\ identity \in [Wallets -> Identities \cup {NoIdentity}]
      /\ Collector \in verified => identity[Collector] \in Identities
      /\ Current \in Ledger /\ Current.bal = balances
  BY CurrentType DEF CInv, IInv, ComplianceTypeOK
<1>6. told = Told(identity, verified, from, to, can, v)
  BY DEF Asked
<1> HIDE DEF can
<1>7. told.answer.can = can
  BY <1>6, ToldParts
<1>8. told.answer \in Answers
  BY AskedAnswers
<1>9. balances' = Moved(FeeTaken(Current, verified, to, told.answer).bal, from, to,
                        Select(told.answer.done, v, 0))
  BY <1>7, <1>8, HolderMoveBal DEF CInv, IInv
<1> HIDE DEF v
<1>10. /\ BookFits(told.book, identity, balances')
       /\ HoldingsGrowWithin(identity, balances, balances')
  BY <1>2, <1>3, <1>4, <1>5, <1>6, <1>9, ToldFits
<1> QED BY <1>1, <1>10 DEF HoldingsGrowWithin

(* Where nothing moves, nothing is booked.                                  *)
LEMMA StillFits ==
  ASSUME BookFits(idBalance, identity, balances), TypeOK,
         \A id \in Identities : Holdings(identity', balances', id) = Holdings(identity, balances, id),
         UNCHANGED idBalance
  PROVE  /\ BookFits(idBalance', identity', balances')
         /\ \A id \in Identities :
              GrowsWithin(Holdings(identity, balances, id), Holdings(identity', balances', id))
<1>1. balances \in [Wallets -> Nat]
  BY AmountsAreNat DEF TypeOK
<1>2. \A id \in Identities : Holdings(identity, balances, id) \in Nat
  BY <1>1, HoldingsNat
<1> QED BY <1>2 DEF BookFits, GrowsWithin

LEMMA ForcedKeepsBook ==
  ASSUME CInv, BookIsWhatIdentitiesHold, NEW from \in Wallets, NEW to \in Wallets,
         NEW amount \in Amounts, CompliantForcedTransfer(from, to, amount)
  PROVE  BookStep
<1> DEFINE v    == Covered(Current, from, amount)
           told == IF to \in verified THEN Told(identity, verified, from, to, TRUE, v) ELSE NotTold
<1>1. /\ UNCHANGED <<modules, identity, strayed, overflowed>> /\ idBalance' = told.book
      /\ to \in verified => Identified(identity, {from, to})
      /\ SetLedger(ForcedMove(Current, verified, from, to, amount, told.answer))
  BY DEF CompliantForcedTransfer, ForcedTransfer, ruleVars, Keep
<1> SUFFICES ASSUME Bound(MaxBalanceModule), ~strayed', ~overflowed'
             PROVE  /\ BookFits(idBalance', identity', balances')
                    /\ \A id \in Identities :
                         GrowsWithin(Holdings(identity, balances, id),
                                     Holdings(identity', balances', id))
  BY <1>1, BookStepFrom
<1>2. BookFits(idBalance, identity, balances) /\ ~overflowed
  BY <1>1, BookFitsNow
<1>3. /\ Current \in Ledger /\ Current.bal = balances
      /\ identity \in [Wallets -> Identities \cup {NoIdentity}]
      /\ Collector \in verified => identity[Collector] \in Identities
      /\ feeRate \in 0 .. FullRate
  BY CurrentType DEF CInv, IInv, ComplianceTypeOK
<1>4. v \in Amounts /\ v <= balances[from]
  BY <1>3, CoveredType
<1>5. told.answer \in Answers
  <2> HIDE DEF v
  <2> QED BY <1>3, <1>4, ToldAnswers, NotToldAnswers
<1>6. balances' = ForcedMove(Current, verified, from, to, amount, told.answer).bal
  BY <1>1 DEF SetLedger
<1> HIDE DEF told
<1>7. PICK r \in Ledger :
        /\ r.bal = balances
        /\ balances' = IF to \in verified
                       THEN Moved(FeeTaken(r, verified, to, told.answer).bal, from, to,
                                  Select(told.answer.done, v, 0))
                       ELSE balances
  BY <1>3, <1>5, <1>6, ForcedMoveBal
<1> HIDE DEF v
<1>8. CASE to \in verified
  <2>1. told = Told(identity, verified, from, to, TRUE, v) /\ TRUE \in BOOLEAN
    BY <1>8 DEF told
  <2>2. balances' = Moved(FeeTaken(r, verified, to, told.answer).bal, from, to,
                          Select(told.answer.done, v, 0))
    BY <1>7, <1>8
  <2>3. /\ BookFits(told.book, identity, balances')
        /\ HoldingsGrowWithin(identity, balances, balances')
    BY <1>1, <1>2, <1>3, <1>4, <1>7, <1>8, <2>1, <2>2, ToldFits
  <2> QED BY <1>1, <2>3 DEF HoldingsGrowWithin
<1>9. CASE to \notin verified
  <2>1. idBalance' = idBalance /\ balances' = balances
    BY <1>1, <1>7, <1>9 DEF told, NotTold
  <2> QED BY <1>1, <1>2, <2>1, StillFits DEF CInv, IInv
<1> QED BY <1>8, <1>9

-----------------------------------------------------------------------------
(* The book through recoveries, mints, burns, and the steps that move no    *)
(* tokens: registration and the calls of the owner.                         *)

LEMMA RecoveryKeepsBook ==
  ASSUME CInv, BookIsWhatIdentitiesHold, NEW lost \in Wallets, NEW new \in Wallets,
         NEW id \in Identities, CompliantRecovery(lost, new, id)
  PROVE  BookStep
<1> DEFINE ids    == [identity EXCEPT ![new] = id]
           valid  == id \in verifiedIds
           known  == IF valid THEN verified \cup {new} ELSE verified
           tokens == balances[lost]
           told   == IF valid THEN Told(ids, known, lost, new, TRUE, tokens) ELSE NotTold
           moved  == ForcedMove(Current, known, lost, new, tokens, told.answer)
           frozenAmt == IF tokens = 0 THEN 0 ELSE frozenTokens[lost]
<1>1. /\ UNCHANGED <<modules, overflowed>> /\ idBalance' = told.book
      /\ identity' = [ids EXCEPT ![lost] = NoIdentity]
      /\ ~strayed' => ~strayed /\ ~(balances'[lost] > 0) /\ ~(balances[new] > 0)
      /\ valid => Identified(ids, {lost, new})
  BY DEF CompliantRecovery, RecoverAddress, ruleVars, Keep
<1>2. SetLedger(FrozenMore(moved, new, frozenAmt)) /\ lost \in registered /\ new \notin registered
  BY DEF CompliantRecovery, RecoverAddress
<1> SUFFICES ASSUME Bound(MaxBalanceModule), ~strayed', ~overflowed'
             PROVE  /\ BookFits(idBalance', identity', balances')
                    /\ \A i \in Identities :
                         GrowsWithin(Holdings(identity, balances, i),
                                     Holdings(identity', balances', i))
  BY <1>1, BookStepFrom
<1>3. BookFits(idBalance, identity, balances) /\ ~overflowed
  BY <1>1, BookFitsNow
<1>4. /\ Current \in Ledger /\ Current.bal = balances /\ balances \in [Wallets -> Amounts]
      /\ identity \in [Wallets -> Identities \cup {NoIdentity}]
      /\ \A w \in verified : identity[w] \in Identities
      /\ registered = {w \in Wallets : identity[w] # NoIdentity}
      /\ feeRate \in 0 .. FullRate
  BY CurrentType DEF CInv, IInv, TypeOK, ComplianceTypeOK
<1>5. /\ ids \in [Wallets -> Identities \cup {NoIdentity}]
      /\ Collector \in known => ids[Collector] \in Identities
      /\ identity[new] = NoIdentity /\ lost # new
  BY <1>2, <1>4
<1>6. tokens \in Amounts /\ tokens \in Nat
  BY <1>4, AmountsAreNat
<1> HIDE DEF ids
<1>7. told.answer \in Answers
  <2> HIDE DEF tokens, known
  <2> QED BY <1>4, <1>6, ToldAnswers, NotToldAnswers
<1>8. Covered(Current, lost, tokens) = tokens
  BY <1>4, <1>6 DEF Covered, Select
<1> HIDE DEF told, tokens
<1>9. moved \in Ledger /\ balances' = moved.bal
  <2>1. moved \in Ledger
    BY <1>4, <1>6, <1>7, ForcedMoveType
  <2> HIDE DEF moved, frozenAmt
  <2> QED BY <1>2, <2>1, FrozenMoreBal DEF SetLedger
<1> HIDE DEF known
<1>10. PICK r \in Ledger :
         /\ r.bal = balances
         /\ balances' = IF new \in known
                        THEN Moved(FeeTaken(r, known, new, told.answer).bal, lost, new,
                                   Select(told.answer.done, tokens, 0))
                        ELSE balances
  BY <1>4, <1>6, <1>7, <1>8, <1>9, ForcedMoveBal
<1>11. /\ balances' \in [Wallets -> Nat] /\ balances \in [Wallets -> Nat]
       /\ balances'[lost] = 0 /\ balances[new] = 0
  <2>1. balances' \in [Wallets -> Nat] /\ balances \in [Wallets -> Nat]
    <3> HIDE DEF moved
    <3> QED BY <1>4, <1>9, AmountsAreNat DEF Ledger
  <2> QED BY <1>1, <2>1
<1>12. \A i : Holdings(ids, balances, i) = Holdings(identity, balances, i)
  <2>1. \A x \in Wallets \ {new} : ids[x] = identity[x]
    BY <1>4 DEF ids
  <2>2. balances \in [Wallets -> Nat] /\ (balances[new] = 0 \/ ids[new] = identity[new])
    BY <1>11
  <2> QED BY <2>1, <2>2, HoldingsOfEmpty
<1>13. \A i : Holdings(identity', balances', i) = Holdings(ids, balances', i)
  <2>1. \A x \in Wallets \ {lost} : identity'[x] = ids[x]
    BY <1>1, <1>5
  <2> QED BY <1>11, <2>1, HoldingsOfEmpty
<1>14. BookFits(idBalance, ids, balances)
  BY <1>3, <1>12 DEF BookFits
<1>15. CASE valid
  <2>1. told = Told(ids, known, lost, new, TRUE, tokens) /\ TRUE \in BOOLEAN /\ new \in known
    BY <1>15 DEF told, known
  <2>2. balances' = Moved(FeeTaken(r, known, new, told.answer).bal, lost, new,
                          Select(told.answer.done, tokens, 0))
    BY <1>10, <2>1
  <2>3. Identified(ids, {lost, new}) /\ tokens <= balances[lost]
    BY <1>1, <1>6, <1>15 DEF tokens
  <2>4. /\ BookFits(told.book, ids, balances')
        /\ HoldingsGrowWithin(ids, balances, balances')
    BY <1>3, <1>5, <1>6, <1>10, <1>14, <2>1, <2>2, <2>3, ToldFits
  <2> QED BY <1>1, <1>12, <1>13, <2>4 DEF HoldingsGrowWithin, BookFits
<1>16. CASE ~valid
  <2>1. idBalance' = idBalance
    BY <1>1, <1>16 DEF told, NotTold
  <2>2. new \notin known
    <3>1. new \notin verified
      BY <1>4, <1>5, ComplianceAssumption
    <3> QED BY <1>16, <3>1 DEF known
  <2>3. balances' = balances
    BY <1>10, <2>2
  <2>4. \A i : Holdings(identity', balances', i) = Holdings(identity, balances, i)
    BY <1>12, <1>13, <2>3
  <2> QED BY <1>3, <2>1, <2>4, StillFits DEF CInv, IInv
<1> QED BY <1>15, <1>16

(* A mint books what it adds to a wallet, with its identity.                *)
LEMMA MintKeepsBook ==
  ASSUME CInv, CInv', BookIsWhatIdentitiesHold, NEW to \in Wallets, NEW amount \in Amounts,
         CompliantMint(to, amount)
  PROVE  BookStep
<1> DEFINE can == MayCreate(identity[to], amount)
           v   == Select(can, amount, 0)
           ok  == Accepts(idBalance, identity[to], v)
           answer == [NotTold.answer EXCEPT !.can = can, !.done = ok]
           u   == Select(ok, v, 0)
           a   == identity[to]
<1>1. /\ UNCHANGED <<modules, identity, strayed>>
      /\ Mint(to, amount, answer)
      /\ Bound(MaxBalanceModule) => idBalance' = [idBalance EXCEPT ![a] = AddWord(idBalance[a], u)]
  BY DEF CompliantMint, ruleVars
<1>2. answer.can = can /\ answer.done = ok
  BY DEF NotTold
<1>3. Select(answer.can /\ answer.done, amount, 0) = u
  BY <1>2 DEF Select
<1>4. /\ balances' = [balances EXCEPT ![to] = AddWord(balances[to], u)]
      /\ totalSupply' = AddWord(totalSupply, u)
      /\ overflowed' = (overflowed \/ totalSupply + u >= WordSize)
  <2> HIDE DEF answer, u
  <2> QED BY <1>1, <1>3 DEF Mint
<1> SUFFICES ASSUME Bound(MaxBalanceModule), ~strayed', ~overflowed'
             PROVE  /\ BookFits(idBalance', identity', balances')
                    /\ \A i \in Identities :
                         GrowsWithin(Holdings(identity, balances, i),
                                     Holdings(identity', balances', i))
  BY <1>1, BookStepFrom
<1>5. v \in Amounts
  BY SelectType
<1>6. u \in Amounts
  <2> HIDE DEF v
  <2> QED BY <1>5, SelectType
<1>7. u # 0 => WithinMax(idBalance, a, u)
  <2> HIDE DEF v
  <2> QED BY DEF Accepts, Select
<1> HIDE DEF u
<1>8. /\ ~overflowed /\ u \in Nat /\ totalSupply \in Nat /\ WordSize \in Nat
      /\ balances \in [Wallets -> Amounts] /\ balances \in [Wallets -> Nat]
      /\ idBalance \in [Identities -> Amounts]
      /\ a \in Identities /\ balances[to] \in Amounts /\ idBalance[a] \in Amounts
  BY <1>4, <1>6, AmountsAreNat, WordSizeAssumption
     DEF CompliantMint, CInv, IInv, TypeOK, ComplianceTypeOK
<1>9. totalSupply + u < WordSize
  <2>1. ~(totalSupply + u >= WordSize)
    BY <1>4
  <2> QED BY <1>8, <2>1
<1>10. BookFits(idBalance, identity, balances)
  BY <1>1, <1>8, BookFitsNow
<1>11. Total(balances) = totalSupply
  BY <1>8, CurrentType DEF CInv, IInv, LedgerFits
<1>12. /\ idBalance[a] = Holdings(identity, balances, a)
       /\ balances[to] <= idBalance[a] /\ idBalance[a] <= totalSupply
  BY <1>8, <1>10, <1>11, HoldingsBounds DEF BookFits
<1>13. idBalance[a] \in Nat /\ balances[to] \in Nat
  BY <1>8, AmountsAreNat
<1>14. AddWord(balances[to], u) = balances[to] + u /\ AddWord(idBalance[a], u) = idBalance[a] + u
  BY <1>6, <1>8, <1>9, <1>12, <1>13, WordExact
<1>15. /\ balances' \in [Wallets -> Nat] /\ balances'[to] = balances[to] + u
       /\ \A w \in Wallets \ {to} : balances'[w] = balances[w]
  <2>1. balances' = [balances EXCEPT ![to] = balances[to] + u] /\ balances[to] + u \in Nat
    BY <1>4, <1>8, <1>13, <1>14
  <2> QED BY <1>8, <2>1
<1>16. ASSUME NEW i \in Identities
       PROVE  /\ idBalance'[i] = Holdings(identity, balances', i)
              /\ GrowsWithin(Holdings(identity, balances, i), Holdings(identity, balances', i))
  <2>1. /\ identity[to] = i => Holdings(identity, balances', i)
             = Holdings(identity, balances, i) - balances[to] + balances'[to]
        /\ identity[to] # i => Holdings(identity, balances', i) = Holdings(identity, balances, i)
    BY <1>8, <1>15, HoldingsOfUpdate
  <2>2. Holdings(identity, balances, i) \in Nat /\ idBalance[i] = Holdings(identity, balances, i)
    BY <1>8, <1>10, HoldingsNat DEF BookFits
  <2>3. idBalance' = [idBalance EXCEPT ![a] = idBalance[a] + u]
    BY <1>1, <1>14
  <2>4. CASE i # a
    BY <1>8, <2>1, <2>2, <2>3, <2>4 DEF GrowsWithin
  <2>5. CASE i = a
    <3>1. idBalance'[i] = idBalance[i] + u
      BY <1>8, <2>3, <2>5
    <3>2. Holdings(identity, balances', i) = Holdings(identity, balances, i) + u
      BY <1>8, <1>13, <1>15, <2>1, <2>2, <2>5
    <3>3. u # 0 => idBalance[a] + u <= maxBalance
      BY <1>7, <1>14 DEF WithinMax
    <3> HIDE DEF a
    <3> QED BY <1>8, <2>2, <2>5, <3>1, <3>2, <3>3 DEF GrowsWithin
  <2> QED BY <2>4, <2>5
<1> QED BY <1>1, <1>16 DEF BookFits

LEMMA BurnKeepsBook ==
  ASSUME CInv, BookIsWhatIdentitiesHold, NEW w \in Wallets, NEW amount \in Amounts,
         CompliantBurn(w, amount)
  PROVE  BookStep
<1> DEFINE v == Covered(Current, w, amount)
           r == Released(Current, w, v)
           b == [r.bal EXCEPT ![w] = SubWord(r.bal[w], v)]
           d == [r EXCEPT !.bal = b]
           a == identity[w]
<1>1. /\ UNCHANGED <<modules, identity, strayed, overflowed>>
      /\ Bound(MaxBalanceModule) =>
           /\ a \in bookedIds
           /\ idBalance' = [idBalance EXCEPT ![a] = SubWord(idBalance[a], v)]
      /\ balances' = d.bal
  BY DEF CompliantBurn, Burn, SetLedger, ruleVars
<1> SUFFICES ASSUME Bound(MaxBalanceModule), ~strayed', ~overflowed'
             PROVE  /\ BookFits(idBalance', identity', balances')
                    /\ \A i \in Identities :
                         GrowsWithin(Holdings(identity, balances, i),
                                     Holdings(identity', balances', i))
  BY <1>1, BookStepFrom
<1>2. /\ Current \in Ledger /\ Current.bal = balances
      /\ balances \in [Wallets -> Amounts] /\ balances \in [Wallets -> Nat]
      /\ idBalance \in [Identities -> Amounts] /\ a \in Identities
      /\ balances[w] \in Amounts /\ idBalance[a] \in Amounts
      /\ balances[w] \in Nat /\ idBalance[a] \in Nat
  BY <1>1, CurrentType, AmountsAreNat DEF CInv, IInv, TypeOK, ComplianceTypeOK
<1>3. v \in Amounts /\ v <= balances[w]
  BY <1>2, CoveredType
<1>4. r \in Ledger /\ r.bal = balances
  <2> HIDE DEF v
  <2> QED BY <1>2, <1>3, ReleasedType
<1>5. balances' = [balances EXCEPT ![w] = SubWord(balances[w], v)]
  <2>1. b = [balances EXCEPT ![w] = SubWord(balances[w], v)]
    BY <1>4
  <2>2. SubWord(balances[w], v) \in Amounts
    <3> HIDE DEF v
    <3> QED BY <1>2, <1>3, WordClosed
  <2>3. b \in [Wallets -> Amounts]
    <3> HIDE DEF v
    <3> QED BY <1>2, <2>1, <2>2
  <2> HIDE DEF r, b
  <2> QED BY <1>1, <1>4, <2>1, <2>3, SetBal
<1> HIDE DEF v, r, b, d
<1>6. BookFits(idBalance, identity, balances)
  BY <1>1, BookFitsNow
<1>7. idBalance[a] = Holdings(identity, balances, a) /\ balances[w] <= idBalance[a]
  BY <1>2, <1>6, HoldingsBounds DEF BookFits
<1>8. v \in Nat /\ v <= idBalance[a]
  BY <1>2, <1>3, <1>7, AmountsAreNat
<1>9. SubWord(balances[w], v) = balances[w] - v /\ SubWord(idBalance[a], v) = idBalance[a] - v
  BY <1>2, <1>3, <1>8, WordExact
<1>10. /\ balances' \in [Wallets -> Nat] /\ balances'[w] = balances[w] - v
       /\ \A x \in Wallets \ {w} : balances'[x] = balances[x]
  <2>1. balances' = [balances EXCEPT ![w] = balances[w] - v] /\ balances[w] - v \in Nat
    BY <1>2, <1>3, <1>5, <1>8, <1>9
  <2> QED BY <1>2, <2>1
<1>11. ASSUME NEW i \in Identities
       PROVE  /\ idBalance'[i] = Holdings(identity, balances', i)
              /\ GrowsWithin(Holdings(identity, balances, i), Holdings(identity, balances', i))
  <2>1. /\ identity[w] = i => Holdings(identity, balances', i)
             = Holdings(identity, balances, i) - balances[w] + balances'[w]
        /\ identity[w] # i => Holdings(identity, balances', i) = Holdings(identity, balances, i)
    BY <1>2, <1>10, HoldingsOfUpdate
  <2>2. Holdings(identity, balances, i) \in Nat /\ idBalance[i] = Holdings(identity, balances, i)
    BY <1>2, <1>6, HoldingsNat DEF BookFits
  <2>3. idBalance' = [idBalance EXCEPT ![a] = idBalance[a] - v]
    BY <1>1, <1>9
  <2>4. CASE i # a
    BY <1>2, <2>1, <2>2, <2>3, <2>4 DEF GrowsWithin
  <2>5. CASE i = a
    <3>1. idBalance'[i] = idBalance[i] - v
      BY <1>2, <2>3, <2>5
    <3>2. Holdings(identity, balances', i) = Holdings(identity, balances, i) - v
      BY <1>2, <1>8, <1>10, <2>1, <2>2, <2>5
    <3> HIDE DEF a
    <3> QED BY <1>8, <2>2, <3>1, <3>2 DEF GrowsWithin
  <2> QED BY <2>4, <2>5
<1> QED BY <1>1, <1>11 DEF BookFits

(* Steps that move no tokens and book nothing: the registry may move a wallet *)
(* that holds something to another identity only by going past the book.     *)
LEMMA QuietKeepsBook ==
  ASSUME TypeOK, BookIsWhatIdentitiesHold, UNCHANGED <<balances, overflowed, modules, idBalance>>,
         ~strayed' => ~strayed,
         ~strayed' => \A i : Holdings(identity', balances, i) = Holdings(identity, balances, i)
  PROVE  BookStep
<1> SUFFICES ASSUME Bound(MaxBalanceModule), ~strayed', ~overflowed'
             PROVE  /\ BookFits(idBalance', identity', balances')
                    /\ \A i \in Identities :
                         GrowsWithin(Holdings(identity, balances, i),
                                     Holdings(identity', balances', i))
  BY BookStepFrom
<1>1. BookFits(idBalance, identity, balances)
  BY BookFitsNow
<1>2. \A i \in Identities : Holdings(identity', balances', i) = Holdings(identity, balances, i)
  OBVIOUS
<1> QED BY <1>1, <1>2, StillFits

LEMMA IdentityKeepsBook ==
  ASSUME CInv, BookIsWhatIdentitiesHold, IdentityStep
  PROVE  BookStep
<1>1. /\ balances \in [Wallets -> Nat] /\ TypeOK
      /\ identity \in [Wallets -> Identities \cup {NoIdentity}]
  BY AmountsAreNat DEF CInv, IInv, TypeOK, ComplianceTypeOK
<1>2. ASSUME NEW w \in Wallets, NEW id \in Identities \cup {NoIdentity},
             identity' = [identity EXCEPT ![w] = id],
             UNCHANGED <<balances, overflowed, modules, idBalance>>,
             ~strayed' => ~strayed,
             ~strayed' => ~(balances[w] > 0 /\ id # identity[w])
      PROVE  BookStep
  <2>1. /\ \A x \in Wallets \ {w} : identity'[x] = identity[x]
        /\ identity'[w] = id
    BY <1>1, <1>2
  <2>2. ASSUME ~strayed' PROVE balances[w] = 0 \/ identity'[w] = identity[w]
    BY <1>1, <1>2, <2>1, <2>2
  <2>3. ~strayed' => \A i : Holdings(identity', balances, i) = Holdings(identity, balances, i)
    BY <1>1, <2>1, <2>2, HoldingsOfEmpty
  <2> QED BY <1>1, <1>2, <2>3, QuietKeepsBook
<1>3. ASSUME NEW w \in Wallets, NEW id \in Identities, Register(w, id) PROVE BookStep
  BY <1>2, <1>3 DEF Register, RegisterIdentity, ledgerVars, ruleVars, bookVars
<1>4. ASSUME NEW w \in Wallets, NEW id \in Identities, UpdateIdentity(w, id) PROVE BookStep
  BY <1>2, <1>4 DEF UpdateIdentity, SetIdentityRegistry, ledgerVars, ruleVars, bookVars
<1>5. ASSUME NEW w \in Wallets, Deregister(w) PROVE BookStep
  BY <1>2, <1>5 DEF Deregister, DeleteIdentity, ledgerVars, ruleVars, bookVars
<1>6. ASSUME NEW id \in Identities, ClaimsOf(id) PROVE BookStep
  BY <1>1, <1>6, QuietKeepsBook DEF ClaimsOf, SetIdentityRegistry, ledgerVars, ruleVars, bookVars
<1> QED BY <1>3, <1>4, <1>5, <1>6 DEF IdentityStep

(* Binding another module leaves MaxBalance bound or unbound.               *)
LEMMA AddedBound ==
  ASSUME ModulesOK, NEW m \in ComplianceModules, modules' = Append(modules, m),
         NEW x, Bound(x)'
  PROVE  Bound(x) \/ x = m
<1>1. modules \in Seq(ComplianceModules) /\ Len(modules) \in Nat
  BY DEF ModulesOK
<1>2. /\ Len(modules') = Len(modules) + 1
      /\ \A i \in 1 .. Len(modules) : modules'[i] = modules[i]
      /\ modules'[Len(modules) + 1] = m
      /\ modules' \in Seq(ComplianceModules)
  BY <1>1, AppendProperties
<1>3. PICK i \in 1 .. Len(modules') : modules'[i] = x
  BY <1>2 DEF Bound
<1>4. i \in 1 .. Len(modules) \/ i = Len(modules) + 1
  BY <1>1, <1>2
<1> QED BY <1>1, <1>2, <1>3, <1>4 DEF Bound

LEMMA RemovedBound ==
  ASSUME ModulesOK, NEW m, RemoveModule(m), NEW x, Bound(x)'
  PROVE  Bound(x)
<1>1. modules \in Seq(ComplianceModules) /\ Len(modules) \in Nat
      /\ DOMAIN modules = 1 .. Len(modules)
  BY DEF ModulesOK
<1>2. PICK i \in 1 .. Len(modules) :
        modules' = SubSeq([modules EXCEPT ![i] = modules[Len(modules)]], 1, Len(modules) - 1)
  BY <1>1 DEF RemoveModule
<1> DEFINE t == [modules EXCEPT ![i] = modules[Len(modules)]]
<1>3. /\ t \in Seq(ComplianceModules) /\ Len(t) = Len(modules)
      /\ \A k \in 1 .. Len(modules) :
           t[k] = IF k = i THEN modules[Len(modules)] ELSE modules[k]
  BY <1>1, ExceptSeq
<1> HIDE DEF t
<1>4. modules' = SubSeq(t, 1, Len(modules) - 1)
  BY <1>2 DEF t
<1>5. /\ Len(modules') = Len(modules) - 1
      /\ \A k \in 1 .. Len(modules) - 1 : modules'[k] = t[k]
      /\ modules' \in Seq(ComplianceModules)
  BY <1>1, <1>3, <1>4
<1>6. PICK k \in 1 .. Len(modules') : modules'[k] = x
  BY <1>5 DEF Bound
<1>7. x = t[k] /\ k \in 1 .. Len(modules) /\ Len(modules) \in 1 .. Len(modules)
  BY <1>1, <1>5, <1>6
<1>8. x = modules[k] \/ x = modules[Len(modules)]
  BY <1>3, <1>7
<1> QED BY <1>1, <1>7, <1>8 DEF Bound

LEMMA OwnerKeepsBook ==
  ASSUME CInv, BookIsWhatIdentitiesHold, OwnerStep
  PROVE  BookStep
<1>1. /\ TypeOK /\ ModulesOK
      /\ idBalance \in [Identities -> Amounts] /\ balances \in [Wallets -> Nat]
  BY TypeParts, AmountsAreNat DEF CInv, IInv, TypeOK, ComplianceTypeOK
<1>2. \A i \in Identities : GrowsWithin(Holdings(identity, balances, i), Holdings(identity, balances, i))
  BY <1>1, HoldingsNat DEF GrowsWithin
<1>3. ASSUME UNCHANGED <<balances, overflowed, modules, idBalance, identity, strayed>>
      PROVE  BookStep
  BY <1>1, <1>3, QuietKeepsBook
<1>4. ASSUME NEW m \in ComplianceModules, AddModule(m) PROVE BookStep
  <2>1. /\ UNCHANGED <<balances, overflowed, idBalance, identity>>
        /\ modules' = Append(modules, m) /\ ~Bound(m)
        /\ m = MaxBalanceModule =>
             strayed' = (idBalance # [i \in Identities |-> Holdings(identity, balances, i)])
        /\ m # MaxBalanceModule => strayed' = strayed
    BY <1>4 DEF AddModule, bookVars, vars
  <2>2. ASSUME Bound(MaxBalanceModule)', ~strayed', ~overflowed'
        PROVE  \A i \in Identities : idBalance'[i] = Holdings(identity', balances', i)
    <3>1. CASE m = MaxBalanceModule
      BY <2>1, <2>2, <3>1
    <3>2. CASE m # MaxBalanceModule
      <4>1. Bound(MaxBalanceModule)
        BY <1>1, <2>1, <2>2, <3>2, AddedBound
      <4> QED BY <2>1, <2>2, <3>2, <4>1 DEF BookIsWhatIdentitiesHold
    <3> QED BY <3>1, <3>2
  <2>3. BookIsWhatIdentitiesHold'
    BY <2>2 DEF BookIsWhatIdentitiesHold
  <2> QED BY <1>2, <2>1, <2>3 DEF BookStep
<1>5. ASSUME NEW m \in ComplianceModules, RemoveModule(m) PROVE BookStep
  <2>1. UNCHANGED <<balances, overflowed, idBalance, identity, strayed>>
    BY <1>5 DEF RemoveModule, bookVars, vars
  <2>2. Bound(MaxBalanceModule)' => Bound(MaxBalanceModule)
    BY <1>1, <1>5, RemovedBound
  <2>3. BookIsWhatIdentitiesHold'
    BY <2>1, <2>2 DEF BookIsWhatIdentitiesHold
  <2> QED BY <1>2, <2>1, <2>3 DEF BookStep
<1>6. ASSUME NEW id \in Identities, NEW amount \in Amounts, PreSetModuleState(id, amount)
      PROVE  BookStep
  <2>1. UNCHANGED <<balances, overflowed, modules, identity, strayed>> /\ ~Bound(MaxBalanceModule)
    BY <1>6 DEF PreSetModuleState, ruleVars, vars
  <2> QED BY <2>1, BookStepFrom
<1>7. CASE PresetCompleted
  BY <1>3, <1>7 DEF PresetCompleted, bookVars, vars
<1>8. ASSUME NEW amount \in Amounts, SetMaxBalance(amount) \/ SetSupplyLimit(amount) PROVE BookStep
  BY <1>3, <1>8 DEF SetMaxBalance, SetSupplyLimit, bookVars, vars
<1>9. ASSUME NEW rate \in 0 .. FullRate, SetFee(rate) PROVE BookStep
  BY <1>3, <1>9 DEF SetFee, bookVars, vars
<1> QED BY <1>4, <1>5, <1>6, <1>7, <1>8, <1>9 DEF OwnerStep

LEMMA SilentKeepsBook ==
  ASSUME CInv, BookIsWhatIdentitiesHold, SilentStep \/ UNCHANGED cvars
  PROVE  BookStep
<1>1. TypeOK
  BY DEF CInv, IInv
<1>2. UNCHANGED <<modules, idBalance, identity, strayed>>
  BY DEF SilentStep, complianceVars, cvars, ruleVars, bookVars
<1>3. UNCHANGED <<balances, overflowed>>
  <2>1. ASSUME NEW w \in Wallets, NEW amount \in Amounts, FreezePartialTokens(w, amount)
        PROVE  UNCHANGED <<balances, overflowed>>
    BY <1>1, <2>1, CurrentType, FrozenMoreBal DEF FreezePartialTokens, SetLedger
  <2> QED BY <2>1 DEF SilentStep, cvars, vars, AllowanceStep, Approve, IncreaseAllowance,
     DecreaseAllowance, SetAllowance, RoleStep, AddAgent, RemoveAgent, Pause, Unpause,
     SetAddressFrozen, UnfreezePartialTokens, ledgerVars
<1> QED BY <1>1, <1>2, <1>3, QuietKeepsBook

LEMMA HoldersKeepBook ==
  ASSUME CInv, BookIsWhatIdentitiesHold, NEW from \in Wallets, NEW to \in Wallets,
         NEW amount \in Amounts,
         CompliantTransfer(from, to, amount)
           \/ \E s \in Spenders : CompliantTransferFrom(s, from, to, amount)
  PROVE  BookStep
<1>1. ~overflowed => /\ frozenTokens[from] <= balances[from]
                     /\ FreeTokens(Current, from) <= balances[from]
  <2> SUFFICES ASSUME ~overflowed PROVE /\ frozenTokens[from] <= balances[from]
                                        /\ FreeTokens(Current, from) <= balances[from]
    OBVIOUS
  <2>1. /\ Current.bal = balances /\ Current.frozen = frozenTokens
        /\ LedgerFits(Current, totalSupply)
    BY CurrentType DEF CInv, IInv
  <2>2. /\ balances[from] \in Nat /\ frozenTokens[from] \in Nat
        /\ frozenTokens[from] <= balances[from]
    BY <2>1, FitsType
  <2> QED BY <2>1, <2>2 DEF FreeTokens, SubWord
<1>2. ASSUME NEW c, ~overflowed => (c => amount <= FreeTokens(Current, from))
      PROVE  /\ Select(c, amount, 0) \in Amounts
             /\ ~overflowed => Select(c, amount, 0) <= balances[from]
  <2>1. FreeTokens(Current, from) \in Nat /\ balances[from] \in Nat /\ amount \in Nat
    BY CurrentType, WordClosed, AmountsAreNat DEF FreeTokens, CInv, IInv, TypeOK
  <2> QED BY <1>1, <1>2, <2>1, SelectType DEF Select
<1>3. CASE CompliantTransfer(from, to, amount)
  <2> DEFINE covered == Select(amount <= FreeTokens(Current, from), amount, 0)
             told == Asked(from, to, covered)
  <2>1. covered \in Amounts /\ (~overflowed => covered <= balances[from])
    BY <1>2
  <2>2. /\ HolderMove(from, to, covered, told.answer) /\ Keep(told)
        /\ Identified(identity, {from, to})
        /\ UNCHANGED <<identity, ruleVars, strayed, overflowed>>
    BY <1>3 DEF CompliantTransfer, Transfer
  <2> HIDE DEF covered
  <2> QED BY <2>1, <2>2, HolderKeepsBook
<1>4. ASSUME NEW s \in Spenders, CompliantTransferFrom(s, from, to, amount) PROVE BookStep
  <2> DEFINE covered == Select(Spendable(s, from, amount), amount, 0)
             told == Asked(from, to, covered)
  <2>1. covered \in Amounts /\ (~overflowed => covered <= balances[from])
    BY <1>2 DEF Spendable
  <2>2. /\ HolderMove(from, to, covered, told.answer) /\ Keep(told)
        /\ Identified(identity, {from, to})
        /\ UNCHANGED <<identity, ruleVars, strayed, overflowed>>
    BY <1>4 DEF CompliantTransferFrom, TransferFrom
  <2> HIDE DEF covered
  <2> QED BY <2>1, <2>2, HolderKeepsBook
<1> QED BY <1>3, <1>4

LEMMA NextKeepsBook ==
  ASSUME CInv, CInv', BookIsWhatIdentitiesHold, [ComplianceNext]_cvars
  PROVE  BookStep
<1>1. CASE CompliantStep
  BY <1>1, HoldersKeepBook, ForcedKeepsBook, RecoveryKeepsBook, MintKeepsBook, BurnKeepsBook
     DEF CompliantStep
<1> QED BY <1>1, IdentityKeepsBook, OwnerKeepsBook, SilentKeepsBook DEF ComplianceNext

LEMMA BookHolds == ComplianceSpec => [](CInv /\ BookIsWhatIdentitiesHold)
<1>1. ComplianceInit => BookIsWhatIdentitiesHold
  BY DEF ComplianceInit, BookIsWhatIdentitiesHold, Bound
<1>2. CInv /\ CInv' /\ BookIsWhatIdentitiesHold /\ [ComplianceNext]_cvars
        => BookIsWhatIdentitiesHold'
  BY NextKeepsBook DEF BookStep
<1> QED BY <1>1, <1>2, CInvHolds, PTL DEF ComplianceSpec, cvars

(* MaxBalance sees no balance and is told of each move in the middle of the   *)
(* call that makes it, of a fee before or after the transfer it is taken      *)
(* from; still its book says what each identity holds, for any number of      *)
(* wallets and identities and any order of the modules, unless the registry  *)
(* or a recovery has moved tokens past it.                                   *)
THEOREM BookIsTrue == ComplianceSpec => []BookIsWhatIdentitiesHold
BY BookHolds, PTL

(* As the book is true, comparing it with the maximum caps what an identity   *)
(* holds, over all its wallets.                                              *)
THEOREM MaxBalanceHolds == ComplianceSpec => MaxBalanceIsEnforced
<1>1. CInv /\ CInv' /\ BookIsWhatIdentitiesHold /\ [ComplianceNext]_cvars =>
        (Bound(MaxBalanceModule) /\ ~strayed' /\ ~overflowed' =>
           \A id \in Identities :
             Holdings(identity', balances', id) > Holdings(identity, balances, id) =>
               Holdings(identity', balances', id) <= maxBalance)
  <2> SUFFICES ASSUME CInv, CInv', BookIsWhatIdentitiesHold, [ComplianceNext]_cvars,
                      Bound(MaxBalanceModule), ~strayed', ~overflowed', NEW id \in Identities,
                      Holdings(identity', balances', id) > Holdings(identity, balances, id)
               PROVE  Holdings(identity', balances', id) <= maxBalance
    OBVIOUS
  <2>1. GrowsWithin(Holdings(identity, balances, id), Holdings(identity', balances', id))
    BY NextKeepsBook DEF BookStep
  <2>2. balances \in [Wallets -> Nat] /\ balances' \in [Wallets -> Nat]
    BY AmountsAreNat DEF CInv, IInv, TypeOK
  <2>3. /\ Holdings(identity, balances, id) \in Nat
        /\ Holdings(identity', balances', id) \in Nat
    BY <2>2, HoldingsNat
  <2> QED BY <2>1, <2>3 DEF GrowsWithin
<1> QED BY <1>1, BookHolds, PTL DEF ComplianceSpec, MaxBalanceIsEnforced, cvars

-----------------------------------------------------------------------------
(* What a transfer costs its receiver.                                      *)

(* MaxBalance, once it has let a transfer between two identities through,    *)
(* still accepts it after the fee: the receiver's entry has not grown.       *)
LEMMA AcceptedAfterFee ==
  ASSUME CInv, BookIsWhatIdentitiesHold, ~strayed, ~overflowed, NEW known,
         NEW from \in Wallets, NEW to \in Wallets, NEW v \in Amounts, v <= balances[from],
         Charges(identity, from, to), MayReceive(identity[to], v),
         Identified(identity, {from, to}), Collector \in known => identity[Collector] \in Identities
  PROVE  Accepts(BookBeforeMove(identity, known, from, to, v), identity[to], v)
<1> DEFINE a == identity[from]
           b == identity[to]
           k == identity[Collector]
           paid == PaidIn(identity, from, to, v)
           nested == ChargedIn(identity, known, from, to)
           s == Select(WithinMax(idBalance, k, paid), paid, 0)
           n == Booked(idBalance, b, k, paid)
<1> SUFFICES ASSUME Bound(MaxBalanceModule)
             PROVE  WithinMax(BookBeforeMove(identity, known, from, to, v), b, v)
  BY DEF Accepts
<1>1. WithinMax(idBalance, b, v)
  BY DEF MayReceive
<1>2. CASE ~(FeeComesFirst /\ nested)
  BY <1>1, <1>2 DEF BookBeforeMove
<1>3. CASE FeeComesFirst /\ nested
  <2>1. BookBeforeMove(identity, known, from, to, v) = n
    BY <1>3 DEF BookBeforeMove
  <2>2. BookFits(idBalance, identity, balances)
    BY BookFitsNow
  <2>3. /\ a \in Identities /\ b \in Identities /\ k \in Identities /\ a # b
    BY <1>3, IdentifiedType DEF ChargedIn, Charges, CInv, ComplianceTypeOK
  <2>4. /\ balances \in [Wallets -> Amounts] /\ balances \in [Wallets -> Nat]
        /\ balances[from] \in Nat /\ balances[to] \in Nat /\ v \in Nat
        /\ idBalance \in [Identities -> Amounts] /\ maxBalance \in Nat
        /\ Current \in Ledger /\ Current.bal = balances
        /\ WordSize \in Nat
    BY CurrentType, AmountsAreNat, WordSizeAssumption DEF CInv, IInv, TypeOK, ComplianceTypeOK
  <2>5. Total(balances) \in Nat /\ Total(balances) < WordSize
    <3>1. Total(balances) = totalSupply /\ totalSupply \in Amounts
      BY <2>4 DEF CInv, IInv, TypeOK, LedgerFits
    <3> QED BY <3>1, WordSizeAssumption DEF Amounts
  <2>6. FeeIn(identity, from, to, v) \in Amounts
    BY FeeOfType, WordClosed DEF FeeIn, CInv, ComplianceTypeOK
  <2>7. paid \in Amounts /\ paid <= balances[to] /\ paid \in Nat
    <3>1. paid \in Amounts /\ paid <= balances[to]
      BY <2>4, <2>6, CoveredType DEF PaidIn
    <3> HIDE DEF paid
    <3> QED BY <3>1, AmountsAreNat
  <2> HIDE DEF paid
  <2>8. /\ balances[to] <= idBalance[b]
        /\ idBalance[b] + balances[from] <= Total(balances)
        /\ k # b => idBalance[k] + balances[to] <= Total(balances)
        /\ idBalance[b] \in Nat /\ idBalance[k] \in Nat /\ idBalance[b] \in Amounts
    <3>1. /\ idBalance[b] = Holdings(identity, balances, b)
          /\ idBalance[k] = Holdings(identity, balances, k)
      BY <2>2, <2>3 DEF BookFits
    <3>2. /\ idBalance[b] \in Amounts /\ idBalance[k] \in Amounts
          /\ idBalance[b] \in Nat /\ idBalance[k] \in Nat
      BY <2>3, <2>4, AmountsAreNat
    <3>3. identity[to] = b /\ identity[from] # b
      BY <2>3
    <3> HIDE DEF b, k
    <3>4. balances[to] <= Holdings(identity, balances, b)
      BY <2>4, <3>3, HoldingsBounds
    <3>5. Holdings(identity, balances, b) + balances[from] <= Total(balances)
      BY <2>4, <3>3, HoldingsBounds
    <3>6. k # b => Holdings(identity, balances, k) + balances[to] <= Total(balances)
      BY <2>4, <3>3, HoldingsBounds
    <3> QED BY <3>1, <3>2, <3>4, <3>5, <3>6
  <2>9. s \in Amounts /\ s <= paid /\ s \in Nat
    <3>1. s \in Amounts /\ s <= paid
      BY <2>7, SelectType
    <3> HIDE DEF s
    <3> QED BY <3>1, AmountsAreNat
  <2>10. b # k => s <= idBalance[b] /\ idBalance[k] + s < WordSize
    <3> HIDE DEF s, b, k
    <3> QED BY <2>4, <2>5, <2>7, <2>8, <2>9
  <2>11. n[b] = idBalance[b] - (IF b = b THEN s ELSE 0) + (IF b = k THEN s ELSE 0)
         /\ n \in [Identities -> Amounts]
    <3> HIDE DEF b, k
    <3>1. \A i \in Identities :
            n[i] = idBalance[i] - (IF i = b THEN s ELSE 0) + (IF i = k THEN s ELSE 0)
      BY <2>3, <2>4, <2>7, <2>9, <2>10, BookedExact
    <3>2. n \in [Identities -> Amounts]
      BY <2>3, <2>4, <2>7, BookedType
    <3> HIDE DEF n, s
    <3> QED BY <2>3, <3>1, <3>2
  <2>12. n[b] <= idBalance[b] /\ n[b] \in Amounts /\ n[b] \in Nat
    <3>1. n[b] \in Amounts /\ n[b] \in Nat
      BY <2>3, <2>11, AmountsAreNat
    <3> HIDE DEF n, s, b, k
    <3> QED BY <2>8, <2>9, <2>11, <3>1
  <2>13. AddWord(idBalance[b], v) = idBalance[b] + v /\ AddWord(n[b], v) = n[b] + v
    <3> HIDE DEF n, s, b, k
    <3> QED BY <2>4, <2>5, <2>8, <2>12, WordExact
  <2>14. AddWord(n[b], v) <= maxBalance
    <3> HIDE DEF n, s, b, k
    <3> QED BY <1>1, <2>4, <2>8, <2>12, <2>13 DEF WithinMax
  <2> QED BY <2>1, <2>14 DEF WithinMax
<1> QED BY <1>2, <1>3

(* A transfer between two wallets never leaves the receiver with less.       *)
LEMMA ReceiverGains ==
  ASSUME CInv, BookIsWhatIdentitiesHold, ~strayed, ~overflowed,
         NEW from \in Wallets, NEW to \in Wallets, from # to, NEW amount \in Amounts,
         CompliantTransfer(from, to, amount)
  PROVE  /\ balances'[to] >= balances[to]
         /\ balances'[to] \in Nat /\ balances[to] \in Nat
<1> DEFINE covered == Select(amount <= FreeTokens(Current, from), amount, 0)
           can  == MayReceive(identity[to], covered)
           v    == Select(can, covered, 0)
           told == Asked(from, to, covered)
           fee  == FeeIn(identity, from, to, v)
           paid == PaidIn(identity, from, to, v)
           c    == FeeTaken(Current, verified, to, told.answer).bal
           s    == Select(told.answer.done, v, 0)
           p    == Select(told.answer.feeDone, paid, 0)
<1>1. /\ Current \in Ledger /\ Current.bal = balances /\ Current.frozen = frozenTokens
      /\ balances \in [Wallets -> Amounts] /\ balances[to] \in Nat /\ balances[from] \in Nat
      /\ frozenTokens[from] \in Nat /\ frozenTokens[from] <= balances[from]
      /\ LedgerFits(Current, totalSupply) /\ totalSupply \in Amounts
  BY CurrentType, FitsType DEF CInv, IInv, TypeOK
<1>2. Total(balances) < WordSize
  BY <1>1, WordSizeAssumption DEF LedgerFits, Amounts
<1>3. covered \in Amounts /\ covered \in Nat /\ covered <= balances[from]
  <2>1. FreeTokens(Current, from) \in Nat /\ FreeTokens(Current, from) <= balances[from]
    BY <1>1 DEF FreeTokens, SubWord
  <2>2. covered \in Amounts
    BY SelectType
  <2>3. amount \in Nat
    BY AmountsAreNat
  <2> QED BY <1>1, <2>1, <2>2, <2>3 DEF Select
<1>4. /\ HolderMove(from, to, covered, told.answer)
      /\ Identified(identity, {from, to})
  BY DEF CompliantTransfer, Transfer
<1> HIDE DEF covered
<1>5. /\ v \in Amounts /\ v \in Nat /\ v <= balances[from]
  <2>1. v \in Amounts /\ v <= covered
    BY <1>3, SelectType
  <2> HIDE DEF v
  <2>2. v \in Nat
    BY <2>1, AmountsAreNat
  <2> QED BY <1>1, <1>3, <2>1, <2>2
<1>6. /\ told = Told(identity, verified, from, to, can, v)
  BY DEF Asked
<1>7. told.answer \in Answers
  BY <1>3, AskedAnswers
<1> HIDE DEF can, told
<1>8. /\ told.answer.can = can /\ told.answer.fee = fee
      /\ told.answer.charges = Charges(identity, from, to)
      /\ told.answer.done = Accepts(BookBeforeMove(identity, verified, from, to, v), identity[to], v)
  BY <1>6, ToldParts
<1>9. fee \in Amounts /\ fee \in Nat /\ (fee > 0 => Charges(identity, from, to))
  <2>1. fee \in Amounts /\ (fee # 0 => Charges(identity, from, to))
    BY <1>5, FeeOfType, WordClosed DEF FeeIn, CInv, ComplianceTypeOK
  <2> HIDE DEF fee
  <2> QED BY <2>1, AmountsAreNat
<1>10. fee > 0 => Collector \notin {from, to} /\ fee <= v
  BY <1>4, <1>8, <1>9 DEF HolderMove, FeeAllowed
<1> HIDE DEF fee
<1>11. paid \in Amounts /\ paid \in Nat /\ paid <= fee /\ paid <= balances[to]
  <2>1. paid = Covered(Current, to, fee)
    BY DEF PaidIn, fee
  <2>2. paid \in Amounts /\ paid <= balances[to] /\ paid <= fee
    BY <1>1, <1>9, <2>1, CoveredType DEF Covered, Select
  <2> HIDE DEF paid
  <2> QED BY <2>2, AmountsAreNat
<1>12. p \in Amounts /\ p \in Nat /\ p <= fee /\ p <= balances[to]
  <2> HIDE DEF paid
  <2>1. p \in Amounts /\ p <= paid
    BY <1>11, SelectType
  <2> HIDE DEF p
  <2>2. p \in Nat
    BY <2>1, AmountsAreNat
  <2> QED BY <1>1, <1>9, <1>11, <2>1, <2>2
<1>13. c = IF Collector \in verified THEN Moved(balances, to, Collector, p) ELSE balances
  <2>1. Covered(Current, to, told.answer.fee) = paid
    BY <1>8 DEF PaidIn, fee
  <2> HIDE DEF paid
  <2> QED BY <1>1, <1>7, <2>1, FeeTakenBal
<1>14. balances' = Moved(c, from, to, s)
  BY <1>3, <1>4, <1>7, <1>8, HolderMoveBal DEF CInv, IInv
<1>15. s \in Amounts /\ s \in Nat /\ s <= v
  <2> HIDE DEF v
  <2>1. s \in Amounts /\ s <= v
    BY <1>5, SelectType
  <2> HIDE DEF s
  <2> QED BY <2>1, AmountsAreNat
<1>16. fee > 0 => s = v
  <2> SUFFICES ASSUME fee > 0 PROVE told.answer.done
    BY DEF Select
  <2>1. v > 0
    <3> HIDE DEF v
    <3> QED BY <1>5, <1>9, <1>10
  <2>2. can /\ v = covered
    <3>1. ~can => v = 0
      BY DEF Select
    <3>2. can => v = covered
      BY DEF Select
    <3> HIDE DEF v
    <3> QED BY <2>1, <3>1, <3>2
  <2>3. MayReceive(identity[to], v)
    <3> HIDE DEF v
    <3> QED BY <2>2 DEF can
  <2>4. Collector \in verified => identity[Collector] \in Identities
    BY DEF CInv, ComplianceTypeOK
  <2> HIDE DEF v
  <2> QED BY <1>4, <1>5, <1>8, <1>9, <2>3, <2>4, AcceptedAfterFee
<1> HIDE DEF p, s, v, paid
<1>17. /\ c \in [Wallets -> Amounts] /\ Total(c) < WordSize
       /\ c[from] = balances[from]
       /\ c[to] >= balances[to] - p /\ (fee = 0 => c[to] = balances[to])
  <2>1. CASE Collector \notin verified \/ fee = 0
    <3>1. c = balances
      <4>1. fee = 0 => p = 0
        BY <1>12
      <4>2. p = 0 => Moved(balances, to, Collector, p) = balances
        BY <1>1, <1>12, TokenAssumption, MovedAnyway
      <4> HIDE DEF c
      <4> QED BY <1>13, <2>1, <4>1, <4>2
    <3> HIDE DEF c
    <3> QED BY <1>1, <1>2, <1>12, <3>1
  <2>2. CASE Collector \in verified /\ fee # 0
    <3>1. c = Moved(balances, to, Collector, p)
      BY <1>13, <2>2
    <3>2. Collector \in Wallets /\ Collector \notin {from, to}
      BY <1>9, <1>10, <2>2, TokenAssumption
    <3> HIDE DEF c
    <3>3. /\ c \in [Wallets -> Amounts] /\ Total(c) = Total(balances)
          /\ c[to] = balances[to] - p
          /\ \A w \in Wallets \ {to, Collector} : c[w] = balances[w]
      BY <1>1, <1>2, <1>12, <3>1, <3>2, MovedBetween
    <3> QED BY <1>1, <1>2, <1>12, <2>2, <3>2, <3>3
  <2> QED BY <2>1, <2>2
<1> HIDE DEF c
<1>18. s <= c[from]
  BY <1>1, <1>5, <1>15, <1>17
<1>19. balances'[to] = c[to] + s
  BY <1>14, <1>15, <1>17, <1>18, MovedBetween
<1>20. c[to] \in Nat
  BY <1>17, AmountsAreNat
<1> QED BY <1>1, <1>5, <1>9, <1>10, <1>12, <1>15, <1>16, <1>17, <1>19, <1>20

(* A fee is never more than what arrives, and what MaxBalance has let through *)
(* before the fee it does not refuse after it: so a transfer costs its       *)
(* receiver nothing.                                                         *)
THEOREM ReceiversKeepTheirs == ComplianceSpec => ReceiverNeverPaysForNothing
<1>1. CInv /\ BookIsWhatIdentitiesHold =>
        (~strayed /\ ~overflowed =>
           \A to \in Wallets :
             balances'[to] < balances[to] =>
               ~\E from \in Wallets \ {to}, amount \in Amounts :
                  CompliantTransfer(from, to, amount))
  <2> SUFFICES ASSUME CInv, BookIsWhatIdentitiesHold, ~strayed, ~overflowed, NEW to \in Wallets,
                      balances'[to] < balances[to], NEW from \in Wallets \ {to},
                      NEW amount \in Amounts, CompliantTransfer(from, to, amount)
               PROVE  FALSE
    OBVIOUS
  <2> QED BY ReceiverGains
<1> QED BY <1>1, BookHolds, PTL DEF ComplianceSpec, ReceiverNeverPaysForNothing, cvars
=============================================================================
