--------------------------- MODULE TokenInvestors ---------------------------
(***************************************************************************)
(* Who may read what: the list of investors that the token keeps on the     *)
(* side of its ledger (_beforeTokenTransfer, removeInvestor) in order to    *)
(* grant access to the encrypted total supply, and the access of a holder   *)
(* to its own balance.                                                      *)
(*                                                                         *)
(* Every sum is a new ciphertext that nobody can decrypt until access to it *)
(* is granted, so a right is a fact about the ciphertext a slot holds now.  *)
(* The module adds its variables to the operations of Token; what an        *)
(* operation moves, and whether it reverts, stays the business of Token.    *)
(***************************************************************************)
EXTENDS Token, SequencesExt

CONSTANT MaxListed      \* bound on the length of investorList, for TLC

ZeroAddress == 0        \* the other party of a mint and of a burn
Parties == Wallets \cup {ZeroAddress}

VARIABLES
  investors,        \* the mapping investors: the addresses it maps to true
  investorList,     \* the array investorList
  supplyReaders,    \* the parties that may decrypt the current total supply
  balanceReaders,   \* the wallets that may decrypt their current balance
  removed           \* history: removed by an agent, nothing received since

bookVars == <<investors, investorList, supplyReaders, balanceReaders, removed>>

Book == [investors |-> investors, list |-> investorList,
         readers |-> balanceReaders, removed |-> removed]

(* _beforeTokenTransfer: the receiver is listed unless the mapping knows it, *)
(* the sender leaves the mapping but not the list.                          *)
Noted(book, from, to) ==
  [book EXCEPT
     !.investors = (book.investors \cup {to}) \ {from},
     !.list = IF to \in book.investors THEN book.list ELSE Append(book.list, to),
     !.removed = book.removed \ {to}]

(* Mutant: the access is granted to the sender.                             *)
PassedToSender(book, from, to) ==
  [Noted(book, from, to) EXCEPT !.readers = (book.readers \cup {from}) \ {to}]

(* _transfer: the receiver may read its new balance, the sender is given no  *)
(* access to what it has left.                                              *)
Passed(book, from, to) ==
  [Noted(book, from, to) EXCEPT !.readers = (book.readers \cup {to}) \ {from}]

(* A transfer, after the transfer of the fee that it triggers.              *)
PassedWithFee(known, from, to, answer) ==
  Passed(IF answer.charges /\ Collector \in known THEN Passed(Book, to, Collector) ELSE Book,
         from, to)

Enter(book) ==
  /\ Len(book.list) <= MaxListed
  /\ investors' = book.investors
  /\ investorList' = book.list
  /\ balanceReaders' = book.readers
  /\ removed' = book.removed

(* allowEachInvestorToAccessTotalSupply, on the supply as it was or, after a *)
(* mint or a burn, on a new one.                                            *)
GrantOldSupply == supplyReaders' = supplyReaders \cup ToSet(investorList')

(* Mutant: access is granted before the new supply is computed.             *)
GrantTooEarly == supplyReaders' = {}

GrantNewSupply == supplyReaders' = ToSet(investorList')

NotedTransfer(known, from, to, answer) ==
  IF to \in known
  THEN Enter(PassedWithFee(known, from, to, answer)) /\ GrantOldSupply
  ELSE UNCHANGED bookVars

-----------------------------------------------------------------------------
InvestorsInit ==
  /\ Init
  /\ investors = {}
  /\ investorList = <<>>
  /\ supplyReaders = {}
  /\ balanceReaders = {}
  /\ removed = {}

HolderNoted(from, to, amount, answer) ==
  /\ \/ Transfer(from, to, amount, answer)
     \/ \E s \in Spenders : TransferFrom(s, from, to, amount, answer)
  /\ NotedTransfer(verified, from, to, answer)

ForcedNoted(from, to, amount, answer) ==
  /\ ForcedTransfer(from, to, amount, answer)
  /\ NotedTransfer(verified, from, to, answer)

RecoveryNoted(lost, new, valid, answer) ==
  /\ RecoverAddress(lost, new, valid, answer)
  /\ NotedTransfer(IF valid THEN verified \cup {new} ELSE verified, lost, new, answer)

MintNoted(to, amount, answer) ==
  /\ Mint(to, amount, answer)
  /\ Enter([Noted(Book, ZeroAddress, to) EXCEPT !.readers = balanceReaders \cup {to}])
  /\ GrantNewSupply

(* Mutant: a burn is noted like a transfer to the zero address.             *)
BurnNotedAsTransfer(w, amount) ==
  /\ Burn(w, amount)
  /\ Enter(Passed(Book, w, ZeroAddress))
  /\ GrantNewSupply

BurnNoted(w, amount) ==
  /\ Burn(w, amount)
  /\ Enter([Noted(Book, w, ZeroAddress) EXCEPT !.readers = balanceReaders \cup {w}])
  /\ GrantNewSupply

(* Mutant: the mapping still knows whoever was removed from the list.       *)
RemoveInvestorFromListOnly(investor) ==
  /\ OnlyAgent
  /\ IF Contains(investorList, investor)
     THEN LET i == SelectInSeq(investorList, LAMBDA entry : entry = investor)
          IN  /\ investorList' = Front([investorList EXCEPT ![i] = Last(investorList)])
              /\ removed' = removed \cup {investor}
     ELSE UNCHANGED <<investorList, removed>>
  /\ UNCHANGED <<investors, supplyReaders, balanceReaders>>
  /\ UNCHANGED vars

(* The first occurrence gives its place to the last entry of the list.      *)
RemoveInvestor(investor) ==
  /\ OnlyAgent
  /\ IF Contains(investorList, investor)
     THEN LET i == SelectInSeq(investorList, LAMBDA entry : entry = investor)
          IN  /\ investors' = investors \ {investor}
              /\ investorList' = Front([investorList EXCEPT ![i] = Last(investorList)])
              /\ removed' = removed \cup {investor}
     ELSE UNCHANGED <<investors, investorList, removed>>
  /\ UNCHANGED <<supplyReaders, balanceReaders>>
  /\ UNCHANGED vars

(* The operations of the token that move nothing.                           *)
NothingNoted ==
  /\ \/ AllowanceStep \/ RegistryStep \/ RoleStep \/ Pause \/ Unpause
     \/ \E w \in Wallets, freeze \in BOOLEAN : SetAddressFrozen(w, freeze)
     \/ \E w \in Wallets, amount \in Amounts :
          FreezePartialTokens(w, amount) \/ UnfreezePartialTokens(w, amount)
  /\ UNCHANGED bookVars

InvestorsStep ==
  \/ \E from, to \in Wallets, amount \in Amounts, answer \in Answers :
       HolderNoted(from, to, amount, answer) \/ ForcedNoted(from, to, amount, answer)
  \/ \E lost, new \in Wallets, valid \in BOOLEAN, answer \in Answers :
       RecoveryNoted(lost, new, valid, answer)
  \/ \E to \in Wallets, amount \in Amounts, answer \in Answers : MintNoted(to, amount, answer)
  \/ \E w \in Wallets, amount \in Amounts : BurnNoted(w, amount)
  \/ \E investor \in Parties : RemoveInvestor(investor)

InvestorsNext == InvestorsStep \/ NothingNoted

InvestorsSpec == InvestorsInit /\ [][InvestorsNext]_<<vars, bookVars>>

-----------------------------------------------------------------------------
(* Properties.                                                             *)

InvestorsTypeOK ==
  /\ investors \subseteq Parties
  /\ investorList \in Seq(Parties)
  /\ supplyReaders \subseteq Parties
  /\ balanceReaders \subseteq Wallets
  /\ removed \subseteq Parties

(* The reason for the list: whoever holds tokens may read the total supply,  *)
(* however often it was replaced by a mint or a burn since the tokens came,  *)
(* unless an agent took the holder off the list.                            *)
HoldersReadSupply ==
  \A w \in Wallets : balances[w] > 0 /\ w \notin removed => w \in supplyReaders

(* The mapping decides whether a receiver is appended, so whoever it knows   *)
(* must be on the list: a removal that forgot to clear it, or that dropped   *)
(* another entry than it moved, would leave a receiver off the list for good. *)
KnownInvestorsAreListed == investors \subseteq ToSet(investorList)

(* Every new balance is a new ciphertext, which loses the access its holder  *)
(* had to the old one; a sender is not granted access to what it has left.   *)
(* Whoever gains tokens can read the new balance, however they arrived: by a *)
(* mint, a transfer, a forced transfer or a recovery.  (After an overflow a  *)
(* sender may gain: more can be frozen then than is held, and what is left   *)
(* wraps around.)                                                           *)
GainsAreReadable ==
  [][~overflowed =>
       \A w \in Wallets : balances'[w] > balances[w] => w \in balanceReaders']_<<vars, bookVars>>
=============================================================================
