------------------------ MODULE TokenInvestorsProofs ------------------------
(***************************************************************************)
(* Proofs about what is kept beside the ledger: the list of investors and   *)
(* the counts of what is granted to spenders, for any number of wallets, any *)
(* word, any fees and any bound on the list.                                *)
(*                                                                         *)
(* A holder is on the list because only who receives something comes to hold *)
(* or to have frozen something, and whoever receives is noted.  The first    *)
(* part shows who receives, from the ledger of Token; the second part what   *)
(* the list becomes; the third combines them; the last is about spenders.    *)
(***************************************************************************)
EXTENDS TokenInvestors, Allowances, TokenProofs

-----------------------------------------------------------------------------
(* A wallet that holds nothing, of which nothing is frozen, stays empty      *)
(* unless it receives something; this does not depend on the supply, so it   *)
(* holds after an overflow too.                                             *)

Empty(led, w) == led.bal[w] = 0 /\ led.frozen[w] = 0

(* Who receives: the receiver of a transfer and, if it is charged, the       *)
(* collector, as far as the registry verifies them.                         *)
Receivers(known, to, answer) ==
  {w \in known : w = to \/ (w = Collector /\ answer.charges /\ to \in known)}

LEMMA ZeroWord ==
  /\ 0 \in Amounts
  /\ SubWord(0, 0) = 0
  /\ \A a \in Amounts : AddWord(a, 0) = a /\ AddWord(0, a) = a /\ SubWord(a, 0) = a
BY WordSizeAssumption DEF AddWord, SubWord, Amounts

LEMMA CoveredNothing ==
  ASSUME NEW led \in Ledger, NEW w \in Wallets, NEW amount \in Amounts,
         led.bal[w] = 0 \/ amount = 0
  PROVE  Covered(led, w, amount) = 0
BY WordSizeAssumption DEF Covered, Select, Ledger, Amounts

LEMMA SelectNothing ==
  ASSUME NEW c, NEW a, a = 0
  PROVE  Select(c, a, 0) = 0
BY DEF Select

LEMMA ReleasedEmpty ==
  ASSUME NEW led \in Ledger, NEW w \in Wallets, NEW v \in Amounts, NEW x \in Wallets,
         Empty(led, x), x = w => v = 0
  PROVE  Empty(Released(led, w, v), x)
<1>1. /\ Released(led, w, v).bal = led.bal
      /\ x # w => Released(led, w, v).frozen[x] = led.frozen[x]
  BY ReleasedType
<1>2. ASSUME x = w PROVE Released(led, w, v).frozen[w] = 0
  <2> DEFINE free    == FreeTokens(led, w)
             missing == SubWord(Select(v > free, v, free), free)
             f       == SubWord(led.frozen[w], missing)
  <2>1. free = 0
    BY <1>2, ZeroWord DEF FreeTokens, Empty
  <2>2. missing = 0
    <3> HIDE DEF free
    <3> QED BY <1>2, <2>1, ZeroWord DEF Select
  <2>3. f = 0
    <3> HIDE DEF missing
    <3> QED BY <1>2, <2>2, ZeroWord DEF Empty
  <2>4. Released(led, w, v) = [led EXCEPT !.frozen = [led.frozen EXCEPT ![w] = f]]
    BY DEF Released
  <2>5. led.frozen \in [Wallets -> Amounts]
    BY DEF Ledger
  <2> HIDE DEF f
  <2> QED BY <2>3, <2>4, <2>5 DEF Ledger
<1> QED BY <1>1, <1>2 DEF Empty

LEMMA MovedEmpty ==
  ASSUME NEW bal \in [Wallets -> Amounts], NEW from \in Wallets, NEW to \in Wallets,
         NEW v \in Amounts, NEW x \in Wallets, x \notin {from, to} \/ v = 0
  PROVE  Moved(bal, from, to, v)[x] = bal[x]
BY MovedAnyway

(* The frozen amounts after the fee and after a move.                       *)
LEMMA SetBalEmpty ==
  ASSUME NEW led \in Ledger, NEW b \in [Wallets -> Amounts], NEW x, Empty(led, x), b[x] = 0
  PROVE  Empty([led EXCEPT !.bal = b], x)
BY SetBal DEF Empty

LEMMA FeeTakenEmpty ==
  ASSUME NEW led \in Ledger, NEW known, NEW to \in Wallets, NEW answer \in Answers,
         NEW x \in Wallets, Empty(led, x), x = Collector /\ Collector \in known => answer.fee = 0
  PROVE  Empty(FeeTaken(led, known, to, answer), x)
<1> DEFINE v == Covered(led, to, answer.fee)
           r == Released(led, to, v)
           s == Select(answer.feeDone, v, 0)
           m == Moved(r.bal, to, Collector, s)
<1>1. /\ answer.fee \in Amounts /\ v \in Amounts
      /\ answer.fee = 0 => v = 0
      /\ x = to => v = 0
  BY AnswerType, CoveredType, CoveredNothing DEF Empty
<1>2. s \in Amounts /\ (v = 0 => s = 0)
  <2> HIDE DEF v
  <2> QED BY <1>1, SelectType, SelectNothing
<1>3. r \in Ledger /\ r.bal \in [Wallets -> Amounts] /\ Empty(r, x)
  <2> HIDE DEF v
  <2> QED BY <1>1, ReleasedType, ReleasedEmpty DEF Ledger
<1>4. FeeTaken(led, known, to, answer) = IF Collector \in known THEN [r EXCEPT !.bal = m] ELSE r
  BY DEF FeeTaken
<1>5. ASSUME Collector \in known PROVE m \in [Wallets -> Amounts] /\ m[x] = 0
  <2>1. r.bal[x] = 0
    BY <1>3 DEF Empty
  <2>2. x \notin {to, Collector} \/ s = 0
    <3> HIDE DEF s, v
    <3> QED BY <1>1, <1>2, <1>5
  <2>3. Collector \in Wallets /\ r.bal \in [Wallets -> Amounts] /\ s \in Amounts
    BY <1>2, <1>3, TokenAssumption
  <2> HIDE DEF r, s
  <2>4. m \in [Wallets -> Amounts]
    BY <2>3, MovedType
  <2>5. Moved(r.bal, to, Collector, s)[x] = r.bal[x]
    BY <2>2, <2>3, MovedEmpty
  <2> QED BY <2>1, <2>4, <2>5
<1> HIDE DEF m, r
<1> QED BY <1>3, <1>4, <1>5, SetBalEmpty

(* The move of a transfer, with its fee.                                    *)
LEMMA PaidEmpty ==
  ASSUME NEW led \in Ledger, NEW known, NEW from \in Wallets, NEW to \in Wallets, to \in known,
         NEW answer \in Answers, NEW s \in Amounts, NEW x \in Wallets, Empty(led, x),
         x \notin Receivers(known, to, answer), x = from => s = 0
  PROVE  Empty([FeeTaken(led, known, to, answer) EXCEPT
                  !.bal = Moved(FeeTaken(led, known, to, answer).bal, from, to, s)], x)
<1> DEFINE c == FeeTaken(led, known, to, answer)
<1>1. x # to /\ (x = Collector /\ Collector \in known => answer.fee = 0)
  BY AnswerType DEF Receivers
<1>2. c \in Ledger /\ c.bal \in [Wallets -> Amounts] /\ Empty(c, x)
  BY <1>1, FeeTakenType, FeeTakenEmpty DEF Ledger
<1> HIDE DEF c
<1>3. Moved(c.bal, from, to, s) \in [Wallets -> Amounts] /\ Moved(c.bal, from, to, s)[x] = 0
  <2>1. Moved(c.bal, from, to, s) \in [Wallets -> Amounts]
    BY <1>2, MovedType
  <2>2. Moved(c.bal, from, to, s)[x] = c.bal[x]
    BY <1>1, <1>2, MovedEmpty
  <2> QED BY <1>2, <2>1, <2>2 DEF Empty
<1>4. Empty([c EXCEPT !.bal = Moved(c.bal, from, to, s)], x)
  BY <1>2, <1>3, SetBalEmpty
<1> QED BY <1>4 DEF c

LEMMA ForcedMoveEmpty ==
  ASSUME NEW led \in Ledger, NEW known, NEW from \in Wallets, NEW to \in Wallets,
         NEW amount \in Amounts, NEW answer \in Answers, NEW x \in Wallets, Empty(led, x),
         x \notin Receivers(known, to, answer)
  PROVE  Empty(ForcedMove(led, known, from, to, amount, answer), x)
<1> DEFINE v == Covered(led, from, amount)
           r == Released(led, from, v)
           s == Select(answer.done, v, 0)
           c == FeeTaken(r, known, to, answer)
           d == [c EXCEPT !.bal = Moved(c.bal, from, to, s)]
<1>1. v \in Amounts /\ (x = from => v = 0)
  BY CoveredType, CoveredNothing DEF Empty
<1>2. s \in Amounts /\ (x = from => s = 0)
  <2> HIDE DEF v
  <2> QED BY <1>1, SelectType, SelectNothing
<1>3. r \in Ledger /\ Empty(r, x)
  <2> HIDE DEF v
  <2> QED BY <1>1, ReleasedType, ReleasedEmpty
<1>4. to \in known => Empty(d, x)
  <2> HIDE DEF r, s
  <2> QED BY <1>2, <1>3, PaidEmpty
<1>5. ForcedMove(led, known, from, to, amount, answer) = IF to \in known THEN d ELSE r
  BY DEF ForcedMove
<1> HIDE DEF d, r
<1> QED BY <1>3, <1>4, <1>5

LEMMA FrozenMoreEmpty ==
  ASSUME NEW led \in Ledger, NEW w \in Wallets, NEW amount \in Amounts, NEW x \in Wallets,
         Empty(led, x)
  PROVE  Empty(FrozenMore(led, w, amount), x)
<1> DEFINE f == AddWord(led.frozen[w], Select(led.bal[w] < AddWord(led.frozen[w], amount), 0, amount))
<1>1. FrozenMore(led, w, amount) = [led EXCEPT !.frozen = [led.frozen EXCEPT ![w] = f]]
  BY DEF FrozenMore
<1>2. led.frozen \in [Wallets -> Amounts]
  BY DEF Ledger
<1>3. x = w => f = 0
  <2> SUFFICES ASSUME x = w PROVE f = 0
    OBVIOUS
  <2>1. led.bal[w] = 0 /\ led.frozen[w] = 0
    BY DEF Empty
  <2>2. Select(0 < amount, 0, amount) = 0
    BY AmountsAreNat DEF Select
  <2> QED BY <2>1, <2>2, ZeroWord
<1> HIDE DEF f
<1> QED BY <1>1, <1>2, <1>3 DEF Empty, Ledger

(* The ledger that a step sets.                                             *)
LEMMA SetLedgerEmpty ==
  ASSUME NEW led, SetLedger(led), NEW x, Empty(led, x)
  PROVE  Empty(Current, x)'
BY DEF SetLedger, Empty, Current

LEMMA HolderMoveEmpty ==
  ASSUME TypeOK, NEW from \in Wallets, NEW to \in Wallets, NEW covered \in Amounts,
         NEW answer \in Answers, HolderMove(from, to, covered, answer),
         NEW x \in Wallets, Empty(Current, x), x \notin Receivers(verified, to, answer),
         x = from => covered = 0
  PROVE  Empty(Current, x)'
<1> DEFINE v == Select(answer.can, covered, 0)
           s == Select(answer.done, v, 0)
           c == FeeTaken(Current, verified, to, answer)
           d == [c EXCEPT !.bal = Moved(c.bal, from, to, s)]
<1>1. v \in Amounts /\ (x = from => v = 0)
  BY SelectType, SelectNothing
<1>2. s \in Amounts /\ (x = from => s = 0)
  <2> HIDE DEF v
  <2> QED BY <1>1, SelectType, SelectNothing
<1>3. SetLedger(d) /\ to \in verified
  BY DEF HolderMove
<1>4. Empty(d, x)
  <2> HIDE DEF s
  <2> QED BY <1>2, <1>3, CurrentType, PaidEmpty
<1> HIDE DEF d
<1> QED BY <1>3, <1>4, SetLedgerEmpty

LEMMA HolderStaysEmpty ==
  ASSUME TypeOK, NEW from \in Wallets, NEW to \in Wallets, NEW amount \in Amounts,
         NEW answer \in Answers,
         \/ Transfer(from, to, amount, answer)
         \/ \E s \in Spenders : TransferFrom(s, from, to, amount, answer),
         NEW x \in Wallets, Empty(Current, x), x \notin Receivers(verified, to, answer)
  PROVE  Empty(Current, x)'
<1>1. x = from => FreeTokens(Current, from) = 0
  BY ZeroWord DEF FreeTokens, Empty
<1>2. amount \in Nat /\ 0 \in Amounts
  BY AmountsAreNat, ZeroWord
<1>3. ASSUME NEW c \in BOOLEAN, x = from => (c => amount = 0)
      PROVE  Select(c, amount, 0) \in Amounts /\ (x = from => Select(c, amount, 0) = 0)
  BY <1>2, <1>3 DEF Select
<1>4. CASE Transfer(from, to, amount, answer)
  <2> DEFINE covered == Select(amount <= FreeTokens(Current, from), amount, 0)
  <2>1. covered \in Amounts /\ (x = from => covered = 0)
    BY <1>1, <1>2 DEF Select
  <2>2. HolderMove(from, to, covered, answer)
    BY <1>4 DEF Transfer
  <2> HIDE DEF covered
  <2> QED BY <2>1, <2>2, HolderMoveEmpty
<1>5. ASSUME NEW s \in Spenders, TransferFrom(s, from, to, amount, answer)
      PROVE  Empty(Current, x)'
  <2> DEFINE covered == Select(Spendable(s, from, amount), amount, 0)
  <2>1. covered \in Amounts /\ (x = from => covered = 0)
    BY <1>1, <1>2 DEF Select, Spendable
  <2>2. HolderMove(from, to, covered, answer)
    BY <1>5 DEF TransferFrom
  <2> HIDE DEF covered
  <2> QED BY <2>1, <2>2, HolderMoveEmpty
<1> QED BY <1>4, <1>5

LEMMA ForcedStaysEmpty ==
  ASSUME TypeOK, NEW from \in Wallets, NEW to \in Wallets, NEW amount \in Amounts,
         NEW answer \in Answers, ForcedTransfer(from, to, amount, answer),
         NEW x \in Wallets, Empty(Current, x), x \notin Receivers(verified, to, answer)
  PROVE  Empty(Current, x)'
<1>1. SetLedger(ForcedMove(Current, verified, from, to, amount, answer))
  BY DEF ForcedTransfer
<1>2. Empty(ForcedMove(Current, verified, from, to, amount, answer), x)
  BY CurrentType, ForcedMoveEmpty
<1> QED BY <1>1, <1>2, SetLedgerEmpty

(* The wallets that the registry verifies during a recovery.                *)
KnownWith(valid, new) == IF valid THEN verified \cup {new} ELSE verified

(* What is frozen again on the new wallet is frozen only if it arrived.      *)
LEMMA RecoveryStaysEmpty ==
  ASSUME TypeOK, NEW lost \in Wallets, NEW new \in Wallets, NEW valid \in BOOLEAN,
         NEW answer \in Answers, RecoverAddress(lost, new, valid, answer),
         NEW x \in Wallets, Empty(Current, x), x \notin Receivers(KnownWith(valid, new), new, answer)
  PROVE  Empty(Current, x)'
<1> DEFINE tokens    == balances[lost]
           frozenAmt == IF tokens = 0 THEN 0 ELSE frozenTokens[lost]
           moved     == ForcedMove(Current, KnownWith(valid, new), lost, new, tokens, answer)
<1>1. SetLedger(FrozenMore(moved, new, frozenAmt))
  BY DEF RecoverAddress, KnownWith
<1>2. tokens \in Amounts /\ frozenAmt \in Amounts
  BY ZeroWord DEF TypeOK
<1>3. moved \in Ledger /\ Empty(moved, x)
  <2> HIDE DEF tokens
  <2> QED BY <1>2, CurrentType, ForcedMoveType, ForcedMoveEmpty
<1>4. Empty(FrozenMore(moved, new, frozenAmt), x)
  <2> HIDE DEF moved, frozenAmt
  <2> QED BY <1>2, <1>3, FrozenMoreEmpty
<1> HIDE DEF moved, frozenAmt
<1> QED BY <1>1, <1>4, SetLedgerEmpty

LEMMA BurnStaysEmpty ==
  ASSUME TypeOK, NEW w \in Wallets, NEW amount \in Amounts, Burn(w, amount),
         NEW x \in Wallets, Empty(Current, x)
  PROVE  Empty(Current, x)'
<1> DEFINE v == Covered(Current, w, amount)
           r == Released(Current, w, v)
           b == [r.bal EXCEPT ![w] = SubWord(r.bal[w], v)]
<1>1. v \in Amounts /\ (x = w => v = 0)
  BY CurrentType, CoveredType, CoveredNothing DEF Empty
<1>2. r \in Ledger /\ Empty(r, x)
  <2> HIDE DEF v
  <2> QED BY <1>1, CurrentType, ReleasedType, ReleasedEmpty
<1>3. SetLedger([r EXCEPT !.bal = b])
  BY DEF Burn
<1>4. r.bal \in [Wallets -> Amounts] /\ r.bal[x] = 0
  <2> HIDE DEF r
  <2> QED BY <1>2 DEF Ledger, Empty
<1>5. SubWord(r.bal[w], v) \in Amounts /\ (x = w => SubWord(r.bal[w], v) = 0)
  <2> HIDE DEF r, v
  <2> QED BY <1>1, <1>4, WordClosed, ZeroWord
<1>6. b \in [Wallets -> Amounts] /\ b[x] = 0
  <2> DEFINE y == SubWord(r.bal[w], v)
  <2> HIDE DEF r, y
  <2>1. [r.bal EXCEPT ![w] = y] \in [Wallets -> Amounts] /\ [r.bal EXCEPT ![w] = y][x] = 0
    BY <1>4, <1>5 DEF y
  <2> QED BY <2>1 DEF y
<1>7. Empty([r EXCEPT !.bal = b], x)
  <2> HIDE DEF r, b
  <2> QED BY <1>2, <1>6, SetBalEmpty
<1> QED BY <1>3, <1>7, SetLedgerEmpty

LEMMA MintStaysEmpty ==
  ASSUME TypeOK, NEW to \in Wallets, NEW amount, NEW answer, Mint(to, amount, answer),
         NEW x \in Wallets, Empty(Current, x), x # to
  PROVE  Empty(Current, x)'
BY DEF Mint, TypeOK, Empty, Current

LEMMA UnfreezeStaysEmpty ==
  ASSUME TypeOK, NEW w \in Wallets, NEW amount \in Amounts, UnfreezePartialTokens(w, amount),
         NEW x \in Wallets, Empty(Current, x)
  PROVE  Empty(Current, x)'
<1> DEFINE f == SubWord(frozenTokens[w], Select(frozenTokens[w] < amount, 0, amount))
<1>1. frozenTokens' = [frozenTokens EXCEPT ![w] = f] /\ balances' = balances
  BY DEF UnfreezePartialTokens
<1>2. x = w => f = 0
  <2> SUFFICES ASSUME x = w PROVE f = 0
    OBVIOUS
  <2>1. frozenTokens[w] = 0
    BY DEF Empty, Current
  <2>2. Select(0 < amount, 0, amount) = 0
    BY AmountsAreNat DEF Select
  <2> QED BY <2>1, <2>2, ZeroWord
<1> HIDE DEF f
<1> QED BY <1>1, <1>2 DEF Empty, Current, TypeOK

LEMMA FreezeStaysEmpty ==
  ASSUME TypeOK, NEW w \in Wallets, NEW amount \in Amounts, FreezePartialTokens(w, amount),
         NEW x \in Wallets, Empty(Current, x)
  PROVE  Empty(Current, x)'
BY CurrentType, FrozenMoreEmpty, SetLedgerEmpty DEF FreezePartialTokens
-----------------------------------------------------------------------------
(* Who gains: until an overflow, a receiver that is not the sender.          *)

LEMMA MovedSender ==
  ASSUME NEW bal \in [Wallets -> Amounts], NEW from \in Wallets, NEW to \in Wallets,
         NEW v \in Amounts, v <= bal[from]
  PROVE  Moved(bal, from, to, v)[from] <= bal[from]
<1> DEFINE x == AddWord(bal[to], v)
           credited == [bal EXCEPT ![to] = x]
           y == SubWord(credited[from], v)
<1>1. Moved(bal, from, to, v) = [credited EXCEPT ![from] = y]
  BY DEF Moved
<1>2. bal[from] \in Amounts /\ bal[to] \in Amounts /\ v \in Nat /\ bal[from] \in Nat
  BY AmountsAreNat
<1>3. y <= bal[from]
  <2>1. credited[from] = IF from = to THEN x ELSE bal[from]
    OBVIOUS
  <2>2. SubWord(x, v) = bal[to]
    BY <1>2, WordExact
  <2>3. SubWord(bal[from], v) = bal[from] - v
    BY <1>2, WordExact
  <2> HIDE DEF credited, x
  <2> QED BY <1>2, <2>1, <2>2, <2>3
<1>4. [credited EXCEPT ![from] = y][from] = y
  <2> HIDE DEF x, y
  <2> QED OBVIOUS
<1> HIDE DEF y, credited
<1> QED BY <1>1, <1>3, <1>4

LEMMA PaidGains ==
  ASSUME NEW led \in Ledger, NEW known, NEW from \in Wallets, NEW to \in Wallets, to \in known,
         NEW answer \in Answers, NEW amount, FeeAllowed(from, to, answer, amount),
         NEW s \in Amounts, s <= led.bal[from], NEW x \in Wallets,
         Moved(FeeTaken(led, known, to, answer).bal, from, to, s)[x] > led.bal[x]
  PROVE  x \in Receivers(known, to, answer) /\ x # from
<1> DEFINE c == FeeTaken(led, known, to, answer).bal
<1> SUFFICES ASSUME x \notin Receivers(known, to, answer) \/ x = from
             PROVE  FALSE
  OBVIOUS
<1>1. c \in [Wallets -> Amounts] /\ led.bal \in [Wallets -> Amounts]
  BY FeeTakenType DEF Ledger
<1>2. answer.charges => from # to /\ Collector \notin {from, to}
  BY DEF FeeAllowed
<1>3. answer.fee = 0 \/ answer.charges
  BY AnswerType
<1>4. c[x] = led.bal[x]
  <2>1. CASE Collector \notin known
    BY <2>1, FeeTakenBal
  <2>2. CASE Collector \in known
    <3>1. answer.fee = 0 \/ x \notin {to, Collector}
      BY <1>2, <1>3, <2>2 DEF Receivers
    <3> QED BY <3>1, FeeTakenAnyway
  <2> QED BY <2>1, <2>2
<1> HIDE DEF c
<1>5. /\ c[x] \in Nat /\ led.bal[x] \in Nat
      /\ Moved(c, from, to, s)[x] > led.bal[x]
  BY <1>1, AmountsAreNat DEF c
<1>6. CASE x = from
  <2>1. s <= c[from]
    BY <1>4, <1>6
  <2>2. Moved(c, from, to, s)[from] <= c[from]
    BY <1>1, <2>1, MovedSender
  <2>3. Moved(c, from, to, s)[x] \in Nat
    <3>1. Moved(c, from, to, s) \in [Wallets -> Amounts]
      BY <1>1, MovedType
    <3> QED BY <3>1, AmountsAreNat
  <2> QED BY <1>4, <1>5, <1>6, <2>2, <2>3
<1>7. CASE x # from
  <2>1. x \notin {from, to}
    BY <1>7 DEF Receivers
  <2>2. Moved(c, from, to, s)[x] = c[x]
    BY <1>1, <2>1, MovedEmpty
  <2> QED BY <1>4, <1>5, <2>2
<1> QED BY <1>6, <1>7

LEMMA HolderGains ==
  ASSUME IInv, ~overflowed, NEW from \in Wallets, NEW to \in Wallets, NEW amount \in Amounts,
         NEW answer \in Answers,
         \/ Transfer(from, to, amount, answer)
         \/ \E s \in Spenders : TransferFrom(s, from, to, amount, answer),
         NEW x \in Wallets, balances'[x] > balances[x]
  PROVE  x \in Receivers(verified, to, answer) /\ x # from
<1>1. TypeOK /\ LedgerFits(Current, totalSupply) /\ Current \in Ledger /\ Current.bal = balances
  BY CurrentType DEF IInv
<1>2. balances[from] \in Amounts /\ balances[from] \in Nat
  BY <1>1, AmountsAreNat DEF TypeOK
<1>3. FreeTokens(Current, from) \in Nat /\ FreeTokens(Current, from) <= balances[from]
  <2>1. /\ FreeTokens(Current, from) \in Amounts
        /\ FreeTokens(Current, from) = balances[from] - frozenTokens[from]
    BY FreeTokensBound
  <2>2. FreeTokens(Current, from) \in Nat /\ frozenTokens[from] \in Nat
    BY <1>1, <2>1, AmountsAreNat DEF TypeOK
  <2> QED BY <1>2, <2>1, <2>2
<1>4. amount \in Nat /\ 0 \in Amounts
  BY AmountsAreNat, ZeroWord
<1>5. ASSUME NEW covered \in Amounts, covered <= balances[from],
             HolderMove(from, to, covered, answer)
      PROVE  x \in Receivers(verified, to, answer) /\ x # from
  <2> DEFINE v == Select(answer.can, covered, 0)
             s == Select(answer.done, v, 0)
  <2>1. v \in Amounts /\ v <= covered
    BY SelectType
  <2>2. s \in Amounts /\ s <= v
    <3> HIDE DEF v
    <3> QED BY <2>1, SelectType
  <2>3. s <= balances[from]
    <3> HIDE DEF v, s
    <3>1. v \in Nat /\ s \in Nat /\ covered \in Nat
      BY <1>5, <2>1, <2>2, AmountsAreNat
    <3> QED BY <1>2, <1>5, <2>1, <2>2, <3>1
  <2>4. balances' = Moved(FeeTaken(Current, verified, to, answer).bal, from, to, s)
    BY <1>1, <1>5, HolderMoveBal
  <2>5. FeeAllowed(from, to, answer, v) /\ to \in verified
    BY <1>5 DEF HolderMove
  <2> HIDE DEF v, s
  <2> QED BY <1>1, <2>2, <2>3, <2>4, <2>5, PaidGains
<1>6. CASE Transfer(from, to, amount, answer)
  <2> DEFINE covered == Select(amount <= FreeTokens(Current, from), amount, 0)
  <2>1. covered \in Amounts /\ covered <= balances[from]
    BY <1>2, <1>3, <1>4 DEF Select
  <2>2. HolderMove(from, to, covered, answer)
    BY <1>6 DEF Transfer
  <2> HIDE DEF covered
  <2> QED BY <1>5, <2>1, <2>2
<1>7. ASSUME NEW s \in Spenders, TransferFrom(s, from, to, amount, answer)
      PROVE  x \in Receivers(verified, to, answer) /\ x # from
  <2> DEFINE covered == Select(Spendable(s, from, amount), amount, 0)
  <2>1. covered \in Amounts /\ covered <= balances[from]
    BY <1>2, <1>3, <1>4 DEF Select, Spendable
  <2>2. HolderMove(from, to, covered, answer)
    BY <1>7 DEF TransferFrom
  <2> HIDE DEF covered
  <2> QED BY <1>5, <2>1, <2>2
<1> QED BY <1>6, <1>7

(* A forced transfer takes no more than the balance, overflow or not.        *)
LEMMA ForcedMoveGains ==
  ASSUME NEW led \in Ledger, NEW known, NEW from \in Wallets, NEW to \in Wallets,
         NEW amount \in Amounts, NEW answer \in Answers, NEW v, FeeAllowed(from, to, answer, v),
         NEW x \in Wallets,
         ForcedMove(led, known, from, to, amount, answer).bal[x] > led.bal[x]
  PROVE  x \in Receivers(known, to, answer) /\ x # from
<1> DEFINE s == Select(answer.done, Covered(led, from, amount), 0)
<1>1. led.bal[from] \in Nat /\ led.bal[x] \in Nat
  BY AmountsAreNat DEF Ledger
<1>2. Covered(led, from, amount) \in Amounts /\ Covered(led, from, amount) <= led.bal[from]
  BY CoveredType
<1>3. s \in Amounts /\ s <= led.bal[from]
  <2>1. s \in Amounts /\ s <= Covered(led, from, amount)
    BY <1>2, SelectType
  <2>2. s \in Nat /\ Covered(led, from, amount) \in Nat
    BY <1>2, <2>1, AmountsAreNat
  <2> HIDE DEF s
  <2> QED BY <1>1, <1>2, <2>1, <2>2
<1>4. PICK r \in Ledger :
        /\ r.bal = led.bal
        /\ ForcedMove(led, known, from, to, amount, answer).bal =
             IF to \in known THEN Moved(FeeTaken(r, known, to, answer).bal, from, to, s)
             ELSE led.bal
  BY ForcedMoveBal
<1>5. to \in known
  BY <1>1, <1>4
<1> HIDE DEF s
<1> QED BY <1>3, <1>4, <1>5, PaidGains

-----------------------------------------------------------------------------
(* The list.                                                               *)

LEMMA ToSetAppend ==
  ASSUME NEW S, NEW s \in Seq(S), NEW e \in S
  PROVE  Append(s, e) \in Seq(S) /\ ToSet(Append(s, e)) = ToSet(s) \cup {e}
<1>1. /\ Append(s, e) \in Seq(S)
      /\ Len(Append(s, e)) = Len(s) + 1 /\ Len(s) \in Nat
      /\ DOMAIN s = 1 .. Len(s) /\ DOMAIN Append(s, e) = 1 .. Len(s) + 1
      /\ \A i \in 1 .. Len(s) : Append(s, e)[i] = s[i]
      /\ Append(s, e)[Len(s) + 1] = e
  OBVIOUS
<1>2. ASSUME NEW y \in ToSet(Append(s, e)) PROVE y \in ToSet(s) \cup {e}
  <2>1. PICK i \in 1 .. Len(s) + 1 : y = Append(s, e)[i]
    BY <1>1 DEF ToSet
  <2>2. i \in 1 .. Len(s) \/ i = Len(s) + 1
    BY <1>1
  <2> QED BY <1>1, <2>1, <2>2 DEF ToSet
<1>3. ASSUME NEW y \in ToSet(s) \cup {e} PROVE y \in ToSet(Append(s, e))
  <2>1. CASE y = e
    <3>1. Len(s) + 1 \in 1 .. Len(s) + 1
      BY <1>1
    <3> QED BY <1>1, <2>1, <3>1 DEF ToSet
  <2>2. CASE y \in ToSet(s)
    <3>1. PICK i \in 1 .. Len(s) : y = s[i]
      BY <1>1, <2>2 DEF ToSet
    <3>2. i \in 1 .. Len(s) + 1 /\ Append(s, e)[i] = y
      BY <1>1, <3>1
    <3> QED BY <1>1, <3>2 DEF ToSet
  <2> QED BY <2>1, <2>2
<1> QED BY <1>1, <1>2, <1>3

(* The entry i gives its place to the last one: nothing else is lost.        *)
LEMMA ToSetSwapped ==
  ASSUME NEW S, NEW s \in Seq(S), NEW i \in 1 .. Len(s)
  PROVE  /\ Front([s EXCEPT ![i] = Last(s)]) \in Seq(S)
         /\ ToSet(Front([s EXCEPT ![i] = Last(s)])) \subseteq ToSet(s)
         /\ ToSet(s) \ {s[i]} \subseteq ToSet(Front([s EXCEPT ![i] = Last(s)]))
<1> DEFINE n == Len(s)
           x == [s EXCEPT ![i] = Last(s)]
           f == Front(x)
<1>1. n \in Nat /\ n > 0 /\ DOMAIN s = 1 .. n /\ \A j \in 1 .. n : s[j] \in S
  OBVIOUS
<1>2. n \in 1 .. n /\ Last(s) = s[n] /\ Last(s) \in S
  BY <1>1 DEF Last
<1> HIDE DEF n
<1>3. /\ x \in Seq(S) /\ Len(x) = n
      /\ \A j \in 1 .. n : x[j] = IF j = i THEN s[n] ELSE s[j]
  <2> DEFINE l == Last(s)
  <2>1. l \in S /\ l = s[n]
    BY <1>2
  <2> HIDE DEF l
  <2>2. [s EXCEPT ![i] = l] \in Seq(S) /\ Len([s EXCEPT ![i] = l]) = n
    BY <1>1, <2>1 DEF n
  <2>3. \A j \in 1 .. n : [s EXCEPT ![i] = l][j] = IF j = i THEN l ELSE s[j]
    BY <1>1
  <2> QED BY <2>1, <2>2, <2>3 DEF l
<1> HIDE DEF x
<1>4. f \in Seq(S) /\ Len(f) = n - 1 /\ \A j \in 1 .. n - 1 : f[j] = x[j]
  BY <1>1, <1>3 DEF Front
<1> HIDE DEF f
<1>5. DOMAIN f = 1 .. n - 1
  BY <1>4
<1>6. ASSUME NEW y \in ToSet(f) PROVE y \in ToSet(s)
  <2>1. PICK j \in 1 .. n - 1 : y = f[j]
    BY <1>5 DEF ToSet
  <2>2. j \in 1 .. n
    BY <1>1
  <2>3. y = s[n] \/ y = s[j]
    BY <1>3, <1>4, <2>1, <2>2
  <2> QED BY <1>1, <1>2, <2>2, <2>3 DEF ToSet
<1>7. ASSUME NEW y \in ToSet(s), y # s[i] PROVE y \in ToSet(f)
  <2>1. PICK j \in 1 .. n : y = s[j]
    BY <1>1 DEF ToSet
  <2>2. i \in 1 .. n
    BY DEF n
  <2>3. \E k \in 1 .. n - 1 : f[k] = y
    <3>1. CASE j # n
      <4>1. j \in 1 .. n - 1 /\ j # i
        BY <1>1, <1>7, <2>1, <3>1
      <4> QED BY <1>3, <1>4, <2>1, <4>1
    <3>2. CASE j = n
      <4>1. i # n
        BY <1>7, <2>1, <3>2
      <4>2. i \in 1 .. n - 1
        BY <1>1, <2>2, <4>1
      <4> QED BY <1>3, <1>4, <2>1, <2>2, <3>2, <4>2
    <3> QED BY <3>1, <3>2
  <2> QED BY <1>5, <2>3 DEF ToSet
<1> QED BY <1>4, <1>6, <1>7 DEF f, x

(* The first of the places where an investor is listed is one of them.       *)
LEMMA SelectedPlace ==
  ASSUME NEW s \in Seq(Parties), NEW e, Contains(s, e)
  PROVE  /\ SelectInSeq(s, LAMBDA entry : entry = e) \in 1 .. Len(s)
         /\ s[SelectInSeq(s, LAMBDA entry : entry = e)] = e
<1> DEFINE I == {j \in 1 .. Len(s) : s[j] = e}
<1>1. I # {} /\ I \subseteq Nat
  BY DEF Contains
<1>2. \E m \in I : \A k \in I : m <= k
  <2> HIDE DEF I
  <2> QED BY <1>1, SmallestOf
<1>3. Min(I) \in I
  <2> HIDE DEF I
  <2> QED BY <1>2 DEF Min
<1>4. SelectInSeq(s, LAMBDA entry : entry = e) = Min(I)
  BY <1>1 DEF SelectInSeq
<1> HIDE DEF I
<1>5. Min(I) \in {j \in 1 .. Len(s) : s[j] = e}
  BY <1>3 DEF I
<1> QED BY <1>4, <1>5

-----------------------------------------------------------------------------
(* The invariant: besides the types, whoever the mapping knows is listed,    *)
(* whoever is listed may read the supply, and whoever holds something or has *)
(* something frozen is listed, unless removed.                              *)

ListedRead == ToSet(investorList) \subseteq supplyReaders

HoldersListed ==
  \A w \in Wallets \ removed : ~Empty(Current, w) => w \in ToSet(investorList)

NInv ==
  /\ IInv
  /\ InvestorsTypeOK
  /\ KnownInvestorsAreListed
  /\ ListedRead
  /\ HoldersListed

BookType == [investors : SUBSET Parties, list : Seq(Parties),
             readers : SUBSET Wallets, removed : SUBSET Parties]

(* A book in which those of R are noted.                                    *)
Notes(book, old, R) ==
  /\ book \in BookType
  /\ book.investors \subseteq ToSet(book.list)
  /\ ToSet(old.list) \cup R \subseteq ToSet(book.list)
  /\ old.removed \ R \subseteq book.removed

LEMMA BookNotes ==
  ASSUME InvestorsTypeOK, KnownInvestorsAreListed
  PROVE  Notes(Book, Book, {})
BY DEF InvestorsTypeOK, KnownInvestorsAreListed, Notes, Book, BookType

LEMMA NotedNotes ==
  ASSUME NEW book, NEW old, NEW R, Notes(book, old, R), NEW from \in Parties, NEW to \in Parties
  PROVE  /\ Notes(Noted(book, from, to), old, R \cup {to})
         /\ Noted(book, from, to).readers = book.readers
<1> DEFINE list == IF to \in book.investors THEN book.list ELSE Append(book.list, to)
           n == Noted(book, from, to)
<1>1. /\ book.investors \subseteq Parties /\ book.list \in Seq(Parties)
      /\ book.readers \subseteq Wallets /\ book.removed \subseteq Parties
      /\ book.investors \subseteq ToSet(book.list)
      /\ ToSet(old.list) \cup R \subseteq ToSet(book.list)
      /\ old.removed \ R \subseteq book.removed
  BY DEF Notes, BookType
<1>2. list \in Seq(Parties) /\ ToSet(list) = ToSet(book.list) \cup {to}
  <2>1. CASE to \in book.investors
    BY <1>1, <2>1
  <2>2. CASE to \notin book.investors
    <3>1. list = Append(book.list, to)
      BY <2>2
    <3> HIDE DEF list
    <3> QED BY <1>1, <3>1, ToSetAppend
  <2> QED BY <2>1, <2>2
<1>3. n = [book EXCEPT !.investors = (book.investors \cup {to}) \ {from},
                       !.list = list, !.removed = book.removed \ {to}]
  BY DEF Noted
<1> HIDE DEF list, n
<1>4. /\ n \in BookType /\ n.investors = (book.investors \cup {to}) \ {from}
      /\ n.list = list /\ n.removed = book.removed \ {to} /\ n.readers = book.readers
  BY <1>1, <1>2, <1>3 DEF Notes, BookType
<1>5. Notes(n, old, R \cup {to})
  BY <1>1, <1>2, <1>4 DEF Notes
<1> QED BY <1>4, <1>5 DEF n

LEMMA PassedNotes ==
  ASSUME NEW book, NEW old, NEW R, Notes(book, old, R), NEW from \in Wallets, NEW to \in Wallets
  PROVE  /\ Notes(Passed(book, from, to), old, R \cup {to})
         /\ Passed(book, from, to).readers = (book.readers \cup {to}) \ {from}
<1> DEFINE n == Noted(book, from, to)
           readers == (book.readers \cup {to}) \ {from}
<1>1. Notes(n, old, R \cup {to}) /\ n.readers = book.readers
  BY NotedNotes DEF Parties
<1>2. Passed(book, from, to) = [n EXCEPT !.readers = readers]
  BY DEF Passed
<1>3. readers \subseteq Wallets
  BY DEF Notes, BookType
<1> HIDE DEF n, readers
<1>4. Notes([n EXCEPT !.readers = readers], old, R \cup {to})
  BY <1>1, <1>3 DEF Notes, BookType
<1>5. [n EXCEPT !.readers = readers].readers = readers
  BY <1>1 DEF Notes, BookType
<1> QED BY <1>2, <1>4, <1>5 DEF readers

(* A transfer notes its receivers, and gives them access to what they hold.  *)
LEMMA PassedWithFeeNotes ==
  ASSUME InvestorsTypeOK, KnownInvestorsAreListed, NEW known, NEW from \in Wallets,
         NEW to \in Wallets, NEW answer, to \in known
  PROVE  /\ Notes(PassedWithFee(known, from, to, answer), Book, Receivers(known, to, answer))
         /\ Receivers(known, to, answer) \ {from}
              \subseteq PassedWithFee(known, from, to, answer).readers
<1>1. Notes(Book, Book, {}) /\ Collector \in Wallets
  BY BookNotes, TokenAssumption
<1>2. CASE answer.charges /\ Collector \in known
  <2> DEFINE c == Passed(Book, to, Collector)
  <2>1. Notes(c, Book, {} \cup {Collector}) /\ c.readers = (Book.readers \cup {Collector}) \ {to}
    BY <1>1, PassedNotes
  <2>2. PassedWithFee(known, from, to, answer) = Passed(c, from, to)
    BY <1>2 DEF PassedWithFee
  <2> HIDE DEF c
  <2>3. /\ Notes(Passed(c, from, to), Book, ({} \cup {Collector}) \cup {to})
        /\ Passed(c, from, to).readers = (c.readers \cup {to}) \ {from}
    BY <2>1, PassedNotes
  <2>4. Receivers(known, to, answer) = ({} \cup {Collector}) \cup {to}
    BY <1>2 DEF Receivers
  <2> QED BY <2>1, <2>2, <2>3, <2>4
<1>3. CASE ~(answer.charges /\ Collector \in known)
  <2>1. PassedWithFee(known, from, to, answer) = Passed(Book, from, to)
    BY <1>3 DEF PassedWithFee
  <2>2. /\ Notes(Passed(Book, from, to), Book, {} \cup {to})
        /\ Passed(Book, from, to).readers = (Book.readers \cup {to}) \ {from}
    BY <1>1, PassedNotes
  <2>3. Receivers(known, to, answer) = {} \cup {to}
    BY <1>3 DEF Receivers
  <2> QED BY <2>1, <2>2, <2>3
<1> QED BY <1>2, <1>3

(* What a step must do to keep the invariant: note those of R, and leave the  *)
(* others empty that are.                                                   *)
NotedStep(R) ==
  /\ InvestorsTypeOK'
  /\ KnownInvestorsAreListed'
  /\ ListedRead'
  /\ ToSet(investorList) \cup R \subseteq ToSet(investorList')
  /\ removed \ R \subseteq removed'

LEMMA NotedStepKeeps ==
  ASSUME NInv, IInv', NEW R, NotedStep(R),
         \A x \in Wallets \ R : Empty(Current, x) => Empty(Current, x)'
  PROVE  NInv'
<1>1. HoldersListed'
  <2> SUFFICES ASSUME NEW w \in Wallets, w \notin removed', ~Empty(Current, w)'
               PROVE  w \in ToSet(investorList')
    BY DEF HoldersListed
  <2>1. CASE w \in R
    BY <2>1 DEF NotedStep
  <2>2. CASE w \notin R
    <3>1. ~Empty(Current, w) /\ w \notin removed
      BY <2>2 DEF NotedStep
    <3> QED BY <3>1 DEF NInv, HoldersListed, NotedStep
  <2> QED BY <2>1, <2>2
<1> QED BY <1>1 DEF NInv, NotedStep

LEMMA EnterNotes ==
  ASSUME NInv, NEW book, NEW R, Notes(book, Book, R), Enter(book), R \subseteq Parties,
         GrantOldSupply \/ GrantNewSupply
  PROVE  NotedStep(R)
<1>1. /\ investors' = book.investors /\ investorList' = book.list
      /\ balanceReaders' = book.readers /\ removed' = book.removed
  BY DEF Enter
<1>2. /\ book.investors \subseteq Parties /\ book.list \in Seq(Parties)
      /\ book.readers \subseteq Wallets /\ book.removed \subseteq Parties
      /\ book.investors \subseteq ToSet(book.list)
      /\ ToSet(investorList) \cup R \subseteq ToSet(book.list)
      /\ removed \ R \subseteq book.removed
  BY DEF Notes, BookType, Book
<1>3. ToSet(book.list) \subseteq Parties
  BY <1>2 DEF ToSet
<1>4. /\ ToSet(book.list) \subseteq supplyReaders'
      /\ supplyReaders' \subseteq Parties
  BY <1>1, <1>3 DEF GrantOldSupply, GrantNewSupply, NInv, InvestorsTypeOK
<1> QED BY <1>1, <1>2, <1>4
        DEF NotedStep, InvestorsTypeOK, KnownInvestorsAreListed, ListedRead

LEMMA UnchangedNotes ==
  ASSUME NInv, UNCHANGED bookVars
  PROVE  NotedStep({})
BY DEF NInv, bookVars, NotedStep, InvestorsTypeOK, KnownInvestorsAreListed, ListedRead

LEMMA TransferNotes ==
  ASSUME NInv, NEW known \in SUBSET Wallets, NEW from \in Wallets, NEW to \in Wallets, NEW answer,
         NotedTransfer(known, from, to, answer)
  PROVE  /\ NotedStep(Receivers(known, to, answer))
         /\ Receivers(known, to, answer) \ {from} \subseteq balanceReaders'
<1> DEFINE R == Receivers(known, to, answer)
           book == PassedWithFee(known, from, to, answer)
<1>1. CASE to \in known
  <2>1. R \subseteq Parties
    BY DEF Receivers, Parties
  <2>2. Notes(book, Book, R) /\ R \ {from} \subseteq book.readers
    BY <1>1, PassedWithFeeNotes DEF NInv
  <2>3. Enter(book) /\ GrantOldSupply
    BY <1>1 DEF NotedTransfer
  <2> HIDE DEF book, R
  <2>4. NotedStep(R)
    BY <2>1, <2>2, <2>3, EnterNotes
  <2>5. balanceReaders' = book.readers
    BY <2>3 DEF Enter
  <2> QED BY <2>2, <2>4, <2>5 DEF R
<1>2. CASE to \notin known
  <2>1. R = {} /\ UNCHANGED bookVars
    BY <1>2 DEF Receivers, NotedTransfer
  <2> QED BY <2>1, UnchangedNotes
<1> QED BY <1>1, <1>2

-----------------------------------------------------------------------------
(* The operations.                                                         *)

(* Beside the list, every step is a step of the token or leaves it alone.    *)
LEMMA InvestorsNextIsNext == [InvestorsNext]_<<vars, bookVars>> => [Next]_vars
<1> SUFFICES ASSUME [InvestorsNext]_<<vars, bookVars>> PROVE [Next]_vars
  OBVIOUS
<1>1. CASE InvestorsStep
  <2>1. ASSUME NEW from \in Wallets, NEW to \in Wallets, NEW amount \in Amounts,
               NEW answer \in Answers, HolderNoted(from, to, amount, answer)
        PROVE  Next
    BY <2>1 DEF HolderNoted, Next, HolderStep
  <2>2. ASSUME NEW from \in Wallets, NEW to \in Wallets, NEW amount \in Amounts,
               NEW answer \in Answers, ForcedNoted(from, to, amount, answer)
        PROVE  Next
    BY <2>2 DEF ForcedNoted, Next, AgentStep
  <2>3. ASSUME NEW lost \in Wallets, NEW new \in Wallets, NEW valid \in BOOLEAN,
               NEW answer \in Answers, RecoveryNoted(lost, new, valid, answer)
        PROVE  Next
    BY <2>3 DEF RecoveryNoted, Next, AgentStep
  <2>4. ASSUME NEW to \in Wallets, NEW amount \in Amounts, NEW answer \in Answers,
               MintNoted(to, amount, answer)
        PROVE  Next
    BY <2>4 DEF MintNoted, Next, AgentStep
  <2>5. ASSUME NEW w \in Wallets, NEW amount \in Amounts, BurnNoted(w, amount)
        PROVE  Next
    BY <2>5 DEF BurnNoted, Next, AgentStep
  <2>6. ASSUME NEW investor, RemoveInvestor(investor)
        PROVE  UNCHANGED vars
    BY <2>6 DEF RemoveInvestor
  <2> QED BY <1>1, <2>1, <2>2, <2>3, <2>4, <2>5, <2>6 DEF InvestorsStep
<1>2. CASE NothingNoted
  BY <1>2 DEF NothingNoted, Next, AgentStep
<1>3. CASE UNCHANGED <<vars, bookVars>>
  BY <1>3
<1> QED BY <1>1, <1>2, <1>3 DEF InvestorsNext

LEMMA VerifiedWallets ==
  ASSUME TypeOK
  PROVE  verified \subseteq Wallets
BY DEF TypeOK

LEMMA HolderNotedKeeps ==
  ASSUME NInv, IInv', NEW from \in Wallets, NEW to \in Wallets, NEW amount \in Amounts,
         NEW answer \in Answers, HolderNoted(from, to, amount, answer)
  PROVE  NInv'
<1>1. TypeOK /\ verified \in SUBSET Wallets
  BY VerifiedWallets DEF NInv, IInv
<1>2. NotedStep(Receivers(verified, to, answer))
  BY <1>1, TransferNotes DEF HolderNoted
<1>3. \A x \in Wallets \ Receivers(verified, to, answer) : Empty(Current, x) => Empty(Current, x)'
  BY <1>1, HolderStaysEmpty DEF HolderNoted
<1> QED BY <1>2, <1>3, NotedStepKeeps

LEMMA ForcedNotedKeeps ==
  ASSUME NInv, IInv', NEW from \in Wallets, NEW to \in Wallets, NEW amount \in Amounts,
         NEW answer \in Answers, ForcedNoted(from, to, amount, answer)
  PROVE  NInv'
<1>1. TypeOK /\ verified \in SUBSET Wallets
  BY VerifiedWallets DEF NInv, IInv
<1>2. NotedStep(Receivers(verified, to, answer))
  BY <1>1, TransferNotes DEF ForcedNoted
<1>3. \A x \in Wallets \ Receivers(verified, to, answer) : Empty(Current, x) => Empty(Current, x)'
  BY <1>1, ForcedStaysEmpty DEF ForcedNoted
<1> QED BY <1>2, <1>3, NotedStepKeeps

LEMMA RecoveryNotedKeeps ==
  ASSUME NInv, IInv', NEW lost \in Wallets, NEW new \in Wallets, NEW valid \in BOOLEAN,
         NEW answer \in Answers, RecoveryNoted(lost, new, valid, answer)
  PROVE  NInv'
<1> DEFINE known == KnownWith(valid, new)
<1>1. TypeOK /\ known \in SUBSET Wallets
  BY VerifiedWallets DEF NInv, IInv, KnownWith
<1>2. NotedTransfer(known, lost, new, answer) /\ RecoverAddress(lost, new, valid, answer)
  BY DEF RecoveryNoted, KnownWith
<1>3. NotedStep(Receivers(known, new, answer))
  <2> HIDE DEF known
  <2> QED BY <1>1, <1>2, TransferNotes
<1>4. \A x \in Wallets \ Receivers(known, new, answer) : Empty(Current, x) => Empty(Current, x)'
  BY <1>1, <1>2, RecoveryStaysEmpty
<1> HIDE DEF known
<1> QED BY <1>3, <1>4, NotedStepKeeps

LEMMA ReadersNote ==
  ASSUME NEW book, NEW old, NEW R, Notes(book, old, R), NEW readers \in SUBSET Wallets
  PROVE  /\ Notes([book EXCEPT !.readers = readers], old, R)
         /\ [book EXCEPT !.readers = readers].readers = readers
BY DEF Notes, BookType

LEMMA MintNotes ==
  ASSUME NInv, NEW to \in Wallets, NEW amount, NEW answer, MintNoted(to, amount, answer)
  PROVE  NotedStep({to}) /\ to \in balanceReaders'
<1> DEFINE n == Noted(Book, ZeroAddress, to)
           readers == balanceReaders \cup {to}
           book == [n EXCEPT !.readers = readers]
<1>1. Notes(n, Book, {} \cup {to})
  BY BookNotes, NotedNotes DEF NInv, Parties
<1>2. readers \in SUBSET Wallets
  BY DEF NInv, InvestorsTypeOK
<1>3. Notes(book, Book, {to}) /\ book.readers = readers
  <2> HIDE DEF n, readers
  <2>1. Notes(n, Book, {to})
    BY <1>1
  <2> QED BY <1>2, <2>1, ReadersNote
<1>4. Enter(book) /\ GrantNewSupply
  BY DEF MintNoted
<1> HIDE DEF book
<1>5. NotedStep({to})
  BY <1>3, <1>4, EnterNotes DEF Parties
<1> QED BY <1>3, <1>4, <1>5 DEF Enter

LEMMA MintNotedKeeps ==
  ASSUME NInv, IInv', NEW to \in Wallets, NEW amount \in Amounts,
         NEW answer \in Answers, MintNoted(to, amount, answer)
  PROVE  NInv'
<1>1. TypeOK /\ Mint(to, amount, answer)
  BY DEF NInv, IInv, MintNoted
<1>2. \A x \in Wallets \ {to} : Empty(Current, x) => Empty(Current, x)'
  BY <1>1, MintStaysEmpty
<1> QED BY <1>2, MintNotes, NotedStepKeeps

LEMMA BurnNotedKeeps ==
  ASSUME NInv, IInv', NEW w \in Wallets, NEW amount \in Amounts, BurnNoted(w, amount)
  PROVE  NInv'
<1> DEFINE n == Noted(Book, w, ZeroAddress)
           readers == balanceReaders \cup {w}
           book == [n EXCEPT !.readers = readers]
<1>1. Notes(n, Book, {} \cup {ZeroAddress})
  BY BookNotes, NotedNotes DEF NInv, Parties
<1>2. readers \in SUBSET Wallets
  BY DEF NInv, InvestorsTypeOK
<1>3. Notes(book, Book, {ZeroAddress})
  <2> HIDE DEF n, readers
  <2>1. Notes(n, Book, {ZeroAddress})
    BY <1>1
  <2> QED BY <1>2, <2>1, ReadersNote
<1>4. Enter(book) /\ GrantNewSupply /\ Burn(w, amount)
  BY DEF BurnNoted
<1> HIDE DEF book
<1>5. NotedStep({ZeroAddress})
  BY <1>3, <1>4, EnterNotes DEF Parties
<1>6. \A x \in Wallets \ {ZeroAddress} : Empty(Current, x) => Empty(Current, x)'
  BY <1>4, BurnStaysEmpty DEF NInv, IInv
<1> QED BY <1>5, <1>6, NotedStepKeeps

LEMMA RemoveInvestorKeeps ==
  ASSUME NInv, IInv', NEW investor \in Parties, RemoveInvestor(investor)
  PROVE  NInv'
<1>1. UNCHANGED <<vars, supplyReaders, balanceReaders>>
  BY DEF RemoveInvestor
<1>2. CASE ~Contains(investorList, investor)
  <2>1. NotedStep({})
    BY <1>1, <1>2, UnchangedNotes DEF RemoveInvestor, bookVars
  <2>2. \A x \in Wallets : Empty(Current, x) => Empty(Current, x)'
    BY <1>1 DEF vars, Current, Empty
  <2> QED BY <2>1, <2>2, NotedStepKeeps
<1>3. CASE Contains(investorList, investor)
  <2> DEFINE i == SelectInSeq(investorList, LAMBDA entry : entry = investor)
             list == Front([investorList EXCEPT ![i] = Last(investorList)])
  <2>1. /\ investors' = investors \ {investor} /\ investorList' = list
        /\ removed' = removed \cup {investor}
    BY <1>3 DEF RemoveInvestor
  <2>2. investorList \in Seq(Parties)
    BY DEF NInv, InvestorsTypeOK
  <2>3. i \in 1 .. Len(investorList) /\ investorList[i] = investor
    BY <1>3, <2>2, SelectedPlace
  <2> HIDE DEF i
  <2>4. /\ list \in Seq(Parties)
        /\ ToSet(list) \subseteq ToSet(investorList)
        /\ ToSet(investorList) \ {investor} \subseteq ToSet(list)
    BY <2>2, <2>3, ToSetSwapped
  <2> HIDE DEF list
  <2>5. InvestorsTypeOK' /\ KnownInvestorsAreListed' /\ ListedRead'
    BY <1>1, <2>1, <2>4 DEF NInv, InvestorsTypeOK, KnownInvestorsAreListed, ListedRead
  <2>6. \A x \in Wallets : Empty(Current, x) => Empty(Current, x)'
    BY <1>1 DEF vars, Current, Empty
  <2>7. HoldersListed'
    BY <2>1, <2>4, <2>6 DEF NInv, HoldersListed
  <2> QED BY <2>5, <2>7 DEF NInv
<1> QED BY <1>2, <1>3

LEMMA NothingNotedKeeps ==
  ASSUME NInv, IInv', NothingNoted
  PROVE  NInv'
<1>1. TypeOK /\ NotedStep({})
  BY UnchangedNotes DEF NInv, IInv, NothingNoted
<1>2. \A x \in Wallets : Empty(Current, x) => Empty(Current, x)'
  <2> SUFFICES ASSUME NEW x \in Wallets, Empty(Current, x) PROVE Empty(Current, x)'
    OBVIOUS
  <2>1. CASE AllowanceStep \/ RegistryStep \/ RoleStep \/ Pause \/ Unpause
    <3>1. UNCHANGED <<balances, frozenTokens>>
      BY <2>1 DEF AllowanceStep, Approve, IncreaseAllowance, DecreaseAllowance, SetAllowance,
           RegistryStep, DeleteIdentity, ClaimsChange, RegisterIdentity, SetIdentityRegistry,
           RoleStep, AddAgent, RemoveAgent, Pause, Unpause, ledgerVars
    <3> QED BY <3>1 DEF Current, Empty
  <2>2. ASSUME NEW w \in Wallets, NEW freeze, SetAddressFrozen(w, freeze)
        PROVE  Empty(Current, x)'
    BY <2>2 DEF SetAddressFrozen, ledgerVars, Current, Empty
  <2>3. ASSUME NEW w \in Wallets, NEW amount \in Amounts,
               FreezePartialTokens(w, amount) \/ UnfreezePartialTokens(w, amount)
        PROVE  Empty(Current, x)'
    BY <1>1, <2>3, FreezeStaysEmpty, UnfreezeStaysEmpty
  <2> QED BY <2>1, <2>2, <2>3 DEF NothingNoted
<1> QED BY <1>1, <1>2, NotedStepKeeps

LEMMA InvestorsNextKeeps == NInv /\ [InvestorsNext]_<<vars, bookVars>> => NInv'
<1> SUFFICES ASSUME NInv, [InvestorsNext]_<<vars, bookVars>> PROVE NInv'
  OBVIOUS
<1>1. IInv'
  BY InvestorsNextIsNext, NextInv DEF NInv
<1>2. CASE InvestorsStep
  BY <1>1, <1>2, HolderNotedKeeps, ForcedNotedKeeps, RecoveryNotedKeeps, MintNotedKeeps,
     BurnNotedKeeps, RemoveInvestorKeeps DEF InvestorsStep
<1>3. CASE NothingNoted
  BY <1>1, <1>3, NothingNotedKeeps
<1>4. CASE UNCHANGED <<vars, bookVars>>
  <2>1. NotedStep({})
    BY <1>4, UnchangedNotes
  <2>2. \A x \in Wallets : Empty(Current, x) => Empty(Current, x)'
    BY <1>4 DEF vars, Current, Empty
  <2> QED BY <1>1, <2>1, <2>2, NotedStepKeeps
<1> QED BY <1>2, <1>3, <1>4 DEF InvestorsNext

LEMMA InvestorsInitInv == InvestorsInit => NInv
<1> SUFFICES ASSUME InvestorsInit PROVE NInv
  OBVIOUS
<1>1. IInv
  BY InitInv DEF InvestorsInit
<1>2. \A w \in Wallets : Empty(Current, w)
  BY DEF InvestorsInit, Init, Empty, Current
<1>3. ToSet(investorList) = {} /\ investorList \in Seq(Parties)
  BY DEF InvestorsInit, ToSet
<1> QED BY <1>1, <1>2, <1>3
        DEF NInv, InvestorsInit, InvestorsTypeOK, KnownInvestorsAreListed, ListedRead, HoldersListed

THEOREM NInvHolds == InvestorsSpec => []NInv
<1>1. NInv /\ [InvestorsNext]_<<vars, bookVars>> => NInv'
  BY InvestorsNextKeeps
<1> QED BY <1>1, InvestorsInitInv, PTL DEF InvestorsSpec

(* With its list of investors, the token still is the token of Token.        *)
THEOREM InvestorsRefineToken == InvestorsSpec => Spec
<1>1. InvestorsInit => Init
  BY DEF InvestorsInit
<1>2. [InvestorsNext]_<<vars, bookVars>> => [Next]_vars
  BY InvestorsNextIsNext
<1> QED BY <1>1, <1>2, PTL DEF InvestorsSpec, Spec

(* The list, the mapping and the rights of access keep their types.          *)
THEOREM InvestorsTypes == InvestorsSpec => []InvestorsTypeOK
<1>1. NInv => InvestorsTypeOK
  BY DEF NInv
<1> QED BY <1>1, NInvHolds, PTL

(* Whoever the mapping knows is on the list: a receiver is never left off.   *)
THEOREM KnownAreListed == InvestorsSpec => []KnownInvestorsAreListed
<1>1. NInv => KnownInvestorsAreListed
  BY DEF NInv
<1> QED BY <1>1, NInvHolds, PTL

(* Whoever holds tokens may read the supply of the moment, unless removed    *)
(* since anything last arrived.                                             *)
THEOREM HoldersMayRead == InvestorsSpec => []HoldersReadSupply
<1>1. NInv => HoldersReadSupply
  <2> SUFFICES ASSUME NInv, NEW w \in Wallets, balances[w] > 0, w \notin removed
               PROVE  w \in supplyReaders
    BY DEF HoldersReadSupply
  <2>1. ~Empty(Current, w)
    BY DEF Empty, Current
  <2> QED BY <2>1 DEF NInv, HoldersListed, ListedRead
<1> QED BY <1>1, NInvHolds, PTL

-----------------------------------------------------------------------------
(* What a burn, and what freezing, leaves of a balance.                     *)

LEMMA BurnNeverGains ==
  ASSUME TypeOK, NEW w \in Wallets, NEW amount \in Amounts, Burn(w, amount), NEW x \in Wallets
  PROVE  ~(balances'[x] > balances[x])
<1> DEFINE v == Covered(Current, w, amount)
           r == Released(Current, w, v)
           b == [r.bal EXCEPT ![w] = SubWord(r.bal[w], v)]
<1>1. /\ v \in Amounts /\ v <= balances[w] /\ balances \in [Wallets -> Amounts]
      /\ Current \in Ledger /\ Current.bal = balances
  BY CurrentType, CoveredType DEF TypeOK
<1>2. r \in Ledger /\ r.bal = balances
  <2> HIDE DEF v
  <2> QED BY <1>1, ReleasedType
<1>3. balances' = b
  <2>1. SetLedger([r EXCEPT !.bal = b])
    BY DEF Burn
  <2>2. [r EXCEPT !.bal = b].bal = b
    <3> HIDE DEF r, b
    <3> QED BY <1>2 DEF Ledger
  <2> QED BY <2>1, <2>2 DEF SetLedger
<1>4. SubWord(balances[w], v) <= balances[w]
  <2> HIDE DEF v
  <2>1. balances[w] \in Amounts /\ balances[w] \in Nat /\ v \in Nat
    BY <1>1, AmountsAreNat
  <2> QED BY <1>1, <2>1, WordExact
<1>5. balances' = [balances EXCEPT ![w] = SubWord(balances[w], v)]
  <2> HIDE DEF r, v
  <2> QED BY <1>2, <1>3
<1>6. balances[x] \in Nat /\ SubWord(balances[w], v) \in Nat
  <2> HIDE DEF v
  <2> QED BY <1>1, AmountsAreNat, WordClosed
<1> HIDE DEF v, r, b
<1> QED BY <1>1, <1>4, <1>5, <1>6

(* Steps that move nothing.                                                 *)
LEMMA NothingGained ==
  ASSUME TypeOK, NothingNoted
  PROVE  balances' = balances
<1>1. ASSUME NEW w \in Wallets, NEW amount \in Amounts, FreezePartialTokens(w, amount)
      PROVE  balances' = balances
  BY <1>1, CurrentType, FrozenMoreBal DEF FreezePartialTokens, SetLedger
<1>2. ASSUME NEW w \in Wallets, NEW amount \in Amounts, UnfreezePartialTokens(w, amount)
      PROVE  balances' = balances
  BY <1>2 DEF UnfreezePartialTokens
<1>3. CASE AllowanceStep \/ RegistryStep \/ RoleStep \/ Pause \/ Unpause
  BY <1>3 DEF AllowanceStep, Approve, IncreaseAllowance, DecreaseAllowance, SetAllowance,
       RegistryStep, DeleteIdentity, ClaimsChange, RegisterIdentity, SetIdentityRegistry,
       RoleStep, AddAgent, RemoveAgent, Pause, Unpause, ledgerVars
<1>4. ASSUME NEW w \in Wallets, NEW freeze, SetAddressFrozen(w, freeze)
      PROVE  balances' = balances
  BY <1>4 DEF SetAddressFrozen, ledgerVars
<1> QED BY <1>1, <1>2, <1>3, <1>4 DEF NothingNoted

LEMMA StepGains ==
  ASSUME NInv, ~overflowed, InvestorsNext, NEW x \in Wallets, balances'[x] > balances[x]
  PROVE  x \in balanceReaders'
<1>1. /\ IInv /\ TypeOK /\ verified \in SUBSET Wallets
      /\ Current \in Ledger /\ Current.bal = balances /\ balances \in [Wallets -> Amounts]
      /\ ~(balances[x] > balances[x])
  <2>1. IInv /\ TypeOK
    BY DEF NInv, IInv
  <2>2. balances[x] \in Nat
    BY <2>1, AmountsAreNat DEF TypeOK
  <2> QED BY <2>1, <2>2, VerifiedWallets, CurrentType DEF TypeOK
<1>2. ASSUME NEW from \in Wallets, NEW to \in Wallets, NEW amount \in Amounts,
             NEW answer \in Answers, HolderNoted(from, to, amount, answer)
      PROVE  x \in balanceReaders'
  <2>1. x \in Receivers(verified, to, answer) /\ x # from
    BY <1>1, <1>2, HolderGains DEF HolderNoted
  <2>2. Receivers(verified, to, answer) \ {from} \subseteq balanceReaders'
    BY <1>1, <1>2, TransferNotes DEF HolderNoted
  <2> QED BY <2>1, <2>2
<1>3. ASSUME NEW from \in Wallets, NEW to \in Wallets, NEW amount \in Amounts,
             NEW answer \in Answers, ForcedNoted(from, to, amount, answer)
      PROVE  x \in balanceReaders'
  <2> DEFINE moved == ForcedMove(Current, verified, from, to, amount, answer)
  <2>1. balances' = moved.bal
    BY <1>3 DEF ForcedNoted, ForcedTransfer, SetLedger
  <2>2. PICK v : FeeAllowed(from, to, answer, v)
    BY <1>3 DEF ForcedNoted, ForcedTransfer
  <2>3. moved.bal[x] > Current.bal[x]
    BY <1>1, <2>1
  <2>4. x \in Receivers(verified, to, answer) /\ x # from
    BY <1>1, <2>2, <2>3, ForcedMoveGains
  <2>5. Receivers(verified, to, answer) \ {from} \subseteq balanceReaders'
    BY <1>1, <1>3, TransferNotes DEF ForcedNoted
  <2> QED BY <2>4, <2>5
<1>4. ASSUME NEW lost \in Wallets, NEW new \in Wallets, NEW valid \in BOOLEAN,
             NEW answer \in Answers, RecoveryNoted(lost, new, valid, answer)
      PROVE  x \in balanceReaders'
  <2> DEFINE known == KnownWith(valid, new)
             tokens == balances[lost]
             frozenAmt == IF tokens = 0 THEN 0 ELSE frozenTokens[lost]
             moved == ForcedMove(Current, known, lost, new, tokens, answer)
  <2>1. /\ SetLedger(FrozenMore(moved, new, frozenAmt))
        /\ FeeAllowed(lost, new, answer, IF valid THEN tokens ELSE 0)
        /\ NotedTransfer(known, lost, new, answer)
    BY <1>4 DEF RecoveryNoted, RecoverAddress, KnownWith
  <2>2. tokens \in Amounts /\ known \in SUBSET Wallets
    BY <1>1 DEF KnownWith
  <2>3. balances' = moved.bal
    <3>1. moved \in Ledger
      <4> HIDE DEF tokens
      <4> QED BY <1>1, <2>2, ForcedMoveType
    <3> HIDE DEF moved, frozenAmt
    <3> QED BY <2>1, <3>1, FrozenMoreBal DEF SetLedger
  <2>4. moved.bal[x] > Current.bal[x]
    BY <1>1, <2>3
  <2> HIDE DEF known, tokens
  <2>5. x \in Receivers(known, new, answer) /\ x # lost
    BY <1>1, <2>1, <2>2, <2>4, ForcedMoveGains
  <2>6. Receivers(known, new, answer) \ {lost} \subseteq balanceReaders'
    BY <2>1, <2>2, TransferNotes
  <2> QED BY <2>5, <2>6
<1>5. ASSUME NEW to \in Wallets, NEW amount \in Amounts, NEW answer \in Answers,
             MintNoted(to, amount, answer)
      PROVE  x \in balanceReaders'
  <2>1. x = to
    BY <1>1, <1>5 DEF MintNoted, Mint
  <2> QED BY <1>5, <2>1, MintNotes
<1>6. ASSUME NEW w \in Wallets, NEW amount \in Amounts, BurnNoted(w, amount)
      PROVE  FALSE
  BY <1>1, <1>6, BurnNeverGains DEF BurnNoted
<1>7. ASSUME NEW investor, RemoveInvestor(investor)
      PROVE  FALSE
  BY <1>1, <1>7 DEF RemoveInvestor, vars
<1>8. ASSUME NothingNoted
      PROVE  FALSE
  BY <1>1, <1>8, NothingGained
<1> QED BY <1>2, <1>3, <1>4, <1>5, <1>6, <1>7, <1>8 DEF InvestorsNext, InvestorsStep

(* Whoever gains can read the balance that results: the access is granted to *)
(* every receiver, the collector of a fee too, after the last ciphertext of  *)
(* the step was computed.                                                   *)
THEOREM GainsReadable == InvestorsSpec => GainsAreReadable
<1>1. NInv /\ [InvestorsNext]_<<vars, bookVars>> =>
        (~overflowed => \A w \in Wallets : balances'[w] > balances[w] => w \in balanceReaders')
  <2> SUFFICES ASSUME NInv, [InvestorsNext]_<<vars, bookVars>>, ~overflowed, NEW w \in Wallets,
                      balances'[w] > balances[w]
               PROVE  w \in balanceReaders'
    OBVIOUS
  <2>1. CASE UNCHANGED <<vars, bookVars>>
    <3>1. balances[w] \in Nat /\ balances' = balances
      BY <2>1, AmountsAreNat DEF NInv, IInv, TypeOK, vars
    <3> QED BY <3>1
  <2> QED BY <2>1, StepGains
<1> QED BY <1>1, NInvHolds, PTL DEF InvestorsSpec, GainsAreReadable
-----------------------------------------------------------------------------
(* Allowances, in the state space of Allowances: what is granted and not    *)
(* taken yet covers the allowance, as long as no more was asked of it or    *)
(* taken back than it held.  That needs what a transferFrom takes to be no   *)
(* more than it charges; the sums may wrap around all the same.             *)

(* What is subtracted from a word is the difference, whether it wraps or not. *)
LEMMA SubtractedWord ==
  ASSUME NEW a \in Amounts, NEW b \in Amounts
  PROVE  SubWord(a, SubWord(a, b)) = b /\ SubWord(a, a) = 0
BY WordSizeAssumption DEF SubWord, Amounts

(* What a transferFrom takes from the owner: nothing, unless all of the      *)
(* amount was allowed and every module accepts it.                          *)
LEMMA TransferFromTakes ==
  ASSUME TypeOK, NEW s \in Spenders, NEW from \in Wallets, NEW to \in Wallets,
         NEW amount \in Amounts, NEW answer \in Answers,
         TransferFrom(s, from, to, amount, answer)
  PROVE  \E taken \in Amounts :
           /\ SubWord(balances[from], balances'[from]) = taken
           /\ taken \in {0, amount}
           /\ taken # 0 => answer.done /\ amount <= allowances[from][s]
<1> DEFINE covered == Select(Spendable(s, from, amount), amount, 0)
           v == Select(answer.done, Select(answer.can, covered, 0), 0)
           c == FeeTaken(Current, verified, to, answer)
<1>1. /\ v \in Amounts /\ v \in {0, amount}
      /\ v # 0 => answer.done /\ amount <= allowances[from][s]
  BY ZeroWord DEF Select, Spendable
<1>2. covered \in Amounts
  BY SelectType
<1>3. HolderMove(from, to, covered, answer)
  BY DEF TransferFrom
<1> HIDE DEF covered
<1>4. balances' = Moved(c.bal, from, to, v)
  BY <1>2, <1>3, HolderMoveBal
<1>5. answer.fee = 0 \/ from \notin {to, Collector}
  BY <1>3, AnswerType DEF HolderMove, FeeAllowed
<1>6. Current \in Ledger /\ Current.bal = balances /\ balances[from] \in Amounts
  BY CurrentType DEF TypeOK
<1>7. c.bal[from] = balances[from] /\ c.bal \in [Wallets -> Amounts]
  <2>1. c \in Ledger
    BY <1>6, FeeTakenType
  <2>2. c.bal[from] = balances[from]
    BY <1>5, <1>6, FeeTakenAnyway
  <2> HIDE DEF c
  <2> QED BY <2>1, <2>2 DEF Ledger
<1> HIDE DEF c, v
<1>8. balances'[from] = IF from # to THEN SubWord(balances[from], v) ELSE balances[from]
  <2> DEFINE x == SubWord(c.bal[from], v)
             y == AddWord(c.bal[to], v)
  <2>1. balances' = IF from # to THEN [c.bal EXCEPT ![from] = x, ![to] = y] ELSE c.bal
    <3> DEFINE bal == c.bal
    <3>1. bal \in [Wallets -> Amounts]
      BY <1>7
    <3> HIDE DEF bal
    <3>2. Moved(bal, from, to, v) =
            IF from # to
            THEN [bal EXCEPT ![from] = SubWord(bal[from], v), ![to] = AddWord(bal[to], v)]
            ELSE bal
      BY <1>1, <3>1, MovedIs
    <3> QED BY <1>4, <3>2 DEF bal
  <2>2. x = SubWord(balances[from], v)
    BY <1>7
  <2> HIDE DEF x, y
  <2> QED BY <1>7, <2>1, <2>2
<1>9. SubWord(balances[from], balances'[from]) \in {0, v}
  <2>1. SubWord(balances[from], balances[from]) = 0
    BY <1>6, SubtractedWord
  <2>2. SubWord(balances[from], SubWord(balances[from], v)) = v
    BY <1>1, <1>6, SubtractedWord
  <2> QED BY <1>8, <2>1, <2>2
<1> QED BY <1>1, <1>9, ZeroWord

Counts ==
  /\ granted \in [Wallets -> [Spenders -> Int]]
  /\ overdrawn \subseteq Grants

AInv == Counts /\ AllowanceWithinGrant

(* One slot and its count change; the pair is covered afterwards.            *)
LEMMA CountKeeps ==
  ASSUME TypeOK, AInv, NEW owner \in Wallets, NEW s \in Spenders, NEW a \in Nat, NEW g \in Int,
         allowances' = [allowances EXCEPT ![owner] = [allowances[owner] EXCEPT ![s] = a]],
         Grant(owner, s, g),
         overdrawn' \subseteq Grants,
         overdrawn \subseteq overdrawn' \cup {<<owner, s>>},
         <<owner, s>> \notin overdrawn' => a <= g
  PROVE  AInv'
<1>1. granted' \in [Wallets -> [Spenders -> Int]]
  BY DEF Grant, AInv, Counts
<1>2. ASSUME NEW w \in Wallets, NEW p \in Spenders, <<w, p>> \notin overdrawn'
      PROVE  allowances'[w][p] <= granted'[w][p]
  <2>1. CASE w = owner /\ p = s
    <3>1. allowances'[w][p] = a /\ granted'[w][p] = g
      BY <2>1 DEF Grant, AInv, Counts, TypeOK
    <3> QED BY <1>2, <2>1, <3>1
  <2>2. CASE ~(w = owner /\ p = s)
    <3>1. allowances'[w][p] = allowances[w][p] /\ granted'[w][p] = granted[w][p]
      BY <2>2 DEF Grant, AInv, Counts, TypeOK
    <3>2. <<w, p>> \notin overdrawn
      BY <1>2, <2>2
    <3> QED BY <3>1, <3>2 DEF AInv, AllowanceWithinGrant
  <2> QED BY <2>1, <2>2
<1> QED BY <1>1, <1>2 DEF AInv, Counts, AllowanceWithinGrant

LEMMA AskNotes ==
  ASSUME TypeOK, AInv, NEW owner \in Wallets, NEW s \in Spenders, NEW amount \in Amounts,
         Ask(owner, s, amount)
  PROVE  /\ overdrawn' \subseteq Grants
         /\ overdrawn \subseteq overdrawn'
         /\ <<owner, s>> \notin overdrawn' =>
              amount <= allowances[owner][s] /\ <<owner, s>> \notin overdrawn
<1>1. allowances[owner][s] \in Nat /\ amount \in Nat
  BY AmountsAreNat DEF TypeOK
<1>2. <<owner, s>> \in Grants
  BY DEF Grants
<1> QED BY <1>1, <1>2 DEF Ask, AInv, Counts

LEMMA AllowanceIsNat ==
  ASSUME TypeOK, AInv, NEW owner \in Wallets, NEW s \in Spenders
  PROVE  /\ allowances[owner][s] \in Amounts
         /\ allowances[owner][s] \in Nat
         /\ granted[owner][s] \in Int
         /\ <<owner, s>> \notin overdrawn => allowances[owner][s] <= granted[owner][s]
BY AmountsAreNat DEF TypeOK, AInv, Counts, AllowanceWithinGrant

LEMMA ApproveKeeps ==
  ASSUME TypeOK, AInv, NEW owner \in Wallets, NEW s \in Spenders, NEW amount \in Amounts,
         ApproveCounted(owner, s, amount)
  PROVE  AInv'
<1>1. amount \in Nat /\ amount \in Int /\ amount <= amount
  BY AmountsAreNat
<1>2. allowances' = [allowances EXCEPT ![owner] = [allowances[owner] EXCEPT ![s] = amount]]
  BY DEF ApproveCounted, Approve, SetAllowance
<1>3. /\ Grant(owner, s, amount)
      /\ overdrawn' \subseteq Grants
      /\ overdrawn \subseteq overdrawn' \cup {<<owner, s>>}
  BY DEF ApproveCounted, AInv, Counts
<1> QED BY <1>1, <1>2, <1>3, CountKeeps

LEMMA IncreaseKeeps ==
  ASSUME TypeOK, AInv, NEW owner \in Wallets, NEW s \in Spenders, NEW amount \in Amounts,
         IncreaseCounted(owner, s, amount)
  PROVE  AInv'
<1> DEFINE a == AddWord(allowances[owner][s], amount)
           g == granted[owner][s] + amount
<1>1. /\ a \in Nat /\ g \in Int
      /\ <<owner, s>> \notin overdrawn => a <= g
  BY AllowanceIsNat, AmountsAreNat, WordSizeAssumption DEF AddWord, Amounts
<1>2. /\ allowances' = [allowances EXCEPT ![owner] = [allowances[owner] EXCEPT ![s] = a]]
      /\ Grant(owner, s, g)
      /\ overdrawn' = overdrawn
  BY DEF IncreaseCounted, IncreaseAllowance, SetAllowance
<1>3. overdrawn' \subseteq Grants
  BY <1>2 DEF AInv, Counts
<1> HIDE DEF a, g
<1> QED BY <1>1, <1>2, <1>3, CountKeeps

LEMMA DecreaseKeeps ==
  ASSUME TypeOK, AInv, NEW owner \in Wallets, NEW s \in Spenders, NEW amount \in Amounts,
         DecreaseCounted(owner, s, amount)
  PROVE  AInv'
<1> DEFINE a == SubWord(allowances[owner][s], amount)
           left == granted[owner][s]
           g == IF amount <= left THEN left - amount ELSE 0
<1>1. /\ overdrawn' \subseteq Grants
      /\ overdrawn \subseteq overdrawn' \cup {<<owner, s>>}
      /\ <<owner, s>> \notin overdrawn' =>
           amount <= allowances[owner][s] /\ <<owner, s>> \notin overdrawn
  BY AskNotes DEF DecreaseCounted
<1>2. amount \in Nat
  BY AmountsAreNat
<1>3. /\ a \in Nat /\ g \in Int
      /\ <<owner, s>> \notin overdrawn' => a <= g
  BY <1>1, <1>2, AllowanceIsNat, WordSizeAssumption DEF SubWord, Amounts
<1>4. /\ allowances' = [allowances EXCEPT ![owner] = [allowances[owner] EXCEPT ![s] = a]]
      /\ Grant(owner, s, g)
  BY DEF DecreaseCounted, DecreaseAllowance, SetAllowance
<1> HIDE DEF a, g
<1> QED BY <1>1, <1>3, <1>4, CountKeeps

LEMMA TransferFromKeeps ==
  ASSUME TypeOK, AInv, NEW s \in Spenders, NEW from \in Wallets, NEW to \in Wallets,
         NEW amount \in Amounts, NEW answer \in Answers,
         TransferFromCounted(s, from, to, amount, answer)
  PROVE  /\ AInv'
         /\ \A w \in Wallets, p \in Spenders :
              granted'[w][p] # granted[w][p] /\ <<w, p>> \notin overdrawn => granted'[w][p] >= 0
<1>1. TransferFrom(s, from, to, amount, answer)
  BY DEF TransferFromCounted
<1>2. PICK taken \in Amounts :
        /\ SubWord(balances[from], balances'[from]) = taken
        /\ taken \in {0, amount}
        /\ taken # 0 => answer.done /\ amount <= allowances[from][s]
  BY <1>1, TransferFromTakes
<1> DEFINE a == Select(answer.done, SubWord(allowances[from][s], amount), allowances[from][s])
           g == granted[from][s] - taken
<1>3. /\ overdrawn' \subseteq Grants
      /\ overdrawn \subseteq overdrawn'
      /\ <<from, s>> \notin overdrawn' =>
           /\ answer.done => amount <= allowances[from][s]
           /\ <<from, s>> \notin overdrawn
  <2>1. CASE answer.done
    BY <2>1, AskNotes DEF TransferFromCounted
  <2>2. CASE ~answer.done
    BY <2>2 DEF TransferFromCounted, AInv, Counts
  <2> QED BY <2>1, <2>2
<1>4. amount \in Nat /\ taken \in Nat
  BY AmountsAreNat
<1>5. /\ a \in Nat /\ g \in Int
      /\ <<from, s>> \notin overdrawn' => a <= g
  <2>1. CASE answer.done
    BY <1>2, <1>3, <1>4, <2>1, AllowanceIsNat, WordSizeAssumption DEF SubWord, Select, Amounts
  <2>2. CASE ~answer.done
    BY <1>2, <1>3, <1>4, <2>2, AllowanceIsNat DEF Select
  <2> QED BY <2>1, <2>2
<1>6. /\ allowances' = [allowances EXCEPT ![from] = [allowances[from] EXCEPT ![s] = a]]
      /\ Grant(from, s, g)
  BY <1>2 DEF TransferFromCounted, TransferFrom
<1>7. taken # 0 /\ <<from, s>> \notin overdrawn => g >= 0
  BY <1>2, <1>4, AllowanceIsNat
<1>8. taken = 0 => g = granted[from][s]
  <2>1. granted[from][s] \in Int
    BY AllowanceIsNat
  <2> QED BY <2>1
<1> HIDE DEF a, g
<1>9. AInv'
  BY <1>3, <1>5, <1>6, CountKeeps
<1>10. ASSUME NEW w \in Wallets, NEW p \in Spenders,
              granted'[w][p] # granted[w][p], <<w, p>> \notin overdrawn
       PROVE  granted'[w][p] >= 0
  <2>1. granted'[w][p] = IF w = from /\ p = s THEN g ELSE granted[w][p]
    BY <1>5, <1>6 DEF Grant, AInv, Counts
  <2> QED BY <1>7, <1>8, <1>10, <2>1
<1> QED BY <1>9, <1>10

(* The other operations leave the slots alone.                              *)
LEMMA NothingGrantedKeeps ==
  ASSUME AInv, NothingGranted
  PROVE  AInv' /\ granted' = granted
<1>1. granted' = granted /\ overdrawn' = overdrawn
  BY DEF NothingGranted, grantVars
<1>2. allowances' = allowances
  <2>1. CASE \E from, to \in Wallets, amount \in Amounts, answer \in Answers :
               Transfer(from, to, amount, answer)
    BY <2>1 DEF Transfer
  <2>2. CASE AgentStep
    <3>1. Pause \/ Unpause => allowances' = allowances
      BY DEF Pause, Unpause
    <3>2. ASSUME NEW w \in Wallets, NEW amount \in Amounts,
                 \/ Burn(w, amount)
                 \/ FreezePartialTokens(w, amount)
                 \/ UnfreezePartialTokens(w, amount)
          PROVE  allowances' = allowances
      BY <3>2 DEF Burn, FreezePartialTokens, UnfreezePartialTokens
    <3>3. ASSUME NEW w \in Wallets, NEW to \in Wallets, NEW amount \in Amounts,
                 NEW answer \in Answers,
                 Mint(w, amount, answer) \/ ForcedTransfer(w, to, amount, answer)
          PROVE  allowances' = allowances
      BY <3>3 DEF Mint, ForcedTransfer
    <3>4. ASSUME NEW w \in Wallets, NEW freeze \in BOOLEAN, SetAddressFrozen(w, freeze)
          PROVE  allowances' = allowances
      BY <3>4 DEF SetAddressFrozen
    <3>5. ASSUME NEW lost \in Wallets, NEW new \in Wallets, NEW valid \in BOOLEAN,
                 NEW answer \in Answers, RecoverAddress(lost, new, valid, answer)
          PROVE  allowances' = allowances
      BY <3>5 DEF RecoverAddress
    <3> QED BY <2>2, <3>1, <3>2, <3>3, <3>4, <3>5, Zenon DEF AgentStep
  <2>3. CASE RegistryStep
    BY <2>3 DEF RegistryStep, DeleteIdentity, ClaimsChange, RegisterIdentity, SetIdentityRegistry
  <2>4. CASE RoleStep
    BY <2>4 DEF RoleStep, AddAgent, RemoveAgent
  <2> QED BY <2>1, <2>2, <2>3, <2>4 DEF NothingGranted
<1> QED BY <1>1, <1>2 DEF AInv, Counts, AllowanceWithinGrant

(* The granted counts that stay as they were are not the property's matter.  *)
LEMMA GrantStepKeeps ==
  ASSUME TypeOK, AInv, [AllowancesNext]_<<vars, grantVars>>
  PROVE  /\ AInv'
         /\ \A w \in Wallets, p \in Spenders :
              <<w, p>> \notin overdrawn /\ granted'[w][p] # granted[w][p] => granted'[w][p] >= 0
<1>1. CASE UNCHANGED <<vars, grantVars>>
  BY <1>1 DEF vars, grantVars, AInv, Counts, AllowanceWithinGrant
<1>2. CASE NothingGranted
  BY <1>2, NothingGrantedKeeps
<1>3. ASSUME NEW owner \in Wallets, NEW s \in Spenders, NEW amount \in Amounts,
             \/ ApproveCounted(owner, s, amount)
             \/ IncreaseCounted(owner, s, amount)
             \/ DecreaseCounted(owner, s, amount)
      PROVE  /\ AInv'
             /\ \A w \in Wallets, p \in Spenders :
                  <<w, p>> \notin overdrawn /\ granted'[w][p] # granted[w][p]
                    => granted'[w][p] >= 0
  <2>1. AInv'
    BY <1>3, ApproveKeeps, IncreaseKeeps, DecreaseKeeps
  <2>2. ASSUME NEW g \in Int, Grant(owner, s, g), <<owner, s>> \notin overdrawn => g >= 0
        PROVE  \A w \in Wallets, p \in Spenders :
                 <<w, p>> \notin overdrawn /\ granted'[w][p] # granted[w][p]
                   => granted'[w][p] >= 0
    <3> SUFFICES ASSUME NEW w \in Wallets, NEW p \in Spenders,
                        <<w, p>> \notin overdrawn, granted'[w][p] # granted[w][p]
                 PROVE  granted'[w][p] >= 0
      OBVIOUS
    <3>1. granted'[w][p] = IF w = owner /\ p = s THEN g ELSE granted[w][p]
      BY <2>2 DEF Grant, AInv, Counts
    <3> QED BY <2>2, <3>1
  <2>3. /\ amount \in Nat /\ granted[owner][s] \in Int
        /\ <<owner, s>> \notin overdrawn => granted[owner][s] >= 0
    BY AllowanceIsNat, AmountsAreNat
  <2>4. CASE ApproveCounted(owner, s, amount)
    BY <2>1, <2>2, <2>3, <2>4 DEF ApproveCounted
  <2>5. CASE IncreaseCounted(owner, s, amount)
    <3> DEFINE g == granted[owner][s] + amount
    <3>1. g \in Int /\ (<<owner, s>> \notin overdrawn => g >= 0)
      BY <2>3
    <3>2. Grant(owner, s, g)
      BY <2>5 DEF IncreaseCounted
    <3> HIDE DEF g
    <3> QED BY <2>1, <2>2, <3>1, <3>2
  <2>6. CASE DecreaseCounted(owner, s, amount)
    <3> DEFINE left == granted[owner][s]
               g == IF amount <= left THEN left - amount ELSE 0
    <3>1. g \in Int /\ g >= 0
      BY <2>3
    <3>2. Grant(owner, s, g)
      BY <2>6 DEF DecreaseCounted
    <3> HIDE DEF g
    <3> QED BY <2>1, <2>2, <3>1, <3>2
  <2> QED BY <1>3, <2>4, <2>5, <2>6
<1>4. ASSUME NEW s \in Spenders, NEW from \in Wallets, NEW to \in Wallets,
             NEW amount \in Amounts, NEW answer \in Answers,
             TransferFromCounted(s, from, to, amount, answer)
      PROVE  /\ AInv'
             /\ \A w \in Wallets, p \in Spenders :
                  <<w, p>> \notin overdrawn /\ granted'[w][p] # granted[w][p]
                    => granted'[w][p] >= 0
  BY <1>4, TransferFromKeeps
<1> QED BY <1>1, <1>2, <1>3, <1>4 DEF AllowancesNext, GrantStep

LEMMA AllowancesNextIsNext == [AllowancesNext]_<<vars, grantVars>> => [Next]_vars
<1>1. UNCHANGED <<vars, grantVars>> => UNCHANGED vars
  BY Zenon
<1>2. NothingGranted => Next
  BY Zenon DEF NothingGranted, Next, HolderStep
<1>3. ASSUME NEW owner \in Wallets, NEW s \in Spenders, NEW amount \in Amounts
      PROVE  /\ ApproveCounted(owner, s, amount) => Next
             /\ IncreaseCounted(owner, s, amount) => Next
             /\ DecreaseCounted(owner, s, amount) => Next
             /\ \A to \in Wallets, answer \in Answers :
                  TransferFromCounted(s, owner, to, amount, answer) => Next
  BY Zenon DEF ApproveCounted, IncreaseCounted, DecreaseCounted, TransferFromCounted, Next,
               AllowanceStep, HolderStep
<1> QED BY <1>1, <1>2, <1>3, Zenon DEF AllowancesNext, GrantStep

LEMMA AllowancesInitInv == AllowancesInit => AInv
<1> SUFFICES ASSUME AllowancesInit PROVE AInv
  OBVIOUS
<1>1. granted \in [Wallets -> [Spenders -> Int]] /\ overdrawn = {}
  BY DEF AllowancesInit
<1>2. \A w \in Wallets, s \in Spenders : allowances[w][s] = 0 /\ granted[w][s] = 0
  BY DEF AllowancesInit, Init
<1> QED BY <1>1, <1>2 DEF AInv, Counts, AllowanceWithinGrant

(* What the counts are added to is the ledger.                              *)
THEOREM AllowancesRefineToken == AllowancesSpec => Spec
<1>1. AllowancesInit => Init
  BY DEF AllowancesInit
<1> QED BY <1>1, AllowancesNextIsNext, PTL DEF AllowancesSpec, Spec

THEOREM AInvHolds == AllowancesSpec => [](TypeOK /\ AInv)
<1>1. TypeOK /\ AInv /\ [AllowancesNext]_<<vars, grantVars>> => AInv'
  BY GrantStepKeeps
<1> QED BY <1>1, AllowancesInitInv, AllowancesRefineToken, TypeCorrect, PTL DEF AllowancesSpec

(* Every slot stays within the word, whatever wraps around in it.            *)
THEOREM AllowancesTypes == AllowancesSpec => []GrantsTypeOK
<1>1. TypeOK /\ AInv => GrantsTypeOK
  BY DEF AInv, Counts, GrantsTypeOK
<1> QED BY <1>1, AInvHolds, PTL

(* Unless more was asked or taken back than an allowance held, the slot is   *)
(* covered by what is granted and not taken yet.                            *)
THEOREM AllowancesCovered == AllowancesSpec => []AllowanceWithinGrant
<1>1. AInv => AllowanceWithinGrant
  BY DEF AInv
<1> QED BY <1>1, AInvHolds, PTL

(* So a spender takes no more in all than was granted, until the first time  *)
(* that more was asked or taken back than the allowance held.               *)
THEOREM GrantsKept == AllowancesSpec => GrantsAreKept
<1>1. TypeOK /\ AInv /\ [AllowancesNext]_<<vars, grantVars>> =>
        [\A w \in Wallets, s \in Spenders :
           <<w, s>> \notin overdrawn /\ granted'[w][s] # granted[w][s]
             => granted'[w][s] >= 0]_<<vars, grantVars>>
  BY GrantStepKeeps
<1> QED BY <1>1, AInvHolds, PTL DEF AllowancesSpec, GrantsAreKept
=============================================================================
