---------------------------- MODULE TokenProofs -----------------------------
(***************************************************************************)
(* Proofs about the token ledger, for any number of wallets, any word and   *)
(* any answers of the compliance contract.                                  *)
(*                                                                         *)
(* The argument is that a ledger which "fits" its supply (amounts in the    *)
(* word, balances that add up to the supply, no more frozen than held) still *)
(* fits after each of the shared steps of the token.  Nested calls are then *)
(* compositions of those lemmas.                                            *)
(***************************************************************************)
EXTENDS Token, WellFoundedInduction, TLAPS

LedgerFits(led, s) ==
  /\ led \in Ledger
  /\ Total(led.bal) = s
  /\ \A w \in Wallets : led.frozen[w] <= led.bal[w]

(* The inductive invariant.                                                *)
IInv ==
  /\ TypeOK
  /\ ~overflowed => LedgerFits(Current, totalSupply)

-----------------------------------------------------------------------------
(* Sums over the wallets.  Each induction is a smallest counterexample.     *)

(* A non-empty set of natural numbers has a smallest element.               *)
LEMMA SmallestOf ==
  ASSUME NEW S \in SUBSET Nat, S # {}
  PROVE  \E m \in S : \A k \in S : m <= k
<1> DEFINE Less == {xy \in Nat \X Nat : xy[1] < xy[2]}
<1>1. OpToRel(<, Nat) = Less
  BY DEF OpToRel
<1>2. IsWellFoundedOn(Less, Nat)
  BY <1>1, NatLessThanWellFounded
<1>3. PICK m \in S : \A k \in S : <<k, m>> \notin Less
  <2> HIDE DEF Less
  <2> QED BY <1>2, WFMin
<1>4. ASSUME NEW k \in S PROVE m <= k
  <2>1. k \in Nat /\ m \in Nat
    OBVIOUS
  <2>2. <<k, m>> \in Nat \X Nat /\ <<k, m>>[1] = k /\ <<k, m>>[2] = m
    BY <2>1
  <2>3. ~(k < m)
    BY <1>3, <2>2
  <2> HIDE DEF Less
  <2> QED BY <2>1, <2>3
<1> QED BY <1>4

(* One step of the running total, for a function g that need not be it.     *)
StepOf(g, f, i) == IF i = 0 THEN 0 ELSE g[i - 1] + f[i]

(* A running total exists for every prefix of the wallets, and so for all.  *)
LEMMA RunningTotalExists ==
  ASSUME NEW f
  PROVE  \A n \in 0 .. NumWallets :
           \E g : g = [i \in 0 .. n |-> StepOf(g, f, i)]
<1> DEFINE HasTotal(n) == \E g : g = [i \in 0 .. n |-> StepOf(g, f, i)]
           Bad == {n \in 0 .. NumWallets : ~HasTotal(n)}
<1> SUFFICES ASSUME NEW n0 \in Bad PROVE FALSE
  OBVIOUS
<1>1. Bad \subseteq Nat
  BY NumWalletsAssumption
<1>2. PICK n \in Bad : \A k \in Bad : n <= k
  <2> HIDE DEF Bad
  <2> QED BY <1>1, SmallestOf
<1>3. CASE n = 0
  <2> DEFINE g == [i \in 0 .. 0 |-> 0]
  <2>1. g = [i \in 0 .. 0 |-> StepOf(g, f, i)]
    BY DEF StepOf
  <2> QED BY <2>1, <1>3
<1>4. CASE n # 0
  <2>1. n - 1 \in 0 .. NumWallets /\ n \in Nat
    BY <1>4, NumWalletsAssumption
  <2>2. n - 1 \notin Bad
    BY <1>1, <1>2, <2>1
  <2>3. PICK h : h = [i \in 0 .. n - 1 |-> StepOf(h, f, i)]
    BY <2>1, <2>2
  <2> DEFINE g == [i \in 0 .. n |-> StepOf(h, f, i)]
  <2>4. ASSUME NEW i \in 0 .. n - 1 PROVE g[i] = h[i]
    BY <2>1, <2>3
  <2>5. ASSUME NEW i \in 0 .. n PROVE StepOf(h, f, i) = StepOf(g, f, i)
    <3>1. CASE i = 0
      BY <3>1 DEF StepOf
    <3>2. CASE i # 0
      <4>1. i - 1 \in 0 .. n - 1
        BY <2>1, <3>2
      <4>2. g[i - 1] = h[i - 1]
        BY <2>4, <4>1
      <4> HIDE DEF g
      <4> QED BY <4>2 DEF StepOf
    <3> QED BY <3>1, <3>2
  <2>6. g = [i \in 0 .. n |-> StepOf(g, f, i)]
    <3> HIDE DEF g
    <3>1. g = [i \in 0 .. n |-> StepOf(h, f, i)]
      BY DEF g
    <3> QED BY <3>1, <2>5
  <2> QED BY <2>6
<1> QED BY <1>3, <1>4

(* The defining equation of RunningTotal.                                   *)
LEMMA RunningTotalStep ==
  ASSUME NEW f
  PROVE  RunningTotal(f) = [i \in 0 .. NumWallets |-> StepOf(RunningTotal(f), f, i)]
<1> DEFINE IsTotal(g) == g = [i \in 0 .. NumWallets |-> IF i = 0 THEN 0 ELSE g[i - 1] + f[i]]
<1>1. \E g : IsTotal(g)
  <2>1. NumWallets \in 0 .. NumWallets
    BY NumWalletsAssumption
  <2>2. PICK g : g = [i \in 0 .. NumWallets |-> StepOf(g, f, i)]
    BY <2>1, RunningTotalExists
  <2>3. IsTotal(g)
    BY <2>2, Zenon DEF StepOf
  <2> HIDE DEF IsTotal
  <2> QED BY <2>3
<1>2. RunningTotal(f) = CHOOSE g : IsTotal(g)
  BY DEF RunningTotal
<1>3. IsTotal(RunningTotal(f))
  BY <1>1, <1>2
<1> QED BY <1>3 DEF StepOf

LEMMA RunningTotalAt ==
  ASSUME NEW f, NEW i \in 0 .. NumWallets
  PROVE  RunningTotal(f)[i] = IF i = 0 THEN 0 ELSE RunningTotal(f)[i - 1] + f[i]
BY RunningTotalStep DEF StepOf

(* Running totals of natural amounts are natural numbers.                   *)
LEMMA RunningTotalNat ==
  ASSUME NEW f \in [Wallets -> Nat]
  PROVE  \A i \in 0 .. NumWallets : RunningTotal(f)[i] \in Nat
<1> DEFINE Bad == {n \in 0 .. NumWallets : RunningTotal(f)[n] \notin Nat}
<1> SUFFICES ASSUME NEW n0 \in Bad PROVE FALSE
  OBVIOUS
<1>1. Bad \subseteq Nat
  BY NumWalletsAssumption
<1>2. PICK n \in Bad : \A k \in Bad : n <= k
  <2> HIDE DEF Bad
  <2> QED BY <1>1, SmallestOf
<1>3. CASE n = 0
  BY <1>3, RunningTotalAt
<1>4. CASE n # 0
  <2>1. n - 1 \in 0 .. NumWallets /\ n \in Wallets
    BY <1>4, NumWalletsAssumption DEF Wallets
  <2>2. RunningTotal(f)[n - 1] \in Nat
    BY <1>1, <1>2, <2>1
  <2> QED BY <1>4, <2>1, <2>2, RunningTotalAt
<1> QED BY <1>3, <1>4

(* Changing the amount of one wallet changes the sum by as much.            *)
LEMMA TotalUpdate ==
  ASSUME NEW f \in [Wallets -> Nat], NEW w \in Wallets, NEW x \in Nat
  PROVE  Total([f EXCEPT ![w] = x]) = Total(f) - f[w] + x
<1> DEFINE g == [f EXCEPT ![w] = x]
           Shift(n) == IF n < w THEN 0 ELSE x - f[w]
           Bad == {n \in 0 .. NumWallets :
                     RunningTotal(g)[n] # RunningTotal(f)[n] + Shift(n)}
<1>0. g \in [Wallets -> Nat]
  OBVIOUS
<1>1. Bad = {}
  <2> SUFFICES ASSUME NEW n0 \in Bad PROVE FALSE
    OBVIOUS
  <2>1. Bad \subseteq Nat
    BY NumWalletsAssumption
  <2>2. PICK n \in Bad : \A k \in Bad : n <= k
    <3> HIDE DEF Bad
    <3> QED BY <2>1, SmallestOf
  <2>3. CASE n = 0
    <3>1. RunningTotal(g)[0] = 0 /\ RunningTotal(f)[0] = 0
      BY <2>3, RunningTotalAt
    <3>2. Shift(0) = 0
      BY NumWalletsAssumption DEF Wallets
    <3> QED BY <2>3, <3>1, <3>2
  <2>4. CASE n # 0
    <3>1. n - 1 \in 0 .. NumWallets /\ n \in Wallets /\ n \in Nat /\ w \in Nat
      BY <2>4, NumWalletsAssumption DEF Wallets
    <3>2. n - 1 \notin Bad
      <4> HIDE DEF Bad
      <4> QED BY <2>2, <3>1
    <3>3. RunningTotal(g)[n - 1] = RunningTotal(f)[n - 1] + Shift(n - 1)
      BY <3>1, <3>2
    <3>4. /\ RunningTotal(g)[n] = RunningTotal(g)[n - 1] + g[n]
          /\ RunningTotal(f)[n] = RunningTotal(f)[n - 1] + f[n]
      BY <2>4, <3>1, RunningTotalAt
    <3>5. RunningTotal(f)[n - 1] \in Nat /\ f[n] \in Nat /\ f[w] \in Nat
      BY <3>1, RunningTotalNat
    <3>6. g[n] = IF n = w THEN x ELSE f[n]
      BY <3>1
    <3>7. Shift(n - 1) + g[n] = Shift(n) + f[n]
      BY <3>1, <3>5, <3>6
    <3>8. RunningTotal(g)[n] = RunningTotal(f)[n] + Shift(n)
      <4> HIDE DEF g
      <4>1. Shift(n - 1) \in Int /\ Shift(n) \in Int /\ g[n] \in Int
        BY <3>1, <3>5, <1>0
      <4> HIDE DEF Shift
      <4> QED BY <3>3, <3>4, <3>5, <3>7, <4>1
    <3> QED BY <3>8
  <2> QED BY <2>3, <2>4
<1>2. RunningTotal(g)[NumWallets] = RunningTotal(f)[NumWallets] + Shift(NumWallets)
  <2>1. NumWallets \in 0 .. NumWallets
    BY NumWalletsAssumption
  <2>2. NumWallets \notin Bad
    <3> HIDE DEF Bad
    <3> QED BY <1>1
  <2> HIDE DEF g, Shift
  <2> QED BY <2>1, <2>2
<1>3. Shift(NumWallets) = x - f[w]
  BY NumWalletsAssumption DEF Wallets
<1>4. RunningTotal(f)[NumWallets] \in Nat /\ f[w] \in Nat
  BY RunningTotalNat, NumWalletsAssumption
<1> QED BY <1>2, <1>3, <1>4 DEF Total

LEMMA TotalNat ==
  ASSUME NEW f \in [Wallets -> Nat]
  PROVE  Total(f) \in Nat
BY RunningTotalNat, NumWalletsAssumption DEF Total

(* No wallet holds more than the sum, nor do two of them together.          *)
LEMMA TotalBounds ==
  ASSUME NEW f \in [Wallets -> Nat], NEW a \in Wallets, NEW b \in Wallets
  PROVE  /\ f[a] <= Total(f)
         /\ a # b => f[a] + f[b] <= Total(f)
<1> DEFINE g == [f EXCEPT ![a] = 0]
           h == [g EXCEPT ![b] = 0]
<1>1. g \in [Wallets -> Nat] /\ h \in [Wallets -> Nat]
  OBVIOUS
<1>2. Total(g) = Total(f) - f[a] /\ f[a] \in Nat /\ f[b] \in Nat /\ g[b] \in Nat
  <2>1. Total(g) = Total(f) - f[a] + 0
    BY TotalUpdate
  <2>2. Total(f) \in Nat /\ f[a] \in Nat /\ f[b] \in Nat /\ g[b] \in Nat
    BY TotalNat
  <2> HIDE DEF g
  <2> QED BY <2>1, <2>2
<1>3. Total(h) = Total(g) - g[b]
  <2> HIDE DEF g
  <2>1. Total(h) = Total(g) - g[b] + 0
    BY <1>1, TotalUpdate
  <2> QED BY <1>1, <1>2, <2>1, TotalNat
<1>4. a # b => g[b] = f[b]
  OBVIOUS
<1>5. Total(f) \in Nat /\ Total(g) \in Nat /\ Total(h) \in Nat
  BY <1>1, TotalNat
<1> HIDE DEF g, h
<1> QED BY <1>2, <1>3, <1>4, <1>5

(* The sum of the function that is zero everywhere.                         *)
LEMMA TotalZero == Total([w \in Wallets |-> 0]) = 0
<1> DEFINE z == [w \in Wallets |-> 0]
           Bad == {n \in 0 .. NumWallets : RunningTotal(z)[n] # 0}
<1>1. Bad = {}
  <2> SUFFICES ASSUME NEW n0 \in Bad PROVE FALSE
    OBVIOUS
  <2>1. Bad \subseteq Nat
    BY NumWalletsAssumption
  <2>2. PICK n \in Bad : \A k \in Bad : n <= k
    <3> HIDE DEF Bad
    <3> QED BY <2>1, SmallestOf
  <2>3. CASE n = 0
    BY <2>3, RunningTotalAt
  <2>4. CASE n # 0
    <3>1. n - 1 \in 0 .. NumWallets /\ n \in Wallets /\ n \in Nat
      BY <2>4, NumWalletsAssumption DEF Wallets
    <3>2. RunningTotal(z)[n - 1] = 0
      <4>1. n - 1 \notin Bad
        <5> HIDE DEF Bad
        <5> QED BY <2>2, <3>1
      <4> HIDE DEF z
      <4> QED BY <3>1, <4>1
    <3>3. z[n] = 0
      BY <3>1
    <3>4. RunningTotal(z)[n] = 0
      <4> HIDE DEF z
      <4> QED BY <2>4, <3>2, <3>3, <3>1, RunningTotalAt
    <3> QED BY <3>4
  <2> QED BY <2>3, <2>4
<1> QED BY <1>1, NumWalletsAssumption DEF Total

(* Amounts that are larger, wallet by wallet, add up to no less.            *)
LEMMA TotalMonotone ==
  ASSUME NEW f \in [Wallets -> Nat], NEW g \in [Wallets -> Nat],
         \A w \in Wallets : f[w] <= g[w]
  PROVE  Total(f) <= Total(g)
<1> DEFINE Bad == {n \in 0 .. NumWallets : ~(RunningTotal(f)[n] <= RunningTotal(g)[n])}
<1>1. Bad = {}
  <2> SUFFICES ASSUME NEW n0 \in Bad PROVE FALSE
    OBVIOUS
  <2>1. Bad \subseteq Nat
    BY NumWalletsAssumption
  <2>2. PICK n \in Bad : \A k \in Bad : n <= k
    <3> HIDE DEF Bad
    <3> QED BY <2>1, SmallestOf
  <2>3. CASE n = 0
    BY <2>3, RunningTotalAt
  <2>4. CASE n # 0
    <3>1. n - 1 \in 0 .. NumWallets /\ n \in Wallets /\ n \in Nat
      BY <2>4, NumWalletsAssumption DEF Wallets
    <3>2. n - 1 \notin Bad
      <4> HIDE DEF Bad
      <4> QED BY <2>2, <3>1
    <3>3. RunningTotal(f)[n - 1] <= RunningTotal(g)[n - 1]
      BY <3>1, <3>2
    <3>4. /\ RunningTotal(g)[n] = RunningTotal(g)[n - 1] + g[n]
          /\ RunningTotal(f)[n] = RunningTotal(f)[n - 1] + f[n]
      BY <2>4, <3>1, RunningTotalAt
    <3>5. /\ RunningTotal(f)[n - 1] \in Nat /\ f[n] \in Nat
          /\ RunningTotal(g)[n - 1] \in Nat /\ g[n] \in Nat
          /\ f[n] <= g[n]
      BY <3>1, RunningTotalNat
    <3> QED BY <3>3, <3>4, <3>5
  <2> QED BY <2>3, <2>4
<1>2. NumWallets \in 0 .. NumWallets
  BY NumWalletsAssumption
<1> QED BY <1>1, <1>2 DEF Total

-----------------------------------------------------------------------------
(* Words.                                                                  *)

LEMMA WordClosed ==
  ASSUME NEW a \in Amounts, NEW b \in Amounts
  PROVE  /\ AddWord(a, b) \in Amounts
         /\ SubWord(a, b) \in Amounts
         /\ 0 \in Amounts
BY WordSizeAssumption DEF AddWord, SubWord, Amounts

LEMMA WordExact ==
  ASSUME NEW a \in Amounts, NEW b \in Amounts
  PROVE  /\ a + b < WordSize => AddWord(a, b) = a + b
         /\ b <= a => SubWord(a, b) = a - b
         /\ SubWord(AddWord(a, b), b) = a
BY WordSizeAssumption DEF AddWord, SubWord, Amounts

LEMMA AmountsAreNat == Amounts \subseteq Nat
BY WordSizeAssumption DEF Amounts

-----------------------------------------------------------------------------
(* Types.                                                                  *)

LEMMA MovedType ==
  ASSUME NEW bal \in [Wallets -> Amounts], NEW from \in Wallets, NEW to \in Wallets,
         NEW v \in Amounts
  PROVE  Moved(bal, from, to, v) \in [Wallets -> Amounts]
<1> DEFINE credited == [bal EXCEPT ![to] = AddWord(bal[to], v)]
<1>1. credited \in [Wallets -> Amounts]
  BY WordClosed
<1>2. SubWord(credited[from], v) \in Amounts
  <2> HIDE DEF credited
  <2> QED BY <1>1, WordClosed
<1> HIDE DEF credited
<1>3. [credited EXCEPT ![from] = SubWord(credited[from], v)] \in [Wallets -> Amounts]
  BY <1>1, <1>2
<1> QED BY <1>3 DEF Moved, credited

LEMMA CoveredType ==
  ASSUME NEW led \in Ledger, NEW w \in Wallets, NEW amount \in Amounts
  PROVE  /\ Covered(led, w, amount) \in Amounts
         /\ Covered(led, w, amount) <= led.bal[w]
BY WordSizeAssumption DEF Covered, Select, Ledger, Amounts

LEMMA ReleasedType ==
  ASSUME NEW led \in Ledger, NEW w \in Wallets, NEW v \in Amounts
  PROVE  /\ Released(led, w, v) \in Ledger
         /\ Released(led, w, v).bal = led.bal
         /\ \A x \in Wallets \ {w} : Released(led, w, v).frozen[x] = led.frozen[x]
<1> DEFINE free    == FreeTokens(led, w)
           missing == SubWord(Select(v > free, v, free), free)
           f       == SubWord(led.frozen[w], missing)
<1>1. led.bal \in [Wallets -> Amounts] /\ led.frozen \in [Wallets -> Amounts]
  BY DEF Ledger
<1>2. free \in Amounts
  BY <1>1, WordClosed DEF FreeTokens
<1>3. missing \in Amounts
  <2> HIDE DEF free
  <2> QED BY <1>2, WordClosed DEF Select
<1>4. f \in Amounts
  <2> HIDE DEF missing
  <2> QED BY <1>1, <1>3, WordClosed
<1>5. Released(led, w, v) = [led EXCEPT !.frozen = [led.frozen EXCEPT ![w] = f]]
  BY DEF Released
<1> HIDE DEF f
<1> QED BY <1>1, <1>4, <1>5 DEF Ledger

LEMMA SetBal ==
  ASSUME NEW led \in Ledger, NEW b \in [Wallets -> Amounts]
  PROVE  /\ [led EXCEPT !.bal = b] \in Ledger
         /\ [led EXCEPT !.bal = b].bal = b
         /\ [led EXCEPT !.bal = b].frozen = led.frozen
BY DEF Ledger

LEMMA SelectType ==
  ASSUME NEW c, NEW a \in Amounts
  PROVE  Select(c, a, 0) \in Amounts /\ Select(c, a, 0) <= a
BY WordSizeAssumption DEF Select, Amounts

LEMMA AnswerType ==
  ASSUME NEW answer \in Answers
  PROVE  /\ answer.fee \in Amounts
         /\ answer.fee = 0 \/ answer.charges
BY TokenAssumption DEF Answers

LEMMA SlotsType ==
  ASSUME NEW w \in Wallets
  PROVE  /\ {SupplySlot, BalanceSlot(w), FrozenSlot(w)} \subseteq Slots
         /\ \A s \in Spenders : AllowanceSlot(w, s) \in Slots
BY DEF Slots

LEMMA WritesType ==
  ASSUME NEW known, NEW from \in Wallets, NEW to \in Wallets, NEW answer
  PROVE  /\ TransferWrites(known, from, to, answer) \subseteq Slots
         /\ ForcedWrites(known, from, to, answer) \subseteq Slots
<1>1. /\ {BalanceSlot(from), BalanceSlot(to)} \subseteq Slots
      /\ {FrozenSlot(from), FrozenSlot(to), BalanceSlot(Collector)} \subseteq Slots
  BY SlotsType, TokenAssumption
<1> QED BY <1>1 DEF TransferWrites, ForcedWrites

LEMMA FeeTakenType ==
  ASSUME NEW led \in Ledger, NEW known, NEW to \in Wallets, NEW answer \in Answers
  PROVE  FeeTaken(led, known, to, answer) \in Ledger
<1> DEFINE v == Covered(led, to, answer.fee)
           r == Released(led, to, v)
           m == Moved(r.bal, to, Collector, Select(answer.feeDone, v, 0))
<1>1. v \in Amounts
  BY AnswerType, CoveredType
<1>2. r \in Ledger
  <2> HIDE DEF v
  <2> QED BY <1>1, ReleasedType
<1>3. r.bal \in [Wallets -> Amounts]
  <2> HIDE DEF r
  <2> QED BY <1>2 DEF Ledger
<1>4. m \in [Wallets -> Amounts]
  <2> HIDE DEF v, r
  <2> QED BY <1>1, <1>3, SelectType, MovedType, TokenAssumption
<1>5. FeeTaken(led, known, to, answer) = IF Collector \in known THEN [r EXCEPT !.bal = m] ELSE r
  BY DEF FeeTaken
<1> HIDE DEF r, m
<1> QED BY <1>2, <1>4, <1>5, SetBal

LEMMA ForcedMoveType ==
  ASSUME NEW led \in Ledger, NEW known, NEW from \in Wallets, NEW to \in Wallets,
         NEW amount \in Amounts, NEW answer \in Answers
  PROVE  ForcedMove(led, known, from, to, amount, answer) \in Ledger
<1> DEFINE v == Covered(led, from, amount)
           r == Released(led, from, v)
           charged == FeeTaken(r, known, to, answer)
           m == Moved(charged.bal, from, to, Select(answer.done, v, 0))
<1>1. v \in Amounts
  BY CoveredType
<1>2. r \in Ledger
  <2> HIDE DEF v
  <2> QED BY <1>1, ReleasedType
<1>3. charged \in Ledger
  <2> HIDE DEF r
  <2> QED BY <1>2, FeeTakenType
<1>4. m \in [Wallets -> Amounts]
  <2> HIDE DEF v, charged
  <2>1. charged.bal \in [Wallets -> Amounts]
    BY <1>3 DEF Ledger
  <2> QED BY <1>1, <2>1, SelectType, MovedType
<1>5. ForcedMove(led, known, from, to, amount, answer)
        = IF to \in known THEN [charged EXCEPT !.bal = m] ELSE r
  BY DEF ForcedMove
<1> HIDE DEF r, m, charged
<1> QED BY <1>2, <1>3, <1>4, <1>5, SetBal

LEMMA FrozenMoreType ==
  ASSUME NEW led \in Ledger, NEW w \in Wallets, NEW amount \in Amounts
  PROVE  FrozenMore(led, w, amount) \in Ledger
<1> DEFINE sum == AddWord(led.frozen[w], amount)
           x == AddWord(led.frozen[w], Select(led.bal[w] < sum, 0, amount))
<1>1. led.bal \in [Wallets -> Amounts] /\ led.frozen \in [Wallets -> Amounts]
  BY DEF Ledger
<1>2. x \in Amounts
  <2> HIDE DEF sum
  <2> QED BY <1>1, WordClosed DEF Select
<1>3. FrozenMore(led, w, amount) = [led EXCEPT !.frozen = [led.frozen EXCEPT ![w] = x]]
  BY DEF FrozenMore
<1> HIDE DEF x
<1> QED BY <1>1, <1>2, <1>3 DEF Ledger

-----------------------------------------------------------------------------
(* Fitting ledgers.                                                        *)

(* Setting one balance shifts the sum by the difference.                    *)
LEMMA TotalOfUpdate ==
  ASSUME NEW bal \in [Wallets -> Amounts], NEW w \in Wallets, NEW x \in Amounts
  PROVE  /\ Total([bal EXCEPT ![w] = x]) = Total(bal) - bal[w] + x
         /\ Total(bal) \in Nat
<1>1. bal \in [Wallets -> Nat] /\ x \in Nat
  BY AmountsAreNat
<1> QED BY <1>1, TotalUpdate, TotalNat

(* A move that the sender can pay neither wraps nor changes the sum, also    *)
(* when sender and receiver are the same wallet.                             *)
LEMMA MovedExact ==
  ASSUME NEW bal \in [Wallets -> Amounts], NEW from \in Wallets, NEW to \in Wallets,
         NEW v \in Amounts, v <= bal[from], Total(bal) < WordSize
  PROVE  /\ Total(Moved(bal, from, to, v)) = Total(bal)
         /\ from = to => Moved(bal, from, to, v) = bal
         /\ from # to => /\ Moved(bal, from, to, v)[from] = bal[from] - v
                         /\ Moved(bal, from, to, v)[to] = bal[to] + v
         /\ \A w \in Wallets \ {from, to} : Moved(bal, from, to, v)[w] = bal[w]
<1> DEFINE credited == [bal EXCEPT ![to] = AddWord(bal[to], v)]
<1>0. bal \in [Wallets -> Nat] /\ bal[from] \in Amounts /\ bal[to] \in Amounts
  BY AmountsAreNat
<1>1. Moved(bal, from, to, v) = [credited EXCEPT ![from] = SubWord(credited[from], v)]
  BY DEF Moved
<1>2. CASE from = to
  <2>1. SubWord(AddWord(bal[to], v), v) = bal[to]
    BY <1>0, WordExact
  <2>2. credited[from] = AddWord(bal[to], v)
    BY <1>2
  <2>3. [credited EXCEPT ![from] = bal[to]] = bal
    BY <1>2
  <2>4. Moved(bal, from, to, v) = bal
    <3> HIDE DEF credited
    <3> QED BY <1>1, <2>1, <2>2, <2>3
  <2> QED BY <1>2, <2>4
<1>3. CASE from # to
  <2>1. bal[from] + bal[to] <= Total(bal) /\ Total(bal) \in Nat
    BY <1>0, <1>3, TotalBounds, TotalNat
  <2>2. bal[to] + v < WordSize
    BY <1>0, <2>1, WordSizeAssumption DEF Amounts
  <2>3. AddWord(bal[to], v) = bal[to] + v /\ SubWord(bal[from], v) = bal[from] - v
    BY <1>0, <2>2, WordExact
  <2>4. bal[to] + v \in Amounts /\ bal[from] - v \in Amounts
    BY <1>0, <2>3, WordClosed
  <2>5. credited = [bal EXCEPT ![to] = bal[to] + v] /\ credited[from] = bal[from]
    BY <1>3, <2>3
  <2>6. credited \in [Wallets -> Amounts]
    BY <2>4, <2>5
  <2>7. Total(credited) = Total(bal) + v
    <3> DEFINE y == bal[to] + v
    <3>1. y \in Amounts /\ credited = [bal EXCEPT ![to] = y]
      BY <2>4, <2>5
    <3> HIDE DEF credited, y
    <3>2. Total(credited) = Total(bal) - bal[to] + y
      BY <3>1, TotalOfUpdate
    <3> QED BY <1>0, <2>1, <3>2, AmountsAreNat DEF y
  <2>8. Moved(bal, from, to, v) = [credited EXCEPT ![from] = bal[from] - v]
    <3> HIDE DEF credited
    <3> QED BY <1>1, <2>3, <2>5
  <2>9. Total(Moved(bal, from, to, v)) = Total(bal)
    <3> DEFINE y == bal[from] - v
    <3> HIDE DEF credited, y
    <3>1. y \in Amounts /\ Moved(bal, from, to, v) = [credited EXCEPT ![from] = y]
      BY <2>4, <2>8 DEF y
    <3>2. Total([credited EXCEPT ![from] = y]) = Total(credited) - credited[from] + y
      BY <2>6, <3>1, TotalOfUpdate
    <3> QED BY <1>0, <2>1, <2>5, <2>7, <3>1, <3>2, AmountsAreNat DEF y
  <2> QED BY <1>3, <2>5, <2>8, <2>9
<1> QED BY <1>2, <1>3


LEMMA FitsType ==
  ASSUME NEW led, NEW s, LedgerFits(led, s)
  PROVE  /\ led.bal \in [Wallets -> Amounts]
         /\ led.frozen \in [Wallets -> Amounts]
         /\ \A w \in Wallets : /\ led.bal[w] \in Nat
                               /\ led.frozen[w] \in Nat
                               /\ led.bal[w] < WordSize
                               /\ led.frozen[w] <= led.bal[w]
BY WordSizeAssumption DEF LedgerFits, Ledger, Amounts

(* Moving what the sender holds beyond its frozen tokens keeps a ledger fit. *)
LEMMA MovedFits ==
  ASSUME NEW s \in Amounts, NEW led, LedgerFits(led, s),
         NEW from \in Wallets, NEW to \in Wallets, NEW v \in Amounts,
         led.frozen[from] + v <= led.bal[from]
  PROVE  LedgerFits([led EXCEPT !.bal = Moved(led.bal, from, to, v)], s)
<1> DEFINE m == Moved(led.bal, from, to, v)
           d == [led EXCEPT !.bal = m]
<1>1. /\ led.bal \in [Wallets -> Amounts]
      /\ \A w \in Wallets : led.bal[w] \in Nat /\ led.frozen[w] \in Nat /\ led.frozen[w] <= led.bal[w]
  BY FitsType
<1>2. v \in Nat /\ v <= led.bal[from] /\ Total(led.bal) < WordSize /\ Total(led.bal) = s
  BY <1>1, AmountsAreNat, WordSizeAssumption DEF LedgerFits, Amounts
<1>3. m \in [Wallets -> Amounts]
  BY <1>1, MovedType
<1>4. /\ Total(m) = s
      /\ from = to => m = led.bal
      /\ from # to => m[from] = led.bal[from] - v /\ m[to] = led.bal[to] + v
      /\ \A w \in Wallets \ {from, to} : m[w] = led.bal[w]
  <2> HIDE DEF m
  <2> QED BY <1>1, <1>2, MovedExact DEF m
<1>5. d \in Ledger /\ d.bal = m /\ d.frozen = led.frozen
  <2> HIDE DEF m
  <2> QED BY <1>3, SetBal DEF LedgerFits
<1>6. ASSUME NEW w \in Wallets PROVE led.frozen[w] <= m[w]
  <2> HIDE DEF m
  <2> QED BY <1>1, <1>2, <1>4
<1> HIDE DEF m
<1>7. LedgerFits(d, s)
  <2> HIDE DEF d
  <2> QED BY <1>4, <1>5, <1>6 DEF LedgerFits
<1> QED BY <1>7 DEF m

(* Releasing tokens of w for v leaves v free tokens on w, and touches no     *)
(* other wallet.                                                             *)
LEMMA ReleasedFits ==
  ASSUME NEW s \in Amounts, NEW led, LedgerFits(led, s),
         NEW w \in Wallets, NEW v \in Amounts, v <= led.bal[w]
  PROVE  /\ LedgerFits(Released(led, w, v), s)
         /\ Released(led, w, v).bal = led.bal
         /\ Released(led, w, v).frozen[w] + v <= led.bal[w]
         /\ Released(led, w, v).frozen[w] <= led.frozen[w]
         /\ v = 0 => Released(led, w, v).frozen = led.frozen
         /\ \A x \in Wallets \ {w} : Released(led, w, v).frozen[x] = led.frozen[x]
<1> DEFINE r == Released(led, w, v)
           free == FreeTokens(led, w)
           need == Select(v > free, v, free)
           missing == SubWord(need, free)
           f == SubWord(led.frozen[w], missing)
<1>1. /\ led.bal \in [Wallets -> Amounts] /\ led.frozen \in [Wallets -> Amounts]
      /\ led.bal[w] \in Nat /\ led.frozen[w] \in Nat /\ led.frozen[w] <= led.bal[w]
  BY FitsType
<1>2. v \in Nat
  BY AmountsAreNat
<1>3. free = led.bal[w] - led.frozen[w]
  BY <1>1, WordExact DEF FreeTokens
<1>4. missing = IF v > free THEN v - free ELSE 0
  <2> HIDE DEF free
  <2>1. free \in Nat
    BY <1>1, <1>3
  <2> QED BY <1>2, <2>1 DEF Select, SubWord
<1>5. missing <= led.frozen[w] /\ missing \in Nat
  <2> HIDE DEF free, missing
  <2> QED BY <1>1, <1>2, <1>3, <1>4
<1>6. f = led.frozen[w] - missing
  <2> HIDE DEF missing
  <2> QED BY <1>5 DEF SubWord
<1>7. f \in Nat /\ f + v <= led.bal[w] /\ f <= led.frozen[w] /\ (v = 0 => f = led.frozen[w])
  <2> HIDE DEF free, missing, f
  <2> QED BY <1>1, <1>2, <1>3, <1>4, <1>5, <1>6
<1>8. r = [led EXCEPT !.frozen = [led.frozen EXCEPT ![w] = f]]
  BY DEF Released
<1>9. r \in Ledger /\ r.bal = led.bal /\ r.frozen = [led.frozen EXCEPT ![w] = f]
  <2>1. r \in Ledger /\ r.bal = led.bal
    BY ReleasedType DEF LedgerFits
  <2>2. r.frozen = [led.frozen EXCEPT ![w] = f]
    <3> HIDE DEF r, f
    <3> QED BY <1>8 DEF LedgerFits, Ledger
  <2> QED BY <2>1, <2>2
<1>10. r.frozen[w] = f /\ (v = 0 => r.frozen = led.frozen)
       /\ \A x \in Wallets \ {w} : r.frozen[x] = led.frozen[x]
  <2> HIDE DEF r, f
  <2> QED BY <1>1, <1>7, <1>9
<1>11. LedgerFits(r, s)
  <2>1. Total(r.bal) = s
    BY <1>9 DEF LedgerFits
  <2>2. ASSUME NEW x \in Wallets PROVE r.frozen[x] <= r.bal[x]
    <3> HIDE DEF r, f
    <3> QED BY <1>1, <1>2, <1>7, <1>9, <1>10, FitsType
  <2> HIDE DEF r
  <2> QED BY <1>9, <2>1, <2>2 DEF LedgerFits
<1> QED BY <1>7, <1>9, <1>10, <1>11


(* Charging a fee keeps a ledger fit and concerns the receiver and the       *)
(* collector only; a fee of zero concerns nobody.                            *)
LEMMA FeeTakenFits ==
  ASSUME NEW s \in Amounts, NEW led, LedgerFits(led, s),
         NEW known, NEW to \in Wallets, NEW answer \in Answers
  PROVE  /\ LedgerFits(FeeTaken(led, known, to, answer), s)
         /\ \A x \in Wallets : answer.fee = 0 \/ x \notin {to, Collector} =>
              /\ FeeTaken(led, known, to, answer).bal[x] = led.bal[x]
              /\ FeeTaken(led, known, to, answer).frozen[x] = led.frozen[x]
<1> DEFINE v == Covered(led, to, answer.fee)
           r == Released(led, to, v)
           paid == Select(answer.feeDone, v, 0)
           d == [r EXCEPT !.bal = Moved(r.bal, to, Collector, paid)]
<1>0. led \in Ledger /\ Collector \in Wallets
  BY TokenAssumption DEF LedgerFits
<1>1. v \in Amounts /\ v <= led.bal[to] /\ (answer.fee = 0 => v = 0)
  BY <1>0, AnswerType, CoveredType DEF Covered, Select
<1>2. paid \in Amounts /\ paid <= v /\ (v = 0 => paid = 0)
  <2> HIDE DEF v
  <2> QED BY <1>1, SelectType DEF Select
<1>3. /\ LedgerFits(r, s)
      /\ r.bal = led.bal
      /\ r.frozen[to] + v <= led.bal[to]
      /\ v = 0 => r.frozen = led.frozen
      /\ \A x \in Wallets \ {to} : r.frozen[x] = led.frozen[x]
  <2> HIDE DEF v
  <2> QED BY <1>1, ReleasedFits
<1>4. /\ r.bal \in [Wallets -> Amounts]
      /\ r.frozen[to] + paid <= r.bal[to]
      /\ paid <= r.bal[to]
      /\ Total(r.bal) < WordSize
  <2> HIDE DEF v, r, paid
  <2>1. /\ r.bal \in [Wallets -> Amounts] /\ r.frozen[to] \in Nat /\ r.bal[to] \in Nat
        /\ v \in Nat /\ paid \in Nat
    BY <1>1, <1>2, <1>3, FitsType, AmountsAreNat
  <2>2. Total(r.bal) < WordSize
    BY <1>3, WordSizeAssumption DEF LedgerFits, Amounts
  <2> QED BY <1>2, <1>3, <2>1, <2>2
<1>5. LedgerFits(d, s)
  <2> HIDE DEF r, paid
  <2> QED BY <1>0, <1>2, <1>3, <1>4, MovedFits
<1>6. ASSUME NEW x \in Wallets, answer.fee = 0 \/ x \notin {to, Collector}
      PROVE  Moved(r.bal, to, Collector, paid)[x] = r.bal[x] /\ r.frozen[x] = led.frozen[x]
  <2> HIDE DEF v, r, paid
  <2>1. CASE x \notin {to, Collector}
    BY <1>0, <1>2, <1>3, <1>4, <2>1, MovedExact
  <2>2. CASE answer.fee = 0
    <3>1. paid = 0 /\ r.frozen = led.frozen
      BY <1>1, <1>2, <1>3, <2>2
    <3>2. \A y \in Wallets : r.bal[y] \in Nat
      BY <1>4, AmountsAreNat
    <3>3. /\ to = Collector => Moved(r.bal, to, Collector, paid) = r.bal
          /\ to # Collector =>
               /\ Moved(r.bal, to, Collector, paid)[to] = r.bal[to] - paid
               /\ Moved(r.bal, to, Collector, paid)[Collector] = r.bal[Collector] + paid
          /\ \A w \in Wallets \ {to, Collector} :
               Moved(r.bal, to, Collector, paid)[w] = r.bal[w]
      BY <1>0, <1>2, <1>4, MovedExact
    <3> QED BY <1>0, <3>1, <3>2, <3>3
  <2> QED BY <1>6, <2>1, <2>2
<1>7. d.bal = Moved(r.bal, to, Collector, paid) /\ d.frozen = r.frozen
  <2>1. Moved(r.bal, to, Collector, paid) \in [Wallets -> Amounts] /\ r \in Ledger
    <3> HIDE DEF r, paid
    <3> QED BY <1>0, <1>2, <1>3, <1>4, MovedType DEF LedgerFits
  <2> HIDE DEF r, paid
  <2> QED BY <2>1, SetBal
<1>8. FeeTaken(led, known, to, answer) = IF Collector \in known THEN d ELSE r
  BY DEF FeeTaken
<1> HIDE DEF r, d, paid, v
<1> QED BY <1>3, <1>5, <1>6, <1>7, <1>8

(* A forced transfer keeps a ledger fit, with the fee charged in its middle. *)
(* When it does take tokens away, the receiver holds them beyond what was    *)
(* frozen on it.                                                             *)
LEMMA ForcedMoveFits ==
  ASSUME NEW s \in Amounts, NEW led, LedgerFits(led, s), NEW known,
         NEW from \in Wallets, NEW to \in Wallets, NEW amount \in Amounts,
         NEW answer \in Answers, NEW u, FeeAllowed(from, to, answer, u)
  PROVE  /\ LedgerFits(ForcedMove(led, known, from, to, amount, answer), s)
         /\ from # to /\ ForcedMove(led, known, from, to, amount, answer).bal[from] # led.bal[from]
              => ForcedMove(led, known, from, to, amount, answer).frozen[to] + Covered(led, from, amount)
                   <= ForcedMove(led, known, from, to, amount, answer).bal[to]
<1> DEFINE v == Covered(led, from, amount)
           r == Released(led, from, v)
           c == FeeTaken(r, known, to, answer)
           moved == Select(answer.done, v, 0)
           m == Moved(c.bal, from, to, moved)
           d == [c EXCEPT !.bal = m]
<1>0. led \in Ledger
  BY DEF LedgerFits
<1>1. v \in Amounts /\ v <= led.bal[from]
  BY <1>0, CoveredType
<1>2. moved \in Amounts /\ moved <= v /\ (moved = 0 \/ moved = v)
  <2> HIDE DEF v
  <2> QED BY <1>1, SelectType DEF Select
<1>3. /\ LedgerFits(r, s)
      /\ r.bal = led.bal
      /\ r.frozen[from] + v <= led.bal[from]
  <2> HIDE DEF v
  <2> QED BY <1>1, ReleasedFits
<1>4. LedgerFits(c, s) /\ c.bal[from] = led.bal[from] /\ c.frozen[from] = r.frozen[from]
  <2>1. answer.fee = 0 \/ from \notin {to, Collector}
    BY AnswerType DEF FeeAllowed
  <2> HIDE DEF r
  <2> QED BY <1>3, <2>1, FeeTakenFits
<1>5. /\ c.bal \in [Wallets -> Amounts]
      /\ c.frozen[from] + moved <= c.bal[from]
      /\ moved <= c.bal[from]
      /\ Total(c.bal) < WordSize
      /\ c.bal[from] \in Nat /\ c.bal[to] \in Nat /\ c.frozen[to] \in Nat
      /\ c.frozen[to] <= c.bal[to] /\ moved \in Nat
  <2> HIDE DEF v, r, c, moved
  <2>1. /\ c.bal \in [Wallets -> Amounts] /\ c.frozen[from] \in Nat /\ c.bal[from] \in Nat
        /\ c.bal[to] \in Nat /\ c.frozen[to] \in Nat /\ c.frozen[to] <= c.bal[to]
        /\ v \in Nat /\ moved \in Nat
    BY <1>1, <1>2, <1>4, FitsType, AmountsAreNat
  <2>2. Total(c.bal) < WordSize
    BY <1>4, WordSizeAssumption DEF LedgerFits, Amounts
  <2> QED BY <1>2, <1>3, <1>4, <2>1, <2>2
<1>6. LedgerFits(d, s)
  <2> HIDE DEF c, moved
  <2> QED BY <1>2, <1>4, <1>5, MovedFits
<1>7. d.bal = m /\ d.frozen = c.frozen
  <2>1. m \in [Wallets -> Amounts] /\ c \in Ledger
    <3> HIDE DEF c, moved
    <3> QED BY <1>2, <1>4, <1>5, MovedType DEF LedgerFits
  <2> HIDE DEF c, m
  <2> QED BY <2>1, SetBal
<1>8. from # to /\ m[from] # led.bal[from] => c.frozen[to] + v <= m[to]
  <2> HIDE DEF c, moved, v, m
  <2>1. from # to => m[from] = c.bal[from] - moved /\ m[to] = c.bal[to] + moved
    BY <1>2, <1>5, MovedExact DEF m
  <2>2. v \in Nat
    BY <1>1, AmountsAreNat
  <2> QED BY <1>2, <1>4, <1>5, <2>1, <2>2
<1>9. ForcedMove(led, known, from, to, amount, answer) = IF to \in known THEN d ELSE r
  BY DEF ForcedMove
<1> HIDE DEF r, d, c, m
<1> QED BY <1>3, <1>6, <1>7, <1>8, <1>9

(* A partial freeze keeps a ledger fit; it takes effect in full when the     *)
(* wallet holds that much beyond what is frozen already.                     *)
LEMMA FrozenMoreFits ==
  ASSUME NEW s \in Amounts, NEW led, LedgerFits(led, s),
         NEW w \in Wallets, NEW amount \in Amounts
  PROVE  /\ LedgerFits(FrozenMore(led, w, amount), s)
         /\ FrozenMore(led, w, amount).bal = led.bal
         /\ led.frozen[w] + amount <= led.bal[w]
              => FrozenMore(led, w, amount).frozen[w] = led.frozen[w] + amount
<1> DEFINE sum == AddWord(led.frozen[w], amount)
           x == AddWord(led.frozen[w], Select(led.bal[w] < sum, 0, amount))
           g == FrozenMore(led, w, amount)
<1>1. /\ led.bal \in [Wallets -> Amounts] /\ led.frozen \in [Wallets -> Amounts]
      /\ \A y \in Wallets : /\ led.bal[y] \in Nat /\ led.frozen[y] \in Nat
                            /\ led.bal[y] < WordSize /\ led.frozen[y] <= led.bal[y]
  BY FitsType
<1>2. sum \in Nat /\ amount \in Nat /\ AddWord(led.frozen[w], 0) = led.frozen[w]
  BY <1>1, WordClosed, WordExact, AmountsAreNat, WordSizeAssumption DEF AddWord
<1>3. x = IF led.bal[w] < sum THEN led.frozen[w] ELSE sum
  BY <1>2 DEF Select
<1>4. x <= led.bal[w]
  <2> HIDE DEF x, sum
  <2> QED BY <1>1, <1>2, <1>3
<1>5. led.frozen[w] + amount <= led.bal[w] => x = led.frozen[w] + amount
  <2> HIDE DEF x
  <2> QED BY <1>1, <1>2, <1>3, WordSizeAssumption DEF AddWord
<1>6. g \in Ledger
  BY FrozenMoreType DEF LedgerFits
<1>7. g.bal = led.bal /\ g.frozen = [led.frozen EXCEPT ![w] = x]
  <2>1. g = [led EXCEPT !.frozen = [led.frozen EXCEPT ![w] = x]]
    BY DEF FrozenMore
  <2> HIDE DEF g, x
  <2> QED BY <2>1 DEF LedgerFits, Ledger
<1> HIDE DEF g, x
<1>8. LedgerFits(g, s)
  <2>1. ASSUME NEW y \in Wallets PROVE g.frozen[y] <= g.bal[y]
    BY <1>1, <1>4, <1>7
  <2> QED BY <1>6, <1>7, <2>1 DEF LedgerFits
<1>9. g.frozen[w] = x
  BY <1>1, <1>7
<1> QED BY <1>5, <1>7, <1>8, <1>9 DEF g


-----------------------------------------------------------------------------
(* The operations.                                                         *)

LEMMA CurrentType ==
  ASSUME TypeOK
  PROVE  /\ Current \in Ledger
         /\ Current.bal = balances
         /\ Current.frozen = frozenTokens
BY DEF TypeOK, Current, Ledger

(* The rest of the type invariant, apart from the ledger.                   *)
RestOK ==
  /\ frozen \subseteq Wallets
  /\ allowances \in [Wallets -> [Spenders -> Amounts]]
  /\ totalSupply \in Amounts
  /\ written \subseteq Slots
  /\ paused \in BOOLEAN
  /\ agents \subseteq Operators
  /\ registered \subseteq Wallets
  /\ verified \subseteq registered
  /\ overflowed \in BOOLEAN

(* A step that sets a well-typed ledger, fit whenever it was fit before and  *)
(* supply and overflow flag stay the same, preserves the invariant.          *)
LEMMA SetLedgerInv ==
  ASSUME IInv, NEW led \in Ledger, SetLedger(led), RestOK',
         UNCHANGED <<totalSupply, overflowed>>,
         ~overflowed => LedgerFits(led, totalSupply)
  PROVE  IInv'
<1>1. led.bal \in [Wallets -> Amounts] /\ led.frozen \in [Wallets -> Amounts]
  BY DEF Ledger
<1>2. led = [bal |-> led.bal, frozen |-> led.frozen]
  BY DEF Ledger
<1>3. Current' = led
  BY <1>2 DEF SetLedger, Current
<1>4. TypeOK'
  BY <1>1 DEF SetLedger, RestOK, TypeOK
<1>5. ~overflowed' => LedgerFits(Current', totalSupply')
  BY <1>3
<1> QED BY <1>4, <1>5 DEF IInv, LedgerFits

(* What a holder moves.                                                     *)
LEMMA HolderMoveLedger ==
  ASSUME IInv, NEW from \in Wallets, NEW to \in Wallets, NEW covered \in Amounts,
         NEW answer \in Answers, HolderMove(from, to, covered, answer),
         ~overflowed => covered <= balances[from] - frozenTokens[from]
  PROVE  \E led \in Ledger :
           /\ SetLedger(led)
           /\ ~overflowed =>
                /\ LedgerFits(led, totalSupply)
                /\ from # to => led.bal[from] + covered >= balances[from]
                /\ from = to /\ answer.fee = 0 => led.bal[from] = balances[from]
                /\ answer.fee = 0 => led.frozen = frozenTokens
                /\ \A x \in Wallets \ {from, to} : answer.fee = 0 => led.bal[x] = balances[x]
                /\ to # from /\ answer.fee = 0 => led.bal[to] >= balances[to]
<1> DEFINE v == Select(answer.can, covered, 0)
           c == FeeTaken(Current, verified, to, answer)
           moved == Select(answer.done, v, 0)
           m == Moved(c.bal, from, to, moved)
           d == [c EXCEPT !.bal = m]
<1>0. Current \in Ledger /\ Current.bal = balances /\ Current.frozen = frozenTokens
  BY CurrentType DEF IInv
<1>1. v \in Amounts /\ v <= covered
  BY SelectType
<1>2. moved \in Amounts /\ moved <= v
  <2> HIDE DEF v
  <2> QED BY <1>1, SelectType
<1>3. c \in Ledger
  BY <1>0, FeeTakenType
<1>4. m \in [Wallets -> Amounts]
  <2> HIDE DEF c, moved
  <2>1. c.bal \in [Wallets -> Amounts]
    BY <1>3 DEF Ledger
  <2> QED BY <1>2, <2>1, MovedType
<1>5. d \in Ledger /\ d.bal = m /\ d.frozen = c.frozen
  <2> HIDE DEF c, m
  <2> QED BY <1>3, <1>4, SetBal
<1>6. SetLedger(d)
  BY DEF HolderMove
<1>7. ASSUME ~overflowed
      PROVE  /\ LedgerFits(d, totalSupply)
             /\ from # to => m[from] + covered >= balances[from]
             /\ from = to /\ answer.fee = 0 => m[from] = balances[from]
             /\ answer.fee = 0 => c.frozen = frozenTokens
             /\ \A x \in Wallets \ {from, to} : answer.fee = 0 => m[x] = balances[x]
             /\ to # from /\ answer.fee = 0 => m[to] >= balances[to]
  <2>1. LedgerFits(Current, totalSupply) /\ totalSupply \in Amounts
    BY <1>7 DEF IInv, TypeOK
  <2>2. answer.fee = 0 \/ from \notin {to, Collector}
    BY AnswerType DEF HolderMove, FeeAllowed
  <2>3. /\ LedgerFits(c, totalSupply)
        /\ \A x \in Wallets : answer.fee = 0 \/ x \notin {to, Collector} =>
              c.bal[x] = balances[x] /\ c.frozen[x] = frozenTokens[x]
    BY <1>0, <2>1, FeeTakenFits
  <2>4. /\ c.bal \in [Wallets -> Amounts] /\ c.frozen \in [Wallets -> Amounts]
        /\ \A w \in Wallets : c.bal[w] \in Nat /\ c.frozen[w] \in Nat
    <3> HIDE DEF c
    <3> QED BY <2>3, FitsType
  <2>5. covered \in Nat /\ moved \in Nat /\ v \in Nat /\ moved <= covered
    <3> HIDE DEF moved, v
    <3> QED BY <1>1, <1>2, AmountsAreNat
  <2>6. c.bal[from] = balances[from] /\ c.frozen[from] = frozenTokens[from]
    <3> HIDE DEF c
    <3> QED BY <2>2, <2>3
  <2>7. c.frozen[from] + moved <= c.bal[from] /\ moved <= c.bal[from]
    <3> HIDE DEF c, moved, v
    <3> QED BY <1>7, <2>4, <2>5, <2>6
  <2>8. LedgerFits(d, totalSupply)
    <3> HIDE DEF c, moved
    <3> QED BY <1>2, <2>1, <2>3, <2>7, MovedFits
  <2>9. Total(c.bal) < WordSize
    <3> HIDE DEF c
    <3> QED BY <2>1, <2>3, WordSizeAssumption DEF LedgerFits, Amounts
  <2>10. /\ from = to => m = c.bal
         /\ from # to => m[from] = c.bal[from] - moved /\ m[to] = c.bal[to] + moved
         /\ \A x \in Wallets \ {from, to} : m[x] = c.bal[x]
    <3> HIDE DEF c, moved
    <3> QED BY <1>2, <2>4, <2>7, <2>9, MovedExact
  <2>11. answer.fee = 0 => c.frozen = frozenTokens /\ \A x \in Wallets : c.bal[x] = balances[x]
    <3> HIDE DEF c
    <3>1. frozenTokens \in [Wallets -> Amounts]
      BY DEF IInv, TypeOK
    <3> QED BY <2>3, <2>4, <3>1
  <2> HIDE DEF c, moved, m, d
  <2> QED BY <2>4, <2>5, <2>6, <2>8, <2>10, <2>11
<1> HIDE DEF d, c, m
<1> QED BY <1>5, <1>6, <1>7


(* Steps that leave the amounts alone.                                      *)
LEMMA LedgerUnchangedInv ==
  ASSUME IInv, UNCHANGED <<balances, frozenTokens, totalSupply, overflowed>>, RestOK'
  PROVE  IInv'
<1>1. Current' = Current /\ totalSupply' = totalSupply /\ overflowed' = overflowed
  BY DEF ledgerVars, Current
<1>2. TypeOK'
  BY DEF ledgerVars, IInv, TypeOK, RestOK
<1> QED BY <1>1, <1>2 DEF IInv, LedgerFits

LEMMA FreeTokensBound ==
  ASSUME IInv, NEW w \in Wallets
  PROVE  /\ FreeTokens(Current, w) \in Amounts
         /\ ~overflowed => FreeTokens(Current, w) = balances[w] - frozenTokens[w]
<1>1. /\ Current.bal = balances /\ Current.frozen = frozenTokens
      /\ balances[w] \in Amounts /\ frozenTokens[w] \in Amounts
  BY CurrentType DEF IInv, TypeOK
<1>2. ~overflowed => frozenTokens[w] <= balances[w]
  BY <1>1 DEF IInv, LedgerFits
<1> QED BY <1>1, <1>2, WordClosed, WordExact DEF FreeTokens

(* Holders never cover more than the free part of the balance.              *)
LEMMA CoveredByHolder ==
  ASSUME IInv, NEW w \in Wallets, NEW amount \in Amounts, NEW enough,
         enough => amount <= FreeTokens(Current, w)
  PROVE  /\ Select(enough, amount, 0) \in Amounts
         /\ ~overflowed => Select(enough, amount, 0) <= balances[w] - frozenTokens[w]
<1>1. /\ FreeTokens(Current, w) \in Amounts
      /\ ~overflowed => FreeTokens(Current, w) = balances[w] - frozenTokens[w]
  BY FreeTokensBound
<1>2. FreeTokens(Current, w) \in Nat
  BY <1>1, AmountsAreNat
<1> QED BY <1>1, <1>2, SelectType DEF Select

LEMMA TransferInv ==
  ASSUME IInv, NEW from \in Wallets, NEW to \in Wallets, NEW amount \in Amounts,
         NEW answer \in Answers, Transfer(from, to, amount, answer)
  PROVE  IInv'
<1> DEFINE covered == Select(amount <= FreeTokens(Current, from), amount, 0)
<1>1. covered \in Amounts /\ (~overflowed => covered <= balances[from] - frozenTokens[from])
  BY CoveredByHolder
<1>2. HolderMove(from, to, covered, answer)
  BY DEF Transfer
<1> HIDE DEF covered
<1>3. PICK led \in Ledger : SetLedger(led) /\ (~overflowed => LedgerFits(led, totalSupply))
  BY <1>1, <1>2, HolderMoveLedger
<1>4. RestOK' /\ UNCHANGED <<totalSupply, overflowed>>
  BY <1>2, WritesType DEF Transfer, HolderMove, registryVars, RestOK, IInv, TypeOK
<1> QED BY <1>3, <1>4, SetLedgerInv

LEMMA TransferFromInv ==
  ASSUME IInv, NEW spender \in Spenders, NEW from \in Wallets, NEW to \in Wallets,
         NEW amount \in Amounts, NEW answer \in Answers,
         TransferFrom(spender, from, to, amount, answer)
  PROVE  IInv'
<1> DEFINE enough  == Spendable(spender, from, amount)
           covered == Select(enough, amount, 0)
           left    == Select(answer.done, SubWord(allowances[from][spender], amount),
                             allowances[from][spender])
<1>1. covered \in Amounts /\ (~overflowed => covered <= balances[from] - frozenTokens[from])
  BY CoveredByHolder DEF Spendable
<1>2. HolderMove(from, to, covered, answer)
  BY DEF TransferFrom
<1>3. left \in Amounts
  BY WordClosed DEF Select, IInv, TypeOK
<1>4. allowances' = [allowances EXCEPT ![from] = [allowances[from] EXCEPT ![spender] = left]]
  BY DEF TransferFrom
<1> HIDE DEF covered, enough, left
<1>5. PICK led \in Ledger : SetLedger(led) /\ (~overflowed => LedgerFits(led, totalSupply))
  BY <1>1, <1>2, HolderMoveLedger
<1>6. RestOK' /\ UNCHANGED <<totalSupply, overflowed>>
  <2>1. written' \subseteq Slots
    BY <1>2, WritesType DEF HolderMove, IInv, TypeOK
  <2>2. UNCHANGED <<frozen, totalSupply, paused, agents, registryVars, overflowed>>
    BY DEF TransferFrom
  <2>3. allowances' \in [Wallets -> [Spenders -> Amounts]]
    BY <1>3, <1>4 DEF IInv, TypeOK
  <2> QED BY <2>1, <2>2, <2>3 DEF registryVars, RestOK, IInv, TypeOK
<1> QED BY <1>5, <1>6, SetLedgerInv

LEMMA SetAllowanceInv ==
  ASSUME IInv, NEW owner \in Wallets, NEW spender \in Spenders, NEW amount \in Amounts,
         SetAllowance(owner, spender, amount)
  PROVE  IInv'
<1>1. RestOK' /\ UNCHANGED <<balances, frozenTokens, totalSupply, overflowed>>
  BY SlotsType DEF SetAllowance, registryVars, RestOK, IInv, TypeOK
<1> QED BY <1>1, LedgerUnchangedInv

LEMMA MintInv ==
  ASSUME IInv, NEW to \in Wallets, NEW amount \in Amounts, NEW answer \in Answers,
         Mint(to, amount, answer)
  PROVE  IInv'
<1> DEFINE v == Select(answer.can /\ answer.done, amount, 0)
           b == AddWord(balances[to], v)
<1>0. balances \in [Wallets -> Amounts] /\ frozenTokens \in [Wallets -> Amounts]
      /\ totalSupply \in Amounts
  BY DEF IInv, TypeOK
<1>1. v \in Amounts
  BY SelectType
<1>2. b \in Amounts /\ AddWord(totalSupply, v) \in Amounts
  <2> HIDE DEF v
  <2> QED BY <1>0, <1>1, WordClosed
<1>3. /\ balances' = [balances EXCEPT ![to] = b]
      /\ totalSupply' = AddWord(totalSupply, v)
      /\ frozenTokens' = frozenTokens
      /\ overflowed' = (overflowed \/ totalSupply + v >= WordSize)
  BY DEF Mint
<1> HIDE DEF v, b
<1>4. balances' \in [Wallets -> Amounts]
  BY <1>0, <1>2, <1>3
<1>5. TypeOK'
  <2>1. overflowed' \in BOOLEAN /\ totalSupply' \in Amounts
    BY <1>2, <1>3
  <2> QED BY <1>3, <1>4, <2>1, SlotsType DEF Mint, registryVars, IInv, TypeOK
<1>6. ASSUME ~overflowed' PROVE LedgerFits(Current', totalSupply')
  <2>1. ~overflowed /\ totalSupply + v < WordSize
    <3>1. ~overflowed /\ ~(totalSupply + v >= WordSize)
      BY <1>3, <1>6
    <3>2. totalSupply \in Nat /\ v \in Nat
      BY <1>0, <1>1, AmountsAreNat
    <3> QED BY <3>1, <3>2, WordSizeAssumption
  <2>2. LedgerFits(Current, totalSupply) /\ Current.bal = balances /\ Current.frozen = frozenTokens
    BY <2>1, CurrentType DEF IInv
  <2>3. /\ Total(balances) = totalSupply
        /\ \A w \in Wallets : frozenTokens[w] <= balances[w]
    BY <2>2 DEF LedgerFits
  <2>4. /\ balances[to] <= totalSupply /\ totalSupply \in Nat /\ v \in Nat
        /\ \A w \in Wallets : balances[w] \in Nat /\ frozenTokens[w] \in Nat
    <3>1. balances \in [Wallets -> Nat]
      BY <1>0, AmountsAreNat
    <3> QED BY <1>0, <1>1, <2>3, <3>1, TotalBounds, AmountsAreNat
  <2>5. b = balances[to] + v /\ totalSupply' = totalSupply + v
    BY <1>3, <2>1, <2>4, WordSizeAssumption DEF AddWord, b
  <2>6. Total([balances EXCEPT ![to] = b]) = Total(balances) - balances[to] + b
    BY <1>0, <1>2, TotalOfUpdate
  <2>7. Total(balances') = totalSupply'
    BY <1>3, <2>3, <2>4, <2>5, <2>6
  <2>8. ASSUME NEW w \in Wallets PROVE frozenTokens'[w] <= balances'[w]
    BY <1>0, <1>3, <2>3, <2>4, <2>5
  <2>9. Current' = [bal |-> balances', frozen |-> frozenTokens']
    BY DEF Current
  <2>10. Current' \in Ledger
    BY <1>0, <1>3, <1>4, <2>9 DEF Ledger
  <2> QED BY <2>7, <2>8, <2>9, <2>10 DEF LedgerFits
<1> QED BY <1>5, <1>6 DEF IInv, LedgerFits


LEMMA BurnInv ==
  ASSUME IInv, NEW w \in Wallets, NEW amount \in Amounts, Burn(w, amount)
  PROVE  IInv'
<1> DEFINE v == Covered(Current, w, amount)
           r == Released(Current, w, v)
           x == SubWord(r.bal[w], v)
           b == [r.bal EXCEPT ![w] = x]
           d == [r EXCEPT !.bal = b]
<1>0. /\ Current \in Ledger /\ Current.bal = balances /\ Current.frozen = frozenTokens
      /\ totalSupply \in Amounts /\ balances \in [Wallets -> Amounts]
  BY CurrentType DEF IInv, TypeOK
<1>1. v \in Amounts /\ v <= balances[w]
  BY <1>0, CoveredType
<1>2. r \in Ledger /\ r.bal = balances
  <2> HIDE DEF v
  <2> QED BY <1>0, <1>1, ReleasedType
<1>3. x \in Amounts
  <2> HIDE DEF v, r
  <2> QED BY <1>0, <1>1, <1>2, WordClosed
<1>4. d \in Ledger /\ d.bal = b /\ d.frozen = r.frozen /\ b \in [Wallets -> Amounts]
  <2> HIDE DEF r, x
  <2>1. b \in [Wallets -> Amounts]
    BY <1>0, <1>2, <1>3
  <2> HIDE DEF b
  <2> QED BY <1>2, <2>1, SetBal
<1>5. /\ SetLedger(d)
      /\ totalSupply' = SubWord(totalSupply, v)
      /\ overflowed' = overflowed
  BY DEF Burn
<1>6. TypeOK'
  <2> HIDE DEF v, d
  <2>1. totalSupply' \in Amounts
    BY <1>0, <1>1, <1>5, WordClosed
  <2>2. balances' \in [Wallets -> Amounts] /\ frozenTokens' \in [Wallets -> Amounts]
    BY <1>4, <1>5 DEF SetLedger, Ledger
  <2> QED BY <2>1, <2>2, SlotsType DEF Burn, registryVars, IInv, TypeOK
<1>7. Current' = d
  <2> HIDE DEF d
  <2> QED BY <1>4, <1>5 DEF SetLedger, Current, Ledger
<1>8. ASSUME ~overflowed PROVE LedgerFits(d, totalSupply')
  <2>1. LedgerFits(Current, totalSupply)
    BY <1>8 DEF IInv
  <2>2. LedgerFits(r, totalSupply) /\ r.frozen[w] + v <= balances[w]
    <3> HIDE DEF v
    <3> QED BY <1>0, <1>1, <2>1, ReleasedFits
  <2>3. /\ Total(balances) = totalSupply
        /\ \A y \in Wallets : r.frozen[y] \in Nat /\ balances[y] \in Nat /\ r.frozen[y] <= balances[y]
    <3> HIDE DEF r
    <3> QED BY <1>2, <2>2, FitsType DEF LedgerFits
  <2>4. balances[w] <= totalSupply /\ totalSupply \in Nat /\ v \in Nat
    <3>1. balances \in [Wallets -> Nat]
      BY <1>0, AmountsAreNat
    <3> QED BY <1>0, <1>1, <2>3, <3>1, TotalBounds, AmountsAreNat
  <2>5. x = balances[w] - v /\ totalSupply' = totalSupply - v
    <3> HIDE DEF v, r
    <3> QED BY <1>1, <1>2, <1>5, <2>3, <2>4 DEF SubWord
  <2>6. Total(b) = totalSupply'
    <3> HIDE DEF v, r, x
    <3>1. Total(b) = Total(balances) - balances[w] + x
      BY <1>0, <1>2, <1>3, TotalOfUpdate
    <3> QED BY <2>3, <2>4, <2>5, <3>1
  <2>7. ASSUME NEW y \in Wallets PROVE r.frozen[y] <= b[y]
    <3> HIDE DEF v, r, x
    <3> QED BY <1>0, <1>2, <2>2, <2>3, <2>4, <2>5
  <2> HIDE DEF d, b, r
  <2> QED BY <1>4, <2>6, <2>7 DEF LedgerFits
<1> HIDE DEF d
<1> QED BY <1>5, <1>6, <1>7, <1>8 DEF IInv, LedgerFits

LEMMA ForcedTransferInv ==
  ASSUME IInv, NEW from \in Wallets, NEW to \in Wallets, NEW amount \in Amounts,
         NEW answer \in Answers, ForcedTransfer(from, to, amount, answer)
  PROVE  IInv'
<1> DEFINE led == ForcedMove(Current, verified, from, to, amount, answer)
<1>1. led \in Ledger
  BY CurrentType, ForcedMoveType DEF IInv
<1>2. ASSUME ~overflowed PROVE LedgerFits(led, totalSupply)
  <2>1. LedgerFits(Current, totalSupply) /\ totalSupply \in Amounts
    BY <1>2 DEF IInv, TypeOK
  <2>2. PICK u : FeeAllowed(from, to, answer, u)
    BY DEF ForcedTransfer
  <2> QED BY <2>1, <2>2, ForcedMoveFits
<1>3. SetLedger(led)
  BY DEF ForcedTransfer
<1>4. RestOK' /\ UNCHANGED <<totalSupply, overflowed>>
  BY WritesType DEF ForcedTransfer, registryVars, RestOK, IInv, TypeOK
<1> HIDE DEF led
<1> QED BY <1>1, <1>2, <1>3, <1>4, SetLedgerInv

LEMMA FreezePartialTokensInv ==
  ASSUME IInv, NEW w \in Wallets, NEW amount \in Amounts, FreezePartialTokens(w, amount)
  PROVE  IInv'
<1> DEFINE led == FrozenMore(Current, w, amount)
<1>1. led \in Ledger
  BY CurrentType, FrozenMoreType DEF IInv
<1>2. ASSUME ~overflowed PROVE LedgerFits(led, totalSupply)
  <2>1. LedgerFits(Current, totalSupply) /\ totalSupply \in Amounts
    BY <1>2 DEF IInv, TypeOK
  <2> QED BY <2>1, FrozenMoreFits
<1>3. SetLedger(led)
  BY DEF FreezePartialTokens
<1>4. RestOK' /\ UNCHANGED <<totalSupply, overflowed>>
  BY SlotsType DEF FreezePartialTokens, registryVars, RestOK, IInv, TypeOK
<1> HIDE DEF led
<1> QED BY <1>1, <1>2, <1>3, <1>4, SetLedgerInv

LEMMA UnfreezePartialTokensInv ==
  ASSUME IInv, NEW w \in Wallets, NEW amount \in Amounts, UnfreezePartialTokens(w, amount)
  PROVE  IInv'
<1> DEFINE x == SubWord(frozenTokens[w], Select(frozenTokens[w] < amount, 0, amount))
           led == [Current EXCEPT !.frozen = [frozenTokens EXCEPT ![w] = x]]
<1>0. /\ Current \in Ledger /\ Current.bal = balances /\ Current.frozen = frozenTokens
      /\ balances \in [Wallets -> Amounts] /\ frozenTokens \in [Wallets -> Amounts]
  BY CurrentType DEF IInv, TypeOK
<1>1. frozenTokens[w] \in Nat /\ amount \in Nat
  BY <1>0, AmountsAreNat
<1>2. x <= frozenTokens[w] /\ x \in Nat
  BY <1>1 DEF Select, SubWord
<1>3. x \in Amounts
  <2> HIDE DEF x
  <2> QED BY <1>0, <1>1, <1>2, WordSizeAssumption DEF Amounts
<1>4. frozenTokens' = [frozenTokens EXCEPT ![w] = x] /\ balances' = balances
  BY DEF UnfreezePartialTokens
<1> HIDE DEF x
<1>5. led \in Ledger /\ led.bal = balances /\ led.frozen = [frozenTokens EXCEPT ![w] = x]
  BY <1>0, <1>3 DEF Ledger
<1>6. SetLedger(led)
  <2> HIDE DEF led
  <2> QED BY <1>4, <1>5 DEF SetLedger
<1>7. ASSUME ~overflowed PROVE LedgerFits(led, totalSupply)
  <2>1. LedgerFits(Current, totalSupply)
    BY <1>7 DEF IInv
  <2>2. \A y \in Wallets : frozenTokens[y] \in Nat /\ balances[y] \in Nat /\ frozenTokens[y] <= balances[y]
    BY <1>0, <2>1, FitsType
  <2> HIDE DEF led
  <2>3. ASSUME NEW y \in Wallets PROVE led.frozen[y] <= led.bal[y]
    BY <1>0, <1>1, <1>2, <1>5, <2>2
  <2> QED BY <1>0, <1>5, <2>1, <2>3 DEF LedgerFits
<1>8. RestOK' /\ UNCHANGED <<totalSupply, overflowed>>
  BY SlotsType DEF UnfreezePartialTokens, registryVars, RestOK, IInv, TypeOK
<1> HIDE DEF led
<1> QED BY <1>5, <1>6, <1>7, <1>8, SetLedgerInv

LEMMA RecoverAddressInv ==
  ASSUME IInv, NEW lost \in Wallets, NEW new \in Wallets, NEW valid \in BOOLEAN,
         NEW answer \in Answers, RecoverAddress(lost, new, valid, answer)
  PROVE  IInv'
<1> DEFINE known     == IF valid THEN verified \cup {new} ELSE verified
           tokens    == balances[lost]
           frozenAmt == IF tokens = 0 THEN 0 ELSE frozenTokens[lost]
           moved     == ForcedMove(Current, known, lost, new, tokens, answer)
           led       == FrozenMore(moved, new, frozenAmt)
<1>0. Current \in Ledger
  BY CurrentType DEF IInv
<1>1. tokens \in Amounts /\ frozenAmt \in Amounts
  BY WordSizeAssumption DEF IInv, TypeOK, Amounts
<1>2. moved \in Ledger
  <2> HIDE DEF known, tokens
  <2> QED BY <1>0, <1>1, ForcedMoveType
<1>3. led \in Ledger
  <2> HIDE DEF moved, frozenAmt
  <2> QED BY <1>1, <1>2, FrozenMoreType
<1>4. ASSUME ~overflowed PROVE LedgerFits(led, totalSupply)
  <2>1. LedgerFits(Current, totalSupply) /\ totalSupply \in Amounts
    BY <1>4 DEF IInv, TypeOK
  <2>2. PICK u : FeeAllowed(lost, new, answer, u)
    BY DEF RecoverAddress
  <2>3. LedgerFits(moved, totalSupply)
    <3> HIDE DEF known, tokens
    <3> QED BY <1>1, <2>1, <2>2, ForcedMoveFits
  <2> HIDE DEF moved, frozenAmt
  <2> QED BY <1>1, <2>1, <2>3, FrozenMoreFits
<1>5. SetLedger(led)
  BY DEF RecoverAddress
<1>6. RestOK' /\ UNCHANGED <<totalSupply, overflowed>>
  BY SlotsType, WritesType DEF RecoverAddress, RestOK, IInv, TypeOK
<1> HIDE DEF led
<1> QED BY <1>3, <1>4, <1>5, <1>6, SetLedgerInv

-----------------------------------------------------------------------------
(* The theorems.                                                           *)

LEMMA InitInv == Init => IInv
<1> SUFFICES ASSUME Init PROVE IInv
  OBVIOUS
<1>1. 0 \in Amounts
  BY WordSizeAssumption DEF Amounts
<1>2. TypeOK
  BY <1>1 DEF Init, TypeOK
<1>3. Total(balances) = 0
  BY TotalZero DEF Init
<1>4. LedgerFits(Current, totalSupply)
  <2>1. Current \in Ledger /\ Current.bal = balances /\ Current.frozen = frozenTokens
    BY <1>2, CurrentType
  <2>2. \A w \in Wallets : frozenTokens[w] <= balances[w]
    BY DEF Init
  <2> QED BY <1>3, <2>1, <2>2 DEF LedgerFits, Init
<1> QED BY <1>2, <1>4 DEF IInv

LEMMA RegistryStepInv == IInv /\ RegistryStep => IInv'
<1> SUFFICES ASSUME IInv, RegistryStep PROVE IInv'
  OBVIOUS
<1>1. UNCHANGED <<balances, frozenTokens, totalSupply, overflowed>> /\ RestOK'
  <2>1. CASE \E w \in Wallets : DeleteIdentity(w)
    BY <2>1 DEF DeleteIdentity, ledgerVars, RestOK, IInv, TypeOK
  <2>2. CASE \E w \in Wallets : ClaimsChange(w)
    BY <2>2 DEF ClaimsChange, ledgerVars, RestOK, IInv, TypeOK
  <2>3. CASE \E w \in Wallets, valid \in BOOLEAN : RegisterIdentity(w, valid)
    BY <2>3 DEF RegisterIdentity, ledgerVars, RestOK, IInv, TypeOK
  <2>4. CASE \E known, valid \in SUBSET Wallets : SetIdentityRegistry(known, valid)
    BY <2>4 DEF SetIdentityRegistry, ledgerVars, RestOK, IInv, TypeOK
  <2> QED BY <2>1, <2>2, <2>3, <2>4 DEF RegistryStep
<1> QED BY <1>1, LedgerUnchangedInv

LEMMA RoleStepInv == IInv /\ RoleStep => IInv'
<1> SUFFICES ASSUME IInv, RoleStep PROVE IInv'
  OBVIOUS
<1>1. UNCHANGED <<balances, frozenTokens, totalSupply, overflowed>> /\ RestOK'
  BY DEF RoleStep, AddAgent, RemoveAgent, ledgerVars, registryVars, RestOK, IInv, TypeOK
<1> QED BY <1>1, LedgerUnchangedInv

LEMMA AllowanceStepInv == IInv /\ AllowanceStep => IInv'
<1> SUFFICES ASSUME IInv, NEW owner \in Wallets, NEW s \in Spenders, NEW amount \in Amounts,
                    \/ Approve(owner, s, amount)
                    \/ IncreaseAllowance(owner, s, amount)
                    \/ DecreaseAllowance(owner, s, amount)
             PROVE  IInv'
  BY DEF AllowanceStep
<1>1. allowances[owner][s] \in Amounts
  BY DEF IInv, TypeOK
<1>2. PICK x \in Amounts : SetAllowance(owner, s, x)
  BY <1>1, WordClosed DEF Approve, IncreaseAllowance, DecreaseAllowance
<1> QED BY <1>2, SetAllowanceInv

LEMMA AgentStepInv == IInv /\ AgentStep => IInv'
<1> SUFFICES ASSUME IInv, AgentStep PROVE IInv'
  OBVIOUS
<1>1. CASE Pause \/ Unpause \/ \E w \in Wallets, freeze \in BOOLEAN : SetAddressFrozen(w, freeze)
  <2>1. UNCHANGED <<balances, frozenTokens, totalSupply, overflowed>> /\ RestOK'
    BY <1>1 DEF Pause, Unpause, SetAddressFrozen, ledgerVars, registryVars, RestOK, IInv, TypeOK
  <2> QED BY <2>1, LedgerUnchangedInv
<1>2. ASSUME NEW w \in Wallets, NEW amount \in Amounts, Burn(w, amount) PROVE IInv'
  BY <1>2, BurnInv
<1>3. ASSUME NEW w \in Wallets, NEW amount \in Amounts, FreezePartialTokens(w, amount) PROVE IInv'
  BY <1>3, FreezePartialTokensInv
<1>4. ASSUME NEW w \in Wallets, NEW amount \in Amounts, UnfreezePartialTokens(w, amount) PROVE IInv'
  BY <1>4, UnfreezePartialTokensInv
<1>5. ASSUME NEW w \in Wallets, NEW amount \in Amounts, NEW answer \in Answers,
             Mint(w, amount, answer)
      PROVE  IInv'
  BY <1>5, MintInv
<1>6. ASSUME NEW w \in Wallets, NEW to \in Wallets, NEW amount \in Amounts, NEW answer \in Answers,
             ForcedTransfer(w, to, amount, answer)
      PROVE  IInv'
  BY <1>6, ForcedTransferInv
<1>7. ASSUME NEW lost \in Wallets, NEW new \in Wallets, NEW valid \in BOOLEAN,
             NEW answer \in Answers, RecoverAddress(lost, new, valid, answer)
      PROVE  IInv'
  BY <1>7, RecoverAddressInv
<1> QED BY <1>1, <1>2, <1>3, <1>4, <1>5, <1>6, <1>7 DEF AgentStep

LEMMA NextInv == IInv /\ [Next]_vars => IInv'
<1> SUFFICES ASSUME IInv, [Next]_vars PROVE IInv'
  OBVIOUS
<1>1. CASE HolderStep
  <2>1. PICK from \in Wallets, to \in Wallets, amount \in Amounts, answer \in Answers :
          \/ Transfer(from, to, amount, answer)
          \/ \E s \in Spenders : TransferFrom(s, from, to, amount, answer)
    BY <1>1 DEF HolderStep
  <2> QED BY <2>1, TransferInv, TransferFromInv
<1>2. CASE AllowanceStep
  BY <1>2, AllowanceStepInv
<1>3. CASE AgentStep
  BY <1>3, AgentStepInv
<1>4. CASE RegistryStep
  BY <1>4, RegistryStepInv
<1>5. CASE RoleStep
  BY <1>5, RoleStepInv
<1>6. CASE UNCHANGED vars
  <2>1. UNCHANGED <<balances, frozenTokens, totalSupply, overflowed>> /\ RestOK'
    BY <1>6 DEF vars, ledgerVars, RestOK, IInv, TypeOK
  <2> QED BY <2>1, LedgerUnchangedInv
<1> QED BY <1>1, <1>2, <1>3, <1>4, <1>5, <1>6 DEF Next

THEOREM InductiveInvariant == Spec => []IInv
<1>1. Init => IInv
  BY InitInv
<1>2. IInv /\ [Next]_vars => IInv'
  BY NextInv
<1> QED BY <1>1, <1>2, PTL DEF Spec

(* Amounts never leave the word, and every other variable keeps its type.   *)
THEOREM TypeCorrect == Spec => []TypeOK
<1>1. IInv => TypeOK
  BY DEF IInv
<1> QED BY <1>1, InductiveInvariant, PTL

(* The balances add up to the supply until a mint overflows, whatever the    *)
(* compliance answers and whichever fees it takes on the way.                *)
THEOREM SupplyConserved == Spec => []SupplyIsSumOfBalances
<1>1. IInv => SupplyIsSumOfBalances
  BY CurrentType DEF IInv, LedgerFits, SupplyIsSumOfBalances
<1> QED BY <1>1, InductiveInvariant, PTL

(* No wallet has more frozen than it holds until a mint overflows.           *)
THEOREM FrozenIsCovered == Spec => []FrozenWithinBalance
<1>1. IInv => FrozenWithinBalance
  BY CurrentType DEF IInv, LedgerFits, FrozenWithinBalance
<1> QED BY <1>1, InductiveInvariant, PTL

-----------------------------------------------------------------------------
(* What a step may never do.                                               *)

(* A move by a holder, while the token has no agent (hence no fee module).  *)
LEMMA HolderMoveUnforced ==
  ASSUME IInv, ~overflowed, agents = {},
         NEW from \in Wallets, NEW to \in Wallets, NEW covered \in Amounts,
         NEW answer \in Answers, HolderMove(from, to, covered, answer),
         covered <= balances[from] - frozenTokens[from]
  PROVE  /\ frozenTokens' = frozenTokens
         /\ \A w \in Wallets :
              /\ paused \/ w \in frozen => balances'[w] = balances[w]
              /\ balances'[w] < balances[w] => balances'[w] >= frozenTokens[w]
<1>1. answer.fee = 0
  BY AnswerType DEF HolderMove, FeeAllowed
<1>2. PICK led \in Ledger :
        /\ SetLedger(led)
        /\ LedgerFits(led, totalSupply)
        /\ from # to => led.bal[from] + covered >= balances[from]
        /\ from = to => led.bal[from] = balances[from]
        /\ led.frozen = frozenTokens
        /\ \A x \in Wallets \ {from, to} : led.bal[x] = balances[x]
        /\ to # from => led.bal[to] >= balances[to]
  BY <1>1, HolderMoveLedger
<1>3. balances' = led.bal /\ frozenTokens' = frozenTokens
  BY <1>2 DEF SetLedger
<1>4. ~paused /\ frozen \cap {from, to} = {}
  BY DEF HolderMove
<1>5. /\ \A w \in Wallets : balances[w] \in Nat /\ frozenTokens[w] \in Nat /\ led.bal[w] \in Nat
      /\ covered \in Nat
  BY AmountsAreNat DEF IInv, TypeOK, Ledger
<1>6. ASSUME NEW w \in Wallets
      PROVE  /\ paused \/ w \in frozen => balances'[w] = balances[w]
             /\ balances'[w] < balances[w] => balances'[w] >= frozenTokens[w]
  <2>1. CASE w \notin {from, to}
    BY <1>2, <1>3, <1>5, <2>1
  <2>2. CASE w = from /\ from # to
    BY <1>2, <1>3, <1>4, <1>5, <2>2
  <2>3. CASE w = from /\ from = to
    BY <1>2, <1>3, <1>5, <2>3
  <2>4. CASE w = to /\ from # to
    BY <1>2, <1>3, <1>4, <1>5, <2>4
  <2> QED BY <2>1, <2>2, <2>3, <2>4
<1> QED BY <1>3, <1>6

LEMMA AgentStepNeedsAgent == AgentStep => OnlyAgent
<1> USE DEF AgentStep
<1>1. Pause \/ Unpause => OnlyAgent
  BY DEF Pause, Unpause
<1>2. \A w, amount : Burn(w, amount) => OnlyAgent
  BY DEF Burn
<1>3. \A w, amount : FreezePartialTokens(w, amount) => OnlyAgent
  BY DEF FreezePartialTokens
<1>4. \A w, amount : UnfreezePartialTokens(w, amount) => OnlyAgent
  BY DEF UnfreezePartialTokens
<1>5. \A w, amount, answer : Mint(w, amount, answer) => OnlyAgent
  BY DEF Mint
<1>6. \A w, to, amount, answer : ForcedTransfer(w, to, amount, answer) => OnlyAgent
  BY DEF ForcedTransfer
<1>7. \A w, freeze : SetAddressFrozen(w, freeze) => OnlyAgent
  BY DEF SetAddressFrozen
<1>8. \A lost, new, valid, answer : RecoverAddress(lost, new, valid, answer) => OnlyAgent
  BY DEF RecoverAddress
<1> QED BY <1>1, <1>2, <1>3, <1>4, <1>5, <1>6, <1>7, <1>8

LEMMA UnforcedStep ==
  ASSUME IInv, [Next]_vars, agents = {}, ~overflowed
  PROVE  /\ UNCHANGED <<totalSupply, frozenTokens, frozen>>
         /\ \A w \in Wallets :
              /\ paused \/ w \in frozen => balances'[w] = balances[w]
              /\ balances'[w] < balances[w] => balances'[w] >= frozenTokens[w]
<1>1. CASE HolderStep
  <2>1. PICK from \in Wallets, to \in Wallets, amount \in Amounts, answer \in Answers :
          \/ Transfer(from, to, amount, answer)
          \/ \E s \in Spenders : TransferFrom(s, from, to, amount, answer)
    BY <1>1 DEF HolderStep
  <2>2. UNCHANGED <<totalSupply, frozen>>
    BY <2>1 DEF Transfer, TransferFrom
  <2>3. PICK covered \in Amounts :
          /\ HolderMove(from, to, covered, answer)
          /\ covered <= balances[from] - frozenTokens[from]
    <3>1. CASE Transfer(from, to, amount, answer)
      <4> DEFINE c == Select(amount <= FreeTokens(Current, from), amount, 0)
      <4>1. c \in Amounts /\ c <= balances[from] - frozenTokens[from]
        BY CoveredByHolder
      <4>2. HolderMove(from, to, c, answer)
        BY <3>1 DEF Transfer
      <4> QED BY <4>1, <4>2
    <3>2. ASSUME NEW s \in Spenders, TransferFrom(s, from, to, amount, answer)
          PROVE  \E covered \in Amounts :
                   /\ HolderMove(from, to, covered, answer)
                   /\ covered <= balances[from] - frozenTokens[from]
      <4> DEFINE enough == Spendable(s, from, amount)
                 c == Select(enough, amount, 0)
      <4>1. c \in Amounts /\ c <= balances[from] - frozenTokens[from]
        BY CoveredByHolder DEF Spendable
      <4>2. HolderMove(from, to, c, answer)
        BY <3>2 DEF TransferFrom
      <4> QED BY <4>1, <4>2
    <3> QED BY <2>1, <3>1, <3>2
  <2> QED BY <2>2, <2>3, HolderMoveUnforced
<1>2. CASE AgentStep
  <2>1. OnlyAgent
    BY <1>2, AgentStepNeedsAgent
  <2> QED BY <2>1 DEF OnlyAgent
<1>3. ASSUME UNCHANGED <<balances, frozenTokens, totalSupply, frozen>>
      PROVE  /\ UNCHANGED <<totalSupply, frozenTokens, frozen>>
             /\ \A w \in Wallets :
                  /\ paused \/ w \in frozen => balances'[w] = balances[w]
                  /\ balances'[w] < balances[w] => balances'[w] >= frozenTokens[w]
  <2>1. \A w \in Wallets : balances[w] \in Nat
    BY AmountsAreNat DEF IInv, TypeOK
  <2> QED BY <1>3, <2>1
<1>4. CASE AllowanceStep
  BY <1>3, <1>4 DEF AllowanceStep, Approve, IncreaseAllowance, DecreaseAllowance,
       SetAllowance, ledgerVars
<1>5. CASE RegistryStep
  BY <1>3, <1>5 DEF RegistryStep, DeleteIdentity, ClaimsChange, RegisterIdentity,
       SetIdentityRegistry, ledgerVars
<1>6. CASE RoleStep
  BY <1>3, <1>6 DEF RoleStep, AddAgent, RemoveAgent, ledgerVars
<1>7. CASE UNCHANGED vars
  BY <1>3, <1>7 DEF vars
<1> QED BY <1>1, <1>2, <1>4, <1>5, <1>6, <1>7 DEF Next

(* Nothing but an agent can move tokens that are paused or frozen, release   *)
(* frozen tokens, or change the supply.                                      *)
THEOREM HoldersRespectFreezes == Spec => WithoutAgentNothingIsForced
<1>1. IInv /\ [Next]_vars =>
        [agents = {} /\ ~overflowed =>
          /\ UNCHANGED <<totalSupply, frozenTokens, frozen>>
          /\ \A w \in Wallets :
               /\ paused \/ w \in frozen => balances'[w] = balances[w]
               /\ balances'[w] < balances[w] => balances'[w] >= frozenTokens[w]]_vars
  BY UnforcedStep
<1> QED BY <1>1, InductiveInvariant, PTL DEF Spec, WithoutAgentNothingIsForced

(* The partial freeze that follows the forced transfer of a recovery always  *)
(* finds the tokens it freezes: they have just arrived, and are not frozen.  *)
LEMMA RecoveryStep ==
  ASSUME IInv, ~overflowed, NEW lost \in Wallets, NEW new \in Wallets, NEW valid \in BOOLEAN,
         NEW answer \in Answers, RecoverAddress(lost, new, valid, answer),
         balances'[lost] < balances[lost]
  PROVE  /\ frozenTokens'[new] >= frozenTokens[lost]
         /\ lost \in frozen => new \in frozen'
<1> DEFINE known     == IF valid THEN verified \cup {new} ELSE verified
           tokens    == balances[lost]
           frozenAmt == IF tokens = 0 THEN 0 ELSE frozenTokens[lost]
           moved     == ForcedMove(Current, known, lost, new, tokens, answer)
           led       == FrozenMore(moved, new, frozenAmt)
<1>0. Current \in Ledger /\ Current.bal = balances /\ Current.frozen = frozenTokens
  BY CurrentType DEF IInv
<1>1. /\ tokens \in Amounts /\ frozenAmt \in Amounts
      /\ tokens \in Nat /\ frozenTokens[lost] \in Nat
  BY AmountsAreNat, WordSizeAssumption DEF IInv, TypeOK, Amounts
<1>2. LedgerFits(Current, totalSupply) /\ totalSupply \in Amounts
  BY DEF IInv, TypeOK
<1>3. PICK u : FeeAllowed(lost, new, answer, u)
  BY DEF RecoverAddress
<1>4. lost # new
  BY DEF RecoverAddress
<1>5. Covered(Current, lost, tokens) = tokens
  BY <1>0, <1>1 DEF Covered, Select
<1>6. /\ LedgerFits(moved, totalSupply)
      /\ moved.bal[lost] # balances[lost] => moved.frozen[new] + tokens <= moved.bal[new]
  <2> HIDE DEF known, tokens
  <2> QED BY <1>0, <1>1, <1>2, <1>3, <1>4, <1>5, ForcedMoveFits
<1>7. SetLedger(led)
  BY DEF RecoverAddress
<1>8. /\ led.bal = moved.bal
      /\ moved.frozen[new] + frozenAmt <= moved.bal[new]
           => led.frozen[new] = moved.frozen[new] + frozenAmt
  <2> HIDE DEF moved, frozenAmt
  <2> QED BY <1>1, <1>2, <1>6, FrozenMoreFits
<1>9. balances' = led.bal /\ frozenTokens' = led.frozen
  BY <1>7 DEF SetLedger
<1>10. /\ moved.frozen[new] \in Nat /\ moved.bal[new] \in Nat /\ moved.bal[lost] \in Nat
       /\ frozenTokens[lost] <= balances[lost]
  <2> HIDE DEF moved
  <2> QED BY <1>0, <1>2, <1>6, FitsType
<1>11. balances'[lost] = moved.bal[lost] /\ moved.bal[lost] # balances[lost]
  <2> HIDE DEF moved, led
  <2> QED BY <1>1, <1>8, <1>9, <1>10 DEF tokens
<1>12. frozenAmt = frozenTokens[lost]
  <2> HIDE DEF moved, led
  <2> QED BY <1>1, <1>10, <1>11
<1>13. frozenTokens'[new] >= frozenTokens[lost]
  <2> HIDE DEF moved, led, frozenAmt
  <2> QED BY <1>1, <1>6, <1>8, <1>9, <1>10, <1>11, <1>12
<1>14. lost \in frozen => new \in frozen'
  BY DEF RecoverAddress
<1> QED BY <1>13, <1>14

(* A recovery that takes the tokens away takes the freezes along.           *)
THEOREM FreezeSurvivesRecovery == Spec => RecoveryCarriesFreeze
<1>1. IInv /\ [Next]_vars =>
        [\A lost, new \in Wallets :
           /\ ~overflowed
           /\ balances'[lost] < balances[lost]
           /\ \E valid \in BOOLEAN, answer \in Answers : RecoverAddress(lost, new, valid, answer)
           => /\ frozenTokens'[new] >= frozenTokens[lost]
              /\ lost \in frozen => new \in frozen']_vars
  BY RecoveryStep
<1> QED BY <1>1, InductiveInvariant, PTL DEF Spec, RecoveryCarriesFreeze

-----------------------------------------------------------------------------
(* What still holds after a mint has overflowed.                            *)

(* Two sums that differ by a number of whole words.                         *)
Congruent(x, y) == \E k \in Int : x = y + k * WordSize

LEMMA CongruentShift ==
  ASSUME NEW x \in Int, NEW y \in Int
  PROVE  /\ Congruent(x, x)
         /\ y \in {x, x - WordSize, x + WordSize} => Congruent(y, x)
<1>1. WordSize \in Int
  BY WordSizeAssumption
<1>2. x = x + 0 * WordSize
  BY <1>1
<1>3. x - WordSize = x + (-1) * WordSize
  BY <1>1
<1>4. x + WordSize = x + 1 * WordSize
  BY <1>1
<1>5. 0 \in Int /\ 1 \in Int /\ (-1) \in Int
  OBVIOUS
<1> QED BY <1>2, <1>3, <1>4, <1>5 DEF Congruent

LEMMA CongruentSum ==
  ASSUME NEW a \in Int, NEW b \in Int, NEW c \in Int, NEW d \in Int,
         Congruent(a, b), Congruent(c, d)
  PROVE  /\ Congruent(a + c, b + d)
         /\ Congruent(a - c, b - d)
<1>1. PICK k \in Int : a = b + k * WordSize
  BY DEF Congruent
<1>2. PICK j \in Int : c = d + j * WordSize
  BY DEF Congruent
<1>3. WordSize \in Int /\ k + j \in Int /\ k - j \in Int
  BY WordSizeAssumption
<1>4. (k + j) * WordSize = k * WordSize + j * WordSize
  BY <1>3
<1>5. (k - j) * WordSize = k * WordSize - j * WordSize
  BY <1>3
<1>6. k * WordSize \in Int /\ j * WordSize \in Int
  BY <1>3
<1>7. a + c = b + d + (k + j) * WordSize /\ a - c = b - d + (k - j) * WordSize
  BY <1>1, <1>2, <1>4, <1>5, <1>6
<1> QED BY <1>3, <1>7 DEF Congruent

LEMMA CongruentTrans ==
  ASSUME NEW a \in Int, NEW b \in Int, NEW c \in Int, Congruent(a, b), Congruent(b, c)
  PROVE  Congruent(a, c)
<1>1. Congruent(a + b, b + c)
  BY CongruentSum
<1>2. Congruent((a + b) - b, (b + c) - b)
  BY <1>1, CongruentShift, CongruentSum
<1> QED BY <1>2

LEMMA CongruentSym ==
  ASSUME NEW a \in Int, NEW b \in Int, Congruent(a, b)
  PROVE  Congruent(b, a)
<1>1. PICK k \in Int : a = b + k * WordSize
  BY DEF Congruent
<1>2. b = a + (-k) * WordSize /\ -k \in Int
  BY <1>1, WordSizeAssumption
<1> QED BY <1>2 DEF Congruent

(* Words are added and subtracted modulo the word.                          *)
LEMMA WordModulo ==
  ASSUME NEW a \in Amounts, NEW b \in Amounts
  PROVE  /\ AddWord(a, b) \in {a + b, a + b - WordSize}
         /\ SubWord(a, b) \in {a - b, a - b + WordSize}
BY DEF AddWord, SubWord

(* An amount that is congruent to a sum is its remainder.                   *)
LEMMA CongruentRemainder ==
  ASSUME NEW x \in Nat, NEW y \in Amounts, Congruent(x, y)
  PROVE  x % WordSize = y
<1>1. PICK k \in Int : x = y + k * WordSize
  BY DEF Congruent
<1>2. y \in Nat /\ y < WordSize /\ WordSize \in Nat /\ WordSize > 0
  BY WordSizeAssumption DEF Amounts
<1> DEFINE q == x \div WordSize
           r == x % WordSize
<1>3. q \in Int /\ r \in 0 .. WordSize - 1 /\ x = q * WordSize + r
  BY <1>2
<1> HIDE DEF q, r
<1>4. (k - q) * WordSize = k * WordSize - q * WordSize
  BY <1>2, <1>3
<1>5. (k - q) * WordSize = r - y
  <2>1. k * WordSize \in Int /\ q * WordSize \in Int
    BY <1>2, <1>3
  <2> QED BY <1>1, <1>2, <1>3, <1>4, <2>1
<1>6. k - q < 1
  <2>1. SUFFICES ASSUME k - q >= 1 PROVE FALSE
    BY <1>3
  <2>2. (k - q) * WordSize >= 1 * WordSize
    BY <1>2, <1>3, <2>1
  <2> QED BY <1>2, <1>3, <1>5, <2>2
<1>7. k - q > -1
  <2>1. SUFFICES ASSUME k - q <= -1 PROVE FALSE
    BY <1>3
  <2>2. (k - q) * WordSize <= (-1) * WordSize
    BY <1>2, <1>3, <2>1
  <2> QED BY <1>2, <1>3, <1>5, <2>2
<1>8. k = q
  BY <1>3, <1>6, <1>7
<1>9. r = y
  BY <1>1, <1>2, <1>3, <1>8
<1> QED BY <1>9 DEF r

(* Moving any amount, covered or not, keeps the sum modulo the word.         *)
LEMMA MovedModulo ==
  ASSUME NEW bal \in [Wallets -> Amounts], NEW from \in Wallets, NEW to \in Wallets,
         NEW v \in Amounts
  PROVE  Congruent(Total(Moved(bal, from, to, v)), Total(bal))
<1> DEFINE x == AddWord(bal[to], v)
           credited == [bal EXCEPT ![to] = x]
           y == SubWord(credited[from], v)
           m == [credited EXCEPT ![from] = y]
<1>1. x \in Amounts /\ x \in {bal[to] + v, bal[to] + v - WordSize} /\ bal[to] \in Amounts
  BY WordClosed, WordModulo
<1>2. credited \in [Wallets -> Amounts]
  <2> HIDE DEF x
  <2> QED BY <1>1
<1>3. y \in Amounts /\ y \in {credited[from] - v, credited[from] - v + WordSize}
      /\ credited[from] \in Amounts
  <2> HIDE DEF credited
  <2> QED BY <1>2, WordClosed, WordModulo
<1>4. Total(credited) = Total(bal) - bal[to] + x /\ Total(bal) \in Nat
  <2> HIDE DEF x
  <2> QED BY <1>1, TotalOfUpdate
<1>5. Total(m) = Total(credited) - credited[from] + y /\ Total(credited) \in Nat
  <2> HIDE DEF credited, y
  <2> QED BY <1>2, <1>3, TotalOfUpdate
<1>6. Total(m) \in {Total(bal), Total(bal) - WordSize, Total(bal) + WordSize}
  <2> HIDE DEF credited, x, y, m
  <2>1. /\ v \in Nat /\ x \in Nat /\ y \in Nat /\ bal[to] \in Nat /\ credited[from] \in Nat
        /\ WordSize \in Nat
    BY <1>1, <1>3, AmountsAreNat, WordSizeAssumption
  <2> QED BY <1>1, <1>3, <1>4, <1>5, <2>1
<1>7. Total(m) \in Int /\ Total(bal) \in Int
  <2> HIDE DEF m
  <2> QED BY <1>4, <1>6, WordSizeAssumption
<1>8. Moved(bal, from, to, v) = m
  BY DEF Moved
<1> HIDE DEF m
<1> QED BY <1>6, <1>7, <1>8, CongruentShift

(* So does a fee, and a forced transfer with a fee in its middle.           *)
LEMMA FeeTakenModulo ==
  ASSUME NEW led \in Ledger, NEW known, NEW to \in Wallets, NEW answer \in Answers
  PROVE  Congruent(Total(FeeTaken(led, known, to, answer).bal), Total(led.bal))
<1> DEFINE v == Covered(led, to, answer.fee)
           r == Released(led, to, v)
           paid == Select(answer.feeDone, v, 0)
           m == Moved(r.bal, to, Collector, paid)
           d == [r EXCEPT !.bal = m]
<1>1. v \in Amounts
  BY AnswerType, CoveredType
<1>2. paid \in Amounts
  <2> HIDE DEF v
  <2> QED BY <1>1, SelectType
<1>3. r \in Ledger /\ r.bal = led.bal /\ led.bal \in [Wallets -> Amounts]
  <2> HIDE DEF v
  <2> QED BY <1>1, ReleasedType DEF Ledger
<1>4. m \in [Wallets -> Amounts] /\ Congruent(Total(m), Total(led.bal))
  <2> HIDE DEF r, paid
  <2> QED BY <1>2, <1>3, TokenAssumption, MovedType, MovedModulo
<1>5. d.bal = m
  <2> HIDE DEF r, m
  <2> QED BY <1>3, <1>4, SetBal
<1>6. FeeTaken(led, known, to, answer) = IF Collector \in known THEN d ELSE r
  BY DEF FeeTaken
<1>7. Congruent(Total(led.bal), Total(led.bal))
  BY <1>3, TotalOfUpdate, CongruentShift, WordClosed, TokenAssumption
<1> HIDE DEF d, r, m
<1> QED BY <1>3, <1>4, <1>5, <1>6, <1>7

LEMMA BalTotal ==
  ASSUME NEW led \in Ledger
  PROVE  led.bal \in [Wallets -> Amounts] /\ Total(led.bal) \in Int
<1>1. led.bal \in [Wallets -> Amounts]
  BY DEF Ledger
<1>2. led.bal \in [Wallets -> Nat]
  BY <1>1, AmountsAreNat
<1> QED BY <1>1, <1>2, TotalNat

LEMMA ForcedMoveModulo ==
  ASSUME NEW led \in Ledger, NEW known, NEW from \in Wallets, NEW to \in Wallets,
         NEW amount \in Amounts, NEW answer \in Answers
  PROVE  Congruent(Total(ForcedMove(led, known, from, to, amount, answer).bal), Total(led.bal))
<1> DEFINE v == Covered(led, from, amount)
           r == Released(led, from, v)
           c == FeeTaken(r, known, to, answer)
           moved == Select(answer.done, v, 0)
           m == Moved(c.bal, from, to, moved)
           d == [c EXCEPT !.bal = m]
<1>1. v \in Amounts
  BY CoveredType
<1>2. moved \in Amounts
  <2> HIDE DEF v
  <2> QED BY <1>1, SelectType
<1>3. r \in Ledger /\ r.bal = led.bal
  <2> HIDE DEF v
  <2> QED BY <1>1, ReleasedType
<1>4. c \in Ledger /\ Congruent(Total(c.bal), Total(led.bal))
  <2> HIDE DEF r
  <2> QED BY <1>3, FeeTakenType, FeeTakenModulo
<1>5. m \in [Wallets -> Amounts] /\ Congruent(Total(m), Total(c.bal))
  <2> HIDE DEF c, moved
  <2> QED BY <1>2, <1>4, BalTotal, MovedType, MovedModulo
<1>6. d \in Ledger /\ d.bal = m
  <2> HIDE DEF c, m
  <2> QED BY <1>4, <1>5, SetBal
<1>7. ForcedMove(led, known, from, to, amount, answer) = IF to \in known THEN d ELSE r
  BY DEF ForcedMove
<1>8. Total(d.bal) \in Int /\ Total(c.bal) \in Int /\ Total(led.bal) \in Int
  <2> HIDE DEF d, c
  <2> QED BY <1>4, <1>6, BalTotal
<1> HIDE DEF d, c, r, m
<1>9. Congruent(Total(d.bal), Total(led.bal)) /\ Congruent(Total(led.bal), Total(led.bal))
  BY <1>4, <1>5, <1>6, <1>8, CongruentTrans, CongruentShift
<1> QED BY <1>3, <1>7, <1>9

LEMMA HolderMoveModulo ==
  ASSUME TypeOK, NEW from \in Wallets, NEW to \in Wallets, NEW covered \in Amounts,
         NEW answer \in Answers, HolderMove(from, to, covered, answer)
  PROVE  Congruent(Total(balances'), Total(balances)) /\ Total(balances') \in Int
<1> DEFINE v == Select(answer.can, covered, 0)
           c == FeeTaken(Current, verified, to, answer)
           moved == Select(answer.done, v, 0)
           m == Moved(c.bal, from, to, moved)
           d == [c EXCEPT !.bal = m]
<1>0. Current \in Ledger /\ Current.bal = balances
  BY CurrentType
<1>1. v \in Amounts
  BY SelectType
<1>2. moved \in Amounts
  <2> HIDE DEF v
  <2> QED BY <1>1, SelectType
<1>4. c \in Ledger /\ Congruent(Total(c.bal), Total(balances))
  BY <1>0, FeeTakenType, FeeTakenModulo
<1>5. m \in [Wallets -> Amounts] /\ Congruent(Total(m), Total(c.bal))
  <2> HIDE DEF c, moved
  <2> QED BY <1>2, <1>4, BalTotal, MovedType, MovedModulo
<1>6. d \in Ledger /\ d.bal = m
  <2> HIDE DEF c, m
  <2> QED BY <1>4, <1>5, SetBal
<1>7. balances' = d.bal
  BY DEF HolderMove, SetLedger
<1>8. Total(d.bal) \in Int /\ Total(c.bal) \in Int /\ Total(balances) \in Int
  <2> HIDE DEF d, c
  <2> QED BY <1>0, <1>4, <1>6, BalTotal
<1> HIDE DEF d, c, m
<1> QED BY <1>4, <1>5, <1>6, <1>7, <1>8, CongruentTrans

(* A word that is added to, or taken from, a balance and the supply alike.   *)
LEMMA SupplyAndBalance ==
  ASSUME TypeOK, NEW w \in Wallets, NEW v \in Amounts,
         \/ /\ balances' = [balances EXCEPT ![w] = AddWord(balances[w], v)]
            /\ totalSupply' = AddWord(totalSupply, v)
         \/ /\ balances' = [balances EXCEPT ![w] = SubWord(balances[w], v)]
            /\ totalSupply' = SubWord(totalSupply, v),
         Congruent(Total(balances), totalSupply)
  PROVE  Congruent(Total(balances'), totalSupply')
<1> DEFINE b == balances'[w]
<1>1. balances \in [Wallets -> Amounts] /\ balances[w] \in Amounts /\ totalSupply \in Amounts
  BY DEF TypeOK
<1>2. /\ b \in Amounts /\ totalSupply' \in Amounts
      /\ balances' = [balances EXCEPT ![w] = b]
  BY <1>1, WordClosed
<1>3. \/ /\ b \in {balances[w] + v, balances[w] + v - WordSize}
         /\ totalSupply' \in {totalSupply + v, totalSupply + v - WordSize}
      \/ /\ b \in {balances[w] - v, balances[w] - v + WordSize}
         /\ totalSupply' \in {totalSupply - v, totalSupply - v + WordSize}
  BY <1>1, WordModulo
<1> HIDE DEF b
<1>4. /\ Total(balances') = Total(balances) - balances[w] + b
      /\ Total(balances) \in Nat
  BY <1>1, <1>2, TotalOfUpdate
<1>5. /\ v \in Nat /\ balances[w] \in Nat /\ b \in Nat /\ totalSupply \in Nat /\ totalSupply' \in Nat
      /\ WordSize \in Nat
  BY <1>1, <1>2, AmountsAreNat, WordSizeAssumption
<1>6. PICK u \in Int : /\ Congruent(Total(balances'), Total(balances) + u)
                       /\ Congruent(totalSupply', totalSupply + u)
  <2>1. ASSUME NEW u \in {v, -v},
               b \in {balances[w] + u, balances[w] + u - WordSize, balances[w] + u + WordSize},
               totalSupply' \in {totalSupply + u, totalSupply + u - WordSize,
                                 totalSupply + u + WordSize}
        PROVE  /\ u \in Int
               /\ Congruent(Total(balances'), Total(balances) + u)
               /\ Congruent(totalSupply', totalSupply + u)
    <3>1. u \in Int /\ Total(balances) + u \in Int /\ totalSupply + u \in Int
          /\ Total(balances') \in Int
      BY <1>4, <1>5
    <3>2. Total(balances') \in {Total(balances) + u, Total(balances) + u - WordSize,
                                Total(balances) + u + WordSize}
      BY <1>4, <1>5, <2>1, <3>1
    <3>3. ASSUME NEW x \in Int, NEW y \in Int, y \in {x, x - WordSize, x + WordSize}
          PROVE  Congruent(y, x)
      BY <3>3, CongruentShift, Zenon
    <3>4. totalSupply' \in Int
      BY <1>5
    <3> DEFINE s == Total(balances) + u
               z == totalSupply + u
    <3>5. Congruent(Total(balances'), s) /\ Congruent(totalSupply', z)
      <4>1. s \in Int /\ Total(balances') \in {s, s - WordSize, s + WordSize}
        BY <1>4, <1>5, <3>1, <3>2
      <4>2. z \in Int /\ totalSupply' \in {z, z - WordSize, z + WordSize}
        BY <1>5, <2>1, <3>1
      <4> HIDE DEF s, z
      <4> QED BY <3>1, <3>3, <3>4, <4>1, <4>2
    <3> QED BY <3>1, <3>5
  <2> QED BY <1>3, <1>5, <2>1
<1>7. Congruent(Total(balances) + u, totalSupply + u)
  BY <1>4, <1>5, CongruentShift, CongruentSum
<1>8. Congruent(totalSupply + u, totalSupply')
  BY <1>5, <1>6, CongruentSym
<1> QED BY <1>4, <1>5, <1>6, <1>7, <1>8, CongruentTrans

LEMMA SupplyKept ==
  ASSUME TypeOK, Congruent(Total(balances), totalSupply), UNCHANGED totalSupply,
         Congruent(Total(balances'), Total(balances)), Total(balances') \in Int
  PROVE  Congruent(Total(balances'), totalSupply')
<1>1. Total(balances) \in Int /\ totalSupply \in Int
  BY CurrentType, BalTotal, AmountsAreNat DEF TypeOK
<1> QED BY <1>1, CongruentTrans

LEMMA BalancesKept ==
  ASSUME Congruent(Total(balances), totalSupply), UNCHANGED <<balances, totalSupply>>
  PROVE  Congruent(Total(balances'), totalSupply')
OBVIOUS

LEMMA HolderStepModulo ==
  ASSUME TypeOK, Congruent(Total(balances), totalSupply), HolderStep
  PROVE  Congruent(Total(balances'), totalSupply')
<1>1. PICK from \in Wallets, to \in Wallets, answer \in Answers, covered \in Amounts :
        HolderMove(from, to, covered, answer)
  BY SelectType DEF HolderStep, Transfer, TransferFrom
<1>2. UNCHANGED totalSupply
  BY DEF HolderStep, Transfer, TransferFrom
<1> QED BY <1>1, <1>2, HolderMoveModulo, SupplyKept

LEMMA MintModulo ==
  ASSUME TypeOK, Congruent(Total(balances), totalSupply), NEW to \in Wallets,
         NEW amount \in Amounts, NEW answer \in Answers, Mint(to, amount, answer)
  PROVE  Congruent(Total(balances'), totalSupply')
<1> DEFINE v == Select(answer.can /\ answer.done, amount, 0)
<1>1. v \in Amounts
  BY SelectType
<1>2. /\ balances' = [balances EXCEPT ![to] = AddWord(balances[to], v)]
      /\ totalSupply' = AddWord(totalSupply, v)
  BY DEF Mint
<1> HIDE DEF v
<1> QED BY <1>1, <1>2, SupplyAndBalance

LEMMA BurnModulo ==
  ASSUME TypeOK, Congruent(Total(balances), totalSupply), NEW w \in Wallets,
         NEW amount \in Amounts, Burn(w, amount)
  PROVE  Congruent(Total(balances'), totalSupply')
<1> DEFINE v == Covered(Current, w, amount)
           r == Released(Current, w, v)
           b == [r.bal EXCEPT ![w] = SubWord(r.bal[w], v)]
           d == [r EXCEPT !.bal = b]
<1>0. Current \in Ledger /\ Current.bal = balances /\ balances \in [Wallets -> Amounts]
  BY CurrentType DEF TypeOK
<1>1. v \in Amounts
  BY <1>0, CoveredType
<1>2. r \in Ledger /\ r.bal = balances
  <2> HIDE DEF v
  <2> QED BY <1>0, <1>1, ReleasedType
<1>3. b = [balances EXCEPT ![w] = SubWord(balances[w], v)]
  <2> HIDE DEF r, v
  <2> QED BY <1>2
<1>4. b \in [Wallets -> Amounts]
  <2> HIDE DEF b, v
  <2> QED BY <1>0, <1>1, <1>3, WordClosed
<1>5. d.bal = b
  <2> HIDE DEF r, b
  <2> QED BY <1>2, <1>4, SetBal
<1>6. balances' = d.bal /\ totalSupply' = SubWord(totalSupply, v)
  BY DEF Burn, SetLedger
<1> HIDE DEF d, b, v
<1> QED BY <1>1, <1>3, <1>5, <1>6, SupplyAndBalance

LEMMA ForcedTransferModulo ==
  ASSUME TypeOK, Congruent(Total(balances), totalSupply), NEW from \in Wallets,
         NEW to \in Wallets, NEW amount \in Amounts, NEW answer \in Answers,
         ForcedTransfer(from, to, amount, answer)
  PROVE  Congruent(Total(balances'), totalSupply')
<1> DEFINE led == ForcedMove(Current, verified, from, to, amount, answer)
<1>1. led \in Ledger /\ Congruent(Total(led.bal), Total(balances))
  BY CurrentType, ForcedMoveType, ForcedMoveModulo
<1>2. balances' = led.bal /\ UNCHANGED totalSupply
  BY DEF ForcedTransfer, SetLedger
<1> HIDE DEF led
<1> QED BY <1>1, <1>2, BalTotal, SupplyKept

LEMMA RecoverAddressModulo ==
  ASSUME TypeOK, Congruent(Total(balances), totalSupply), NEW lost \in Wallets,
         NEW new \in Wallets, NEW valid \in BOOLEAN, NEW answer \in Answers,
         RecoverAddress(lost, new, valid, answer)
  PROVE  Congruent(Total(balances'), totalSupply')
<1> DEFINE known     == IF valid THEN verified \cup {new} ELSE verified
           tokens    == balances[lost]
           frozenAmt == IF tokens = 0 THEN 0 ELSE frozenTokens[lost]
           moved     == ForcedMove(Current, known, lost, new, tokens, answer)
           led       == FrozenMore(moved, new, frozenAmt)
<1>0. Current \in Ledger /\ Current.bal = balances
  BY CurrentType
<1>1. tokens \in Amounts /\ frozenAmt \in Amounts
  BY WordSizeAssumption DEF TypeOK, Amounts
<1>2. moved \in Ledger /\ Congruent(Total(moved.bal), Total(balances))
  <2> HIDE DEF known, tokens
  <2> QED BY <1>0, <1>1, ForcedMoveType, ForcedMoveModulo
<1>3. led.bal = moved.bal
  <2> HIDE DEF moved, frozenAmt
  <2> QED BY <1>2 DEF FrozenMore, Ledger
<1>4. balances' = led.bal /\ UNCHANGED totalSupply
  BY DEF RecoverAddress, SetLedger
<1> HIDE DEF led, moved
<1> QED BY <1>2, <1>3, <1>4, BalTotal, SupplyKept

LEMMA AgentStepModulo ==
  ASSUME TypeOK, Congruent(Total(balances), totalSupply), AgentStep
  PROVE  Congruent(Total(balances'), totalSupply')
<1>1. ASSUME UNCHANGED <<balances, totalSupply>> PROVE Congruent(Total(balances'), totalSupply')
  BY <1>1, BalancesKept
<1>2. CASE Pause \/ Unpause \/ \E w \in Wallets, freeze \in BOOLEAN : SetAddressFrozen(w, freeze)
  BY <1>1, <1>2 DEF Pause, Unpause, SetAddressFrozen, ledgerVars
<1>3. ASSUME NEW w \in Wallets, NEW amount \in Amounts,
             FreezePartialTokens(w, amount) \/ UnfreezePartialTokens(w, amount)
      PROVE  Congruent(Total(balances'), totalSupply')
  <2>1. FrozenMore(Current, w, amount).bal = balances
    BY CurrentType DEF FrozenMore, Ledger
  <2>2. UNCHANGED <<balances, totalSupply>>
    BY <1>3, <2>1 DEF FreezePartialTokens, UnfreezePartialTokens, SetLedger
  <2> QED BY <1>1, <2>2
<1> QED BY <1>2, <1>3, MintModulo, BurnModulo, ForcedTransferModulo, RecoverAddressModulo
        DEF AgentStep

LEMMA NextModulo ==
  ASSUME TypeOK, Congruent(Total(balances), totalSupply), [Next]_vars
  PROVE  Congruent(Total(balances'), totalSupply')
<1>1. ASSUME UNCHANGED <<balances, totalSupply>> PROVE Congruent(Total(balances'), totalSupply')
  BY <1>1, BalancesKept
<1>2. CASE HolderStep
  BY <1>2, HolderStepModulo
<1>3. CASE AgentStep
  BY <1>3, AgentStepModulo
<1>4. CASE AllowanceStep
  BY <1>1, <1>4 DEF AllowanceStep, Approve, IncreaseAllowance, DecreaseAllowance, SetAllowance
<1>5. CASE RegistryStep
  BY <1>1, <1>5 DEF RegistryStep, DeleteIdentity, ClaimsChange, RegisterIdentity,
                    SetIdentityRegistry, ledgerVars
<1>6. CASE RoleStep
  BY <1>1, <1>6 DEF RoleStep, AddAgent, RemoveAgent, ledgerVars
<1>7. CASE UNCHANGED vars
  BY <1>1, <1>7 DEF vars
<1> QED BY <1>2, <1>3, <1>4, <1>5, <1>6, <1>7 DEF Next

(* After a mint has overflowed, the balances still add up to the supply in    *)
(* the arithmetic of words: every operation wraps on both sides alike.       *)
THEOREM SupplyConservedModulo == Spec => []SupplyIsSumModuloWord
<1> DEFINE Mod == Congruent(Total(balances), totalSupply)
<1>1. Init => Mod
  BY TotalZero, CongruentShift DEF Init
<1>2. TypeOK /\ Mod /\ [Next]_vars => Mod'
  BY NextModulo
<1>3. TypeOK /\ Mod => SupplyIsSumModuloWord
  <2> SUFFICES ASSUME TypeOK, Mod PROVE Total(balances) % WordSize = totalSupply
    BY DEF SupplyIsSumModuloWord
  <2>1. Total(balances) \in Nat /\ totalSupply \in Amounts
    BY AmountsAreNat, TotalNat DEF TypeOK
  <2> QED BY <2>1, CongruentRemainder
<1> HIDE DEF Mod
<1> QED BY <1>1, <1>2, <1>3, TypeCorrect, PTL DEF Spec

-----------------------------------------------------------------------------
(* Moves, however large the sums are.                                      *)

(* Without any assumption on sums: a move touches sender and receiver only,  *)
(* moves nothing if it is of zero, and takes no more than its amount.        *)
LEMMA MovedAnyway ==
  ASSUME NEW bal \in [Wallets -> Amounts], NEW from \in Wallets, NEW to \in Wallets,
         NEW v \in Amounts
  PROVE  /\ \A x \in Wallets \ {from, to} : Moved(bal, from, to, v)[x] = bal[x]
         /\ v = 0 => Moved(bal, from, to, v) = bal
         /\ Moved(bal, from, to, v)[from] >= bal[from] - v
<1> DEFINE x == AddWord(bal[to], v)
           credited == [bal EXCEPT ![to] = x]
           y == SubWord(credited[from], v)
           m == [credited EXCEPT ![from] = y]
<1>1. /\ v \in Nat /\ bal[to] \in Amounts /\ bal[from] \in Amounts
      /\ bal[to] \in Nat /\ bal[from] \in Nat
      /\ \A w \in Wallets : bal[w] < WordSize
  BY AmountsAreNat, WordSizeAssumption DEF Amounts
<1>2. y = IF from = to THEN bal[from] ELSE SubWord(bal[from], v)
  <2>1. from = to => credited[from] = x
    OBVIOUS
  <2>2. from # to => credited[from] = bal[from]
    OBVIOUS
  <2> HIDE DEF credited
  <2> QED BY <1>1, <2>1, <2>2, WordExact
<1>3. /\ \A w \in Wallets \ {from, to} : m[w] = bal[w]
      /\ m[from] = y
  <2> HIDE DEF x, y
  <2> QED OBVIOUS
<1>4. v = 0 => x = bal[to] /\ y = bal[from]
  <2> HIDE DEF y
  <2> QED BY <1>1, <1>2, WordSizeAssumption DEF AddWord, SubWord
<1>5. v = 0 => m = bal
  <2> HIDE DEF x, y
  <2> QED BY <1>4
<1>6. y >= bal[from] - v
  <2> HIDE DEF y
  <2> QED BY <1>1, <1>2, WordSizeAssumption DEF SubWord
<1>7. Moved(bal, from, to, v) = m
  BY DEF Moved
<1> HIDE DEF m, y
<1> QED BY <1>3, <1>5, <1>6, <1>7

(* Where the fee leaves the balances.                                       *)
LEMMA FeeTakenBal ==
  ASSUME NEW led \in Ledger, NEW known, NEW to \in Wallets, NEW answer \in Answers
  PROVE  FeeTaken(led, known, to, answer).bal =
           IF Collector \in known
           THEN Moved(led.bal, to, Collector,
                      Select(answer.feeDone, Covered(led, to, answer.fee), 0))
           ELSE led.bal
<1> DEFINE v == Covered(led, to, answer.fee)
           r == Released(led, to, v)
           paid == Select(answer.feeDone, v, 0)
           m == Moved(r.bal, to, Collector, paid)
           d == [r EXCEPT !.bal = m]
<1>1. v \in Amounts
  BY AnswerType, CoveredType
<1>2. paid \in Amounts
  <2> HIDE DEF v
  <2> QED BY <1>1, SelectType
<1>3. r \in Ledger /\ r.bal = led.bal /\ led.bal \in [Wallets -> Amounts]
  <2> HIDE DEF v
  <2> QED BY <1>1, ReleasedType DEF Ledger
<1>4. m \in [Wallets -> Amounts]
  <2> HIDE DEF r, paid
  <2> QED BY <1>2, <1>3, TokenAssumption, MovedType
<1>5. d.bal = m
  <2> HIDE DEF r, m
  <2> QED BY <1>3, <1>4, SetBal
<1>6. FeeTaken(led, known, to, answer) = IF Collector \in known THEN d ELSE r
  BY DEF FeeTaken
<1>7. m = Moved(led.bal, to, Collector, paid)
  BY <1>3
<1> HIDE DEF d, r, m
<1> QED BY <1>3, <1>5, <1>6, <1>7

LEMMA MovedBetween ==
  ASSUME NEW bal \in [Wallets -> Amounts], Total(bal) < WordSize, NEW from \in Wallets,
         NEW to \in Wallets, from # to, NEW v \in Amounts, v <= bal[from]
  PROVE  /\ Moved(bal, from, to, v) \in [Wallets -> Amounts]
         /\ Total(Moved(bal, from, to, v)) = Total(bal)
         /\ Moved(bal, from, to, v)[from] = bal[from] - v
         /\ Moved(bal, from, to, v)[to] = bal[to] + v
         /\ \A w \in Wallets \ {from, to} : Moved(bal, from, to, v)[w] = bal[w]
<1>1. Moved(bal, from, to, v) \in [Wallets -> Amounts]
  BY MovedType
<1>2. /\ Total(Moved(bal, from, to, v)) = Total(bal)
      /\ Moved(bal, from, to, v)[from] = bal[from] - v
      /\ Moved(bal, from, to, v)[to] = bal[to] + v
      /\ \A w \in Wallets \ {from, to} : Moved(bal, from, to, v)[w] = bal[w]
  BY MovedExact
<1> QED BY <1>1, <1>2

(* Where a transfer of a holder leaves the balances.                        *)
LEMMA HolderMoveBal ==
  ASSUME TypeOK, NEW from \in Wallets, NEW to \in Wallets, NEW covered \in Amounts,
         NEW answer \in Answers, HolderMove(from, to, covered, answer)
  PROVE  balances' = Moved(FeeTaken(Current, verified, to, answer).bal, from, to,
                           Select(answer.done, Select(answer.can, covered, 0), 0))
<1> DEFINE v == Select(answer.can, covered, 0)
           s == Select(answer.done, v, 0)
           c == FeeTaken(Current, verified, to, answer)
           m == Moved(c.bal, from, to, s)
           d == [c EXCEPT !.bal = m]
<1>1. v \in Amounts
  BY SelectType
<1>2. s \in Amounts
  <2> HIDE DEF v
  <2> QED BY <1>1, SelectType
<1>3. c \in Ledger /\ c.bal \in [Wallets -> Amounts]
  BY CurrentType, FeeTakenType DEF Ledger
<1>4. m \in [Wallets -> Amounts]
  <2> HIDE DEF c, s
  <2> QED BY <1>2, <1>3, MovedType
<1>5. d.bal = m
  <2> HIDE DEF c, m
  <2> QED BY <1>3, <1>4, SetBal
<1>6. balances' = d.bal
  BY DEF HolderMove, SetLedger
<1> QED BY <1>5, <1>6

(* Where a forced transfer leaves the balances.                             *)
LEMMA ForcedMoveBal ==
  ASSUME NEW led \in Ledger, NEW known, NEW from \in Wallets, NEW to \in Wallets,
         NEW amount \in Amounts, NEW answer \in Answers
  PROVE  \E r \in Ledger :
           /\ r.bal = led.bal
           /\ ForcedMove(led, known, from, to, amount, answer).bal =
                IF to \in known
                THEN Moved(FeeTaken(r, known, to, answer).bal, from, to,
                           Select(answer.done, Covered(led, from, amount), 0))
                ELSE led.bal
<1> DEFINE v == Covered(led, from, amount)
           r == Released(led, from, v)
           c == FeeTaken(r, known, to, answer)
           m == Moved(c.bal, from, to, Select(answer.done, v, 0))
           d == [c EXCEPT !.bal = m]
<1>1. v \in Amounts
  BY CoveredType
<1>2. r \in Ledger /\ r.bal = led.bal
  <2> HIDE DEF v
  <2> QED BY <1>1, ReleasedType
<1>3. c \in Ledger /\ c.bal \in [Wallets -> Amounts]
  <2> HIDE DEF r
  <2> QED BY <1>2, FeeTakenType DEF Ledger
<1>4. m \in [Wallets -> Amounts]
  <2> HIDE DEF c, v
  <2> QED BY <1>1, <1>3, SelectType, MovedType
<1>5. d.bal = m
  <2> HIDE DEF c, m
  <2> QED BY <1>3, <1>4, SetBal
<1>6. ForcedMove(led, known, from, to, amount, answer) = IF to \in known THEN d ELSE r
  BY DEF ForcedMove
<1> HIDE DEF d, r
<1> QED BY <1>2, <1>5, <1>6

LEMMA FrozenMoreBal ==
  ASSUME NEW led \in Ledger, NEW w, NEW amount
  PROVE  FrozenMore(led, w, amount).bal = led.bal
BY DEF FrozenMore, Ledger

(* A fee is taken from the receiver, never from the sender.                 *)
LEMMA FeeTakenAnyway ==
  ASSUME NEW led \in Ledger, NEW known, NEW to \in Wallets, NEW answer \in Answers,
         NEW x \in Wallets, answer.fee = 0 \/ x \notin {to, Collector}
  PROVE  FeeTaken(led, known, to, answer).bal[x] = led.bal[x]
<1> DEFINE v == Covered(led, to, answer.fee)
           r == Released(led, to, v)
           paid == Select(answer.feeDone, v, 0)
           m == Moved(r.bal, to, Collector, paid)
           d == [r EXCEPT !.bal = m]
<1>1. v \in Amounts /\ (answer.fee = 0 => v = 0)
  BY AnswerType, CoveredType DEF Covered, Select
<1>2. paid \in Amounts /\ (v = 0 => paid = 0)
  <2> HIDE DEF v
  <2> QED BY <1>1, SelectType DEF Select
<1>3. r \in Ledger /\ r.bal = led.bal /\ led.bal \in [Wallets -> Amounts]
  <2> HIDE DEF v
  <2> QED BY <1>1, ReleasedType DEF Ledger
<1>4. m \in [Wallets -> Amounts] /\ m[x] = led.bal[x]
  <2>1. r.bal \in [Wallets -> Amounts] /\ Collector \in Wallets
    BY <1>3, TokenAssumption
  <2> HIDE DEF r
  <2>2. CASE answer.fee = 0
    <3>1. paid = 0
      BY <1>1, <1>2, <2>2
    <3> HIDE DEF paid
    <3> QED BY <1>2, <1>3, <2>1, <3>1, MovedType, MovedAnyway
  <2>3. CASE x \notin {to, Collector}
    <3>1. x \in Wallets \ {to, Collector}
      BY <2>3
    <3> HIDE DEF paid
    <3>2. Moved(r.bal, to, Collector, paid)[x] = r.bal[x]
      BY <1>2, <2>1, <3>1, MovedAnyway
    <3> QED BY <1>2, <1>3, <2>1, <3>2, MovedType
  <2> QED BY <2>2, <2>3
<1>5. d.bal = m
  <2> HIDE DEF r, m
  <2> QED BY <1>3, <1>4, SetBal
<1>6. FeeTaken(led, known, to, answer) = IF Collector \in known THEN d ELSE r
  BY DEF FeeTaken
<1> HIDE DEF d, r, m
<1> QED BY <1>3, <1>4, <1>5, <1>6

-----------------------------------------------------------------------------
(* Deliveries.                                                             *)

(* A move is a move: out of one balance, into the other, or none at all.     *)
LEMMA MovedIs ==
  ASSUME NEW bal \in [Wallets -> Amounts], NEW from \in Wallets, NEW to \in Wallets,
         NEW v \in Amounts
  PROVE  Moved(bal, from, to, v) =
           IF from # to
           THEN [bal EXCEPT ![from] = SubWord(bal[from], v), ![to] = AddWord(bal[to], v)]
           ELSE bal
<1> DEFINE x == AddWord(bal[to], v)
           credited == [bal EXCEPT ![to] = x]
           y == SubWord(credited[from], v)
           m == [credited EXCEPT ![from] = y]
<1>1. bal[to] \in Amounts /\ (from = to => SubWord(x, v) = bal[from])
  BY WordExact
<1>2. CASE from = to
  <2> HIDE DEF x
  <2>1. credited[from] = x
    BY <1>2
  <2>2. y = bal[from]
    BY <1>1, <1>2, <2>1
  <2> HIDE DEF y
  <2>3. m = bal
    BY <1>2, <2>2
  <2> QED BY <1>2, <2>3 DEF Moved, x, y
<1>3. CASE from # to
  <2>1. y = SubWord(bal[from], v)
    <3>1. credited[from] = bal[from]
      BY <1>3
    <3> HIDE DEF credited
    <3> QED BY <3>1
  <2> DEFINE z == SubWord(bal[from], v)
  <2>2. m = [bal EXCEPT ![from] = z, ![to] = x]
    <3> HIDE DEF x, y, z
    <3>1. y = z
      BY <2>1 DEF z
    <3> QED BY <1>3, <3>1
  <2> QED BY <1>3, <2>2 DEF Moved
<1> QED BY <1>2, <1>3

LEMMA NothingMoved ==
  ASSUME NEW bal \in [Wallets -> Amounts], NEW from \in Wallets, NEW to \in Wallets
  PROVE  Moved(bal, from, to, 0) = bal
<1>1. 0 \in Amounts
  BY WordSizeAssumption DEF Amounts
<1> DEFINE v == 0
<1>2. v \in Amounts /\ v = 0
  BY <1>1
<1> HIDE DEF v
<1>3. Moved(bal, from, to, v) = bal
  BY <1>2, MovedAnyway
<1> QED BY <1>2, <1>3

(* What a transferFrom without a fee does to the balances: it moves the      *)
(* amount, out of what the owner holds and has approved, or nothing.         *)
LEMMA TransferFromDelivers ==
  ASSUME IInv, ~overflowed, NEW s \in Spenders, NEW from \in Wallets, NEW to \in Wallets,
         NEW amount \in Amounts, NEW answer \in Answers, answer.fee = 0,
         TransferFrom(s, from, to, amount, answer)
  PROVE  \E paid \in BOOLEAN :
           /\ paid => amount <= balances[from] /\ amount <= allowances[from][s]
           /\ balances' =
                IF paid /\ from # to
                THEN [balances EXCEPT ![from] = SubWord(balances[from], amount),
                                      ![to] = AddWord(balances[to], amount)]
                ELSE balances
<1> DEFINE enough == Spendable(s, from, amount)
           covered == Select(enough, amount, 0)
           v == Select(answer.done, Select(answer.can, covered, 0), 0)
           paid == answer.done /\ answer.can /\ enough
           c == FeeTaken(Current, verified, to, answer)
<1>1. /\ Current \in Ledger /\ Current.bal = balances /\ balances \in [Wallets -> Amounts]
      /\ balances[from] \in Nat /\ frozenTokens[from] \in Nat
  BY CurrentType, AmountsAreNat DEF IInv, TypeOK
<1>2. enough => amount <= balances[from] /\ amount <= allowances[from][s]
  <2>1. FreeTokens(Current, from) = balances[from] - frozenTokens[from]
    BY FreeTokensBound
  <2>2. amount \in Nat
    BY AmountsAreNat
  <2> QED BY <1>1, <2>1, <2>2 DEF Spendable
<1>3. covered \in Amounts
  BY SelectType
<1>4. v = IF paid THEN amount ELSE 0
  BY DEF Select
<1>5. c.bal = balances
  <2>1. Covered(Current, to, answer.fee) = 0
    BY DEF Covered, Select
  <2>2. Select(answer.feeDone, Covered(Current, to, answer.fee), 0) = 0
    BY <2>1 DEF Select
  <2>3. Moved(balances, to, Collector, 0) = balances
    BY <1>1, TokenAssumption, NothingMoved
  <2>4. c.bal = IF Collector \in verified
                THEN Moved(Current.bal, to, Collector,
                           Select(answer.feeDone, Covered(Current, to, answer.fee), 0))
                ELSE Current.bal
    BY <1>1, FeeTakenBal
  <2> HIDE DEF c
  <2> QED BY <1>1, <2>2, <2>3, <2>4
<1>6. balances' = Moved(balances, from, to, v)
  <2>1. HolderMove(from, to, covered, answer) /\ TypeOK
    BY DEF TransferFrom, IInv
  <2>2. balances' = Moved(c.bal, from, to, v)
    <3> HIDE DEF covered
    <3> QED BY <1>3, <2>1, HolderMoveBal
  <2> HIDE DEF c, v
  <2> QED BY <1>5, <2>2
<1>7. paid \in BOOLEAN /\ (paid => amount <= balances[from] /\ amount <= allowances[from][s])
  BY <1>2, AnswerType
<1>8. balances' = IF paid /\ from # to
                  THEN [balances EXCEPT ![from] = SubWord(balances[from], amount),
                                        ![to] = AddWord(balances[to], amount)]
                  ELSE balances
  <2> HIDE DEF v
  <2>1. v \in Amounts
    BY <1>4, WordClosed
  <2>2. v = 0 => balances' = balances
    BY <1>1, <1>6, NothingMoved
  <2>3. balances' = IF from # to
                    THEN [balances EXCEPT ![from] = SubWord(balances[from], v),
                                          ![to] = AddWord(balances[to], v)]
                    ELSE balances
    BY <1>1, <1>6, <2>1, MovedIs
  <2> HIDE DEF paid
  <2> QED BY <1>4, <2>2, <2>3
<1> HIDE DEF paid
<1> QED BY <1>7, <1>8
=============================================================================
