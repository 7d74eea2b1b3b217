---------------------------- MODULE LimitsProofs ----------------------------
(***************************************************************************)
(* Proofs about the modules that ration transfers, for any wallets, periods  *)
(* and limits, any word, and whatever the other modules answer.             *)
(*                                                                         *)
(* The argument for a window is that its counter counts all that was let      *)
(* through, so that what has moved is at most the counter; a transfer that    *)
(* moves something was compared with the counter before it was counted.      *)
(***************************************************************************)
EXTENDS Limits, SequenceTheorems, TLAPS

(* Of a window in which nothing went unchecked.                             *)
WindowHolds(book, id, t) ==
  ~loose[book][id][t] =>
    /\ volume[book][id][t] <= counters[book][id][t].value
    /\ index[book][t] # 0 =>
         volume[book][id][t] = 0 \/ volume[book][id][t] < limits[book][index[book][t]].value

WindowsHold ==
  \A book \in Books, id \in Identities, t \in Times : WindowHolds(book, id, t)

WindowTypes ==
  /\ counters \in [Books -> [Identities -> [Times -> Counter]]]
  /\ volume \in [Books -> [Identities -> [Times -> Nat]]]
  /\ loose \in [Books -> [Identities -> [Times -> BOOLEAN]]]

(* The two records of a book's limits.                                      *)
IndexAgrees(lim, idx) ==
  \A t \in Times :
    /\ idx[t] \in {0} \cup DOMAIN lim
    /\ \A n \in DOMAIN lim : lim[n].time = t <=> idx[t] = n

LimitRecords ==
  /\ limits \in [Books -> Seq(Limit)]
  /\ index \in [Books -> [Times -> Nat]]
  /\ \A book \in Books : Len(limits[book]) <= MaxLimits /\ IndexAgrees(limits[book], index[book])

OtherTypes ==
  /\ bound \in Bindings
  /\ tagged \in [ExchangeModules -> SUBSET Exchanges]
  /\ monthlyLimit \in [Exchanges -> Amounts] /\ limited \subseteq Exchanges
  /\ monthly \in [Exchanges -> [Identities -> Counter]]
  /\ IsABag(approvals) /\ BagToSet(approvals) \subseteq Hashes

(* The inductive invariant.                                                *)
LInv == LimitRecords /\ WindowTypes /\ OtherTypes /\ WindowsHold

-----------------------------------------------------------------------------
(* Counters.                                                               *)

LEMMA CounterIncreased ==
  ASSUME NEW c \in Counter, NEW period \in Nat, NEW amount \in Amounts
  PROVE  /\ Increased(c, period, amount) \in Counter
         /\ Increased(c, period, amount).value
              = IF Finished(c) THEN amount ELSE AddWord(c.value, amount)
<1>1. /\ c.value \in 0 .. WordSize - 1 /\ c.left \in Nat
      /\ c = [value |-> c.value, left |-> c.left]
  BY DEF Counter, Amounts
<1>2. AddWord(0, amount) = amount /\ AddWord(c.value, amount) \in Amounts
  BY <1>1, WordSizeAssumption DEF AddWord, Amounts
<1>3. Reset(c, period) \in Counter
  BY <1>1, WordSizeAssumption DEF Reset, Finished, Counter, Amounts
<1>4. Reset(c, period).value = IF Finished(c) THEN 0 ELSE c.value
  BY <1>1 DEF Reset
<1>5. Increased(c, period, amount)
        = [value |-> AddWord(Reset(c, period).value, amount), left |-> Reset(c, period).left]
  BY <1>3 DEF Increased, Counter
<1>6. Reset(c, period).left \in Nat
  BY <1>3 DEF Counter
<1> QED BY <1>2, <1>4, <1>5, <1>6 DEF Counter

LEMMA CounterElapsed ==
  ASSUME NEW c \in Counter
  PROVE  Elapsed(c) \in Counter /\ Elapsed(c).value = c.value
<1>1. c.value \in Amounts /\ c.left \in Nat /\ c = [value |-> c.value, left |-> c.left]
  BY DEF Counter
<1>2. Elapsed(c) = [value |-> c.value, left |-> IF c.left = 0 THEN 0 ELSE c.left - 1]
  BY <1>1 DEF Elapsed
<1> QED BY <1>1, <1>2 DEF Counter

-----------------------------------------------------------------------------
(* The windows after a transfer.                                           *)

(* A counting book has compared what it lets move with its counters.        *)
LEMMA ComparedBeforeCounted ==
  ASSUME LInv, NEW from \in Wallets, NEW to \in Wallets, NEW amount, NEW handle,
         CanTransfer(from, to, amount, handle),
         NEW book \in CountingBooks(from, to), ~Unasked(book, from, TRUE)
  PROVE  TimeCheck(book, IdentityOf[from], amount)
<1>1. CASE book = TimeTransfers /\ TimeTransfers \in bound
  <2>1. Check(TimeTransfers, from, to, amount, handle)
    BY <1>1 DEF CanTransfer
  <2>2. from \in AgentWallets \/ TimeCheck(TimeTransfers, IdentityOf[from], amount)
    BY <2>1 DEF Check, TimeTransfers, TimeExchange, ExchangeMonthly, Conditional
  <2> QED BY <1>1, <2>2 DEF Unasked
<1>2. CASE /\ TimeExchange \in bound /\ book = IdentityOf[to]
           /\ from \notin AgentWallets /\ IdentityOf[to] \in tagged[TimeExchange]
  <2>1. Check(TimeExchange, from, to, amount, handle)
    BY <1>2 DEF CanTransfer
  <2>2. TimeCheck(IdentityOf[to], IdentityOf[from], amount) \/ Exempt(TimeExchange, from, to)
    BY <2>1 DEF Check, TimeTransfers, TimeExchange, ExchangeMonthly, Conditional
  <2>3. tagged[TimeExchange] \subseteq Exchanges
    BY DEF LInv, OtherTypes, ExchangeModules
  <2> QED BY <1>2, <2>2, <2>3 DEF Exempt, Unasked
<1> QED BY <1>1, <1>2 DEF CountingBooks

LEMMA ExceptType ==
  ASSUME NEW S, NEW T, NEW f \in [S -> T], NEW x, NEW y \in T
  PROVE  [f EXCEPT ![x] = y] \in [S -> T]
OBVIOUS

LEMMA TellingKeepsWindows ==
  ASSUME LInv, NEW from \in Wallets, NEW to \in Wallets, NEW amount \in Amounts,
         NEW moved \in {0, amount}, NEW asked \in BOOLEAN,
         moved # 0 /\ asked => \E handle : CanTransfer(from, to, amount, handle),
         TellTimeModules(from, to, amount, moved, asked),
         UNCHANGED <<limits, index>>
  PROVE  (WindowTypes /\ WindowsHold)'
<1> DEFINE payer == IdentityOf[from]
           opens(book, t) == index[book][t] # 0 /\ WindowOpensLoose(book, from, t, amount, asked)
           counted(book) == Counted(book, payer, amount)
           passed(book) == [t \in Times |-> IF index[book][t] = 0 \/ opens(book, t)
                                         THEN 0 ELSE Moved(book, from, t, amount, moved)]
           opened(book) == [t \in Times |-> opens(book, t)]
<1>0. payer \in Identities
  BY LimitsAssumption
<1>1. ASSUME NEW book \in Books \ CountingBooks(from, to)
      PROVE  /\ counters'[book] = counters[book]
             /\ volume'[book] = volume[book]
             /\ loose'[book] = loose[book]
  BY <1>1 DEF TellTimeModules
<1>2. ASSUME NEW book \in Books, book \in CountingBooks(from, to)
      PROVE  /\ counters'[book] = [counters[book] EXCEPT ![payer] = counted(book)]
             /\ volume'[book] = [volume[book] EXCEPT ![payer] = passed(book)]
             /\ loose'[book] = [loose[book] EXCEPT ![payer] = opened(book)]
  BY <1>2 DEF TellTimeModules
<1>3. Times \subseteq Nat
  BY LimitsAssumption
<1>4. \A book \in Books, t \in Times :
        /\ counters[book][payer][t] \in Counter
        /\ volume[book][payer][t] \in Nat /\ loose[book][payer][t] \in BOOLEAN
        /\ index[book][t] \in Nat
        /\ counters[book][payer][t].value \in Amounts
  BY <1>0 DEF LInv, WindowTypes, LimitRecords, Counter
<1>5. moved \in Nat /\ amount \in Nat /\ moved <= amount
  BY WordSizeAssumption DEF Amounts
<1>6. ASSUME NEW book \in Books, NEW t \in Times
      PROVE  Moved(book, from, t, amount, moved) \in Nat
  BY <1>4, <1>5 DEF Moved
<1>7. ASSUME NEW book \in Books, NEW t \in Times
      PROVE  Counted(book, payer, amount)[t] \in Counter
  BY <1>3, <1>4, CounterIncreased DEF Counted
<1>8. ASSUME NEW book \in Books
      PROVE  /\ counted(book) \in [Times -> Counter]
             /\ passed(book) \in [Times -> Nat]
             /\ opened(book) \in [Times -> BOOLEAN]
  BY <1>6, <1>7 DEF Counted
<1> HIDE DEF payer, counted, passed, opened
<1>9. ASSUME NEW book \in Books
       PROVE  /\ counters[book] \in [Identities -> [Times -> Counter]]
              /\ volume[book] \in [Identities -> [Times -> Nat]]
              /\ loose[book] \in [Identities -> [Times -> BOOLEAN]]
  BY DEF LInv, WindowTypes
<1>10. ASSUME NEW book \in Books, book \in CountingBooks(from, to)
       PROVE  /\ counters'[book][payer] = counted(book)
              /\ volume'[book][payer] = passed(book)
              /\ loose'[book][payer] = opened(book)
              /\ \A id \in Identities \ {payer} : /\ counters'[book][id] = counters[book][id]
                                                  /\ volume'[book][id] = volume[book][id]
                                                  /\ loose'[book][id] = loose[book][id]
  <2>1. /\ counters'[book] = [counters[book] EXCEPT ![payer] = counted(book)]
        /\ volume'[book] = [volume[book] EXCEPT ![payer] = passed(book)]
        /\ loose'[book] = [loose[book] EXCEPT ![payer] = opened(book)]
    BY <1>2, <1>10
  <2>2. /\ DOMAIN counters[book] = Identities /\ DOMAIN volume[book] = Identities
        /\ DOMAIN loose[book] = Identities
    BY <1>9
  <2> QED BY <2>1, <2>2, <1>0
<1>11. ASSUME NEW book \in Books
      PROVE  /\ counters'[book] \in [Identities -> [Times -> Counter]]
             /\ volume'[book] \in [Identities -> [Times -> Nat]]
             /\ loose'[book] \in [Identities -> [Times -> BOOLEAN]]
  <2>1. CASE book \in CountingBooks(from, to)
    <3>1. /\ counters'[book] = [counters[book] EXCEPT ![payer] = counted(book)]
          /\ volume'[book] = [volume[book] EXCEPT ![payer] = passed(book)]
          /\ loose'[book] = [loose[book] EXCEPT ![payer] = opened(book)]
      BY <1>2, <2>1
    <3>2. /\ counted(book) \in [Times -> Counter]
          /\ passed(book) \in [Times -> Nat]
          /\ opened(book) \in [Times -> BOOLEAN]
      BY <1>8
    <3>3. /\ counters[book] \in [Identities -> [Times -> Counter]]
          /\ volume[book] \in [Identities -> [Times -> Nat]]
          /\ loose[book] \in [Identities -> [Times -> BOOLEAN]]
      BY <1>9
    <3>4. counters'[book] \in [Identities -> [Times -> Counter]]
      BY <3>1, <3>2, <3>3, ExceptType
    <3>5. volume'[book] \in [Identities -> [Times -> Nat]]
      BY <3>1, <3>2, <3>3, ExceptType
    <3>6. loose'[book] \in [Identities -> [Times -> BOOLEAN]]
      <4>1. PICK T : T = [Times -> BOOLEAN]
        OBVIOUS
      <4>2. loose[book] \in [Identities -> T] /\ opened(book) \in T
        BY <3>2, <3>3, <4>1
      <4>3. loose'[book] = [loose[book] EXCEPT ![payer] = opened(book)]
        BY <3>1
      <4> QED BY <4>1, <4>2, <4>3, ExceptType
    <3> QED BY <3>4, <3>5, <3>6
  <2>2. CASE book \notin CountingBooks(from, to)
    BY <2>2, <1>1, <1>9
  <2> QED BY <2>1, <2>2
<1>12. WindowTypes'
  <2>1. /\ counters' = [book \in Books |-> counters'[book]]
        /\ volume' = [book \in Books |-> volume'[book]]
        /\ loose' = [book \in Books |-> loose'[book]]
    BY DEF TellTimeModules
  <2> QED BY <2>1, <1>11 DEF WindowTypes
<1>13. ASSUME NEW book \in Books, NEW id \in Identities, NEW t \in Times,
              book \notin CountingBooks(from, to) \/ id # payer
       PROVE  WindowHolds(book, id, t)'
  <2>1. /\ counters'[book][id] = counters[book][id]
        /\ volume'[book][id] = volume[book][id]
        /\ loose'[book][id] = loose[book][id]
    BY <1>1, <1>13, <1>10
  <2> QED BY <2>1 DEF LInv, WindowsHold, WindowHolds
<1>14. ASSUME NEW book \in Books, NEW t \in Times, book \in CountingBooks(from, to)
       PROVE  WindowHolds(book, payer, t)'
  <2> DEFINE c == counters[book][payer][t]
             v == volume[book][payer][t]
  <2>0. /\ counters'[book][payer] = counted(book)
        /\ volume'[book][payer] = passed(book)
        /\ loose'[book][payer] = opened(book)
    BY <1>14, <1>10
  <2>1. /\ counters'[book][payer][t] = Counted(book, payer, amount)[t]
        /\ volume'[book][payer][t] = IF index[book][t] = 0 \/ opens(book, t)
                                     THEN 0 ELSE Moved(book, from, t, amount, moved)
        /\ loose'[book][payer][t] = opens(book, t)
    BY <2>0 DEF counted, passed, opened
  <2>2. CASE index[book][t] = 0
    <3>1. volume'[book][payer][t] = 0
      BY <2>1, <2>2
    <3>2. counters'[book][payer][t].value \in Nat
      BY <1>4, <2>1, <2>2, WordSizeAssumption DEF Counted, Amounts
    <3> QED BY <2>2, <3>1, <3>2 DEF WindowHolds
  <2>3. CASE opens(book, t)
    BY <2>1, <2>3 DEF WindowHolds
  <2>4. CASE index[book][t] # 0 /\ ~opens(book, t)
    <3>1. /\ asked /\ ~Unasked(book, from, TRUE)
          /\ Finished(c) \/ (~loose[book][payer][t] /\ c.value + amount < WordSize)
      <4>1. c.value \in Nat /\ WordSize \in Nat
        BY <1>4, WordSizeAssumption DEF Amounts
      <4> QED BY <2>4, <1>5, <4>1 DEF WindowOpensLoose, Unasked, payer
    <3>2. volume'[book][payer][t] = (IF Finished(c) THEN 0 ELSE v) + moved
      BY <2>1, <2>4 DEF Moved, payer
    <3>3. counters'[book][payer][t].value = IF Finished(c) THEN amount ELSE c.value + amount
      <4>1. counters'[book][payer][t].value = IF Finished(c) THEN amount ELSE AddWord(c.value, amount)
        <5>1. counters'[book][payer][t] = Increased(c, t, amount)
          BY <2>1, <2>4 DEF Counted
        <5>2. c \in Counter /\ t \in Nat
          BY <1>3, <1>4
        <5> HIDE DEF c
        <5> QED BY <5>1, <5>2, CounterIncreased
      <4> QED BY <4>1, <3>1 DEF AddWord
    <3>4. ~Finished(c) => v <= c.value
      BY <1>0, <3>1 DEF LInv, WindowsHold, WindowHolds
    <3>5. v \in Nat /\ c.value \in Nat
      BY <1>4, WordSizeAssumption DEF Amounts
    <3>6. volume'[book][payer][t] <= counters'[book][payer][t].value
      BY <3>2, <3>3, <3>4, <3>5, <1>5
    <3>7. limits'[book][index'[book][t]] = limits[book][index[book][t]]
      OBVIOUS
    <3>8. volume'[book][payer][t] = 0 \/ volume'[book][payer][t] < limits[book][index[book][t]].value
      <4>1. CASE moved = 0
        <5>1. ~Finished(c) => v = 0 \/ v < limits[book][index[book][t]].value
          BY <1>0, <2>4, <3>1 DEF LInv, WindowsHold, WindowHolds
        <5> QED BY <3>2, <3>5, <4>1, <5>1
      <4>2. CASE moved # 0
        <5>1. TimeCheck(book, payer, amount)
          BY <1>14, <3>1, <4>2, ComparedBeforeCounted DEF payer
        <5>2. index[book][t] \in DOMAIN limits[book] /\ limits[book][index[book][t]].time = t
          BY <2>4 DEF LInv, LimitRecords, IndexAgrees
        <5>3. /\ amount < limits[book][index[book][t]].value
              /\ ~Finished(c) => AddWord(c.value, amount) < limits[book][index[book][t]].value
          BY <5>1, <5>2 DEF TimeCheck
        <5>4. limits[book][index[book][t]].value \in Nat
          <6>1. limits[book][index[book][t]] \in Limit
            BY <5>2, ElementOfSeq DEF LInv, LimitRecords
          <6> QED BY <6>1, WordSizeAssumption DEF Limit, Amounts
        <5>5. ~Finished(c) => c.value + amount < limits[book][index[book][t]].value
          BY <3>1, <5>3 DEF AddWord
        <5> QED BY <1>5, <3>2, <3>4, <3>5, <4>2, <5>3, <5>4, <5>5
      <4> QED BY <4>1, <4>2
    <3> QED BY <3>6, <3>7, <3>8 DEF WindowHolds
  <2> QED BY <2>2, <2>3, <2>4
<1> QED BY <1>12, <1>13, <1>14 DEF WindowsHold

-----------------------------------------------------------------------------
(* The limits after a setting.                                             *)

(* The records of a book after a setting, as the lemmas speak of them.      *)
Appended(new, lim, limit) == new = Append(lim, limit)
Placed(place, idx, t, n) == place = [idx EXCEPT ![t] = n]
Overwritten(new, lim, n, limit) == new = [lim EXCEPT ![n] = limit]

SameElsewhere(lim, idx, new, place, t) ==
  \A s \in Times \ {t} : /\ place[s] = idx[s]
                         /\ place[s] # 0 => new[place[s]] = lim[place[s]]

LEMMA RecordsReplaced ==
  ASSUME LimitRecords, NEW book \in Books, NEW t \in Times,
         NEW new \in Seq(Limit), NEW place \in [Times -> Nat],
         limits' = [limits EXCEPT ![book] = new],
         index' = [index EXCEPT ![book] = place],
         Len(new) <= MaxLimits, IndexAgrees(new, place),
         SameElsewhere(limits[book], index[book], new, place, t)
  PROVE  /\ LimitRecords'
         /\ \A b \in Books, s \in Times : b # book \/ s # t =>
              /\ index'[b][s] = index[b][s]
              /\ index[b][s] # 0 => limits'[b][index[b][s]] = limits[b][index[b][s]]
<1>1. /\ limits \in [Books -> Seq(Limit)] /\ index \in [Books -> [Times -> Nat]]
  BY DEF LimitRecords
<1>2. limits' \in [Books -> Seq(Limit)] /\ index' \in [Books -> [Times -> Nat]]
  BY <1>1
<1>3. limits'[book] = new /\ index'[book] = place
  BY <1>1
<1>4. \A b \in Books \ {book} : limits'[b] = limits[b] /\ index'[b] = index[b]
  BY <1>1
<1>5. \A b \in Books : Len(limits'[b]) <= MaxLimits /\ IndexAgrees(limits'[b], index'[b])
  <2> TAKE b \in Books
  <2> QED BY <1>3, <1>4 DEF LimitRecords
<1>6. ASSUME NEW s \in Times, s # t
      PROVE  /\ index'[book][s] = index[book][s]
             /\ index[book][s] # 0 => limits'[book][index[book][s]] = limits[book][index[book][s]]
  <2>1. s \in Times \ {t}
    BY <1>6
  <2>2. \A r \in Times \ {t} : /\ place[r] = index[book][r]
                               /\ place[r] # 0 => new[place[r]] = limits[book][place[r]]
    BY DEF SameElsewhere
  <2> QED BY <1>3, <2>1, <2>2
<1>7. LimitRecords'
  BY <1>2, <1>5 DEF LimitRecords
<1>8. ASSUME NEW b \in Books, NEW s \in Times, b # book \/ s # t
      PROVE  /\ index'[b][s] = index[b][s]
             /\ index[b][s] # 0 => limits'[b][index[b][s]] = limits[b][index[b][s]]
  <2>1. CASE b = book
    BY <1>6, <1>8, <2>1
  <2>2. CASE b # book
    BY <1>4, <2>2
  <2> QED BY <2>1, <2>2
<1> QED BY <1>7, <1>8

(* A limit for a period that had none.                                      *)
LEMMA LimitAppended ==
  ASSUME NEW lim \in Seq(Limit), NEW idx \in [Times -> Nat], IndexAgrees(lim, idx),
         NEW t \in Times, idx[t] = 0, NEW limit \in Limit, limit.time = t,
         NEW new, Appended(new, lim, limit),
         NEW place, Placed(place, idx, t, Len(lim) + 1)
  PROVE  /\ new \in Seq(Limit) /\ Len(new) = Len(lim) + 1 /\ place \in [Times -> Nat]
         /\ IndexAgrees(new, place)
         /\ SameElsewhere(lim, idx, new, place, t)
<1>1. Len(lim) \in Nat /\ DOMAIN lim = 1 .. Len(lim)
  BY LenProperties
<1>2. /\ new \in Seq(Limit) /\ Len(new) = Len(lim) + 1 /\ DOMAIN new = 1 .. Len(lim) + 1
      /\ new[Len(lim) + 1] = limit /\ \A n \in 1 .. Len(lim) : new[n] = lim[n]
  BY <1>1, AppendProperties, LenProperties DEF Appended
<1>3. /\ place \in [Times -> Nat] /\ place[t] = Len(lim) + 1
      /\ \A s \in Times \ {t} : place[s] = idx[s]
  BY <1>1 DEF Placed
<1>4. \A s \in Times : idx[s] \in 0 .. Len(lim)
  BY <1>1 DEF IndexAgrees
<1>5. \A s \in Times, n \in 1 .. Len(lim) : lim[n].time = s <=> idx[s] = n
  BY <1>1 DEF IndexAgrees
<1>6. ASSUME NEW s \in Times
      PROVE  place[s] \in {0} \cup DOMAIN new
  BY <1>1, <1>2, <1>3, <1>4
<1>7. ASSUME NEW s \in Times, NEW n \in DOMAIN new
      PROVE  new[n].time = s <=> place[s] = n
  <2>1. CASE n = Len(lim) + 1
    <3>1. new[n].time = t
      BY <1>2, <2>1
    <3>2. s # t => place[s] # n
      BY <1>1, <1>3, <1>4, <2>1
    <3> QED BY <1>3, <2>1, <3>1, <3>2
  <2>2. CASE n \in 1 .. Len(lim)
    <3>1. new[n].time = s <=> idx[s] = n
      BY <1>2, <1>5, <2>2
    <3>2. CASE s = t
      BY <1>1, <1>3, <2>2, <3>1, <3>2
    <3>3. CASE s # t
      BY <1>3, <3>1, <3>3
    <3> QED BY <3>2, <3>3
  <2> QED BY <1>1, <1>2, <2>1, <2>2
<1>8. \A s \in Times \ {t} : place[s] # 0 => new[place[s]] = lim[place[s]]
  BY <1>1, <1>2, <1>3, <1>4
<1> QED BY <1>2, <1>3, <1>6, <1>7, <1>8 DEF IndexAgrees, SameElsewhere

(* Another value for the limit of a period.                                 *)
LEMMA LimitReplaced ==
  ASSUME NEW lim \in Seq(Limit), NEW idx \in [Times -> Nat], IndexAgrees(lim, idx),
         NEW t \in Times, idx[t] # 0, NEW limit \in Limit, limit.time = t,
         NEW new, Overwritten(new, lim, idx[t], limit)
  PROVE  /\ new \in Seq(Limit) /\ Len(new) = Len(lim)
         /\ IndexAgrees(new, idx)
         /\ SameElsewhere(lim, idx, new, idx, t)
<1>1. Len(lim) \in Nat /\ DOMAIN lim = 1 .. Len(lim)
  BY LenProperties
<1>2. idx[t] \in 1 .. Len(lim) /\ lim[idx[t]].time = t
  BY <1>1 DEF IndexAgrees
<1>3. new \in Seq(Limit) /\ Len(new) = Len(lim)
  BY <1>1, <1>2, ExceptSeq DEF Overwritten
<1>4. /\ DOMAIN new = DOMAIN lim /\ new[idx[t]] = limit
      /\ \A n \in DOMAIN lim : n # idx[t] => new[n] = lim[n]
  BY <1>1, <1>2 DEF Overwritten
<1>5. \A n \in DOMAIN lim : new[n].time = lim[n].time
  BY <1>2, <1>4
<1>6. IndexAgrees(new, idx)
  BY <1>4, <1>5 DEF IndexAgrees
<1>7. ASSUME NEW s \in Times \ {t}, idx[s] # 0
      PROVE  new[idx[s]] = lim[idx[s]]
  <2>1. idx[s] \in DOMAIN lim /\ lim[idx[s]].time = s
    BY <1>7 DEF IndexAgrees
  <2> QED BY <1>2, <1>4, <2>1
<1> QED BY <1>3, <1>6, <1>7 DEF SameElsewhere

LEMMA SettingKeepsRecords ==
  ASSUME LimitRecords, NEW book \in Books, NEW t \in Times, NEW value \in Amounts,
         SetTimeLimit(book, t, value)
  PROVE  /\ LimitRecords'
         /\ \A b \in Books, s \in Times : b # book \/ s # t =>
              /\ index'[b][s] = index[b][s]
              /\ index[b][s] # 0 => limits'[b][index[b][s]] = limits[b][index[b][s]]
<1>0. PICK limit : limit = [time |-> t, value |-> value]
  OBVIOUS
<1>1. limit \in Limit /\ limit.time = t
  BY <1>0 DEF Limit
<1>2. /\ limits[book] \in Seq(Limit) /\ Len(limits[book]) <= MaxLimits
      /\ index[book] \in [Times -> Nat] /\ IndexAgrees(limits[book], index[book])
      /\ limits \in [Books -> Seq(Limit)] /\ index \in [Books -> [Times -> Nat]]
      /\ Len(limits[book]) \in Nat /\ MaxLimits \in Nat
  BY LimitsAssumption, LenProperties DEF LimitRecords
<1>3. PICK lim : lim = limits[book]
  OBVIOUS
<1>4. PICK idx : idx = index[book]
  OBVIOUS
<1>5. lim \in Seq(Limit) /\ idx \in [Times -> Nat] /\ IndexAgrees(lim, idx)
  BY <1>2, <1>3, <1>4
<1>6. CASE index[book][t] = 0
  <2>1. PICK new : Appended(new, lim, limit)
    BY DEF Appended
  <2>2. PICK place : Placed(place, idx, t, Len(lim) + 1)
    BY DEF Placed
  <2>0. idx[t] = 0
    BY <1>6, <1>4
  <2>3. /\ new \in Seq(Limit) /\ Len(new) = Len(lim) + 1 /\ place \in [Times -> Nat]
        /\ IndexAgrees(new, place)
        /\ SameElsewhere(lim, idx, new, place, t)
    BY <1>1, <1>5, <2>0, <2>1, <2>2, LimitAppended
  <2>4. /\ Len(limits[book]) < MaxLimits
        /\ limits' = [limits EXCEPT ![book] = new]
        /\ index' = [index EXCEPT ![book][t] = Len(limits'[book])]
    BY <1>0, <1>6, <1>3, <2>1 DEF SetTimeLimit, Appended
  <2>5. limits'[book] = new
    BY <1>2, <2>4
  <2>6. index' = [index EXCEPT ![book] = place]
    BY <1>2, <1>3, <1>4, <2>2, <2>3, <2>4, <2>5 DEF Placed
  <2>7. Len(new) <= MaxLimits
    BY <1>2, <1>3, <2>3, <2>4
  <2>8. SameElsewhere(limits[book], index[book], new, place, t)
    BY <1>3, <1>4, <2>3
  <2> QED BY <2>3, <2>4, <2>6, <2>7, <2>8, RecordsReplaced
<1>7. CASE index[book][t] # 0
  <2>1. PICK new : Overwritten(new, lim, idx[t], limit)
    BY DEF Overwritten
  <2>0. idx[t] # 0
    BY <1>7, <1>4
  <2>3. /\ new \in Seq(Limit) /\ Len(new) = Len(lim)
        /\ IndexAgrees(new, idx)
        /\ SameElsewhere(lim, idx, new, idx, t)
    BY <1>1, <1>5, <2>0, <2>1, LimitReplaced
  <2>4. limits' = [limits EXCEPT ![book] = new] /\ index' = index
    BY <1>0, <1>7, <1>3, <1>4, <2>1 DEF SetTimeLimit, Overwritten
  <2>5. index' = [index EXCEPT ![book] = idx]
    BY <1>2, <1>4, <2>4
  <2>6. SameElsewhere(limits[book], index[book], new, idx, t)
    BY <1>3, <1>4, <2>3
  <2>7. Len(new) <= MaxLimits
    BY <1>2, <1>3, <2>3
  <2> QED BY <1>5, <2>3, <2>4, <2>5, <2>6, <2>7, RecordsReplaced
<1> QED BY <1>6, <1>7

LEMMA SettingKeepsWindows ==
  ASSUME LInv, NEW book \in Books, NEW t \in Times, NEW value \in Amounts,
         SetTimeLimit(book, t, value)
  PROVE  (WindowTypes /\ WindowsHold)'
<1> DEFINE untouched(b, s) == b # book \/ s # t
<1>1. /\ volume \in [Books -> [Identities -> [Times -> Nat]]]
      /\ loose \in [Books -> [Identities -> [Times -> BOOLEAN]]]
      /\ counters \in [Books -> [Identities -> [Times -> Counter]]]
      /\ counters' = counters
  BY DEF LInv, WindowTypes, SetTimeLimit
<1>2. ASSUME NEW id \in Identities
      PROVE  /\ [volume[book][id] EXCEPT ![t] = 0] \in [Times -> Nat]
             /\ [loose[book][id] EXCEPT ![t] = ~Finished(counters[book][id][t])] \in [Times -> BOOLEAN]
  BY <1>1, ExceptType
<1>3. /\ volume' = [volume EXCEPT ![book] =
           [id \in Identities |-> [volume[book][id] EXCEPT ![t] = 0]]]
      /\ loose' = [loose EXCEPT ![book] =
           [id \in Identities |-> [loose[book][id] EXCEPT ![t] = ~Finished(counters[book][id][t])]]]
  BY <1>1 DEF SetTimeLimit
<1>4. WindowTypes'
  <2>1. /\ [id \in Identities |-> [volume[book][id] EXCEPT ![t] = 0]] \in [Identities -> [Times -> Nat]]
        /\ [id \in Identities |-> [loose[book][id] EXCEPT ![t] = ~Finished(counters[book][id][t])]]
             \in [Identities -> [Times -> BOOLEAN]]
    BY <1>2
  <2> QED BY <1>1, <1>3, <2>1, ExceptType DEF WindowTypes
<1>5. ASSUME NEW b \in Books, NEW id \in Identities, NEW s \in Times, untouched(b, s)
      PROVE  volume'[b][id][s] = volume[b][id][s] /\ loose'[b][id][s] = loose[b][id][s]
  BY <1>1, <1>3, <1>5
<1>6. ASSUME NEW id \in Identities
      PROVE  volume'[book][id][t] = 0
  BY <1>1, <1>3
<1>7. ASSUME NEW b \in Books, NEW id \in Identities, NEW s \in Times
      PROVE  WindowHolds(b, id, s)'
  <2>1. CASE untouched(b, s)
    <3>1. /\ index'[b][s] = index[b][s]
          /\ index[b][s] # 0 => limits'[b][index[b][s]] = limits[b][index[b][s]]
      BY <2>1, SettingKeepsRecords DEF LInv
    <3>2. WindowHolds(b, id, s)
      BY DEF LInv, WindowsHold
    <3> QED BY <1>1, <1>5, <2>1, <3>1, <3>2 DEF WindowHolds
  <2>2. CASE b = book /\ s = t
    <3>1. counters[b][id][s].value \in Nat
      BY <1>1, WordSizeAssumption DEF Counter, Amounts
    <3> QED BY <1>1, <1>6, <2>2, <3>1 DEF WindowHolds
  <2> QED BY <2>1, <2>2
<1> QED BY <1>4, <1>7 DEF WindowsHold

-----------------------------------------------------------------------------
(* The month's counters and the approvals.                                 *)

LEMMA ApprovalAdded ==
  ASSUME NEW B, IsABag(B), BagToSet(B) \subseteq Hashes, NEW hash \in Hashes
  PROVE  IsABag(B (+) SetToBag({hash})) /\ BagToSet(B (+) SetToBag({hash})) \subseteq Hashes
<1> DEFINE one == [h \in {hash} |-> 1]
           more == [h \in DOMAIN B \cup {hash} |->
                      (IF h \in DOMAIN B THEN B[h] ELSE 0) + (IF h \in {hash} THEN one[h] ELSE 0)]
<1>1. B (+) SetToBag({hash}) = more
  BY DEF (+), SetToBag
<1>2. \A h \in DOMAIN B : B[h] \in Nat /\ B[h] > 0
  BY DEF IsABag
<1>3. \A h \in DOMAIN more : more[h] \in Nat /\ more[h] > 0
  BY <1>2
<1>4. IsABag(more)
  BY <1>3 DEF IsABag
<1>5. BagToSet(more) \subseteq Hashes
  BY DEF BagToSet
<1> QED BY <1>1, <1>4, <1>5

LEMMA ApprovalTaken ==
  ASSUME NEW B, IsABag(B), BagToSet(B) \subseteq Hashes, NEW hash
  PROVE  IsABag(B (-) SetToBag({hash})) /\ BagToSet(B (-) SetToBag({hash})) \subseteq Hashes
<1> DEFINE one == [h \in {hash} |-> 1]
           taken == [h \in DOMAIN B |-> IF h \in {hash} THEN B[h] - one[h] ELSE B[h]]
           less == [h \in {d \in DOMAIN B : taken[d] > 0} |-> taken[h]]
<1>1. B (-) SetToBag({hash}) = less
  BY DEF (-), SetToBag
<1>2. \A h \in DOMAIN B : B[h] \in Nat /\ B[h] > 0
  BY DEF IsABag
<1>3. \A h \in DOMAIN less : less[h] \in Nat /\ less[h] > 0
  BY <1>2
<1>4. IsABag(less)
  BY <1>3 DEF IsABag
<1>5. BagToSet(less) \subseteq Hashes
  BY DEF BagToSet
<1> QED BY <1>1, <1>4, <1>5

LEMMA TellingKeepsOthers ==
  ASSUME OtherTypes, NEW from \in Wallets, NEW to \in Wallets, NEW amount \in Amounts, NEW handle,
         TellMonthly(from, to, amount), TellConditional(from, to, handle),
         UNCHANGED <<bound, tagged, monthlyLimit, limited>>
  PROVE  OtherTypes'
<1>1. monthly' \in [Exchanges -> [Identities -> Counter]]
  <2> DEFINE payee == IdentityOf[to]
             payer == IdentityOf[from]
  <2>1. CASE /\ ExchangeMonthly \in bound /\ from \notin AgentWallets
             /\ payee \in tagged[ExchangeMonthly]
    <3>1. payer \in Identities /\ payee \in Exchanges /\ Month \in Nat
      BY <2>1, LimitsAssumption DEF OtherTypes, ExchangeModules
    <3>2. monthly[payee][payer] \in Counter
      BY <3>1 DEF OtherTypes
    <3>3. PICK increased : increased = Increased(monthly[payee][payer], Month, amount)
      OBVIOUS
    <3>4. increased \in Counter
      BY <3>1, <3>2, <3>3, CounterIncreased
    <3>5. monthly' = [monthly EXCEPT ![payee][payer] = increased]
      BY <2>1, <3>3 DEF TellMonthly
    <3> QED BY <3>1, <3>4, <3>5 DEF OtherTypes
  <2>2. CASE ~ (/\ ExchangeMonthly \in bound /\ from \notin AgentWallets
                /\ payee \in tagged[ExchangeMonthly])
    BY <2>2 DEF TellMonthly, OtherTypes
  <2> QED BY <2>1, <2>2
<1>2. IsABag(approvals') /\ BagToSet(approvals') \subseteq Hashes
  BY ApprovalTaken DEF TellConditional, OtherTypes
<1> QED BY <1>1, <1>2 DEF OtherTypes

-----------------------------------------------------------------------------
(* The steps.                                                              *)

LEMMA ToldKeepsLInv ==
  ASSUME LInv, NEW from \in Wallets, NEW to \in Wallets, NEW amount \in Amounts, NEW handle,
         NEW accepted \in BOOLEAN, NEW asked \in BOOLEAN,
         asked => amount = 0 \/ \E h : CanTransfer(from, to, amount, h),
         Told(from, to, amount, handle, accepted, asked)
  PROVE  LInv'
<1>1. PICK moved : moved = Select(accepted, amount, 0)
  OBVIOUS
<1>2. moved \in {0, amount}
  BY <1>1 DEF Select
<1>3. /\ TellTimeModules(from, to, amount, moved, asked)
      /\ TellMonthly(from, to, amount) /\ TellConditional(from, to, handle)
      /\ UNCHANGED <<bound, limits, index, tagged, monthlyLimit, limited>>
  BY <1>1 DEF Told
<1>4. moved # 0 /\ asked => \E h : CanTransfer(from, to, amount, h)
  BY <1>2
<1>5. (WindowTypes /\ WindowsHold)'
  BY <1>2, <1>3, <1>4, TellingKeepsWindows
<1>6. OtherTypes'
  BY <1>3, TellingKeepsOthers DEF LInv
<1>7. LimitRecords'
  BY <1>3 DEF LInv, LimitRecords
<1> QED BY <1>5, <1>6, <1>7 DEF LInv

LEMMA TransferKeepsLInv ==
  ASSUME LInv, NEW from \in Wallets, NEW to \in Wallets, NEW amount \in Amounts,
         NEW accepted \in BOOLEAN,
         Transfer(from, to, amount, accepted) \/ ForcedTransfer(from, to, amount, accepted)
  PROVE  LInv'
<1>1. CASE Transfer(from, to, amount, accepted)
  <2>1. PICK asked : asked = Computed(Input(amount))
    OBVIOUS
  <2>2. PICK passed : passed = Select(CanTransfer(from, to, amount, asked), amount, 0)
    OBVIOUS
  <2>3. Told(from, to, passed, Computed(asked), accepted, TRUE)
    BY <1>1, <2>1, <2>2 DEF Transfer
  <2>4. passed \in Amounts
    BY <2>2, WordSizeAssumption DEF Select, Amounts
  <2>5. passed = 0 \/ CanTransfer(from, to, passed, asked)
    BY <2>2 DEF Select
  <2> QED BY <2>3, <2>4, <2>5, ToldKeepsLInv
<1>2. CASE ForcedTransfer(from, to, amount, accepted)
  BY <1>2, ToldKeepsLInv DEF ForcedTransfer
<1> QED BY <1>1, <1>2

(* A step that changes neither the limits nor the windows.                 *)
LEMMA SameWindows ==
  ASSUME LInv, UNCHANGED timeVars
  PROVE  (LimitRecords /\ WindowTypes /\ WindowsHold)'
BY DEF LInv, timeVars, LimitRecords, WindowTypes, WindowsHold, WindowHolds

LEMMA SettingKeepsLInv ==
  ASSUME LInv, SettingStep
  PROVE  LInv'
<1>1. ASSUME NEW module \in bound, NEW book \in BooksOf(module), NEW t \in Times,
             NEW value \in Amounts, SetTimeLimit(book, t, value)
      PROVE  LInv'
  <2>1. book \in Books
    BY DEF BooksOf, Books, TimeTransfers, TimeExchange
  <2>2. LimitRecords'
    BY <1>1, <2>1, SettingKeepsRecords DEF LInv
  <2>3. (WindowTypes /\ WindowsHold)'
    BY <1>1, <2>1, SettingKeepsWindows
  <2>4. OtherTypes'
    BY <1>1 DEF LInv, OtherTypes, SetTimeLimit, monthVars
  <2> QED BY <2>2, <2>3, <2>4 DEF LInv
<1>2. ASSUME NEW module \in ExchangeModules, NEW id \in Exchanges,
             AddExchangeID(module, id) \/ RemoveExchangeID(module, id)
      PROVE  LInv'
  <2>1. UNCHANGED timeVars /\ UNCHANGED <<bound, monthVars, approvals>>
    BY <1>2 DEF AddExchangeID, RemoveExchangeID
  <2>2. tagged' \in [ExchangeModules -> SUBSET Exchanges]
    BY <1>2 DEF AddExchangeID, RemoveExchangeID, LInv, OtherTypes
  <2> QED BY <2>1, <2>2, SameWindows DEF LInv, OtherTypes, monthVars
<1>3. ASSUME NEW id \in Exchanges, NEW value \in Amounts, SetExchangeMonthlyLimit(id, value)
      PROVE  LInv'
  <2>1. UNCHANGED timeVars /\ UNCHANGED <<bound, tagged, monthly, approvals>>
    BY <1>3 DEF SetExchangeMonthlyLimit
  <2>2. monthlyLimit' \in [Exchanges -> Amounts] /\ limited' \subseteq Exchanges
    BY <1>3 DEF SetExchangeMonthlyLimit, LInv, OtherTypes
  <2> QED BY <2>1, <2>2, SameWindows DEF LInv, OtherTypes
<1>4. ASSUME NEW from \in Wallets, NEW to \in Wallets, NEW handle \in Handles,
             ApproveTransfer(from, to, handle) \/ UnApproveTransfer(from, to, handle)
      PROVE  LInv'
  <2>1. UNCHANGED timeVars /\ UNCHANGED <<bound, tagged, monthVars>>
    BY <1>4 DEF ApproveTransfer, UnApproveTransfer
  <2>2. Hash(from, to, handle) \in Hashes
    BY DEF Hash, Hashes
  <2>3. IsABag(approvals') /\ BagToSet(approvals') \subseteq Hashes
    BY <1>4, <2>2, ApprovalAdded, ApprovalTaken
      DEF ApproveTransfer, UnApproveTransfer, LInv, OtherTypes
  <2> QED BY <2>1, <2>3, SameWindows DEF LInv, OtherTypes, monthVars
<1> QED BY <1>1, <1>2, <1>3, <1>4 DEF SettingStep

LEMMA TickKeepsLInv ==
  ASSUME LInv, Tick
  PROVE  LInv'
<1>1. ASSUME NEW book \in Books, NEW id \in Identities, NEW t \in Times
      PROVE  /\ counters[book][id][t] \in Counter /\ volume[book][id][t] \in Nat
             /\ loose[book][id][t] \in BOOLEAN
             /\ counters'[book][id][t] = Elapsed(counters[book][id][t])
             /\ volume'[book][id][t] = IF Finished(counters'[book][id][t]) THEN 0
                                       ELSE volume[book][id][t]
             /\ loose'[book][id][t] = (loose[book][id][t] /\ ~Finished(counters'[book][id][t]))
  <2>1. /\ counters[book][id][t] \in Counter /\ volume[book][id][t] \in Nat
        /\ loose[book][id][t] \in BOOLEAN
    BY DEF LInv, WindowTypes
  <2> QED BY <2>1 DEF Tick
<1>2. \A book \in Books, id \in Identities, t \in Times :
        /\ counters'[book][id][t] \in Counter
        /\ counters'[book][id][t].value = counters[book][id][t].value
  BY <1>1, CounterElapsed
<1>3. WindowTypes'
  <2>1. counters' \in [Books -> [Identities -> [Times -> Counter]]]
    BY <1>1, CounterElapsed DEF Tick
  <2>2. volume' \in [Books -> [Identities -> [Times -> Nat]]]
    BY <1>1 DEF Tick
  <2>3. loose' \in [Books -> [Identities -> [Times -> BOOLEAN]]]
    BY <1>1 DEF Tick
  <2> QED BY <2>1, <2>2, <2>3 DEF WindowTypes
<1>4. ASSUME NEW book \in Books, NEW id \in Identities, NEW t \in Times
      PROVE  WindowHolds(book, id, t)'
  <2>1. UNCHANGED <<limits, index>>
    BY DEF Tick
  <2>2. WindowHolds(book, id, t)
    BY DEF LInv, WindowsHold
  <2>3. counters[book][id][t].value \in Nat
    BY <1>1, WordSizeAssumption DEF Counter, Amounts
  <2> QED BY <1>1, <1>2, <2>1, <2>2, <2>3 DEF WindowHolds
<1>5. OtherTypes'
  <2>1. \A exchange \in Exchanges, id \in Identities : Elapsed(monthly[exchange][id]) \in Counter
    BY CounterElapsed DEF LInv, OtherTypes
  <2>2. monthly' \in [Exchanges -> [Identities -> Counter]]
    BY <2>1 DEF Tick
  <2> QED BY <2>2 DEF Tick, LInv, OtherTypes
<1>6. LimitRecords'
  BY DEF Tick, LInv, LimitRecords
<1> QED BY <1>3, <1>4, <1>5, <1>6 DEF LInv, WindowsHold

LEMMA InitLInv == Init => LInv
<1> SUFFICES ASSUME Init PROVE LInv
  OBVIOUS
<1>1. NoCounter \in Counter
  BY WordSizeAssumption DEF NoCounter, Counter, Amounts
<1>2. LimitRecords
  BY LimitsAssumption, EmptySeq DEF Init, LimitRecords, IndexAgrees
<1>3. WindowTypes
  BY <1>1 DEF Init, WindowTypes
<1>4. OtherTypes
  <2>1. IsABag(approvals) /\ BagToSet(approvals) \subseteq Hashes
    BY DEF Init, EmptyBag, SetToBag, IsABag, BagToSet
  <2> QED BY <1>1, <2>1, WordSizeAssumption DEF Init, OtherTypes, Amounts
<1>5. WindowsHold
  <2> SUFFICES ASSUME NEW book \in Books, NEW id \in Identities, NEW t \in Times
               PROVE  WindowHolds(book, id, t)
    BY DEF WindowsHold
  <2>1. counters[book][id][t].value \in Nat
    BY <1>3, WordSizeAssumption DEF WindowTypes, Counter, Amounts
  <2>2. volume[book][id][t] = 0
    BY DEF Init
  <2> QED BY <2>1, <2>2 DEF WindowHolds
<1> QED BY <1>2, <1>3, <1>4, <1>5 DEF LInv

LEMMA NextLInv == LInv /\ [Next]_vars => LInv'
<1> SUFFICES ASSUME LInv, [Next]_vars PROVE LInv'
  OBVIOUS
<1>1. CASE \E from, to \in Wallets : TransferStep(from, to)
  BY <1>1, TransferKeepsLInv DEF TransferStep
<1>2. CASE SettingStep
  BY <1>2, SettingKeepsLInv
<1>3. CASE Tick
  BY <1>3, TickKeepsLInv
<1>4. CASE UNCHANGED vars
  BY <1>4, SameWindows DEF vars, monthVars, LInv, OtherTypes
<1> QED BY <1>1, <1>2, <1>3, <1>4 DEF Next

LEMMA LInvType == LInv => LimitsTypeOK
BY DEF LInv, LimitRecords, IndexAgrees, WindowTypes, OtherTypes, LimitsTypeOK

LEMMA LInvLimits == LInv => TimeLimitsHold
<1> SUFFICES ASSUME LInv, NEW book \in Books, NEW id \in Identities,
                    NEW n \in DOMAIN limits[book], ~loose[book][id][limits[book][n].time]
             PROVE  LET t == limits[book][n].time
                    IN  /\ \/ volume[book][id][t] < limits[book][n].value
                           \/ volume[book][id][t] = 0
                        /\ volume[book][id][t] <= counters[book][id][t].value
  BY DEF TimeLimitsHold
<1>1. limits[book] \in Seq(Limit)
  BY DEF LInv, LimitRecords
<1>2. limits[book][n] \in Limit
  BY <1>1, ElementOfSeq
<1>3. PICK t \in Times : t = limits[book][n].time
  BY <1>2 DEF Limit
<1>4. index[book][t] = n /\ n # 0
  BY <1>1, <1>3, LenProperties DEF LInv, LimitRecords, IndexAgrees
<1>5. WindowHolds(book, id, t)
  BY DEF LInv, WindowsHold
<1> QED BY <1>3, <1>4, <1>5 DEF WindowHolds

-----------------------------------------------------------------------------
(* Types, and the agreement of the two records that                         *)
(* TimeTransfersLimitsModule.setTimeTransferLimit and                       *)
(* TimeExchangeLimitsModule.setExchangeLimit keep of a book's limits, for    *)
(* any number of periods, limits and exchanges.                            *)
THEOREM LimitsTypes == Spec => []LimitsTypeOK
<1>1. Spec => []LInv
  BY InitLInv, NextLInv, PTL DEF Spec
<1> QED BY <1>1, LInvType, PTL

(* What an investor moves within one window stays below the limit, whatever  *)
(* is transferred, refused, forced or set meanwhile: of every limit of        *)
(* TimeTransfersLimitsModule and TimeExchangeLimitsModule, for any periods,   *)
(* any word, any wallets of the investor, and whatever later modules answer.  *)
THEOREM LimitsHold == Spec => []TimeLimitsHold
<1>1. Spec => []LInv
  BY InitLInv, NextLInv, PTL DEF Spec
<1> QED BY <1>1, LInvLimits, PTL
=============================================================================
