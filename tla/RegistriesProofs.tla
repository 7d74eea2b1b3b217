-------------------------- MODULE RegistriesProofs --------------------------
(***************************************************************************)
(* Proofs about the registries, for any wallets, identities, issuers and     *)
(* topics, and any maximum of each list.                                    *)
(*                                                                         *)
(* The first part says what the two changes of an array, an entry appended   *)
(* and an entry replaced by the last one, do to the number of times that it  *)
(* holds something.  The loops over topics follow, then the records of the   *)
(* issuers, and last isVerified, which reads them.                          *)
(***************************************************************************)
EXTENDS Registries, FiniteSetTheorems, WellFoundedInduction, TLAPS

-----------------------------------------------------------------------------
(* Arrays.                                                                 *)

(* A non-empty set of natural numbers has a smallest element.               *)
LEMMA SmallestOf ==
  ASSUME NEW S \in SUBSET Nat, S # {}
  PROVE  \E m \in S : \A k \in S : m <= k
<1> DEFINE Less == {xy \in Nat \X Nat : xy[1] < xy[2]}
<1>1. OpToRel(<, Nat) = Less
  BY DEF OpToRel
<1>2. IsWellFoundedOn(Less, Nat)
  BY <1>1, NatLessThanWellFounded
<1>3. PICK m \in S : \A k \in S : <<k, m>> \notin Less
  <2> HIDE DEF Less
  <2> QED BY <1>2, WFMin
<1>4. ASSUME NEW k \in S PROVE m <= k
  <2>1. k \in Nat /\ m \in Nat
    OBVIOUS
  <2>2. <<k, m>> \in Nat \X Nat /\ <<k, m>>[1] = k /\ <<k, m>>[2] = m
    BY <2>1
  <2>3. ~(k < m)
    BY <1>3, <2>2
  <2> HIDE DEF Less
  <2> QED BY <2>1, <2>3
<1> QED BY <1>4

(* The places of the first n entries that hold x.                           *)
Places(list, n, x) == {k \in 1 .. n : list[k] = x}

LEMMA PlacesFinite ==
  ASSUME NEW list, NEW n \in Nat, NEW x
  PROVE  IsFiniteSet(Places(list, n, x)) /\ Cardinality(Places(list, n, x)) \in Nat
<1>1. IsFiniteSet(1 .. n)
  BY FS_Interval
<1>2. IsFiniteSet(Places(list, n, x))
  BY <1>1, FS_Subset DEF Places
<1> QED BY <1>2, FS_CardinalityType

LEMMA OccurrencesPlaces ==
  ASSUME NEW S, NEW list \in Seq(S), NEW x
  PROVE  /\ Occurrences(list, x) = Cardinality(Places(list, Len(list), x))
         /\ Occurrences(list, x) \in Nat
         /\ (Occurrences(list, x) = 0) <=> (x \notin ToSet(list))
<1>1. DOMAIN list = 1 .. Len(list) /\ Len(list) \in Nat
  OBVIOUS
<1>2. Occurrences(list, x) = Cardinality(Places(list, Len(list), x))
  BY <1>1 DEF Occurrences, Places
<1>3. IsFiniteSet(Places(list, Len(list), x)) /\ Occurrences(list, x) \in Nat
  BY <1>1, <1>2, PlacesFinite
<1>4. (Places(list, Len(list), x) = {}) <=> (x \notin ToSet(list))
  BY <1>1 DEF Places, ToSet
<1> QED BY <1>2, <1>3, <1>4, FS_EmptySet

LEMMA OccurrencesOfEmpty ==
  ASSUME NEW x
  PROVE  Occurrences(<<>>, x) = 0
<1>1. <<>> \in Seq({x}) /\ x \notin ToSet(<<>>)
  BY DEF ToSet
<1> QED BY <1>1, OccurrencesPlaces

(* One place more: as far as n, if the entry n holds x.                      *)
LEMMA PlacesStep ==
  ASSUME NEW list, NEW n \in Nat, n # 0, NEW x
  PROVE  Cardinality(Places(list, n, x)) =
           Cardinality(Places(list, n - 1, x)) + (IF list[n] = x THEN 1 ELSE 0)
<1>1. n - 1 \in Nat /\ n \notin 1 .. n - 1 /\ 1 .. n = (1 .. n - 1) \cup {n}
  OBVIOUS
<1>2. n \notin Places(list, n - 1, x)
  BY <1>1 DEF Places
<1>3. IsFiniteSet(Places(list, n - 1, x)) /\ Cardinality(Places(list, n - 1, x)) \in Nat
  BY <1>1, PlacesFinite
<1>4. CASE list[n] = x
  <2>1. Places(list, n, x) = Places(list, n - 1, x) \cup {n}
    BY <1>1, <1>4 DEF Places
  <2> QED BY <1>2, <1>3, <1>4, <2>1, FS_AddElement
<1>5. CASE list[n] # x
  <2>1. Places(list, n, x) = Places(list, n - 1, x)
    BY <1>1, <1>5 DEF Places
  <2> QED BY <1>3, <1>5, <2>1
<1> QED BY <1>4, <1>5

LEMMA OccurrencesAppend ==
  ASSUME NEW S, NEW list \in Seq(S), NEW e \in S, NEW x
  PROVE  /\ Append(list, e) \in Seq(S)
         /\ Occurrences(Append(list, e), x) = Occurrences(list, x) + (IF e = x THEN 1 ELSE 0)
<1> DEFINE n == Len(list) + 1
           longer == Append(list, e)
<1>1. /\ longer \in Seq(S) /\ Len(longer) = n /\ Len(list) \in Nat /\ n \in Nat /\ n # 0
      /\ n - 1 = Len(list)
      /\ \A k \in 1 .. n - 1 : longer[k] = list[k]
      /\ longer[n] = e
  OBVIOUS
<1> HIDE DEF n, longer
<1>2. Places(longer, n - 1, x) = Places(list, n - 1, x)
  BY <1>1 DEF Places
<1>3. Cardinality(Places(longer, n, x)) =
        Cardinality(Places(list, n - 1, x)) + (IF e = x THEN 1 ELSE 0)
  BY <1>1, <1>2, PlacesStep
<1>4. Occurrences(longer, x) = Occurrences(list, x) + (IF e = x THEN 1 ELSE 0)
  BY <1>1, <1>3, OccurrencesPlaces
<1> QED BY <1>1, <1>4 DEF longer

(* The array whose entry i has given its place to the last one.              *)
Swapped(list, i) == Front([list EXCEPT ![i] = Last(list)])

LEMMA SwapRemovedAt ==
  ASSUME NEW S, NEW list \in Seq(S), NEW x \in ToSet(list)
  PROVE  \E i \in 1 .. Len(list) :
           list[i] = x /\ SwapRemoved(list, x) = Swapped(list, i)
<1> DEFINE I == {k \in DOMAIN list : list[k] = x}
           IsFirst(k) == list[k] = x /\ \A m \in 1 .. k - 1 : list[m] # x
           first == CHOOSE k \in DOMAIN list : IsFirst(k)
<1>1. DOMAIN list = 1 .. Len(list) /\ Len(list) \in Nat
  OBVIOUS
<1>2. I # {} /\ I \subseteq Nat
  BY <1>1 DEF ToSet
<1>3. PICK i \in I : \A k \in I : i <= k
  <2> HIDE DEF I
  <2> QED BY <1>2, SmallestOf
<1>4. i \in DOMAIN list /\ IsFirst(i)
  <2>1. ASSUME NEW m \in 1 .. i - 1 PROVE list[m] # x
    <3>1. i \in 1 .. Len(list) /\ m \in 1 .. Len(list) /\ ~(i <= m)
      BY <1>1, <1>3
    <3> QED BY <1>1, <1>3, <3>1
  <2> QED BY <1>3, <2>1
<1>5. first \in DOMAIN list /\ IsFirst(first)
  <2> HIDE DEF IsFirst
  <2> QED BY <1>4
<1>6. SwapRemoved(list, x) = Swapped(list, first)
  BY DEF SwapRemoved, Swapped
<1> HIDE DEF first
<1> QED BY <1>1, <1>5, <1>6

LEMMA SwappedEntries ==
  ASSUME NEW S, NEW list \in Seq(S), NEW i \in 1 .. Len(list)
  PROVE  /\ Swapped(list, i) \in Seq(S) /\ Len(Swapped(list, i)) = Len(list) - 1
         /\ Len(list) \in Nat /\ Len(list) # 0 /\ Len(list) - 1 \in Nat
         /\ \A k \in 1 .. Len(list) - 1 :
              Swapped(list, i)[k] = IF k = i THEN list[Len(list)] ELSE list[k]
<1> DEFINE n == Len(list)
           x == [list EXCEPT ![i] = Last(list)]
           short == Front(x)
<1>1. n \in Nat /\ n # 0 /\ n - 1 \in Nat /\ DOMAIN list = 1 .. n /\ \A j \in 1 .. n : list[j] \in S
  OBVIOUS
<1>2. n \in 1 .. n /\ Last(list) = list[n] /\ Last(list) \in S
  BY <1>1 DEF Last
<1> HIDE DEF n
<1>3. /\ x \in Seq(S) /\ Len(x) = n
      /\ \A j \in 1 .. n : x[j] = IF j = i THEN list[n] ELSE list[j]
  <2> DEFINE l == Last(list)
  <2>1. l \in S /\ l = list[n]
    BY <1>2
  <2> HIDE DEF l
  <2>2. [list EXCEPT ![i] = l] \in Seq(S) /\ Len([list EXCEPT ![i] = l]) = n
    BY <1>1, <2>1 DEF n
  <2>3. \A j \in 1 .. n : [list EXCEPT ![i] = l][j] = IF j = i THEN l ELSE list[j]
    BY <1>1
  <2> QED BY <2>1, <2>2, <2>3 DEF l
<1> HIDE DEF x
<1>4. short \in Seq(S) /\ Len(short) = n - 1 /\ \A j \in 1 .. n - 1 : short[j] = x[j]
  BY <1>1, <1>3 DEF Front
<1> HIDE DEF short
<1>5. \A k \in 1 .. n - 1 : short[k] = IF k = i THEN list[n] ELSE list[k]
  <2>1. \A k \in 1 .. n - 1 : k \in 1 .. n
    BY <1>1
  <2> QED BY <1>3, <1>4, <2>1
<1>6. short = Swapped(list, i)
  BY DEF Swapped, short, x
<1> QED BY <1>1, <1>4, <1>5, <1>6 DEF n

LEMMA OccurrencesSwapRemoved ==
  ASSUME NEW S, NEW list \in Seq(S), NEW x \in ToSet(list), NEW y
  PROVE  /\ SwapRemoved(list, x) \in Seq(S)
         /\ Len(SwapRemoved(list, x)) = Len(list) - 1
         /\ Occurrences(SwapRemoved(list, x), y) = Occurrences(list, y) - (IF x = y THEN 1 ELSE 0)
<1> DEFINE n == Len(list)
           short == SwapRemoved(list, x)
<1>1. PICK i \in 1 .. n : list[i] = x /\ short = Swapped(list, i)
  BY SwapRemovedAt
<1>2. /\ short \in Seq(S) /\ Len(short) = n - 1
      /\ n \in Nat /\ n # 0 /\ n - 1 \in Nat
      /\ \A k \in 1 .. n - 1 : short[k] = IF k = i THEN list[n] ELSE list[k]
  <2>1. i \in 1 .. Len(list)
    OBVIOUS
  <2>2. /\ Swapped(list, i) \in Seq(S) /\ Len(Swapped(list, i)) = Len(list) - 1
        /\ Len(list) \in Nat /\ Len(list) # 0 /\ Len(list) - 1 \in Nat
        /\ \A k \in 1 .. Len(list) - 1 :
             Swapped(list, i)[k] = IF k = i THEN list[Len(list)] ELSE list[k]
    BY <2>1, SwappedEntries, Zenon
  <2> QED BY <1>1, <2>2
<1> HIDE DEF n, short
<1> DEFINE old == Places(list, n - 1, y)
           new == Places(short, n - 1, y)
<1>3. Cardinality(Places(list, n, y)) = Cardinality(old) + (IF list[n] = y THEN 1 ELSE 0)
  BY <1>2, PlacesStep
<1>4. IsFiniteSet(old) /\ IsFiniteSet(new) /\ Cardinality(old) \in Nat
  BY <1>2, PlacesFinite
<1>5. Cardinality(new) = Cardinality(Places(list, n, y)) - (IF x = y THEN 1 ELSE 0)
  <2>1. CASE i = n
    <3>1. \A k \in 1 .. n - 1 : short[k] = list[k]
      BY <1>2, <2>1
    <3>2. new = old
      BY <3>1 DEF Places
    <3> HIDE DEF new, old
    <3> QED BY <1>1, <1>3, <1>4, <2>1, <3>2
  <2>2. CASE i # n
    <3> DEFINE A == old \ {i}
    <3>1. i \in 1 .. n - 1
      BY <1>2, <2>2
    <3>2. (i \in old) <=> (x = y)
      BY <1>1, <3>1 DEF Places
    <3>3. /\ IsFiniteSet(A) /\ Cardinality(A) \in Nat /\ i \notin A
          /\ Cardinality(A) = Cardinality(old) - (IF x = y THEN 1 ELSE 0)
      <4>1. Cardinality(A) = IF i \in old THEN Cardinality(old) - 1 ELSE Cardinality(old)
        BY <1>4, FS_RemoveElement
      <4>2. IsFiniteSet(A)
        BY <1>4, FS_RemoveElement
      <4>3. Cardinality(A) \in Nat
        BY <4>2, FS_CardinalityType
      <4> HIDE DEF old
      <4> QED BY <1>4, <3>2, <4>1, <4>2, <4>3
    <3>4. CASE list[n] = y
      <4>1. new = A \cup {i}
        BY <1>2, <3>1, <3>4 DEF Places
      <4> HIDE DEF new, A, old
      <4>2. Cardinality(new) = Cardinality(A) + 1
        BY <3>3, <4>1, FS_AddElement
      <4> QED BY <1>3, <1>4, <3>3, <3>4, <4>2
    <3>5. CASE list[n] # y
      <4>1. new = A
        BY <1>2, <3>1, <3>5 DEF Places
      <4> HIDE DEF new, A, old
      <4> QED BY <1>3, <1>4, <3>3, <3>5, <4>1
    <3> QED BY <3>4, <3>5
  <2> QED BY <2>1, <2>2
<1>6. /\ Occurrences(list, y) = Cardinality(Places(list, n, y))
      /\ Occurrences(short, y) = Cardinality(new)
  BY <1>2, OccurrencesPlaces DEF n
<1> HIDE DEF new
<1> QED BY <1>2, <1>5, <1>6 DEF n, short

LEMMA SwapRemovedInjective ==
  ASSUME NEW S, NEW list \in Seq(S), IsInjective(list), NEW x
  PROVE  IsInjective(SwapRemoved(list, x))
<1>1. CASE x \notin ToSet(list)
  BY <1>1 DEF SwapRemoved
<1>2. CASE x \in ToSet(list)
  <2> DEFINE n == Len(list)
             short == SwapRemoved(list, x)
  <2>1. PICK i \in 1 .. n : list[i] = x /\ short = Swapped(list, i)
    BY <1>2, SwapRemovedAt
  <2>2. /\ short \in Seq(S) /\ Len(short) = n - 1 /\ n \in Nat
        /\ \A k \in 1 .. n - 1 : short[k] = IF k = i THEN list[n] ELSE list[k]
    <3>1. i \in 1 .. Len(list)
      OBVIOUS
    <3>2. /\ Swapped(list, i) \in Seq(S) /\ Len(Swapped(list, i)) = Len(list) - 1
          /\ Len(list) \in Nat /\ Len(list) # 0 /\ Len(list) - 1 \in Nat
          /\ \A k \in 1 .. Len(list) - 1 :
               Swapped(list, i)[k] = IF k = i THEN list[Len(list)] ELSE list[k]
      BY <3>1, SwappedEntries, Zenon
    <3> QED BY <2>1, <3>2
  <2>3. \A a, b \in 1 .. n : list[a] = list[b] => a = b
    BY DEF IsInjective
  <2> HIDE DEF n, short
  <2>4. ASSUME NEW a \in 1 .. n - 1, NEW b \in 1 .. n - 1, short[a] = short[b]
        PROVE  a = b
    <3>1. a \in 1 .. n /\ b \in 1 .. n /\ n \in 1 .. n /\ a # n /\ b # n
      BY <2>2
    <3> QED BY <2>2, <2>3, <2>4, <3>1
  <2>5. DOMAIN short = 1 .. n - 1
    BY <2>2
  <2> QED BY <2>4, <2>5 DEF IsInjective, short
<1> QED BY <1>1, <1>2

LEMMA AppendedInjective ==
  ASSUME NEW S, NEW list \in Seq(S), IsInjective(list), NEW e \in S, e \notin ToSet(list)
  PROVE  IsInjective(Append(list, e))
<1> SUFFICES ASSUME NEW a \in DOMAIN Append(list, e), NEW b \in DOMAIN Append(list, e),
                    Append(list, e)[a] = Append(list, e)[b]
             PROVE  a = b
  BY DEF IsInjective
<1>1. /\ DOMAIN list = 1 .. Len(list) /\ DOMAIN Append(list, e) = 1 .. Len(list) + 1
      /\ \A k \in 1 .. Len(list) : Append(list, e)[k] = list[k]
      /\ Append(list, e)[Len(list) + 1] = e /\ Len(list) \in Nat
  OBVIOUS
<1>2. (a \in 1 .. Len(list) \/ a = Len(list) + 1) /\ (b \in 1 .. Len(list) \/ b = Len(list) + 1)
  BY <1>1
<1>3. \A k \in 1 .. Len(list) : list[k] # e
  BY <1>1 DEF ToSet
<1> QED BY <1>1, <1>2, <1>3 DEF IsInjective

-----------------------------------------------------------------------------
(* The loops over topics.                                                  *)

(* One topic of such a loop.                                                *)
ChangedAt(a, issuer, topic, add) == [a EXCEPT ![topic] = Changed(a[topic], issuer, add)]

(* One step of the loop, for a function g that need not be it.               *)
LoopStep(g, index, issuer, topics, add, n) ==
  IF n = 0 THEN index ELSE ChangedAt(g[n - 1], issuer, topics[n], add)

IsLoop(g, index, issuer, topics, add, n) ==
  g = [i \in 0 .. n |-> LoopStep(g, index, issuer, topics, add, i)]

LEMMA LoopExists ==
  ASSUME NEW index, NEW issuer, NEW topics, NEW add, NEW N \in Nat
  PROVE  \E g : IsLoop(g, index, issuer, topics, add, N)
<1> DEFINE Step(g, i) == LoopStep(g, index, issuer, topics, add, i)
           Has(n) == \E g : g = [i \in 0 .. n |-> Step(g, i)]
           Bad == {n \in Nat : ~Has(n)}
<1> SUFFICES ASSUME N \in Bad PROVE FALSE
  BY Zenon DEF IsLoop
<1>1. Bad \subseteq Nat
  OBVIOUS
<1>2. PICK n \in Bad : \A k \in Bad : n <= k
  <2> HIDE DEF Bad
  <2> QED BY <1>1, SmallestOf
<1>3. CASE n = 0
  <2> DEFINE g == [i \in 0 .. 0 |-> index]
  <2>1. g = [i \in 0 .. 0 |-> Step(g, i)]
    BY DEF LoopStep
  <2> QED BY <2>1, <1>3
<1>4. CASE n # 0
  <2>1. n - 1 \in Nat /\ n \in Nat
    BY <1>4
  <2>2. n - 1 \notin Bad
    BY <1>1, <1>2, <2>1
  <2>3. PICK h : h = [i \in 0 .. n - 1 |-> Step(h, i)]
    BY <2>1, <2>2
  <2> DEFINE g == [i \in 0 .. n |-> Step(h, i)]
  <2>4. ASSUME NEW i \in 0 .. n - 1 PROVE g[i] = h[i]
    <3>1. i \in 0 .. n
      BY <2>1
    <3> HIDE DEF Step
    <3> QED BY <2>3, <3>1
  <2>5. ASSUME NEW i \in 0 .. n PROVE Step(h, i) = Step(g, i)
    <3>1. CASE i = 0
      BY <3>1 DEF LoopStep
    <3>2. CASE i # 0
      <4>1. i - 1 \in 0 .. n - 1
        BY <2>1, <3>2
      <4>2. g[i - 1] = h[i - 1]
        BY <2>4, <4>1
      <4> HIDE DEF g
      <4> QED BY <4>2 DEF LoopStep
    <3> QED BY <3>1, <3>2
  <2>6. g = [i \in 0 .. n |-> Step(g, i)]
    <3> HIDE DEF g, Step
    <3>1. g = [i \in 0 .. n |-> Step(h, i)]
      BY DEF g
    <3> QED BY <3>1, <2>5
  <2> QED BY <2>6
<1> QED BY <1>3, <1>4

LEMMA ChangedUpToStep ==
  ASSUME NEW index, NEW issuer, NEW topics, Len(topics) \in Nat, NEW add
  PROVE  ChangedUpTo(index, issuer, topics, add) =
           [n \in 0 .. Len(topics) |->
              LoopStep(ChangedUpTo(index, issuer, topics, add), index, issuer, topics, add, n)]
<1> DEFINE Is(g) == g = [n \in 0 .. Len(topics) |->
                           IF n = 0 THEN index
                           ELSE [g[n - 1] EXCEPT ![topics[n]] = Changed(g[n - 1][topics[n]], issuer, add)]]
<1>1. \E g : Is(g)
  <2>1. PICK g : IsLoop(g, index, issuer, topics, add, Len(topics))
    BY LoopExists
  <2>2. Is(g)
    BY <2>1, Zenon DEF IsLoop, LoopStep, ChangedAt
  <2> HIDE DEF Is
  <2> QED BY <2>2
<1>2. ChangedUpTo(index, issuer, topics, add) = CHOOSE g : Is(g)
  BY DEF ChangedUpTo
<1>3. Is(ChangedUpTo(index, issuer, topics, add))
  BY <1>1, <1>2
<1> QED BY <1>3, Zenon DEF LoopStep, ChangedAt

(* The index after n of the topics.                                         *)
LEMMA ChangedUpToAt ==
  ASSUME NEW index, NEW issuer, NEW topics, Len(topics) \in Nat, NEW add,
         NEW n \in 0 .. Len(topics)
  PROVE  ChangedUpTo(index, issuer, topics, add)[n]
           = LoopStep(ChangedUpTo(index, issuer, topics, add), index, issuer, topics, add, n)
<1> DEFINE after == ChangedUpTo(index, issuer, topics, add)
<1>1. after = [i \in 0 .. Len(topics) |-> LoopStep(after, index, issuer, topics, add, i)]
  BY ChangedUpToStep
<1> HIDE DEF after
<1>2. after[n] = LoopStep(after, index, issuer, topics, add, n)
  BY <1>1
<1> QED BY <1>2 DEF after

(* What a loop does to a count.                                             *)
Counted(add, count, more) == IF add THEN count + more ELSE count - more

One(b) == IF b THEN 1 ELSE 0

IsChangedOnce(b, a, issuer, topic, add) ==
  /\ b \in [Topics -> Seq(Issuers)]
  /\ \A t \in Topics, i \in Issuers :
       Occurrences(b[t], i) = Counted(add, Occurrences(a[t], i), One(t = topic /\ i = issuer))

(* One topic: the issuer is in its list once more, or once less.             *)
LEMMA ChangedOnce ==
  ASSUME NEW a \in [Topics -> Seq(Issuers)], NEW issuer \in Issuers, NEW topic \in Topics,
         NEW add \in BOOLEAN, add \/ Occurrences(a[topic], issuer) # 0
  PROVE  IsChangedOnce(ChangedAt(a, issuer, topic, add), a, issuer, topic, add)
<1> DEFINE new == Changed(a[topic], issuer, add)
           b == [a EXCEPT ![topic] = new]
<1>1. a[topic] \in Seq(Issuers)
  OBVIOUS
<1>2. /\ new \in Seq(Issuers)
      /\ \A i \in Issuers :
           Occurrences(new, i) = Counted(add, Occurrences(a[topic], i), One(i = issuer))
  <2>1. CASE add
    <3>1. new = Append(a[topic], issuer)
      BY <2>1 DEF Changed
    <3>2. new \in Seq(Issuers)
      BY <1>1, <3>1
    <3> HIDE DEF new
    <3>3. ASSUME NEW i \in Issuers
          PROVE  Occurrences(new, i) = Counted(add, Occurrences(a[topic], i), One(i = issuer))
      <4>1. Occurrences(new, i) = Occurrences(a[topic], i) + (IF issuer = i THEN 1 ELSE 0)
        BY <1>1, <3>1, OccurrencesAppend
      <4> QED BY <2>1, <4>1 DEF Counted, One
    <3> QED BY <3>2, <3>3
  <2>2. CASE ~add
    <3>1. new = SwapRemoved(a[topic], issuer)
      BY <2>2 DEF Changed
    <3>2. issuer \in ToSet(a[topic])
      BY <1>1, <2>2, OccurrencesPlaces
    <3>3. new \in Seq(Issuers)
      BY <1>1, <3>1, <3>2, OccurrencesSwapRemoved
    <3> HIDE DEF new
    <3>4. ASSUME NEW i \in Issuers
          PROVE  Occurrences(new, i) = Counted(add, Occurrences(a[topic], i), One(i = issuer))
      <4>1. Occurrences(new, i) = Occurrences(a[topic], i) - (IF issuer = i THEN 1 ELSE 0)
        BY <1>1, <3>1, <3>2, OccurrencesSwapRemoved
      <4> QED BY <2>2, <4>1 DEF Counted, One
    <3> QED BY <3>3, <3>4
  <2> QED BY <2>1, <2>2
<1> HIDE DEF new
<1>3. b \in [Topics -> Seq(Issuers)]
  BY <1>2
<1>4. ASSUME NEW t \in Topics, NEW i \in Issuers
      PROVE  Occurrences(b[t], i)
               = Counted(add, Occurrences(a[t], i), One(t = topic /\ i = issuer))
  <2>1. CASE t = topic
    <3>1. b[t] = new
      BY <2>1
    <3> HIDE DEF b
    <3> QED BY <1>2, <2>1, <3>1
  <2>2. CASE t # topic
    <3>1. b[t] = a[t] /\ a[t] \in Seq(Issuers)
      BY <2>2
    <3>2. Occurrences(a[t], i) \in Nat
      BY <3>1, OccurrencesPlaces
    <3> HIDE DEF b
    <3> QED BY <2>2, <3>1, <3>2 DEF Counted, One
  <2> QED BY <2>1, <2>2
<1>5. b = ChangedAt(a, issuer, topic, add)
  BY DEF new, ChangedAt
<1> HIDE DEF b
<1> QED BY <1>3, <1>4, <1>5, Zenon DEF IsChangedOnce

(* A topic is at no more of the first n places than of all of them.          *)
LEMMA PlacesBounded ==
  ASSUME NEW S, NEW list \in Seq(S), NEW n \in 0 .. Len(list), NEW x
  PROVE  Cardinality(Places(list, n, x)) <= Occurrences(list, x)
<1>1. Len(list) \in Nat /\ 1 .. n \subseteq 1 .. Len(list)
  OBVIOUS
<1>2. Places(list, n, x) \subseteq Places(list, Len(list), x)
  BY <1>1 DEF Places
<1>3. IsFiniteSet(Places(list, Len(list), x))
  BY <1>1, PlacesFinite
<1>4. Cardinality(Places(list, n, x)) <= Cardinality(Places(list, Len(list), x))
  BY <1>2, <1>3, FS_Subset
<1> QED BY <1>4, OccurrencesPlaces

(* The index after the first n topics, if the loop removes no more than      *)
(* there is.                                                                *)
IsIndexAfter(a, index, issuer, topics, add, n) ==
  /\ a \in [Topics -> Seq(Issuers)]
  /\ \A t \in Topics, i \in Issuers :
       Occurrences(a[t], i)
         = Counted(add, Occurrences(index[t], i),
                   IF i = issuer THEN Cardinality(Places(topics, n, t)) ELSE 0)

CoversTopics(index, issuer, topics) ==
  \A t \in Topics : Occurrences(topics, t) <= Occurrences(index[t], issuer)

LEMMA NextIndexAfter ==
  ASSUME NEW index \in [Topics -> Seq(Issuers)], NEW issuer \in Issuers,
         NEW topics \in Seq(Topics), NEW add \in BOOLEAN,
         add \/ CoversTopics(index, issuer, topics),
         NEW n \in 1 .. Len(topics), NEW a,
         IsIndexAfter(a, index, issuer, topics, add, n - 1)
  PROVE  IsIndexAfter(ChangedAt(a, issuer, topics[n], add), index, issuer, topics, add, n)
<1> DEFINE topic == topics[n]
           b == ChangedAt(a, issuer, topic, add)
           P(k, t) == Cardinality(Places(topics, k, t))
<1>1. /\ Len(topics) \in Nat /\ n \in Nat /\ n # 0 /\ n - 1 \in Nat
      /\ n - 1 \in 0 .. Len(topics) /\ n \in 0 .. Len(topics) /\ topic \in Topics
  OBVIOUS
<1>2. a \in [Topics -> Seq(Issuers)]
  BY DEF IsIndexAfter
<1>3. \A t \in Topics : P(n, t) = P(n - 1, t) + One(t = topic) /\ P(n - 1, t) \in Nat
  <2> SUFFICES ASSUME NEW t \in Topics
               PROVE  P(n, t) = P(n - 1, t) + One(t = topic) /\ P(n - 1, t) \in Nat
    OBVIOUS
  <2>1. P(n, t) = P(n - 1, t) + (IF topics[n] = t THEN 1 ELSE 0)
    BY <1>1, PlacesStep
  <2>2. P(n - 1, t) \in Nat
    BY <1>1, PlacesFinite
  <2> QED BY <2>1, <2>2 DEF One
<1>4. \A t \in Topics, i \in Issuers : Occurrences(index[t], i) \in Nat
  <2> SUFFICES ASSUME NEW t \in Topics, NEW i \in Issuers
               PROVE  Occurrences(index[t], i) \in Nat
    OBVIOUS
  <2>1. index[t] \in Seq(Issuers)
    OBVIOUS
  <2> QED BY <2>1, OccurrencesPlaces
<1>5. add \/ Occurrences(a[topic], issuer) # 0
  <2> SUFFICES ASSUME ~add PROVE Occurrences(a[topic], issuer) # 0
    OBVIOUS
  <2>1. Occurrences(a[topic], issuer) = Occurrences(index[topic], issuer) - P(n - 1, topic)
    BY <1>1 DEF IsIndexAfter, Counted
  <2>2. Occurrences(topics, topic) <= Occurrences(index[topic], issuer)
    BY <1>1 DEF CoversTopics
  <2>3. P(n, topic) <= Occurrences(topics, topic) /\ Occurrences(topics, topic) \in Nat
    BY <1>1, PlacesBounded, OccurrencesPlaces
  <2>4. P(n, topic) = P(n - 1, topic) + 1 /\ P(n - 1, topic) \in Nat
    BY <1>1, <1>3 DEF One
  <2>5. Occurrences(index[topic], issuer) \in Nat
    BY <1>1, <1>4
  <2> HIDE DEF P, topic
  <2> QED BY <2>1, <2>2, <2>3, <2>4, <2>5
<1>6. /\ b \in [Topics -> Seq(Issuers)]
      /\ \A t \in Topics, i \in Issuers :
           Occurrences(b[t], i)
             = Counted(add, Occurrences(a[t], i), One(t = topic /\ i = issuer))
  <2>1. topic \in Topics
    BY <1>1
  <2> HIDE DEF topic
  <2>2. add \/ Occurrences(a[topic], issuer) # 0
    BY <1>5
  <2>3. IsChangedOnce(b, a, issuer, topic, add)
    BY <1>2, <2>1, <2>2, ChangedOnce
  <2> QED BY <2>3, Zenon DEF IsChangedOnce
<1>7. ASSUME NEW t \in Topics, NEW i \in Issuers
      PROVE  Occurrences(b[t], i)
               = Counted(add, Occurrences(index[t], i), IF i = issuer THEN P(n, t) ELSE 0)
  <2>1. Occurrences(b[t], i)
          = Counted(add, Occurrences(a[t], i), One(t = topic /\ i = issuer))
    BY <1>6
  <2>2. Occurrences(a[t], i)
          = Counted(add, Occurrences(index[t], i), IF i = issuer THEN P(n - 1, t) ELSE 0)
    BY DEF IsIndexAfter
  <2>3. Occurrences(index[t], i) \in Nat
    BY <1>4
  <2>4. P(n, t) = P(n - 1, t) + One(t = topic) /\ P(n - 1, t) \in Nat
    BY <1>3
  <2> HIDE DEF b, P, topic
  <2>5. CASE i = issuer
    <3>1. Occurrences(b[t], i) = Counted(add, Occurrences(a[t], i), One(t = topic))
      BY <2>1, <2>5, Zenon DEF One
    <3>2. Occurrences(a[t], i) = Counted(add, Occurrences(index[t], i), P(n - 1, t))
      BY <2>2, <2>5
    <3>3. One(t = topic) \in Nat
      BY DEF One
    <3>4. P(n, t) \in Nat
      BY <2>4, <3>3
    <3>5. Counted(add, Counted(add, Occurrences(index[t], i), P(n - 1, t)), One(t = topic))
            = Counted(add, Occurrences(index[t], i), P(n, t))
      BY <2>3, <2>4, <3>3, <3>4 DEF Counted
    <3> QED BY <2>5, <3>1, <3>2, <3>5
  <2>6. CASE i # issuer
    <3>1. Occurrences(b[t], i) = Counted(add, Occurrences(a[t], i), 0)
      BY <2>1, <2>6, Zenon DEF One
    <3> QED BY <2>2, <2>3, <2>6, <3>1 DEF Counted
  <2> QED BY <2>5, <2>6
<1> HIDE DEF b
<1>8. IsIndexAfter(b, index, issuer, topics, add, n)
  BY <1>6, <1>7 DEF IsIndexAfter
<1> QED BY <1>8 DEF b

(* The loop as a whole: under each topic the issuer is listed once more, or  *)
(* once less, for each time that the list of topics holds it, and nobody     *)
(* else's place in the count changes.                                       *)
LEMMA LoopCounts ==
  ASSUME NEW index \in [Topics -> Seq(Issuers)], NEW issuer \in Issuers,
         NEW topics \in Seq(Topics), NEW add \in BOOLEAN,
         add \/ CoversTopics(index, issuer, topics)
  PROVE  IsIndexAfter(ChangedUpTo(index, issuer, topics, add)[Len(topics)],
                      index, issuer, topics, add, Len(topics))
<1> DEFINE after == ChangedUpTo(index, issuer, topics, add)
           Good(k) == IsIndexAfter(after[k], index, issuer, topics, add, k)
           Bad == {k \in 0 .. Len(topics) : ~Good(k)}
<1>1. Len(topics) \in Nat /\ Len(topics) \in 0 .. Len(topics) /\ Bad \subseteq Nat
  OBVIOUS
<1> SUFFICES ASSUME Bad # {} PROVE FALSE
  <2> HIDE DEF Good
  <2>1. Good(Len(topics))
    BY <1>1
  <2> QED BY <2>1 DEF Good
<1>2. PICK n \in Bad : \A k \in Bad : n <= k
  <2> HIDE DEF Bad
  <2> QED BY <1>1, SmallestOf
<1>3. n \in 0 .. Len(topics) /\ ~Good(n)
  BY <1>2
<1>4. after[n] = LoopStep(after, index, issuer, topics, add, n)
  <2>1. n \in 0 .. Len(topics) /\ Len(topics) \in Nat
    BY <1>1, <1>3
  <2> QED BY <2>1, ChangedUpToAt
<1> HIDE DEF after
<1>5. CASE n = 0
  <2>1. after[n] = index
    BY <1>4, <1>5 DEF LoopStep
  <2>2. \A t \in Topics : Places(topics, 0, t) = {}
    BY DEF Places
  <2>3. ASSUME NEW t \in Topics, NEW i \in Issuers
        PROVE  Occurrences(index[t], i)
                 = Counted(add, Occurrences(index[t], i),
                           IF i = issuer THEN Cardinality(Places(topics, 0, t)) ELSE 0)
    <3>1. index[t] \in Seq(Issuers)
      OBVIOUS
    <3>2. Occurrences(index[t], i) \in Nat
      BY <3>1, OccurrencesPlaces
    <3>3. Cardinality(Places(topics, 0, t)) = 0
      BY <2>2, FS_EmptySet
    <3> QED BY <3>2, <3>3 DEF Counted
  <2>4. Good(n)
    BY <1>5, <2>1, <2>3 DEF IsIndexAfter
  <2> QED BY <1>3, <2>4
<1>6. CASE n # 0
  <2>1. n \in 1 .. Len(topics) /\ n - 1 \in 0 .. Len(topics) /\ ~(n <= n - 1)
    BY <1>1, <1>3, <1>6
  <2>2. Good(n - 1)
    <3> HIDE DEF Good
    <3> QED BY <1>2, <2>1
  <2>3. after[n] = ChangedAt(after[n - 1], issuer, topics[n], add)
    BY <1>4, <1>6 DEF LoopStep
  <2>4. Good(n)
    <3> DEFINE a == after[n - 1]
    <3>1. IsIndexAfter(a, index, issuer, topics, add, n - 1)
      BY <2>2
    <3> HIDE DEF a
    <3>2. IsIndexAfter(ChangedAt(a, issuer, topics[n], add), index, issuer, topics, add, n)
      BY <2>1, <3>1, NextIndexAfter, Zenon
    <3> QED BY <2>3, <3>2 DEF a
  <2> QED BY <1>3, <2>4
<1> QED BY <1>5, <1>6

LEMMA ListedCounts ==
  ASSUME NEW index \in [Topics -> Seq(Issuers)], NEW issuer \in Issuers,
         NEW topics \in Seq(Topics)
  PROVE  /\ Listed(index, issuer, topics) \in [Topics -> Seq(Issuers)]
         /\ \A t \in Topics, i \in Issuers :
              Occurrences(Listed(index, issuer, topics)[t], i)
                = Occurrences(index[t], i) + (IF i = issuer THEN Occurrences(topics, t) ELSE 0)
<1>1. IsIndexAfter(Listed(index, issuer, topics), index, issuer, topics, TRUE, Len(topics))
  BY LoopCounts DEF Listed
<1>2. \A t \in Topics : Occurrences(topics, t) = Cardinality(Places(topics, Len(topics), t))
  BY OccurrencesPlaces
<1> QED BY <1>1, <1>2 DEF IsIndexAfter, Counted

LEMMA UnlistedCounts ==
  ASSUME NEW index \in [Topics -> Seq(Issuers)], NEW issuer \in Issuers,
         NEW topics \in Seq(Topics), CoversTopics(index, issuer, topics)
  PROVE  /\ Unlisted(index, issuer, topics) \in [Topics -> Seq(Issuers)]
         /\ \A t \in Topics, i \in Issuers :
              Occurrences(Unlisted(index, issuer, topics)[t], i)
                = Occurrences(index[t], i) - (IF i = issuer THEN Occurrences(topics, t) ELSE 0)
<1>1. IsIndexAfter(Unlisted(index, issuer, topics), index, issuer, topics, FALSE, Len(topics))
  BY LoopCounts DEF Unlisted
<1>2. \A t \in Topics : Occurrences(topics, t) = Cardinality(Places(topics, Len(topics), t))
  BY OccurrencesPlaces
<1> QED BY <1>1, <1>2 DEF IsIndexAfter, Counted

-----------------------------------------------------------------------------
(* The records of the trusted issuers.                                     *)

RegistriesInv == RegistriesTypeOK /\ IssuerIndexesAgree

LEMMA TopicListsAreLists ==
  ASSUME NEW topics \in TopicLists
  PROVE  topics \in Seq(Topics) /\ topics # <<>>
<1>1. PICK n \in 1 .. MaxTopicsOfIssuer : topics \in [1 .. n -> Topics]
  BY DEF TopicLists
<1>2. n \in Nat /\ n # 0 /\ MaxTopicsOfIssuer \in Nat
  BY RegistriesAssumption
<1>3. topics \in Seq(Topics) /\ Len(topics) = n
  BY <1>1, <1>2
<1> QED BY <1>2, <1>3

(* What the two invariants say of one issuer, as facts about counts.         *)
LEMMA IssuerCounts ==
  ASSUME RegistriesInv, NEW i \in Issuers
  PROVE  /\ issuerTopics[i] \in Seq(Topics)
         /\ Occurrences(trustedIssuers, i) = IF issuerTopics[i] # <<>> THEN 1 ELSE 0
         /\ \A t \in Topics :
              /\ Occurrences(topicIssuers[t], i) = Occurrences(issuerTopics[i], t)
              /\ Occurrences(topicIssuers[t], i) \in Nat
<1>1. issuerTopics[i] \in TopicLists \cup {<<>>}
  BY DEF RegistriesInv, RegistriesTypeOK
<1>2. issuerTopics[i] \in Seq(Topics)
  <2>1. CASE issuerTopics[i] \in TopicLists
    BY <2>1, TopicListsAreLists
  <2>2. CASE issuerTopics[i] = <<>>
    BY <2>2
  <2> QED BY <1>1, <2>1, <2>2
<1>3. Occurrences(trustedIssuers, i) = IF issuerTopics[i] # <<>> THEN 1 ELSE 0
  BY DEF RegistriesInv, IssuerIndexesAgree, IsTrusted
<1>4. ASSUME NEW t \in Topics
      PROVE  /\ Occurrences(topicIssuers[t], i) = Occurrences(issuerTopics[i], t)
             /\ Occurrences(topicIssuers[t], i) \in Nat
  <2>1. topicIssuers[t] \in Seq(Issuers)
    BY DEF RegistriesInv, RegistriesTypeOK
  <2>2. Occurrences(topicIssuers[t], i) \in Nat
    BY <2>1, OccurrencesPlaces
  <2> QED BY <2>2 DEF RegistriesInv, IssuerIndexesAgree
<1> QED BY <1>2, <1>3, <1>4

LEMMA RegistriesInitially ==
  ASSUME Init
  PROVE  RegistriesInv
<1>1. RegistriesTypeOK
  <2>1. <<>> \in Seq(Issuers) /\ <<>> \in Seq(Topics) /\ Len(<<>>) = 0
    OBVIOUS
  <2>2. IsInjective(<<>>)
    BY DEF IsInjective
  <2>3. /\ trustedIssuers \in Seq(Issuers) /\ Len(trustedIssuers) <= MaxIssuers
        /\ claimTopics \in Seq(Topics) /\ IsInjective(claimTopics)
        /\ Len(claimTopics) <= MaxRequired
    BY <2>1, <2>2, RegistriesAssumption DEF Init
  <2>4. /\ issuerTopics \in [Issuers -> TopicLists \cup {<<>>}]
        /\ topicIssuers \in [Topics -> Seq(Issuers)]
    BY <2>1 DEF Init
  <2>5. /\ identity \in [Wallets -> Identities \cup {NoIdentity}]
        /\ mode \in [Issuers -> {"signs", "unkeyed", "reverts"}]
        /\ failures \in 0 .. MaxFailures
    BY RegistriesAssumption DEF Init
  <2>6. claims \in [Identities -> [Issuers -> [Topics -> {"none", "signed", "revoked"}]]]
    BY DEF Init
  <2> QED BY <2>3, <2>4, <2>5, <2>6 DEF RegistriesTypeOK
<1>2. IssuerIndexesAgree
  <2> SUFFICES ASSUME NEW i \in Issuers
               PROVE  /\ Occurrences(trustedIssuers, i) = (IF IsTrusted(i) THEN 1 ELSE 0)
                      /\ \A t \in Topics :
                           Occurrences(topicIssuers[t], i) = Occurrences(issuerTopics[i], t)
    BY DEF IssuerIndexesAgree
  <2>1. issuerTopics[i] = <<>> /\ trustedIssuers = <<>> /\ \A t \in Topics : topicIssuers[t] = <<>>
    BY DEF Init
  <2> QED BY <2>1, OccurrencesOfEmpty DEF IsTrusted
<1> QED BY <1>1, <1>2 DEF RegistriesInv

LEMMA AddTrustedIssuerKeeps ==
  ASSUME RegistriesInv, NEW issuer \in Issuers, NEW topics \in TopicLists,
         AddTrustedIssuer(issuer, topics)
  PROVE  RegistriesInv'
<1>1. /\ issuerTopics[issuer] = <<>> /\ Len(trustedIssuers) < MaxIssuers
      /\ trustedIssuers' = Append(trustedIssuers, issuer)
      /\ issuerTopics' = [issuerTopics EXCEPT ![issuer] = topics]
      /\ topicIssuers' = Listed(topicIssuers, issuer, topics)
  BY DEF AddTrustedIssuer, IsTrusted
<1>2. topics \in Seq(Topics) /\ topics # <<>>
  BY TopicListsAreLists
<1>3. /\ trustedIssuers \in Seq(Issuers) /\ issuerTopics \in [Issuers -> TopicLists \cup {<<>>}]
      /\ topicIssuers \in [Topics -> Seq(Issuers)]
  BY DEF RegistriesInv, RegistriesTypeOK
<1>4. /\ topicIssuers' \in [Topics -> Seq(Issuers)]
      /\ \A t \in Topics, i \in Issuers :
           Occurrences(topicIssuers'[t], i)
             = Occurrences(topicIssuers[t], i) + (IF i = issuer THEN Occurrences(topics, t) ELSE 0)
  <2>1. topicIssuers' \in [Topics -> Seq(Issuers)]
    BY <1>1, <1>2, <1>3, ListedCounts
  <2>2. ASSUME NEW t \in Topics, NEW i \in Issuers
        PROVE  Occurrences(topicIssuers'[t], i)
                 = Occurrences(topicIssuers[t], i) + (IF i = issuer THEN Occurrences(topics, t) ELSE 0)
    <3> DEFINE old == topicIssuers
               new == Listed(old, issuer, topics)
    <3>1. old \in [Topics -> Seq(Issuers)] /\ topicIssuers' = new
      BY <1>1, <1>3
    <3> HIDE DEF old
    <3>2. Occurrences(new[t], i)
            = Occurrences(old[t], i) + (IF i = issuer THEN Occurrences(topics, t) ELSE 0)
      BY <1>2, <3>1, ListedCounts
    <3> QED BY <3>1, <3>2 DEF old
  <2> QED BY <2>1, <2>2
<1>5. RegistriesTypeOK'
  <2>1. /\ trustedIssuers' \in Seq(Issuers) /\ Len(trustedIssuers') = Len(trustedIssuers) + 1
        /\ Len(trustedIssuers) \in Nat /\ MaxIssuers \in Nat
    BY <1>1, <1>3, RegistriesAssumption
  <2>2. Len(trustedIssuers') <= MaxIssuers
    BY <1>1, <2>1
  <2>3. issuerTopics' \in [Issuers -> TopicLists \cup {<<>>}]
    BY <1>1, <1>3
  <2> QED BY <1>4, <2>1, <2>2, <2>3
        DEF RegistriesInv, RegistriesTypeOK, AddTrustedIssuer, claimVars
<1>6. ASSUME NEW i \in Issuers
      PROVE  /\ Occurrences(trustedIssuers', i) = (IF issuerTopics'[i] # <<>> THEN 1 ELSE 0)
             /\ \A t \in Topics :
                  Occurrences(topicIssuers'[t], i) = Occurrences(issuerTopics'[i], t)
  <2>1. /\ Occurrences(trustedIssuers, i) = IF issuerTopics[i] # <<>> THEN 1 ELSE 0
        /\ \A t \in Topics :
             /\ Occurrences(topicIssuers[t], i) = Occurrences(issuerTopics[i], t)
             /\ Occurrences(topicIssuers[t], i) \in Nat
    BY IssuerCounts
  <2>2. Occurrences(trustedIssuers', i)
          = Occurrences(trustedIssuers, i) + (IF issuer = i THEN 1 ELSE 0)
    BY <1>1, <1>3, OccurrencesAppend
  <2>3. CASE i = issuer
    <3>1. issuerTopics'[i] = topics /\ issuerTopics[i] = <<>>
      BY <1>1, <1>3, <2>3
    <3>2. Occurrences(trustedIssuers', i) = 1
      BY <2>1, <2>2, <2>3, <3>1
    <3>3. ASSUME NEW t \in Topics
          PROVE  Occurrences(topicIssuers'[t], i) = Occurrences(topics, t)
      <4>1. Occurrences(topicIssuers[t], i) = 0
        BY <2>1, <3>1, OccurrencesOfEmpty
      <4>2. Occurrences(topics, t) \in Nat
        BY <1>2, OccurrencesPlaces
      <4> QED BY <1>4, <2>3, <4>1, <4>2
    <3> QED BY <1>2, <3>1, <3>2, <3>3
  <2>4. CASE i # issuer
    <3>1. issuerTopics'[i] = issuerTopics[i]
      BY <1>1, <1>3, <2>4
    <3>2. Occurrences(trustedIssuers', i) = Occurrences(trustedIssuers, i)
      BY <2>1, <2>2, <2>4
    <3>3. ASSUME NEW t \in Topics
          PROVE  Occurrences(topicIssuers'[t], i) = Occurrences(topicIssuers[t], i)
      BY <1>4, <2>1, <2>4
    <3> QED BY <2>1, <3>1, <3>2, <3>3
  <2> QED BY <2>3, <2>4
<1>7. IssuerIndexesAgree'
  BY <1>6 DEF IssuerIndexesAgree, IsTrusted
<1> QED BY <1>5, <1>7 DEF RegistriesInv

(* All topics of an issuer are in the index by topic, so that the loop of a  *)
(* removal finds each of them.                                              *)
LEMMA UnlistedIsCovered ==
  ASSUME RegistriesInv, NEW issuer \in Issuers
  PROVE  /\ Unlisted(topicIssuers, issuer, issuerTopics[issuer]) \in [Topics -> Seq(Issuers)]
         /\ \A t \in Topics, i \in Issuers :
              Occurrences(Unlisted(topicIssuers, issuer, issuerTopics[issuer])[t], i)
                = IF i = issuer THEN 0 ELSE Occurrences(topicIssuers[t], i)
<1> DEFINE topics == issuerTopics[issuer]
           index == Unlisted(topicIssuers, issuer, topics)
<1>1. topicIssuers \in [Topics -> Seq(Issuers)]
  BY DEF RegistriesInv, RegistriesTypeOK
<1>2. \A i \in Issuers : \A t \in Topics :
        /\ Occurrences(topicIssuers[t], i) = Occurrences(issuerTopics[i], t)
        /\ Occurrences(topicIssuers[t], i) \in Nat
  BY IssuerCounts
<1>3. topics \in Seq(Topics) /\ CoversTopics(topicIssuers, issuer, topics)
  <2>1. topics \in Seq(Topics)
    BY IssuerCounts
  <2> QED BY <1>2, <2>1 DEF CoversTopics
<1>4. /\ index \in [Topics -> Seq(Issuers)]
      /\ \A t \in Topics, i \in Issuers :
           Occurrences(index[t], i)
             = Occurrences(topicIssuers[t], i) - (IF i = issuer THEN Occurrences(topics, t) ELSE 0)
  <2> HIDE DEF topics
  <2>1. index \in [Topics -> Seq(Issuers)]
    BY <1>1, <1>3, UnlistedCounts
  <2>2. ASSUME NEW t \in Topics, NEW i \in Issuers
        PROVE  Occurrences(index[t], i)
                 = Occurrences(topicIssuers[t], i) - (IF i = issuer THEN Occurrences(topics, t) ELSE 0)
    BY <1>1, <1>3, UnlistedCounts
  <2> QED BY <2>1, <2>2
<1> HIDE DEF index
<1>5. ASSUME NEW t \in Topics, NEW i \in Issuers
      PROVE  Occurrences(index[t], i) = IF i = issuer THEN 0 ELSE Occurrences(topicIssuers[t], i)
  BY <1>2, <1>4
<1> QED BY <1>4, <1>5 DEF index

LEMMA RemoveTrustedIssuerKeeps ==
  ASSUME RegistriesInv, NEW issuer \in Issuers, RemoveTrustedIssuer(issuer)
  PROVE  RegistriesInv'
<1>1. /\ issuerTopics[issuer] # <<>>
      /\ trustedIssuers' = SwapRemoved(trustedIssuers, issuer)
      /\ issuerTopics' = [issuerTopics EXCEPT ![issuer] = <<>>]
      /\ topicIssuers' = Unlisted(topicIssuers, issuer, issuerTopics[issuer])
  BY DEF RemoveTrustedIssuer, IsTrusted
<1>2. /\ trustedIssuers \in Seq(Issuers) /\ Len(trustedIssuers) <= MaxIssuers
      /\ issuerTopics \in [Issuers -> TopicLists \cup {<<>>}]
  BY DEF RegistriesInv, RegistriesTypeOK
<1>3. /\ topicIssuers' \in [Topics -> Seq(Issuers)]
      /\ \A t \in Topics, i \in Issuers :
           Occurrences(topicIssuers'[t], i)
             = IF i = issuer THEN 0 ELSE Occurrences(topicIssuers[t], i)
  BY <1>1, UnlistedIsCovered
<1>4. issuer \in ToSet(trustedIssuers)
  <2>1. Occurrences(trustedIssuers, issuer) = 1
    BY <1>1, IssuerCounts
  <2> QED BY <1>2, <2>1, OccurrencesPlaces
<1>5. /\ trustedIssuers' \in Seq(Issuers) /\ Len(trustedIssuers') = Len(trustedIssuers) - 1
      /\ \A i \in Issuers :
           Occurrences(trustedIssuers', i)
             = Occurrences(trustedIssuers, i) - (IF issuer = i THEN 1 ELSE 0)
  <2>1. trustedIssuers' \in Seq(Issuers) /\ Len(trustedIssuers') = Len(trustedIssuers) - 1
    BY <1>1, <1>2, <1>4, OccurrencesSwapRemoved
  <2>2. ASSUME NEW i \in Issuers
        PROVE  Occurrences(trustedIssuers', i)
                 = Occurrences(trustedIssuers, i) - (IF issuer = i THEN 1 ELSE 0)
    BY <1>1, <1>2, <1>4, OccurrencesSwapRemoved
  <2> QED BY <2>1, <2>2
<1>6. RegistriesTypeOK'
  <2>1. Len(trustedIssuers') <= MaxIssuers
    <3>1. Len(trustedIssuers) \in Nat /\ MaxIssuers \in Nat
      BY <1>2, RegistriesAssumption
    <3> QED BY <1>2, <1>5, <3>1
  <2>2. issuerTopics' \in [Issuers -> TopicLists \cup {<<>>}]
    BY <1>1, <1>2
  <2> QED BY <1>3, <1>5, <2>1, <2>2
        DEF RegistriesInv, RegistriesTypeOK, RemoveTrustedIssuer, claimVars
<1>7. ASSUME NEW i \in Issuers
      PROVE  /\ Occurrences(trustedIssuers', i) = (IF issuerTopics'[i] # <<>> THEN 1 ELSE 0)
             /\ \A t \in Topics :
                  Occurrences(topicIssuers'[t], i) = Occurrences(issuerTopics'[i], t)
  <2>1. /\ Occurrences(trustedIssuers, i) = IF issuerTopics[i] # <<>> THEN 1 ELSE 0
        /\ \A t \in Topics : Occurrences(topicIssuers[t], i) = Occurrences(issuerTopics[i], t)
    BY IssuerCounts
  <2>2. CASE i = issuer
    <3>1. issuerTopics'[i] = <<>> /\ issuerTopics[i] # <<>>
      BY <1>1, <1>2, <2>2
    <3>2. Occurrences(trustedIssuers', i) = 0
      BY <1>5, <2>1, <2>2, <3>1
    <3> QED BY <1>3, <2>2, <3>1, <3>2, OccurrencesOfEmpty
  <2>3. CASE i # issuer
    <3>1. issuerTopics'[i] = issuerTopics[i]
      BY <1>1, <1>2, <2>3
    <3>2. Occurrences(trustedIssuers', i) = Occurrences(trustedIssuers, i)
      BY <1>5, <2>1, <2>3
    <3> QED BY <1>3, <2>1, <2>3, <3>1, <3>2
  <2> QED BY <2>2, <2>3
<1>8. IssuerIndexesAgree'
  BY <1>7 DEF IssuerIndexesAgree, IsTrusted
<1> QED BY <1>6, <1>8 DEF RegistriesInv

LEMMA UpdateIssuerClaimTopicsKeeps ==
  ASSUME RegistriesInv, NEW issuer \in Issuers, NEW topics \in TopicLists,
         UpdateIssuerClaimTopics(issuer, topics)
  PROVE  RegistriesInv'
<1> DEFINE without == Unlisted(topicIssuers, issuer, issuerTopics[issuer])
<1>1. /\ issuerTopics[issuer] # <<>>
      /\ trustedIssuers' = trustedIssuers
      /\ issuerTopics' = [issuerTopics EXCEPT ![issuer] = topics]
      /\ topicIssuers' = Listed(without, issuer, topics)
  BY DEF UpdateIssuerClaimTopics, IsTrusted
<1>2. topics \in Seq(Topics) /\ topics # <<>>
  BY TopicListsAreLists
<1>3. issuerTopics \in [Issuers -> TopicLists \cup {<<>>}]
  BY DEF RegistriesInv, RegistriesTypeOK
<1>4. /\ without \in [Topics -> Seq(Issuers)]
      /\ \A t \in Topics, i \in Issuers :
           Occurrences(without[t], i) = IF i = issuer THEN 0 ELSE Occurrences(topicIssuers[t], i)
  BY UnlistedIsCovered
<1> HIDE DEF without
<1>5. /\ topicIssuers' \in [Topics -> Seq(Issuers)]
      /\ \A t \in Topics, i \in Issuers :
           Occurrences(topicIssuers'[t], i)
             = Occurrences(without[t], i) + (IF i = issuer THEN Occurrences(topics, t) ELSE 0)
  <2>1. topicIssuers' \in [Topics -> Seq(Issuers)]
    BY <1>1, <1>2, <1>4, ListedCounts
  <2>2. ASSUME NEW t \in Topics, NEW i \in Issuers
        PROVE  Occurrences(topicIssuers'[t], i)
                 = Occurrences(without[t], i) + (IF i = issuer THEN Occurrences(topics, t) ELSE 0)
    BY <1>1, <1>2, <1>4, ListedCounts
  <2> QED BY <2>1, <2>2
<1>6. RegistriesTypeOK'
  <2>1. issuerTopics' \in [Issuers -> TopicLists \cup {<<>>}]
    BY <1>1, <1>3
  <2> QED BY <1>5, <2>1
        DEF RegistriesInv, RegistriesTypeOK, UpdateIssuerClaimTopics, claimVars
<1>7. ASSUME NEW i \in Issuers
      PROVE  /\ Occurrences(trustedIssuers', i) = (IF issuerTopics'[i] # <<>> THEN 1 ELSE 0)
             /\ \A t \in Topics :
                  Occurrences(topicIssuers'[t], i) = Occurrences(issuerTopics'[i], t)
  <2>1. /\ Occurrences(trustedIssuers, i) = IF issuerTopics[i] # <<>> THEN 1 ELSE 0
        /\ \A t \in Topics :
             /\ Occurrences(topicIssuers[t], i) = Occurrences(issuerTopics[i], t)
             /\ Occurrences(topicIssuers[t], i) \in Nat
    BY IssuerCounts
  <2>2. CASE i = issuer
    <3>1. issuerTopics'[i] = topics /\ issuerTopics[i] # <<>>
      BY <1>1, <1>3, <2>2
    <3>2. ASSUME NEW t \in Topics
          PROVE  Occurrences(topicIssuers'[t], i) = Occurrences(topics, t)
      <4>1. Occurrences(topics, t) \in Nat /\ Occurrences(without[t], i) = 0
        BY <1>2, <1>4, <2>2, OccurrencesPlaces
      <4> QED BY <1>5, <2>2, <4>1
    <3> QED BY <1>1, <1>2, <2>1, <3>1, <3>2
  <2>3. CASE i # issuer
    <3>1. issuerTopics'[i] = issuerTopics[i]
      BY <1>1, <1>3, <2>3
    <3>2. ASSUME NEW t \in Topics
          PROVE  Occurrences(topicIssuers'[t], i) = Occurrences(topicIssuers[t], i)
      BY <1>4, <1>5, <2>1, <2>3
    <3> QED BY <1>1, <2>1, <3>1, <3>2
  <2> QED BY <2>2, <2>3
<1>8. IssuerIndexesAgree'
  BY <1>7 DEF IssuerIndexesAgree, IsTrusted
<1> QED BY <1>6, <1>8 DEF RegistriesInv

LEMMA ClaimTopicsKeep ==
  ASSUME RegistriesInv, NEW topic \in Topics, AddClaimTopic(topic) \/ RemoveClaimTopic(topic)
  PROVE  RegistriesInv'
<1>1. claimTopics \in Seq(Topics) /\ IsInjective(claimTopics) /\ Len(claimTopics) <= MaxRequired
  BY DEF RegistriesInv, RegistriesTypeOK
<1>2. MaxRequired \in Nat /\ Len(claimTopics) \in Nat
  BY <1>1, RegistriesAssumption
<1>3. /\ claimTopics' \in Seq(Topics) /\ IsInjective(claimTopics')
      /\ Len(claimTopics') <= MaxRequired
  <2>1. CASE AddClaimTopic(topic)
    <3>1. /\ claimTopics' = Append(claimTopics, topic) /\ topic \notin ToSet(claimTopics)
          /\ Len(claimTopics) < MaxRequired
      BY <2>1 DEF AddClaimTopic
    <3>2. claimTopics' \in Seq(Topics) /\ Len(claimTopics') = Len(claimTopics) + 1
      BY <1>1, <3>1
    <3>3. IsInjective(claimTopics')
      BY <1>1, <3>1, AppendedInjective
    <3> QED BY <1>2, <3>1, <3>2, <3>3
  <2>2. CASE RemoveClaimTopic(topic)
    <3>1. claimTopics' = SwapRemoved(claimTopics, topic)
      BY <2>2 DEF RemoveClaimTopic
    <3>2. IsInjective(claimTopics')
      BY <1>1, <3>1, SwapRemovedInjective
    <3>3. CASE topic \in ToSet(claimTopics)
      <4>1. claimTopics' \in Seq(Topics) /\ Len(claimTopics') = Len(claimTopics) - 1
        BY <1>1, <3>1, <3>3, OccurrencesSwapRemoved
      <4> QED BY <1>1, <1>2, <3>2, <4>1
    <3>4. CASE topic \notin ToSet(claimTopics)
      <4>1. claimTopics' = claimTopics
        BY <3>1, <3>4 DEF SwapRemoved
      <4> QED BY <1>1, <4>1
    <3> QED BY <3>3, <3>4
  <2> QED BY <2>1, <2>2
<1>4. UNCHANGED <<issuerVars, identity, claimVars>>
  BY DEF AddClaimTopic, RemoveClaimTopic
<1>5. RegistriesTypeOK'
  BY <1>3, <1>4 DEF RegistriesInv, RegistriesTypeOK, issuerVars, claimVars
<1>6. IssuerIndexesAgree'
  BY <1>4 DEF RegistriesInv, IssuerIndexesAgree, IsTrusted, issuerVars
<1> QED BY <1>5, <1>6 DEF RegistriesInv

LEMMA IdentitiesKeep ==
  ASSUME RegistriesInv, AgentStep
  PROVE  RegistriesInv'
<1>1. UNCHANGED <<issuerVars, claimTopics, claimVars>>
  BY DEF AgentStep, RegisterIdentity, UpdateIdentity, DeleteIdentity
<1>2. identity' \in [Wallets -> Identities \cup {NoIdentity}]
  BY DEF RegistriesInv, RegistriesTypeOK, AgentStep, RegisterIdentity, UpdateIdentity,
         DeleteIdentity
<1>3. RegistriesTypeOK'
  BY <1>1, <1>2 DEF RegistriesInv, RegistriesTypeOK, issuerVars, claimVars
<1>4. IssuerIndexesAgree'
  BY <1>1 DEF RegistriesInv, IssuerIndexesAgree, IsTrusted, issuerVars
<1> QED BY <1>3, <1>4 DEF RegistriesInv

LEMMA ClaimsKeep ==
  ASSUME RegistriesInv, ClaimStep
  PROVE  RegistriesInv'
<1> DEFINE States == {"none", "signed", "revoked"}
<1>1. UNCHANGED <<issuerVars, claimTopics, identity>>
  BY DEF ClaimStep, AddClaim, RemoveClaim, RevokeClaim, IssuerFails
<1>2. /\ claims \in [Identities -> [Issuers -> [Topics -> States]]]
      /\ mode \in [Issuers -> {"signs", "unkeyed", "reverts"}]
      /\ failures \in 0 .. MaxFailures /\ MaxFailures \in Nat
  BY RegistriesAssumption DEF RegistriesInv, RegistriesTypeOK
<1>3. ASSUME NEW id \in Identities, NEW issuer \in Issuers, NEW topic \in Topics,
             NEW state \in States
      PROVE  [claims EXCEPT ![id][issuer][topic] = state]
               \in [Identities -> [Issuers -> [Topics -> States]]]
  <2>1. [claims[id][issuer] EXCEPT ![topic] = state] \in [Topics -> States]
    BY <1>2
  <2> HIDE DEF States
  <2> QED BY <1>2, <2>1
<1>4. claims' \in [Identities -> [Issuers -> [Topics -> States]]]
  <2>1. ASSUME NEW id \in Identities, NEW issuer \in Issuers, NEW topic \in Topics,
               AddClaim(id, issuer, topic) \/ RemoveClaim(id, issuer, topic)
                 \/ RevokeClaim(id, issuer, topic)
        PROVE  claims' \in [Identities -> [Issuers -> [Topics -> States]]]
    <3>1. \E state \in States : claims' = [claims EXCEPT ![id][issuer][topic] = state]
      BY <2>1 DEF AddClaim, RemoveClaim, RevokeClaim
    <3> HIDE DEF States
    <3> QED BY <1>3, <3>1
  <2>2. ASSUME NEW issuer \in Issuers, NEW how \in {"unkeyed", "reverts"},
               IssuerFails(issuer, how)
        PROVE  claims' \in [Identities -> [Issuers -> [Topics -> States]]]
    BY <1>2, <2>2 DEF IssuerFails
  <2> QED BY <2>1, <2>2 DEF ClaimStep
<1>5. /\ mode' \in [Issuers -> {"signs", "unkeyed", "reverts"}]
      /\ failures' \in 0 .. MaxFailures
  <2>1. failures \in Nat /\ (failures < MaxFailures => failures + 1 \in 0 .. MaxFailures)
    BY <1>2
  <2> QED BY <1>2, <2>1 DEF ClaimStep, AddClaim, RemoveClaim, RevokeClaim, IssuerFails
<1>6. RegistriesTypeOK'
  BY <1>1, <1>4, <1>5 DEF RegistriesInv, RegistriesTypeOK, issuerVars
<1>7. IssuerIndexesAgree'
  BY <1>1 DEF RegistriesInv, IssuerIndexesAgree, IsTrusted, issuerVars
<1> QED BY <1>6, <1>7 DEF RegistriesInv

LEMMA RegistriesInductive ==
  ASSUME RegistriesInv, [Next]_vars
  PROVE  RegistriesInv'
<1>1. CASE OwnerStep
  BY <1>1, AddTrustedIssuerKeeps, UpdateIssuerClaimTopicsKeeps, RemoveTrustedIssuerKeeps,
     ClaimTopicsKeep DEF OwnerStep
<1>2. CASE AgentStep
  BY <1>2, IdentitiesKeep
<1>3. CASE ClaimStep
  BY <1>3, ClaimsKeep
<1>4. CASE UNCHANGED vars
  <2>1. UNCHANGED <<issuerVars, claimTopics, identity, claimVars>>
    BY <1>4 DEF vars
  <2> QED BY <2>1 DEF RegistriesInv, RegistriesTypeOK, IssuerIndexesAgree, IsTrusted,
                      issuerVars, claimVars
<1> QED BY <1>1, <1>2, <1>3, <1>4 DEF Next

-----------------------------------------------------------------------------
(* isVerified.                                                             *)

(* Whether one of the entries from j on is good.                            *)
From(good, n, j) == \E k \in j .. n : k \in good

LEMMA FromStep ==
  ASSUME NEW n \in Nat, NEW good \in SUBSET (1 .. n), NEW j \in 1 .. n
  PROVE  From(good, n, j) <=> IF j \in good THEN TRUE
                              ELSE IF j = n THEN FALSE ELSE From(good, n, j + 1)
<1>1. CASE j \in good
  <2>1. j \in j .. n
    OBVIOUS
  <2> QED BY <1>1, <2>1 DEF From
<1>2. CASE j \notin good
  <2>1. \A k \in j .. n : k \in good => k # j
    BY <1>2
  <2>2. CASE j = n
    BY <1>2, <2>2 DEF From
  <2>3. CASE j # n
    <3>1. \A k : (k \in j .. n /\ k # j) <=> k \in (j + 1) .. n
      OBVIOUS
    <3>2. From(good, n, j) <=> From(good, n, j + 1)
      BY <2>1, <3>1 DEF From
    <3> QED BY <1>2, <2>3, <3>2
  <2> QED BY <2>2, <2>3
<1> QED BY <1>1, <1>2

(* The loop of isVerified, with the entries of the issuers whose claim is    *)
(* there and valid.                                                         *)
Valid(id, topic, issuers) ==
  {j \in DOMAIN issuers : HasClaim(id, issuers[j], topic) /\ Answer(id, issuers[j], topic)}

ScanStep(g, good, n, j) ==
  IF j \in good THEN TRUE ELSE IF j = n THEN FALSE ELSE g[j + 1]

LEMMA ScanValue ==
  ASSUME NEW n \in Nat, n # 0, NEW good \in SUBSET (1 .. n), NEW g,
         g = [j \in 1 .. n |-> ScanStep(g, good, n, j)]
  PROVE  g[1] = From(good, n, 1)
<1> DEFINE Bad == {k \in 0 .. n - 1 : g[n - k] # From(good, n, n - k)}
<1>1. Bad \subseteq Nat
  OBVIOUS
<1> SUFFICES ASSUME Bad # {} PROVE FALSE
  <2>1. n - 1 \in 0 .. n - 1 /\ n - (n - 1) = 1
    OBVIOUS
  <2> QED BY <2>1
<1>2. PICK k \in Bad : \A m \in Bad : k <= m
  <2> HIDE DEF Bad
  <2> QED BY <1>1, SmallestOf
<1> DEFINE j == n - k
<1>3. k \in 0 .. n - 1 /\ j \in 1 .. n /\ g[j] # From(good, n, j)
  BY <1>2
<1>4. j # n => g[j + 1] = From(good, n, j + 1)
  <2> SUFFICES ASSUME j # n PROVE g[j + 1] = From(good, n, j + 1)
    OBVIOUS
  <2>1. k - 1 \in 0 .. n - 1 /\ ~(k <= k - 1) /\ n - (k - 1) = j + 1
    BY <1>3
  <2>2. k - 1 \notin Bad
    BY <1>2, <2>1
  <2> HIDE DEF j
  <2> QED BY <2>1, <2>2
<1> HIDE DEF j, Bad
<1>5. g[j] = ScanStep(g, good, n, j)
  BY <1>3
<1>6. From(good, n, j) <=> IF j \in good THEN TRUE
                           ELSE IF j = n THEN FALSE ELSE From(good, n, j + 1)
  BY <1>3, FromStep
<1>7. From(good, n, j) \in BOOLEAN
  BY DEF From
<1>8. CASE j \in good
  BY <1>3, <1>5, <1>6, <1>7, <1>8, Zenon DEF ScanStep
<1>9. CASE j \notin good /\ j = n
  BY <1>3, <1>5, <1>6, <1>7, <1>9, Zenon DEF ScanStep
<1>10. CASE j \notin good /\ j # n
  <2>1. From(good, n, j) <=> From(good, n, j + 1)
    BY <1>6, <1>10, Zenon
  <2>2. From(good, n, j) = From(good, n, j + 1)
    BY <2>1, <1>7, Zenon DEF From
  <2>3. g[j] = g[j + 1]
    BY <1>5, <1>10, Zenon DEF ScanStep
  <2> QED BY <1>3, <1>4, <1>10, <2>2, <2>3, Zenon
<1> QED BY <1>8, <1>9, <1>10

LEMMA ScanExists ==
  ASSUME NEW n \in Nat, NEW good \in SUBSET (1 .. n)
  PROVE  \E g : g = [j \in 1 .. n |-> ScanStep(g, good, n, j)]
<1> DEFINE g == [j \in 1 .. n |-> From(good, n, j)]
<1>1. ASSUME NEW j \in 1 .. n
      PROVE  From(good, n, j) = ScanStep(g, good, n, j)
  <2>1. From(good, n, j) <=> IF j \in good THEN TRUE
                             ELSE IF j = n THEN FALSE ELSE From(good, n, j + 1)
    BY FromStep
  <2>2. From(good, n, j) \in BOOLEAN
    BY DEF From
  <2>3. j # n => g[j + 1] = From(good, n, j + 1)
    <3> SUFFICES ASSUME j # n PROVE g[j + 1] = From(good, n, j + 1)
      OBVIOUS
    <3>1. j + 1 \in 1 .. n
      OBVIOUS
    <3> QED BY <3>1, Zenon
  <2> HIDE DEF g
  <2>4. CASE j \in good
    BY <2>1, <2>2, <2>4, Zenon DEF ScanStep
  <2>5. CASE j \notin good /\ j = n
    BY <2>1, <2>2, <2>5, Zenon DEF ScanStep
  <2>6. CASE j \notin good /\ j # n
    <3>1. From(good, n, j) <=> From(good, n, j + 1)
      BY <2>1, <2>6, Zenon
    <3>2. From(good, n, j) = From(good, n, j + 1)
      BY <3>1, <2>2, Zenon DEF From
    <3> QED BY <2>3, <2>6, <3>2, Zenon DEF ScanStep
  <2> QED BY <2>4, <2>5, <2>6
<1>2. g = [j \in 1 .. n |-> ScanStep(g, good, n, j)]
  <2> DEFINE h == g
  <2>1. g = [j \in 1 .. n |-> ScanStep(h, good, n, j)]
    <3> HIDE DEF h
    <3>1. \A j \in 1 .. n : From(good, n, j) = ScanStep(h, good, n, j)
      BY <1>1 DEF h
    <3> QED BY <3>1, Zenon
  <2> QED BY <2>1
<1> QED BY <1>2

LEMMA FoundAmong ==
  ASSUME NEW id, NEW topic, NEW issuers \in Seq(Issuers), issuers # <<>>
  PROVE  Found(id, topic, issuers) <=>
           \E j \in DOMAIN issuers :
             HasClaim(id, issuers[j], topic) /\ Answer(id, issuers[j], topic)
<1> DEFINE n == Len(issuers)
           good == Valid(id, topic, issuers)
           Is(g) == g = [j \in DOMAIN issuers |->
                           IF HasClaim(id, issuers[j], topic) /\ Answer(id, issuers[j], topic)
                           THEN TRUE
                           ELSE IF j = Len(issuers) THEN FALSE ELSE g[j + 1]]
           scan == CHOOSE g : Is(g)
<1>1. n \in Nat /\ n # 0 /\ DOMAIN issuers = 1 .. n
  OBVIOUS
<1>2. /\ good \in SUBSET (1 .. n)
      /\ \A j \in 1 .. n :
           (j \in good) <=> (HasClaim(id, issuers[j], topic) /\ Answer(id, issuers[j], topic))
  BY <1>1 DEF Valid
<1>3. \A g : Is(g) <=> g = [j \in 1 .. n |-> ScanStep(g, good, n, j)]
  <2> SUFFICES ASSUME NEW g
               PROVE  Is(g) <=> g = [j \in 1 .. n |-> ScanStep(g, good, n, j)]
    OBVIOUS
  <2>1. ASSUME NEW j \in 1 .. n
        PROVE  (IF HasClaim(id, issuers[j], topic) /\ Answer(id, issuers[j], topic)
                THEN TRUE ELSE IF j = Len(issuers) THEN FALSE ELSE g[j + 1])
                 = ScanStep(g, good, n, j)
    <3>1. CASE j \in good
      <4>1. HasClaim(id, issuers[j], topic) /\ Answer(id, issuers[j], topic)
        BY <1>2, <3>1
      <4> HIDE DEF good
      <4> QED BY <3>1, <4>1, Zenon DEF ScanStep
    <3>2. CASE j \notin good
      <4>1. ~(HasClaim(id, issuers[j], topic) /\ Answer(id, issuers[j], topic))
        BY <1>2, <3>2
      <4> HIDE DEF good
      <4> QED BY <3>2, <4>1, Zenon DEF ScanStep
    <3> QED BY <3>1, <3>2
  <2> HIDE DEF n, good
  <2> QED BY <1>1, <2>1, Zenon
<1>4. \E g : Is(g)
  <2> HIDE DEF n, good
  <2>1. PICK g : g = [j \in 1 .. n |-> ScanStep(g, good, n, j)]
    BY <1>1, <1>2, ScanExists
  <2>2. Is(g)
    <3> HIDE DEF Is
    <3> QED BY <1>3, <2>1, Zenon
  <2> HIDE DEF Is
  <2> QED BY <2>2
<1>5. Is(scan)
  <2> HIDE DEF Is
  <2> QED BY <1>4
<1>6. Found(id, topic, issuers) = scan[1]
  BY DEF Found
<1> HIDE DEF scan, good, n
<1>7. scan = [j \in 1 .. n |-> ScanStep(scan, good, n, j)]
  <2> HIDE DEF Is
  <2> QED BY <1>3, <1>5, Zenon
<1>8. scan[1] = From(good, n, 1)
  BY <1>1, <1>2, <1>7, ScanValue
<1>9. Found(id, topic, issuers) <=> \E j \in 1 .. n : j \in good
  BY <1>6, <1>8, Zenon DEF From
<1> QED BY <1>1, <1>2, <1>9, Zenon

(* An issuer is in the list of a topic if it is in force with that topic.    *)
LEMMA ListedForTopic ==
  ASSUME RegistriesInv, NEW topic \in Topics, NEW issuer \in Issuers
  PROVE  issuer \in ToSet(topicIssuers[topic]) <=>
           issuer \in ToSet(trustedIssuers) /\ topic \in ToSet(issuerTopics[issuer])
<1>1. /\ issuerTopics[issuer] \in Seq(Topics)
      /\ Occurrences(trustedIssuers, issuer) = IF issuerTopics[issuer] # <<>> THEN 1 ELSE 0
      /\ Occurrences(topicIssuers[topic], issuer) = Occurrences(issuerTopics[issuer], topic)
  BY IssuerCounts
<1>2. topicIssuers[topic] \in Seq(Issuers) /\ trustedIssuers \in Seq(Issuers)
  BY DEF RegistriesInv, RegistriesTypeOK
<1>3. issuer \in ToSet(topicIssuers[topic]) <=> Occurrences(topicIssuers[topic], issuer) # 0
  BY <1>2, OccurrencesPlaces
<1>4. topic \in ToSet(issuerTopics[issuer]) <=> Occurrences(issuerTopics[issuer], topic) # 0
  BY <1>1, OccurrencesPlaces
<1>5. issuer \in ToSet(trustedIssuers) <=> Occurrences(trustedIssuers, issuer) # 0
  BY <1>2, OccurrencesPlaces
<1>6. topic \in ToSet(issuerTopics[issuer]) => issuerTopics[issuer] # <<>>
  BY DEF ToSet
<1> QED BY <1>1, <1>3, <1>4, <1>5, <1>6

LEMMA VerifiedFollows ==
  ASSUME RegistriesInv
  PROVE  VerifiedByTrustedIssuers
<1> SUFFICES ASSUME NEW wallet \in Wallets
             PROVE  IsVerified(wallet) <=>
                      /\ identity[wallet] # NoIdentity
                      /\ \A topic \in ToSet(claimTopics) : \E issuer \in ToSet(trustedIssuers) :
                           /\ topic \in ToSet(issuerTopics[issuer])
                           /\ claims[identity[wallet]][issuer][topic] = "signed"
                           /\ mode[issuer] = "signs"
  BY DEF VerifiedByTrustedIssuers
<1> DEFINE id == identity[wallet]
           Signed(issuer, topic) == claims[id][issuer][topic] = "signed" /\ mode[issuer] = "signs"
<1>1. /\ trustedIssuers \in Seq(Issuers) /\ topicIssuers \in [Topics -> Seq(Issuers)]
      /\ claimTopics \in Seq(Topics)
  BY DEF RegistriesInv, RegistriesTypeOK
<1>2. \A issuer \in ToSet(trustedIssuers) : issuer \in Issuers
  BY <1>1 DEF ToSet
<1>3. ASSUME NEW topic \in Topics
      PROVE  (topicIssuers[topic] # <<>> /\ Found(id, topic, topicIssuers[topic])) <=>
               \E issuer \in ToSet(trustedIssuers) :
                 topic \in ToSet(issuerTopics[issuer]) /\ Signed(issuer, topic)
  <2> DEFINE issuers == topicIssuers[topic]
  <2>1. issuers \in Seq(Issuers)
    BY <1>1
  <2>2. \A issuer : (HasClaim(id, issuer, topic) /\ Answer(id, issuer, topic))
                      <=> Signed(issuer, topic)
    BY DEF HasClaim, Answer
  <2> HIDE DEF Signed, id
  <2>3. (issuers # <<>> /\ Found(id, topic, issuers)) <=>
          \E issuer \in ToSet(issuers) : Signed(issuer, topic)
    <3> HIDE DEF issuers
    <3>1. CASE issuers = <<>>
      BY <3>1 DEF ToSet
    <3>2. CASE issuers # <<>>
      <4>1. Found(id, topic, issuers) <=>
              \E j \in DOMAIN issuers :
                HasClaim(id, issuers[j], topic) /\ Answer(id, issuers[j], topic)
        BY <2>1, <3>2, FoundAmong
      <4>2. Found(id, topic, issuers) <=> \E j \in DOMAIN issuers : Signed(issuers[j], topic)
        BY <2>2, <4>1, Zenon
      <4> QED BY <3>2, <4>2 DEF ToSet
    <3> QED BY <3>1, <3>2
  <2>4. \A issuer \in Issuers :
          issuer \in ToSet(issuers) <=>
            issuer \in ToSet(trustedIssuers) /\ topic \in ToSet(issuerTopics[issuer])
    BY ListedForTopic
  <2>5. \A issuer \in ToSet(issuers) : issuer \in Issuers
    BY <2>1 DEF ToSet
  <2> QED BY <1>2, <2>3, <2>4, <2>5, Zenon
<1>4. /\ \A k \in DOMAIN claimTopics : claimTopics[k] \in Topics /\ claimTopics[k] \in ToSet(claimTopics)
      /\ \A topic \in ToSet(claimTopics) :
           topic \in Topics /\ \E k \in DOMAIN claimTopics : claimTopics[k] = topic
  BY <1>1 DEF ToSet
<1> DEFINE Ok(topic) == topicIssuers[topic] # <<>> /\ Found(id, topic, topicIssuers[topic])
<1>5. IsVerified(wallet) <=> id # NoIdentity /\ \A k \in DOMAIN claimTopics : Ok(claimTopics[k])
  BY Zenon DEF IsVerified
<1>6. IsVerified(wallet) <=> id # NoIdentity /\ \A topic \in ToSet(claimTopics) : Ok(topic)
  <2> HIDE DEF Ok, id
  <2> QED BY <1>4, <1>5, Zenon
<1>7. \A topic \in ToSet(claimTopics) :
        Ok(topic) <=> \E issuer \in ToSet(trustedIssuers) :
                        topic \in ToSet(issuerTopics[issuer]) /\ Signed(issuer, topic)
  <2> SUFFICES ASSUME NEW topic \in ToSet(claimTopics)
               PROVE  Ok(topic) <=> \E issuer \in ToSet(trustedIssuers) :
                        topic \in ToSet(issuerTopics[issuer]) /\ Signed(issuer, topic)
    OBVIOUS
  <2>1. topic \in Topics
    BY <1>4
  <2> HIDE DEF id, Signed
  <2> QED BY <1>3, <2>1
<1> HIDE DEF Ok
<1> QED BY <1>6, <1>7, Zenon

-----------------------------------------------------------------------------
(* The theorems.                                                           *)

THEOREM RegistriesAreSound == Spec => []RegistriesInv
<1>1. Init => RegistriesInv
  BY RegistriesInitially
<1>2. RegistriesInv /\ [Next]_vars => RegistriesInv'
  BY RegistriesInductive
<1> QED BY <1>1, <1>2, PTL DEF Spec

(* The lists of the registries hold what they should, no topic is required   *)
(* twice, and no list outgrows its maximum.                                 *)
THEOREM RegistriesTypes == Spec => []RegistriesTypeOK
<1>1. RegistriesInv => RegistriesTypeOK
  BY DEF RegistriesInv
<1> QED BY <1>1, RegistriesAreSound, PTL

(* For any issuers and topics, and lists that name a topic several times:    *)
(* the loops of addTrustedIssuer, updateIssuerClaimTopics and                *)
(* removeTrustedIssuer, which move the last entry into the place of the one  *)
(* they delete, keep the three records of the issuers in agreement.          *)
THEOREM IssuersAgree == Spec => []IssuerIndexesAgree
<1>1. RegistriesInv => IssuerIndexesAgree
  BY DEF RegistriesInv
<1> QED BY <1>1, RegistriesAreSound, PTL

(* isVerified, which reads only the index by topic and stops at the first    *)
(* valid claim, says of every wallet at every moment what the owner's        *)
(* decisions and the issuers' standing say.                                 *)
THEOREM VerifiedAreCertified == Spec => []VerifiedByTrustedIssuers
<1>1. RegistriesInv => VerifiedByTrustedIssuers
  BY VerifiedFollows
<1> QED BY <1>1, RegistriesAreSound, PTL
=============================================================================
