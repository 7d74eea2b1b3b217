------------------------------- MODULE Limits -------------------------------
(***************************************************************************)
(* The compliance modules that ration or pre-approve transfers:             *)
(*   TimeTransfersLimits    so much in so much time, for each investor,     *)
(*   TimeExchangeLimits     the same towards an exchange,                   *)
(*   ExchangeMonthlyLimits  so much in a month towards an exchange,         *)
(*   ConditionalTransfer    only what the owner has approved beforehand.    *)
(*                                                                         *)
(* The token asks whether an amount may pass (moduleCheck), replaces it by   *)
(* zero if not, and tells the modules what it is about to move              *)
(* (moduleTransferAction), which count it; what it moves in the end is       *)
(* again zero if a module that was told refuses.  A forced transfer, a       *)
(* recovery and a fee are told without being asked.  The two modules with    *)
(* limits are one here: TimeTransfers is a book of its own, in which every   *)
(* transfer counts, and TimeExchange has a book for each exchange.          *)
(*                                                                         *)
(* Time is kept as what is left of each window: timer <= block.timestamp     *)
(* is left = 0, and Tick is a unit of time going by.                        *)
(***************************************************************************)
EXTENDS EncryptedWords, Bags, Sequences

CONSTANTS
  Wallets,
  Identities,       \* the ONCHAINIDs of their holders
  IdentityOf,       \* the identity that the registry stores for a wallet
  AgentWallets,     \* the wallets that are agents of the token
  Exchanges,        \* the identities that may be tagged as exchanges
  Times,            \* the periods of limits
  Month,            \* the 30 days
  MaxLimits,        \* how many limits a book may have: 4 in the code
  Bindings,         \* bound: the sets of modules that a run binds
  MaxApprovals      \* bound: approvals outstanding

TimeTransfers   == "TimeTransfersLimits"
TimeExchange    == "TimeExchangeLimits"
ExchangeMonthly == "ExchangeMonthlyLimits"
Conditional     == "ConditionalTransfer"

ExchangeModules == {TimeExchange, ExchangeMonthly}
LimitModules == ExchangeModules \cup {TimeTransfers, Conditional}

ASSUME LimitsAssumption ==
  /\ IdentityOf \in [Wallets -> Identities]
  /\ AgentWallets \subseteq Wallets
  /\ Exchanges \subseteq Identities
  /\ TimeTransfers \notin Exchanges
  /\ Times \subseteq Nat /\ Month \in Nat
  /\ MaxLimits \in Nat
  /\ Bindings \subseteq SUBSET LimitModules
  /\ MaxApprovals \in Nat

VARIABLES
  bound,            \* the modules bound to the compliance
  limits,           \* transferLimits, and _exchangeLimits of each exchange
  index,            \* limitValues: the place of a period in limits, 0 if it has none
  counters,         \* usersCounters, and _exchangeCounters of each exchange
  tagged,           \* _exchangeIDs of either exchange module
  monthlyLimit,     \* _exchangeMonthlyLimit
  limited,          \* the exchanges for which it was ever set
  monthly,          \* _exchangeCounters of ExchangeMonthlyLimits
  approvals,        \* _transfersApproved: how often each transfer is approved, a bag
  volume,           \* history: what each running window has really let move
  loose             \* history: the windows in which something went unchecked

timeVars == <<limits, index, counters, volume, loose>>
monthVars == <<monthlyLimit, limited, monthly>>
vars == <<bound, timeVars, tagged, monthVars, approvals>>

Books == {TimeTransfers} \cup Exchanges

Limit   == [time : Times, value : Amounts]
Counter == [value : Amounts, left : Nat]

(* The handle of a ciphertext: an input by its amount, then each value that   *)
(* the token computes from it (TFHE.select), which is a ciphertext with a    *)
(* handle of its own.                                                       *)
Handles == [amount : Amounts, computed : 0 .. 2]
Input(amount)    == [amount |-> amount, computed |-> 0]
Computed(handle) == [handle EXCEPT !.computed = @ + 1]

(* calculateTransferHash: of the handle, not of the amount.                 *)
Hash(from, to, handle) == <<from, to, handle>>
Hashes == {<<from, to, handle>> : from \in Wallets, to \in Wallets, handle \in Handles}
-----------------------------------------------------------------------------
(* Counters.                                                               *)

Finished(counter) == counter.left = 0

(* _resetUserCounter, _resetExchangeLimitCooldown and the monthly one.      *)
Reset(counter, period) ==
  IF Finished(counter) THEN [value |-> 0, left |-> period] ELSE counter

(* Mutants: a window is begun again by every transfer; the first transfer of *)
(* a window only begins it.                                                 *)
IncreasedRestarting(counter, period, amount) ==
  [value |-> IF Finished(counter) THEN amount ELSE AddWord(counter.value, amount), left |-> period]

IncreasedOrReset(counter, period, amount) ==
  IF Finished(counter) THEN Reset(counter, period)
                       ELSE [counter EXCEPT !.value = AddWord(@, amount)]

Increased(counter, period, amount) ==
  [Reset(counter, period) EXCEPT !.value = AddWord(@, amount)]

(* The limit itself is not reached.                                        *)
TimeCheck(book, id, amount) ==
  \A n \in DOMAIN limits[book] :
    LET limit == limits[book][n]
        counter == counters[book][id][limit.time]
    IN  /\ amount < limit.value
        /\ ~Finished(counter) => AddWord(counter.value, amount) < limit.value

(* The amount is counted against every limit of the book.                   *)
Counted(book, id, amount) ==
  [t \in Times |-> IF index[book][t] = 0 THEN counters[book][id][t]
                   ELSE Increased(counters[book][id][t], t, amount)]

-----------------------------------------------------------------------------
(* moduleCheck.                                                            *)

(* A transfer that an exchange module has no say in: of an agent, of an      *)
(* exchange, or not to one.                                                 *)
Exempt(module, from, to) ==
  \/ from \in AgentWallets
  \/ IdentityOf[from] \in tagged[module]
  \/ IdentityOf[to] \notin tagged[module]

MonthOf(from, to) == monthly[IdentityOf[to]][IdentityOf[from]]

(* While a month runs the limit is compared, and only then: a new month      *)
(* begins with any amount.                                                  *)
ComparesMonthlyLimit(from, to) ==
  ExchangeMonthly \in bound /\ ~Exempt(ExchangeMonthly, from, to) /\ ~Finished(MonthOf(from, to))

(* The module is given no lasting access to a limit that is set             *)
(* (setExchangeMonthlyLimit does without TFHE.allow), so a later transaction *)
(* that compares it reverts.  A limit never set counts as zero.             *)
CanCompute(from, to) == ComparesMonthlyLimit(from, to) => IdentityOf[to] \notin limited

Check(module, from, to, amount, handle) ==
  CASE module = TimeTransfers ->
         from \in AgentWallets \/ TimeCheck(TimeTransfers, IdentityOf[from], amount)
    [] module = TimeExchange ->
         Exempt(TimeExchange, from, to) \/ TimeCheck(IdentityOf[to], IdentityOf[from], amount)
    [] module = ExchangeMonthly ->
         ComparesMonthlyLimit(from, to) =>
           /\ amount <= monthlyLimit[IdentityOf[to]]
           /\ AddWord(MonthOf(from, to).value, amount) <= monthlyLimit[IdentityOf[to]]
    [] module = Conditional -> BagIn(Hash(from, to, handle), approvals)

CanTransfer(from, to, amount, handle) ==
  \A module \in bound : Check(module, from, to, amount, handle)

-----------------------------------------------------------------------------
(* moduleTransferAction of every module bound.                             *)

(* The books in which a transfer counts.                                    *)
CountingBooks(from, to) ==
  (IF TimeTransfers \in bound THEN {TimeTransfers} ELSE {})
    \cup (IF /\ TimeExchange \in bound /\ from \notin AgentWallets
             /\ IdentityOf[to] \in tagged[TimeExchange]
          THEN {IdentityOf[to]} ELSE {})

(* Is the transfer one that the module would have let through unasked?      *)
Unasked(book, from, asked) ==
  \/ ~asked \/ from \in AgentWallets
  \/ book \in Exchanges /\ IdentityOf[from] \in tagged[TimeExchange]

(* The history of a window: what it has let move, as long as all of it was   *)
(* asked for and the counter has not wrapped.                               *)
WindowOpensLoose(book, from, t, amount, asked) ==
  LET counter == counters[book][IdentityOf[from]][t]
  IN  \/ Unasked(book, from, asked)
      \/ ~Finished(counter) /\ (loose[book][IdentityOf[from]][t] \/ counter.value + amount >= WordSize)

Moved(book, from, t, amount, moved) ==
  (IF Finished(counters[book][IdentityOf[from]][t]) THEN 0 ELSE volume[book][IdentityOf[from]][t]) + moved

TellTimeModules(from, to, amount, moved, asked) ==
  LET id == IdentityOf[from]
      books == CountingBooks(from, to)
      opensLoose(book, t) == index[book][t] # 0 /\ WindowOpensLoose(book, from, t, amount, asked)
  IN  /\ counters' = [book \in Books |-> IF book \in books
           THEN [counters[book] EXCEPT ![id] = Counted(book, id, amount)] ELSE counters[book]]
      /\ loose' = [book \in Books |-> IF book \in books
           THEN [loose[book] EXCEPT ![id] = [t \in Times |-> opensLoose(book, t)]] ELSE loose[book]]
      /\ volume' = [book \in Books |-> IF book \in books
           THEN [volume[book] EXCEPT ![id] = [t \in Times |->
                   IF index[book][t] = 0 \/ opensLoose(book, t) THEN 0
                   ELSE Moved(book, from, t, amount, moved)]]
           ELSE volume[book]]

TellMonthly(from, to, amount) ==
  monthly' =
    IF /\ ExchangeMonthly \in bound /\ from \notin AgentWallets
       /\ IdentityOf[to] \in tagged[ExchangeMonthly]
    THEN [monthly EXCEPT ![IdentityOf[to]][IdentityOf[from]] = Increased(@, Month, amount)]
    ELSE monthly

TellConditional(from, to, handle) ==
  approvals' =
    IF Conditional \in bound THEN approvals (-) SetToBag({Hash(from, to, handle)}) ELSE approvals

(* Every one of these modules accepts; accepted is what the others say.     *)
Told(from, to, amount, handle, accepted, asked) ==
  /\ TellTimeModules(from, to, amount, Select(accepted, amount, 0), asked)
  /\ TellMonthly(from, to, amount)
  /\ TellConditional(from, to, handle)
  /\ UNCHANGED <<bound, limits, index, tagged, monthlyLimit, limited>>

-----------------------------------------------------------------------------
(* transfer and transferFrom, of an amount that the holder can cover: the    *)
(* compliance is asked about a value computed from the input, and told of    *)
(* one computed from that.                                                  *)
Transfer(from, to, amount, accepted) ==
  LET asked == Computed(Input(amount))
      passed == Select(CanTransfer(from, to, amount, asked), amount, 0)
  IN  /\ CanCompute(from, to)
      /\ Told(from, to, passed, Computed(asked), accepted, TRUE)

(* forcedTransfer, for itself, in a recovery or to collect a fee.           *)
ForcedTransfer(from, to, amount, accepted) ==
  Told(from, to, amount, Computed(Input(amount)), accepted, FALSE)

(* Mutant: a period that has a limit already gets another one.              *)
SetTimeLimitAgain(book, t, value) ==
  /\ Len(limits[book]) < MaxLimits
  /\ limits' = [limits EXCEPT ![book] = Append(@, [time |-> t, value |-> value])]
  /\ index' = [index EXCEPT ![book][t] = Len(limits'[book])]
  /\ loose' = [loose EXCEPT ![book] = [id \in Identities |-> [@[id] EXCEPT ![t] = TRUE]]]
  /\ volume' = [volume EXCEPT ![book] = [id \in Identities |-> [@[id] EXCEPT ![t] = 0]]]
  /\ UNCHANGED <<bound, counters, tagged, monthVars, approvals>>

(* setTimeTransferLimit and setExchangeLimit: a new limit while there is     *)
(* room, or another value for the period's limit.                           *)
SetTimeLimit(book, t, value) ==
  LET limit == [time |-> t, value |-> value]
  IN  /\ IF index[book][t] = 0
         THEN /\ Len(limits[book]) < MaxLimits
              /\ limits' = [limits EXCEPT ![book] = Append(@, limit)]
              /\ index' = [index EXCEPT ![book][t] = Len(limits'[book])]
         ELSE /\ limits' = [limits EXCEPT ![book][index[book][t]] = limit]
              /\ UNCHANGED index
      /\ loose' = [loose EXCEPT ![book] = [id \in Identities |->
           [@[id] EXCEPT ![t] = ~Finished(counters[book][id][t])]]]
      /\ volume' = [volume EXCEPT ![book] = [id \in Identities |-> [@[id] EXCEPT ![t] = 0]]]
      /\ UNCHANGED <<bound, counters, tagged, monthVars, approvals>>

AddExchangeID(module, id) ==
  /\ id \notin tagged[module]
  /\ tagged' = [tagged EXCEPT ![module] = @ \cup {id}]
  /\ UNCHANGED <<bound, timeVars, monthVars, approvals>>

RemoveExchangeID(module, id) ==
  /\ id \in tagged[module]
  /\ tagged' = [tagged EXCEPT ![module] = @ \ {id}]
  /\ UNCHANGED <<bound, timeVars, monthVars, approvals>>

SetExchangeMonthlyLimit(id, value) ==
  /\ monthlyLimit' = [monthlyLimit EXCEPT ![id] = value]
  /\ limited' = limited \cup {id}
  /\ UNCHANGED <<bound, timeVars, tagged, monthly, approvals>>

(* approveTransfer takes an input of the owner or the handle of any value.   *)
ApproveTransfer(from, to, handle) ==
  /\ BagCardinality(approvals) < MaxApprovals
  /\ approvals' = approvals (+) SetToBag({Hash(from, to, handle)})
  /\ UNCHANGED <<bound, timeVars, tagged, monthVars>>

UnApproveTransfer(from, to, handle) ==
  /\ BagIn(Hash(from, to, handle), approvals)
  /\ approvals' = approvals (-) SetToBag({Hash(from, to, handle)})
  /\ UNCHANGED <<bound, timeVars, tagged, monthVars>>

Elapsed(counter) == [counter EXCEPT !.left = IF @ = 0 THEN 0 ELSE @ - 1]

(* The history of a window ends with it.                                    *)
Tick ==
  /\ counters' = [book \in Books |-> [id \in Identities |-> [t \in Times |->
       Elapsed(counters[book][id][t])]]]
  /\ monthly' = [exchange \in Exchanges |-> [id \in Identities |-> Elapsed(monthly[exchange][id])]]
  /\ volume' = [book \in Books |-> [id \in Identities |-> [t \in Times |->
       IF Finished(counters'[book][id][t]) THEN 0 ELSE volume[book][id][t]]]]
  /\ loose' = [book \in Books |-> [id \in Identities |-> [t \in Times |->
       loose[book][id][t] /\ ~Finished(counters'[book][id][t])]]]
  /\ UNCHANGED <<bound, limits, index, tagged, monthlyLimit, limited, approvals>>
-----------------------------------------------------------------------------
NoCounter == [value |-> 0, left |-> 0]

Init ==
  /\ bound \in Bindings
  /\ limits = [book \in Books |-> <<>>]
  /\ index = [book \in Books |-> [t \in Times |-> 0]]
  /\ counters = [book \in Books |-> [id \in Identities |-> [t \in Times |-> NoCounter]]]
  /\ tagged = [module \in ExchangeModules |-> {}]
  /\ monthlyLimit = [exchange \in Exchanges |-> 0]
  /\ limited = {}
  /\ monthly = [exchange \in Exchanges |-> [id \in Identities |-> NoCounter]]
  /\ approvals = EmptyBag
  /\ volume = [book \in Books |-> [id \in Identities |-> [t \in Times |-> 0]]]
  /\ loose = [book \in Books |-> [id \in Identities |-> [t \in Times |-> FALSE]]]

TransferStep(from, to) ==
  \E amount \in Amounts, accepted \in BOOLEAN :
    Transfer(from, to, amount, accepted) \/ ForcedTransfer(from, to, amount, accepted)

BooksOf(module) ==
  CASE module = TimeTransfers -> {TimeTransfers} [] module = TimeExchange -> Exchanges [] OTHER -> {}

(* Through the compliance, for a module that is bound; tagging is up to the  *)
(* owner of the module, and matters only then.                              *)
SettingStep ==
  \/ \E module \in bound : \E book \in BooksOf(module), t \in Times, value \in Amounts :
       SetTimeLimit(book, t, value)
  \/ \E module \in bound \cap ExchangeModules, id \in Exchanges :
       AddExchangeID(module, id) \/ RemoveExchangeID(module, id)
  \/ ExchangeMonthly \in bound /\ \E id \in Exchanges, value \in Amounts : SetExchangeMonthlyLimit(id, value)
  \/ /\ Conditional \in bound
     /\ \E from, to \in Wallets, handle \in Handles :
          ApproveTransfer(from, to, handle) \/ UnApproveTransfer(from, to, handle)

Next ==
  \/ \E from, to \in Wallets : TransferStep(from, to)
  \/ SettingStep
  \/ Tick

(* Blocks are produced and their time goes up.                              *)
Spec == Init /\ [][Next]_vars /\ WF_vars(Tick)
-----------------------------------------------------------------------------
(* Properties.                                                             *)

(* Types; and the two records of a book's limits agree: a period has one     *)
(* limit at most, at the place that index says.                             *)
LimitsTypeOK ==
  /\ bound \in Bindings
  /\ limits \in [Books -> Seq(Limit)]
  /\ \A book \in Books :
       /\ Len(limits[book]) <= MaxLimits
       /\ \A t \in Times, n \in DOMAIN limits[book] : limits[book][n].time = t <=> index[book][t] = n
       /\ \A t \in Times : index[book][t] \in {0} \cup DOMAIN limits[book]
  /\ counters \in [Books -> [Identities -> [Times -> Counter]]]
  /\ tagged \in [ExchangeModules -> SUBSET Exchanges]
  /\ monthlyLimit \in [Exchanges -> Amounts] /\ limited \subseteq Exchanges
  /\ monthly \in [Exchanges -> [Identities -> Counter]]
  /\ IsABag(approvals) /\ BagToSet(approvals) \subseteq Hashes
  /\ volume \in [Books -> [Identities -> [Times -> Nat]]]
  /\ loose \in [Books -> [Identities -> [Times -> BOOLEAN]]]

(* README.md:98: "restrictions on the volume of tokens a holder can transfer *)
(* within a specified timeframe".  What moves within one window of a limit   *)
(* stays below the limit, over all the wallets of an investor, although a    *)
(* refused transfer begins windows too, modules told later may refuse, and    *)
(* several limits run side by side; unless agents moved tokens, the limit    *)
(* was changed while the window ran, or the counter wrapped.                *)
TimeLimitsHold ==
  \A book \in Books, id \in Identities, n \in 1 .. MaxLimits :
    n \in DOMAIN limits[book] =>
      LET limit == limits[book][n]
      IN  ~loose[book][id][limit.time] =>
            /\ volume[book][id][limit.time] < limit.value \/ volume[book][id][limit.time] = 0
            /\ volume[book][id][limit.time] <= counters[book][id][limit.time].value

(* Whatever is transferred meanwhile, a window that runs comes to its end:   *)
(* nobody is kept from transferring for good by a counter that goes on.     *)
CooldownsEnd ==
  \A id \in Identities :
    /\ \A book \in Books, t \in Times :
         ~Finished(counters[book][id][t]) ~> Finished(counters[book][id][t])
    /\ \A exchange \in Exchanges : ~Finished(monthly[exchange][id]) ~> Finished(monthly[exchange][id])
=============================================================================
