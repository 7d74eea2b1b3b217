# A verification project for the confidential T-REX token

The repository is an ERC-3643 (T-REX) security token whose amounts are encrypted
integers of the fhEVM. This directory holds TLA+ modules translated from its
contracts and from the scripts and tasks that launch and use them, TLC
configurations that check them on small instances, and TLAPS proofs about the ledger and
its list of investors, its compliance, its limits, the registries, swaps, the upgrade of
suites and the launch, for every value of the constants.

Two things make these contracts hard to test. A contract cannot branch on an
encrypted amount: what a plain token reverts on becomes, here, an amount of zero,
so a call may "succeed" half way and leave something behind. And sums of
encrypted words wrap silently. Transactions are atomic, so the interleavings are
orders of transactions, of holders, spenders, agents, owner and registry, plus the
nested call with which the fee module re-enters the token. The scripts and tasks are
processes: they send one transaction after another, and everything can come between.

## 1. Inventory

| Component | State | Operations | Talks to |
|---|---|---|---|
| Token (`contracts/token`) | balances, frozen amounts and wallets, allowances, supply, pause, agents, list of investors, read rights | transfers, allowances, mint, burn, forced transfer, freezes, recovery, batches, role changes | asks the registry `isVerified`; asks the compliance `canTransfer`, tells it `transferred`, `created`, `destroyed` |
| ModularCompliance | ordered list of modules, bound token | addModule, removeModule, callModuleFunction, canTransfer, transferred, created, destroyed | every module in list order |
| MaxBalanceModule | book of what each identity holds, maximum, preset status | preset, setMaxBalance, check, transfer/mint/burn actions | the registry, for identities |
| SupplyLimitModule | limit | setSupplyLimit, check | the token's `totalSupply` |
| TransferFeesModule | rate, collector | setFee, transfer action | calls `forcedTransfer` on the token during a transfer |
| ConditionalTransferModule | counted approvals, by the hash of a transfer | approve, unapprove, check, transfer action | |
| TimeTransfersLimits, TimeExchangeLimits, ExchangeMonthlyLimits | limits by period, tagged exchanges, counters with a deadline per identity | set limits, tag and untag exchanges, check, transfer action | registry, block time |
| TransferRestrict, CountryAllow, CountryRestrict | allowed wallets or countries | setters, check | registry |
| IdentityRegistry, its storage, TrustedIssuers, ClaimTopics | identity and country of a wallet; issuers, topics | register, update, delete, `isVerified`; add, update, remove issuers and topics | identities and claim issuers |
| OnchainID `Identity` | keys, claims, executions | execute, approve, keys, claims | arbitrary contracts |
| DVDTransferManager | pending swaps, nonce | initiate, take, cancel | `transferFrom` of two tokens |
| Roles, OwnerManager | role members | add, remove; forwarded owner calls | all of the suite |
| TREXFactory, IAFactory, implementation authorities, proxies | suites by salt, releases by version, the authority and the owner of each proxy | deploy, recover ownership; add, use, fetch versions; change authority | all of the suite; proxies ask their authority at every call |
| TREXGateway | deployers, fees, discounts | deploy against a fee | the factory, a fee token |
| Launch: test task, `launch-fhevm.sh`, `taskTFHE`, `taskDeploy`, `taskGatewayRelayer` | `.env` files, `.sol` constants, artifacts, nonces and code of the chain, funded accounts | compute addresses, compile, deploy, fund, add a relayer | node, faucet |
| Swap script (`scripts/executeDVD.ts`) | how far it is | mint, approve, initiate, take, decrypt | two tokens, the DVD manager |
| Legacy compliance, other scripts and tasks | | | not modelled |

Behaviours that are hard, and the correctness properties they put at risk:

* *Read-back and re-entry.* `_transfer` writes the receiver and reads the sender
  back; the fee module moves tokens between the check and the move. At risk: the
  balances add up to the supply; frozen tokens are covered by the balance; nobody
  pays a fee for a transfer that is refused.
* *Refusals that do not revert.* Forced transfer, recovery, transferFrom. At risk:
  releases, allowances and identities change although nothing moved.
* *A book beside the ledger.* MaxBalance follows what it is told. At risk: the book
  says what identities hold, under any order of modules; limits hold.
* *Wrapping words.* mint, freeze, allowance, supply limit. At risk: a request beyond an
  allowance makes it larger, and the spender takes more than was ever granted.
* *Unwritten ciphertexts.* An amount that no call computed cannot be selected:
  a legal sequence of calls leads to a revert.
* *Rights on ciphertexts.* A new sum is readable by nobody. At risk: holders read
  the supply, and their balance.
* *A deal of two contracts that answer true.* The manager of swaps cannot see that a
  side has moved nothing. At risk: a side is delivered in part, twice, or out of more
  than the allowance on record.
* *Windows of time.* A counter is increased by what the token announces and not by what
  it moves, and expires between the question and the answer. At risk: more passes in a
  window than its limit; a window that never ends.
* *Records kept several times.* Trusted issuers are a list, an index by issuer and an
  index by topic, from which entries are removed by moving the last one. At risk: an
  issuer removed under one index certifies investors through another.
* *Upgrades by several owners.* A suite asks its authority at every call what to run;
  issuers fetch versions from whatever is the platform's reference at the time, go to
  authorities of their own and back, share storages and exchange registries. At risk: a
  suite that runs nothing,
  or a mixture of releases; code that changes without its owner's decision.
* *Addresses before contracts.* A launch tells contracts of the addresses of others that
  do not exist yet, from files that outlive it. At risk: a launch that reports success
  and whose contracts do not know each other; concurrent calls of the faucet outrun one
  another.

`PROJECT.json` lists the hazards at their lines with the properties that cover them.

## 2. Modules

| Module | Models |
|---|---|
| `EncryptedWords` | what the contracts rely on of `euint64`: wrapping sum and difference, select. External. |
| `WalletSums` | the sum of an amount over the wallets, as a recursive function; only properties use it. |
| `Token` | the ledger of `Token.sol`, with every operation that changes it. |
| `TokenInvestors` | extends `Token` with the list of investors and the read rights of supply and balances. |
| `Allowances` | extends `Token` with a count of what owners have granted to spenders and these have not taken yet. |
| `Compliance` | extends `Token` with ModularCompliance, MaxBalance, SupplyLimit, TransferFees and the identities of the registry. |
| `Limits` | ConditionalTransfer, TimeTransfersLimits, TimeExchangeLimits, ExchangeMonthlyLimits, asked and told as the token does. |
| `Registries` | TrustedIssuersRegistry, ClaimTopicsRegistry, the identities of wallets, claims and `isVerified`. |
| `Settlement` | what delivery versus delivery promises, abstractly: agreements, holdings, approvals. |
| `DVD` | DVDTransferManager between two instances of `Token`, the swap script as a process, and others. |
| `Suites` | TREXFactory, IAFactory, TREXImplementationAuthority, the authority and the ownership of the proxies of suites. |
| `Launch` | the launch of the fhEVM contracts by the test task, the script or a task. |
| `MCTokenInvestors`, `MCAllowances`, `MCCompliance`, `MCLimits`, `MCRegistries`, `MCSuites`, `MCLaunch` | instances for TLC: start states after launch, narrowed next-state relations, claims of documents. |
| `TokenProofs`, `TokenInvestorsProofs`, `ComplianceProofs`, `LimitsProofs`, `RegistriesProofs`, `DVDProofs`, `SuitesProofs`, `LaunchProofs` | theorems and proofs. |

### Token

A step is one transaction that did not revert. What `require` demands is a guard;
what `TFHE.select` decides is an amount of zero. The state is the storage of
`TokenStorage.sol` as functions on wallets, plus `written`, the slots that hold a
ciphertext: `recoveryAddress` and `transferFrom` revert on slots never written.
`registered` and `verified` are what the token sees of the registry.

The compliance is reduced to an *answer*: `can` (canTransfer), `done` (the modules
accept when told), `charges`, `fee` and `feeDone` (the nested forced transfer of the
fee module). The answer is chosen freely, so the ledger is checked and proved under
every set of modules. `Moved`, `Released`, `FeeTaken` and `ForcedMove` are the parts
that operations share, as functions on a ledger record, so that a nested call is a
composition. `overflowed` is a history variable: some mint carried the supply past
its word; after it nothing can be promised of sums.

Batch functions repeat one operation within one transaction; their intermediate
states are states of the model too, so an invariant of the model holds after a batch.

### TokenInvestors

Superposes `investors` (the mapping), `investorList` (the array), the set of parties
that may decrypt the current supply, and the wallets that may decrypt their current
balance, on the actions of `Token`. `_beforeTokenTransfer` takes a sender out of the
mapping but not off the list, so the list may hold duplicates. `MaxListed` bounds it.

### Allowances

An allowance is a slot that `approve` sets, `increaseAllowance` and `decreaseAllowance` add
to and subtract from, and `transferFrom` charges, none of them with a check of what is
asked against what is left: the comparison in `_updateAllowance` decides what *moves*. To
say what an allowance is worth over time, the module runs two history variables beside the
operations of `Token`: `granted`, what each owner has granted to each spender and the
spender has not taken yet, a count without a word; and `overdrawn`, the pairs of which more
was asked, or taken back, than the slot held since the owner last approved. From then on
the slot has wrapped around and says nothing. Both are kept out of every guard.

### Compliance

Computes the answers of `Token` from the state of the modules. `Told` is everything
that happens while the modules are told of a transfer: the book of MaxBalance before
or after the fee, as the order of the list has it, and the fee's own transfer, of
which the modules are told again. `strayed` is a history variable: the registry, a
recovery or a binding with a wrong preset has moved tokens past the book; the code
has no means to tell the module of those.

`supplyKnown` is the access of SupplyLimit to the ciphertext of the supply, which mint and
burn replace and allow to the modules bound at that moment. Without it `moduleCheck`
reverts, and with it every transfer and mint (`SupplyReadable`).

Abstractions: one compliance contract, one collector; a claim change makes an
identity verified or not, in place of the loop of `isVerified`; `FullRate` stands for
the 10000 of the fee rate.

### Limits

The token asks the modules about an amount, replaces it by zero if one refuses, tells
them what it is about to move, and moves zero if one that was told refuses. `Transfer`
is the whole exchange; `ForcedTransfer` (also recovery and fees) is told without being
asked; what modules outside of this one answer when told is chosen freely. Every transfer of an
amount that the holder cannot cover is one of zero. TimeTransfers
is one book, TimeExchange one per exchange, with the same counters and limits. Time is
what is left of a window (`timer <= block.timestamp` is `left = 0`), `Tick` lets a unit
of it go by. `volume` and `loose` are history: what a window really let move, and whether
something went past it unchecked (an agent's or a forced transfer, a limit changed while
the window runs, a counter that wraps); they are kept out of every guard.

A ciphertext has a handle: an input is one, and each `TFHE.select` makes another. The
approvals of ConditionalTransfer are by handle, so `Handles` pairs an amount with how
often it was computed. ExchangeMonthlyLimits is never granted access to a limit that was
set, so it reverts on comparing one (`CanCompute`).

### Registries

One action per operation of the owner, the agent, the investor and the issuer. The lists
are sequences and keep the order that swap-and-pop leaves, because the loop of
`isVerified` depends on it: it stops at the first valid claim, or at the last issuer.
An issuer may take its key back, or begin to revert (`mode`); claims are kept by identity,
issuer and topic, which is what the claim id hashes. Topic 0 is left out.

### Settlement and DVD

`Settlement` knows no words and no ciphertexts: an agreement is opened, and settled or
cancelled once; each side passes in full or not at all, out of what its owner holds and
within `approved`. Two things it does not promise: one side may pass without the other (see
section 3), and `approved` is what the asset has on record, which for a token is the
allowance and may have wrapped around (see `Allowances`).

`DVD` has two instances of `Token`; `takeDVDTransfer` is the conjunction of a
`TransferFrom` of each with the deletion of the delivery, one transaction that reverts
when either does. The refinement maps the balances to `holdings`, the allowances of the
manager to `approved` and the two mappings of deliveries to `pending`. The script is a
process with a program (`Script`) that sends transactions, decrypts balances it may read,
and throws on the first that fails.

### Suites

One action per operation of an authority, of the factory and of an owner. A suite is named
by its salt, a contract by its kind and its suite; `authority` and `owner` say of each
whom it asks and whom it obeys. A release is a set of six implementations, all there or
none: `addTREXVersion` demands it, and `fetchVersion` copies it whole. What a contract runs
is `Runs`: nothing is stored in the proxy but its authority.

`changeImplementationAuthority` is two actions that share `MayChange` and `Moved`: to an
authority that exists (`ChangeToExisting`), or to one that `IAFactory.deployIA` makes on
the way, with the reference's current version (`ChangeToNew`). Both find the contracts as
the code does, by the pointers `uses`: from the token to its registry and compliance, from
the registry to the topics, the issuers and the storage (`Leads`, `Storage`). Owners may set
each pointer to the contract of any suite, deployed or not, or to a foreign or zero address
(`None`): `SetIdentityRegistryStorage` and its siblings check nothing, as the code. Only a
new compliance must be there, since it is called. The storage moves only if it is on the
authority that is left. `deployTREXSuite` hands over what it has made except the storage;
`RecoverContractOwnership` and `TransferOwnership` do that later, for the kinds of contracts
in `Movable`. Owners of contracts and authorities may renounce. `mixed` is a history
variable: suites of which a part other than the storage was exchanged, and those whose part
was taken for it.

Abstractions: one factory of suites, one of authorities; `addAndUseTREXVersion` is its two
parts in turn; agents, claims and modules that a deployment sets up are left out; so is the
binding between a compliance and its token, which the owners of either can always redo.

### Launch

`Program` lists the steps of each mode; a step reads files and the chain and writes them.
An address is a creator and a nonce. `Deploy` uses the nonce that the creator has on the
chain and compares the address with the file afterwards; the test task and
`launchFhevm` end on an error, the script goes on. The faults: a failed write that is only
logged, a launch killed, a stranger's transaction that takes a nonce or the faucet's
sequence number, an answer of the faucet other than the one `getCoin` looks for. Files
survive from launch to launch; a shared node does too.

## 3. What the runs show

All runs are complete explorations of their instance. The word has 2 to 4 values, so
that overflow, wrapping and exact limits are reached in two or three steps; two
wallets give a sender and a receiver, three add the fee collector. Nothing in the
contracts compares amounts other than with each other, so a larger word adds
amounts but no new order between them that the properties tell apart; the proofs
remove the bound where they apply.

| Run | Start, bounds | Shows |
|---|---|---|
| `lifecycle` | deployment; 2 wallets, word 3 | the whole token without fees: supply and sum agree, also modulo the word after an overflow; frozen amounts covered, nothing forced without agents, recovery carries freezes |
| `fees` | launched; 3 wallets, word 4, fees 0..1, one spender to whom one wallet grants up to 3 | the same sums with the fee module re-entering, among approvals and spenders; until more is asked of an allowance than it holds, it holds no more than was granted and not taken, and no more than that is taken in all |
| `list` | launched; 2 wallets, word 2, at most 3 entries | the list of investors; who may read the supply; whoever gains can read the new balance, until a mint overflows |
| `modules` | three modules bound, the fee module first or last, a maximum of 2, lowered later, and a limit of 3, or of 2 where the fee comes first; one wallet has approved a spender; 3 wallets, 2 identities, word 4 | the book is what identities hold; maximum and supply limit hold; no fee without a transfer |
| `setup` | deployment; 1 wallet, 2 identities, word 2 | presets, binding, unbinding and reordering, claims and identities changing |
| `limits` | one of the four modules bound; an investor with two wallets, one an agent's, and an exchange; word 4, periods of 1 and 2 units, a month of 2, 1 approval | what moves in a window stays below its limit; windows end |
| `registries` | deployment; 1 wallet, 1 identity, 2 issuers, 2 topics, lists of up to 2 topics, 1 revocation or failed issuer | the three records of the issuers agree; `isVerified` answers what they and the claims say |
| `swap` | two tokens, nothing minted; 2 wallets, word 3, 2 deliveries, 2 steps of others | the manager implements `Settlement` side by side; the script left alone swaps |
| `suites` | one suite deployed, its storage the factory's; 2 suites, 2 references, 1 authority of the issuer, 2 versions, 2 releases | a suite stays together on a published release; only its authority's owner changes its code, while the platform changes references, storages are shared, and one suite takes the topics of the other |
| `launch` | fresh and used files, funded node or not; 2 launches, 1 fault | a launch that reports success is wired; three concurrent calls of the faucet; launches end, sound ones succeed |
| `monthly` | as `limits`; violation | the first transfer of a month exceeds the monthly limit |
| `overspent` | launched, 2 wallets, word 4; violation | a spender asks for 1 of an allowance of 0 and moves nothing, its allowance is then the largest amount, and it takes a token |

`modules` and `setup` do not explore beyond states that have `strayed` with
MaxBalance bound (`Tracked`): the book properties promise nothing there, and what the
ledger does there is explored by `lifecycle` and `fees`. `fees` does not explore
beyond an overflowing mint, a request that wraps an allowance or a grant above 3
(`Promising`), where most of its invariants promise nothing; `lifecycle` does the first,
`overspent` the second. `setup` takes identities for interchangeable.
The launched start states are reachable: each wallet verified, minted and frozen
an amount of zero. In `registries` the issuers are interchangeable; two of them,
with two topics each, already make swap-and-pop remove the first, the last and a repeated
entry of a list and reorder what is left.

`limits` narrows who sends to whom (`Sends`) to the pairs that differ: investor or agent's
wallet to the exchange, between own wallets, and back. The modules do not see
each other, so one is bound at a time and the answers of the others are free.

`suites` starts with the reference linked and a suite deployed, as the platform leaves them.
Main publishes one more version and the other reference the first one, with the same
release or another, so that the two can agree and disagree; the second suite is deployed with
a storage of its own or the first one's, or goes over to it or to none, and may take the
registry of topics of the first. While there is one release only, the other parts of the
second suite are exchanged too, for those of the first, for none or back (`ExchangeStep`),
or owners renounce (`RenounceStep`). Only storages change hands (`Movable`): they are the
contracts whose owner differs after a deployment. `SuitesProofs` needs none
of these bounds.

### Liveness, fairness, deadlock

* `launch`: `WF_vars(LaunchStep)`. A launch is a sequential program that awaits calls
  which return, so it takes its next step. Nobody is obliged to start one, and faults
  and strangers may come at any step, up to their bound. `LaunchEnds`: however often
  the faucet's calls are repeated. `SoundLaunchSucceeds`: order, nonces and addresses of
  the whole procedure agree.
* `swap`: weak fairness of the script's next step or its end, on its program counter. The
  script awaits each transaction. `ScriptSwaps`.
* `limits`: `WF_vars(Tick)`: blocks are produced and their time goes up. `CooldownsEnd`:
  no sequence of transfers keeps a window open.

The contracts of the ledger only react to calls and nobody is obliged to call; those
modules have no fairness. Only `swap` switches deadlock checking off: the
script ends, and with `MaxOthers` reached nothing is left to happen.

### Disagreements with documents that have no run of their own

* `Token.sol:274` takes the amount asked for out of the allowance although the transfer may
  move zero. What this does when the allowance does not cover it is the run `overspent`: the
  allowance grows. When it does, but the free balance does not, the allowance is spent for
  nothing, where `IERC20.sol:73-75` has what is moved deducted. (`swap` explores it:
  approvals are spent by settlements that deliver nothing.)
* `ConditionalTransferModule.sol:227` hashes the handle of a ciphertext, and the token asks
  about a value that it has computed with `TFHE.select` (`Token.sol:531`), which has a handle
  of its own. So the approval of an encrypted input never matches, and the transfer that
  line 271 calls allowed "once a transfer is approved" moves nothing.
* `Token.sol:751-755, 773-777`: mint and burn allow the new ciphertext of the supply to the
  modules bound at that moment, `addModule` allows nothing. A supply limit that is bound to a
  token which has a supply reverts (`SupplyLimitModule.sol:149`), and with it every transfer
  and mint, until a burn (or a new `setCompliance`); line 751 says "Allow each token
  compliance module to access the total supply cypher (Especially for SupplyLimitModule)".
  (With `SupplyReadable` as an invariant of `setup`, TLC finds it.)
* `Token.sol:175`: `decreaseAllowance` by more than is left wraps around too, so that an owner
  who takes back too much grants nearly everything. (Without `overdrawn`, TLC finds
  `AllowanceWithinGrant` violated by it.)
* `Token.sol:567`: a forced transfer that the compliance refuses still releases frozen
  tokens; `IToken.sol:241-245` has the release serve the transfer.
* `Token.sol:410`: recovery selects the frozen amount of the lost wallet and reverts when
  none was ever written; `IToken.sol:284-285` offers it for any lost wallet. The test
  works around it (`test/token/token-recovery.test.ts:145`).
* `Token.sol:728`: the sender is not allowed its new balance, so it cannot read what it
  has left; `scripts/executeDVD.ts:107-119` decrypts exactly this. The model follows the
  source: without the access the script ends at its second result. The screenshots in the
  repository show all four results; no property depends on this.
* `MaxBalanceModule.sol:250`: in a recovery the identity is both sender and receiver and
  the amount counts twice, so a recovery may move nothing, against `IToken.sol:284-285`.
* `SupplyLimitModule.sol:150`: the sum of supply and mint wraps, so an overflowing mint
  passes the limit that `README.md:97` describes.
* `TimeTransfersLimitsModule.sol:177-206, 245-255` counts, and refuses, transfers between
  an investor's own wallets, which `README.md:100` says are excluded. A counter that
  wraps (line 197) lets more than a limit above half of the word pass (`loose`).
* `TokenStorage.sol:100` says the mapping tells whether an address is an investor, but a
  sender leaves the mapping with its first transfer, whatever it still holds;
  `removeInvestor` on a duplicated entry leaves the address listed; and
  `IToken.getFrozenTokens` says frozen amounts never exceed the balance, which an
  overflowing mint breaks.

* `DVDTransferManager.sol:226` calls `transferFrom` of both tokens, which answer true when
  balance, allowance or compliance let nothing move; one side may be delivered without the
  other, and the delivery is gone. Line 93 says that a delivery is "initiated by `maker` to
  swap" one amount for the other. (With `paid1 = paid2` demanded of `Settle`, TLC finds it.)
* `TREXFactory.sol:168-172` hands over everything but the storage that it has made, which
  stays with the factory; `ITREXFactory.sol:68` calls the owner given "the owner of all
  contracts" and line 155 has the storage's owner set. Until `recoverContractOwnership`, the
  owner can neither bind a registry to it nor change the authority of the suite.
* `TREXImplementationAuthority.sol:183` has an authority made whenever the current one is
  the reference: a token goes to its own, back to the reference, and gets another, where
  `ITREXImplementationAuthority.sol:191` says "only be deployed ONCE per token".
* `IIAFactory.sol` says of `deployIA` that the new contract contains all the versions of
  the reference; `IAFactory.sol:94` fetches the current one only. The constructor of
  `TREXImplementationAuthority` is told `address(this)` at `IAFactory.sol:92`, where
  `ITREXImplementationAuthority.sol` says that auxiliary contracts have no IAFactory.
* `TREXImplementationAuthority.sol:186-191` takes the same version for the same code. With
  a reference that was replaced by one of other code under that version, a change of
  authority is an upgrade: `OnlyUpgradesChangeCode` holds only with its premise `Agreed`.

* `IdentityRegistry.sol:141-160`, `Token.sol:677-707`: the parts of a suite can be exchanged
  for those of another. A change of authority follows the pointers
  (`TREXImplementationAuthority.sol:165-169`) and takes the other suite's contract along,
  which leaves that suite on two authorities, so that `changeImplementationAuthority`
  reverts for it. `SuitesRunOneRelease` claims togetherness of suites that are not `mixed`;
  without this premise TLC finds the split in five steps.

## 4. What is proved

For any number of wallets, any word size, any fees and any operators, and for any keys,
identities, issuers, topics, suites and bounds, from the named assumptions on the
constants (`WordSizeAssumption`, `NumWalletsAssumption`, `TokenAssumption`,
`ComplianceAssumption`, `LimitsAssumption`, `RegistriesAssumption`, `DVDAssumption`,
`SuitesAssumption`, `LaunchAssumption`):

| Module | Theorems | Of the run |
|---|---|---|
| `TokenProofs` | `TypeCorrect`, `SupplyConserved`, `SupplyConservedModulo`, `FrozenIsCovered`, `HoldersRespectFreezes`, `FreezeSurvivesRecovery`: the token under any compliance | `lifecycle`, `fees` |
| `TokenInvestorsProofs` | `InvestorsRefineToken`: the token with its list is the token; `InvestorsTypes`, `KnownAreListed`, `HoldersMayRead`, `GainsReadable`; `AllowancesRefineToken`, `AllowancesTypes`, `AllowancesCovered`, `GrantsKept`: the token with its count of grants | `list`, `fees` |
| `ComplianceProofs` | `RefinesToken`, `ModulesKeepTheLedger`: the token under its modules is the token under any compliance, so the above holds; `ComplianceTypeCorrect`, `BookIsTrue`, `MaxBalanceHolds`, `SupplyLimitHolds`, `ReceiversKeepTheirs` | `modules`, `setup` |
| `LimitsProofs` | `LimitsTypes`, `LimitsHold`: what moves within a window stays below its limit | `limits` |
| `RegistriesProofs` | `RegistriesTypes`, `IssuersAgree`, `VerifiedAreCertified` | `registries` |
| `DVDProofs` | `DVDTypes`, `SwapsAreDeliveries`: the manager between two tokens implements `Settlement` | `swap` |
| `SuitesProofs` | `SuitesTypes`, `SuitesTogether`, `UpgradesOnly` | `suites` |
| `LaunchProofs` | `LaunchTypes`, `SuccessIsWired`, `TestsAreCompiled`, `CoinsArriveInTime` | `launch` |

### The ledger

The argument. No conservation property is inductive alone: a difference
`balance - frozen` is exact only if frozen amounts are covered, a sum
`balance + amount` does not wrap only if all balances together fit the word, and that
they do follows from the supply being their sum. `IInv` is the conjunction:
types, and, until a mint overflows, the ledger *fits* (`LedgerFits`): its sum is the
supply and frozen amounts are covered. One lemma per shared part (`MovedFits`,
`ReleasedFits`, `FeeTakenFits`, `ForcedMoveFits`, `FrozenMoreFits`) shows that it
keeps a fitting ledger fit; nested calls compose these lemmas; then one lemma per
action. What the sum needs (an update changes it by the difference, two entries are
bounded by it) is proved first, by the least counterexample.

After an overflow the ledger fits no more, but every operation wraps on both sides alike.
`SupplyConservedModulo` follows each action through the congruence of sum and supply
modulo the word (`Congruent`), which needs of the invariant only the types.

### The list of investors

`InvestorsRefineToken`: every action of `TokenInvestors` is one of `Token` and changes to
the list. `NInv` adds to `IInv` that who is known is listed, that who is listed reads the
supply (`ListedRead`), and that whoever holds *or has frozen* something is listed or was
removed (`HoldersListed`). Frozen amounts belong to it: after an overflow more
may be frozen than is held, and a release then makes tokens out of nothing, for a wallet that was
never noted if it could have frozen amounts without having been a receiver. So the proof
first shows, of the ledger alone and without its sums, that a wallet with neither stays so
unless it receives. The same overflow is why `GainsAreReadable` has a premise: a *sender*
may gain then, and a sender is never allowed its new balance.

### Allowances

`AllowanceWithinGrant` is inductive with the types: a `transferFrom` takes from the owner at
most what is asked, nothing if that is above the allowance, and a fee is taken from the
receiver. So what is charged to the slot is at least what is taken off the count, and
neither `approve` nor `increaseAllowance` adds more to the slot than to the count. None of
it needs an assumption on the sum of balances, so it holds after an overflow too.
`GrantsKept` follows: what is taken is at most the allowance, which is at most the count.
The premise (`overdrawn`) is where the code leaves the promise of IERC20; `overspent`
shows that it is needed.

### The compliance

`CInv`, for the compliance, adds `ComplianceTypeOK` in four parts: registry, list of
modules, book, rules. `RefinesToken` needs of it only that the answers are well-formed.
`SupplyLimitHolds` uses `IInv` before and after the step: the limit is compared with
`totalSupply`, and it is the ledger's invariant that makes this the tokens in
circulation.

`BookIsTrue` is inductive with `CInv`: booking a move is exact if the move neither wraps
the sender's entry nor the receiver's, which holds when the book is what identities hold
and these sum up to the supply. Difficult is a transfer with a fee: the book may be told of
it before or after the nested transfer of the fee, depending on the order of the modules, while
the ledger always moves the fee first. `ToldFits` shows that both orders end in the same
book, because the two moves have different senders, neither of whom needs what the other
move brings (`MovesCommute`). `MaxBalanceHolds` comes from the same lemmas: what is compared with the
maximum is then what the identity holds. `ReceiversKeepTheirs`: the fee is at most what
arrives, and after the fee MaxBalance cannot refuse the transfer, as the receiver's entry has not grown
since it was asked (`AcceptedAfterFee`).

### Limits and suites

`LInv`, for the limits, is the records of limits and the types of counters and approvals,
and `WindowsHold`: for every window in which nothing was `loose`, what moved is at most what
was counted, and what moved is below the limit. Neither is inductive alone: a transfer
compares the *counter* plus its amount, and only because the counter bounds what moved
does the comparison say something about it. The counter counts more than moved, as a later module may
refuse; `Increased` and `Finished` treat both records alike when a window ends.

`SInv`, for suites, says that no release is found under a version where no reference has
published it (`Published`), that whatever a contract or the factory points to has its
current version (`CompleteOnes`), that what is not made has none (`Unmade`), that
contracts of a suite that is not mixed are on one authority (`Together`), that such a suite
points to its own contracts and no other one points to them, and which contracts exist. With it
goes an action property of every step, `ReleasesKept`: a release that an authority has is
never replaced. From these, a contract that keeps its authority and whose authority keeps its
version runs what it ran; one that goes over finds, by `Published`, `Agreed` and the
comparison of versions, or because `deployIA` has just fetched it, the same release.

### The registries

The three records of the issuers are compared by how often one holds what another does, as
topics may be repeated in what the owner gives. The first part of the
proofs says what an append and a swap-and-pop do to these numbers, by cardinalities of sets of
places. The loops over an issuer's topics are a function on the number of topics done
(`ChangedUpTo`); what they do to an entry of the index by topic is shown by the smallest
number at which it would fail. `RegistriesInv` is then the types and
`IssuerIndexesAgree`, which is inductive with them. `VerifiedAreCertified` follows: the
loop of `isVerified` over the issuers of a topic ends at the first of which the claim is
valid or at the last, so it finds one if there is one; and by the agreement of the records
the issuers it goes through are those that are trusted today with the topic.

### Swaps

`DVDProofs` uses the proofs about one token for two: `PA` and `PB` are instances of
`TokenProofs`, and each operation of `DVD`'s tokens is shown to be that of the proofs. The
invariant `DInv` is the invariant of both tokens and that neither has overflowed. The latter
holds because only the script mints, each token once, when its supply is still zero, and the
word holds the 1000 tokens it mints (`DVDAssumption`; it is what makes "not more than the free
tokens" mean "not more than the balance"). From `TransferFromDelivers`, a transferFrom without a
fee moves its amount out of balance and allowance, or nothing; `SettleStep` joins two of them,
of different tokens, into a settlement of the delivery. Everything else is a step elsewhere
(`ElsewhereStep`: approvals or balances stay), an opening or a cancellation. That the script
gets to the end (`ScriptSwaps`) is liveness and is left to TLC.

### The launch

`LaunchInv` speaks of the steps of the program that a launch has passed: what each has left
in the files and on the chain, and that nothing undoes it before the end. `DeploymentsStand`
says it of deployments and the relayer, `SoundIsOnCourse` why no deployment of an undisturbed
script lands elsewhere (the nonce of signer 9 is the number of its deployments), which
is what the script, that goes on after an error, needs instead of ending.
`SettledIsCompiled` relates the constants of the artifacts, of the code and of the files;
`CoinsArrive` the calls of `getCoin` to the accounts. What makes a new contract the only one at
its address is `ChainTypes`: code is at nonces that its creator has used. The keys are
arbitrary, and one may deploy, own and relay, except that signer 9 is none of them; and no key
is one of the two marks that stand for an empty and a shipped address (`LaunchAssumption`).

### Only model-checked

What is out of the prover's reach: liveness (`ScriptSwaps`, `CooldownsEnd`,
`LaunchEnds`, `SoundLaunchSucceeds`). There is no induction over data: a recursive
function of the models is unfolded once, and the smallest number at which a
statement about it fails is refuted.

## 5. Plan

Modelled and checked: the token, its investors and rights; the compliance with
MaxBalance, SupplyLimit and TransferFees; limits and approvals; registries; swaps;
the launch; the factory, the authorities and the upgrade of suites. Proved: all safety
properties of these.

Next, in this order:

1. Roles and OwnerManager; the OnchainID's executions, approvals and keys.
2. `Limits` under `Compliance`, in place of free answers.
3. The gateway; what a token sees when its registry is exchanged, in `Compliance`.

## 6. Not modelled, and why

* Names, symbols, events, input proofs and decryption protocols: no property depends on
  them; gas: the growth of the investor loop is noted as a hazard.
* The relation of a wallet to the keys of its identity in `recoveryAddress`: a fact about
  the identity, so the recovery is allowed to any new wallet.
* What `setCompliance`, `bindToken`, `setIdentityRegistry` and the registries bound to a
  storage change in the answers a token gets: the ledger is modelled under any compliance
  and any registry answers, `Compliance` with one that stays bound. (That `setCompliance`
  allows the supply to the new modules is left out with it.) Which contracts the pointers
  lead to is modelled in `Suites`.
* TransferRestrict, CountryAllow, CountryRestrict, the countries of investors: stateless
  filters; the ledger is checked under any answer they can give.
* Swaps of a token for itself, and of tokens that are no T-REX: the manager calls them
  alike, and what such a token does is not in the repository.
* Claims of topic 0, with which `isVerified` cannot tell a claim from none.
* Identity keys and executions, Roles and OwnerManager: planned. The gateway: guards on the
  caller and a fee in an outside token whose answer it ignores. The identity that the factory has
  made for a token (`IdFactory`): vendored, and the token never uses it.
* Legacy compliance: superseded by the modular one.
* `taskOracleRelayer.ts`: imported by nothing. `CustomProvider.ts` and the mocked
  coprocessor of the tests: they stand in for the fhEVM. `getEthereumAddress.ts`,
  `task:getBalances`: print.
