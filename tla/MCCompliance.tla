---------------------------- MODULE MCCompliance ----------------------------
(***************************************************************************)
(* Small instances of the compliance.  The token is open and its three       *)
(* modules are bound, the fee module before or after MaxBalance.            *)
(***************************************************************************)
EXTENDS Compliance, TLC

CONSTANTS i1, i2

Granting == 2       \* the wallet that has approved its spenders, for one token

ReadyInit ==
  /\ balances = [w \in Wallets |-> 0]
  /\ frozenTokens = [w \in Wallets |-> 0]
  /\ frozen = {}
  /\ allowances = [w \in Wallets |-> [s \in Spenders |-> IF w = Granting THEN 1 ELSE 0]]
  /\ totalSupply = 0
  /\ written = {SupplySlot} \cup {BalanceSlot(w) : w \in Wallets} \cup {FrozenSlot(w) : w \in Wallets}
                  \cup {AllowanceSlot(Granting, s) : s \in Spenders}
  /\ paused = FALSE
  /\ agents = Operators
  /\ registered = Wallets
  /\ verified = Wallets
  /\ overflowed = FALSE
  /\ identity = [w \in Wallets |-> IF w = Collector THEN i1 ELSE i2]
  /\ verifiedIds = Identities
  /\ modules \in {<<MaxBalanceModule, SupplyLimitModule, FeeModule>>,
                  <<FeeModule, SupplyLimitModule, MaxBalanceModule>>}
  /\ maxBalance = 2
  /\ idBalance = [id \in Identities |-> 0]
  /\ bookedIds = Identities
  /\ presetDone = TRUE
  /\ supplyLimit = IF FeeComesFirst THEN 2 ELSE 3
  /\ supplyKnown = TRUE
  /\ feeRate = FullRate
  /\ strayed = FALSE

ReadyNext ==
  \/ CompliantStep
  \/ \E w \in Wallets, id \in Identities : Register(w, id) \/ UpdateIdentity(w, id)
  \/ \E w \in Wallets : Deregister(w)
  \/ SetMaxBalance(1)

Tracked == ~strayed \/ ~Bound(MaxBalanceModule)

(* The whole life of the compliance, from its deployment: nothing is bound,  *)
(* registered or preset, and the token has no agent.  Freezes, which it      *)
(* hears nothing of, are left to the runs of the ledger.                     *)
SetupNext ==
  \/ CompliantStep
  \/ IdentityStep
  \/ OwnerStep
  \/ (RoleStep \/ Unpause) /\ UNCHANGED complianceVars

(* The setup knows one identity from another by nothing but its name.        *)
EitherIdentity == Permutations(Identities)

SetupSpec == ComplianceInit /\ [][SetupNext]_<<vars, complianceVars>>

ReadySpec == ReadyInit /\ [][ReadyNext]_<<vars, complianceVars>>
=============================================================================
