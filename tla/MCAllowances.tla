---------------------------- MODULE MCAllowances ----------------------------
(***************************************************************************)
(* Small instances of the token with a fee module, approvals and spenders.   *)
(* The word has WordSize values: a request for more than is left wraps after *)
(* one step.                                                               *)
(***************************************************************************)
EXTENDS Allowances

CONSTANT MaxGranted      \* bound on what is granted, or overspent

Granting == 2            \* the wallet that approves spenders

(* The token once it is launched: every amount was computed once, by a mint,  *)
(* a freeze and an approval of zero.                                        *)
LaunchedInit ==
  /\ balances = [w \in Wallets |-> 0]
  /\ frozenTokens = [w \in Wallets |-> 0]
  /\ frozen = {}
  /\ allowances = [w \in Wallets |-> [s \in Spenders |-> 0]]
  /\ totalSupply = 0
  /\ written = {SupplySlot} \cup {BalanceSlot(w) : w \in Wallets} \cup {FrozenSlot(w) : w \in Wallets}
                  \cup {AllowanceSlot(Granting, s) : s \in Spenders}
  /\ paused = FALSE
  /\ agents = Operators
  /\ registered = Wallets
  /\ verified = Wallets
  /\ overflowed = FALSE
  /\ granted = [w \in Wallets |-> [s \in Spenders |-> 0]]
  /\ overdrawn = {}

SpenderStep ==
  \E s \in Spenders, from, to \in Wallets, amount \in Amounts, answer \in Answers :
    TransferFromCounted(s, from, to, amount, answer)

ApprovalStep ==
  \E s \in Spenders, amount \in Amounts :
    \/ ApproveCounted(Granting, s, amount)
    \/ IncreaseCounted(Granting, s, amount)
    \/ DecreaseCounted(Granting, s, amount)

LedgerStep ==
  /\ \/ \E w \in Wallets, amount \in Amounts :
          \/ Burn(w, amount)
          \/ FreezePartialTokens(w, amount)
          \/ \E answer \in Answers : Mint(w, amount, answer)
          \/ \E to \in Wallets, answer \in Answers :
               Transfer(w, to, amount, answer) \/ ForcedTransfer(w, to, amount, answer)
     \/ \E lost, new \in Wallets, valid \in BOOLEAN, answer \in Answers :
          RecoverAddress(lost, new, valid, answer)
     \/ \E w \in Wallets : DeleteIdentity(w)
  /\ UNCHANGED grantVars

LaunchedNext == SpenderStep \/ ApprovalStep \/ LedgerStep

LaunchedSpec == LaunchedInit /\ [][LaunchedNext]_<<vars, grantVars>>

(* The owner approves and takes nothing back.                               *)
ApprovingNext ==
  \/ SpenderStep
  \/ \E s \in Spenders, amount \in Amounts : ApproveCounted(Granting, s, amount)
  \/ (\E w \in Wallets, amount \in Amounts, answer \in Answers : Mint(w, amount, answer))
       /\ UNCHANGED grantVars

ApprovingSpec == LaunchedInit /\ [][ApprovingNext]_<<vars, grantVars>>

(* Where the properties still promise something.                            *)
Promising ==
  /\ ~overflowed
  /\ overdrawn = {}
  /\ \A w \in Wallets, s \in Spenders : granted[w][s] \in 0 .. MaxGranted
=============================================================================
