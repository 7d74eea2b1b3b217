-------------------------- MODULE MCTokenInvestors --------------------------
(***************************************************************************)
(* Small instances of the investor list.  The token is open, every wallet   *)
(* is verified and has been minted, and frozen, an amount of zero, so that  *)
(* every slot has been computed once and every wallet is listed.            *)
(***************************************************************************)
EXTENDS TokenInvestors

OpenInit ==
  /\ balances = [w \in Wallets |-> 0]
  /\ frozenTokens = [w \in Wallets |-> 0]
  /\ frozen = {}
  /\ allowances = [w \in Wallets |-> [s \in Spenders |-> 0]]
  /\ totalSupply = 0
  /\ written = {SupplySlot} \cup {BalanceSlot(w) : w \in Wallets} \cup {FrozenSlot(w) : w \in Wallets}
  /\ paused = FALSE
  /\ agents = Operators
  /\ registered = Wallets
  /\ verified = Wallets
  /\ overflowed = FALSE
  /\ investors = Wallets
  /\ investorList = [i \in 1 .. NumWallets |-> i]
  /\ supplyReaders = Wallets
  /\ balanceReaders = Wallets
  /\ removed = {}

(* Everything that touches the list; tokens may be frozen, and a wallet may  *)
(* become free to recover to.                                               *)
FreezeStep ==
  \E w \in Wallets, amount \in Amounts :
    FreezePartialTokens(w, amount) \/ UnfreezePartialTokens(w, amount)

OpenNext ==
  \/ InvestorsStep
  \/ FreezeStep /\ UNCHANGED bookVars
  \/ (\E w \in Wallets : DeleteIdentity(w)) /\ UNCHANGED bookVars

OpenSpec == OpenInit /\ [][OpenNext]_<<vars, bookVars>>
=============================================================================
