----------------------------- MODULE WalletSums -----------------------------
(***************************************************************************)
(* The wallets, and the sum of an amount over all of them.  No contract     *)
(* computes such a sum: the properties of the ledger are stated with it.    *)
(* The wallets are numbered so that the sum is a recursive function.        *)
(***************************************************************************)
EXTENDS Integers

CONSTANT NumWallets     \* wallets are the addresses 1 .. NumWallets

ASSUME NumWalletsAssumption == NumWallets \in Nat \ {0}

Wallets == 1 .. NumWallets

RunningTotal(f) ==
  LET sum[i \in 0 .. NumWallets] == IF i = 0 THEN 0 ELSE sum[i - 1] + f[i]
  IN  sum

Total(f) == RunningTotal(f)[NumWallets]
=============================================================================
