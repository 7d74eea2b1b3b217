--------------------------- MODULE EncryptedWords ---------------------------
(***************************************************************************)
(* The arithmetic of the encrypted integers (euint64) that the contracts   *)
(* compute on.  A contract never sees a plain amount: it cannot branch on a *)
(* comparison, it can only select one of two amounts, and its sums and      *)
(* differences wrap around silently at the end of the word.  The library   *)
(* itself (fhevm/lib/TFHE.sol) is a dependency; what is modelled here is    *)
(* what the contracts rely on.                                              *)
(***************************************************************************)
EXTENDS Integers

CONSTANT WordSize       \* number of values of the word: 2^64 for a euint64

ASSUME WordSizeAssumption == WordSize \in Nat \ {0}

Amounts == 0 .. WordSize - 1

(* TFHE.add and TFHE.sub: modulo WordSize, with no carry reported.         *)
AddWord(a, b) == IF a + b < WordSize THEN a + b ELSE a + b - WordSize
SubWord(a, b) == IF b <= a THEN a - b ELSE a - b + WordSize

(* TFHE.select: the encrypted form of a guard.  What a plain contract would *)
(* revert on becomes an amount of zero here.                                *)
Select(condition, yes, no) == IF condition THEN yes ELSE no
=============================================================================
