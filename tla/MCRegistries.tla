---------------------------- MODULE MCRegistries ----------------------------
(***************************************************************************)
(* Small instances of the registries.                                       *)
(***************************************************************************)
EXTENDS Registries, TLC

CONSTANTS i1, i2

Interchangeable == Permutations(Issuers)
=============================================================================
