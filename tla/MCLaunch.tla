------------------------------ MODULE MCLaunch ------------------------------
(***************************************************************************)
(* Launches with the keys of .env.example, where one key deploys the        *)
(* gateway and owns it.                                                     *)
(***************************************************************************)
EXTENDS Launch
=============================================================================
