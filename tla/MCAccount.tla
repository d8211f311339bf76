------------------------------ MODULE MCAccount ------------------------------
(* Instances of Account for TLC.                                             *)
EXTENDS Account
=============================================================================
