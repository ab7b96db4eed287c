------------------------------ MODULE MCCores ------------------------------
(* Instances of Cores for TLC.                                             *)
EXTENDS Cores
=============================================================================
