--------------------------- MODULE MCContextSwitch ---------------------------
(* Instances of ContextSwitch for TLC.                                     *)
EXTENDS ContextSwitch
=============================================================================
