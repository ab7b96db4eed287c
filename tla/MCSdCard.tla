------------------------------ MODULE MCSdCard ------------------------------
(* Instances of SdCard for TLC.                                            *)
EXTENDS SdCard
=============================================================================
