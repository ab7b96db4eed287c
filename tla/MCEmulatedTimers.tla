-------------------------- MODULE MCEmulatedTimers --------------------------
(* EmulatedTimers with as many blocks as keys, the tightest case that     *)
(* EnoughTimers allows.  Blocks and keys are interchangeable: the code    *)
(* only compares them for equality.                                        *)
EXTENDS EmulatedTimers, TLC

Symmetry == Permutations(Timers) \cup Permutations(Keys)
=============================================================================
