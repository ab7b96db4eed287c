---------------------------- MODULE MCApplication ----------------------------
(* Instances of Application for TLC.                                       *)
EXTENDS Application, TLC

CONSTANTS b1, b2

OneBlock == [t \in Tapes |-> <<"EOT">>]
Rounds == <<Cores, Tapes, Disks, Printers>>
Regs == (t1 :> b1) @@ (t2 :> b2)
NoCommands == {}
=============================================================================
