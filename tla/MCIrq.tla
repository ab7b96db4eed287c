------------------------------- MODULE MCIrq -------------------------------
(* Instances of IrqHandler for TLC.                                        *)
EXTENDS IrqHandler, TLC

TwoBlocks == [t \in Tapes |-> <<"EOB", "EOT">>]

Moves == {Command("SEEKCYL", 1, 0)}

\* The order of the bytes of INTERRUPT_LINES: IL_TIMER, IL_TAPE, IL_DISK, IL_PRINTER.
Rounds == <<Cores, Tapes, Disks, Printers>>
=============================================================================
