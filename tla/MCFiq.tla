------------------------------- MODULE MCFiq -------------------------------
(* Instances of FiqHandler for TLC.  Every tape holds the same file.       *)
EXTENDS FiqHandler, TLC

TwoBlocks == [t \in Tapes |-> <<"EOB", "EOT">>]

\* What is answered whatever the disk does: moves by one, off the disk, and the rest
\* but for ACK.
MCDiskCommands ==
    {Plain("RESET"), Plain("OTHER"), Command("SEEKCYL", 1, 0),
     Command("WRITEBLK", 0, 1), Command("READBLK", Heads + 1, 0)}

Untouched(d) == /\ status[d] \in {"READY", "NOT_INSTALLED"} /\ command[d] = Plain("RESET")
                /\ d \notin lines /\ deadline[d] = Off

\* Which posts are looked at: those to one device at a time, until PostUntil, and in
\* the first two microseconds commands to the printer beside the tape or the disk,
\* whose timers then run out together.
Touched == {d \in Devices : ~Untouched(d)}
AloneOrTogether ==
    mailbox = NoMail /\ mailbox' # NoMail =>
        LET used == Touched \cup {mailbox'.dev} IN
        \/ Cardinality(used) = 1
        \/ /\ now < 2
           /\ used \cap Tapes = {} \/ used \cap Disks = {}
           /\ mailbox'.cmd.op \notin {"ACK", "OTHER"}
           /\ \A d \in used : status[d] # "ILLEGAL_OPERATION"
=============================================================================
