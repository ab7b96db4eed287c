--------------------------- MODULE EmulatedTapes ---------------------------
(***************************************************************************)
(* source/emulated/emulated_tapes.c.  A tape file is a sequence of blocks, *)
(* each followed by a marker; block_index counts the blocks before the     *)
(* head and data1 shows the marker just before it.                         *)
(***************************************************************************)
EXTENDS EmulatedIO, Sequences

CONSTANTS
    Markers,    \* Markers[t][i]: the marker after block i of tape t's file
    SdFaults    \* TRUE: reading the SD card may fail

Marks == {"EOB", "EOF", "EOT"}

\* Tape files end with their only end-of-tape marker.
ASSUME TapeFiles ==
    /\ SdFaults \in BOOLEAN
    /\ \A t \in Tapes :
           /\ Markers[t] \in Seq(Marks)
           /\ Markers[t] # <<>>
           /\ \A i \in DOMAIN Markers[t] : Markers[t][i] = "EOT" <=> i = Len(Markers[t])

VARIABLES
    block_index,  \* block_index of each tape
    data1,        \* internal_registers.data1: the marker under the head
    \* History:
    misread       \* the card failed when the marker was to be read

tape_vars == <<block_index, data1, misread>>

\* init_emulated_tapes
TapeInit ==
    /\ block_index = [t \in Tapes |-> 0]
    /\ data1 = [t \in Tapes |-> IF t \in Installed THEN "TS" ELSE "EOT"]
    /\ misread = [t \in Tapes |-> FALSE]

TapeCommands == {Plain("RESET"), Plain("ACK"), Plain("READ_REGISTERS"),
                 Plain("SKIPBLK"), Plain("BACKBLK"), Plain("READBLK"), Plain("OTHER")}

-----------------------------------------------------------------------------
\* What update_tape_head can find before block_index i.  A read that fails,
\* or lies beyond the end of the file, leaves head uninitialized.
MarkersRead(t, i, failed) ==
    IF i = 0 THEN {"TS"}
    ELSE IF failed \/ i \notin DOMAIN Markers[t] THEN Marks \cup {"garbage"}
    ELSE {Markers[t][i]}

\* update_tape_head, after the head moved to i: anything but a marker is an
\* error and leaves data1 alone.  st is the status that the caller derives.
update_tape_head(t, i, error, st) ==
    \E failed \in {FALSE, SdFaults /\ i \in DOMAIN Markers[t]} :
        \E head \in MarkersRead(t, i, failed) :
            /\ block_index' = [block_index EXCEPT ![t] = i]
            /\ data1' = IF head = "garbage" THEN data1 ELSE [data1 EXCEPT ![t] = head]
            /\ st = IF head = "garbage" THEN error ELSE "READY"
            /\ misread' = [misread EXCEPT ![t] = IF i \in DOMAIN Markers[t] THEN failed
                                                 ELSE @ /\ i # 0]

TapeAccept(t, b, op) == ~Busy(t) /\ Accept(t, b, Plain(op), TapeDelay)

Bug_TapeReset_head_kept(t, b) ==
    /\ block_index' = [block_index EXCEPT ![t] = 0]
    /\ Answer(t, b, Plain("RESET"), "READY")
    /\ lines' = lines \cup {t}
    /\ misread' = [misread EXCEPT ![t] = FALSE]
    /\ UNCHANGED data1

\* RESET rewinds the tape, drops what it was doing and raises the interrupt.
TapeReset(t, b) ==
    /\ update_tape_head(t, 0, "READ_ERROR", "READY")
    /\ Answer(t, b, Plain("RESET"), "READY")
    /\ lines' = lines \cup {t}

TapeAck(t, b) ==
    /\ ~Busy(t)
    /\ Answer(t, b, Plain("ACK"), "READY")
    /\ lines' = lines \ {t}

\* READBLK at the end of the tape: READ_ERROR at once.  The mailbox = 2 set
\* just before is overwritten by the copy of the registers.
TapeReadAtEnd(t, b) ==
    /\ ~Busy(t)
    /\ data1[t] = "EOT"
    /\ Answer(t, b, command[t], "READ_ERROR")
    /\ UNCHANGED lines

TapeRead(t, b) == data1[t] # "EOT" /\ TapeAccept(t, b, "READBLK")

Bug_TapeBusy_silent(t, b) == Busy(t) /\ UNCHANGED <<registers, regs, lines, timers>>

\* A busy tape answers with its registers only.
TapeBusy(t, b) == Busy(t) /\ Report(t, b)

(* emulated_tape_mailbox *)
emulated_tape_mailbox(t, b, c) ==
    \/ ~Present(t) /\ Report(t, b) /\ UNCHANGED tape_vars
    \/ Present(t) /\ c.op = "RESET" /\ TapeReset(t, b)
    \/ /\ Present(t)
       /\ \/ c.op = "ACK" /\ TapeAck(t, b)
          \/ c.op = "READ_REGISTERS" /\ Report(t, b)
          \/ c.op \in {"SKIPBLK", "BACKBLK"} /\ TapeAccept(t, b, c.op)
          \/ c.op = "READBLK" /\ (TapeRead(t, b) \/ TapeReadAtEnd(t, b))
          \/ c.op \in {"ACK", "SKIPBLK", "BACKBLK", "READBLK"} /\ TapeBusy(t, b)
          \/ c.op = "OTHER" /\ IllegalOperation(t, b)
       /\ UNCHANGED tape_vars

-----------------------------------------------------------------------------
\* tape_next_block: not beyond the end of the tape.
SkipBlock(t, st) ==
    IF data1[t] = "EOT"
    THEN st = "SKIP_ERROR" /\ UNCHANGED tape_vars
    ELSE update_tape_head(t, block_index[t] + 1, "SKIP_ERROR", st)

\* tape_prev_block: not before its start.
BackBlock(t, st) ==
    IF block_index[t] = 0
    THEN st = "BACK_BLOCK_ERROR" /\ UNCHANGED tape_vars
    ELSE update_tape_head(t, block_index[t] - 1, "BACK_BLOCK_ERROR", st)

\* read_tape_block, which reports no error, and the head moves on.
ReadBlock(t, st) == update_tape_head(t, block_index[t] + 1, "READ_ERROR", st)

(* manage_emulated_tape *)
manage_emulated_tape(t) ==
    IF Busy(t) /\ command[t].op \in {"SKIPBLK", "BACKBLK", "READBLK"}
    THEN \E st \in Statuses :
            /\ Complete(t, st)
            /\ CASE command[t].op = "SKIPBLK" -> SkipBlock(t, st)
                 [] command[t].op = "BACKBLK" -> BackBlock(t, st)
                 [] command[t].op = "READBLK" -> ReadBlock(t, st)
    ELSE UNCHANGED <<registers, regs, lines, tape_vars>>

TapeTypeOK == /\ block_index \in [Tapes -> Nat]
              /\ data1 \in [Tapes -> Marks \cup {"TS"}]
              /\ misread \in [Tapes -> BOOLEAN]

\* The marker shown to the clients is the one on the tape before the head, and
\* the head is on the tape, unless the card failed when that marker was to be read:
\* no READBLK or SKIPBLK runs off the end of a tape that can be read, whatever
\* RESETs and refused commands came in between, and what a failure has left behind
\* is over with the next marker that is read.
HeadShowsMarker ==
    \A t \in Tapes \cap Installed :
        misread[t] \/ /\ block_index[t] <= Len(Markers[t])
                      /\ data1[t] = IF block_index[t] = 0 THEN "TS"
                                    ELSE Markers[t][block_index[t]]

\* The same on a card that may fail ("Update the tape DATA1 register with the marker
\* found at the end of the current block", emulated_tapes.c).
MarkerShown == \A t \in Tapes \cap Installed : ~misread[t] \/
    data1[t] = IF block_index[t] = 0 THEN "TS" ELSE Markers[t][block_index[t]]
=============================================================================
