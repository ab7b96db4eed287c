-------------------------- MODULE EmulatedPrinters --------------------------
(***************************************************************************)
(* source/emulated/emulated_printers.c: the commands of a printer, taken   *)
(* from the mailbox, and their completion when the printer's timer expires. *)
(***************************************************************************)
EXTENDS EmulatedIO, PrinterWindow

VARIABLES
    data0,    \* the character each printer is to print
    cursor    \* terminal_coordinates

printer_vars == <<data0, cursor>>

PrinterInit == /\ data0 = [p \in Printers |-> "CR"]
               /\ cursor = [p \in Printers |-> [x |-> 0, y |-> 0]]

PrinterCommands == {Plain("RESET"), Plain("ACK"), Plain("READ_REGISTERS"),
                    Plain("PRINT_CHAR"), Plain("OTHER")}

-----------------------------------------------------------------------------
(* emulated_printer_mailbox *)

\* RESET removes the interrupt, and whatever the printer was doing.
PrinterReset(p, b) ==
    /\ Answer(p, b, Plain("RESET"), "READY")
    /\ lines' = lines \ {p}
    /\ UNCHANGED data0

Bug_PrinterRefuse_silent(p, b) ==
    Busy(p) /\ UNCHANGED <<registers, regs, lines, timers, data0>>

\* A busy printer refuses ACK and PRINT_CHAR by mailbox = 2, and leaves the
\* rest of the block as it was.
PrinterRefuse(p, b) ==
    /\ Busy(p)
    /\ regs' = [regs EXCEPT ![b].mailbox = 2]
    /\ UNCHANGED <<registers, lines, timers, data0>>

PrinterAck(p, b) ==
    /\ ~Busy(p)
    /\ Answer(p, b, Plain("ACK"), "READY")
    /\ lines' = lines \ {p}
    /\ UNCHANGED data0

PrinterPrint(p, b, ch) ==
    /\ ~Busy(p)
    /\ data0' = [data0 EXCEPT ![p] = ch]
    /\ Accept(p, b, Plain("PRINT_CHAR"), PrinterDelay)

emulated_printer_mailbox(p, b, c, ch) ==
    /\ \/ c.op = "RESET" /\ PrinterReset(p, b)
       \/ c.op = "ACK" /\ PrinterAck(p, b)
       \/ c.op = "PRINT_CHAR" /\ PrinterPrint(p, b, ch)
       \/ c.op \in {"ACK", "PRINT_CHAR"} /\ PrinterRefuse(p, b)
       \/ c.op = "READ_REGISTERS" /\ Report(p, b) /\ UNCHANGED data0
       \/ c.op = "OTHER" /\ IllegalOperation(p, b) /\ UNCHANGED data0
    /\ UNCHANGED cursor

(* manage_emulated_printer *)
manage_emulated_printer(p) ==
    /\ IF Busy(p) /\ command[p].op = "PRINT_CHAR"
       THEN /\ cursor' = [cursor EXCEPT ![p] = printer_send(@, data0[p])]
            /\ Complete(p, "READY")
       ELSE UNCHANGED <<registers, regs, lines, cursor>>
    /\ UNCHANGED data0

\* Types of the printers' state.  printer_send keeps the cursor in its window.
PrinterTypeOK == /\ data0 \in [Printers -> Chars]
                 /\ cursor \in [Printers -> Cursors]

\* printer_send never leaves the cursor outside the printer's window, where
\* the next character would be drawn over another window.
CursorInWindow == \A p \in Printers : cursor[p].x < Columns /\ cursor[p].y < Rows
=============================================================================
