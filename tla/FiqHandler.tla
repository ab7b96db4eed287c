----------------------------- MODULE FiqHandler -----------------------------
(***************************************************************************)
(* c_fiq_handler of source/interrupts.c and its clients.  A client on core *)
(* 0 posts the address of a register block, tagged with the device, in the *)
(* core's mailbox 0; the mailbox and the virtual timer interrupt core 0 by *)
(* FIQ, and c_fiq_handler runs the emulated devices.  A FIQ is routed to   *)
(* EL2, where it is masked: the handler does not nest.  It is split where  *)
(* it reads the clock, so that time passes while it runs.                  *)
(***************************************************************************)
EXTENDS EmulatedPrinters, EmulatedTapes, EmulatedDisks

CONSTANTS
    ClientOps,     \* the operations that clients ask for
    PrintChars,    \* the characters they print
    DiskCommands,  \* the operands they send to disks
    NoMail,        \* an empty mailbox
    MaxBlock,      \* bound: clients do not move a tape beyond this block
    MaxRun,        \* bound: microseconds from the reading of currentTime to the rearming
    PostUntil,     \* bound: clients post nothing from this time on
    Horizon        \* bound on the clock

ASSUME ClientsTyped ==
    /\ ClientOps \subseteq Operations
    /\ PrintChars \subseteq Chars /\ PrintChars # {}
    /\ DiskCommands \subseteq [op : Operations, x : Nat, y : Nat]
ASSUME NoMailNotMessage ==
    NoMail \notin [buf : Buffers, dev : Devices,
                   cmd : [op : Operations, x : Nat, y : Nat], char : Chars]
ASSUME BoundsNat == MaxBlock \in Nat /\ MaxRun \in Nat /\ PostUntil \in Nat /\ Horizon \in Nat

VARIABLES
    mailbox,       \* Core0_MailBox0: what the last client posted
    fiq,           \* where c_fiq_handler is; "idle" when it is not running
    source,        \* its local tmp: the FIQ sources it read
    currentTime    \* its local currentTime

fiq_vars == <<mailbox, fiq, source, currentTime>>
device_vars == <<registers, regs, lines, timers, printer_vars, tape_vars, disk_vars>>
vars == <<device_vars, physical_timer, now, fiq_vars>>

NoSource == [mailbox |-> FALSE, timer |-> FALSE]

Init == /\ IOInit /\ PrinterInit /\ TapeInit /\ DiskInit
        /\ mailbox = NoMail
        /\ fiq = "idle"
        /\ source = NoSource
        /\ currentTime = 0

-----------------------------------------------------------------------------
CommandsOf(d) ==
    {c \in IF d \in Printers THEN PrinterCommands
           ELSE IF d \in Tapes THEN TapeCommands ELSE DiskCommands : c.op \in ClientOps}

\* The character matters to PRINT_CHAR only.
CharsOf(c) == IF c.op = "PRINT_CHAR" THEN PrintChars ELSE {"CR"}

\* A client clears the mailbox field of its block, fills in the command and
\* posts the block.  The FIQ preempts it at once: the next client to run on
\* core 0 finds the mailbox empty and the handler done.
Post(b, d, c, ch) ==
    /\ fiq = "idle"
    /\ mailbox = NoMail
    /\ now < PostUntil
    /\ d \in Tapes => block_index[d] < MaxBlock \/ c.op \notin {"SKIPBLK", "READBLK"}
    /\ regs' = [regs EXCEPT ![b].mailbox = 0]
    /\ mailbox' = [buf |-> b, dev |-> d, cmd |-> c, char |-> ch]
    /\ UNCHANGED <<registers, lines, timers, printer_vars, tape_vars, disk_vars,
                   physical_timer, now, fiq, source, currentTime>>

\* Core0_FIQ_Source is read.
FiqEnter ==
    /\ fiq = "idle"
    /\ source' = [mailbox |-> mailbox # NoMail, timer |-> Fired(virtual_timer)]
    /\ source' # NoSource
    /\ fiq' = IF source'.mailbox THEN "mailbox" ELSE "timer"
    /\ UNCHANGED <<device_vars, physical_timer, now, mailbox, currentTime>>

\* The message is dispatched by device class, and the mailbox cleared.
FiqMailbox ==
    /\ fiq = "mailbox"
    /\ LET d == mailbox.dev
           b == mailbox.buf
           c == mailbox.cmd IN
       \/ /\ d \in Printers
          /\ emulated_printer_mailbox(d, b, c, mailbox.char)
          /\ UNCHANGED <<tape_vars, disk_vars>>
       \/ /\ d \in Tapes
          /\ emulated_tape_mailbox(d, b, c)
          /\ UNCHANGED <<printer_vars, disk_vars>>
       \/ /\ d \in Disks
          /\ emulated_disk_mailbox(d, b, c)
          /\ UNCHANGED <<printer_vars, tape_vars>>
    /\ mailbox' = NoMail
    /\ fiq' = IF source.timer THEN "timer" ELSE "clean"
    /\ UNCHANGED <<physical_timer, now, source, currentTime>>

FiqTimer ==
    /\ fiq = "timer"
    /\ currentTime' = now
    /\ fiq' = "loop"
    /\ UNCHANGED <<device_vars, physical_timer, now, mailbox, source>>

Expired(d) == Earliest(deadline, d) /\ deadline[d] < currentTime

\* next_pending_timer returns an expired timer, and its device is managed.
FiqPop(d) ==
    /\ fiq = "loop"
    /\ Expired(d)
    /\ deadline' = [deadline EXCEPT ![d] = Off]
    /\ \/ /\ d \in Printers
          /\ manage_emulated_printer(d)
          /\ UNCHANGED <<tape_vars, disk_vars>>
       \/ /\ d \in Tapes
          /\ manage_emulated_tape(d)
          /\ UNCHANGED <<printer_vars, disk_vars>>
       \/ /\ d \in Disks
          /\ manage_emulated_disk(d)
          /\ UNCHANGED <<printer_vars, tape_vars>>
    /\ UNCHANGED <<virtual_timer, physical_timer, now, fiq_vars>>

Bug_FiqRearm_off ==
    /\ fiq = "loop"
    /\ ~\E d \in Devices : Expired(d)
    /\ virtual_timer' = Off
    /\ physical_timer' = IF pending_emulated_interrupt
                         THEN [physical_timer EXCEPT ![Core0] = now] ELSE physical_timer
    /\ fiq' = "clean"
    /\ UNCHANGED <<registers, regs, lines, deadline, printer_vars, tape_vars, disk_vars,
                   now, mailbox, source, currentTime>>

Bug_FiqRearm_silent ==
    /\ fiq = "loop"
    /\ ~\E d \in Devices : Expired(d)
    /\ \/ /\ Armed(deadline) = {}
          /\ virtual_timer' = Off
       \/ \E d \in Devices :
             /\ Earliest(deadline, d)
             /\ virtual_timer' = now + (deadline[d] - currentTime)
    /\ fiq' = "clean"
    /\ UNCHANGED <<registers, regs, lines, deadline, printer_vars, tape_vars, disk_vars,
                   physical_timer, now, mailbox, source, currentTime>>

\* No expired timer is left: the virtual timer is set for the next one, if
\* there is one, and the physical timer fires at once if a line is pending.
FiqRearm ==
    /\ fiq = "loop"
    /\ ~\E d \in Devices : Expired(d)
    /\ \/ /\ Armed(deadline) = {}
          /\ virtual_timer' = Off
       \/ \E d \in Devices :
             /\ Earliest(deadline, d)
             /\ virtual_timer' = now + (deadline[d] - currentTime)
    /\ physical_timer' = IF pending_emulated_interrupt
                         THEN [physical_timer EXCEPT ![Core0] = now] ELSE physical_timer
    /\ fiq' = "clean"
    /\ UNCHANGED <<registers, regs, lines, deadline, printer_vars, tape_vars, disk_vars,
                   now, mailbox, source, currentTime>>

Bug_FiqClean_all ==
    /\ fiq = "clean"
    /\ lines' = {}
    /\ fiq' = "idle"
    /\ source' = NoSource
    /\ currentTime' = 0
    /\ UNCHANGED <<registers, regs, timers, printer_vars, tape_vars, disk_vars,
                   physical_timer, now, mailbox>>

\* clean_interrupt_lines, and the return from the exception.
FiqClean ==
    /\ fiq = "clean"
    /\ lines' = lines \cap DeviceInstalled
    /\ fiq' = "idle"
    /\ source' = NoSource
    /\ currentTime' = 0
    /\ UNCHANGED <<registers, regs, timers, printer_vars, tape_vars, disk_vars,
                   physical_timer, now, mailbox>>

Tick ==
    /\ now < IF mailbox = NoMail THEN Horizon ELSE PostUntil
    /\ fiq = "loop" => now < currentTime + MaxRun
    /\ now' = now + 1
    /\ UNCHANGED <<device_vars, physical_timer, fiq_vars>>

Fiq == FiqEnter \/ FiqMailbox \/ FiqTimer \/ (\E d \in Devices : FiqPop(d))
       \/ FiqRearm \/ FiqClean

Client == \E b \in Buffers, d \in Devices :
              \E c \in CommandsOf(d) : \E ch \in CharsOf(c) : Post(b, d, c, ch)

Next == Client \/ Fiq \/ Tick

Spec == Init /\ [][Next]_vars

\* The handler runs to its end once it is entered, an interrupt that stays
\* pending is taken, and time passes.
FairSpec == Spec /\ WF_vars(Fiq) /\ WF_vars(Tick)

-----------------------------------------------------------------------------
TypeOK ==
    /\ IOTypeOK /\ PrinterTypeOK /\ TapeTypeOK /\ DiskTypeOK
    /\ mailbox \in [buf : Buffers, dev : Devices,
                    cmd : [op : Operations, x : Nat, y : Nat], char : Chars] \cup {NoMail}
    /\ fiq \in {"idle", "mailbox", "timer", "loop", "clean"}
    /\ fiq = "mailbox" => mailbox # NoMail
    /\ source \in [mailbox : BOOLEAN, timer : BOOLEAN]
    /\ currentTime \in Nat

\* A busy device has a timer, so that it will stop being busy, and a block to
\* complete into: RESETs, refused and illegal commands of other clients never
\* leave a device BUSY with nothing to end it, nor complete into NULL.
BusyArmed ==
    \A d \in Devices : Busy(d) => deadline[d] # Off /\ mailbox_registers[d] # NULL

\* As long as some device timer is pending the virtual timer is on, and late
\* for no deadline by more than the time the handler itself takes: neither
\* set_device_timer nor c_fiq_handler, which both replace the one value of the
\* virtual timer, forgets an earlier deadline of another device.
TimersServed ==
    \A d \in Armed(deadline) :
        /\ virtual_timer # Off
        /\ virtual_timer <= now \/ virtual_timer <= deadline[d] + MaxRun

\* Only the devices found at boot raise interrupts, so that cleaning the lines
\* with DEVICE_INSTALLED never drops one.
LinesInstalled == lines \subseteq DeviceInstalled

\* A command that ends because its time is over tells so twice: the device's
\* interrupt line is up, and the block that started it has the final status.
CompletionTold ==
    [][\A d \in Devices :
          Busy(d) /\ ~Busy(d)' /\ fiq = "loop" =>
              /\ d \in lines'
              /\ regs'[mailbox_registers[d]].status = status'[d]]_vars

\* An interrupt line goes down only when a client acknowledges or resets the
\* device: nothing the timer half of the handler does may lose it.
LinesKept ==
    [][\A d \in lines \ lines' :
          /\ fiq = "mailbox" /\ mailbox.dev = d
          /\ mailbox.cmd.op \in {"ACK", "RESET"}]_vars

\* Every message is answered: the client that spins on the mailbox field of
\* its block (example/source/app_main.c) sees it change.
Answered == [][fiq = "mailbox" /\ fiq' # "mailbox" =>
                   regs'[mailbox.buf].mailbox # 0]_vars

\* A busy device eventually stops being busy.
BusyEnds == \A d \in Devices : Busy(d) ~> ~Busy(d)
=============================================================================
