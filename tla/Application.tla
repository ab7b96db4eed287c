----------------------------- MODULE Application -----------------------------
(***************************************************************************)
(* example/source/app_main.c on top of c_irq_handler, setTIMER and         *)
(* c_fiq_handler: two processes, of which test1 reads a tape and moves a   *)
(* disk and then prints, as test2 does, through the same printer; and the  *)
(* kernel, which switches them, and wakes test1 through semaforo.  Register*)
(* blocks are locals of the functions that post them.                      *)
(***************************************************************************)
EXTENDS IrqHandler

CONSTANTS
    t1, t2,                  \* the processes
    printer0, tape0, disk0,  \* the devices that they use
    print0_reg,              \* the block of each process's term_putchar
    tape_reg, disk_reg,      \* the blocks of testTape and testDisk
    ack_reg                  \* tape_reg and disk_reg of the kernel's interrupt()

ASSUME ApplicationAssumption ==
    /\ t1 # t2
    /\ Printers = {printer0} /\ Tapes = {tape0} /\ Disks = {disk0} /\ Cores = {Core0}
    /\ DOMAIN print0_reg = {t1, t2} /\ print0_reg[t1] # print0_reg[t2]
    /\ Buffers = {print0_reg[t1], print0_reg[t2], tape_reg, disk_reg, ack_reg}
    /\ Cardinality(Buffers) = 5

VARIABLES
    at,        \* the statement that each process is at
    kernel,    \* the statement of main or interrupt() that the kernel is at
    current,
    semaforo

app_vars == <<at, kernel, current, semaforo>>

AppInit == /\ IrqInit
           /\ at = [p \in {t1, t2} |-> IF p = t1 THEN "tape_regs" ELSE "putchar"]
           /\ kernel = "main"
           /\ current = t2
           /\ semaforo = 0

-----------------------------------------------------------------------------
(* The processes *)

Process(p, from, to) ==
    /\ At(Core0, "idle") /\ mode[Core0] = "user" /\ current = p
    /\ at[p] = from
    /\ at' = [at EXCEPT ![p] = to]
    /\ UNCHANGED <<kernel, current>>

\* A process posts a block; those that wait for semaforo clear semaforo before.
\* Post clears the block's mailbox, where the code does not too (nobody reads it then).
Posts(p, from, to, block, device, cmd, ch) ==
    /\ Process(p, from, to)
    /\ Post(block, device, cmd, ch)
    /\ UNCHANGED irq_vars

Answers(block) == regs[block].mailbox # 0

Bug_PrintDone_unwaited(p) ==
    /\ Answers(print0_reg[p])
    /\ Process(p, "busy", "ack")
    /\ UNCHANGED <<all_vars, semaforo>>

\* Both waits for the end of PRINT_CHAR: for an answer, then for its status.
PrintDone(p) ==
    /\ Answers(print0_reg[p]) /\ regs[print0_reg[p]].status # "BUSY"
    /\ Process(p, "busy", "ack")
    /\ UNCHANGED <<all_vars, semaforo>>

term_putchar(p) ==
    LET reg == print0_reg[p] IN
    \/ /\ Posts(p, "putchar", "regs", reg, printer0, Plain("READ_REGISTERS"), "CR")
       /\ UNCHANGED semaforo
    \/ /\ Answers(reg)
       /\ Process(p, "regs", IF regs[reg].status # "READY" THEN "putchar" ELSE "print")
       /\ UNCHANGED <<all_vars, semaforo>>
    \/ /\ \E ch \in PrintChars : Posts(p, "print", "busy", reg, printer0, Plain("PRINT_CHAR"), ch)
       /\ UNCHANGED semaforo
    \/ PrintDone(p)
    \/ /\ Posts(p, "ack", "acked", reg, printer0, Plain("ACK"), "CR")
       /\ UNCHANGED semaforo
    \/ /\ Answers(reg)
       /\ Process(p, "acked", "putchar")
       /\ UNCHANGED <<all_vars, semaforo>>

testTape ==
    \/ /\ Posts(t1, "tape_regs", "tape_status", tape_reg, tape0, Plain("READ_REGISTERS"), "CR")
       /\ semaforo' = 0
    \/ /\ Answers(tape_reg)
       /\ Process(t1, "tape_status",
                  IF regs[tape_reg].status = "NOT_INSTALLED" THEN "disk_regs" ELSE "tape_read")
       /\ UNCHANGED <<all_vars, semaforo>>
    \/ /\ Posts(t1, "tape_read", "tape_wait", tape_reg, tape0, Plain("READBLK"), "CR")
       /\ UNCHANGED semaforo
    \/ /\ semaforo = 1
       /\ Process(t1, "tape_wait", IF data1[tape0] # "EOT" THEN "tape_regs" ELSE "disk_regs")
       /\ UNCHANGED <<all_vars, semaforo>>

\* What testDisk asks the disk to do, one after the other.
DiskWork == [disk_seek |-> Command("SEEKCYL", 1, 0), disk_read |-> Command("READBLK", 0, 1),
             disk_write |-> Command("WRITEBLK", 0, 1)]
DiskWait == [disk_seek |-> "disk_seek_wait", disk_read |-> "disk_read_wait",
             disk_write |-> "disk_write_wait"]
AfterDisk == [disk_seek_wait |-> "disk_read", disk_read_wait |-> "disk_write",
              disk_write_wait |-> "putchar"]

Bug_DiskWaits ==
    \E w \in DOMAIN AfterDisk :
        /\ Process(t1, w, AfterDisk[w])
        /\ UNCHANGED <<all_vars, semaforo>>

DiskWaits ==
    \E w \in DOMAIN AfterDisk :
        /\ semaforo = 1
        /\ Process(t1, w, AfterDisk[w])
        /\ UNCHANGED <<all_vars, semaforo>>

testDisk ==
    \/ /\ Posts(t1, "disk_regs", "disk_status", disk_reg, disk0, Plain("READ_REGISTERS"), "CR")
       /\ semaforo' = 0
    \/ /\ Answers(disk_reg)
       /\ Process(t1, "disk_status",
                  IF regs[disk_reg].status = "NOT_INSTALLED" THEN "putchar" ELSE "disk_seek")
       /\ UNCHANGED <<all_vars, semaforo>>
    \/ \E w \in DOMAIN DiskWork :
          /\ Posts(t1, w, DiskWait[w], disk_reg, disk0, DiskWork[w], "CR")
          /\ semaforo' = 0
    \/ DiskWaits

-----------------------------------------------------------------------------
(* The kernel *)

Kernel(from, to) ==
    /\ At(Core0, "idle") /\ mode[Core0] = "kernel"
    /\ kernel = from
    /\ kernel' = to
    /\ UNCHANGED at

\* main sets the timer and loads the first process.
Main == /\ Kernel("main", "load")
        /\ SetTimer(Core0)
        /\ UNCHANGED <<current, semaforo>>

\* A pending timer: setTIMER, then the other process is next.
KernelTimer ==
    \/ /\ Kernel("interrupt", "switch")
       /\ lines \cap Cores # {}
       /\ SetTimer(Core0)
       /\ UNCHANGED <<current, semaforo>>
    \/ /\ Kernel("switch", "devices")
       /\ current' = IF current = t1 THEN t2 ELSE t1
       /\ UNCHANGED <<all_vars, semaforo>>
    \/ /\ Kernel("interrupt", "devices")
       /\ lines \cap Cores = {}
       /\ UNCHANGED <<all_vars, current, semaforo>>

Bug_KernelWakes_unacknowledged(d) ==
    /\ Kernel("devices", "load")
    /\ semaforo' = 1
    /\ UNCHANGED <<all_vars, current>>

\* The interrupt of a device wakes the process and is acknowledged.
KernelWakes(d) ==
    /\ Kernel("devices", "ack")
    /\ semaforo' = 1
    /\ Post(ack_reg, d, Plain("ACK"), "CR")
    /\ UNCHANGED <<irq_vars, current>>

KernelDevices ==
    \/ disk0 \in lines /\ KernelWakes(disk0)
    \/ disk0 \notin lines /\ tape0 \in lines /\ KernelWakes(tape0)
    \/ /\ {disk0, tape0} \cap lines = {}
       /\ Kernel("devices", "load")
       /\ UNCHANGED <<all_vars, current, semaforo>>
    \/ /\ Answers(ack_reg)
       /\ Kernel("ack", "load")
       /\ UNCHANGED <<all_vars, current, semaforo>>

Load == /\ Kernel("load", "interrupt")
        /\ KernelReturn(Core0)
        /\ UNCHANGED <<current, semaforo>>

AppNext ==
    \/ \E p \in {t1, t2} : term_putchar(p)
    \/ testTape \/ testDisk
    \/ Main \/ KernelTimer \/ KernelDevices \/ Load
    \/ /\ IrqCore(Core0) \/ SetTimerCore(Core0) \/ (Fiq /\ UNCHANGED irq_vars) \/ IrqTick
       /\ UNCHANGED app_vars

AppSpec == AppInit /\ [][AppNext]_<<all_vars, app_vars>>

-----------------------------------------------------------------------------
\* A device completes into a block only while the function whose local that block
\* is has not returned, although the processes share the printer, where one's
\* PRINT_CHAR may be refused, and the kernel posts blocks of its own.
BlocksAlive ==
    \A d \in Devices :
        /\ \A p \in {t1, t2} : mailbox_registers[d] = print0_reg[p] => at[p] = "busy"
        /\ mailbox_registers[d] = tape_reg => at[t1] = "tape_wait"
        /\ mailbox_registers[d] = disk_reg =>
              at[t1] \in {"disk_seek_wait", "disk_read_wait", "disk_write_wait"}
        /\ mailbox_registers[d] # ack_reg

\* semaforo lets test1 go on only when the device has done what it waits for: no
\* interrupt of an earlier command, or of the other device, wakes it.
SemaphoreMeansDone ==
    semaforo = 1 =>
        /\ at[t1] = "tape_wait" =>
              ~Busy(tape0) /\ (mailbox # NoMail => mailbox.buf # tape_reg)
        /\ at[t1] \in {"disk_seek_wait", "disk_read_wait", "disk_write_wait"} => ~Busy(disk0)

\* The kernel, which waits for the answer to its ACK with interrupts masked, gets
\* one: the device is never busy then.
AckAnswered ==
    kernel = "ack" /\ Runs(Core0) => Answers(ack_reg)

\* test1, waiting for the tape, will be woken: the tape is at work, or its interrupt
\* is pending or with the kernel.
TapeWaiterWoken ==
    at[t1] = "tape_wait" /\ semaforo = 0 /\ Runs(Core0) => Busy(tape0) \/ tape0 \in lines

\* A character whose putchar reports success was printed or is being printed.
PutcharNotDropped ==
    [][\A p \in {t1, t2} : at[p] = "busy" /\ at'[p] = "ack" =>
           regs[print0_reg[p]].mailbox # 2]_<<all_vars, app_vars>>
=============================================================================
