-------------------------- MODULE ApplicationProofs --------------------------
(***************************************************************************)
(* Proofs about the example application: whatever the timings, delays and  *)
(* bounds, the devices complete into live blocks, semaforo means that the  *)
(* device is done, and the kernel's ACKs are answered.                     *)
(***************************************************************************)
EXTENDS Application, InterruptsProofs, FiniteSetTheorems

-----------------------------------------------------------------------------
(* The application's devices and blocks                                    *)

\* Four blocks are at most four.
LEMMA FourBlocks ==
    ASSUME NEW a, NEW b, NEW c, NEW d PROVE Cardinality({a, b, c, d}) <= 4
<1>1. IsFiniteSet({}) /\ Cardinality({}) = 0
    BY FS_EmptySet
<1>2. IsFiniteSet({} \cup {a}) /\ Cardinality({} \cup {a}) \in 0..1
    BY <1>1, FS_AddElement
<1>3. IsFiniteSet({a} \cup {b}) /\ Cardinality({a} \cup {b}) \in 0..2
    BY <1>2, FS_AddElement
<1>4. IsFiniteSet({a, b} \cup {c}) /\ Cardinality({a, b} \cup {c}) \in 0..3
    BY <1>3, FS_AddElement
<1>5. Cardinality({a, b, c} \cup {d}) \in 0..4
    BY <1>4, FS_AddElement
<1>6. {a, b, c} \cup {d} = {a, b, c, d}
    OBVIOUS
<1> QED
    BY <1>5, <1>6

\* The five blocks are different from each other, and are blocks.
LEMMA OwnBlocks ==
    /\ print0_reg[t1] \in Buffers /\ print0_reg[t2] \in Buffers
    /\ tape_reg \in Buffers /\ disk_reg \in Buffers /\ ack_reg \in Buffers
    /\ print0_reg[t1] # print0_reg[t2]
    /\ tape_reg \notin {print0_reg[t1], print0_reg[t2]}
    /\ disk_reg \notin {print0_reg[t1], print0_reg[t2], tape_reg}
    /\ ack_reg \notin {print0_reg[t1], print0_reg[t2], tape_reg, disk_reg}
    /\ NULL \notin Buffers
<1> DEFINE r1 == print0_reg[t1]
           r2 == print0_reg[t2]
<1>1. Buffers = {r1, r2, tape_reg, disk_reg, ack_reg} /\ Cardinality(Buffers) = 5 /\ r1 # r2
    BY ApplicationAssumption
<1> HIDE DEF r1, r2
<1>2. \A a, b, c, d : Buffers # {a, b, c, d}
  <2> SUFFICES ASSUME NEW a, NEW b, NEW c, NEW d, Buffers = {a, b, c, d} PROVE FALSE
    OBVIOUS
  <2>1. Cardinality({a, b, c, d}) <= 4
    BY FourBlocks
  <2>2. Cardinality(Buffers) <= 4
    BY <2>1, Zenon
  <2> QED
    BY <1>1, <2>2
<1>3. tape_reg \in {r1, r2} => Buffers = {r1, r2, disk_reg, ack_reg}
    BY <1>1
<1>4. disk_reg \in {r1, r2, tape_reg} => Buffers = {r1, r2, tape_reg, ack_reg}
    BY <1>1
<1>5. ack_reg \in {r1, r2, tape_reg, disk_reg} => Buffers = {r1, r2, tape_reg, disk_reg}
    BY <1>1
<1> QED
    BY <1>1, <1>2, <1>3, <1>4, <1>5, NULLNotBuffer DEF r1, r2

\* The three devices are of different classes.
LEMMA OwnDevices ==
    /\ Devices = {printer0, tape0, disk0}
    /\ printer0 \in Printers /\ printer0 \notin Tapes /\ printer0 \notin Disks
    /\ tape0 \in Tapes /\ tape0 \notin Printers /\ tape0 \notin Disks
    /\ disk0 \in Disks /\ disk0 \notin Printers /\ disk0 \notin Tapes
    /\ printer0 # tape0 /\ printer0 # disk0 /\ tape0 # disk0
    /\ Cores = {Core0} /\ Core0 \notin Devices
    /\ t1 # t2
BY ApplicationAssumption, ClassesDisjoint, CoresDisjoint DEF Devices

-----------------------------------------------------------------------------
(* The inductive invariant                                                 *)

\* The statements at which a process waits for a device.
DiskWaiting == {"disk_seek_wait", "disk_read_wait", "disk_write_wait"}
Printing == {"putchar", "regs", "print", "busy", "ack", "acked"}
Taping == {"tape_regs", "tape_status", "tape_read", "tape_wait"}
Disking == {"disk_regs", "disk_status", "disk_seek", "disk_read", "disk_write"} \cup DiskWaiting

\* Types.  A process runs only while the kernel has nothing to do, and
\* c_irq_handler interrupts processes only.
AppTypes ==
    /\ at \in [{t1, t2} -> Printing \cup Taping \cup Disking]
    /\ at[t2] \in Printing
    /\ kernel \in {"main", "interrupt", "switch", "devices", "ack", "load"}
    /\ mode[Core0] = "user" => kernel = "interrupt"
    /\ irq[Core0] \notin {"idle", "lower", "look", "arm"} => mode[Core0] = "user"
    /\ semaforo \in {0, 1}

\* What may be in the mailbox, and where its sender is.
KernelMail ==
    /\ kernel = "ack" /\ semaforo = 1
    /\ mailbox.buf = ack_reg /\ mailbox.cmd.op = "ACK"
    /\ mailbox.dev \in {tape0, disk0} /\ ~Busy(mailbox.dev)

PrinterMail(p) ==
    /\ mode[Core0] = "user"
    /\ mailbox.buf = print0_reg[p] /\ mailbox.dev = printer0
    /\ <<at[p], mailbox.cmd.op>> \in
           {<<"regs", "READ_REGISTERS">>, <<"busy", "PRINT_CHAR">>, <<"acked", "ACK">>}

TapeMail ==
    /\ mode[Core0] = "user" /\ semaforo = 0
    /\ mailbox.buf = tape_reg /\ mailbox.dev = tape0
    /\ tape0 \notin lines /\ ~Busy(tape0)
    /\ <<at[t1], mailbox.cmd.op>> \in
           {<<"tape_status", "READ_REGISTERS">>, <<"tape_wait", "READBLK">>}

DiskMail ==
    /\ mode[Core0] = "user" /\ semaforo = 0
    /\ mailbox.buf = disk_reg /\ mailbox.dev = disk0
    /\ disk0 \notin lines /\ ~Busy(disk0)
    /\ <<at[t1], mailbox.cmd.op>> \in
           {<<"disk_status", "READ_REGISTERS">>, <<"disk_seek_wait", "SEEKCYL">>,
            <<"disk_read_wait", "READBLK">>, <<"disk_write_wait", "WRITEBLK">>}

Mail == mailbox # NoMail =>
    /\ irq[Core0] = "idle"
    /\ KernelMail \/ (\E p \in {t1, t2} : PrinterMail(p)) \/ TapeMail \/ DiskMail

\* Each device completes into blocks of its own, which say BUSY until then.
Blocks ==
    /\ mailbox_registers[printer0] \in {NULL, print0_reg[t1], print0_reg[t2]}
    /\ mailbox_registers[tape0] \in {NULL, tape_reg}
    /\ mailbox_registers[disk0] \in {NULL, disk_reg}
    /\ \A d \in Devices : mailbox_registers[d] # NULL =>
           Busy(d) /\ regs[mailbox_registers[d]].status = "BUSY"

\* A line is up only between the end of a command and the kernel's ACK.
LinesUp ==
    /\ tape0 \in lines => at[t1] = "tape_wait" /\ ~Busy(tape0)
    /\ disk0 \in lines => at[t1] \in DiskWaiting /\ ~Busy(disk0)
    /\ \A d \in {tape0, disk0} \cap lines :
           semaforo = 1 => mailbox # NoMail /\ mailbox.buf = ack_reg /\ mailbox.dev = d

\* testTape clears semaforo before it asks for the status, not before it reads.
Cleared == at[t1] \in {"tape_status", "tape_read"} => semaforo = 0

\* No line that core 0 has loaded goes down before it stores the byte.
LoadedCurrent == irq[Core0] \in {"raise", "store", "lower"} => loaded[Core0] \subseteq lines

\* The kernel has its answer as soon as the message is gone.
Acknowledged == kernel = "ack" /\ mailbox = NoMail => Answers(ack_reg)

AppInv == /\ AppTypes /\ Mail /\ Blocks /\ BlocksAlive /\ LinesUp /\ Cleared
          /\ SemaphoreMeansDone /\ LoadedCurrent /\ Acknowledged

-----------------------------------------------------------------------------
(* The application above the handlers                                      *)

application_vars == <<all_vars, app_vars>>

\* The commands of the application are commands.
LEMMA CommandsSent ==
    /\ \A op \in {"READ_REGISTERS", "PRINT_CHAR", "ACK", "READBLK"} : Plain(op) \in CommandSet
    /\ \A w \in DOMAIN DiskWork : DiskWork[w] \in CommandSet
    /\ PrintChars \subseteq Chars /\ "CR" \in Chars
<1>1. \A op \in {"READ_REGISTERS", "PRINT_CHAR", "ACK", "READBLK"} : Plain(op) \in CommandSet
    BY PlainCommand DEF Operations
<1>2. \A w \in DOMAIN DiskWork : DiskWork[w] \in CommandSet
    BY DEF DiskWork, Command, CommandSet, Operations
<1> QED
    BY <1>1, <1>2, ClientsTyped DEF Chars

\* To the handlers a step of the application is a step of a core, a post, or one of theirs.
LEMMA StepsOfHandlers ==
    ASSUME [AppNext]_application_vars
    PROVE  \/ CoreStep(Core0)
           \/ (Posting \/ Fiq \/ IrqTick \/ UNCHANGED vars) /\ UNCHANGED irq_vars
<1> USE OwnBlocks, OwnDevices, CommandsSent
<1>1. ASSUME NEW p \in {t1, t2}, term_putchar(p)
      PROVE  (Posting \/ UNCHANGED vars) /\ UNCHANGED irq_vars
    BY <1>1 DEF term_putchar, PrintDone, Posts, Posting, all_vars
<1>2. testTape => (Posting \/ UNCHANGED vars) /\ UNCHANGED irq_vars
    BY DEF testTape, Posts, Posting, all_vars
<1>3. testDisk => (Posting \/ UNCHANGED vars) /\ UNCHANGED irq_vars
    BY DEF testDisk, DiskWaits, Posts, Posting, all_vars
<1>4. KernelDevices => (Posting \/ UNCHANGED vars) /\ UNCHANGED irq_vars
    BY DEF KernelDevices, KernelWakes, Posting, all_vars
<1>5. Main \/ KernelTimer \/ Load =>
          \/ CoreStep(Core0)
          \/ UNCHANGED vars /\ UNCHANGED irq_vars
    BY DEF Main, KernelTimer, Load, CoreStep, all_vars
<1>6. IrqTick => UNCHANGED irq_vars
    BY DEF IrqTick
<1>7. UNCHANGED application_vars => UNCHANGED vars /\ UNCHANGED irq_vars
    BY DEF application_vars, all_vars
<1> QED
    BY <1>1, <1>2, <1>3, <1>4, <1>5, <1>6, <1>7 DEF AppNext, CoreStep

\* So what the handlers keep is kept beneath the application.
LEMMA HandlersKept ==
    ASSUME IrqInv, [AppNext]_application_vars PROVE IrqInv'
<1>1. IInv /\ Core0 \in Cores
    BY OwnDevices DEF IrqInv
<1>2. CASE CoreStep(Core0)
    BY <1>1, <1>2, CoreStepInvariant
<1>3. CASE Posting /\ UNCHANGED irq_vars
  <2>1. IInv'
    BY <1>1, <1>3, PostStep DEF Posting
  <2>2. UNCHANGED physical_timer
    BY <1>3 DEF Posting, Post
  <2> QED
    BY <1>3, <2>1, <2>2, TimeKept, AboveIrq
<1>4. CASE (Fiq \/ IrqTick \/ UNCHANGED vars) /\ UNCHANGED irq_vars
  <2>1. Fiq \/ Tick \/ UNCHANGED vars
    BY <1>4 DEF IrqTick
  <2> QED
    BY <1>1, <1>4, <2>1, FiqKept, PhysicalKept, TimeKept, AboveIrq
<1> QED
    BY <1>2, <1>3, <1>4, StepsOfHandlers

-----------------------------------------------------------------------------
(* The processes                                                           *)

\* A process goes on from a statement at which nothing is under way for it.
LEMMA ProcessGoesOn ==
    ASSUME AppInv, IrqInv, NEW p \in {t1, t2}, NEW from,
           NEW to \in Printing \cup Taping \cup Disking,
           Process(p, from, to), UNCHANGED <<all_vars, semaforo>>,
           to \notin {"busy", "tape_wait"} \cup DiskWaiting,
           p = t2 => to \in Printing,
           to \in {"tape_status", "tape_read"} => semaforo = 0,
           from = "busy" => regs[print0_reg[p]].status # "BUSY",
           from \in {"tape_wait"} \cup DiskWaiting => semaforo = 1
    PROVE  AppInv'
<1> USE OwnBlocks, OwnDevices
<1>1. /\ mailbox = NoMail /\ irq[Core0] = "idle" /\ mode[Core0] = "user"
      /\ at[p] = from /\ at' = [at EXCEPT ![p] = to] /\ kernel' = kernel
      /\ UNCHANGED <<mailbox, irq, mode, loaded, lines, regs, status, mailbox_registers>>
      /\ semaforo' = semaforo
      /\ at \in [{t1, t2} -> Printing \cup Taping \cup Disking]
    BY DEF Process, At, Runs, all_vars, vars, device_vars, fiq_vars, registers, irq_vars,
           AppInv, AppTypes
<1>2. at'[p] = to /\ \A q \in {t1, t2} : q # p => at'[q] = at[q]
    BY <1>1
<1>3. \A d \in Devices : mailbox_registers[d] # NULL =>
          status[d] = "BUSY" /\ regs[mailbox_registers[d]].status = "BUSY"
    BY DEF AppInv, Blocks, Busy
<1>4. \A q \in {t1, t2} : at'[q] # at[q] => q = p /\ at'[q] = to
    BY <1>2
<1>5. AppTypes' /\ Mail' /\ Acknowledged' /\ LoadedCurrent' /\ Blocks'
    BY <1>1, <1>2 DEF AppInv, AppTypes, Mail, Acknowledged, LoadedCurrent, Answers, Blocks, Busy
<1>6. BlocksAlive'
  <2>1. \A d \in Devices : from = "busy" => mailbox_registers[d] # print0_reg[p]
    BY <1>3 DEF AppInv, Blocks
  <2>2. \A d \in Devices : from = "tape_wait" => mailbox_registers[d] # tape_reg
    BY <1>1, <1>3 DEF AppInv, AppTypes, Printing, SemaphoreMeansDone, Blocks, Busy
  <2>3. \A d \in Devices : from \in DiskWaiting => mailbox_registers[d] # disk_reg
    BY <1>1, <1>3 DEF AppInv, AppTypes, Printing, SemaphoreMeansDone, Blocks, Busy, DiskWaiting
  <2> QED
    BY <1>1, <1>2, <2>1, <2>2, <2>3 DEF AppInv, BlocksAlive, DiskWaiting
<1>7. LinesUp'
    BY <1>1, <1>2 DEF AppInv, LinesUp, Busy, DiskWaiting
<1>8. Cleared' /\ SemaphoreMeansDone'
    BY <1>1, <1>2 DEF AppInv, Cleared, SemaphoreMeansDone, Busy, DiskWaiting
<1> QED
    BY <1>5, <1>6, <1>7, <1>8 DEF AppInv

\* A process posts a block that no device has.
LEMMA ProcessPosts ==
    ASSUME AppInv, IrqInv, NEW p \in {t1, t2}, NEW from,
           NEW to \in Printing \cup Taping \cup Disking,
           NEW block \in Buffers, NEW device, NEW cmd, NEW ch,
           Posts(p, from, to, block, device, cmd, ch), semaforo' \in {0, semaforo},
           from \notin {"busy", "tape_wait"} \cup DiskWaiting,
           p = t2 => to \in Printing,
           to \notin Printing => semaforo' = 0,
           (PrinterMail(p) \/ TapeMail \/ DiskMail)'
    PROVE  AppInv'
<1> USE OwnBlocks, OwnDevices
<1>1. /\ mailbox = NoMail /\ irq[Core0] = "idle" /\ mode[Core0] = "user"
      /\ at[p] = from /\ at' = [at EXCEPT ![p] = to] /\ kernel' = kernel
      /\ UNCHANGED <<irq, mode, loaded, lines, status, mailbox_registers>>
      /\ regs' = [regs EXCEPT ![block].mailbox = 0]
      /\ at \in [{t1, t2} -> Printing \cup Taping \cup Disking]
    BY DEF Posts, Post, Process, At, Runs, registers, irq_vars, AppInv, AppTypes
<1>2. at'[p] = to /\ \A q \in {t1, t2} : q # p => at'[q] = at[q]
    BY <1>1
<1>3. \A b \in Buffers : regs'[b].status = regs[b].status
    BY <1>1 DEF IrqInv, IInv, TypeOK, IOTypeOK
<1>4. AppTypes' /\ Mail'
    BY <1>1, <1>2 DEF AppInv, AppTypes, Mail
<1>5. Acknowledged' /\ LoadedCurrent'
    BY <1>1 DEF AppInv, AppTypes, Acknowledged, LoadedCurrent
<1>6. Blocks'
    BY <1>1, <1>3 DEF AppInv, Blocks, Busy
<1>7. BlocksAlive'
    BY <1>1, <1>2 DEF AppInv, BlocksAlive, DiskWaiting
<1>8. LinesUp'
    BY <1>1, <1>2 DEF AppInv, LinesUp, Busy, DiskWaiting
<1>9. Cleared'
    BY <1>1, <1>2 DEF AppInv, Cleared, Printing
<1>10. SemaphoreMeansDone'
  <2>1. semaforo' = 1 => PrinterMail(p)' /\ to \in Printing
    BY DEF TapeMail, DiskMail
  <2>2. semaforo' = 1 => semaforo = 1 /\ mailbox'.buf # tape_reg
    BY <2>1 DEF PrinterMail
  <2>3. semaforo' = 1 => \A s \in {"tape_wait"} \cup DiskWaiting : at'[t1] = s => at[t1] = s
    BY <1>2, <2>1 DEF Printing, DiskWaiting
  <2> QED
    BY <1>1, <2>2, <2>3 DEF AppInv, SemaphoreMeansDone, Busy, DiskWaiting
<1> QED
    BY <1>4, <1>5, <1>6, <1>7, <1>8, <1>9, <1>10 DEF AppInv

\* A device that no block of test1 waits for is not busy, and its line is down.
LEMMA DeviceFree ==
    ASSUME AppInv, IrqInv
    PROVE  /\ at[t1] # "tape_wait" => ~Busy(tape0) /\ tape0 \notin lines
           /\ at[t1] \notin DiskWaiting => ~Busy(disk0) /\ disk0 \notin lines
<1>1. \A d \in {tape0, disk0} : Busy(d) => mailbox_registers[d] # NULL
    BY OwnDevices DEF IrqInv, IInv, BusyTimed
<1>2. at[t1] # "tape_wait" => ~Busy(tape0)
    BY <1>1, OwnDevices DEF AppInv, Blocks, BlocksAlive
<1>3. at[t1] \notin DiskWaiting => ~Busy(disk0)
    BY <1>1, OwnDevices DEF AppInv, Blocks, BlocksAlive, DiskWaiting
<1> QED
    BY <1>2, <1>3 DEF AppInv, LinesUp

\* term_putchar keeps the invariant.
LEMMA PutcharStep ==
    ASSUME AppInv, IrqInv, NEW p \in {t1, t2}, term_putchar(p) PROVE AppInv'
<1> DEFINE reg == print0_reg[p]
<1> USE OwnBlocks, OwnDevices
<1>1. ASSUME NEW from, NEW to, NEW op, NEW ch, Posts(p, from, to, reg, printer0, Plain(op), ch),
             UNCHANGED semaforo, from \in {"putchar", "print", "ack"},
             <<to, op>> \in {<<"regs", "READ_REGISTERS">>, <<"busy", "PRINT_CHAR">>,
                             <<"acked", "ACK">>}
      PROVE  AppInv'
  <2>1. to \in Printing /\ from \notin {"busy", "tape_wait"} \cup DiskWaiting
    BY <1>1 DEF Printing, DiskWaiting
  <2>2. PrinterMail(p)'
    BY <1>1 DEF Posts, Post, Process, At, PrinterMail, Plain, Command, AppInv, AppTypes, irq_vars
  <2> QED
    BY <1>1, <2>1, <2>2, ProcessPosts
<1>2. ASSUME NEW from, NEW to, Process(p, from, to), UNCHANGED <<all_vars, semaforo>>,
             from \in {"regs", "busy", "acked"}, to \in {"putchar", "print", "ack"},
             from = "busy" => regs[reg].status # "BUSY"
      PROVE  AppInv'
    BY <1>2, ProcessGoesOn DEF Printing, DiskWaiting
<1> QED
    BY <1>1, <1>2 DEF term_putchar, PrintDone

\* So does testTape, which clears semaforo before the tape can interrupt.
LEMMA TapeStep == ASSUME AppInv, IrqInv, testTape PROVE AppInv'
<1> USE OwnBlocks, OwnDevices
<1>1. ASSUME NEW from, NEW to, NEW op, Posts(t1, from, to, tape_reg, tape0, Plain(op), "CR"),
             semaforo' = 0, from \in {"tape_regs", "tape_read"},
             <<to, op>> \in {<<"tape_status", "READ_REGISTERS">>, <<"tape_wait", "READBLK">>}
      PROVE  AppInv'
  <2>1. to \in Taping /\ from \notin {"busy", "tape_wait"} \cup DiskWaiting
    BY <1>1 DEF Taping, DiskWaiting
  <2>2. ~Busy(tape0) /\ tape0 \notin lines
    BY <1>1, DeviceFree DEF Posts, Process
  <2>3. TapeMail'
    BY <1>1, <2>2
       DEF Posts, Post, Process, At, TapeMail, Plain, Command, AppInv, AppTypes, irq_vars,
           registers, Busy
  <2> QED
    BY <1>1, <2>1, <2>3, ProcessPosts
<1>2. CASE Posts(t1, "tape_regs", "tape_status", tape_reg, tape0, Plain("READ_REGISTERS"), "CR")
           /\ semaforo' = 0
    BY <1>1, <1>2
<1>3. CASE Posts(t1, "tape_read", "tape_wait", tape_reg, tape0, Plain("READBLK"), "CR")
           /\ UNCHANGED semaforo
  <2>1. semaforo = 0
    BY <1>3 DEF Posts, Process, AppInv, Cleared
  <2> QED
    BY <1>1, <1>3, <2>1
<1>4. ASSUME NEW to, Process(t1, "tape_status", to), UNCHANGED <<all_vars, semaforo>>,
             to \in {"disk_regs", "tape_read"}
      PROVE  AppInv'
  <2>1. semaforo = 0
    BY <1>4 DEF Process, AppInv, Cleared
  <2> QED
    BY <1>4, <2>1, ProcessGoesOn DEF Taping, Disking, DiskWaiting
<1>5. ASSUME NEW to, Process(t1, "tape_wait", to), UNCHANGED <<all_vars, semaforo>>, semaforo = 1,
             to \in {"disk_regs", "tape_regs"}
      PROVE  AppInv'
    BY <1>5, ProcessGoesOn DEF Taping, Disking, DiskWaiting
<1> QED
    BY <1>2, <1>3, <1>4, <1>5 DEF testTape

\* So does testDisk, which clears it before each command.
LEMMA DiskStep == ASSUME AppInv, IrqInv, testDisk PROVE AppInv'
<1> USE OwnBlocks, OwnDevices
<1>1. ASSUME NEW from, NEW to, NEW cmd, Posts(t1, from, to, disk_reg, disk0, cmd, "CR"),
             semaforo' = 0, from \in {"disk_regs", "disk_seek", "disk_read", "disk_write"},
             <<to, cmd.op>> \in
                {<<"disk_status", "READ_REGISTERS">>, <<"disk_seek_wait", "SEEKCYL">>,
                 <<"disk_read_wait", "READBLK">>, <<"disk_write_wait", "WRITEBLK">>}
      PROVE  AppInv'
  <2>1. to \in Disking /\ from \notin {"busy", "tape_wait"} \cup DiskWaiting
    BY <1>1 DEF Disking, DiskWaiting
  <2>2. ~Busy(disk0) /\ disk0 \notin lines
    BY <1>1, DeviceFree DEF Posts, Process, DiskWaiting
  <2>3. DiskMail'
    BY <1>1, <2>2
       DEF Posts, Post, Process, At, DiskMail, AppInv, AppTypes, irq_vars, registers, Busy
  <2> QED
    BY <1>1, <2>1, <2>3, ProcessPosts
<1>2. CASE Posts(t1, "disk_regs", "disk_status", disk_reg, disk0, Plain("READ_REGISTERS"), "CR")
           /\ semaforo' = 0
    BY <1>1, <1>2 DEF Plain, Command
<1>3. ASSUME NEW w \in DOMAIN DiskWork, semaforo' = 0,
             Posts(t1, w, DiskWait[w], disk_reg, disk0, DiskWork[w], "CR")
      PROVE  AppInv'
  <2>1. /\ w \in {"disk_seek", "disk_read", "disk_write"}
        /\ <<DiskWait[w], DiskWork[w].op>> \in
              {<<"disk_seek_wait", "SEEKCYL">>, <<"disk_read_wait", "READBLK">>,
               <<"disk_write_wait", "WRITEBLK">>}
    BY DEF DiskWork, DiskWait, Command
  <2> QED
    BY <1>1, <1>3, <2>1
<1>4. ASSUME NEW to, Process(t1, "disk_status", to), UNCHANGED <<all_vars, semaforo>>,
             to \in {"putchar", "disk_seek"}
      PROVE  AppInv'
    BY <1>4, ProcessGoesOn DEF Printing, Disking, DiskWaiting
<1>5. CASE DiskWaits
  <2>1. PICK w \in DOMAIN AfterDisk :
            semaforo = 1 /\ Process(t1, w, AfterDisk[w]) /\ UNCHANGED <<all_vars, semaforo>>
    BY <1>5 DEF DiskWaits
  <2>2. w \in DiskWaiting /\ AfterDisk[w] \in {"disk_read", "disk_write", "putchar"}
    BY DEF AfterDisk, DiskWaiting
  <2> QED
    BY <2>1, <2>2, ProcessGoesOn DEF Printing, Disking, DiskWaiting
<1> QED
    BY <1>2, <1>3, <1>4, <1>5 DEF testDisk

-----------------------------------------------------------------------------
(* The kernel                                                              *)

\* The kernel, at work, finds the mailbox empty and no process running.
LEMMA KernelAlone ==
    ASSUME AppInv, IrqInv, NEW from, NEW to, Kernel(from, to)
    PROVE  /\ mailbox = NoMail /\ irq[Core0] = "idle" /\ mode[Core0] = "kernel"
           /\ kernel = from /\ kernel' = to /\ at' = at
BY DEF Kernel, At, Runs

\* A step of the kernel that only looks.
LEMMA KernelLooks ==
    ASSUME AppInv, IrqInv, NEW from, NEW to \in {"switch", "devices", "load"}, Kernel(from, to),
           UNCHANGED <<all_vars, semaforo>>
    PROVE  AppInv'
<1>1. UNCHANGED <<mailbox, irq, mode, loaded, lines, regs, status, mailbox_registers, semaforo, at>>
    BY KernelAlone DEF all_vars, vars, device_vars, fiq_vars, registers, irq_vars
<1>2. mailbox = NoMail /\ kernel' = to /\ mode[Core0] = "kernel"
    BY KernelAlone
<1>3. AppTypes' /\ Mail' /\ Acknowledged' /\ LoadedCurrent'
    BY <1>1, <1>2 DEF AppInv, AppTypes, Mail, Acknowledged, LoadedCurrent
<1>4. Blocks' /\ BlocksAlive' /\ LinesUp' /\ Cleared' /\ SemaphoreMeansDone'
    BY <1>1 DEF AppInv, Blocks, BlocksAlive, LinesUp, Cleared, SemaphoreMeansDone, Busy
<1> QED
    BY <1>3, <1>4 DEF AppInv

\* The kernel wakes the process that waits for device d and posts its ACK.
LEMMA KernelWakesStep ==
    ASSUME AppInv, IrqInv, NEW d \in {tape0, disk0} \cap lines, KernelWakes(d)
    PROVE  AppInv'
<1> USE OwnBlocks, OwnDevices
<1>1. /\ mailbox = NoMail /\ irq[Core0] = "idle" /\ mode[Core0] = "kernel"
      /\ kernel' = "ack" /\ at' = at /\ semaforo' = 1
      /\ UNCHANGED <<irq, mode, loaded, lines, status, mailbox_registers>>
      /\ regs' = [regs EXCEPT ![ack_reg].mailbox = 0]
      /\ mailbox' = [buf |-> ack_reg, dev |-> d, cmd |-> Plain("ACK"), char |-> "CR"]
    BY KernelAlone DEF KernelWakes, Post, registers, irq_vars
<1>2. \A b \in Buffers : regs'[b].status = regs[b].status
    BY <1>1 DEF IrqInv, IInv, TypeOK, IOTypeOK
<1>3. mailbox'.buf = ack_reg /\ mailbox'.dev = d /\ mailbox'.cmd.op = "ACK" /\ mailbox' # NoMail
  <2>1. Plain("ACK") \in CommandSet /\ Plain("ACK").op = "ACK"
    BY CommandsSent DEF Plain, Command
  <2>2. mailbox' \in [buf : Buffers, dev : Devices, cmd : CommandSet, char : Chars]
    BY <1>1, <2>1, CommandsSent
  <2> QED
    BY <1>1, <2>1, <2>2, NoMailNotMessage DEF CommandSet
<1>4. /\ d = tape0 => at[t1] = "tape_wait" /\ ~Busy(tape0) /\ disk0 \notin lines
      /\ d = disk0 => at[t1] \in DiskWaiting /\ ~Busy(disk0) /\ tape0 \notin lines
    BY DEF AppInv, LinesUp, DiskWaiting
<1>5. KernelMail'
    BY <1>1, <1>3, <1>4 DEF KernelMail, Busy
<1>6. AppTypes' /\ Mail' /\ Acknowledged' /\ LoadedCurrent'
    BY <1>1, <1>3, <1>5 DEF AppInv, AppTypes, Mail, Acknowledged, LoadedCurrent
<1>7. Blocks' /\ BlocksAlive'
    BY <1>1, <1>2 DEF AppInv, Blocks, BlocksAlive, Busy
<1>8. LinesUp'
    BY <1>1, <1>3, <1>4 DEF AppInv, LinesUp, Busy
<1>9. Cleared' /\ SemaphoreMeansDone'
    BY <1>1, <1>3, <1>4 DEF Cleared, SemaphoreMeansDone, Busy, DiskWaiting
<1> QED
    BY <1>6, <1>7, <1>8, <1>9 DEF AppInv

\* What the steps of core 0 do to what the application looks at: device lines are
\* lowered at most, and a process is resumed only where one was interrupted.
LEMMA CoreEffects ==
    ASSUME AppInv, IrqInv, CoreStep(Core0)
    PROVE  /\ mailbox = NoMail
           /\ UNCHANGED <<mailbox, status, mailbox_registers, regs>>
           /\ lines' \cap Devices \subseteq lines
           /\ LoadedCurrent'
           /\ irq'[Core0] \notin {"idle", "lower", "look", "arm"} => mode'[Core0] = "user"
           /\ mode'[Core0] = "user" => mode[Core0] = "user" \/ KernelReturn(Core0)
<1> USE OwnDevices
<1>1. /\ AppTypes /\ LoadedCurrent /\ LocalsOK /\ mailbox = NoMail
      /\ UNCHANGED <<mailbox, status, mailbox_registers, regs>>
  <2>1. At(Core0, "idle") => mailbox = NoMail
    BY DEF At, Runs
  <2>2. mailbox = NoMail
    BY DEF CoreStep, IrqCore, SetTimerCore, IrqEnter, IrqTimerRead, IrqTimerAgain, IrqTimerLoad,
           IrqTimerRaise, IrqPending, IrqCleanLoad, IrqCleanStore, IrqDispatch, SetTimer,
           SetTimerLower, SetTimerLook, SetTimerArm, KernelReturn, At, Runs
  <2>3. DevicesIdle
    BY DEF CoreStep, IrqCore, SetTimerCore, IrqEnter, IrqTimerRead, IrqTimerAgain, IrqTimerLoad,
           IrqTimerRaise, IrqPending, IrqCleanLoad, IrqCleanStore, IrqDispatch, SetTimer,
           SetTimerLower, SetTimerLook, SetTimerArm, KernelReturn
  <2> QED
    BY <2>2, <2>3 DEF AppInv, IrqInv, DevicesIdle, registers, fiq_vars
<1> USE <1>1 DEF AppTypes, LoadedCurrent, LocalsOK, At, Goto
<1>2. CASE IrqEnter(Core0) \/ IrqTimerRead(Core0) \/ IrqTimerAgain(Core0) \/ IrqPending(Core0)
           \/ IrqDispatch(Core0)
    BY <1>2 DEF IrqEnter, IrqTimerRead, IrqTimerAgain, IrqPending, IrqDispatch
<1>3. CASE IrqTimerLoad(Core0) \/ IrqTimerRaise(Core0)
    BY <1>3 DEF IrqTimerLoad, IrqTimerRaise, ByteOfTimers
<1>4. CASE IrqCleanLoad(Core0) \/ IrqCleanStore(Core0)
    BY <1>4 DEF IrqCleanLoad, IrqCleanStore
<1>5. CASE SetTimer(Core0)
    BY <1>5 DEF SetTimer, ByteOfTimers
<1>6. CASE SetTimerCore(Core0)
    BY <1>6 DEF SetTimerCore, SetTimerLower, SetTimerLook, SetTimerArm
<1>7. CASE KernelReturn(Core0)
    BY <1>7 DEF KernelReturn
<1> QED
    BY <1>2, <1>3, <1>4, <1>5, <1>6, <1>7 DEF CoreStep, IrqCore

\* Such a step keeps the invariant, if the kernel goes on to what it should.
LEMMA CoreKeeps ==
    ASSUME AppInv, IrqInv, CoreStep(Core0), UNCHANGED <<at, semaforo>>,
           kernel' \in {kernel, "load", "switch", "interrupt"},
           mode'[Core0] = "user" => kernel' = "interrupt"
    PROVE  AppInv'
<1>1. /\ mailbox = NoMail
      /\ UNCHANGED <<mailbox, status, mailbox_registers, regs>>
      /\ lines' \cap Devices \subseteq lines
      /\ LoadedCurrent'
      /\ irq'[Core0] \notin {"idle", "lower", "look", "arm"} => mode'[Core0] = "user"
    BY CoreEffects
<1>2. AppTypes' /\ Mail' /\ Acknowledged'
    BY <1>1 DEF AppInv, AppTypes, Mail, Acknowledged, Answers
<1>3. Blocks' /\ BlocksAlive' /\ Cleared' /\ SemaphoreMeansDone'
    BY <1>1 DEF AppInv, Blocks, BlocksAlive, Cleared, SemaphoreMeansDone, Busy
<1>4. LinesUp'
    BY <1>1, OwnDevices DEF AppInv, LinesUp, Busy
<1> QED
    BY <1>1, <1>2, <1>3, <1>4 DEF AppInv

\* The steps of the kernel keep the invariant.
LEMMA KernelStep ==
    ASSUME AppInv, IrqInv, Main \/ KernelTimer \/ KernelDevices \/ Load PROVE AppInv'
<1>1. ASSUME NEW from, NEW to \in {"load", "switch"}, Kernel(from, to), SetTimer(Core0),
             UNCHANGED semaforo
      PROVE  AppInv'
  <2>1. CoreStep(Core0) /\ kernel' = to /\ at' = at
    BY <1>1, KernelAlone DEF CoreStep
  <2>2. mode'[Core0] # "user"
    BY <1>1, KernelAlone DEF SetTimer
  <2> QED
    BY <1>1, <2>1, <2>2, CoreKeeps
<1>2. CASE Load
  <2>1. CoreStep(Core0) /\ kernel' = "interrupt" /\ at' = at /\ UNCHANGED semaforo
    BY <1>2, KernelAlone DEF Load, CoreStep
  <2> QED
    BY <2>1, CoreKeeps
<1>3. CASE KernelDevices
    BY <1>3, KernelLooks, KernelWakesStep DEF KernelDevices
<1>4. CASE Main \/ KernelTimer
    BY <1>1, <1>4, KernelLooks DEF Main, KernelTimer
<1> QED
    BY <1>2, <1>3, <1>4

\* So do those of c_irq_handler and of setTIMER.
LEMMA InterruptStep ==
    ASSUME AppInv, IrqInv, IrqCore(Core0) \/ SetTimerCore(Core0), UNCHANGED app_vars
    PROVE  AppInv'
<1>1. CoreStep(Core0) /\ UNCHANGED <<at, semaforo, kernel>>
    BY DEF CoreStep, app_vars
<1>2. ~KernelReturn(Core0)
  <2>1. irq[Core0] = "idle" => IrqEnter(Core0)
    BY DEF IrqCore, SetTimerCore, IrqTimerRead, IrqTimerAgain, IrqTimerLoad, IrqTimerRaise,
           IrqPending, IrqCleanLoad, IrqCleanStore, IrqDispatch, SetTimerLower, SetTimerLook,
           SetTimerArm, At
  <2> QED
    BY <2>1 DEF IrqEnter, KernelReturn, At
<1> QED
    BY <1>1, <1>2, CoreEffects, CoreKeeps DEF AppInv, AppTypes

-----------------------------------------------------------------------------
(* The FIQ handler                                                         *)

\* A message or an expiry that changes nothing but block b, if anything.
Quiet(b) ==
    /\ \A e \in Devices : Busy(e)' <=> Busy(e)
    /\ UNCHANGED mailbox_registers
    /\ \A x \in Buffers \ {b} : regs'[x] = regs[x]

\* A command of block b that device d takes.
Taken(d, b) ==
    /\ \A e \in Devices : Busy(e)' <=> e = d \/ Busy(e)
    /\ mailbox_registers' = [mailbox_registers EXCEPT ![d] = b]
    /\ regs'[b].status = "BUSY"
    /\ \A x \in Buffers \ {b} : regs'[x] = regs[x]

\* What the application's messages do to device d: READ_REGISTERS and ACK are quiet, the
\* block of a busy device keeps saying so, and an ACK to a device that is not busy is
\* answered, with its line down.
MessageEffect(d, b, op) ==
    /\ Quiet(b) \/ (Taken(d, b) /\ ~Busy(d) /\ op \notin {"READ_REGISTERS", "ACK"})
    /\ Busy(d) => regs'[b].status \in {regs[b].status, "BUSY"}
    /\ lines' = lines \/ (lines' = lines \ {d} /\ op = "ACK")
    /\ op = "ACK" /\ ~Busy(d) => regs'[b].mailbox = 1 /\ d \notin lines'

\* An answer that leaves the device as busy as it was is quiet.
LEMMA AnswerQuiet ==
    ASSUME TypeOK, NEW d \in Devices, NEW b \in Buffers, NEW c, NEW st, Answer(d, b, c, st),
           st = "BUSY" <=> Busy(d)
    PROVE  Quiet(b) /\ regs'[b].status = st /\ regs'[b].mailbox = 1
BY DEF TypeOK, IOTypeOK, Answer, Copy, Quiet, Busy

\* An accepted command is taken.
LEMMA AcceptTakes ==
    ASSUME TypeOK, NEW d \in Devices, NEW b \in Buffers, NEW c, NEW delay, Accept(d, b, c, delay)
    PROVE  Taken(d, b) /\ lines' = lines
BY DEF TypeOK, IOTypeOK, Accept, Copy, Taken, Busy

\* A report is quiet.
LEMMA ReportQuiet ==
    ASSUME TypeOK, NEW d \in Devices, NEW b \in Buffers, Report(d, b)
    PROVE  /\ Quiet(b) /\ lines' = lines
           /\ regs'[b].mailbox = 1 /\ (Busy(d) => regs'[b].status = "BUSY")
BY AnswerQuiet DEF Report, Busy

\* The line of a device that is not there is down.
LEMMA AbsentLine ==
    ASSUME IInv, NEW d \in Devices, ~Present(d) PROVE d \notin lines
BY CoresDisjoint DEF IInv, StatusOfInstalled, LinesInstalled, DeviceInstalled, Present

\* The messages to a printer,
LEMMA PrinterEffect ==
    ASSUME IInv, NEW d \in Printers, NEW b \in Buffers, NEW c, NEW ch,
           emulated_printer_mailbox(d, b, c, ch), c.op \in {"READ_REGISTERS", "PRINT_CHAR", "ACK"}
    PROVE  MessageEffect(d, b, c.op)
<1>1. TypeOK /\ d \in Devices
    BY DEF IInv, Devices
<1>2. CASE c.op = "ACK" /\ PrinterAck(d, b)
    BY <1>1, <1>2, AnswerQuiet DEF PrinterAck, MessageEffect
<1>3. CASE c.op = "PRINT_CHAR" /\ PrinterPrint(d, b, ch)
    BY <1>1, <1>3, AcceptTakes DEF PrinterPrint, MessageEffect
<1>4. CASE PrinterRefuse(d, b)
    BY <1>1, <1>4 DEF PrinterRefuse, MessageEffect, Quiet, registers, Busy, TypeOK, IOTypeOK
<1>5. CASE c.op = "READ_REGISTERS" /\ Report(d, b)
    BY <1>1, <1>5, ReportQuiet DEF MessageEffect
<1> QED
    BY <1>2, <1>3, <1>4, <1>5 DEF emulated_printer_mailbox

\* to a tape,
LEMMA TapeEffect ==
    ASSUME IInv, NEW d \in Tapes, NEW b \in Buffers, NEW c,
           emulated_tape_mailbox(d, b, c), c.op \in {"READ_REGISTERS", "READBLK", "ACK"}
    PROVE  MessageEffect(d, b, c.op)
<1>1. TypeOK /\ d \in Devices
    BY DEF IInv, Devices
<1>2. CASE c.op = "ACK" /\ TapeAck(d, b)
    BY <1>1, <1>2, AnswerQuiet DEF TapeAck, MessageEffect
<1>3. CASE c.op = "READBLK" /\ TapeRead(d, b)
    BY <1>1, <1>3, AcceptTakes DEF TapeRead, TapeAccept, MessageEffect
<1>4. CASE c.op = "READBLK" /\ TapeReadAtEnd(d, b)
    BY <1>1, <1>4, AnswerQuiet DEF TapeReadAtEnd, MessageEffect
<1>5. CASE Report(d, b) /\ (c.op = "ACK" => Busy(d) \/ ~Present(d))
    BY <1>1, <1>5, ReportQuiet, AbsentLine DEF MessageEffect
<1> QED
    BY <1>2, <1>3, <1>4, <1>5 DEF emulated_tape_mailbox, TapeBusy

\* and to a disk.
LEMMA DiskEffect ==
    ASSUME IInv, NEW d \in Disks, NEW b \in Buffers, NEW c, emulated_disk_mailbox(d, b, c),
           c.op \in {"READ_REGISTERS", "READBLK", "WRITEBLK", "SEEKCYL", "ACK"}
    PROVE  MessageEffect(d, b, c.op)
<1>1. TypeOK /\ d \in Devices
    BY DEF IInv, Devices
<1>2. CASE c.op = "ACK" /\ ~Busy(d) /\ DiskAck(d, b)
    BY <1>1, <1>2, AnswerQuiet DEF DiskAck, MessageEffect
<1>3. CASE Busy(d) /\ DiskAck(d, b)
    BY <1>1, <1>3 DEF DiskAck, MessageEffect, Quiet, registers, Busy
<1>4. CASE c.op \in {"READBLK", "WRITEBLK", "SEEKCYL"} /\ DiskMove(d, b, c)
  <2>1. CASE Report(d, b)
    BY <1>1, <1>4, <2>1, ReportQuiet DEF MessageEffect
  <2>2. CASE ~Busy(d) /\ IllegalOperation(d, b)
    BY <1>1, <1>4, <2>2, AnswerQuiet DEF IllegalOperation, MessageEffect
  <2>3. CASE ~Busy(d) /\ Accept(d, b, c, DiskDelay(d, c))
    BY <1>1, <1>4, <2>3, AcceptTakes DEF MessageEffect
  <2> QED
    BY <1>4, <2>1, <2>2, <2>3 DEF DiskMove
<1>5. CASE Report(d, b) /\ (c.op = "ACK" => ~Present(d))
    BY <1>1, <1>5, ReportQuiet, AbsentLine DEF MessageEffect
<1> QED
    BY <1>2, <1>3, <1>4, <1>5 DEF emulated_disk_mailbox

\* The message in the mailbox does what its sender expects.
LEMMA SentEffect ==
    ASSUME AppInv, IrqInv, FiqMailbox
    PROVE  MessageEffect(mailbox.dev, mailbox.buf, mailbox.cmd.op)
<1> USE OwnDevices
<1>1. IInv /\ mailbox # NoMail /\ mailbox.buf \in Buffers
    BY InvariantParts DEF IrqInv, FiqMailbox, LocalOK, MailSet
<1>2. \/ mailbox.dev = printer0 /\ mailbox.cmd.op \in {"READ_REGISTERS", "PRINT_CHAR", "ACK"}
      \/ mailbox.dev = tape0 /\ mailbox.cmd.op \in {"READ_REGISTERS", "READBLK", "ACK"}
      \/ /\ mailbox.dev = disk0
         /\ mailbox.cmd.op \in {"READ_REGISTERS", "READBLK", "WRITEBLK", "SEEKCYL", "ACK"}
    BY <1>1 DEF AppInv, Mail, KernelMail, PrinterMail, TapeMail, DiskMail
<1>3. CASE mailbox.dev = printer0
    BY <1>1, <1>2, <1>3, PrinterEffect DEF FiqMailbox
<1>4. CASE mailbox.dev = tape0
    BY <1>1, <1>2, <1>4, TapeEffect DEF FiqMailbox
<1>5. CASE mailbox.dev = disk0
    BY <1>1, <1>2, <1>5, DiskEffect DEF FiqMailbox
<1> QED
    BY <1>2, <1>3, <1>4, <1>5

\* The mailbox half of the FIQ handler keeps the invariant.
LEMMA MailStep ==
    ASSUME AppInv, IrqInv, FiqMailbox, UNCHANGED <<irq_vars, app_vars>> PROVE AppInv'
<1> DEFINE d == mailbox.dev
           b == mailbox.buf
           op == mailbox.cmd.op
<1> USE OwnBlocks, OwnDevices
<1>1. /\ mailbox # NoMail /\ mailbox' = NoMail /\ b \in Buffers
      /\ UNCHANGED <<irq, mode, loaded, at, kernel, semaforo>>
      /\ mailbox_registers \in [Devices -> Buffers \cup {NULL}]
    BY InvariantParts
       DEF IrqInv, FiqMailbox, LocalOK, MailSet, irq_vars, app_vars, SharedOK, IOTypeOK
<1>2. /\ irq[Core0] = "idle"
      /\ KernelMail \/ (\E p \in {t1, t2} : PrinterMail(p)) \/ TapeMail \/ DiskMail
    BY <1>1 DEF AppInv, Mail
<1>3. MessageEffect(d, b, op)
    BY SentEffect
<1>4. d \in Devices
    BY <1>2 DEF KernelMail, PrinterMail, TapeMail, DiskMail
<1>5. b = ack_reg => KernelMail
    BY <1>2 DEF PrinterMail, TapeMail, DiskMail
<1>6. /\ d = printer0 => \E p \in {t1, t2} : PrinterMail(p)
      /\ d = tape0 => KernelMail \/ TapeMail
      /\ d = disk0 => KernelMail \/ DiskMail
    BY <1>2 DEF KernelMail, PrinterMail, TapeMail, DiskMail
<1>7. KernelMail => op = "ACK" /\ ~Busy(d) /\ b = ack_reg
    BY DEF KernelMail
<1> HIDE DEF d, b, op
<1>8. AppTypes' /\ Mail' /\ LoadedCurrent' /\ Cleared'
    BY <1>1, <1>2 DEF AppInv, AppTypes, Mail, LoadedCurrent, Cleared
<1>9. Acknowledged'
  <2> SUFFICES ASSUME kernel = "ack" PROVE regs'[ack_reg].mailbox # 0
    BY <1>1 DEF Acknowledged, Answers
  <2>1. KernelMail
    BY <1>2 DEF PrinterMail, TapeMail, DiskMail, AppInv, AppTypes
  <2> QED
    BY <1>3, <1>7, <2>1 DEF MessageEffect
<1>10. Quiet(b) => Blocks' /\ BlocksAlive'
  <2> SUFFICES ASSUME Quiet(b) PROVE Blocks' /\ BlocksAlive'
    OBVIOUS
  <2>1. BlocksAlive'
    BY <1>1 DEF Quiet, AppInv, BlocksAlive
  <2>2. ASSUME NEW e \in Devices, mailbox_registers[e] # NULL
        PROVE  Busy(e)' /\ regs'[mailbox_registers[e]].status = "BUSY"
    <3>1. Busy(e) /\ regs[mailbox_registers[e]].status = "BUSY" /\ mailbox_registers[e] \in Buffers
      BY <1>1, <2>2 DEF AppInv, Blocks
    <3>2. mailbox_registers[e] = b => e = d
      BY <1>2, <2>2 DEF AppInv, Blocks, KernelMail, PrinterMail, TapeMail, DiskMail, b, d
    <3> QED
      BY <1>3, <3>1, <3>2 DEF Quiet, MessageEffect
  <2> QED
    BY <2>1, <2>2 DEF AppInv, Blocks, Quiet
<1>11. Taken(d, b) /\ ~Busy(d) /\ op \notin {"READ_REGISTERS", "ACK"} => Blocks' /\ BlocksAlive'
  <2> SUFFICES ASSUME Taken(d, b), ~Busy(d), op \notin {"READ_REGISTERS", "ACK"}
               PROVE  Blocks' /\ BlocksAlive'
    OBVIOUS
  <2>1. /\ mailbox_registers'[d] = b
        /\ \A e \in Devices \ {d} : mailbox_registers'[e] = mailbox_registers[e]
    BY <1>1, <1>4 DEF Taken
  <2>2. \/ d = printer0 /\ \E p \in {t1, t2} : b = print0_reg[p] /\ at[p] = "busy"
        \/ d = tape0 /\ b = tape_reg /\ at[t1] = "tape_wait"
        \/ d = disk0 /\ b = disk_reg /\ at[t1] \in DiskWaiting
    BY <1>2, <1>7 DEF PrinterMail, TapeMail, DiskMail, DiskWaiting, b, d, op
  <2>3. \A e \in Devices \ {d} : mailbox_registers[e] # b
    BY <2>2 DEF AppInv, Blocks
  <2>4. BlocksAlive'
    BY <1>1, <2>1, <2>2 DEF AppInv, BlocksAlive, DiskWaiting
  <2>5. ASSUME NEW e \in Devices, mailbox_registers'[e] # NULL
        PROVE  Busy(e)' /\ regs'[mailbox_registers'[e]].status = "BUSY"
    BY <1>1, <2>1, <2>3, <2>5 DEF AppInv, Blocks, Taken
  <2> QED
    BY <2>1, <2>2, <2>4, <2>5 DEF AppInv, Blocks
<1>12. /\ Busy(tape0)' => Busy(tape0) \/ TapeMail
       /\ Busy(disk0)' => Busy(disk0) \/ DiskMail
    BY <1>3, <1>6, <1>7 DEF MessageEffect, Quiet, Taken
<1>13. lines' \subseteq lines
    BY <1>3 DEF MessageEffect
<1>14. LinesUp'
  <2>1. ASSUME NEW e \in {tape0, disk0} \cap lines', semaforo = 1 PROVE FALSE
    <3>1. e \in lines /\ b = ack_reg /\ d = e
      BY <1>13, <2>1 DEF AppInv, LinesUp, b, d
    <3> QED
      BY <1>3, <1>5, <1>7, <2>1, <3>1 DEF MessageEffect
  <2> QED
    BY <1>1, <1>12, <1>13, <2>1 DEF AppInv, LinesUp, TapeMail, DiskMail
<1>15. SemaphoreMeansDone'
    BY <1>1, <1>12 DEF AppInv, SemaphoreMeansDone, TapeMail, DiskMail
<1> QED
    BY <1>3, <1>8, <1>9, <1>10, <1>11, <1>14, <1>15 DEF AppInv, MessageEffect

\* So does the end of a command, which completes into the block that waits for it.
LEMMA PopStep ==
    ASSUME AppInv, IrqInv, NEW d \in Devices, FiqPop(d), UNCHANGED <<irq_vars, app_vars>>
    PROVE  AppInv'
<1> USE OwnBlocks, OwnDevices
<1>1. /\ TypeOK /\ BusyTimed /\ UNCHANGED <<mailbox, irq, mode, loaded, at, kernel, semaforo>>
    BY DEF IrqInv, IInv, FiqPop, fiq_vars, irq_vars, app_vars
<1>2. ExpiryStep(d)
    BY <1>1, PrinterExpiry, TapeExpiry, DiskExpiry DEF FiqPop
<1>3. CASE UNCHANGED <<registers, regs, lines>>
    BY <1>1, <1>3
       DEF AppInv, AppTypes, Mail, KernelMail, PrinterMail, TapeMail, DiskMail, Blocks, BlocksAlive,
           LinesUp, Cleared, SemaphoreMeansDone, LoadedCurrent, Acknowledged, Answers, Busy,
           registers
<1>4. ASSUME NEW st \in Statuses \ {"BUSY", "NOT_INSTALLED"}, Busy(d), Complete(d, st)
      PROVE  AppInv'
  <2>1. /\ mailbox_registers[d] \in Buffers /\ ~Busy(d)'
        /\ mailbox_registers'[d] = NULL /\ lines' = lines \cup {d}
        /\ \A e \in Devices \ {d} : /\ mailbox_registers'[e] = mailbox_registers[e]
                                    /\ Busy(e)' <=> Busy(e)
        /\ \A x \in Buffers \ {mailbox_registers[d]} : regs'[x] = regs[x]
    BY <1>1, <1>4 DEF TypeOK, IOTypeOK, BusyTimed, Complete, Busy
  <2>2. /\ d = tape0 => at[t1] = "tape_wait"
        /\ d = disk0 => at[t1] \in DiskWaiting
        /\ d \in {tape0, disk0} => semaforo # 1
    BY <1>4, <2>1 DEF AppInv, Blocks, BlocksAlive, SemaphoreMeansDone, DiskWaiting
  <2>3. AppTypes' /\ LoadedCurrent' /\ Cleared'
    BY <1>1, <2>1 DEF AppInv, AppTypes, LoadedCurrent, Cleared
  <2>4. Mail'
    BY <1>1, <1>4, <2>1 DEF AppInv, Mail, KernelMail, PrinterMail, TapeMail, DiskMail
  <2>5. Acknowledged'
    BY <1>1, <2>1 DEF AppInv, Acknowledged, Answers, BlocksAlive
  <2>6. Blocks' /\ BlocksAlive'
    BY <1>1, <2>1 DEF AppInv, Blocks, BlocksAlive
  <2>7. LinesUp'
    BY <1>1, <2>1, <2>2 DEF AppInv, LinesUp
  <2>8. SemaphoreMeansDone'
    BY <1>1, <2>1 DEF AppInv, SemaphoreMeansDone
  <2> QED
    BY <2>3, <2>4, <2>5, <2>6, <2>7, <2>8 DEF AppInv
<1> QED
    BY <1>2, <1>3, <1>4 DEF ExpiryStep

\* So do the other steps of the FIQ handler and of the clock.
LEMMA OtherStep ==
    ASSUME AppInv, IrqInv, UNCHANGED <<irq_vars, app_vars>>,
           FiqEnter \/ FiqTimer \/ FiqRearm \/ FiqClean \/ Tick \/ UNCHANGED vars
    PROVE  AppInv'
<1>1. UNCHANGED <<mailbox, irq, mode, loaded, lines, regs, status, mailbox_registers,
                  semaforo, at, kernel>>
    BY CleanDropsNothing
       DEF FiqEnter, FiqTimer, FiqRearm, FiqClean, Tick, vars, device_vars, fiq_vars, registers,
           irq_vars, app_vars, IrqInv, IInv
<1> QED
    BY <1>1
       DEF AppInv, AppTypes, Mail, KernelMail, PrinterMail, TapeMail, DiskMail, Blocks, BlocksAlive,
           LinesUp, Cleared, SemaphoreMeansDone, LoadedCurrent, Acknowledged, Answers, Busy

-----------------------------------------------------------------------------
(* The theorems                                                            *)

\* bios_main starts the application in a state that satisfies the invariant,
LEMMA AppInitInvariant == ASSUME AppInit PROVE AppInv
<1> USE OwnBlocks, OwnDevices
<1>1. /\ mailbox = NoMail /\ lines = {} /\ irq[Core0] = "idle" /\ mode[Core0] = "kernel"
      /\ semaforo = 0 /\ kernel = "main"
      /\ at \in [{t1, t2} -> {"tape_regs", "putchar"}]
      /\ at[t1] = "tape_regs" /\ at[t2] = "putchar"
      /\ \A d \in Devices : mailbox_registers[d] = NULL
    BY DEF AppInit, IrqInit, Init, IOInit
<1>2. AppTypes
    BY <1>1 DEF AppTypes, Printing, Taping
<1>3. Mail /\ LinesUp /\ LoadedCurrent /\ Acknowledged /\ Cleared /\ SemaphoreMeansDone
    BY <1>1 DEF Mail, LinesUp, LoadedCurrent, Acknowledged, Cleared, SemaphoreMeansDone
<1>4. Blocks /\ BlocksAlive
    BY <1>1 DEF Blocks, BlocksAlive
<1> QED
    BY <1>2, <1>3, <1>4 DEF AppInv

\* and every step keeps it.
LEMMA AppStepInvariant ==
    ASSUME AppInv, IrqInv, [AppNext]_application_vars PROVE AppInv'
<1>1. CASE UNCHANGED application_vars
    BY <1>1, OtherStep DEF application_vars, all_vars
<1>2. CASE \E p \in {t1, t2} : term_putchar(p)
    BY <1>2, PutcharStep
<1>3. CASE testTape \/ testDisk
    BY <1>3, TapeStep, DiskStep
<1>4. CASE Main \/ KernelTimer \/ KernelDevices \/ Load
    BY <1>4, KernelStep
<1>5. CASE (IrqCore(Core0) \/ SetTimerCore(Core0)) /\ UNCHANGED app_vars
    BY <1>5, InterruptStep
<1>6. CASE Fiq /\ UNCHANGED <<irq_vars, app_vars>>
    BY <1>6, MailStep, PopStep, OtherStep DEF Fiq
<1>7. CASE IrqTick /\ UNCHANGED app_vars
    BY <1>7, OtherStep DEF IrqTick
<1> QED
    BY <1>1, <1>2, <1>3, <1>4, <1>5, <1>6, <1>7 DEF AppNext

\* The inductive invariant of the application: where its processes, its kernel, its
\* messages, its blocks and the lines of its devices are with respect to each other.
THEOREM AppInvariant == AppSpec => [](AppInv /\ IrqInv)
<1>1. AppInit => AppInv /\ IrqInv
    BY AppInitInvariant, IrqInitInvariant DEF AppInit
<1>2. AppInv /\ IrqInv /\ [AppNext]_application_vars => AppInv' /\ IrqInv'
    BY AppStepInvariant, HandlersKept
<1> QED
    BY <1>1, <1>2, PTL DEF AppSpec, application_vars

\* BlocksAlive: a device completes only into a block whose function is still waiting for it,
\* for any delays, tapes and disks.
THEOREM BlocksStayAlive == AppSpec => []BlocksAlive
<1>1. AppInv => BlocksAlive
    BY DEF AppInv
<1> QED
    BY AppInvariant, <1>1, PTL

\* SemaphoreMeansDone: no interrupt of an earlier command, or of the other device, lets
\* test1 go on.
THEOREM SemaphoreIsDone == AppSpec => []SemaphoreMeansDone
<1>1. AppInv => SemaphoreMeansDone
    BY DEF AppInv
<1> QED
    BY AppInvariant, <1>1, PTL

\* AckAnswered: the kernel, which waits with interrupts masked, never waits in vain.
THEOREM AcksAnswered == AppSpec => []AckAnswered
<1>1. AppInv => AckAnswered
    BY DEF AppInv, Acknowledged, AckAnswered, Runs
<1> QED
    BY AppInvariant, <1>1, PTL

-----------------------------------------------------------------------------
(* The application as a client of the handlers                             *)

\* The clients of IrqHandler may send what the application sends.
SendsAppCommands ==
    /\ {"READ_REGISTERS", "PRINT_CHAR", "ACK", "READBLK", "WRITEBLK", "SEEKCYL"} \subseteq ClientOps
    /\ {Plain("READ_REGISTERS"), Plain("ACK")} \cup {DiskWork[w] : w \in DOMAIN DiskWork}
           \subseteq DiskCommands

\* What the application sends to each device is then a client's command.
LEMMA AppCommands ==
    ASSUME SendsAppCommands
    PROVE  /\ \A op \in {"READ_REGISTERS", "PRINT_CHAR", "ACK"} : Plain(op) \in CommandsOf(printer0)
           /\ \A op \in {"READ_REGISTERS", "READBLK", "ACK"} : Plain(op) \in CommandsOf(tape0)
           /\ \A op \in {"READ_REGISTERS", "ACK"} : Plain(op) \in CommandsOf(disk0)
           /\ \A w \in DOMAIN DiskWork : DiskWork[w] \in CommandsOf(disk0)
           /\ \A op \in {"READ_REGISTERS", "READBLK", "ACK"} : "CR" \in CharsOf(Plain(op))
           /\ \A w \in DOMAIN DiskWork : "CR" \in CharsOf(DiskWork[w])
           /\ CharsOf(Plain("PRINT_CHAR")) = PrintChars
<1> USE OwnDevices
<1>1. \A op : Plain(op).op = op
    BY DEF Plain, Command
<1>2. \A w \in DOMAIN DiskWork : DiskWork[w].op \in {"SEEKCYL", "READBLK", "WRITEBLK"}
    BY DEF DiskWork, Command
<1>3. \A op \in {"READ_REGISTERS", "PRINT_CHAR", "ACK"} : Plain(op) \in CommandsOf(printer0)
    BY <1>1 DEF SendsAppCommands, CommandsOf, PrinterCommands
<1>4. \A op \in {"READ_REGISTERS", "READBLK", "ACK"} : Plain(op) \in CommandsOf(tape0)
    BY <1>1 DEF SendsAppCommands, CommandsOf, TapeCommands
<1>5. \A op \in {"READ_REGISTERS", "ACK"} : Plain(op) \in CommandsOf(disk0)
    BY <1>1 DEF SendsAppCommands, CommandsOf
<1>6. \A w \in DOMAIN DiskWork : DiskWork[w] \in CommandsOf(disk0)
    BY <1>2 DEF SendsAppCommands, CommandsOf
<1>7. \A op \in {"READ_REGISTERS", "READBLK", "ACK"} : "CR" \in CharsOf(Plain(op))
    BY <1>1 DEF CharsOf
<1>8. \A w \in DOMAIN DiskWork : "CR" \in CharsOf(DiskWork[w])
    BY <1>2 DEF CharsOf
<1>9. CharsOf(Plain("PRINT_CHAR")) = PrintChars
    BY <1>1 DEF CharsOf
<1> QED
    BY <1>3, <1>4, <1>5, <1>6, <1>7, <1>8, <1>9

\* Every step of the application is then one that IrqHandler allows.
LEMMA ClientSteps ==
    ASSUME SendsAppCommands, [AppNext]_application_vars PROVE [IrqNext]_all_vars
<1> USE OwnBlocks, OwnDevices, AppCommands
<1>1. ASSUME NEW b \in Buffers, NEW d \in Devices, NEW c \in CommandsOf(d), NEW ch \in CharsOf(c),
             Post(b, d, c, ch), irq[Core0] = "idle", UNCHANGED irq_vars
      PROVE  IrqNext
  <2>1. Client
    BY <1>1 DEF Client
  <2> QED
    BY <1>1, <2>1 DEF IrqNext, IrqClient
<1>2. ASSUME NEW p, NEW from, NEW to, NEW b \in Buffers, NEW d \in Devices, NEW c \in CommandsOf(d),
             NEW ch \in CharsOf(c), Posts(p, from, to, b, d, c, ch)
      PROVE  IrqNext
    BY <1>1, <1>2 DEF Posts, Process, At
<1>3. ASSUME NEW p \in {t1, t2}, term_putchar(p) PROVE [IrqNext]_all_vars
    BY <1>2, <1>3 DEF term_putchar, PrintDone
<1>4. testTape => [IrqNext]_all_vars
    BY <1>2 DEF testTape
<1>5. testDisk => [IrqNext]_all_vars
    BY <1>2 DEF testDisk, DiskWaits
<1>6. ASSUME NEW d \in {tape0, disk0}, KernelWakes(d) PROVE IrqNext
    BY <1>1, <1>6 DEF KernelWakes, Kernel, At
<1>7. Main \/ KernelTimer \/ KernelDevices \/ Load => [IrqNext]_all_vars
    BY <1>6 DEF Main, KernelTimer, KernelDevices, Load, IrqNext
<1> QED
    BY <1>3, <1>4, <1>5, <1>7 DEF AppNext, IrqNext, application_vars

\* The application is one of the clients that IrqHandler is checked with and proved for:
\* its processes and its kernel use the handlers as the model lets any client use them.
THEOREM ApplicationIsClient == SendsAppCommands => (AppSpec => IrqSpec)
<1> SUFFICES ASSUME SendsAppCommands PROVE AppSpec => IrqSpec
    OBVIOUS
<1>1. AppInit => IrqInit
    BY DEF AppInit
<1>2. [AppNext]_application_vars => [IrqNext]_all_vars
    BY ClientSteps
<1> QED
    BY <1>1, <1>2, PTL DEF AppSpec, IrqSpec, application_vars

\* DeliveryArmed of the application, which sends no RESET: when the tape or the disk has
\* interrupted, the timer that brings the interrupt to the kernel is on.
THEOREM AppInterruptsArmed ==
    SendsAppCommands /\ "RESET" \notin ClientOps => (AppSpec => []DeliveryArmed)
<1> SUFFICES ASSUME SendsAppCommands, "RESET" \notin ClientOps PROVE AppSpec => []DeliveryArmed
    OBVIOUS
<1>1. OneCore /\ QuietCommands
    BY OwnDevices DEF OneCore, QuietCommands
<1>2. IrqSpec => []DeliveryArmed
    BY <1>1, InterruptsArmed
<1> QED
    BY <1>2, ApplicationIsClient

\* Whoever posted it, a message that the application sends is answered.
LEMMA SentAnswered ==
    ASSUME AppInv, IrqInv, FiqMailbox PROVE regs'[mailbox.buf].mailbox # 0
<1> USE OwnDevices
<1>1. /\ TypeOK /\ mailbox # NoMail /\ mailbox.buf \in Buffers
    BY InvariantParts DEF IrqInv, IInv, FiqMailbox, LocalOK, MailSet
<1>2. mailbox.dev \in Devices
    BY <1>1 DEF AppInv, Mail, KernelMail, PrinterMail, TapeMail, DiskMail
<1>3. CASE mailbox.cmd.op = "ACK" /\ ~Busy(mailbox.dev)
    BY <1>3, SentEffect DEF MessageEffect
<1>4. CASE ~(mailbox.cmd.op = "ACK" /\ mailbox.dev = disk0)
    BY <1>1, <1>2, <1>4, MessageAnswered DEF FiqMailbox
<1>5. mailbox.cmd.op = "ACK" /\ mailbox.dev = disk0 => ~Busy(mailbox.dev)
    BY <1>1 DEF AppInv, Mail, KernelMail, PrinterMail, TapeMail, DiskMail
<1> QED
    BY <1>3, <1>4, <1>5

\* Answered of the application, ACKs to the disk included: the kernel sends them when the
\* disk is not busy.
THEOREM AppMessagesAnswered == AppSpec => Answered
<1>1. ASSUME AppInv, IrqInv, [AppNext]_application_vars, fiq = "mailbox", fiq' # "mailbox"
      PROVE  FiqMailbox
  <2>1. ~CoreStep(Core0)
    BY <1>1 DEF CoreStep, IrqCore, SetTimerCore, IrqEnter, IrqTimerRead, IrqTimerAgain,
                IrqTimerLoad, IrqTimerRaise, IrqPending, IrqCleanLoad, IrqCleanStore, IrqDispatch,
                SetTimer, SetTimerLower, SetTimerLook, SetTimerArm, KernelReturn, At, Runs
  <2>2. ~Posting /\ ~IrqTick /\ ~UNCHANGED vars
    BY <1>1 DEF Posting, Post, IrqTick, Tick, vars, fiq_vars
  <2>3. Fiq
    BY <1>1, <2>1, <2>2, StepsOfHandlers
  <2> QED
    BY <1>1, <2>3 DEF Fiq, FiqEnter, FiqTimer, FiqPop, FiqRearm, FiqClean
<1>2. AppInv /\ IrqInv /\ [AppNext]_application_vars =>
          [fiq = "mailbox" /\ fiq' # "mailbox" => regs'[mailbox.buf].mailbox # 0]_vars
    BY <1>1, SentAnswered
<1> QED
    BY <1>2, AppInvariant, PTL DEF AppSpec, Answered, application_vars
=============================================================================
