--------------------------- MODULE InterruptsProofs ---------------------------
(***************************************************************************)
(* Proofs about interrupts.c: first about the FIQ handler and its devices  *)
(* alone (FiqHandler), then about c_irq_handler and setTIMER beneath it    *)
(* (IrqHandler); for any number of devices, blocks and cores.              *)
(***************************************************************************)
EXTENDS IrqHandler, TLAPS

(***************************************************************************)
(* The FIQ handler                                                         *)
(***************************************************************************)

\* The operations that keep a device of d's class busy until a timer expires.
TimedOps(d) == IF d \in Printers THEN {"PRINT_CHAR"}
               ELSE IF d \in Tapes THEN {"SKIPBLK", "BACKBLK", "READBLK"}
               ELSE {"SEEKCYL", "READBLK", "WRITEBLK"}

CommandSet == [op : Operations, x : Nat, y : Nat]
BlockSet == [status : Statuses, mailbox : 0..2]

\* A device is NOT_INSTALLED from the boot on or never.
StatusOfInstalled == \A d \in Devices : status[d] = "NOT_INSTALLED" <=> d \notin Installed

\* What a busy device is doing is something that its timer will end.
BusyTimed == \A d \in Devices :
    Busy(d) => /\ deadline[d] # Off
               /\ mailbox_registers[d] # NULL
               /\ command[d].op \in TimedOps(d)

\* currentTime is a recent reading of the clock.
ClockRead == fiq = "loop" => currentTime <= now /\ now <= currentTime + MaxRun

\* The inductive invariant.
IInv == /\ TypeOK /\ StatusOfInstalled /\ BusyTimed
        /\ LinesInstalled /\ TimersServed /\ ClockRead

-----------------------------------------------------------------------------
(* What the handlers of the three classes do to the shared state.          *)

\* A message changes nothing but a client's block,
Kept ==
    /\ UNCHANGED <<registers, timers, lines>>
    /\ regs' \in [Buffers -> BlockSet]

\* or is answered without a timer, keeping a running command running,
Replied(d, b) ==
    \E c \in CommandSet, st \in Statuses :
        /\ Answer(d, b, c, st)
        /\ st = "BUSY" => Busy(d) /\ c = command[d]
        /\ st = "NOT_INSTALLED" <=> d \notin Installed
        /\ lines' \in {lines, lines \ {d}, lines \cup ({d} \cap Installed)}

\* or starts a command of d's class.
Accepted(d, b) ==
    \E c \in CommandSet, delay \in Nat :
        /\ Accept(d, b, c, delay)
        /\ c.op \in TimedOps(d)
        /\ d \in Installed

\* What a message to d may do.
MessageStep(d, b) == Kept \/ Replied(d, b) \/ Accepted(d, b)

\* What the expiry of d's timer may do, apart from the timer itself.
ExpiryStep(d) ==
    \/ ~Busy(d) /\ UNCHANGED <<registers, regs, lines>>
    \/ \E st \in Statuses \ {"BUSY", "NOT_INSTALLED"} : Busy(d) /\ Complete(d, st)

-----------------------------------------------------------------------------
\* A command without operands is a command.
LEMMA PlainCommand ==
    ASSUME NEW op \in Operations
    PROVE  Plain(op) \in CommandSet /\ Plain(op).op = op
BY DEF Plain, Command, CommandSet

\* The commands of the mailbox fit the common picture.
LEMMA PrinterMessage ==
    ASSUME TypeOK, StatusOfInstalled, NEW p \in Printers, NEW b \in Buffers, NEW c,
           NEW ch \in Chars, emulated_printer_mailbox(p, b, c, ch)
    PROVE  MessageStep(p, b) /\ PrinterTypeOK'
<1>1. /\ p \in Devices /\ p \in Installed /\ status[p] \in Statuses /\ command[p] \in CommandSet
      /\ status[p] # "NOT_INSTALLED"
    BY PrintersInstalled DEF Devices, TypeOK, IOTypeOK, CommandSet, StatusOfInstalled
<1>2. PrinterTypeOK'
    BY DEF emulated_printer_mailbox, PrinterReset, PrinterAck, PrinterPrint, PrinterRefuse,
           TypeOK, PrinterTypeOK
<1> SUFFICES MessageStep(p, b)
    BY <1>2
<1>3. CASE PrinterReset(p, b)
  <2>1. Plain("RESET") \in CommandSet
    BY PlainCommand DEF Operations
  <2> QED
    BY <1>1, <1>3, <2>1 DEF PrinterReset, MessageStep, Replied, Statuses
<1>4. CASE PrinterAck(p, b)
  <2>1. Plain("ACK") \in CommandSet
    BY PlainCommand DEF Operations
  <2> QED
    BY <1>1, <1>4, <2>1 DEF PrinterAck, MessageStep, Replied, Statuses
<1>5. CASE PrinterPrint(p, b, ch)
  <2>1. Plain("PRINT_CHAR") \in CommandSet /\ Plain("PRINT_CHAR").op = "PRINT_CHAR"
    BY PlainCommand DEF Operations
  <2> QED
    BY <1>1, <1>5, <2>1, DelaysNat DEF PrinterPrint, MessageStep, Accepted, TimedOps
<1>6. CASE PrinterRefuse(p, b)
  <2>1. regs' \in [Buffers -> BlockSet]
    BY <1>6 DEF PrinterRefuse, TypeOK, IOTypeOK, BlockSet
  <2> QED
    BY <1>6, <2>1 DEF PrinterRefuse, MessageStep, Kept
<1>7. CASE Report(p, b)
    BY <1>1, <1>7 DEF Report, MessageStep, Replied, Busy
<1>8. CASE IllegalOperation(p, b)
    BY <1>1, <1>8 DEF IllegalOperation, MessageStep, Replied, Statuses
<1>9. QED
    BY <1>3, <1>4, <1>5, <1>6, <1>7, <1>8 DEF emulated_printer_mailbox

\* update_tape_head keeps the tapes' types and derives the status it is told to.
LEMMA TapeHead ==
    ASSUME TypeOK, NEW t \in Tapes, NEW i \in Nat, NEW error, NEW st,
           update_tape_head(t, i, error, st)
    PROVE  TapeTypeOK' /\ st \in {error, "READY"}
<1>1. PICK failed, head :
          /\ failed \in BOOLEAN /\ head \in MarkersRead(t, i, failed)
          /\ block_index' = [block_index EXCEPT ![t] = i]
          /\ data1' = IF head = "garbage" THEN data1 ELSE [data1 EXCEPT ![t] = head]
          /\ st = IF head = "garbage" THEN error ELSE "READY"
          /\ misread' = [misread EXCEPT ![t] = IF i \in DOMAIN Markers[t] THEN failed
                                               ELSE misread[t] /\ i # 0]
    BY TapeFiles DEF update_tape_head, TypeOK, TapeTypeOK
<1>2. head \in Marks \cup {"TS", "garbage"}
    BY <1>1, TapeFiles DEF MarkersRead, Marks
<1> QED
    BY <1>1, <1>2 DEF TypeOK, TapeTypeOK

\* The same for tapes.
LEMMA TapeMessage ==
    ASSUME TypeOK, StatusOfInstalled, NEW t \in Tapes, NEW b \in Buffers, NEW c,
           emulated_tape_mailbox(t, b, c)
    PROVE  MessageStep(t, b) /\ TapeTypeOK'
<1>1. /\ t \in Devices /\ t \notin Printers
      /\ status[t] \in Statuses /\ command[t] \in CommandSet
      /\ status[t] = "NOT_INSTALLED" <=> t \notin Installed
    BY ClassesDisjoint DEF Devices, TypeOK, IOTypeOK, CommandSet, StatusOfInstalled
<1>2. TapeTypeOK'
  <2>1. CASE TapeReset(t, b)
      BY <2>1, TapeHead DEF TapeReset
  <2>2. CASE UNCHANGED tape_vars
      BY <2>2 DEF tape_vars, TypeOK, TapeTypeOK
  <2> QED
      BY <2>1, <2>2 DEF emulated_tape_mailbox
<1> SUFFICES MessageStep(t, b)
    BY <1>2
<1>3. CASE Present(t) /\ TapeReset(t, b)
  <2>1. Plain("RESET") \in CommandSet
    BY PlainCommand DEF Operations
  <2> QED
    BY <1>1, <1>3, <2>1 DEF TapeReset, MessageStep, Replied, Statuses, Present
<1>4. CASE Present(t) /\ TapeAck(t, b)
  <2>1. Plain("ACK") \in CommandSet
    BY PlainCommand DEF Operations
  <2> QED
    BY <1>1, <1>4, <2>1 DEF TapeAck, MessageStep, Replied, Statuses, Present
<1>5. ASSUME Present(t), NEW op \in {"SKIPBLK", "BACKBLK", "READBLK"}, TapeAccept(t, b, op)
      PROVE  MessageStep(t, b)
  <2>1. Plain(op) \in CommandSet /\ Plain(op).op = op
    BY PlainCommand DEF Operations
  <2>2. t \in Installed /\ op \in TimedOps(t)
    BY <1>1, <1>5 DEF Present, TimedOps
  <2> QED
    BY <1>5, <2>1, <2>2, DelaysNat DEF TapeAccept, MessageStep, Accepted
<1>6. CASE Present(t) /\ TapeReadAtEnd(t, b)
    BY <1>1, <1>6 DEF TapeReadAtEnd, MessageStep, Replied, Statuses, Present
<1>7. CASE Report(t, b)
    BY <1>1, <1>7 DEF Report, MessageStep, Replied, Busy
<1>8. CASE Present(t) /\ IllegalOperation(t, b)
    BY <1>1, <1>8 DEF IllegalOperation, MessageStep, Replied, Statuses, Present
<1>9. QED
    BY <1>3, <1>4, <1>5, <1>6, <1>7, <1>8 DEF emulated_tape_mailbox, TapeRead, TapeBusy

\* time_to_destination is a number of microseconds.
LEMMA DiskTime ==
    ASSUME TypeOK, NEW d \in Disks, NEW c \in CommandSet
    PROVE  DiskDelay(d, c) \in Nat
<1>1. \A m, n \in Nat : Distance(m, n) \in Nat
    BY DEF Distance
<1>2. /\ current_sector[d] \in Nat /\ current_cylinder[d] \in Nat
      /\ c.x \in Nat /\ c.y \in Nat
    BY DEF TypeOK, DiskTypeOK, CommandSet
<1>3. \A m, n \in Nat : m * n \in Nat
    OBVIOUS
<1>4. ASSUME NEW cyl \in Nat, NEW sect \in Nat
      PROVE  time_to_destination(d, cyl, sect) \in Nat
  <2> DEFINE a == Distance(current_sector[d], sect) * SectorTime
             e == Distance(current_cylinder[d], cyl) * SeekTime
  <2>1. a \in Nat /\ e \in Nat
    BY <1>1, <1>2, <1>3, <1>4, Geometry
  <2> HIDE DEF a, e
  <2>2. a + e \in Nat
    BY <2>1
  <2> QED
    BY <2>2 DEF time_to_destination, a, e
<1> QED
    BY <1>2, <1>4 DEF DiskDelay

\* The same for disks.
LEMMA DiskMessage ==
    ASSUME TypeOK, StatusOfInstalled, NEW d \in Disks, NEW b \in Buffers,
           NEW c \in CommandSet, emulated_disk_mailbox(d, b, c)
    PROVE  MessageStep(d, b) /\ DiskTypeOK'
<1>1. /\ d \in Devices /\ d \notin Printers /\ d \notin Tapes
      /\ status[d] \in Statuses /\ command[d] \in CommandSet
      /\ status[d] = "NOT_INSTALLED" <=> d \notin Installed
    BY ClassesDisjoint DEF Devices, TypeOK, IOTypeOK, CommandSet, StatusOfInstalled
<1>2. DiskTypeOK'
    BY DEF emulated_disk_mailbox, DiskReset, disk_vars, TypeOK, DiskTypeOK
<1> SUFFICES MessageStep(d, b)
    BY <1>2
<1>3. CASE Present(d) /\ DiskReset(d, b)
  <2>1. Plain("RESET") \in CommandSet
    BY PlainCommand DEF Operations
  <2> QED
    BY <1>1, <1>3, <2>1 DEF DiskReset, MessageStep, Replied, Statuses, Present
<1>4. CASE Present(d) /\ DiskAck(d, b)
  <2>1. Plain("ACK") \in CommandSet
    BY PlainCommand DEF Operations
  <2>2. CASE Busy(d)
    <3>1. regs \in [Buffers -> BlockSet]
      BY DEF TypeOK, IOTypeOK, BlockSet
    <3> QED
      BY <1>4, <2>2, <3>1 DEF DiskAck, MessageStep, Kept
  <2>3. CASE ~Busy(d)
    BY <1>1, <1>4, <2>1, <2>3 DEF DiskAck, MessageStep, Replied, Statuses, Present
  <2> QED
    BY <2>2, <2>3
<1>5. CASE Report(d, b)
    BY <1>1, <1>5 DEF Report, MessageStep, Replied, Busy
<1>6. CASE Present(d) /\ IllegalOperation(d, b)
    BY <1>1, <1>6 DEF IllegalOperation, MessageStep, Replied, Statuses, Present
<1>7. CASE /\ Present(d) /\ c.op \in {"SEEKCYL", "READBLK", "WRITEBLK"}
           /\ Accept(d, b, c, DiskDelay(d, c))
  <2>1. d \in Installed /\ c.op \in TimedOps(d)
    BY <1>1, <1>7 DEF Present, TimedOps
  <2>2. DiskDelay(d, c) \in Nat
    BY DiskTime
  <2> QED
    BY <1>7, <2>1, <2>2 DEF MessageStep, Accepted
<1>8. QED
    BY <1>3, <1>4, <1>5, <1>6, <1>7 DEF emulated_disk_mailbox, DiskMove

-----------------------------------------------------------------------------
(* What the end of a command does.                                         *)

\* printer_send returns a cursor.
LEMMA CursorTyped ==
    ASSUME NEW cur \in Cursors, NEW ch \in Chars
    PROVE  printer_send(cur, ch) \in Cursors
<1>1. cur.x \in Nat /\ cur.y \in Nat
    BY DEF Cursors
<1>2. NewLine(cur) \in Cursors
    BY <1>1 DEF NewLine, Cursors
<1> QED
    BY <1>1, <1>2 DEF printer_send, Cursors

\* The timer of a busy printer ends its command; any other changes nothing.
LEMMA PrinterExpiry ==
    ASSUME TypeOK, BusyTimed, NEW p \in Printers, manage_emulated_printer(p)
    PROVE  ExpiryStep(p) /\ PrinterTypeOK'
<1>1. Busy(p) => command[p].op = "PRINT_CHAR"
    BY DEF BusyTimed, Devices, TimedOps
<1>2. PrinterTypeOK'
  <2>1. CASE cursor' = [cursor EXCEPT ![p] = printer_send(@, data0[p])] /\ data0' = data0
    <3>1. printer_send(cursor[p], data0[p]) \in Cursors
      BY CursorTyped DEF TypeOK, PrinterTypeOK
    <3> QED
      BY <2>1, <3>1 DEF TypeOK, PrinterTypeOK
  <2>2. CASE UNCHANGED <<cursor, data0>>
      BY <2>2 DEF TypeOK, PrinterTypeOK
  <2> QED
      BY <2>1, <2>2 DEF manage_emulated_printer
<1>3. ExpiryStep(p)
    BY <1>1 DEF manage_emulated_printer, ExpiryStep, Statuses
<1> QED
    BY <1>2, <1>3

\* The same for tapes.
LEMMA TapeExpiry ==
    ASSUME TypeOK, BusyTimed, NEW t \in Tapes, manage_emulated_tape(t)
    PROVE  ExpiryStep(t) /\ TapeTypeOK'
<1>1. Busy(t) => command[t].op \in {"SKIPBLK", "BACKBLK", "READBLK"}
    BY ClassesDisjoint DEF BusyTimed, Devices, TimedOps
<1>2. block_index[t] \in Nat
    BY DEF TypeOK, TapeTypeOK
<1>3. CASE ~Busy(t)
    BY <1>3 DEF manage_emulated_tape, ExpiryStep, tape_vars, TypeOK, TapeTypeOK
<1>4. CASE Busy(t)
  <2>1. PICK st \in Statuses :
            /\ Complete(t, st)
            /\ SkipBlock(t, st) \/ BackBlock(t, st) \/ ReadBlock(t, st)
    BY <1>1, <1>4 DEF manage_emulated_tape
  <2>2. /\ TapeTypeOK'
        /\ st \in {"READY", "SKIP_ERROR", "BACK_BLOCK_ERROR", "READ_ERROR"}
    <3>1. CASE UNCHANGED tape_vars
               /\ st \in {"SKIP_ERROR", "BACK_BLOCK_ERROR"}
      BY <3>1 DEF tape_vars, TypeOK, TapeTypeOK
    <3>2. CASE \E i \in Nat, error \in {"SKIP_ERROR", "BACK_BLOCK_ERROR", "READ_ERROR"} :
                   update_tape_head(t, i, error, st)
      BY <3>2, TapeHead
    <3>3. /\ block_index[t] + 1 \in Nat
          /\ block_index[t] # 0 => block_index[t] - 1 \in Nat
      BY <1>2
    <3> QED
      BY <2>1, <3>1, <3>2, <3>3 DEF SkipBlock, BackBlock, ReadBlock
  <2> QED
    BY <1>4, <2>1, <2>2 DEF ExpiryStep
<1> QED
    BY <1>3, <1>4

\* The same for disks.
LEMMA DiskExpiry ==
    ASSUME TypeOK, BusyTimed, NEW d \in Disks, manage_emulated_disk(d)
    PROVE  ExpiryStep(d) /\ DiskTypeOK'
<1>1. Busy(d) => command[d].op \in {"SEEKCYL", "READBLK", "WRITEBLK"}
    BY ClassesDisjoint DEF BusyTimed, Devices, TimedOps
<1>2. command[d] \in CommandSet
    BY DEF TypeOK, IOTypeOK, CommandSet, Devices
<1>3. DiskTypeOK'
    BY <1>2 DEF manage_emulated_disk, disk_vars, TypeOK, DiskTypeOK, CommandSet
<1>4. ExpiryStep(d)
    BY <1>1 DEF manage_emulated_disk, ExpiryStep, Statuses
<1> QED
    BY <1>3, <1>4

-----------------------------------------------------------------------------
(* The steps that a message or an expiry may take preserve the invariant.  *)

\* The parts of the invariant that are about what the classes share.
SharedOK == /\ IOTypeOK /\ StatusOfInstalled /\ BusyTimed
            /\ LinesInstalled /\ TimersServed

\* The virtual timer is set for the earliest deadline, or for now.
LEMMA TimerSet ==
    ASSUME IOTypeOK, TimersServed, NEW d \in Devices, NEW delay \in Nat,
           set_device_timer(d, delay), now' = now
    PROVE  /\ deadline' \in [Devices -> Nat \cup {Off}]
           /\ virtual_timer' \in Nat \cup {Off}
           /\ deadline'[d] # Off
           /\ \A e \in Devices : deadline[e] # Off => deadline'[e] # Off
           /\ TimersServed'
<1>1. now \in Nat /\ now + delay \in Nat /\ deadline \in [Devices -> Nat \cup {Off}]
    BY DEF IOTypeOK
<1>2. deadline' = [deadline EXCEPT ![d] = now + delay]
    BY DEF set_device_timer
<1>3. deadline' \in [Devices -> Nat \cup {Off}]
    BY <1>1, <1>2
<1>4. /\ deadline'[d] # Off
      /\ \A e \in Devices : deadline[e] # Off => deadline'[e] # Off
    BY <1>1, <1>2, OffNotTime
<1>5. PICK e \in Devices :
          /\ Earliest(deadline', e)
          /\ virtual_timer' = IF now < deadline'[e] THEN deadline'[e] ELSE now
    BY DEF set_device_timer
<1>6. deadline'[e] \in Nat
    BY <1>3, <1>5 DEF Earliest, Armed
<1>7. virtual_timer' \in Nat /\ virtual_timer' # Off
    BY <1>1, <1>5, <1>6, OffNotTime
<1>8. TimersServed'
  <2> SUFFICES ASSUME NEW a \in Devices, deadline'[a] # Off
               PROVE  virtual_timer' <= now \/ virtual_timer' <= deadline'[a] + MaxRun
    BY <1>7 DEF TimersServed, Armed
  <2>1. deadline'[a] \in Nat /\ deadline'[e] <= deadline'[a]
    BY <1>3, <1>5 DEF Earliest, Armed
  <2> QED
    BY <1>1, <1>5, <1>6, <2>1, BoundsNat
<1> QED
    BY <1>3, <1>4, <1>7, <1>8

\* Changing only the clients' blocks preserves the shared parts.
LEMMA SharedKept ==
    ASSUME SharedOK, UNCHANGED <<registers, timers, lines, physical_timer, now>>,
           regs' \in [Buffers -> BlockSet]
    PROVE  SharedOK'
<1> USE DEF registers, timers
<1>1. IOTypeOK'
    BY DEF SharedOK, IOTypeOK, BlockSet
<1>2. StatusOfInstalled' /\ BusyTimed' /\ LinesInstalled'
    BY DEF SharedOK, StatusOfInstalled, BusyTimed, Busy, LinesInstalled
<1>3. TimersServed'
    BY DEF SharedOK, TimersServed, Armed
<1> QED
    BY <1>1, <1>2, <1>3 DEF SharedOK

\* A copy of the registers keeps the type of the clients' blocks.
LEMMA BlockCopied ==
    ASSUME IOTypeOK, NEW b \in Buffers, NEW st \in Statuses, Copy(b, st)
    PROVE  regs' \in [Buffers -> BlockSet]
BY DEF IOTypeOK, Copy, BlockSet

\* Whatever a message does preserves the shared parts.
LEMMA SharedMessage ==
    ASSUME SharedOK, NEW d \in Devices, NEW b \in Buffers, MessageStep(d, b),
           UNCHANGED <<physical_timer, now>>
    PROVE  SharedOK'
<1>1. CASE Kept
    BY <1>1, SharedKept DEF Kept
<1>2. CASE Replied(d, b)
  <2>1. PICK c \in CommandSet, st \in Statuses :
            /\ Answer(d, b, c, st)
            /\ st = "BUSY" => Busy(d) /\ c = command[d]
            /\ st = "NOT_INSTALLED" <=> d \notin Installed
            /\ lines' \in {lines, lines \ {d}, lines \cup ({d} \cap Installed)}
    BY <1>2 DEF Replied
  <2>2. /\ status' = [status EXCEPT ![d] = st]
        /\ command' = [command EXCEPT ![d] = c]
        /\ UNCHANGED <<mailbox_registers, deadline, virtual_timer>>
        /\ regs' \in [Buffers -> BlockSet]
    BY <2>1, BlockCopied DEF Answer, timers, SharedOK
  <2>3. IOTypeOK'
    BY <2>1, <2>2 DEF SharedOK, IOTypeOK, CommandSet, BlockSet
  <2>4. StatusOfInstalled' /\ BusyTimed'
    BY <2>1, <2>2 DEF SharedOK, IOTypeOK, StatusOfInstalled, BusyTimed, Busy
  <2>5. LinesInstalled'
    BY <2>1 DEF SharedOK, LinesInstalled, DeviceInstalled
  <2>6. TimersServed'
    BY <2>2 DEF SharedOK, TimersServed, Armed
  <2> QED
    BY <2>3, <2>4, <2>5, <2>6 DEF SharedOK
<1>3. CASE Accepted(d, b)
  <2>1. PICK c \in CommandSet, delay \in Nat :
            /\ Accept(d, b, c, delay)
            /\ c.op \in TimedOps(d)
            /\ d \in Installed
    BY <1>3 DEF Accepted
  <2>2. /\ status' = [status EXCEPT ![d] = "BUSY"]
        /\ command' = [command EXCEPT ![d] = c]
        /\ mailbox_registers' = [mailbox_registers EXCEPT ![d] = b]
        /\ lines' = lines
        /\ regs' \in [Buffers -> BlockSet]
    BY <2>1, BlockCopied DEF Accept, SharedOK, Statuses
  <2>3. /\ deadline' \in [Devices -> Nat \cup {Off}]
        /\ virtual_timer' \in Nat \cup {Off}
        /\ deadline'[d] # Off
        /\ \A e \in Devices : deadline[e] # Off => deadline'[e] # Off
        /\ TimersServed'
    BY <2>1, TimerSet DEF Accept, SharedOK
  <2>4. IOTypeOK'
    BY <2>1, <2>2, <2>3 DEF SharedOK, IOTypeOK, CommandSet, BlockSet, Statuses
  <2>5. StatusOfInstalled'
    BY <2>1, <2>2 DEF SharedOK, IOTypeOK, StatusOfInstalled
  <2>6. BusyTimed'
    BY <2>1, <2>2, <2>3, NULLNotBuffer DEF SharedOK, IOTypeOK, BusyTimed, Busy
  <2>7. LinesInstalled'
    BY <2>2 DEF SharedOK, LinesInstalled
  <2> QED
    BY <2>3, <2>4, <2>5, <2>6, <2>7 DEF SharedOK
<1> QED
    BY <1>1, <1>2, <1>3 DEF MessageStep

\* So does whatever the expiry of a timer does.
LEMMA SharedExpiry ==
    ASSUME SharedOK, NEW d \in Devices, ExpiryStep(d),
           deadline' = [deadline EXCEPT ![d] = Off],
           UNCHANGED <<virtual_timer, physical_timer, now>>
    PROVE  SharedOK'
<1>1. CASE ~Busy(d) /\ UNCHANGED <<registers, regs, lines>>
  <2> USE DEF registers
  <2>1. IOTypeOK'
    BY <1>1 DEF SharedOK, IOTypeOK
  <2>2. StatusOfInstalled' /\ LinesInstalled'
    BY <1>1 DEF SharedOK, StatusOfInstalled, LinesInstalled
  <2>3. BusyTimed'
    BY <1>1 DEF SharedOK, IOTypeOK, BusyTimed, Busy
  <2>4. TimersServed'
    BY DEF SharedOK, IOTypeOK, TimersServed, Armed
  <2> QED
    BY <2>1, <2>2, <2>3, <2>4 DEF SharedOK
<1>2. ASSUME NEW st \in Statuses \ {"BUSY", "NOT_INSTALLED"}, Busy(d), Complete(d, st)
      PROVE  SharedOK'
  <2>1. d \in Installed
    BY <1>2 DEF SharedOK, StatusOfInstalled, Busy
  <2>2. regs' \in [Buffers -> BlockSet]
    BY <1>2 DEF Complete, SharedOK, IOTypeOK, BlockSet
  <2>3. IOTypeOK'
    BY <1>2, <2>2 DEF Complete, SharedOK, IOTypeOK, BlockSet
  <2>4. StatusOfInstalled'
    BY <1>2, <2>1 DEF Complete, SharedOK, IOTypeOK, StatusOfInstalled
  <2>5. BusyTimed'
    BY <1>2 DEF Complete, SharedOK, IOTypeOK, BusyTimed, Busy
  <2>6. LinesInstalled'
    BY <1>2, <2>1 DEF Complete, SharedOK, LinesInstalled, DeviceInstalled
  <2>7. TimersServed'
    BY DEF SharedOK, IOTypeOK, TimersServed, Armed
  <2> QED
    BY <2>3, <2>4, <2>5, <2>6, <2>7 DEF SharedOK
<1> QED
    BY <1>1, <1>2 DEF ExpiryStep

-----------------------------------------------------------------------------
(* The inductive invariant, action by action.                              *)

MailSet == [buf : Buffers, dev : Devices, cmd : CommandSet, char : Chars]

\* The parts of the invariant that are about the handler's own variables.
LocalOK ==
    /\ mailbox \in MailSet \cup {NoMail}
    /\ fiq \in {"idle", "mailbox", "timer", "loop", "clean"}
    /\ fiq = "mailbox" => mailbox # NoMail
    /\ source \in [mailbox : BOOLEAN, timer : BOOLEAN]
    /\ currentTime \in Nat
    /\ ClockRead

ClassesOK == PrinterTypeOK /\ TapeTypeOK /\ DiskTypeOK

\* The inductive invariant, by what its parts are about.
LEMMA InvariantParts == IInv <=> SharedOK /\ LocalOK /\ ClassesOK
BY DEF IInv, TypeOK, SharedOK, LocalOK, ClassesOK, MailSet, CommandSet

\* The same for the state after a step.
LEMMA InvariantPartsNext == SharedOK' /\ LocalOK' /\ ClassesOK' => IInv'
BY DEF IInv, TypeOK, SharedOK, LocalOK, ClassesOK, MailSet, CommandSet

\* The state that initSystem leaves satisfies the invariant.
LEMMA InitInvariant == Init => IInv
<1> SUFFICES ASSUME Init PROVE IInv
    OBVIOUS
<1>1. Plain("RESET") \in CommandSet
    BY PlainCommand DEF Operations
<1>2. IOTypeOK
    BY <1>1 DEF Init, IOInit, IOTypeOK, CommandSet, Statuses
<1>3. StatusOfInstalled /\ BusyTimed
    BY DEF Init, IOInit, StatusOfInstalled, BusyTimed, Busy
<1>4. LinesInstalled /\ TimersServed
    BY DEF Init, IOInit, LinesInstalled, TimersServed, Armed
<1>5. ClassesOK
    BY DEF Init, PrinterInit, TapeInit, DiskInit, ClassesOK, PrinterTypeOK, TapeTypeOK,
           DiskTypeOK, Chars, Cursors, Marks
<1>6. LocalOK
    BY DEF Init, LocalOK, NoSource, ClockRead
<1> QED
    BY <1>2, <1>3, <1>4, <1>5, <1>6, InvariantParts DEF SharedOK

\* Clients post commands and characters of the right types.
LEMMA CommandTyped ==
    ASSUME NEW d \in Devices, NEW c \in CommandsOf(d), NEW ch \in CharsOf(c)
    PROVE  c \in CommandSet /\ ch \in Chars
<1>1. /\ Plain("RESET") \in CommandSet /\ Plain("ACK") \in CommandSet
      /\ Plain("READ_REGISTERS") \in CommandSet /\ Plain("PRINT_CHAR") \in CommandSet
      /\ Plain("SKIPBLK") \in CommandSet /\ Plain("BACKBLK") \in CommandSet
      /\ Plain("READBLK") \in CommandSet /\ Plain("OTHER") \in CommandSet
    BY PlainCommand DEF Operations
<1>2. c \in CommandSet
    BY <1>1, ClientsTyped DEF CommandsOf, PrinterCommands, TapeCommands, CommandSet
<1>3. ch \in Chars
    BY ClientsTyped DEF CharsOf, Chars
<1> QED
    BY <1>2, <1>3

\* A post preserves the invariant, whatever is posted,
LEMMA PostStep ==
    ASSUME IInv, NEW b \in Buffers, NEW d \in Devices, NEW c \in CommandSet, NEW ch \in Chars,
           Post(b, d, c, ch)
    PROVE  IInv'
<1>1. SharedOK'
  <2>1. regs' \in [Buffers -> BlockSet]
    BY SMTT(30) DEF IInv, TypeOK, IOTypeOK, Post, BlockSet
  <2> QED
    BY <2>1, SharedKept, InvariantParts DEF Post
<1>2. LocalOK'
    BY InvariantParts DEF Post, LocalOK, MailSet, ClockRead
<1>3. ClassesOK'
    BY InvariantParts DEF Post, printer_vars, tape_vars, disk_vars, ClassesOK,
                          PrinterTypeOK, TapeTypeOK, DiskTypeOK
<1> QED
    BY <1>1, <1>2, <1>3, InvariantPartsNext

\* and so does what clients post.
LEMMA ClientStep == IInv /\ Client => IInv'
<1> SUFFICES ASSUME IInv, NEW b \in Buffers, NEW d \in Devices, NEW c \in CommandsOf(d),
                    NEW ch \in CharsOf(c), Post(b, d, c, ch)
             PROVE  IInv'
    BY DEF Client
<1> QED
    BY CommandTyped, PostStep

\* A step that leaves the devices alone.
LEMMA DevicesKept ==
    ASSUME IInv, UNCHANGED <<device_vars, physical_timer, now>>
    PROVE  SharedOK' /\ ClassesOK'
<1>1. regs \in [Buffers -> BlockSet]
    BY DEF IInv, TypeOK, IOTypeOK, BlockSet
<1>2. SharedOK'
    BY <1>1, SharedKept, InvariantParts DEF device_vars
<1>3. ClassesOK'
    BY InvariantParts DEF device_vars, printer_vars, tape_vars, disk_vars, ClassesOK,
                          PrinterTypeOK, TapeTypeOK, DiskTypeOK
<1> QED
    BY <1>2, <1>3

\* Entering the handler preserves it.
LEMMA FiqEnterStep == IInv /\ FiqEnter => IInv'
<1> SUFFICES ASSUME IInv, FiqEnter PROVE IInv'
    OBVIOUS
<1>1. SharedOK' /\ ClassesOK'
    BY DevicesKept DEF FiqEnter
<1>2. source' \in [mailbox : BOOLEAN, timer : BOOLEAN]
    BY DEF FiqEnter, Fired
<1>3. fiq' \in {"mailbox", "timer"} /\ (fiq' = "mailbox" => mailbox' # NoMail)
    BY DEF FiqEnter
<1>4. LocalOK'
    BY <1>2, <1>3, InvariantParts DEF FiqEnter, LocalOK, ClockRead
<1> QED
    BY <1>1, <1>4, InvariantPartsNext

\* The mailbox half preserves it.
LEMMA FiqMailboxStep == IInv /\ FiqMailbox => IInv'
<1> SUFFICES ASSUME IInv, FiqMailbox PROVE IInv'
    OBVIOUS
<1>1. PICK d \in Devices, b \in Buffers, c \in CommandSet, ch \in Chars :
          mailbox = [buf |-> b, dev |-> d, cmd |-> c, char |-> ch]
    BY InvariantParts DEF LocalOK, FiqMailbox, MailSet
<1>2. TypeOK /\ StatusOfInstalled /\ SharedOK /\ ClassesOK /\ UNCHANGED <<physical_timer, now>>
    BY InvariantParts DEF IInv, FiqMailbox
<1>3. MessageStep(d, b) /\ ClassesOK'
  <2> USE DEF printer_vars, tape_vars, disk_vars, ClassesOK
  <2>1. ASSUME d \in Printers, emulated_printer_mailbox(d, b, c, ch),
               UNCHANGED <<tape_vars, disk_vars>>
        PROVE  MessageStep(d, b) /\ ClassesOK'
    BY <1>2, <2>1, PrinterMessage DEF TapeTypeOK, DiskTypeOK
  <2>2. ASSUME d \in Tapes, emulated_tape_mailbox(d, b, c),
               UNCHANGED <<printer_vars, disk_vars>>
        PROVE  MessageStep(d, b) /\ ClassesOK'
    BY <1>2, <2>2, TapeMessage DEF PrinterTypeOK, DiskTypeOK
  <2>3. ASSUME d \in Disks, emulated_disk_mailbox(d, b, c),
               UNCHANGED <<printer_vars, tape_vars>>
        PROVE  MessageStep(d, b) /\ ClassesOK'
    BY <1>2, <2>3, DiskMessage DEF PrinterTypeOK, TapeTypeOK
  <2> HIDE DEF printer_vars, tape_vars, disk_vars, ClassesOK
  <2> QED
    BY <1>1, <2>1, <2>2, <2>3 DEF FiqMailbox
<1>4. SharedOK'
    BY <1>2, <1>3, SharedMessage
<1>5. LocalOK'
    BY InvariantParts DEF FiqMailbox, LocalOK, ClockRead
<1> QED
    BY <1>3, <1>4, <1>5, InvariantPartsNext

\* Reading the clock preserves it.
LEMMA FiqTimerStep == IInv /\ FiqTimer => IInv'
<1> SUFFICES ASSUME IInv, FiqTimer PROVE IInv'
    OBVIOUS
<1>1. SharedOK' /\ ClassesOK'
    BY DevicesKept DEF FiqTimer
<1>2. now \in Nat
    BY DEF IInv, TypeOK, IOTypeOK
<1>3. LocalOK'
    BY <1>2, BoundsNat, InvariantParts DEF FiqTimer, LocalOK, ClockRead
<1> QED
    BY <1>1, <1>3, InvariantPartsNext

\* Taking an expired timer and managing its device preserves it.
LEMMA FiqPopStep == ASSUME IInv, NEW d \in Devices, FiqPop(d) PROVE IInv'
<1>1. TypeOK /\ BusyTimed /\ SharedOK /\ ClassesOK
    BY InvariantParts DEF IInv
<1>2. ExpiryStep(d) /\ ClassesOK'
  <2> USE DEF printer_vars, tape_vars, disk_vars, ClassesOK
  <2>1. ASSUME d \in Printers, manage_emulated_printer(d), UNCHANGED <<tape_vars, disk_vars>>
        PROVE  ExpiryStep(d) /\ ClassesOK'
    BY <1>1, <2>1, PrinterExpiry DEF TapeTypeOK, DiskTypeOK
  <2>2. ASSUME d \in Tapes, manage_emulated_tape(d), UNCHANGED <<printer_vars, disk_vars>>
        PROVE  ExpiryStep(d) /\ ClassesOK'
    BY <1>1, <2>2, TapeExpiry DEF PrinterTypeOK, DiskTypeOK
  <2>3. ASSUME d \in Disks, manage_emulated_disk(d), UNCHANGED <<printer_vars, tape_vars>>
        PROVE  ExpiryStep(d) /\ ClassesOK'
    BY <1>1, <2>3, DiskExpiry DEF PrinterTypeOK, TapeTypeOK
  <2> HIDE DEF printer_vars, tape_vars, disk_vars, ClassesOK
  <2> QED
    BY <2>1, <2>2, <2>3 DEF FiqPop
<1>3. SharedOK'
    BY <1>1, <1>2, SharedExpiry DEF FiqPop
<1>4. LocalOK'
    BY InvariantParts DEF FiqPop, fiq_vars, LocalOK, ClockRead
<1> QED
    BY <1>2, <1>3, <1>4, InvariantPartsNext

\* Rearming preserves it: the next deadline is not before currentTime, and
\* the clock is at most MaxRun beyond it.
LEMMA FiqRearmStep == IInv /\ FiqRearm => IInv'
<1> SUFFICES ASSUME IInv, FiqRearm PROVE IInv'
    OBVIOUS
<1>1. /\ IOTypeOK /\ SharedOK /\ LocalOK /\ ClassesOK /\ ClockRead /\ fiq = "loop"
      /\ now \in Nat /\ currentTime \in Nat /\ MaxRun \in Nat
      /\ deadline \in [Devices -> Nat \cup {Off}]
    BY InvariantParts, BoundsNat DEF IInv, TypeOK, IOTypeOK, FiqRearm
<1>2. UNCHANGED <<registers, regs, lines, deadline, printer_vars, tape_vars, disk_vars, now,
                  mailbox, source, currentTime>>
    BY DEF FiqRearm
<1>3. physical_timer' \in [Cores -> Nat \cup {Off}]
    BY <1>1 DEF FiqRearm, IOTypeOK
<1>4. virtual_timer' \in Nat \cup {Off} /\ TimersServed'
  <2>1. CASE Armed(deadline) = {} /\ virtual_timer' = Off
    BY <1>2, <2>1 DEF TimersServed
  <2>2. ASSUME NEW d \in Devices, Earliest(deadline, d),
               virtual_timer' = now + (deadline[d] - currentTime)
        PROVE  virtual_timer' \in Nat \cup {Off} /\ TimersServed'
    <3>1. deadline[d] \in Nat /\ deadline[d] >= currentTime
      BY <1>1, <2>2 DEF FiqRearm, Expired, Earliest, Armed
    <3>2. virtual_timer' \in Nat /\ virtual_timer' <= deadline[d] + MaxRun
      BY <1>1, <2>2, <3>1 DEF ClockRead
    <3>3. \A a \in Armed(deadline) : deadline[a] \in Nat /\ deadline[d] <= deadline[a]
      BY <1>1, <2>2 DEF Earliest, Armed
    <3>4. \A a \in Armed(deadline) : virtual_timer' <= deadline[a] + MaxRun
      BY <1>1, <3>1, <3>2, <3>3
    <3> QED
      BY <1>2, <3>2, <3>4, OffNotTime DEF TimersServed
  <2> QED
    BY <2>1, <2>2 DEF FiqRearm
<1>5. SharedOK'
  <2>1. IOTypeOK'
    BY <1>1, <1>2, <1>3, <1>4 DEF registers, IOTypeOK
  <2>2. StatusOfInstalled' /\ BusyTimed' /\ LinesInstalled'
    BY <1>1, <1>2 DEF registers, SharedOK, StatusOfInstalled, BusyTimed, Busy, LinesInstalled
  <2> QED
    BY <1>4, <2>1, <2>2 DEF SharedOK
<1>6. LocalOK'
    BY <1>1, <1>2 DEF FiqRearm, LocalOK, ClockRead
<1>7. ClassesOK'
    BY <1>1, <1>2 DEF printer_vars, tape_vars, disk_vars, ClassesOK, PrinterTypeOK,
                      TapeTypeOK, DiskTypeOK
<1> QED
    BY <1>5, <1>6, <1>7, InvariantPartsNext

\* Cleaning the lines drops none of them.
LEMMA CleanDropsNothing == ASSUME LinesInstalled, FiqClean PROVE lines' = lines
BY DEF LinesInstalled, FiqClean

\* Cleaning the lines preserves it.
LEMMA FiqCleanStep == IInv /\ FiqClean => IInv'
<1> SUFFICES ASSUME IInv, FiqClean PROVE IInv'
    OBVIOUS
<1>1. lines' = lines
    BY CleanDropsNothing DEF IInv
<1>2. SharedOK' /\ ClassesOK'
    BY <1>1, DevicesKept DEF FiqClean, device_vars
<1>3. LocalOK'
    BY InvariantParts DEF FiqClean, LocalOK, ClockRead, NoSource
<1> QED
    BY <1>2, <1>3, InvariantPartsNext

\* The passing of time preserves it.
LEMMA TickStep == IInv /\ Tick => IInv'
<1> SUFFICES ASSUME IInv, Tick PROVE IInv'
    OBVIOUS
<1>1. /\ SharedOK /\ LocalOK /\ ClassesOK
      /\ now \in Nat /\ now' = now + 1 /\ MaxRun \in Nat /\ currentTime \in Nat
      /\ UNCHANGED <<device_vars, physical_timer, fiq_vars>>
    BY InvariantParts, BoundsNat DEF Tick, IInv, TypeOK, IOTypeOK
<1>2. IOTypeOK'
    BY <1>1 DEF device_vars, registers, timers, SharedOK, IOTypeOK
<1>3. StatusOfInstalled' /\ BusyTimed' /\ LinesInstalled'
    BY <1>1 DEF device_vars, registers, timers, SharedOK, StatusOfInstalled, BusyTimed, Busy,
                LinesInstalled
<1>4. TimersServed'
  <2>1. virtual_timer \in Nat \cup {Off} /\ deadline \in [Devices -> Nat \cup {Off}]
    BY <1>1 DEF SharedOK, IOTypeOK
  <2>2. virtual_timer' = virtual_timer /\ deadline' = deadline
    BY <1>1 DEF device_vars, timers
  <2> QED
    BY <1>1, <2>1, <2>2 DEF SharedOK, TimersServed, Armed
<1>5. LocalOK'
    BY <1>1 DEF Tick, fiq_vars, LocalOK, ClockRead
<1>6. ClassesOK'
    BY <1>1 DEF device_vars, printer_vars, tape_vars, disk_vars, ClassesOK, PrinterTypeOK,
                TapeTypeOK, DiskTypeOK
<1> QED
    BY <1>2, <1>3, <1>4, <1>5, <1>6, InvariantPartsNext DEF SharedOK

\* So does a step that changes nothing.
LEMMA StutterStep == IInv /\ UNCHANGED vars => IInv'
<1> SUFFICES ASSUME IInv, UNCHANGED vars PROVE IInv'
    OBVIOUS
<1>1. SharedOK' /\ ClassesOK'
    BY DevicesKept DEF vars
<1>2. LocalOK'
    BY InvariantParts DEF vars, fiq_vars, LocalOK, ClockRead
<1> QED
    BY <1>1, <1>2, InvariantPartsNext

\* The inductive invariant of the FIQ handler and the devices it runs.
THEOREM FiqInvariant == Spec => []IInv
<1>1. IInv /\ [Next]_vars => IInv'
    BY ClientStep, FiqEnterStep, FiqMailboxStep, FiqTimerStep, FiqPopStep, FiqRearmStep,
       FiqCleanStep, TickStep, StutterStep DEF Next, Fiq
<1> QED
    BY InitInvariant, <1>1, PTL DEF Spec

\* Type correctness of the registers, the devices and the handler.
THEOREM FiqTypeCorrect == Spec => []TypeOK
<1>1. IInv => TypeOK
    BY DEF IInv
<1> QED
    BY FiqInvariant, <1>1, PTL

\* No device is ever left BUSY without a timer that will end it or a block to
\* complete into.
THEOREM BusyDevicesArmed == Spec => []BusyArmed
<1>1. IInv => BusyArmed
    BY DEF IInv, BusyTimed, BusyArmed
<1> QED
    BY FiqInvariant, <1>1, PTL

\* The one virtual timer never forgets a device's deadline.
THEOREM DeadlinesServed == Spec => []TimersServed
<1>1. IInv => TimersServed
    BY DEF IInv
<1> QED
    BY FiqInvariant, <1>1, PTL

\* Only installed devices interrupt.
THEOREM OnlyInstalledInterrupt == Spec => []LinesInstalled
<1>1. IInv => LinesInstalled
    BY DEF IInv
<1> QED
    BY FiqInvariant, <1>1, PTL

-----------------------------------------------------------------------------
(* The printers' cursors.                                                  *)

InWindow(cur) == cur.x < Columns /\ cur.y < Rows

\* printer_send keeps a cursor in its window.
LEMMA SendInWindow ==
    ASSUME NEW cur \in Cursors, NEW ch \in Chars, InWindow(cur)
    PROVE  InWindow(printer_send(cur, ch))
<1>1. cur = [x |-> cur.x, y |-> cur.y] /\ cur.x \in Nat /\ cur.y \in Nat
    BY DEF Cursors
<1>2. NewLine(cur) \in Cursors /\ InWindow(NewLine(cur)) /\ NewLine(cur).x = 0
    BY <1>1, WindowNat DEF NewLine, AtBottom, InWindow, Cursors
<1>3. ~Wraps(cur, ch) /\ ch # "CR" => cur.x + 1 < Columns
    BY <1>1, WindowNat DEF Wraps, AtMargin
<1> QED
    BY <1>1, <1>2, <1>3, WindowNat DEF printer_send, DrawnAfterWrap, InWindow, Cursors

\* No step moves a cursor out of its window.
LEMMA CursorStep ==
    ASSUME IInv, CursorInWindow, [Next]_vars
    PROVE  CursorInWindow'
<1>1. CASE UNCHANGED cursor
    BY <1>1 DEF CursorInWindow
<1>2. ASSUME NEW p \in Printers, manage_emulated_printer(p)
      PROVE  CursorInWindow'
  <2>1. CASE cursor' = [cursor EXCEPT ![p] = printer_send(@, data0[p])]
    <3>1. /\ cursor \in [Printers -> Cursors]
          /\ data0[p] \in Chars
          /\ \A q \in Printers : InWindow(cursor[q])
      BY DEF IInv, TypeOK, PrinterTypeOK, CursorInWindow, InWindow
    <3>2. InWindow(printer_send(cursor[p], data0[p]))
      BY <3>1, SendInWindow
    <3>3. \A q \in Printers : InWindow(cursor'[q])
      BY <2>1, <3>1, <3>2
    <3> QED
      BY <3>3 DEF CursorInWindow, InWindow
  <2> QED
    BY <1>1, <1>2, <2>1 DEF manage_emulated_printer
<1>3. ASSUME NEW d \in Devices, FiqPop(d) PROVE CursorInWindow'
    BY <1>1, <1>2, <1>3 DEF FiqPop, printer_vars
<1>4. CASE Client \/ FiqEnter \/ FiqTimer \/ FiqRearm \/ FiqClean \/ Tick \/ UNCHANGED vars
    BY <1>1, <1>4 DEF Client, Post, FiqEnter, FiqTimer, FiqRearm, FiqClean, Tick, vars,
                      device_vars, printer_vars
<1>5. CASE FiqMailbox
    BY <1>1, <1>5 DEF FiqMailbox, emulated_printer_mailbox, printer_vars
<1> QED
    BY <1>3, <1>4, <1>5 DEF Next, Fiq

\* In windows of any size, no sequence of characters moves a cursor out of
\* its window.
THEOREM CursorsStayInWindow == Spec => []CursorInWindow
<1>1. Init => CursorInWindow
    BY WindowNat DEF Init, PrinterInit, CursorInWindow
<1>2. IInv /\ CursorInWindow /\ [Next]_vars => CursorInWindow'
    BY CursorStep
<1> QED
    BY FiqInvariant, <1>1, <1>2, PTL DEF Spec

-----------------------------------------------------------------------------
(* What a step does to the commands of the devices it is not about.        *)

\* A message changes the command of no other device, and makes its own busy
\* only by accepting a command.
LEMMA MessageElsewhere ==
    ASSUME TypeOK, NEW d \in Devices, NEW b \in Buffers, MessageStep(d, b)
    PROVE  /\ \A e \in Devices \ {d} : status'[e] = status[e] /\ command'[e] = command[e]
           /\ status'[d] = "BUSY" => \/ Busy(d) /\ command'[d] = command[d]
                                    \/ Accepted(d, b)
<1>1. status \in [Devices -> Statuses] /\ command \in [Devices -> CommandSet]
    BY DEF TypeOK, IOTypeOK, CommandSet
<1>2. CASE Kept
    BY <1>1, <1>2 DEF Kept, registers, Busy
<1>3. CASE Replied(d, b)
    BY <1>1, <1>3 DEF Replied, Answer
<1>4. CASE Accepted(d, b)
    BY <1>1, <1>4 DEF Accepted, Accept
<1> QED
    BY <1>2, <1>3, <1>4 DEF MessageStep

\* An expiry changes the command of no other device, and leaves its own not
\* busy.
LEMMA ExpiryElsewhere ==
    ASSUME TypeOK, NEW d \in Devices, ExpiryStep(d)
    PROVE  /\ \A e \in Devices \ {d} : status'[e] = status[e] /\ command'[e] = command[e]
           /\ status'[d] # "BUSY"
BY DEF TypeOK, IOTypeOK, ExpiryStep, Complete, registers, Busy

-----------------------------------------------------------------------------
(* The heads of the tapes.                                                 *)

\* The head of t is on the tape and shows the marker before it.
HeadOK(t) == /\ block_index[t] <= Len(Markers[t])
             /\ data1[t] = IF block_index[t] = 0 THEN "TS" ELSE Markers[t][block_index[t]]

\* A READBLK in progress was accepted away from the end of the tape, and the
\* head has not moved since.
ReadsOnTape(t) == Busy(t) /\ command[t].op = "READBLK" => data1[t] # "EOT"

\* Unless the card failed when the marker was to be read.
HeadKnown(t) == misread[t] \/ HeadOK(t)

HeadInv == \A t \in Tapes \cap Installed : HeadKnown(t) /\ ReadsOnTape(t)

\* Moving a head to a place on the tape shows the marker there, unless the card
\* fails; past the end of the tape there is none to be read.
LEMMA HeadMoved ==
    ASSUME TypeOK, NEW t \in Tapes, NEW i \in Nat, misread[t] \/ i <= Len(Markers[t]),
           NEW error, NEW st, update_tape_head(t, i, error, st)
    PROVE  /\ HeadKnown(t)'
           /\ \A u \in Tapes \ {t} : /\ block_index'[u] = block_index[u]
                                    /\ data1'[u] = data1[u] /\ misread'[u] = misread[u]
<1>1. PICK failed, head :
          /\ failed \in BOOLEAN /\ head \in MarkersRead(t, i, failed)
          /\ block_index' = [block_index EXCEPT ![t] = i]
          /\ data1' = IF head = "garbage" THEN data1 ELSE [data1 EXCEPT ![t] = head]
          /\ misread' = [misread EXCEPT ![t] = IF i \in DOMAIN Markers[t] THEN failed
                                               ELSE misread[t] /\ i # 0]
    BY TapeFiles DEF update_tape_head, TypeOK, TapeTypeOK
<1>2. /\ Markers[t] \in Seq(Marks)
      /\ i \in DOMAIN Markers[t] <=> i # 0 /\ i <= Len(Markers[t])
      /\ block_index \in [Tapes -> Nat] /\ data1 \in [Tapes -> Marks \cup {"TS"}]
      /\ misread \in [Tapes -> BOOLEAN]
    BY TapeFiles DEF TypeOK, TapeTypeOK
<1>3. SUFFICES ASSUME ~misread'[t] PROVE HeadOK(t)'
    BY <1>1, <1>2 DEF HeadKnown
<1>4. /\ i <= Len(Markers[t])
      /\ head = IF i = 0 THEN "TS" ELSE Markers[t][i]
    BY <1>1, <1>2, <1>3 DEF MarkersRead
<1>5. head # "garbage"
    BY <1>2, <1>4 DEF Marks
<1>6. block_index'[t] = i /\ data1'[t] = head
    BY <1>1, <1>2, <1>5
<1> QED
    BY <1>4, <1>6 DEF HeadOK

\* A head that does not show the end of the tape has a block in front of it.
LEMMA BlockAhead ==
    ASSUME TypeOK, NEW t \in Tapes, HeadOK(t), data1[t] # "EOT"
    PROVE  block_index[t] + 1 \in 0..Len(Markers[t])
<1>1. /\ Markers[t] \in Seq(Marks) /\ Markers[t] # <<>>
      /\ \A i \in DOMAIN Markers[t] : Markers[t][i] = "EOT" <=> i = Len(Markers[t])
      /\ block_index[t] \in Nat
    BY TapeFiles DEF TypeOK, TapeTypeOK
<1>2. Len(Markers[t]) \in Nat \ {0}
    BY <1>1
<1>3. block_index[t] # Len(Markers[t])
    BY <1>1, <1>2 DEF HeadOK
<1> QED
    BY <1>1, <1>2, <1>3 DEF HeadOK

\* The mailbox half keeps the heads on their tapes.
LEMMA HeadMailbox ==
    ASSUME IInv, HeadInv, FiqMailbox PROVE HeadInv'
<1>1. PICK d \in Devices, b \in Buffers, c \in CommandSet, ch \in Chars :
          mailbox = [buf |-> b, dev |-> d, cmd |-> c, char |-> ch]
    BY InvariantParts DEF LocalOK, FiqMailbox, MailSet
<1>2. TypeOK /\ StatusOfInstalled
    BY DEF IInv
<1>3. SUFFICES ASSUME NEW t \in Tapes \cap Installed PROVE HeadKnown(t)' /\ ReadsOnTape(t)'
    BY DEF HeadInv
<1>4. t \in Devices /\ HeadKnown(t) /\ ReadsOnTape(t)
    BY <1>3 DEF HeadInv, Devices
<1>5. ASSUME UNCHANGED tape_vars PROVE HeadKnown(t)'
    BY <1>4, <1>5 DEF HeadKnown, HeadOK, tape_vars
<1>6. ASSUME UNCHANGED tape_vars, status'[t] = status[t], command'[t] = command[t]
      PROVE  HeadKnown(t)' /\ ReadsOnTape(t)'
    BY <1>4, <1>5, <1>6 DEF ReadsOnTape, Busy, tape_vars
<1>7. ASSUME d \in Printers, emulated_printer_mailbox(d, b, c, ch),
             UNCHANGED <<tape_vars, disk_vars>>
      PROVE  HeadKnown(t)' /\ ReadsOnTape(t)'
  <2>1. MessageStep(d, b) /\ t # d
    BY <1>2, <1>7, PrinterMessage, ClassesDisjoint
  <2> QED
    BY <1>2, <1>4, <1>6, <1>7, <2>1, MessageElsewhere
<1>8. ASSUME d \in Disks, emulated_disk_mailbox(d, b, c), UNCHANGED <<printer_vars, tape_vars>>
      PROVE  HeadKnown(t)' /\ ReadsOnTape(t)'
  <2>1. MessageStep(d, b) /\ t # d
    BY <1>2, <1>8, DiskMessage, ClassesDisjoint
  <2> QED
    BY <1>2, <1>4, <1>6, <1>8, <2>1, MessageElsewhere
<1>9. ASSUME d \in Tapes, emulated_tape_mailbox(d, b, c)
      PROVE  HeadKnown(t)' /\ ReadsOnTape(t)'
  <2>1. \A e \in Devices \ {d} : status'[e] = status[e] /\ command'[e] = command[e]
    BY <1>2, <1>9, TapeMessage, MessageElsewhere
  <2>2. d \in Devices /\ status \in [Devices -> Statuses] /\ command \in [Devices -> CommandSet]
    BY <1>2 DEF TypeOK, IOTypeOK, CommandSet
  <2>3. CASE TapeReset(d, b)
    <3>1. 0 \in Nat /\ 0 <= Len(Markers[d])
      BY <1>9, TapeFiles
    <3>2. /\ HeadKnown(d)'
          /\ \A u \in Tapes \ {d} : block_index'[u] = block_index[u] /\ data1'[u] = data1[u]
              /\ misread'[u] = misread[u]
      BY <1>2, <1>9, <2>3, <3>1, HeadMoved DEF TapeReset
    <3>3. status'[d] = "READY"
      BY <2>2, <2>3 DEF TapeReset, Answer
    <3> QED
      BY <1>3, <1>4, <2>1, <3>2, <3>3 DEF HeadKnown, HeadOK, ReadsOnTape, Busy
  <2>4. CASE UNCHANGED tape_vars /\ t # d
    BY <1>4, <1>6, <2>1, <2>4
  <2>5. ASSUME UNCHANGED tape_vars, t = d,
               status'[d] = "BUSY" /\ command'[d].op = "READBLK" => data1[d] # "EOT"
        PROVE  HeadKnown(t)' /\ ReadsOnTape(t)'
    BY <1>4, <1>5, <2>5 DEF ReadsOnTape, Busy, tape_vars
  <2>6. ASSUME NEW op \in {"SKIPBLK", "BACKBLK"}, TapeAccept(d, b, op)
        PROVE  command'[d].op # "READBLK"
    BY <2>2, <2>6 DEF TapeAccept, Accept, Plain, Command
  <2>7. ASSUME TapeAck(d, b) \/ TapeReadAtEnd(d, b) \/ IllegalOperation(d, b)
        PROVE  status'[d] # "BUSY"
    BY <2>2, <2>7 DEF TapeAck, TapeReadAtEnd, IllegalOperation, Answer
  <2>8. ASSUME Report(d, b), t = d
        PROVE  status'[d] = "BUSY" /\ command'[d].op = "READBLK" => data1[d] # "EOT"
    BY <1>4, <2>2, <2>8 DEF Report, Answer, ReadsOnTape, Busy
  <2>9. ASSUME ~TapeReset(d, b)
        PROVE  /\ UNCHANGED tape_vars
               /\ \/ TapeAck(d, b) \/ TapeReadAtEnd(d, b) \/ IllegalOperation(d, b) \/ Report(d, b)
                  \/ data1[d] # "EOT"
                  \/ \E op \in {"SKIPBLK", "BACKBLK"} : TapeAccept(d, b, op)
    BY <1>9, <2>9 DEF emulated_tape_mailbox, TapeRead, TapeBusy
  <2> QED
    BY <2>3, <2>4, <2>5, <2>6, <2>7, <2>8, <2>9
<1> QED
    BY <1>1, <1>7, <1>8, <1>9 DEF FiqMailbox

\* So do the ends of SKIPBLK, BACKBLK and READBLK.
LEMMA HeadPop ==
    ASSUME IInv, HeadInv, NEW d \in Devices, FiqPop(d) PROVE HeadInv'
<1>1. TypeOK /\ BusyTimed
    BY DEF IInv
<1>2. SUFFICES ASSUME NEW t \in Tapes \cap Installed PROVE HeadKnown(t)' /\ ReadsOnTape(t)'
    BY DEF HeadInv
<1>3. t \in Devices /\ HeadKnown(t) /\ ReadsOnTape(t)
    BY <1>2 DEF HeadInv, Devices
<1>4. ASSUME UNCHANGED tape_vars,
             \/ status'[t] = status[t] /\ command'[t] = command[t]
             \/ status'[t] # "BUSY"
      PROVE  HeadKnown(t)' /\ ReadsOnTape(t)'
    BY <1>3, <1>4 DEF HeadKnown, HeadOK, ReadsOnTape, Busy, tape_vars
<1>5. ASSUME d \in Printers, manage_emulated_printer(d), UNCHANGED tape_vars
      PROVE  HeadKnown(t)' /\ ReadsOnTape(t)'
    BY <1>1, <1>3, <1>4, <1>5, PrinterExpiry, ExpiryElsewhere
<1>6. ASSUME d \in Disks, manage_emulated_disk(d), UNCHANGED tape_vars
      PROVE  HeadKnown(t)' /\ ReadsOnTape(t)'
    BY <1>1, <1>3, <1>4, <1>6, DiskExpiry, ExpiryElsewhere
<1>7. ASSUME d \in Tapes, manage_emulated_tape(d)
      PROVE  HeadKnown(t)' /\ ReadsOnTape(t)'
  <2>1. /\ \A e \in Devices \ {d} : status'[e] = status[e] /\ command'[e] = command[e]
        /\ status'[d] # "BUSY"
    BY <1>1, <1>7, TapeExpiry, ExpiryElsewhere
  <2>2. CASE UNCHANGED tape_vars
    BY <1>3, <1>4, <2>1, <2>2
  <2>3. CASE Busy(d) /\ d \in Installed /\ ~UNCHANGED tape_vars
    <3>1. HeadKnown(d) /\ ReadsOnTape(d)
      BY <1>7, <2>3 DEF HeadInv
    <3>2. PICK st \in Statuses :
              \/ command[d].op = "SKIPBLK" /\ SkipBlock(d, st)
              \/ command[d].op = "BACKBLK" /\ BackBlock(d, st)
              \/ command[d].op = "READBLK" /\ ReadBlock(d, st)
      BY <1>7, <2>3 DEF manage_emulated_tape
    <3>3. /\ block_index[d] \in Nat
          /\ Len(Markers[d]) \in Nat
          /\ misread[d] \/ block_index[d] <= Len(Markers[d])
      BY <1>1, <1>7, <3>1, TapeFiles DEF HeadKnown, HeadOK, TypeOK, TapeTypeOK
    <3>4. PICK i \in Nat, error \in Statuses :
              /\ misread[d] \/ i <= Len(Markers[d])
              /\ update_tape_head(d, i, error, st)
      <4> USE DEF HeadKnown
      <4>1. CASE command[d].op = "SKIPBLK" /\ SkipBlock(d, st)
        BY <1>1, <1>7, <2>3, <3>1, <3>3, <4>1, BlockAhead DEF SkipBlock, Statuses
      <4>2. CASE command[d].op = "BACKBLK" /\ BackBlock(d, st)
        <5>1. block_index[d] # 0
          BY <2>3, <4>2 DEF BackBlock
        <5>2. /\ block_index[d] - 1 \in Nat
              /\ misread[d] \/ block_index[d] - 1 <= Len(Markers[d])
          BY <3>3, <5>1
        <5> QED
          BY <4>2, <5>1, <5>2 DEF BackBlock, Statuses
      <4>3. CASE command[d].op = "READBLK" /\ ReadBlock(d, st)
        BY <1>1, <1>7, <2>3, <3>1, <3>3, <4>3, BlockAhead DEF ReadBlock, ReadsOnTape, Statuses
      <4> QED
        BY <3>2, <4>1, <4>2, <4>3
    <3>5. /\ HeadKnown(d)'
          /\ \A u \in Tapes \ {d} : block_index'[u] = block_index[u] /\ data1'[u] = data1[u]
              /\ misread'[u] = misread[u]
      BY <1>1, <1>7, <3>4, HeadMoved
    <3> QED
      BY <1>2, <1>3, <2>1, <3>5 DEF HeadKnown, HeadOK, ReadsOnTape, Busy
  <2>4. Busy(d) => d \in Installed
    BY DEF IInv, StatusOfInstalled, Busy
  <2>5. ~Busy(d) => UNCHANGED tape_vars
    BY <1>7 DEF manage_emulated_tape
  <2> QED
    BY <2>2, <2>3, <2>4, <2>5
<1> QED
    BY <1>5, <1>6, <1>7 DEF FiqPop

\* So does every step.
LEMMA HeadStep ==
    ASSUME IInv, HeadInv, [Next]_vars PROVE HeadInv'
<1>1. CASE UNCHANGED <<registers, tape_vars>>
    BY <1>1 DEF HeadInv, HeadKnown, HeadOK, ReadsOnTape, Busy, registers, tape_vars
<1>2. CASE Client \/ FiqEnter \/ FiqTimer \/ FiqRearm \/ FiqClean \/ Tick \/ UNCHANGED vars
    BY <1>1, <1>2 DEF Client, Post, FiqEnter, FiqTimer, FiqRearm, FiqClean, Tick, vars,
                      device_vars
<1> QED
    BY <1>2, HeadMailbox, HeadPop DEF Next, Fiq

\* The head of a tape stays on the tape and shows the marker before it, for tapes of
\* any length, unless the card failed when that marker was to be read.
THEOREM HeadsStayOnTape == Spec => []HeadShowsMarker
<1>1. Init => HeadInv
  <2> SUFFICES ASSUME Init, NEW t \in Tapes \cap Installed PROVE HeadKnown(t) /\ ReadsOnTape(t)
    BY DEF HeadInv
  <2> QED
    BY TapeFiles DEF Init, IOInit, TapeInit, HeadKnown, HeadOK, ReadsOnTape, Devices, Busy
<1>2. IInv /\ HeadInv /\ [Next]_vars => HeadInv'
    BY HeadStep
<1>3. HeadInv => HeadShowsMarker
    BY DEF HeadInv, HeadKnown, HeadOK, HeadShowsMarker
<1> QED
    BY FiqInvariant, <1>1, <1>2, <1>3, PTL DEF Spec

-----------------------------------------------------------------------------
(* What steps may never do.                                                *)

\* A command that ends because its time is over is told to the client that
\* asked for it and to the kernel.
THEOREM CompletionsTold == Spec => CompletionTold
<1>1. ASSUME IInv, [Next]_vars, NEW d \in Devices, Busy(d), ~Busy(d)', fiq = "loop"
      PROVE  d \in lines' /\ regs'[mailbox_registers[d]].status = status'[d]
  <2>1. /\ status \in [Devices -> Statuses] /\ regs \in [Buffers -> BlockSet]
        /\ mailbox_registers[d] \in Buffers
    BY <1>1 DEF IInv, TypeOK, IOTypeOK, BlockSet, BusyTimed
  <2>2. ~UNCHANGED registers
    BY <1>1 DEF registers, Busy
  <2>3. PICK e \in Devices : FiqPop(e)
    BY <1>1, <2>2 DEF Next, Client, Post, Fiq, FiqEnter, FiqMailbox, FiqTimer, FiqRearm, FiqClean,
                      Tick, vars, device_vars
  <2>4. ExpiryStep(e)
    BY <1>1, <2>3, PrinterExpiry, TapeExpiry, DiskExpiry DEF FiqPop, IInv
  <2>5. PICK st \in Statuses : Complete(e, st)
    BY <2>2, <2>4 DEF ExpiryStep
  <2>6. e = d
    BY <1>1, <2>1, <2>5 DEF Complete, Busy
  <2> QED
    BY <2>1, <2>5, <2>6 DEF Complete
<1>2. IInv /\ [Next]_vars =>
          [\A d \in Devices :
              Busy(d) /\ ~Busy(d)' /\ fiq = "loop" =>
                  /\ d \in lines'
                  /\ regs'[mailbox_registers[d]].status = status'[d]]_vars
    BY <1>1
<1> QED
    BY FiqInvariant, <1>2, PTL DEF Spec, CompletionTold

\* Only ACK and RESET lower a line, and only the device's own.
LEMMA LinesLowered ==
    ASSUME NEW d, NEW b, NEW c, NEW ch, NEW e \in lines \ lines',
           \/ emulated_printer_mailbox(d, b, c, ch)
           \/ emulated_tape_mailbox(d, b, c)
           \/ emulated_disk_mailbox(d, b, c)
    PROVE  e = d /\ c.op \in {"ACK", "RESET"}
<1>1. CASE emulated_printer_mailbox(d, b, c, ch)
    BY <1>1 DEF emulated_printer_mailbox, PrinterReset, PrinterAck, PrinterPrint, PrinterRefuse,
                Report, IllegalOperation, Accept
<1>2. CASE emulated_tape_mailbox(d, b, c)
    BY <1>2 DEF emulated_tape_mailbox, TapeReset, TapeAck, TapeRead, TapeAccept, TapeReadAtEnd,
                TapeBusy, Report, IllegalOperation, Accept
<1>3. CASE emulated_disk_mailbox(d, b, c)
    BY <1>3 DEF emulated_disk_mailbox, DiskReset, DiskAck, DiskMove, Report, IllegalOperation,
                Accept
<1> QED
    BY <1>1, <1>2, <1>3

\* The handler loses no interrupt line: only ACK and RESET lower one.
THEOREM LinesAreKept == Spec => LinesKept
<1>1. ASSUME IInv, [Next]_vars, NEW d \in lines \ lines'
      PROVE  fiq = "mailbox" /\ mailbox.dev = d /\ mailbox.cmd.op \in {"ACK", "RESET"}
  <2>1. ASSUME NEW e \in Devices, FiqPop(e) PROVE FALSE
    <3>1. ExpiryStep(e)
      BY <1>1, <2>1, PrinterExpiry, TapeExpiry, DiskExpiry DEF FiqPop, IInv
    <3> QED
      BY <1>1, <3>1 DEF ExpiryStep, Complete
  <2>2. ~FiqClean
    BY <1>1, CleanDropsNothing DEF IInv
  <2>3. FiqMailbox
    BY <1>1, <2>1, <2>2 DEF Next, Client, Post, Fiq, FiqEnter, FiqTimer, FiqRearm,
                            Tick, vars, device_vars
  <2> QED
    BY <1>1, <2>3, LinesLowered DEF FiqMailbox
<1>2. IInv /\ [Next]_vars =>
          [\A d \in lines \ lines' :
              /\ fiq = "mailbox" /\ mailbox.dev = d
              /\ mailbox.cmd.op \in {"ACK", "RESET"}]_vars
    BY <1>1
<1> QED
    BY FiqInvariant, <1>2, PTL DEF Spec, LinesKept

-----------------------------------------------------------------------------
(* Every message is answered                                               *)

\* The only message that gets no answer is an ACK to a busy disk, which clients
\* that wait for one never send.
NoDiskAcks == \A c \in DiskCommands : c.op \in ClientOps => c.op # "ACK"

\* What is in the mailbox was sent by a client.
MailSent == mailbox # NoMail => mailbox.cmd \in CommandsOf(mailbox.dev)

\* A copy of the registers is an answer.
LEMMA CopyAnswers ==
    ASSUME TypeOK, NEW b \in Buffers, NEW st, Copy(b, st)
    PROVE  regs'[b].mailbox = 1
    BY DEF TypeOK, IOTypeOK, Copy

\* Each class answers each message.
LEMMA MessageAnswered ==
    ASSUME TypeOK, NEW d \in Devices, NEW b \in Buffers, NEW c, NEW ch,
           \/ d \in Printers /\ emulated_printer_mailbox(d, b, c, ch)
           \/ d \in Tapes /\ emulated_tape_mailbox(d, b, c)
           \/ d \in Disks /\ emulated_disk_mailbox(d, b, c) /\ c.op # "ACK"
    PROVE  regs'[b].mailbox # 0
<1>1. (\E st : Copy(b, st)) => regs'[b].mailbox # 0
    BY CopyAnswers
<1>2. PrinterRefuse(d, b) => regs'[b].mailbox # 0
    BY DEF PrinterRefuse, TypeOK, IOTypeOK
<1>3. \A e, st : Answer(d, b, e, st) => \E s : Copy(b, s)
    BY DEF Answer
<1>4. \A e, delay : Accept(d, b, e, delay) => \E s : Copy(b, s)
    BY DEF Accept
<1>5. Report(d, b) \/ IllegalOperation(d, b) => \E s : Copy(b, s)
    BY <1>3 DEF Report, IllegalOperation
<1>6. CASE d \in Printers /\ emulated_printer_mailbox(d, b, c, ch)
    BY <1>1, <1>2, <1>3, <1>4, <1>5, <1>6
       DEF emulated_printer_mailbox, PrinterReset, PrinterAck, PrinterPrint
<1>7. CASE d \in Tapes /\ emulated_tape_mailbox(d, b, c)
    BY <1>1, <1>3, <1>4, <1>5, <1>7
       DEF emulated_tape_mailbox, TapeReset, TapeAck, TapeAccept, TapeRead, TapeReadAtEnd, TapeBusy
<1>8. CASE d \in Disks /\ emulated_disk_mailbox(d, b, c) /\ c.op # "ACK"
    BY <1>1, <1>3, <1>4, <1>5, <1>8 DEF emulated_disk_mailbox, DiskReset, DiskMove
<1> QED
    BY <1>6, <1>7, <1>8

\* Answered: a client that spins on the mailbox field of its block sees it change, if
\* nobody acknowledges a disk that is at work.
THEOREM MessagesAnswered == NoDiskAcks => (Spec => Answered)
<1> SUFFICES ASSUME NoDiskAcks PROVE Spec => Answered
    OBVIOUS
<1>1. Init => MailSent
    BY DEF Init, MailSent
<1>2. MailSent /\ [Next]_vars => MailSent'
  <2> SUFFICES ASSUME MailSent, [Next]_vars PROVE MailSent'
    OBVIOUS
  <2>1. CASE Client
    BY <2>1 DEF Client, Post, MailSent, CommandsOf
  <2>2. CASE mailbox' \in {mailbox, NoMail}
    BY <2>2 DEF MailSent, CommandsOf
  <2> QED
    BY <2>1, <2>2 DEF Next, Fiq, FiqEnter, FiqMailbox, FiqTimer, FiqPop, FiqRearm, FiqClean,
                      Tick, vars, fiq_vars
<1>3. IInv /\ MailSent /\ [Next]_vars =>
          [fiq = "mailbox" /\ fiq' # "mailbox" => regs'[mailbox.buf].mailbox # 0]_vars
  <2> SUFFICES ASSUME IInv, MailSent, Next, fiq = "mailbox", fiq' # "mailbox"
               PROVE  regs'[mailbox.buf].mailbox # 0
    BY DEF vars
  <2>1. FiqMailbox
    BY DEF Next, Fiq, Client, Post, FiqEnter, FiqTimer, FiqPop, FiqRearm, FiqClean, Tick, fiq_vars
  <2>2. PICK d \in Devices, b \in Buffers, c \in CommandSet, ch \in Chars :
            mailbox = [buf |-> b, dev |-> d, cmd |-> c, char |-> ch]
    BY InvariantParts DEF LocalOK, MailSet
  <2>3. d \in Disks => c.op # "ACK"
    <3>1. mailbox # NoMail
        BY DEF IInv, TypeOK
    <3> QED
        BY <2>2, <3>1, ClassesDisjoint DEF MailSent, CommandsOf, NoDiskAcks
  <2>4. /\ mailbox.dev = d /\ mailbox.buf = b /\ mailbox.cmd = c /\ mailbox.char = ch
        /\ TypeOK
    BY <2>2 DEF IInv
  <2> QED
    BY <2>1, <2>3, <2>4, MessageAnswered DEF FiqMailbox
<1> QED
    BY <1>1, <1>2, <1>3, FiqInvariant, PTL DEF Spec, Answered

(***************************************************************************)
(* c_irq_handler and setTIMER                                              *)
(***************************************************************************)

Rounds == 1..Len(RoundsOfLines)

\* Types of the locals of c_irq_handler and setTIMER, and of the times they set.
LocalsOK ==
    /\ mode \in [Cores -> {"user", "kernel"}]
    /\ irq \in [Cores -> {"idle", "timer", "again", "raise", "pending", "clean", "store",
                          "lower", "look", "arm"}]
    /\ round \in [Cores -> 0..(Len(RoundsOfLines) + 1)]
    /\ loaded \in [Cores -> SUBSET (Devices \cup Cores)]
    /\ started \in [Cores -> Nat]
    /\ refire \in [Cores -> BOOLEAN]
    /\ scheduled_physical_timers \in [Cores -> Nat]

\* The wait left to a timer that has not come is positive.
WaitLeft(c) == irq[c] = "again" => started[c] < scheduled_physical_timers[c]

\* clean_interrupt_lines is at one of the bytes, or past the last.
RoundOK(c) == /\ irq[c] = "store" => round[c] \in Rounds
              /\ irq[c] = "clean" => round[c] \in Rounds \cup {Len(RoundsOfLines) + 1}

\* The conjunct of ScheduledServed for core c.
Served(c) ==
    scheduled_physical_timers[c] > 0 /\ irq[c] \notin {"raise", "lower", "look", "arm"} =>
        /\ physical_timer[c] # Off
        /\ c = Core0 \/ Fired(physical_timer[c])
             \/ physical_timer[c] <= scheduled_physical_timers[c] + MaxRun

\* A core that no FIQ preempts sets its timer within MaxRun of reading the clock.
InTime(c) ==
    c # Core0 /\ irq[c] \in {"again", "lower", "look", "arm"} => now <= started[c] + MaxRun

\* What a core knows: it stores no line of a device that is not installed.
CoreOK(c) == /\ loaded[c] \subseteq DeviceInstalled
             /\ WaitLeft(c) /\ RoundOK(c) /\ Served(c) /\ InTime(c)

\* The inductive invariant.
IrqInv == IInv /\ LocalsOK /\ \A c \in Cores : CoreOK(c)

-----------------------------------------------------------------------------
(* What the steps of c_irq_handler and setTIMER have in common.            *)

\* The visited bytes hold the lines of the cores and of the devices.
LEMMA LinesOfRounds ==
    /\ Len(RoundsOfLines) = 4
    /\ Rounds = 1..4
    /\ \A i \in Rounds : RoundsOfLines[i] \subseteq Devices \cup Cores
    /\ RoundsOfLines[1] = Cores
    /\ \A i \in Rounds : i # 1 => RoundsOfLines[i] \subseteq Devices
<1>1. RoundsOfLines = <<Cores, Tapes, Disks, Printers>>
    BY LinesVisited
<1>2. Len(RoundsOfLines) = 4
    BY <1>1
<1>3. Rounds = 1..4
    BY <1>2 DEF Rounds
<1>4. /\ RoundsOfLines[1] = Cores /\ RoundsOfLines[2] = Tapes
      /\ RoundsOfLines[3] = Disks /\ RoundsOfLines[4] = Printers
    BY <1>1
<1>5. \A i \in Rounds : i = 1 \/ i = 2 \/ i = 3 \/ i = 4
    BY <1>3
<1> QED
    BY <1>2, <1>3, <1>4, <1>5 DEF Devices

\* What is installed is a line.
LEMMA InstalledLines == DeviceInstalled \subseteq Devices \cup Cores
BY PrintersInstalled DEF DeviceInstalled

\* A step that writes only installed lines and the times of physical timers
\* keeps the FIQ handler's invariant.
LEMMA BeneathFiq ==
    ASSUME IInv, DevicesIdle, lines' \subseteq DeviceInstalled,
           physical_timer' \in [Cores -> Nat \cup {Off}]
    PROVE  IInv'
<1>1. SharedOK /\ LocalOK /\ ClassesOK
    BY InvariantParts
<1>2. /\ UNCHANGED <<registers, regs, timers, now>>
      /\ UNCHANGED <<printer_vars, tape_vars, disk_vars>>
      /\ UNCHANGED fiq_vars
    BY DEF DevicesIdle
<1>3. SharedOK'
  <2>1. IOTypeOK'
    BY <1>1, <1>2, InstalledLines DEF registers, timers, SharedOK, IOTypeOK
  <2>2. StatusOfInstalled' /\ BusyTimed' /\ LinesInstalled'
    BY <1>1, <1>2 DEF registers, timers, SharedOK, StatusOfInstalled, BusyTimed, Busy,
                      LinesInstalled, DeviceInstalled
  <2>3. TimersServed'
    BY <1>1, <1>2 DEF timers, SharedOK, TimersServed, Armed
  <2> QED
    BY <2>1, <2>2, <2>3 DEF SharedOK
<1>4. LocalOK'
    BY <1>1, <1>2 DEF fiq_vars, LocalOK, ClockRead
<1>5. ClassesOK'
    BY <1>1, <1>2 DEF printer_vars, tape_vars, disk_vars, ClassesOK, PrinterTypeOK,
                      TapeTypeOK, DiskTypeOK
<1> QED
    BY <1>3, <1>4, <1>5, InvariantPartsNext

\* The facts that every step starts from.
LEMMA Facts ==
    ASSUME IrqInv
    PROVE  /\ IInv /\ LocalsOK
           /\ lines \subseteq DeviceInstalled
           /\ physical_timer \in [Cores -> Nat \cup {Off}]
           /\ now \in Nat
           /\ \A c \in Cores : CoreOK(c)
BY DEF IrqInv, IInv, TypeOK, IOTypeOK, LinesInstalled

\* Taking an IRQ keeps the invariant.
LEMMA IrqEnterStep == ASSUME IrqInv, NEW c \in Cores, IrqEnter(c) PROVE IrqInv'
<1>1. IInv'
    BY Facts, BeneathFiq DEF IrqEnter
<1>2. LocalsOK'
    BY Facts DEF IrqEnter, LocalsOK, Goto
<1>3. \A e \in Cores : CoreOK(e)'
    BY BoundsNat, Facts DEF IrqEnter, LocalsOK, Goto, At, CoreOK, WaitLeft, RoundOK, Served,
       InTime, DevicesIdle, Fired, DeviceInstalled
<1> QED
    BY <1>1, <1>2, <1>3 DEF IrqInv

\* Reading the clock of a timer that has not come keeps it.
LEMMA IrqTimerReadStep == ASSUME IrqInv, NEW c \in Cores, IrqTimerRead(c) PROVE IrqInv'
<1>1. IInv'
    BY Facts, BeneathFiq DEF IrqTimerRead
<1>2. LocalsOK'
    BY Facts DEF IrqTimerRead, LocalsOK, Goto
<1>3. \A e \in Cores : CoreOK(e)'
    BY BoundsNat, Facts DEF IrqTimerRead, TimerReached, LocalsOK, Goto, At, CoreOK, WaitLeft,
       RoundOK, Served, InTime, DevicesIdle, Fired, DeviceInstalled
<1> QED
    BY <1>1, <1>2, <1>3 DEF IrqInv

\* Waiting for the rest of it keeps it: the wait is positive.
LEMMA IrqTimerAgainStep == ASSUME IrqInv, NEW c \in Cores, IrqTimerAgain(c) PROVE IrqInv'
<1>1. now + (scheduled_physical_timers[c] - started[c]) \in Nat
    BY Facts DEF IrqTimerAgain, At, LocalsOK, CoreOK, WaitLeft
<1>2. IInv'
    BY <1>1, Facts, BeneathFiq DEF IrqTimerAgain, SetPhysical
<1>3. LocalsOK'
    BY Facts DEF IrqTimerAgain, LocalsOK, Goto
<1>4. \A e \in Cores : CoreOK(e)'
    BY BoundsNat, <1>1, Facts, OffNotTime DEF IrqTimerAgain, SetPhysical, LocalsOK, Goto, At,
       CoreOK, WaitLeft, RoundOK, Served, InTime, DevicesIdle, Fired, DeviceInstalled
<1> QED
    BY <1>2, <1>3, <1>4 DEF IrqInv

\* Loading the timer lines keeps it.
LEMMA IrqTimerLoadStep == ASSUME IrqInv, NEW c \in Cores, IrqTimerLoad(c) PROVE IrqInv'
<1>1. IInv'
    BY Facts, BeneathFiq DEF IrqTimerLoad
<1>2. LocalsOK'
    BY Facts, InstalledLines DEF IrqTimerLoad, LocalsOK, Goto, ByteOfTimers
<1>3. \A e \in Cores : CoreOK(e)'
    BY BoundsNat, Facts DEF IrqTimerLoad, ByteOfTimers, LocalsOK, Goto, At, CoreOK, WaitLeft,
       RoundOK, Served, InTime, DevicesIdle, Fired, DeviceInstalled
<1> QED
    BY <1>1, <1>2, <1>3 DEF IrqInv

\* Raising the timer line and switching the timer off keeps it: its time is gone.
LEMMA IrqTimerRaiseStep == ASSUME IrqInv, NEW c \in Cores, IrqTimerRaise(c) PROVE IrqInv'
<1>1. lines' \subseteq DeviceInstalled
    BY Facts DEF IrqTimerRaise, CoreOK, DeviceInstalled
<1>2. IInv'
    BY <1>1, Facts, BeneathFiq DEF IrqTimerRaise, SetPhysical
<1>3. LocalsOK'
    BY Facts DEF IrqTimerRaise, LocalsOK, Goto
<1>4. \A e \in Cores : CoreOK(e)'
    BY BoundsNat, Facts DEF IrqTimerRaise, SetPhysical, LocalsOK, Goto, At, CoreOK, WaitLeft,
       RoundOK, Served, InTime, DevicesIdle, Fired, DeviceInstalled
<1> QED
    BY <1>2, <1>3, <1>4 DEF IrqInv

\* Firing again at once keeps it.
LEMMA IrqPendingStep == ASSUME IrqInv, NEW c \in Cores, IrqPending(c) PROVE IrqInv'
<1>1. IInv'
    BY Facts, BeneathFiq DEF IrqPending, SetPhysical
<1>2. LocalsOK'
    BY Facts, LinesOfRounds DEF IrqPending, LocalsOK, Goto
<1>3. \A e \in Cores : CoreOK(e)'
    BY BoundsNat, Facts, LinesOfRounds, OffNotTime DEF IrqPending, SetPhysical, LocalsOK, Goto,
       At, CoreOK, WaitLeft, RoundOK, Served, InTime, DevicesIdle, Fired, DeviceInstalled
<1> QED
    BY <1>1, <1>2, <1>3 DEF IrqInv

\* Loading a byte to clean keeps it.
LEMMA IrqCleanLoadStep == ASSUME IrqInv, NEW c \in Cores, IrqCleanLoad(c) PROVE IrqInv'
<1>1. IInv'
    BY Facts, BeneathFiq DEF IrqCleanLoad
<1>2. LocalsOK'
    BY Facts, InstalledLines DEF IrqCleanLoad, LocalsOK, Goto
<1>3. \A e \in Cores : CoreOK(e)'
    BY BoundsNat, Facts, LinesOfRounds DEF IrqCleanLoad, LocalsOK, Goto, At, CoreOK, WaitLeft,
       RoundOK, Served, InTime, DevicesIdle, Fired, DeviceInstalled
<1> QED
    BY <1>1, <1>2, <1>3 DEF IrqInv

\* Storing the byte keeps it: only installed lines are stored.
LEMMA IrqCleanStoreStep == ASSUME IrqInv, NEW c \in Cores, IrqCleanStore(c) PROVE IrqInv'
<1>1. lines' \subseteq DeviceInstalled
    BY Facts DEF IrqCleanStore
<1>2. IInv'
    BY <1>1, Facts, BeneathFiq DEF IrqCleanStore
<1>3. round[c] \in 1..4 /\ round[c] + 1 \in 1..5
    BY Facts, LinesOfRounds DEF IrqCleanStore, At, CoreOK, RoundOK
<1>4. LocalsOK'
    BY <1>3, Facts, LinesOfRounds DEF IrqCleanStore, LocalsOK, Goto
<1>5. \A e \in Cores : CoreOK(e)'
    BY BoundsNat, <1>3, Facts, LinesOfRounds DEF IrqCleanStore, LocalsOK, Goto, At, CoreOK,
       WaitLeft, RoundOK, Served, InTime, DevicesIdle, Fired, DeviceInstalled
<1> QED
    BY <1>2, <1>4, <1>5 DEF IrqInv

\* Entering the kernel or resuming the process keeps it.
LEMMA IrqDispatchStep == ASSUME IrqInv, NEW c \in Cores, IrqDispatch(c) PROVE IrqInv'
<1>1. IInv'
    BY Facts, BeneathFiq DEF IrqDispatch
<1>2. LocalsOK'
    BY Facts, LinesOfRounds DEF IrqDispatch, LocalsOK, Goto
<1>3. \A e \in Cores : CoreOK(e)'
    BY BoundsNat, Facts DEF IrqDispatch, LocalsOK, Goto, At, CoreOK, WaitLeft, RoundOK, Served,
       InTime, DevicesIdle, Fired, DeviceInstalled
<1> QED
    BY <1>1, <1>2, <1>3 DEF IrqInv

\* Calling setTIMER keeps it.
LEMMA SetTimerStep == ASSUME IrqInv, NEW c \in Cores, SetTimer(c) PROVE IrqInv'
<1>1. IInv'
    BY Facts, BeneathFiq DEF SetTimer
<1>2. LocalsOK'
    BY Facts, InstalledLines DEF SetTimer, LocalsOK, Goto, ByteOfTimers
<1>3. \A e \in Cores : CoreOK(e)'
    BY BoundsNat, Facts DEF SetTimer, ByteOfTimers, LocalsOK, Goto, At, CoreOK, WaitLeft,
       RoundOK, Served, InTime, DevicesIdle, Fired, DeviceInstalled
<1> QED
    BY <1>1, <1>2, <1>3 DEF IrqInv

\* Lowering the line and writing down the time keeps it.
LEMMA SetTimerLowerStep ==
    ASSUME IrqInv, NEW c \in Cores, NEW us \in TimerDelays, SetTimerLower(c, us) PROVE IrqInv'
<1>1. lines' \subseteq DeviceInstalled
    BY Facts DEF SetTimerLower, CoreOK
<1>2. IInv'
    BY <1>1, Facts, BeneathFiq DEF SetTimerLower
<1>3. started[c] + us \in Nat
    BY Facts, TimerDelaysNat DEF LocalsOK
<1>4. LocalsOK'
    BY <1>3, Facts DEF SetTimerLower, LocalsOK, Goto
<1>5. \A e \in Cores : CoreOK(e)'
    BY BoundsNat, <1>3, Facts DEF SetTimerLower, LocalsOK, Goto, At, CoreOK, WaitLeft, RoundOK,
       Served, InTime, DevicesIdle, Fired, DeviceInstalled
<1> QED
    BY <1>2, <1>4, <1>5 DEF IrqInv

\* Looking for pending lines keeps it.
LEMMA SetTimerLookStep == ASSUME IrqInv, NEW c \in Cores, SetTimerLook(c) PROVE IrqInv'
<1>1. IInv'
    BY Facts, BeneathFiq DEF SetTimerLook
<1>2. LocalsOK'
    BY Facts DEF SetTimerLook, LocalsOK, Goto, pending_emulated_interrupt
<1>3. \A e \in Cores : CoreOK(e)'
    BY BoundsNat, Facts DEF SetTimerLook, LocalsOK, Goto, At, CoreOK, WaitLeft, RoundOK,
       Served, InTime, DevicesIdle, Fired, DeviceInstalled
<1> QED
    BY <1>1, <1>2, <1>3 DEF IrqInv

\* Setting the physical timer keeps it, and serves the time written down.
LEMMA SetTimerArmStep == ASSUME IrqInv, NEW c \in Cores, SetTimerArm(c) PROVE IrqInv'
<1> DEFINE left == scheduled_physical_timers[c] - started[c]
           time == IF left > 0 /\ ~refire[c] THEN now + left ELSE now
<1>1. time \in Nat
    BY Facts DEF LocalsOK
<1>2. physical_timer' = [physical_timer EXCEPT ![c] = time]
    BY DEF SetTimerArm, SetPhysical
<1>6. c # Core0 => time <= now \/ time <= scheduled_physical_timers[c] + MaxRun
    BY BoundsNat, Facts DEF LocalsOK, SetTimerArm, At, CoreOK, InTime
<1>7. time # Off
    BY <1>1, OffNotTime
<1> HIDE DEF time
<1>3. IInv'
    BY <1>1, <1>2, Facts, BeneathFiq DEF SetTimerArm
<1>4. LocalsOK'
    BY Facts DEF SetTimerArm, LocalsOK, Goto
<1>5. \A e \in Cores : CoreOK(e)'
    BY BoundsNat, <1>1, <1>2, <1>6, <1>7, Facts DEF SetTimerArm, LocalsOK, Goto, At, CoreOK,
       WaitLeft, RoundOK, Served, InTime, DevicesIdle, Fired, DeviceInstalled
<1> QED
    BY <1>3, <1>4, <1>5 DEF IrqInv

\* Resuming a process keeps it.
LEMMA KernelReturnStep == ASSUME IrqInv, NEW c \in Cores, KernelReturn(c) PROVE IrqInv'
<1>1. IInv'
    BY Facts, BeneathFiq DEF KernelReturn
<1>2. LocalsOK'
    BY Facts DEF KernelReturn, LocalsOK
<1>3. \A e \in Cores : CoreOK(e)'
    BY BoundsNat, Facts DEF KernelReturn, CoreOK, WaitLeft, RoundOK, Served,
       InTime, DevicesIdle, Fired, DeviceInstalled
<1> QED
    BY <1>1, <1>2, <1>3 DEF IrqInv

-----------------------------------------------------------------------------
(* The inductive invariant.                                                *)

\* The state in which bios_main starts the application satisfies it.
LEMMA IrqInitInvariant == ASSUME IrqInit PROVE IrqInv
<1>1. IInv
    BY InitInvariant DEF IrqInit
<1>2. LocalsOK
    BY LinesOfRounds DEF IrqInit, LocalsOK
<1>3. \A c \in Cores : CoreOK(c)
    BY BoundsNat DEF IrqInit, CoreOK, WaitLeft, RoundOK, Served, InTime, Fired
<1> QED
    BY <1>1, <1>2, <1>3 DEF IrqInv

\* Beneath the steps of clients, the FIQ handler and the clock the cores keep
\* what they know: the FIQ handler only switches the physical timer on.
LEMMA AboveIrq ==
    ASSUME IrqInv, IInv', UNCHANGED irq_vars,
           \A c \in Cores : physical_timer[c] # Off => physical_timer'[c] # Off,
           \A c \in Cores \ {Core0} : physical_timer'[c] = physical_timer[c],
           now <= now', \A c \in Cores : InTime(c)'
    PROVE  IrqInv'
<1>1. LocalsOK'
    BY Facts DEF irq_vars, LocalsOK
<1>2. now \in Nat /\ now' \in Nat /\ physical_timer \in [Cores -> Nat \cup {Off}]
    BY Facts DEF IInv, TypeOK, IOTypeOK
<1>3. ASSUME NEW c \in Cores PROVE Served(c)'
  <2>1. Served(c) /\ UNCHANGED irq_vars
    BY Facts DEF CoreOK
  <2>2. c # Core0 /\ Fired(physical_timer[c]) => Fired(physical_timer[c])'
    BY <1>2 DEF Fired
  <2> QED
    BY <2>1, <2>2 DEF Served, irq_vars
<1>4. \A c \in Cores : CoreOK(c)'
    BY <1>3, Facts DEF irq_vars, CoreOK, WaitLeft, RoundOK, DeviceInstalled
<1> QED
    BY <1>1, <1>4 DEF IrqInv

\* The FIQ handler switches no physical timer off, and sets that of core 0 only.
LEMMA PhysicalKept ==
    ASSUME IInv, Client \/ Fiq \/ Tick \/ UNCHANGED vars
    PROVE  /\ \A c \in Cores : physical_timer[c] # Off => physical_timer'[c] # Off
           /\ \A c \in Cores \ {Core0} : physical_timer'[c] = physical_timer[c]
<1>1. now \in Nat /\ physical_timer \in [Cores -> Nat \cup {Off}]
    BY DEF IInv, TypeOK, IOTypeOK
<1>2. CASE FiqRearm
    BY <1>1, <1>2, OffNotTime DEF FiqRearm
<1>3. CASE UNCHANGED physical_timer
    BY <1>3
<1>4. Client \/ Tick \/ UNCHANGED vars => UNCHANGED physical_timer
    BY DEF Client, Post, Tick, vars
<1>5. FiqEnter \/ FiqMailbox \/ FiqTimer \/ FiqClean => UNCHANGED physical_timer
    BY DEF FiqEnter, FiqMailbox, FiqTimer, FiqClean
<1>6. (\E d \in Devices : FiqPop(d)) => UNCHANGED physical_timer
    BY DEF FiqPop
<1> QED
    BY <1>2, <1>3, <1>4, <1>5, <1>6 DEF Fiq

\* Some block is posted.
Posting ==
    \E b \in Buffers, d \in Devices, c \in CommandSet, ch \in Chars : Post(b, d, c, ch)

\* Time passes only for a core that has some left to set its timer.
LEMMA TimeKept ==
    ASSUME IrqInv, Client \/ Posting \/ Fiq \/ IrqTick \/ UNCHANGED vars, UNCHANGED irq_vars
    PROVE  now <= now' /\ \A c \in Cores : InTime(c)'
<1>1. now \in Nat /\ started \in [Cores -> Nat] /\ \A c \in Cores : InTime(c)
    BY Facts DEF LocalsOK, CoreOK
<1>2. CASE IrqTick
    BY <1>1, <1>2, BoundsNat DEF IrqTick, Tick, InTime, Runs, irq_vars
<1>3. ASSUME UNCHANGED now PROVE now <= now' /\ \A c \in Cores : InTime(c)'
    BY <1>1, <1>3 DEF InTime, irq_vars
<1>4. Client \/ Posting \/ UNCHANGED vars => UNCHANGED now
    BY DEF Client, Posting, Post, vars
<1>5. FiqEnter \/ FiqMailbox \/ FiqTimer \/ FiqRearm \/ FiqClean => UNCHANGED now
    BY DEF FiqEnter, FiqMailbox, FiqTimer, FiqRearm, FiqClean
<1>6. (\E d \in Devices : FiqPop(d)) => UNCHANGED now
    BY DEF FiqPop
<1> QED
    BY <1>2, <1>3, <1>4, <1>5, <1>6 DEF Fiq

\* The FIQ handler's steps keep its invariant.
LEMMA FiqKept == IInv /\ (Client \/ Fiq \/ Tick \/ UNCHANGED vars) => IInv'
BY ClientStep, FiqEnterStep, FiqMailboxStep, FiqTimerStep, FiqPopStep, FiqRearmStep,
   FiqCleanStep, TickStep, StutterStep DEF Fiq

\* The steps of a core.
CoreStep(c) == IrqCore(c) \/ SetTimer(c) \/ SetTimerCore(c) \/ KernelReturn(c)

\* Every step of a core keeps the invariant.
LEMMA CoreStepInvariant == ASSUME IrqInv, NEW c \in Cores, CoreStep(c) PROVE IrqInv'
BY IrqEnterStep, IrqTimerReadStep, IrqTimerAgainStep, IrqTimerLoadStep, IrqTimerRaiseStep,
   IrqPendingStep, IrqCleanLoadStep, IrqCleanStoreStep, IrqDispatchStep, SetTimerStep,
   SetTimerLowerStep, SetTimerLookStep, SetTimerArmStep, KernelReturnStep
   DEF CoreStep, IrqCore, SetTimerCore

\* Any other step of IrqNext leaves the locals of the cores alone.
LEMMA OtherSteps ==
    ASSUME [IrqNext]_all_vars
    PROVE  \/ \E c \in Cores : CoreStep(c)
           \/ (Client \/ Fiq \/ IrqTick \/ UNCHANGED vars) /\ UNCHANGED irq_vars
BY DEF IrqNext, CoreStep, IrqClient, IrqTick, all_vars

\* So does every step.
LEMMA IrqStepInvariant == ASSUME IrqInv, [IrqNext]_all_vars PROVE IrqInv'
<1>1. CASE \E c \in Cores : CoreStep(c)
    BY <1>1, CoreStepInvariant
<1>2. CASE (Client \/ Fiq \/ IrqTick \/ UNCHANGED vars) /\ UNCHANGED irq_vars
  <2>1. Client \/ Fiq \/ Tick \/ UNCHANGED vars
    BY <1>2 DEF IrqTick
  <2> QED
    BY <1>2, <2>1, Facts, FiqKept, PhysicalKept, TimeKept, AboveIrq
<1> QED
    BY <1>1, <1>2, OtherSteps

\* The inductive invariant of the handlers of every core.
THEOREM IrqInvariant == IrqSpec => []IrqInv
<1>1. IrqInit => IrqInv
    BY IrqInitInvariant
<1>2. IrqInv /\ [IrqNext]_all_vars => IrqInv'
    BY IrqStepInvariant
<1> QED
    BY <1>1, <1>2, PTL DEF IrqSpec

\* Type correctness of c_irq_handler and setTIMER above the FIQ handler.
THEOREM IrqTypeCorrect == IrqSpec => []IrqTypeOK
<1>1. IrqInv => IrqTypeOK
    BY DEF IrqInv, IInv, LocalsOK, IrqTypeOK
<1> QED
    BY IrqInvariant, <1>1, PTL

\* On every core a time set by setTIMER is served: until it is reached the
\* physical timer is on, whatever device interrupts, timer interrupts of other
\* cores and FIQs use or preempt it; and on a core that no FIQ preempts it has
\* fired, or will fire within MaxRun of that time.
THEOREM SetTimesServed == IrqSpec => []ScheduledServed
<1>1. IrqInv => ScheduledServed
    BY DEF IrqInv, CoreOK, Served, ScheduledServed
<1> QED
    BY IrqInvariant, <1>1, PTL

\* What the FIQ handler promises by itself it also promises when c_irq_handler
\* and setTIMER write the lines and the physical timers in between.
THEOREM FiqInvariantAboveIrq == IrqSpec => [](TimersServed /\ BusyArmed /\ LinesInstalled)
<1>1. IrqInv => TimersServed /\ BusyArmed /\ LinesInstalled
    BY DEF IrqInv, IInv, BusyTimed, BusyArmed
<1> QED
    BY IrqInvariant, <1>1, PTL

-----------------------------------------------------------------------------
(* What holds of core 0 when the others do not run: a store of c_irq_handler *)
(* or setTIMER on one core may undo what another core, or the FIQ handler,   *)
(* wrote since the load.  The FIQ handler preempts core 0 only.              *)

OneCore == Cores = {Core0}

\* No command raises an unmasked line outside the timer half of the FIQ handler.
QuietCommands == "RESET" \notin ClientOps \/ Tapes \cup Disks \subseteq Masked

\* Clients wait for the handler to answer; core 0 is not in its other handlers.
MailWaits == mailbox # NoMail => irq[Core0] = "idle" /\ mailbox.cmd.op \in ClientOps

\* No line that core 0 loaded goes down before it stores the byte.
ByteCurrent == irq[Core0] \in {"raise", "store", "lower"} => loaded[Core0] \subseteq lines

\* DeliveryArmed is true of all but the loop of the FIQ handler, which raises lines.
ArmedButInLoop ==
    pending_emulated_interrupt /\ fiq # "loop" =>
        physical_timer[Core0] # Off \/ irq[Core0] = "pending"

ZeroInv == IrqInv /\ MailWaits /\ ByteCurrent /\ ArmedButInLoop

\* A message lowers or raises the line of its device; it raises no unmasked
\* one unless it is a RESET.
LEMMA MessageLines ==
    ASSUME IInv, FiqMailbox, QuietCommands, mailbox.cmd.op \in ClientOps
    PROVE  lines' \ Masked \subseteq lines
<1> DEFINE d == mailbox.dev
           b == mailbox.buf
           c == mailbox.cmd
           ch == mailbox.char
<1>1. /\ d \in Devices
      /\ \/ d \in Printers /\ emulated_printer_mailbox(d, b, c, ch)
         \/ d \in Tapes /\ emulated_tape_mailbox(d, b, c)
         \/ d \in Disks /\ emulated_disk_mailbox(d, b, c)
    BY DEF FiqMailbox, Devices
<1>2. c.op \in ClientOps
    OBVIOUS
<1> HIDE DEF d, b, c, ch
<1>3. lines' \in {lines, lines \ {d}} \/ (lines' = lines \cup {d} /\ d \in Masked)
  <2>1. ASSUME d \in Printers, emulated_printer_mailbox(d, b, c, ch)
        PROVE  lines' \in {lines, lines \ {d}}
    BY <2>1 DEF emulated_printer_mailbox, PrinterReset, PrinterAck, PrinterPrint, PrinterRefuse,
                Report, IllegalOperation, Accept
  <2>2. ASSUME d \in Tapes, emulated_tape_mailbox(d, b, c)
        PROVE  \/ lines' \in {lines, lines \ {d}}
               \/ lines' = lines \cup {d} /\ c.op = "RESET"
    BY <2>2 DEF emulated_tape_mailbox, TapeReset, TapeAck, TapeAccept, TapeRead, TapeReadAtEnd,
                TapeBusy, Report, IllegalOperation, Accept
  <2>3. ASSUME d \in Disks, emulated_disk_mailbox(d, b, c)
        PROVE  \/ lines' \in {lines, lines \ {d}}
               \/ lines' = lines \cup {d} /\ c.op = "RESET"
    BY <2>3 DEF emulated_disk_mailbox, DiskReset, DiskAck, DiskMove, Report, IllegalOperation,
                Accept
  <2> QED
    BY <1>1, <1>2, <2>1, <2>2, <2>3 DEF QuietCommands
<1> QED
    BY <1>3

\* The end of a command raises the line of its device, if any.
LEMMA ExpiryLines ==
    ASSUME IInv, NEW d \in Devices, FiqPop(d)
    PROVE  lines \subseteq lines'
<1>1. TypeOK /\ BusyTimed
    BY DEF IInv
<1>2. ExpiryStep(d)
    BY <1>1, PrinterExpiry, TapeExpiry, DiskExpiry DEF FiqPop
<1>3. lines' \in {lines, lines \cup {d}}
    BY <1>2 DEF ExpiryStep, Complete
<1> QED
    BY <1>3

\* A step that lowers no line when core 0 is about to store a byte, and leaves
\* core 0 alone.
LEMMA ByteKept ==
    ASSUME ByteCurrent, UNCHANGED irq_vars, irq[Core0] = "idle" \/ lines \subseteq lines'
    PROVE  ByteCurrent'
BY DEF ByteCurrent, irq_vars

\* The steps of clients, the FIQ handler and the clock keep what holds of core 0.
LEMMA AboveZero ==
    ASSUME ZeroInv, QuietCommands, UNCHANGED irq_vars,
           \/ irq[Core0] = "idle" /\ Client
           \/ Fiq \/ Tick \/ UNCHANGED vars
    PROVE  (MailWaits /\ ByteCurrent /\ ArmedButInLoop)'
<1>1. IInv /\ MailWaits /\ ByteCurrent /\ ArmedButInLoop /\ LinesInstalled /\ TypeOK
    BY DEF ZeroInv, IrqInv, IInv
<1>2. now # Off /\ Core0 \in Cores /\ physical_timer \in [Cores -> Nat \cup {Off}]
    BY <1>1, OffNotTime, CoresDisjoint DEF TypeOK, IOTypeOK
<1> USE DEF irq_vars
<1>3. CASE irq[Core0] = "idle" /\ Client
  <2>1. PICK b \in Buffers, d \in Devices :
            \E c \in CommandsOf(d) : \E ch \in CharsOf(c) : Post(b, d, c, ch)
    BY <1>3 DEF Client
  <2>2. PICK c \in CommandsOf(d) : \E ch \in CharsOf(c) : Post(b, d, c, ch)
    BY <2>1
  <2>3. PICK ch \in CharsOf(c) : Post(b, d, c, ch)
    BY <2>2
  <2>4. UNCHANGED <<lines, physical_timer, fiq>>
    BY <2>3 DEF Post
  <2>5. MailWaits'
    BY <1>3, <2>3 DEF Post, MailWaits, CommandsOf
  <2> QED
    BY <1>1, <2>4, <2>5, ByteKept DEF ArmedButInLoop, pending_emulated_interrupt
<1>4. CASE FiqEnter \/ FiqTimer \/ FiqClean \/ Tick \/ UNCHANGED vars
  <2>1. UNCHANGED <<lines, physical_timer, mailbox>>
    BY <1>1, <1>4, CleanDropsNothing DEF FiqEnter, FiqTimer, FiqClean, Tick, vars, device_vars,
                                         fiq_vars
  <2>2. fiq = "loop" => fiq' = "loop"
    BY <1>4 DEF FiqEnter, FiqTimer, FiqClean, Tick, vars, fiq_vars
  <2> QED
    BY <1>1, <2>1, <2>2, ByteKept DEF MailWaits, ArmedButInLoop, pending_emulated_interrupt
<1>5. CASE FiqMailbox
  <2>1. fiq = "mailbox" /\ mailbox # NoMail
    BY <1>1, <1>5 DEF FiqMailbox, TypeOK
  <2>2. irq[Core0] = "idle" /\ mailbox.cmd.op \in ClientOps
    BY <1>1, <2>1 DEF MailWaits
  <2>3. lines' \ Masked \subseteq lines
    BY <1>1, <1>5, <2>2, MessageLines
  <2>4. physical_timer' = physical_timer /\ mailbox' = NoMail
    BY <1>5 DEF FiqMailbox
  <2>5. ArmedButInLoop'
    BY <1>1, <2>1, <2>3, <2>4 DEF ArmedButInLoop, pending_emulated_interrupt
  <2> QED
    BY <1>1, <2>2, <2>3, <2>4, <2>5, ByteKept DEF MailWaits
<1>6. CASE \E d \in Devices : FiqPop(d)
  <2>1. PICK d \in Devices : FiqPop(d)
    BY <1>6
  <2>2. lines \subseteq lines'
    BY <1>1, <2>1, ExpiryLines
  <2>3. fiq' = "loop" /\ mailbox' = mailbox
    BY <2>1 DEF FiqPop, fiq_vars
  <2> QED
    BY <1>1, <2>2, <2>3, ByteKept DEF MailWaits, ArmedButInLoop
<1>7. CASE FiqRearm
  <2>1. UNCHANGED <<lines, mailbox>>
    BY <1>7 DEF FiqRearm
  <2>2. pending_emulated_interrupt => physical_timer'[Core0] = now
    BY <1>2, <1>7 DEF FiqRearm
  <2>3. ArmedButInLoop'
    BY <1>2, <2>1, <2>2 DEF ArmedButInLoop, pending_emulated_interrupt
  <2> QED
    BY <1>1, <2>1, <2>3, ByteKept DEF MailWaits
<1> QED
    BY <1>3, <1>4, <1>5, <1>6, <1>7 DEF Fiq

\* The steps of core 0 itself.
LEMMA ZeroSteps ==
    ASSUME ZeroInv, OneCore, NEW c \in Cores, CoreStep(c)
    PROVE  (MailWaits /\ ByteCurrent /\ ArmedButInLoop)'
<1>1. /\ MailWaits /\ ByteCurrent /\ ArmedButInLoop
      /\ c = Core0 /\ Core0 \in Cores /\ now # Off
      /\ CoreOK(Core0) /\ LocalsOK /\ now \in Nat
      /\ physical_timer \in [Cores -> Nat \cup {Off}]
    BY Facts, OffNotTime, CoresDisjoint DEF ZeroInv, OneCore
<1> USE <1>1 DEF DevicesIdle, fiq_vars, At, Goto, MailWaits, ByteCurrent, ArmedButInLoop,
                 pending_emulated_interrupt, LocalsOK
<1>4. CASE IrqEnter(c)
  <2>1. /\ irq[Core0] = "idle" /\ irq'[Core0] \in {"timer", "pending"}
        /\ mailbox' = NoMail /\ fiq' = fiq
        /\ UNCHANGED <<lines, physical_timer>>
    BY <1>4 DEF IrqEnter, Runs
  <2> HIDE DEF LocalsOK
  <2> QED
    BY <2>1
<1>5. CASE IrqTimerRead(c)
    BY <1>5 DEF IrqTimerRead
<1>6. CASE IrqTimerAgain(c)
    BY <1>6 DEF IrqTimerAgain
<1>7. CASE IrqTimerLoad(c)
    BY <1>7 DEF IrqTimerLoad, ByteOfTimers
<1>8. CASE IrqTimerRaise(c)
    BY <1>8 DEF IrqTimerRaise, OneCore
<1>9. CASE IrqPending(c)
    BY <1>9 DEF IrqPending, SetPhysical
<1>10. CASE IrqCleanLoad(c)
  <2> DEFINE byte == lines \cap RoundsOfLines[round[c]]
  <2>1. byte \subseteq lines
    OBVIOUS
  <2>2. loaded'[Core0] = byte /\ round' = round /\ lines' = lines /\ irq'[Core0] = "store"
    BY <1>10 DEF IrqCleanLoad
  <2> HIDE DEF byte
  <2>3. ByteCurrent'
    BY <2>1, <2>2
  <2> QED
    BY <1>10, <2>2, <2>3 DEF IrqCleanLoad
<1>11. CASE IrqCleanStore(c)
  <2>1. lines' \subseteq lines
    BY <1>11 DEF IrqCleanStore
  <2>2. irq[Core0] = "store" /\ irq'[Core0] = "clean"
    BY <1>11 DEF IrqCleanStore
  <2>3. physical_timer' = physical_timer /\ mailbox' = mailbox /\ fiq' = fiq
    BY <1>11 DEF IrqCleanStore
  <2> HIDE DEF LocalsOK
  <2> QED
    BY <2>1, <2>2, <2>3
<1>12. CASE IrqDispatch(c)
    BY <1>12 DEF IrqDispatch
<1>13. CASE SetTimer(c)
  <2>1. /\ irq[Core0] = "idle" /\ irq'[Core0] = "lower" /\ loaded'[Core0] = lines \cap Cores
        /\ mailbox' = NoMail /\ fiq' = fiq
        /\ UNCHANGED <<lines, physical_timer>>
    BY <1>13 DEF SetTimer, ByteOfTimers, Runs
  <2> HIDE DEF LocalsOK
  <2> QED
    BY <2>1
<1>14. ASSUME NEW us \in TimerDelays, SetTimerLower(c, us)
       PROVE  (MailWaits /\ ByteCurrent /\ ArmedButInLoop)'
    BY <1>14 DEF SetTimerLower
<1>15. CASE SetTimerLook(c)
    BY <1>15 DEF SetTimerLook
<1>16. CASE SetTimerArm(c)
    BY <1>16, OffNotTime DEF SetTimerArm, SetPhysical
<1>17. CASE KernelReturn(c)
    BY <1>17 DEF KernelReturn
<1> QED
    BY <1>4, <1>5, <1>6, <1>7, <1>8, <1>9, <1>10, <1>11, <1>12, <1>13, <1>14, <1>15, <1>16,
       <1>17 DEF CoreStep, IrqCore, SetTimerCore

\* Every step of a single core keeps what holds of it.
LEMMA ZeroStepInvariant ==
    ASSUME ZeroInv, OneCore, QuietCommands, [IrqNext]_all_vars
    PROVE  ZeroInv'
<1>1. IrqInv'
    BY IrqStepInvariant DEF ZeroInv
<1>2. CASE \E c \in Cores : CoreStep(c)
    BY <1>1, <1>2, ZeroSteps DEF ZeroInv
<1>3. CASE IrqClient
    BY <1>1, <1>3, AboveZero, CoresDisjoint DEF IrqClient, ZeroInv
<1>4. CASE (Fiq \/ Tick \/ UNCHANGED vars) /\ UNCHANGED irq_vars
    BY <1>1, <1>4, AboveZero, CoresDisjoint DEF ZeroInv
<1> QED
    BY <1>2, <1>3, <1>4 DEF IrqNext, CoreStep, IrqTick, all_vars

\* It holds when bios_main starts the application.
LEMMA ZeroInitInvariant == ASSUME IrqInit PROVE ZeroInv
<1>1. IrqInv /\ Core0 \in Cores
    BY IrqInitInvariant, CoresDisjoint
<1>2. mailbox = NoMail /\ lines = {}
    BY DEF IrqInit, Init, IOInit
<1> QED
    BY <1>1, <1>2 DEF IrqInit, ZeroInv, MailWaits, ByteCurrent, ArmedButInLoop,
                      pending_emulated_interrupt

\* The inductive invariant of core 0 running alone.
THEOREM ZeroInvariant == OneCore /\ QuietCommands => (IrqSpec => []ZeroInv)
<1>1. IrqInit => ZeroInv
    BY ZeroInitInvariant
<1>2. OneCore /\ QuietCommands => (ZeroInv /\ [IrqNext]_all_vars => ZeroInv')
    BY ZeroStepInvariant
<1>3. CASE OneCore /\ QuietCommands
  <2>1. ZeroInv /\ [IrqNext]_all_vars => ZeroInv'
    BY <1>2, <1>3
  <2> QED
    BY <1>1, <2>1, PTL DEF IrqSpec
<1> QED
    BY <1>3

\* An unmasked pending line always has the physical timer of core 0 on, or the
\* handler that will switch it on under way: no interleaving of the FIQ
\* handler, c_irq_handler and setTIMER, which all write that timer, leaves a
\* pending interrupt with nothing to bring it to the kernel.
THEOREM InterruptsArmed == OneCore /\ QuietCommands => (IrqSpec => []DeliveryArmed)
<1>1. ZeroInv => DeliveryArmed
    BY DEF ZeroInv, ArmedButInLoop, DeliveryArmed
<1> QED
    BY ZeroInvariant, <1>1, PTL
=============================================================================
