----------------------------- MODULE EmulatedIO -----------------------------
(***************************************************************************)
(* What the emulated printers, tapes and disks share: their internal       *)
(* registers, the register blocks of the clients (printreg_t, tapereg_t,   *)
(* diskreg_t), the interrupt lines, the device timers (DeviceTimers, which *)
(* EmulatedTimers implements) and the ARM timers.                          *)
(***************************************************************************)
EXTENDS Naturals, FiniteSets

CONSTANTS
    Printers, Tapes, Disks,  \* the devices of each class
    Installed,               \* DEVICE_INSTALLED: the devices found at boot
    Cores, Core0,            \* the cores; core 0 takes the FIQs
    Masked,                  \* the devices and cores whose line INTERRUPT_MASK masks
    Buffers,                 \* the clients' register blocks
    NULL,                    \* a null registers pointer
    Off,                     \* a disabled ARM timer; a device with no timer
    PrinterDelay, TapeDelay  \* the 8 us and 1000 us of set_device_timer

Devices == Printers \cup Tapes \cup Disks

ASSUME ClassesDisjoint == /\ Printers \cap Tapes = {}
                          /\ Printers \cap Disks = {}
                          /\ Tapes \cap Disks = {}
\* init_emulated_printers installs every printer.
ASSUME PrintersInstalled == Printers \subseteq Installed /\ Installed \subseteq Devices
ASSUME CoresDisjoint == Core0 \in Cores /\ Cores \cap Devices = {}
\* INTERRUPT_MASK has one bit for each line: all timers, tapes, disks or printers.
ASSUME MaskedByLine == \E L \in SUBSET {Cores, Tapes, Disks, Printers} : Masked = UNION L
ASSUME NULLNotBuffer == NULL \notin Buffers
ASSUME OffNotTime == Off \notin Nat
ASSUME DelaysNat == PrinterDelay \in Nat /\ TapeDelay \in Nat

VARIABLES
    status,    \* internal_registers.status of each device
    command,   \* internal_registers.command of each device
    mailbox_registers,  \* the block a running command completes into, or NULL
    regs,      \* the clients' blocks: their status and mailbox fields
    lines,     \* the bits set in INTERRUPT_LINES: devices, and in IL_TIMER cores
    deadline,  \* the time of each device's pending timer, or Off
    virtual_timer,   \* CNTV: the time at which it fires, or Off
    physical_timer,  \* CNTP of each core: the same
    now        \* getTOD()

registers == <<status, command, mailbox_registers>>
timers == <<deadline, virtual_timer>>

Statuses == {"NOT_INSTALLED", "READY", "ILLEGAL_OPERATION", "BUSY",
             "SKIP_ERROR", "READ_ERROR", "BACK_BLOCK_ERROR", "WRITE_ERROR"}

Busy(d) == status[d] = "BUSY"

\* A device whose status is not DEVICE_NOT_INSTALLED.
Present(d) == status[d] # "NOT_INSTALLED"

\* A command register: an operation and, for disks, its two operands
\* (head and sector, or cylinder).
Command(op, x, y) == [op |-> op, x |-> x, y |-> y]
Plain(op) == Command(op, 0, 0)

-----------------------------------------------------------------------------
\* initSystem, init_emulated_printers, init_emulated_tapes, init_emulated_disks
IOInit ==
    /\ status = [d \in Devices |-> IF d \in Installed THEN "READY" ELSE "NOT_INSTALLED"]
    /\ command = [d \in Devices |-> Plain("RESET")]
    /\ mailbox_registers = [d \in Devices |-> NULL]
    /\ regs = [b \in Buffers |-> [status |-> "READY", mailbox |-> 0]]
    /\ lines = {}
    /\ deadline = [d \in Devices |-> Off]
    /\ virtual_timer = Off
    /\ physical_timer = [c \in Cores |-> Off]
    /\ now = 0

\* memcpy(registers, &internal_registers, ...) with device status st; the
\* internal mailbox field is 1 from the first message on.
Copy(b, st) == regs' = [regs EXCEPT ![b] = [status |-> st, mailbox |-> 1]]

Armed(dl) == {d \in Devices : dl[d] # Off}

\* next_timer and next_pending_timer look at an earliest deadline.
Earliest(dl, d) == d \in Armed(dl) /\ \A e \in Armed(dl) : dl[d] <= dl[e]

Bug_set_device_timer_own(d, delay) ==
    /\ deadline' = [deadline EXCEPT ![d] = now + delay]
    /\ virtual_timer' = now + delay

\* set_device_timer: arm the device, then the virtual timer for the earliest
\* deadline, at once if it has passed.
set_device_timer(d, delay) ==
    /\ deadline' = [deadline EXCEPT ![d] = now + delay]
    /\ \E e \in Devices :
          /\ Earliest(deadline', e)
          /\ virtual_timer' = IF now < deadline'[e] THEN deadline'[e] ELSE now

Bug_Accept_unarmed(d, b, c, delay) ==
    /\ status' = [status EXCEPT ![d] = "BUSY"]
    /\ command' = [command EXCEPT ![d] = c]
    /\ mailbox_registers' = [mailbox_registers EXCEPT ![d] = b]
    /\ Copy(b, "BUSY")
    /\ UNCHANGED <<timers, lines>>

\* A device accepts command c of block b, which will take delay microseconds.
Accept(d, b, c, delay) ==
    /\ status' = [status EXCEPT ![d] = "BUSY"]
    /\ command' = [command EXCEPT ![d] = c]
    /\ mailbox_registers' = [mailbox_registers EXCEPT ![d] = b]
    /\ Copy(b, "BUSY")
    /\ set_device_timer(d, delay)
    /\ UNCHANGED lines

\* The device answers block b with its new status st and no timer is armed.
Answer(d, b, c, st) ==
    /\ status' = [status EXCEPT ![d] = st]
    /\ command' = [command EXCEPT ![d] = c]
    /\ Copy(b, st)
    /\ UNCHANGED <<mailbox_registers, timers>>

\* The device only copies its registers to block b.
Report(d, b) == Answer(d, b, command[d], status[d]) /\ UNCHANGED lines

\* An unknown operation, whatever the device is doing.
IllegalOperation(d, b) == Answer(d, b, command[d], "ILLEGAL_OPERATION") /\ UNCHANGED lines

Bug_Complete_uncopied(d, st) ==
    /\ status' = [status EXCEPT ![d] = st]
    /\ lines' = lines \cup {d}
    /\ mailbox_registers' = [mailbox_registers EXCEPT ![d] = NULL]
    /\ UNCHANGED <<command, regs>>

\* The running command of d ends with status st: the block that started it
\* gets the registers and is forgotten, and the interrupt line is raised.
Complete(d, st) ==
    /\ status' = [status EXCEPT ![d] = st]
    /\ lines' = lines \cup {d}
    /\ regs' = [b \in Buffers |-> IF b = mailbox_registers[d]
                                  THEN [status |-> st, mailbox |-> 1] ELSE regs[b]]
    /\ mailbox_registers' = [mailbox_registers EXCEPT ![d] = NULL]
    /\ UNCHANGED command

-----------------------------------------------------------------------------
\* init_emulated_timers installs the timer lines of all cores.
DeviceInstalled == Installed \cup Cores

\* An unmasked line is pending.
pending_emulated_interrupt == lines \ Masked # {}

\* The CNTV and CNTP conditions.
Fired(t) == t # Off /\ now >= t

Operations == {"RESET", "ACK", "READ_REGISTERS", "PRINT_CHAR", "SKIPBLK", "READBLK",
               "BACKBLK", "WRITEBLK", "SEEKCYL", "OTHER"}

\* Types of the shared state.
IOTypeOK ==
    /\ status \in [Devices -> Statuses]
    /\ command \in [Devices -> [op : Operations, x : Nat, y : Nat]]
    /\ mailbox_registers \in [Devices -> Buffers \cup {NULL}]
    /\ regs \in [Buffers -> [status : Statuses, mailbox : 0..2]]
    /\ lines \subseteq Devices \cup Cores
    /\ deadline \in [Devices -> Nat \cup {Off}]
    /\ virtual_timer \in Nat \cup {Off}
    /\ physical_timer \in [Cores -> Nat \cup {Off}]
    /\ now \in Nat
=============================================================================
