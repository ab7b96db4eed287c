--------------------------- MODULE EmulatedDisks ---------------------------
(***************************************************************************)
(* source/emulated/emulated_disks.c: the commands of a disk, the position  *)
(* of its heads and the time it takes to move them.                        *)
(***************************************************************************)
EXTENDS EmulatedIO

CONSTANTS
    Cylinders, Heads, Sectors,  \* the geometry in the disk file's header
    SeekTime,    \* seektime: microseconds per cylinder
    SectorTime   \* 1000000 / ((rpm / 60) * sectors): microseconds per sector

ASSUME Geometry == /\ Cylinders \in Nat /\ Heads \in Nat /\ Sectors \in Nat
                   /\ SeekTime \in Nat /\ SectorTime \in Nat

VARIABLES
    current_cylinder, current_head, current_sector

disk_vars == <<current_cylinder, current_head, current_sector>>

\* init_emulated_disks
DiskInit == /\ current_cylinder = [d \in Disks |-> 0]
            /\ current_head = [d \in Disks |-> 0]
            /\ current_sector = [d \in Disks |-> 0]

Distance(m, n) == IF m > n THEN m - n ELSE n - m

\* time_to_destination
time_to_destination(d, cyl, sect) ==
    Distance(current_sector[d], sect) * SectorTime
      + Distance(current_cylinder[d], cyl) * SeekTime

\* RESET moves the heads home, drops what the disk was doing and raises the
\* interrupt.
DiskReset(d, b) ==
    /\ Answer(d, b, Plain("RESET"), "READY")
    /\ lines' = lines \cup {d}
    /\ current_cylinder' = [current_cylinder EXCEPT ![d] = 0]
    /\ current_head' = [current_head EXCEPT ![d] = 0]
    /\ current_sector' = [current_sector EXCEPT ![d] = 0]

\* ACK of a busy disk does nothing at all: the block is not written.
DiskAck(d, b) ==
    IF Busy(d) THEN UNCHANGED <<registers, regs, lines, timers>>
    ELSE Answer(d, b, Plain("ACK"), "READY") /\ lines' = lines \ {d}

\* READBLK and WRITEBLK carry head and sector, SEEKCYL a cylinder.
OutOfRange(c) ==
    IF c.op = "SEEKCYL" THEN c.x > Cylinders ELSE c.x > Heads \/ c.y > Sectors

DiskDelay(d, c) ==
    IF c.op = "SEEKCYL" THEN time_to_destination(d, c.x, current_sector[d])
    ELSE time_to_destination(d, current_cylinder[d], c.y)

DiskMove(d, b, c) ==
    IF Busy(d) THEN Report(d, b)
    ELSE IF OutOfRange(c) THEN IllegalOperation(d, b)
    ELSE Accept(d, b, c, DiskDelay(d, c))

(* emulated_disk_mailbox *)
emulated_disk_mailbox(d, b, c) ==
    \/ ~Present(d) /\ Report(d, b) /\ UNCHANGED disk_vars
    \/ Present(d) /\ c.op = "RESET" /\ DiskReset(d, b)
    \/ /\ Present(d)
       /\ \/ c.op = "ACK" /\ DiskAck(d, b)
          \/ c.op = "READ_REGISTERS" /\ Report(d, b)
          \/ c.op \in {"READBLK", "WRITEBLK", "SEEKCYL"} /\ DiskMove(d, b, c)
          \/ c.op = "OTHER" /\ IllegalOperation(d, b)
       /\ UNCHANGED disk_vars

(* manage_emulated_disk.  The error paths are left out: fat_readfile and   *)
(* write_disk_block never return a negative number.                        *)
manage_emulated_disk(d) ==
    IF Busy(d) /\ command[d].op = "SEEKCYL"
    THEN /\ current_cylinder' = [current_cylinder EXCEPT ![d] = command[d].x]
         /\ Complete(d, "READY")
         /\ UNCHANGED <<current_head, current_sector>>
    ELSE IF Busy(d) /\ command[d].op \in {"READBLK", "WRITEBLK"}
    THEN /\ current_head' = [current_head EXCEPT ![d] = command[d].x]
         /\ current_sector' = [current_sector EXCEPT ![d] = command[d].y]
         /\ Complete(d, "READY")
         /\ UNCHANGED current_cylinder
    ELSE UNCHANGED <<registers, regs, lines, disk_vars>>

DiskTypeOK == /\ current_cylinder \in [Disks -> Nat]
              /\ current_head \in [Disks -> Nat]
              /\ current_sector \in [Disks -> Nat]
=============================================================================
