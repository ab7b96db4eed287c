---------------------------- MODULE DeviceFiles ----------------------------
(***************************************************************************)
(* The files of tapes and disks, as emulated_tapes.c and emulated_disks.c  *)
(* read and write them: where blocks, markers and headers are.             *)
(***************************************************************************)
EXTENDS FatFiles

CONSTANTS
    TapeFiles, DiskFiles,        \* partition Files
    BlockWords,                  \* TAPE_BLOCKSIZE and DISK_BLOCKSIZE: 1024
    TapeBlocks,                  \* block_index is at most TapeBlocks
    Cylinders, Heads, Sectors    \* in the header of the disk files

ASSUME DeviceFilesAreFiles == /\ Files = TapeFiles \cup DiskFiles
                              /\ TapeFiles \cap DiskFiles = {}
ASSUME DeviceSizes == {BlockWords, TapeBlocks, Cylinders, Heads, Sectors} \subseteq Nat

\* A tape file is an identifier, then each block with the marker after it.
MarkerOffset(block_index) == block_index * BlockWords + block_index
TapeBlockOffset(block_index) == block_index * BlockWords + (block_index + 1)

\* A disk file starts with an identifier and six numbers.
seek_disk_block(cylinder, head, sector) ==
    7 + (head * Cylinders + cylinder * Sectors + sector) * BlockWords

\* init_emulated_tapes, init_emulated_disks
ReadTapeId(f) == f \in TapeFiles /\ Call("read", f, 0, 1, << >>)
ReadDiskHeader(f) == f \in DiskFiles /\ Call("read", f, 0, 8, << >>)

update_tape_head(f) ==
    f \in TapeFiles /\ \E b \in 1 .. TapeBlocks : Call("read", f, MarkerOffset(b), 1, << >>)

read_tape_block(f) ==
    /\ f \in TapeFiles
    /\ \E b \in 0 .. TapeBlocks : Call("read", f, TapeBlockOffset(b), BlockWords, << >>)

\* A command's bounds are inclusive.
Positions == (0 .. Cylinders) \X (0 .. Heads) \X (0 .. Sectors)

read_disk_block(f) ==
    /\ f \in DiskFiles
    /\ \E p \in Positions :
          Call("read", f, seek_disk_block(p[1], p[2], p[3]), BlockWords, << >>)

write_disk_block(f) ==
    /\ f \in DiskFiles
    /\ \E p \in Positions, x \in Data :
          Call("write", f, seek_disk_block(p[1], p[2], p[3]), BlockWords, x)

FilesNext == \/ \E f \in Files : \/ ReadTapeId(f) \/ ReadDiskHeader(f)
                                 \/ update_tape_head(f) \/ read_tape_block(f)
                                 \/ read_disk_block(f) \/ write_disk_block(f)
             \/ FatStep

FilesSpec == FatInit /\ [][FilesNext]_fat_vars

\* A call is code without waits: the waits for the SD controller are bounded.
FairFilesSpec == FilesSpec /\ WF_fat_vars(FatStep)
-----------------------------------------------------------------------------
\* Every call returns, whatever fails: the FIQ handler that makes it blocks the
\* core until then.
CallsReturn == pc # "return" ~> pc = "return"

\* Two blocks of a disk within its bounds do not share an offset of the file.
BlocksApart ==
    \A p, q \in (0 .. Cylinders - 1) \X (0 .. Heads - 1) \X (0 .. Sectors - 1) :
        seek_disk_block(p[1], p[2], p[3]) = seek_disk_block(q[1], q[2], q[3]) => p = q
=============================================================================
