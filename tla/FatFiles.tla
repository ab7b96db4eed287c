------------------------------ MODULE FatFiles ------------------------------
(***************************************************************************)
(* source/hal/fat.c: fat_readfile and fat_writefile, which walk the chain  *)
(* of clusters of a file in the file allocation table, of which one sector *)
(* is cached, and move whole clusters between the SD card and a buffer.    *)
(* Offsets and lengths count words of 4 bytes: all of their callers'       *)
(* are multiples of 4.                                                     *)
(***************************************************************************)
EXTENDS Integers, Sequences

CONSTANTS
    Files,              \* the files of the emulated devices
    Chains,             \* layouts of a card: the clusters of each file, in order
    LastCluster,        \* clusters are numbered from 2 to LastCluster
    EntriesPerSector,   \* of the table: 128 in the code
    SectorWords,        \* 128
    SectorsPerCluster,  \* bpb->spc
    BufferWords,        \* of the buffer of a call: 1024
    Data,               \* what callers write: word i of x \in Data is <<x, i>>
    Faults              \* of "table", "data": the transfers that may fail

Clusters == 2 .. LastCluster
ClusterWords == SectorWords * SectorsPerCluster
Offsets == 0 .. ClusterWords - 1

\* CACHEDFATSIZE / EntriesPerSector
CachedSectors == 1
CachedEntries == 0 .. CachedSectors * EntriesPerSector - 1

\* The condition 0xFFF8 of the loop, here any number past the clusters of the
\* card: it holds of cards with fewer than 65528 clusters.
EndOfChain == LastCluster + 1

\* memcpy stays within the buffer, which the code takes for granted.
ASSUME BufferHolds == 2 * ClusterWords <= BufferWords
ASSUME Geometry ==
    /\ LastCluster \in Nat /\ EntriesPerSector \in Nat \ {0}
    /\ SectorWords \in Nat \ {0} /\ SectorsPerCluster \in Nat \ {0}
    /\ Faults \subseteq {"table", "data"}
\* Files share no cluster and come to their end.
ASSUME Layouts ==
    \A ch \in Chains :
        /\ ch \in [Files -> Seq(Clusters)]
        /\ \A f, g \in Files : \A i \in 1 .. Len(ch[f]), j \in 1 .. Len(ch[g]) :
              ch[f][i] = ch[g][j] => f = g /\ i = j
        /\ \A f \in Files : ch[f] # << >>

VARIABLES
    chain,      \* where the files are; constant
    card,       \* the words of every cluster
    cachedFAT, last_entry_sector_offset,
    pc, io      \* the call in progress, with its arguments and locals

cache_vars == <<cachedFAT, last_entry_sector_offset>>
fat_vars == <<chain, card, cachedFAT, last_entry_sector_offset, pc, io>>

-----------------------------------------------------------------------------
\* The table on the card, which nothing writes: the next cluster of a file, an
\* end mark after its last one, 0 for clusters that belong to none.
Entry(c) ==
    LET places == {p \in Files \X (1 .. LastCluster) :
                     p[2] <= Len(chain[p[1]]) /\ chain[p[1]][p[2]] = c}
    IN  IF places = {} THEN 0
        ELSE LET p == CHOOSE p \in places : TRUE
             IN  IF p[2] = Len(chain[p[1]]) THEN EndOfChain ELSE chain[p[1]][p[2] + 1]

TableSector(s) == [i \in CachedEntries |-> Entry(s * EntriesPerSector + i)]

\* What is at an offset of a file; a file ends with its last cluster.
FileLen(f) == Len(chain[f]) * ClusterWords
ClusterAt(f, k) == chain[f][k \div ClusterWords + 1]
Word(f, k) == card[ClusterAt(f, k)][k % ClusterWords]

InChain(c) == c > 1 /\ c < EndOfChain

NoCall == [op |-> "read", file |-> CHOOSE f \in Files : TRUE, seek |-> 0, length |-> 0,
           data |-> << >>, left |-> 0, index |-> 0, start |-> 0, cluster_num |-> 0,
           rw |-> "read", cluster |-> 0, counter |-> 0, failed |-> FALSE,
           buffer |-> [w \in Offsets |-> << >>]]

\* fat_getpartition loads the first sector of the table and does not look at
\* whether that worked.
FatInit ==
    /\ chain \in Chains
    /\ card = [c \in Clusters |-> [w \in Offsets |-> <<c, w>>]]
    /\ \/ cachedFAT = TableSector(0)
       \/ "table" \in Faults /\ cachedFAT = [i \in CachedEntries |-> 0]
    /\ last_entry_sector_offset = 0
    /\ pc = "return"
    /\ io = NoCall
-----------------------------------------------------------------------------
(* fat_readfile and fat_writefile: one turn of the loop per cluster *)
Call(op, f, seek, length, data) ==
    /\ pc = "return"
    /\ pc' = "loop"
    /\ io' = [NoCall EXCEPT !.op = op, !.file = f, !.seek = seek, !.length = length,
                !.data = data, !.left = length,
                !.cluster_num = seek \div ClusterWords, !.start = seek % ClusterWords]
    /\ UNCHANGED <<chain, card, cachedFAT, last_entry_sector_offset>>

\* Bug: the buffer is not read before it is modified.
Bug_Loop_unread ==
    /\ pc = "loop"
    /\ pc' = IF io.left = 0 THEN "return" ELSE IF io.op = "read" THEN "chain" ELSE "modify"
    /\ io' = [io EXCEPT !.rw = "read", !.cluster = chain[io.file][1], !.counter = 0]
    /\ UNCHANGED <<chain, card, cachedFAT, last_entry_sector_offset>>

Loop ==
    /\ pc = "loop"
    /\ IF io.left = 0
       THEN pc' = "return" /\ UNCHANGED io
       ELSE /\ pc' = "chain"
            /\ io' = [io EXCEPT !.rw = "read", !.cluster = chain[io.file][1], !.counter = 0]
    /\ UNCHANGED <<chain, card, cachedFAT, last_entry_sector_offset>>

(* fat_get_table_entry *)
\* Bug: as if more than one sector were cached.
Bug_Cached_next(sector) == /\ sector >= last_entry_sector_offset
                           /\ sector <= last_entry_sector_offset + CachedSectors

Cached(sector) == /\ sector >= last_entry_sector_offset
                  /\ sector < last_entry_sector_offset + CachedSectors

LoadTable(sector) ==
    IF Cached(sector) THEN UNCHANGED cachedFAT
    ELSE \/ cachedFAT' = TableSector(sector)
         \/ "table" \in Faults /\ UNCHANGED cachedFAT

fat_get_table_entry(index) ==
    /\ LoadTable(index \div EntriesPerSector)
    /\ last_entry_sector_offset' = index \div EntriesPerSector
    /\ io' = [io EXCEPT !.cluster = cachedFAT'[index % (CachedSectors * EntriesPerSector)],
                        !.counter = @ + 1]

(* fat_transferfile: along the chain, then one transfer *)
NextInChain ==
    /\ pc = "chain" /\ InChain(io.cluster) /\ io.counter # io.cluster_num
    /\ fat_get_table_entry(io.cluster)
    /\ UNCHANGED <<chain, card, pc>>

Found == pc = "chain" /\ InChain(io.cluster) /\ io.counter = io.cluster_num

Shorter(m, n) == IF m < n THEN m ELSE n

\* Bug: the length that is left is not looked at.
Bug_Effective_all == IF io.op = "read" THEN ClusterWords - io.start ELSE ClusterWords

\* How much of the cluster a turn takes.  A write does not look at start.
Effective == Shorter(IF io.op = "read" THEN ClusterWords - io.start ELSE ClusterWords,
                     io.left)

\* Bug: start is kept.
Bug_NextCluster_start == [io EXCEPT !.index = @ + Effective, !.left = @ - Effective,
                                    !.cluster_num = @ + 1]

\* The turn is over: the rest of the call starts with the next cluster.
NextCluster == [io EXCEPT !.start = 0, !.index = @ + Effective, !.left = @ - Effective,
                          !.cluster_num = @ + 1]

\* The chain ends before the cluster: the read has come to the end of the file.
\* The result of the second pass of a write is not looked at.
EndOfFile ==
    /\ pc = "chain" /\ ~InChain(io.cluster)
    /\ IF io.rw = "read" THEN pc' = "return" /\ UNCHANGED io
       ELSE pc' = "loop" /\ io' = NextCluster
    /\ UNCHANGED <<chain, card, cachedFAT, last_entry_sector_offset>>

ReadCluster ==
    /\ Found /\ io.rw = "read"
    /\ io' = [io EXCEPT !.buffer = card[io.cluster]]
    /\ pc' = "modify"
    /\ UNCHANGED <<chain, card, cachedFAT, last_entry_sector_offset>>

\* Bug: an empty read is tried again.
Bug_ReadFails_retry ==
    /\ Found /\ io.rw = "read" /\ "data" \in Faults
    /\ io' = [io EXCEPT !.failed = TRUE]
    /\ pc' = "loop"
    /\ UNCHANGED <<chain, card, cachedFAT, last_entry_sector_offset>>

ReadFails ==
    /\ Found /\ io.rw = "read" /\ "data" \in Faults
    /\ io' = [io EXCEPT !.failed = TRUE]
    /\ pc' = "return"
    /\ UNCHANGED <<chain, card, cachedFAT, last_entry_sector_offset>>

\* A write that fails has written some sectors, and nobody looks.
WriteCluster ==
    /\ Found /\ io.rw = "write"
    /\ \E sectors \in IF "data" \in Faults THEN 0 .. SectorsPerCluster
                      ELSE {SectorsPerCluster} :
          card' = [card EXCEPT ![io.cluster] =
                     [w \in Offsets |-> IF w < sectors * SectorWords THEN io.buffer[w] ELSE @[w]]]
    /\ io' = NextCluster
    /\ pc' = "loop"
    /\ UNCHANGED <<chain, cachedFAT, last_entry_sector_offset>>

\* The two calls of memcpy.  What a write puts past the cluster is in the buffer,
\* but is never written.
CopyOut ==
    /\ pc = "modify" /\ io.op = "read"
    /\ io' = [NextCluster EXCEPT
                !.data = @ \o [i \in 1 .. Effective |-> io.buffer[io.start + i - 1]]]
    /\ pc' = "loop"
    /\ UNCHANGED <<chain, card, cachedFAT, last_entry_sector_offset>>

CopyIn ==
    /\ pc = "modify" /\ io.op = "write"
    /\ io' = [io EXCEPT
                !.buffer = [w \in Offsets |->
                              IF w >= io.start /\ w < io.start + Effective
                              THEN <<io.data, io.index + w - io.start>> ELSE @[w]],
                !.rw = "write", !.cluster = chain[io.file][1], !.counter = 0]
    /\ pc' = "chain"
    /\ UNCHANGED <<chain, card, cachedFAT, last_entry_sector_offset>>

FatStep == \/ Loop \/ NextInChain \/ EndOfFile \/ ReadCluster \/ ReadFails
           \/ WriteCluster \/ CopyOut \/ CopyIn
-----------------------------------------------------------------------------
Words == (Clusters \cup Data) \X Nat

\* Types.  The length left never wraps around below zero.
FatTypeOK ==
    /\ chain \in Chains
    /\ card \in [Clusters -> [Offsets -> Words]]
    /\ cachedFAT \in [CachedEntries -> Clusters \cup {0, EndOfChain}]
    /\ last_entry_sector_offset \in Nat
    /\ pc \in {"return", "loop", "chain", "modify"}
    /\ io.op \in {"read", "write"} /\ io.rw \in {"read", "write"} /\ io.file \in Files
    /\ {io.seek, io.length, io.left, io.index, io.start,
        io.cluster_num, io.cluster, io.counter} \subseteq Nat
    /\ io.index + io.left = io.length

\* The cached sectors are those that last_entry_sector_offset says they are:
\* otherwise a later call of fat_get_table_entry follows another file's chain.
CacheIsTable == cachedFAT = TableSector(last_entry_sector_offset)

\* fat_readfile "returns only the requested data": the words that are in the file
\* from the offset on, in order, all of them unless the file or the card ends it.
ReadsTheFile ==
    pc = "return" /\ io.op = "read" =>
        /\ io.index = Len(io.data)
        /\ \A i \in 1 .. Len(io.data) :
              /\ io.seek + i <= FileLen(io.file)
              /\ io.data[i] = Word(io.file, io.seek + i - 1)
        /\ ~io.failed => io.index = io.length \/ io.seek + io.index >= FileLen(io.file)

\* fat_writefile changes no word of the card but those it was asked to write,
\* even if the card fails in the middle: neither another file, nor the words of a
\* cluster around them.
WritesInside ==
    [][\A c \in Clusters : \A w \in Offsets :
         card'[c][w] # card[c][w] =>
             \E k \in io.seek .. io.seek + io.length - 1 :
                 k < FileLen(io.file) /\ ClusterAt(io.file, k) = c /\ k % ClusterWords = w
      ]_fat_vars

\* "Writes a specified amount of bytes at a given offset in a file": a write that
\* says it wrote everything has.
WriteTaken ==
    pc = "return" /\ io.op = "write" /\ io.index = io.length =>
        \A i \in 0 .. io.length - 1 :
            io.seek + i < FileLen(io.file) => Word(io.file, io.seek + i) = <<io.data, i>>
=============================================================================
