-------------------------- MODULE DeviceFilesProofs --------------------------
(***************************************************************************)
(* Proofs about FatFiles and DeviceFiles, for cards of any size and layout *)
(* and calls of any length, as long as the table can be read: the blocks   *)
(* of the files may fail at any time.                                      *)
(***************************************************************************)
EXTENDS DeviceFiles, FiniteSetTheorems, TLAPS

TableReads == "table" \notin Faults

-----------------------------------------------------------------------------
(* Numbers and chains                                                      *)

\* A cluster has words.
LEMMA ClusterWordsPositive == ClusterWords \in Nat \ {0}
<1>1. SectorWords \in Nat \ {0} /\ SectorsPerCluster \in Nat \ {0}
    BY Geometry
<1> QED
    BY <1>1 DEF ClusterWords

\* The word m of cluster n of a file.
LEMMA Position ==
    ASSUME NEW d \in Nat \ {0}, NEW n \in Nat, NEW m \in 0 .. d - 1
    PROVE  (n * d + m) \div d = n /\ (n * d + m) % d = m
<1> DEFINE k == n * d + m
           q == k \div d
           r == k % d
<1>1. k \in Nat /\ q \in Int /\ r \in 0 .. d - 1 /\ k = d * q + r
    OBVIOUS
<1>2. d * n <= k /\ k < d * n + d /\ d * q <= k /\ k < d * q + d
    BY <1>1
<1> HIDE DEF k, q, r
<1>3. q <= n /\ n < q + 1
    BY <1>1, <1>2
<1>4. q = n
    BY <1>1, <1>3
<1>5. r = m
    BY <1>1, <1>4 DEF k
<1> QED
    BY <1>4, <1>5 DEF k, q, r

\* An offset of a file is in a cluster, at some place.
LEMMA Split ==
    ASSUME NEW d \in Nat \ {0}, NEW k \in Nat
    PROVE  k \div d \in Nat /\ k % d \in 0 .. d - 1 /\ (k \div d) * d + (k % d) = k
<1> DEFINE q == k \div d
           r == k % d
<1>1. q \in Nat /\ r \in 0 .. d - 1 /\ k = d * q + r
    OBVIOUS
<1> HIDE DEF q, r
<1>2. q * d + r = k
    BY <1>1
<1> QED
    BY <1>1, <1>2 DEF q, r

\* Clusters before another one end before it begins.
LEMMA ClustersInOrder ==
    ASSUME NEW d \in Nat \ {0}, NEW m \in Nat, NEW n \in Nat
    PROVE  /\ m <= n => m * d <= n * d
           /\ m < n => m * d + d <= n * d
<1>1. m <= n => m * d <= n * d
    OBVIOUS
<1>2. m < n => (m + 1) * d <= n * d
    OBVIOUS
<1>3. (m + 1) * d = m * d + d
    OBVIOUS
<1> QED
    BY <1>1, <1>2, <1>3

\* A file has at most as many clusters as the card.
LEMMA ChainLength ==
    ASSUME NEW ch \in Chains, NEW f \in Files
    PROVE  /\ ch[f] \in Seq(Clusters) /\ Len(ch[f]) \in 1 .. LastCluster
           /\ \A i \in 1 .. Len(ch[f]) : ch[f][i] \in Clusters
<1> DEFINE s == ch[f]
           n == Len(s)
           place == [i \in 1 .. n |-> s[i]]
<1>1. s \in Seq(Clusters) /\ s # << >>
    BY Layouts
<1>2. /\ n \in Nat \ {0}
      /\ \A i \in 1 .. n : s[i] \in Clusters
    BY <1>1
<1>3. \A i, j \in 1 .. n : s[i] = s[j] => i = j
    BY Layouts
<1> HIDE DEF n, s
<1>4. place \in Injection(1 .. n, Clusters)
    BY <1>2, <1>3 DEF Injection, IsInjective
<1>5. LastCluster \in Nat
    BY Geometry
<1>6. IsFiniteSet(2 .. LastCluster) /\ Cardinality(2 .. LastCluster) <= LastCluster
  <2>1. /\ IsFiniteSet(2 .. LastCluster)
        /\ Cardinality(2 .. LastCluster) = IF 2 > LastCluster THEN 0 ELSE LastCluster - 2 + 1
    BY <1>5, FS_Interval
  <2> QED
    BY <1>5, <2>1
<1>7. IsFiniteSet(1 .. n) /\ Cardinality(1 .. n) = n
    <2>1. /\ IsFiniteSet(1 .. n)
          /\ Cardinality(1 .. n) = IF 1 > n THEN 0 ELSE n - 1 + 1
      BY <1>2, FS_Interval
    <2> QED
      BY <1>2, <2>1
<1>8. Cardinality(1 .. n) <= Cardinality(Clusters)
    BY <1>4, <1>6, FS_Injection DEF Clusters
<1>9. n \in 1 .. LastCluster
  <2>1. Cardinality(Clusters) \in Nat
    BY <1>6, FS_CardinalityType DEF Clusters
  <2> QED
    BY <1>2, <1>5, <1>6, <1>7, <1>8, <2>1 DEF Clusters
<1> QED
    BY <1>1, <1>2, <1>9 DEF n, s

\* The entry of a cluster of a file leads to the next one, or ends the chain.
LEMMA EntryOfChain ==
    ASSUME chain \in Chains, NEW f \in Files, NEW i \in 1 .. Len(chain[f])
    PROVE  /\ chain[f][i] \in Clusters /\ InChain(chain[f][i])
           /\ Entry(chain[f][i]) = IF i = Len(chain[f]) THEN EndOfChain ELSE chain[f][i + 1]
<1> DEFINE c == chain[f][i]
           places == {p \in Files \X (1 .. LastCluster) :
                        p[2] <= Len(chain[p[1]]) /\ chain[p[1]][p[2]] = c}
<1>1. c \in Clusters /\ i \in 1 .. LastCluster
  <2>1. /\ Len(chain[f]) \in 1 .. LastCluster
        /\ \A j \in 1 .. Len(chain[f]) : chain[f][j] \in Clusters
    BY ChainLength
  <2>2. LastCluster \in Nat
    BY Geometry
  <2> QED
    BY <2>1, <2>2
<1>2. InChain(c)
    BY <1>1, Geometry DEF InChain, EndOfChain, Clusters
<1>3. places = {<<f, i>>}
  <2>1. <<f, i>> \in places
    BY <1>1
  <2>2. ASSUME NEW p \in places PROVE p = <<f, i>>
    <3>1. PICK g \in Files, j \in 1 .. LastCluster : p = <<g, j>>
      OBVIOUS
    <3>2. j \in 1 .. Len(chain[g]) /\ chain[g][j] = chain[f][i]
      <4>1. Len(chain[g]) \in 1 .. LastCluster
        BY ChainLength
      <4> QED
        BY <3>1, <4>1, Geometry
    <3>3. g = f /\ j = i
      BY <3>2, Layouts
    <3> QED
      BY <3>1, <3>3
  <2> QED
    BY <2>1, <2>2
<1>4. (CHOOSE p \in places : TRUE) = <<f, i>>
    BY <1>3
<1>5. Entry(c) = IF i = Len(chain[f]) THEN EndOfChain ELSE chain[f][i + 1]
  <2>1. Entry(c) = IF places = {} THEN 0
                   ELSE LET p == CHOOSE p \in places : TRUE
                        IN  IF p[2] = Len(chain[p[1]]) THEN EndOfChain ELSE chain[p[1]][p[2] + 1]
    BY DEF Entry
  <2> HIDE DEF places, c
  <2> QED
    BY <1>3, <1>4, <2>1
<1> QED
    BY <1>1, <1>2, <1>5

\* What the table says of a cluster, from the cached sector that holds its entry.
LEMMA CachedEntry ==
    ASSUME NEW n \in Nat, NEW fat, fat = TableSector(n \div EntriesPerSector)
    PROVE  fat[n % (CachedSectors * EntriesPerSector)] = Entry(n)
<1> DEFINE e == EntriesPerSector
<1>1. e \in Nat \ {0}
    BY Geometry
<1>2. CachedSectors * e = e
    BY <1>1 DEF CachedSectors
<1>3. (n \div e) * e + (n % e) = n /\ n % e \in CachedEntries
  <2>1. (n \div e) * e + (n % e) = n /\ n % e \in 0 .. e - 1
    BY <1>1, Split
  <2> QED
    BY <1>1, <1>2, <2>1 DEF CachedEntries
<1>4. fat[n % e] = Entry((n \div e) * e + (n % e))
    BY <1>3 DEF TableSector
<1> QED
    BY <1>2, <1>3, <1>4

-----------------------------------------------------------------------------
(* The invariant                                                           *)

\* The parts of a call in progress.
Fields == {"op", "file", "seek", "length", "data", "left", "index", "start", "cluster_num",
           "rw", "cluster", "counter", "failed", "buffer"}

Numbers == {"seek", "length", "left", "index", "start", "cluster_num", "cluster", "counter"}

\* The clusters of the file of the call; where the turn is in the file.
Clusters_of_call == chain[io.file]
Here == io.cluster_num * ClusterWords + io.start
Target == Clusters_of_call[io.cluster_num + 1]

\* Types.
StateOK ==
    /\ chain \in Chains
    /\ card \in [Clusters -> [Offsets -> Words]]
    /\ last_entry_sector_offset \in Nat
    /\ pc \in {"return", "loop", "chain", "modify"}
    /\ DOMAIN io = Fields
    /\ io.op \in {"read", "write"} /\ io.rw \in {"read", "write"}
    /\ \A n \in Numbers : io[n] \in Nat
    /\ io.index + io.left = io.length

\* A call in progress: its file and what it transfers.
CallOK ==
    /\ pc # "return" => io.file \in Files /\ io.start < ClusterWords
    /\ pc # "return" /\ io.op = "write" => io.data \in Data
    /\ io.rw = "write" => io.op = "write"
    /\ pc \in {"chain", "modify"} => io.left > 0
    /\ pc = "modify" => io.rw = "read"

\* Where a turn is in the file.  A write that does not start a cluster takes as
\* much as if it did, and falls behind.
InOrder ==
    pc # "return" /\ io.left > 0 =>
        /\ io.seek <= Here /\ Here <= io.seek + io.index
        /\ io.op = "read" => Here = io.seek + io.index

\* fat_transferfile is at the cluster that counter says.
Walk ==
    pc = "chain" =>
        /\ io.counter <= io.cluster_num
        /\ \/ io.counter < Len(Clusters_of_call) /\ io.cluster = Clusters_of_call[io.counter + 1]
           \/ io.counter = Len(Clusters_of_call) /\ io.cluster = EndOfChain

\* The buffer holds the cluster of the turn, but for the words that a write puts there.
Fetched ==
    /\ pc = "modify" => io.cluster_num < Len(Clusters_of_call) /\ io.buffer = card[Target]
    /\ pc = "chain" /\ io.rw = "write" =>
          /\ io.cluster_num < Len(Clusters_of_call)
          /\ io.buffer \in [Offsets -> Words]
          /\ \A w \in Offsets :
                w < io.start \/ w >= io.start + Effective => io.buffer[w] = card[Target][w]

\* What a read has returned so far.
ReadSoFar ==
    io.op = "read" =>
        /\ io.data \in Seq(Words) /\ Len(io.data) = io.index
        /\ \A i \in 1 .. io.index :
              io.seek + i <= FileLen(io.file) /\ io.data[i] = Word(io.file, io.seek + i - 1)

\* Why it returned.
Complete ==
    pc = "return" /\ io.op = "read" =>
        (~io.failed => io.index = io.length \/ io.seek + io.index >= FileLen(io.file))

\* The inductive invariant.
FatInv == /\ StateOK /\ CacheIsTable /\ CallOK /\ InOrder /\ Walk /\ Fetched
          /\ ReadSoFar /\ Complete

-----------------------------------------------------------------------------
(* The steps                                                               *)

\* The table does not change with the calls.
LEMMA TableSame ==
    ASSUME UNCHANGED chain
    PROVE  /\ \A c : Entry(c)' = Entry(c)
           /\ \A s : TableSector(s)' = TableSector(s)
<1>1. ASSUME NEW c PROVE Entry(c)' = Entry(c)
  <2> DEFINE places(ch) == {p \in Files \X (1 .. LastCluster) :
                              p[2] <= Len(ch[p[1]]) /\ ch[p[1]][p[2]] = c}
             first(ch) == CHOOSE p \in places(ch) : TRUE
             entry(ch) == IF places(ch) = {} THEN 0
                          ELSE IF first(ch)[2] = Len(ch[first(ch)[1]]) THEN EndOfChain
                               ELSE ch[first(ch)[1]][first(ch)[2] + 1]
  <2>1. Entry(c) = entry(chain) /\ Entry(c)' = entry(chain')
    BY DEF Entry
  <2> HIDE DEF entry
  <2> QED
    BY <2>1
<1>2. \A s : TableSector(s)' = TableSector(s)
    BY <1>1, Zenon DEF TableSector
<1> QED
    BY <1>1, <1>2

\* Neither does what is cached, most of the time.
LEMMA TableKept ==
    ASSUME UNCHANGED <<chain, cachedFAT, last_entry_sector_offset>>, CacheIsTable
    PROVE  CacheIsTable'
<1>1. \A s : TableSector(s)' = TableSector(s)
    BY TableSame
<1> QED
    BY <1>1, Zenon DEF CacheIsTable

\* A call's parts at its start.
LEMMA CallFields ==
    ASSUME NEW op, NEW f, NEW seek, NEW length, NEW data, Call(op, f, seek, length, data)
    PROVE  /\ pc = "return" /\ pc' = "loop"
           /\ DOMAIN io' = Fields
           /\ io'.op = op /\ io'.file = f /\ io'.seek = seek /\ io'.length = length
           /\ io'.data = data /\ io'.left = length /\ io'.index = 0
           /\ io'.start = seek % ClusterWords /\ io'.cluster_num = seek \div ClusterWords
           /\ io'.rw = "read" /\ io'.cluster = 0 /\ io'.counter = 0
           /\ UNCHANGED <<chain, card, cachedFAT, last_entry_sector_offset>>
    BY DEF Call, NoCall, Fields

\* A call of the devices' code starts at the word it is told to.
LEMMA CallStep ==
    ASSUME FatInv, NEW op \in {"read", "write"}, NEW f \in Files, NEW seek \in Nat,
           NEW length \in Nat, NEW data, Call(op, f, seek, length, data),
           op = "read" => data = << >>, op = "write" => data \in Data
    PROVE  FatInv'
<1>1. /\ pc' = "loop" /\ DOMAIN io' = Fields
      /\ io'.op = op /\ io'.file = f /\ io'.seek = seek /\ io'.length = length
      /\ io'.data = data /\ io'.left = length /\ io'.index = 0
      /\ io'.start = seek % ClusterWords /\ io'.cluster_num = seek \div ClusterWords
      /\ io'.rw = "read" /\ io'.cluster = 0 /\ io'.counter = 0
      /\ UNCHANGED <<chain, card, cachedFAT, last_entry_sector_offset>>
    BY CallFields
<1>2. /\ seek \div ClusterWords \in Nat /\ seek % ClusterWords \in 0 .. ClusterWords - 1
      /\ (seek \div ClusterWords) * ClusterWords + (seek % ClusterWords) = seek
    BY ClusterWordsPositive, Split
<1>3. StateOK'
  <2> DEFINE q == seek \div ClusterWords
             m == seek % ClusterWords
  <2>1. q \in Nat /\ m \in Nat /\ io'.cluster_num = q /\ io'.start = m
    BY <1>1, <1>2, ClusterWordsPositive
  <2> HIDE DEF q, m
  <2>2. \A n \in Numbers : io'[n] \in Nat
    BY <1>1, <2>1 DEF Numbers
  <2> QED
    BY <1>1, <2>2 DEF FatInv, StateOK
<1>4. CacheIsTable'
    BY <1>1, TableKept DEF FatInv
<1>5. CallOK'
    BY <1>1, <1>2, ClusterWordsPositive DEF CallOK
<1>6. InOrder'
  <2>1. Here' = seek
    BY <1>1, <1>2 DEF Here
  <2> QED
    BY <1>1, <2>1 DEF InOrder
<1>7. Walk' /\ Fetched' /\ Complete'
    BY <1>1 DEF Walk, Fetched, Complete
<1>8. ReadSoFar'
    BY <1>1 DEF ReadSoFar
<1> QED
    BY <1>3, <1>4, <1>5, <1>6, <1>7, <1>8 DEF FatInv

\* The loop goes on with the first cluster of the file, or the call is over.
LEMMA LoopStep == ASSUME FatInv, Loop PROVE FatInv'
<1>1. /\ pc = "loop" /\ UNCHANGED <<chain, card, cachedFAT, last_entry_sector_offset>>
      /\ IF io.left = 0 THEN pc' = "return" /\ io' = io
         ELSE /\ pc' = "chain"
              /\ io' = [io EXCEPT !.rw = "read", !.cluster = chain[io.file][1], !.counter = 0]
    BY DEF Loop
<1>2. CacheIsTable'
    BY <1>1, TableKept DEF FatInv
<1>3. CASE io.left = 0
  <2>1. pc' = "return" /\ io' = io
    BY <1>1, <1>3
  <2>2. io.index = io.length
    BY <1>3 DEF FatInv, StateOK, Numbers
  <2>3. StateOK'
    BY <1>1, <2>1 DEF FatInv, StateOK
  <2>4. CallOK' /\ InOrder' /\ Walk' /\ Fetched' /\ Complete'
    BY <2>1, <2>2 DEF FatInv, CallOK, InOrder, Walk, Fetched, Complete
  <2>5. ReadSoFar'
    BY <1>1, <2>1 DEF FatInv, ReadSoFar, FileLen, Word, ClusterAt
  <2> QED
    BY <1>2, <2>3, <2>4, <2>5 DEF FatInv
<1>4. CASE io.left # 0
  <2>1. /\ pc' = "chain" /\ DOMAIN io' = Fields
        /\ io'.op = io.op /\ io'.file = io.file /\ io'.seek = io.seek /\ io'.length = io.length
        /\ io'.data = io.data /\ io'.left = io.left /\ io'.index = io.index
        /\ io'.start = io.start /\ io'.cluster_num = io.cluster_num
        /\ io'.rw = "read" /\ io'.cluster = chain[io.file][1] /\ io'.counter = 0
    BY <1>1, <1>4 DEF FatInv, StateOK, Fields
  <2>2. io.file \in Files /\ Len(chain[io.file]) > 0 /\ chain[io.file][1] \in Clusters
    <3>1. io.file \in Files /\ chain \in Chains
        BY <1>1 DEF FatInv, CallOK, StateOK
    <3>2. LastCluster \in Nat
        BY Geometry
    <3>3. /\ Len(chain[io.file]) \in 1 .. LastCluster
          /\ \A i \in 1 .. Len(chain[io.file]) : chain[io.file][i] \in Clusters
        BY <3>1, ChainLength
    <3> QED
        BY <3>1, <3>2, <3>3
  <2>3. StateOK'
    <3>1. \A n \in Numbers : io'[n] \in Nat
        BY <2>1, <2>2, SMTT(30) DEF FatInv, StateOK, Numbers, Clusters
    <3> QED
        BY <1>1, <2>1, <3>1 DEF FatInv, StateOK
  <2>4. CallOK'
    BY <1>1, <1>4, <2>1 DEF FatInv, CallOK, StateOK, Numbers
  <2>5. InOrder'
    BY <1>1, <2>1 DEF FatInv, InOrder, Here
  <2>6. Walk'
    BY <1>1, <2>1, <2>2 DEF FatInv, StateOK, Numbers, Walk, Clusters_of_call
  <2>7. Fetched' /\ Complete'
    BY <2>1 DEF Fetched, Complete
  <2>8. ReadSoFar'
    BY <1>1, <2>1, ZenonT(60) DEF FatInv, ReadSoFar, FileLen, Word, ClusterAt
  <2> QED
    BY <1>2, <2>3, <2>4, <2>5, <2>6, <2>7, <2>8 DEF FatInv
<1> QED
    BY <1>3, <1>4

\* A step of the walk: the cache holds the sector that it names, and the entry leads on.
LEMMA NextInChainStep == ASSUME TableReads, FatInv, NextInChain PROVE FatInv'
<1>1. /\ pc = "chain" /\ pc' = "chain" /\ InChain(io.cluster) /\ io.counter # io.cluster_num
      /\ fat_get_table_entry(io.cluster) /\ UNCHANGED <<chain, card>>
    BY DEF NextInChain
<1>2. /\ chain \in Chains /\ io.file \in Files /\ io.cluster \in Nat /\ io.counter \in Nat
      /\ io.cluster_num \in Nat /\ DOMAIN io = Fields
    BY <1>1 DEF FatInv, StateOK, CallOK, Numbers
<1>3. PICK sector : sector = io.cluster \div EntriesPerSector
    OBVIOUS
<1>4. sector \in Nat
  <2>1. EntriesPerSector \in Nat \ {0}
    BY Geometry
  <2> QED
    BY <1>2, <1>3, <2>1
<1>5. last_entry_sector_offset' = sector /\ cachedFAT' = TableSector(sector)
  <2>1. last_entry_sector_offset' = sector /\ LoadTable(sector)
    BY <1>1, <1>3 DEF fat_get_table_entry
  <2>2. CASE Cached(sector)
    <3>1. sector = last_entry_sector_offset
        BY <1>4, <2>2 DEF Cached, CachedSectors, FatInv, StateOK
    <3> QED
        BY <2>1, <2>2, <3>1 DEF LoadTable, FatInv, CacheIsTable
  <2>3. CASE ~Cached(sector)
    BY <2>1, <2>3 DEF LoadTable, TableReads
  <2> QED
    BY <2>1, <2>2, <2>3
<1>6. CacheIsTable'
  <2>1. TableSector(sector)' = TableSector(sector)
    BY <1>1, TableSame
  <2> QED
    BY <1>5, <2>1 DEF CacheIsTable
<1> DEFINE ch == chain[io.file]
           k == io.counter + 1
<1>7. ch \in Seq(Clusters) /\ Len(ch) \in 1 .. LastCluster /\ LastCluster \in Nat
    BY <1>2, ChainLength, Geometry
<1>8. k \in 1 .. Len(ch) /\ io.cluster = ch[k] /\ io.counter < io.cluster_num
  <2>1. io.counter < Len(ch) /\ io.cluster = ch[k]
    BY <1>1, <1>7 DEF FatInv, Walk, Clusters_of_call, InChain, EndOfChain
  <2>2. io.counter < io.cluster_num
    BY <1>1, <1>2 DEF FatInv, Walk
  <2> QED
    BY <1>2, <1>7, <2>1, <2>2
<1>9. Entry(io.cluster) = IF k = Len(ch) THEN EndOfChain ELSE ch[k + 1]
    BY <1>2, <1>8, EntryOfChain
<1>10. cachedFAT'[io.cluster % (CachedSectors * EntriesPerSector)] = Entry(io.cluster)
    BY <1>2, <1>3, <1>5, CachedEntry
<1>11. /\ DOMAIN io' = Fields
       /\ io'.op = io.op /\ io'.file = io.file /\ io'.seek = io.seek /\ io'.length = io.length
       /\ io'.data = io.data /\ io'.left = io.left /\ io'.index = io.index
       /\ io'.start = io.start /\ io'.cluster_num = io.cluster_num /\ io'.rw = io.rw
       /\ io'.buffer = io.buffer
       /\ io'.cluster = Entry(io.cluster) /\ io'.counter = k
    BY <1>1, <1>2, <1>10 DEF fat_get_table_entry, Fields
<1>12. Entry(io.cluster) \in Nat
  <2>1. CASE k = Len(ch)
    BY <1>7, <1>9, <2>1 DEF EndOfChain
  <2>2. CASE k # Len(ch)
    <3>1. k + 1 \in 1 .. Len(ch)
        BY <1>7, <1>8, <2>2
    <3>2. ch[k + 1] \in Clusters
        BY <1>7, <3>1
    <3> QED
        BY <1>7, <1>9, <2>2, <3>2 DEF Clusters
  <2> QED
    BY <2>1, <2>2
<1>13. StateOK'
  <2>1. \A n \in Numbers : io'[n] \in Nat
    BY <1>8, <1>11, <1>12, SMTT(30) DEF FatInv, StateOK, Numbers
  <2> QED
    BY <1>1, <1>4, <1>5, <1>11, <2>1 DEF FatInv, StateOK
<1>14. CallOK' /\ InOrder'
    BY <1>1, <1>11 DEF FatInv, CallOK, InOrder, Here
<1>15. Walk'
  <2>1. Clusters_of_call' = ch
    BY <1>1, <1>11 DEF Clusters_of_call
  <2>2. k <= io.cluster_num
    BY <1>2, <1>8
  <2>3. CASE k = Len(ch)
    BY <1>9, <1>11, <2>1, <2>2, <2>3 DEF Walk
  <2>4. CASE k # Len(ch)
    <3>1. k < Len(ch)
        BY <1>7, <1>8, <2>4
    <3> QED
        BY <1>9, <1>11, <2>1, <2>2, <2>4, <3>1 DEF Walk
  <2> QED
    BY <2>3, <2>4
<1>16. Fetched' /\ Complete'
  <2>1. Clusters_of_call' = Clusters_of_call /\ Target' = Target /\ Effective' = Effective
    BY <1>1, <1>11 DEF Clusters_of_call, Target, Effective
  <2> QED
    BY <1>1, <1>11, <2>1 DEF FatInv, Fetched, Complete
<1>17. ReadSoFar'
    BY <1>1, <1>11 DEF FatInv, ReadSoFar, FileLen, Word, ClusterAt
<1> QED
    BY <1>6, <1>13, <1>14, <1>15, <1>16, <1>17 DEF FatInv

\* Where the walk has found the cluster of the turn.
LEMMA FoundTarget ==
    ASSUME FatInv, Found
    PROVE  /\ io.file \in Files /\ chain \in Chains /\ io.cluster_num \in Nat
           /\ io.cluster_num < Len(Clusters_of_call) /\ io.cluster = Target /\ Target \in Clusters
<1>1. pc = "chain" /\ InChain(io.cluster) /\ io.counter = io.cluster_num
    BY DEF Found
<1>2. io.file \in Files /\ chain \in Chains /\ io.cluster_num \in Nat
    BY <1>1 DEF FatInv, StateOK, CallOK, Numbers
<1>3. LastCluster \in Nat
    BY Geometry
<1>4. io.cluster_num < Len(Clusters_of_call) /\ io.cluster = Target
    BY <1>1, <1>3 DEF FatInv, Walk, Target, InChain, EndOfChain
<1>5. \A i \in 1 .. Len(Clusters_of_call) : Clusters_of_call[i] \in Clusters
    BY <1>2, ChainLength DEF Clusters_of_call
<1>6. Len(Clusters_of_call) \in Nat
    BY <1>2, <1>3, ChainLength DEF Clusters_of_call
<1>7. Target \in Clusters
    BY <1>2, <1>4, <1>5, <1>6 DEF Target
<1> QED
    BY <1>2, <1>4, <1>7

\* The cluster of the turn is read into the buffer.
LEMMA ReadClusterStep == ASSUME FatInv, ReadCluster PROVE FatInv'
<1>1. /\ pc = "chain" /\ pc' = "modify" /\ Found /\ io.rw = "read"
      /\ io' = [io EXCEPT !.buffer = card[io.cluster]]
      /\ UNCHANGED <<chain, card, cachedFAT, last_entry_sector_offset>>
    BY DEF ReadCluster, Found
<1>2. /\ DOMAIN io' = Fields
      /\ io'.op = io.op /\ io'.file = io.file /\ io'.seek = io.seek /\ io'.length = io.length
      /\ io'.data = io.data /\ io'.left = io.left /\ io'.index = io.index
      /\ io'.start = io.start /\ io'.cluster_num = io.cluster_num /\ io'.rw = io.rw
      /\ io'.cluster = io.cluster /\ io'.counter = io.counter
      /\ io'.buffer = card[io.cluster]
    BY <1>1 DEF FatInv, StateOK, Fields
<1>3. CacheIsTable'
    BY <1>1, TableKept DEF FatInv
<1>4. StateOK'
  <2>1. \A n \in Numbers : io'[n] \in Nat
    BY <1>2 DEF FatInv, StateOK, Numbers
  <2> QED
    BY <1>1, <1>2, <2>1 DEF FatInv, StateOK
<1>5. CallOK' /\ InOrder' /\ Walk' /\ Complete'
    BY <1>1, <1>2 DEF FatInv, CallOK, InOrder, Here, Walk, Complete
<1>6. Fetched'
  <2>1. Clusters_of_call' = Clusters_of_call /\ Target' = Target
    BY <1>1, <1>2 DEF Clusters_of_call, Target
  <2>2. io.cluster_num < Len(Clusters_of_call) /\ io.cluster = Target
    BY <1>1, FoundTarget
  <2> QED
    BY <1>1, <1>2, <2>1, <2>2 DEF Fetched
<1>7. ReadSoFar'
    BY <1>1, <1>2 DEF FatInv, ReadSoFar, FileLen, Word, ClusterAt
<1> QED
    BY <1>3, <1>4, <1>5, <1>6, <1>7 DEF FatInv

\* It cannot be read.
LEMMA ReadFailsStep == ASSUME FatInv, ReadFails PROVE FatInv'
<1>1. /\ pc = "chain" /\ pc' = "return" /\ io.rw = "read"
      /\ io' = [io EXCEPT !.failed = TRUE]
      /\ UNCHANGED <<chain, card, cachedFAT, last_entry_sector_offset>>
    BY DEF ReadFails, Found
<1>2. /\ DOMAIN io' = Fields
      /\ io'.op = io.op /\ io'.file = io.file /\ io'.seek = io.seek /\ io'.length = io.length
      /\ io'.data = io.data /\ io'.left = io.left /\ io'.index = io.index
      /\ io'.start = io.start /\ io'.cluster_num = io.cluster_num /\ io'.rw = io.rw
      /\ io'.cluster = io.cluster /\ io'.counter = io.counter
      /\ io'.failed = TRUE
    BY <1>1 DEF FatInv, StateOK, Fields
<1>3. CacheIsTable'
    BY <1>1, TableKept DEF FatInv
<1>4. StateOK'
  <2>1. \A n \in Numbers : io'[n] \in Nat
    BY <1>2 DEF FatInv, StateOK, Numbers
  <2> QED
    BY <1>1, <1>2, <2>1 DEF FatInv, StateOK
<1>5. CallOK' /\ InOrder' /\ Walk' /\ Fetched' /\ Complete'
    BY <1>1, <1>2 DEF FatInv, CallOK, InOrder, Walk, Fetched, Complete
<1>6. ReadSoFar'
    BY <1>1, <1>2 DEF FatInv, ReadSoFar, FileLen, Word, ClusterAt
<1> QED
    BY <1>3, <1>4, <1>5, <1>6 DEF FatInv

\* The chain ends before the offset: the read is as long as the file.  A write has
\* found that before it changed anything.
LEMMA EndOfFileStep == ASSUME FatInv, EndOfFile PROVE FatInv'
<1>1. /\ pc = "chain" /\ ~InChain(io.cluster)
      /\ UNCHANGED <<chain, card, cachedFAT, last_entry_sector_offset>>
    BY DEF EndOfFile
<1>2. /\ io.file \in Files /\ chain \in Chains
      /\ io.cluster_num \in Nat /\ io.start \in Nat /\ io.seek \in Nat /\ io.index \in Nat
      /\ io.counter \in Nat /\ io.left > 0
    BY <1>1 DEF FatInv, StateOK, CallOK, Numbers
<1> DEFINE n == Len(Clusters_of_call)
<1>3. LastCluster \in Nat /\ n \in 1 .. LastCluster
    BY <1>2, ChainLength, Geometry DEF Clusters_of_call
<1>4. io.counter = n /\ n <= io.cluster_num
  <2>1. io.counter <= io.cluster_num
    BY <1>1 DEF FatInv, Walk
  <2>2. CASE io.counter < n /\ io.cluster = Clusters_of_call[io.counter + 1]
    <3>1. io.counter + 1 \in 1 .. n
        BY <1>2, <1>3, <2>2
    <3>2. InChain(io.cluster)
        BY <1>2, <2>2, <3>1, EntryOfChain DEF Clusters_of_call
    <3> QED
        BY <1>1, <3>2
  <2> QED
    BY <1>1, <2>1, <2>2 DEF FatInv, Walk
<1>5. io.rw = "read"
  <2>1. io.rw = "write" => io.cluster_num < n
    BY <1>1 DEF FatInv, Fetched
  <2>2. io.rw # "write"
    BY <1>2, <1>3, <1>4, <2>1
  <2> QED
    BY <2>2 DEF FatInv, StateOK
<1>6. pc' = "return" /\ io' = io
    BY <1>5 DEF EndOfFile
<1>7. io.op = "read" => io.seek + io.index >= FileLen(io.file)
  <2>1. SUFFICES ASSUME io.op = "read" PROVE io.seek + io.index >= FileLen(io.file)
    OBVIOUS
  <2>2. Here = io.seek + io.index
    BY <1>1, <1>2, <2>1 DEF FatInv, InOrder
  <2>3. n * ClusterWords <= io.cluster_num * ClusterWords
    BY <1>2, <1>3, <1>4, ClusterWordsPositive, ClustersInOrder
  <2>4. io.cluster_num * ClusterWords \in Nat /\ n * ClusterWords \in Nat
    BY <1>2, <1>3, ClusterWordsPositive
  <2>5. FileLen(io.file) = n * ClusterWords
    BY DEF FileLen, Clusters_of_call
  <2>6. io.seek + io.index = io.cluster_num * ClusterWords + io.start
    BY <2>2 DEF Here
  <2> HIDE DEF n
  <2> QED
    BY <1>2, <2>3, <2>4, <2>5, <2>6
<1>8. CacheIsTable'
    BY <1>1, TableKept DEF FatInv
<1>9. StateOK'
    BY <1>1, <1>6 DEF FatInv, StateOK
<1>10. CallOK' /\ InOrder' /\ Walk' /\ Fetched'
    BY <1>1, <1>5, <1>6 DEF FatInv, CallOK, InOrder, Walk, Fetched
<1>11. ReadSoFar' /\ Complete'
    BY <1>1, <1>6, <1>7 DEF FatInv, ReadSoFar, Complete, FileLen, Word, ClusterAt
<1> QED
    BY <1>8, <1>9, <1>10, <1>11 DEF FatInv

\* What a turn takes, and where the next one starts.  A write that does not start
\* a cluster is given the words of a whole one.
LEMMA Turn ==
    ASSUME FatInv, pc \in {"chain", "modify"}
    PROVE  /\ Effective \in Nat /\ Effective <= io.left
           /\ io.op = "read" => io.start + Effective <= ClusterWords
           /\ io.left - Effective > 0 =>
                 /\ io.seek <= (io.cluster_num + 1) * ClusterWords
                 /\ (io.cluster_num + 1) * ClusterWords <= io.seek + (io.index + Effective)
                 /\ io.op = "read" =>
                       (io.cluster_num + 1) * ClusterWords = io.seek + (io.index + Effective)
<1> DEFINE p == io.cluster_num * ClusterWords
           next == (io.cluster_num + 1) * ClusterWords
<1>1. /\ io.left \in Nat /\ io.index \in Nat /\ io.seek \in Nat /\ io.start \in Nat
      /\ io.cluster_num \in Nat /\ io.start < ClusterWords /\ io.left > 0
      /\ io.op \in {"read", "write"}
    BY DEF FatInv, StateOK, CallOK, Numbers
<1>2. ClusterWords \in Nat \ {0} /\ p \in Nat /\ next = p + ClusterWords
    BY <1>1, ClusterWordsPositive
<1>3. /\ io.seek <= p + io.start /\ p + io.start <= io.seek + io.index
      /\ io.op = "read" => p + io.start = io.seek + io.index
    BY <1>1 DEF FatInv, InOrder, Here
<1> HIDE DEF p
<1> SUFFICES /\ Effective \in Nat /\ Effective <= io.left
             /\ io.op = "read" => io.start + Effective <= ClusterWords
             /\ io.left - Effective > 0 =>
                   /\ io.seek <= next /\ next <= io.seek + (io.index + Effective)
                   /\ io.op = "read" => next = io.seek + (io.index + Effective)
    OBVIOUS
<1> HIDE DEF next
<1>4. CASE io.op = "read"
  <2>1. Effective = IF ClusterWords - io.start < io.left THEN ClusterWords - io.start
                                                        ELSE io.left
    BY <1>4 DEF Effective, Shorter
  <2>2. CASE ClusterWords - io.start < io.left
    BY <1>1, <1>2, <1>3, <1>4, <2>1, <2>2
  <2>3. CASE ~(ClusterWords - io.start < io.left)
    BY <1>1, <1>2, <1>3, <1>4, <2>1, <2>3
  <2> QED
    BY <2>2, <2>3
<1>5. CASE io.op = "write"
  <2>1. Effective = IF ClusterWords < io.left THEN ClusterWords ELSE io.left
    BY <1>5 DEF Effective, Shorter
  <2> QED
    BY <1>1, <1>2, <1>3, <1>5, <2>1
<1> QED
    BY <1>1, <1>4, <1>5

\* The parts of the call after a turn.
AfterTurn ==
    /\ DOMAIN io' = Fields
    /\ io'.op = io.op /\ io'.file = io.file /\ io'.seek = io.seek /\ io'.length = io.length
    /\ io'.rw = io.rw /\ io'.cluster = io.cluster /\ io'.counter = io.counter
    /\ io'.left = io.left - Effective /\ io'.index = io.index + Effective
    /\ io'.start = 0 /\ io'.cluster_num = io.cluster_num + 1

\* The end of a turn, but for what it did to the card and what a read returned.
LEMMA AfterTurnOK ==
    ASSUME FatInv, pc \in {"chain", "modify"}, pc' = "loop", AfterTurn,
           io.op = "write" => io'.data = io.data,
           UNCHANGED <<chain, cachedFAT, last_entry_sector_offset>>,
           card' \in [Clusters -> [Offsets -> Words]]
    PROVE  StateOK' /\ CacheIsTable' /\ CallOK' /\ InOrder' /\ Walk' /\ Fetched' /\ Complete'
<1>1. /\ Effective \in Nat /\ Effective <= io.left
      /\ io.left - Effective > 0 =>
            /\ io.seek <= (io.cluster_num + 1) * ClusterWords
            /\ (io.cluster_num + 1) * ClusterWords <= io.seek + (io.index + Effective)
            /\ io.op = "read" =>
                  (io.cluster_num + 1) * ClusterWords = io.seek + (io.index + Effective)
    BY Turn
<1>2. /\ io.left \in Nat /\ io.index \in Nat /\ io.cluster_num \in Nat
      /\ io.index + io.left = io.length
    BY DEF FatInv, StateOK, Numbers
<1>3. StateOK'
  <2>1. /\ io'.left \in Nat /\ io'.index \in Nat /\ io'.cluster_num \in Nat /\ io'.start \in Nat
        /\ io'.index + io'.left = io'.length
    BY <1>1, <1>2 DEF AfterTurn
  <2>2. \A n \in Numbers : io'[n] \in Nat
    BY <2>1 DEF FatInv, StateOK, Numbers, AfterTurn
  <2> QED
    BY <2>1, <2>2 DEF FatInv, StateOK, AfterTurn
<1>4. CacheIsTable'
    BY TableKept DEF FatInv
<1>5. CallOK'
  <2>1. 0 < ClusterWords
    BY ClusterWordsPositive
  <2> QED
    BY <2>1 DEF FatInv, CallOK, AfterTurn
<1>6. InOrder'
  <2>1. Here' = (io.cluster_num + 1) * ClusterWords
    BY <1>2, ClusterWordsPositive DEF Here, AfterTurn
  <2> QED
    BY <1>1, <2>1 DEF InOrder, AfterTurn
<1>7. Walk' /\ Fetched' /\ Complete'
    BY DEF Walk, Fetched, Complete
<1> QED
    BY <1>3, <1>4, <1>5, <1>6, <1>7

\* The cluster of the turn is written: all of it, or some of its sectors.
LEMMA WriteClusterStep == ASSUME FatInv, WriteCluster PROVE FatInv'
<1>1. /\ pc = "chain" /\ pc' = "loop" /\ Found /\ io.rw = "write" /\ io.op = "write"
      /\ io' = NextCluster
      /\ UNCHANGED <<chain, cachedFAT, last_entry_sector_offset>>
    BY DEF WriteCluster, Found, FatInv, CallOK
<1>2. PICK sectors \in Nat :
          card' = [card EXCEPT ![io.cluster] =
                     [w \in Offsets |-> IF w < sectors * SectorWords THEN io.buffer[w] ELSE @[w]]]
  <2> DEFINE written == IF "data" \in Faults THEN 0 .. SectorsPerCluster
                                             ELSE {SectorsPerCluster}
  <2>1. written \subseteq Nat
    BY Geometry
  <2> QED
    BY <2>1 DEF WriteCluster
<1>3. AfterTurn /\ io'.data = io.data
    BY <1>1 DEF NextCluster, AfterTurn, FatInv, StateOK, Fields
<1>4. card' \in [Clusters -> [Offsets -> Words]]
  <2>1. card \in [Clusters -> [Offsets -> Words]] /\ io.buffer \in [Offsets -> Words]
    BY <1>1 DEF FatInv, StateOK, Fetched
  <2>2. io.cluster \in Clusters
    BY <1>1, FoundTarget
  <2> DEFINE new == [w \in Offsets |-> IF w < sectors * SectorWords THEN io.buffer[w]
                                                                   ELSE card[io.cluster][w]]
  <2>3. new \in [Offsets -> Words]
    BY <2>1, <2>2
  <2>4. card' = [card EXCEPT ![io.cluster] = new]
    BY <1>2
  <2> HIDE DEF new
  <2> QED
    BY <2>1, <2>2, <2>3, <2>4
<1>5. StateOK' /\ CacheIsTable' /\ CallOK' /\ InOrder' /\ Walk' /\ Fetched' /\ Complete'
    BY <1>1, <1>3, <1>4, AfterTurnOK
<1>6. ReadSoFar'
    BY <1>1, <1>3 DEF ReadSoFar, AfterTurn
<1> QED
    BY <1>5, <1>6 DEF FatInv

\* The words of the turn are put into the buffer.
LEMMA CopyInStep == ASSUME FatInv, CopyIn PROVE FatInv'
<1>1. /\ pc = "modify" /\ pc' = "chain" /\ io.op = "write"
      /\ io' = [io EXCEPT
                !.buffer = [w \in Offsets |->
                              IF w >= io.start /\ w < io.start + Effective
                              THEN <<io.data, io.index + w - io.start>> ELSE @[w]],
                !.rw = "write", !.cluster = chain[io.file][1], !.counter = 0]
      /\ UNCHANGED <<chain, card, cachedFAT, last_entry_sector_offset>>
    BY DEF CopyIn
<1> DEFINE new == [w \in Offsets |-> IF w >= io.start /\ w < io.start + Effective
                                     THEN <<io.data, io.index + w - io.start>> ELSE io.buffer[w]]
<1>2. /\ DOMAIN io' = Fields
      /\ io'.op = io.op /\ io'.file = io.file /\ io'.seek = io.seek /\ io'.length = io.length
      /\ io'.data = io.data /\ io'.left = io.left /\ io'.index = io.index
      /\ io'.start = io.start /\ io'.cluster_num = io.cluster_num /\ io'.rw = "write"
      /\ io'.cluster = chain[io.file][1] /\ io'.counter = 0 /\ io'.buffer = new
    BY <1>1 DEF FatInv, StateOK, Fields
<1> HIDE DEF new
<1>3. /\ io.file \in Files /\ chain \in Chains /\ io.data \in Data /\ io.index \in Nat
      /\ io.start \in Nat /\ io.cluster_num \in Nat /\ io.buffer = card[Target]
      /\ io.cluster_num < Len(Clusters_of_call)
    BY <1>1 DEF FatInv, StateOK, CallOK, Fetched, Numbers
<1>4. /\ Len(Clusters_of_call) > 0 /\ Clusters_of_call[1] \in Clusters /\ Target \in Clusters
  <2>1. /\ Len(Clusters_of_call) \in 1 .. LastCluster /\ LastCluster \in Nat
        /\ \A i \in 1 .. Len(Clusters_of_call) : Clusters_of_call[i] \in Clusters
    BY <1>3, ChainLength, Geometry DEF Clusters_of_call
  <2>2. io.cluster_num + 1 \in 1 .. Len(Clusters_of_call) /\ 1 \in 1 .. Len(Clusters_of_call)
    BY <1>3, <2>1
  <2> QED
    BY <2>1, <2>2 DEF Target
<1>5. CacheIsTable'
    BY <1>1, TableKept DEF FatInv
<1>6. StateOK'
  <2>1. io'.cluster \in Nat
    BY <1>2, <1>4 DEF Clusters_of_call, Clusters
  <2>2. \A n \in Numbers : io'[n] \in Nat
    BY <1>2, <2>1 DEF FatInv, StateOK, Numbers
  <2> QED
    BY <1>1, <1>2, <2>2 DEF FatInv, StateOK
<1>7. CallOK' /\ InOrder' /\ Complete'
    BY <1>1, <1>2 DEF FatInv, CallOK, InOrder, Here, Complete
<1>8. Walk'
    BY <1>1, <1>2, <1>3, <1>4 DEF Walk, Clusters_of_call
<1>9. Fetched'
  <2>1. Clusters_of_call' = Clusters_of_call /\ Target' = Target /\ Effective' = Effective
    BY <1>1, <1>2 DEF Clusters_of_call, Target, Effective
  <2>2. io.buffer \in [Offsets -> Words]
    BY <1>3, <1>4 DEF FatInv, StateOK
  <2>3. \A w \in Offsets : w \in Int /\ (w >= io.start => io.index + w - io.start \in Nat)
    BY <1>3 DEF Offsets
  <2>4. new \in [Offsets -> Words]
    BY <1>3, <2>2, <2>3 DEF new, Words
  <2>5. Effective \in Nat
    BY <1>1, Turn
  <2>6. ASSUME NEW w \in Offsets, w < io.start \/ w >= io.start + Effective
        PROVE  new[w] = card[Target][w]
    <3>1. ~(w >= io.start /\ w < io.start + Effective)
        BY <1>3, <2>3, <2>5, <2>6
    <3>2. new[w] = io.buffer[w]
        BY <3>1 DEF new
    <3> QED
        BY <1>3, <3>2
  <2> QED
    BY <1>1, <1>2, <1>3, <2>1, <2>4, <2>6 DEF Fetched
<1>10. ReadSoFar'
    BY <1>1, <1>2 DEF ReadSoFar
<1> QED
    BY <1>5, <1>6, <1>7, <1>8, <1>9, <1>10 DEF FatInv

\* Word m of a cluster of a file, as an offset of the file.
LEMMA WordOfCluster ==
    \A f \in Files, n \in Nat, m \in 0 .. ClusterWords - 1 :
        /\ (n * ClusterWords + m) \div ClusterWords = n
        /\ (n * ClusterWords + m) % ClusterWords = m
        /\ ClusterAt(f, n * ClusterWords + m) = chain[f][n + 1]
        /\ Word(f, n * ClusterWords + m) = card[chain[f][n + 1]][m]
<1> SUFFICES ASSUME NEW f \in Files, NEW n \in Nat, NEW m \in 0 .. ClusterWords - 1
             PROVE  /\ (n * ClusterWords + m) \div ClusterWords = n
                    /\ (n * ClusterWords + m) % ClusterWords = m
                    /\ ClusterAt(f, n * ClusterWords + m) = chain[f][n + 1]
                    /\ Word(f, n * ClusterWords + m) = card[chain[f][n + 1]][m]
    BY Zenon
<1> DEFINE k == n * ClusterWords + m
<1>1. k \div ClusterWords = n /\ k % ClusterWords = m
    BY ClusterWordsPositive, Position
<1> HIDE DEF k
<1>2. ClusterAt(f, k) = chain[f][n + 1] /\ Word(f, k) = card[chain[f][n + 1]][m]
    BY <1>1 DEF ClusterAt, Word
<1> QED
    BY <1>1, <1>2 DEF k

\* A read takes the words of the turn from the buffer.
LEMMA CopyOutStep == ASSUME FatInv, CopyOut PROVE FatInv'
<1> DEFINE taken == [i \in 1 .. Effective |-> io.buffer[io.start + i - 1]]
<1>1. /\ pc = "modify" /\ pc' = "loop" /\ io.op = "read"
      /\ io' = [NextCluster EXCEPT !.data = @ \o taken]
      /\ UNCHANGED <<chain, card, cachedFAT, last_entry_sector_offset>>
    BY DEF CopyOut
<1> HIDE DEF taken
<1>2. AfterTurn /\ io'.data = io.data \o taken
    BY <1>1 DEF NextCluster, AfterTurn, FatInv, StateOK, Fields
<1>3. card \in [Clusters -> [Offsets -> Words]]
    BY DEF FatInv, StateOK
<1>4. StateOK' /\ CacheIsTable' /\ CallOK' /\ InOrder' /\ Walk' /\ Fetched' /\ Complete'
    BY <1>1, <1>2, <1>3, AfterTurnOK
<1>5. /\ io.file \in Files /\ chain \in Chains /\ io.cluster_num \in Nat /\ io.start \in Nat
      /\ io.start < ClusterWords /\ io.seek \in Nat /\ io.index \in Nat /\ io.left > 0
      /\ io.cluster_num < Len(Clusters_of_call) /\ io.buffer = card[Target]
    BY <1>1 DEF FatInv, StateOK, CallOK, Fetched, Numbers
<1>6. Effective \in Nat /\ io.start + Effective <= ClusterWords
    BY <1>1, Turn
<1>7. io.cluster_num * ClusterWords + io.start = io.seek + io.index
    BY <1>1, <1>5 DEF FatInv, InOrder, Here
<1>8. Len(Clusters_of_call) \in Nat /\ Target \in Clusters
  <2>1. /\ Len(Clusters_of_call) \in 1 .. LastCluster /\ LastCluster \in Nat
        /\ \A i \in 1 .. Len(Clusters_of_call) : Clusters_of_call[i] \in Clusters
    BY <1>5, ChainLength, Geometry DEF Clusters_of_call
  <2>2. io.cluster_num + 1 \in 1 .. Len(Clusters_of_call)
    BY <1>5, <2>1
  <2> QED
    BY <2>1, <2>2 DEF Target
<1>9. ClusterWords \in Nat \ {0}
    BY ClusterWordsPositive
<1>10. ASSUME NEW i \in 1 .. Effective
       PROVE  /\ taken[i] \in Words
              /\ io.seek + (io.index + i) <= FileLen(io.file)
              /\ taken[i] = Word(io.file, io.seek + (io.index + i) - 1)
  <2> DEFINE m == io.start + i - 1
             k == io.seek + (io.index + i) - 1
             n == Len(Clusters_of_call)
             p == io.cluster_num * ClusterWords
  <2>1. m \in 0 .. ClusterWords - 1
    BY <1>5, <1>6, <1>9
  <2>2. p \in Nat /\ k = p + m
    <3>1. p \in Nat /\ p + io.start = io.seek + io.index
        BY <1>5, <1>7, <1>9
    <3>2. i \in Int /\ io.start \in Int /\ io.seek \in Int /\ io.index \in Int
        BY <1>5, <1>6
    <3> HIDE DEF p
    <3> QED
        BY <3>1, <3>2
  <2>3. taken[i] = card[Target][m] /\ taken[i] \in Words
    <3>1. taken[i] = io.buffer[m]
        BY <1>6 DEF taken
    <3>2. m \in Offsets
        BY <2>1 DEF Offsets
    <3> QED
        BY <1>3, <1>5, <1>8, <3>1, <3>2
  <2>4. Word(io.file, k) = card[Target][m]
    <3> HIDE DEF k, m
    <3>1. k = io.cluster_num * ClusterWords + m
        BY <2>2
    <3>2. /\ io.file \in Files /\ io.cluster_num \in Nat
          /\ m \in 0 .. ClusterWords - 1
        BY <1>5, <2>1
    <3>3. Word(io.file, k) = card[chain[io.file][io.cluster_num + 1]][m]
      <4>1. Word(io.file, io.cluster_num * ClusterWords + m)
               = card[chain[io.file][io.cluster_num + 1]][m]
        BY <3>2, WordOfCluster, Zenon
      <4> QED
        BY <3>1, <4>1, Zenon
    <3> QED
        BY <3>3 DEF Target, Clusters_of_call
  <2>5. p + ClusterWords <= n * ClusterWords /\ n * ClusterWords \in Nat
    BY <1>5, <1>8, <1>9, ClustersInOrder, SMTT(30)
  <2>6. FileLen(io.file) = n * ClusterWords
    BY DEF FileLen, Clusters_of_call
  <2>7. k + 1 = io.seek + (io.index + i)
    BY <1>5
  <2> HIDE DEF m, p, n
  <2>8. k + 1 <= FileLen(io.file)
    BY <1>9, <2>1, <2>2, <2>5, <2>6
  <2> QED
    BY <2>3, <2>4, <2>7, <2>8
<1>11. ReadSoFar'
  <2>1. /\ io.data \in Seq(Words) /\ Len(io.data) = io.index
        /\ \A i \in 1 .. io.index :
              io.seek + i <= FileLen(io.file) /\ io.data[i] = Word(io.file, io.seek + i - 1)
    BY <1>1 DEF FatInv, ReadSoFar
  <2>2. taken \in Seq(Words) /\ Len(taken) = Effective
    <3>1. taken \in [1 .. Effective -> Words]
        BY <1>10 DEF taken
    <3> QED
        BY <1>6, <3>1
  <2>3. /\ io'.data \in Seq(Words) /\ Len(io'.data) = io.index + Effective
        /\ \A i \in 1 .. io.index + Effective :
              io'.data[i] = IF i <= io.index THEN io.data[i] ELSE taken[i - io.index]
    <3> DEFINE s == io.data
               t == taken
    <3>1. s \in Seq(Words) /\ t \in Seq(Words) /\ Len(s) = io.index /\ Len(t) = Effective
        BY <2>1, <2>2
    <3>2. io'.data = s \o t
        BY <1>2
    <3> HIDE DEF s, t
    <3>3. /\ s \o t \in Seq(Words) /\ Len(s \o t) = Len(s) + Len(t)
          /\ \A i \in 1 .. Len(s) + Len(t) :
                (s \o t)[i] = IF i <= Len(s) THEN s[i] ELSE t[i - Len(s)]
        BY <3>1, SMTT(30)
    <3> QED
        BY <3>1, <3>2, <3>3 DEF s, t
  <2>4. /\ FileLen(io.file)' = FileLen(io.file) /\ io'.file = io.file /\ io'.seek = io.seek
        /\ io'.op = io.op /\ io'.index = io.index + Effective
        /\ \A k : Word(io.file, k)' = Word(io.file, k)
    BY <1>1, <1>2 DEF AfterTurn, FileLen, Word, ClusterAt
  <2>5. ASSUME NEW i \in 1 .. io.index + Effective
        PROVE  io.seek + i <= FileLen(io.file) /\ io'.data[i] = Word(io.file, io.seek + i - 1)
    <3>1. CASE i <= io.index
      <4>1. i \in 1 .. io.index
        BY <1>5, <1>6, <3>1
      <4>2. io'.data[i] = io.data[i]
        BY <2>3, <3>1
      <4> QED
        BY <2>1, <4>1, <4>2
    <3>2. CASE i > io.index
      <4>1. PICK j \in 1 .. Effective : i = io.index + j
        <5>1. i - io.index \in 1 .. Effective /\ i = io.index + (i - io.index)
            BY <1>5, <1>6, <3>2
        <5> QED
            BY <5>1
      <4>2. io'.data[i] = taken[j]
        BY <1>5, <1>6, <2>3, <3>2, <4>1
      <4> QED
        BY <1>10, <4>1, <4>2
    <3> QED
        BY <1>5, <1>6, <3>1, <3>2
  <2> QED
    BY <2>3, <2>4, <2>5 DEF ReadSoFar
<1> QED
    BY <1>4, <1>11 DEF FatInv

-----------------------------------------------------------------------------
(* The theorems                                                            *)

\* At the start the first sector of the table is cached.
LEMMA FatInitial == ASSUME TableReads, FatInit PROVE FatInv
<1>1. /\ chain \in Chains /\ card = [c \in Clusters |-> [w \in Offsets |-> <<c, w>>]]
      /\ cachedFAT = TableSector(0) /\ last_entry_sector_offset = 0
      /\ pc = "return" /\ io = NoCall
    BY DEF FatInit, TableReads
<1>2. /\ DOMAIN io = Fields /\ io.op = "read" /\ io.seek = 0 /\ io.length = 0
      /\ io.data = << >> /\ io.left = 0 /\ io.index = 0 /\ io.start = 0 /\ io.cluster_num = 0
      /\ io.rw = "read" /\ io.cluster = 0 /\ io.counter = 0
    BY <1>1 DEF NoCall, Fields
<1>3. StateOK
  <2>1. \A c \in Clusters, w \in Offsets : <<c, w>> \in Words
    BY ClusterWordsPositive DEF Words, Offsets
  <2>2. card \in [Clusters -> [Offsets -> Words]]
    BY <1>1, <2>1
  <2>3. \A n \in Numbers : io[n] \in Nat
    BY <1>2 DEF Numbers
  <2> QED
    BY <1>1, <1>2, <2>2, <2>3 DEF StateOK
<1>4. CacheIsTable
    BY <1>1 DEF CacheIsTable
<1>5. CallOK /\ InOrder /\ Walk /\ Fetched /\ Complete
    BY <1>1, <1>2 DEF CallOK, InOrder, Walk, Fetched, Complete
<1>6. ReadSoFar
    BY <1>2 DEF ReadSoFar
<1> QED
    BY <1>3, <1>4, <1>5, <1>6 DEF FatInv

\* Where the devices' code reads and writes.
LEMMA DeviceOffsets ==
    /\ \A b \in 0 .. TapeBlocks : MarkerOffset(b) \in Nat /\ TapeBlockOffset(b) \in Nat
    /\ \A p \in Positions : seek_disk_block(p[1], p[2], p[3]) \in Nat
<1>1. BlockWords \in Nat /\ TapeBlocks \in Nat /\ Cylinders \in Nat /\ Heads \in Nat
      /\ Sectors \in Nat
    BY DeviceSizes
<1>2. ASSUME NEW b \in 0 .. TapeBlocks PROVE MarkerOffset(b) \in Nat /\ TapeBlockOffset(b) \in Nat
  <2>1. b \in Nat /\ b * BlockWords \in Nat
    BY <1>1
  <2> QED
    BY <2>1 DEF MarkerOffset, TapeBlockOffset
<1>3. ASSUME NEW p \in Positions PROVE seek_disk_block(p[1], p[2], p[3]) \in Nat
  <2>1. p[1] \in Nat /\ p[2] \in Nat /\ p[3] \in Nat
    BY <1>1, <1>3 DEF Positions
  <2>2. p[2] * Cylinders \in Nat /\ p[1] * Sectors \in Nat
    BY <1>1, <2>1
  <2> DEFINE block == p[2] * Cylinders + p[1] * Sectors + p[3]
  <2>3. block \in Nat
    BY <2>1, <2>2
  <2> HIDE DEF block
  <2>4. block * BlockWords \in Nat
    BY <1>1, <2>3
  <2>5. 7 + block * BlockWords \in Nat
    BY <2>4
  <2> QED
    BY <2>5 DEF seek_disk_block, block
<1> QED
    BY <1>2, <1>3

\* A new call is of a file of a device, at an offset of it.
LEMMA NewCall ==
    ASSUME NEW f \in Files,
           \/ ReadTapeId(f) \/ ReadDiskHeader(f) \/ update_tape_head(f) \/ read_tape_block(f)
           \/ read_disk_block(f) \/ write_disk_block(f)
    PROVE  \E op \in {"read", "write"}, seek \in Nat, length \in Nat, data \in Data \cup {<< >>} :
              /\ Call(op, f, seek, length, data)
              /\ op = "read" => data = << >>
              /\ op = "write" => data \in Data
<1>1. BlockWords \in Nat /\ TapeBlocks \in Nat
    BY DeviceSizes
<1>2. CASE ReadTapeId(f)
    BY <1>2 DEF ReadTapeId
<1>3. CASE ReadDiskHeader(f)
    BY <1>3 DEF ReadDiskHeader
<1>4. CASE update_tape_head(f)
  <2>1. PICK b \in 1 .. TapeBlocks : Call("read", f, MarkerOffset(b), 1, << >>)
    BY <1>4 DEF update_tape_head
  <2>2. MarkerOffset(b) \in Nat
    BY <1>1, DeviceOffsets
  <2> QED
    BY <2>1, <2>2
<1>5. CASE read_tape_block(f)
  <2>1. PICK b \in 0 .. TapeBlocks : Call("read", f, TapeBlockOffset(b), BlockWords, << >>)
    BY <1>5 DEF read_tape_block
  <2>2. TapeBlockOffset(b) \in Nat
    BY DeviceOffsets
  <2> QED
    BY <1>1, <2>1, <2>2
<1>6. CASE read_disk_block(f)
  <2>1. PICK p \in Positions :
            Call("read", f, seek_disk_block(p[1], p[2], p[3]), BlockWords, << >>)
    BY <1>6 DEF read_disk_block
  <2>2. seek_disk_block(p[1], p[2], p[3]) \in Nat
    BY DeviceOffsets
  <2> QED
    BY <1>1, <2>1, <2>2
<1>7. CASE write_disk_block(f)
  <2>1. PICK p \in Positions, x \in Data :
            Call("write", f, seek_disk_block(p[1], p[2], p[3]), BlockWords, x)
    BY <1>7 DEF write_disk_block
  <2>2. seek_disk_block(p[1], p[2], p[3]) \in Nat
    BY DeviceOffsets
  <2> QED
    BY <1>1, <2>1, <2>2
<1> QED
    BY <1>2, <1>3, <1>4, <1>5, <1>6, <1>7

\* The invariant is preserved by every step.
LEMMA FatInductive == ASSUME TableReads, FatInv, [FilesNext]_fat_vars PROVE FatInv'
<1>1. ASSUME NEW f \in Files,
             \/ ReadTapeId(f) \/ ReadDiskHeader(f) \/ update_tape_head(f) \/ read_tape_block(f)
             \/ read_disk_block(f) \/ write_disk_block(f)
      PROVE  FatInv'
  <2>1. PICK op \in {"read", "write"}, seek \in Nat, length \in Nat, data \in Data \cup {<< >>} :
              /\ Call(op, f, seek, length, data)
              /\ op = "read" => data = << >>
              /\ op = "write" => data \in Data
    BY <1>1, NewCall
  <2> QED
    BY <2>1, CallStep
<1>2. CASE Loop
    BY <1>2, LoopStep
<1>3. CASE NextInChain
    BY <1>3, NextInChainStep
<1>4. CASE EndOfFile
    BY <1>4, EndOfFileStep
<1>5. CASE ReadCluster
    BY <1>5, ReadClusterStep
<1>6. CASE ReadFails
    BY <1>6, ReadFailsStep
<1>7. CASE WriteCluster
    BY <1>7, WriteClusterStep
<1>8. CASE CopyOut
    BY <1>8, CopyOutStep
<1>9. CASE CopyIn
    BY <1>9, CopyInStep
<1>10. CASE UNCHANGED fat_vars
  <2>1. UNCHANGED <<chain, card, cachedFAT, last_entry_sector_offset, pc, io>>
    BY <1>10 DEF fat_vars
  <2>2. CacheIsTable'
    BY <2>1, TableKept DEF FatInv
  <2>3. StateOK' /\ CallOK' /\ InOrder' /\ Walk' /\ Complete'
    BY <2>1 DEF FatInv, StateOK, CallOK, InOrder, Here, Walk, Clusters_of_call, Complete, FileLen
  <2>4. Fetched'
    BY <2>1 DEF FatInv, Fetched, Clusters_of_call, Target, Effective
  <2>5. ReadSoFar'
    BY <2>1 DEF FatInv, ReadSoFar, FileLen, Word, ClusterAt
  <2> QED
    BY <2>2, <2>3, <2>4, <2>5 DEF FatInv
<1> QED
    BY <1>1, <1>2, <1>3, <1>4, <1>5, <1>6, <1>7, <1>8, <1>9, <1>10 DEF FilesNext, FatStep

\* Where every call of the devices' code is, as long as the table can be read.
THEOREM FilesInvariant == TableReads => (FilesSpec => []FatInv)
<1> SUFFICES ASSUME TableReads PROVE FilesSpec => []FatInv
    OBVIOUS
<1>1. FatInit => FatInv
    BY FatInitial
<1>2. FatInv /\ [FilesNext]_fat_vars => FatInv'
    BY FatInductive
<1> QED
    BY <1>1, <1>2, PTL DEF FilesSpec

\* CacheIsTable: fat_get_table_entry looks a cluster up in the sector of the table
\* that last_entry_sector_offset names, call after call.
THEOREM CachedTable == TableReads => (FilesSpec => []CacheIsTable)
<1> SUFFICES ASSUME TableReads PROVE FilesSpec => []CacheIsTable
    OBVIOUS
<1>1. FilesSpec => []FatInv
    BY FilesInvariant
<1>2. FatInv => CacheIsTable
    BY DEF FatInv
<1> QED
    BY <1>1, <1>2, PTL

\* ReadsTheFile: fat_readfile returns the words of the file from the offset on, as
\* many as were asked for unless the file ends or a block cannot be read.
THEOREM ReadsReturnTheFile == TableReads => (FilesSpec => []ReadsTheFile)
<1> SUFFICES ASSUME TableReads PROVE FilesSpec => []ReadsTheFile
    OBVIOUS
<1>1. FilesSpec => []FatInv
    BY FilesInvariant
<1>2. FatInv => ReadsTheFile
  <2> SUFFICES ASSUME FatInv, pc = "return", io.op = "read"
               PROVE  /\ io.index = Len(io.data)
                      /\ \A i \in 1 .. Len(io.data) :
                            /\ io.seek + i <= FileLen(io.file)
                            /\ io.data[i] = Word(io.file, io.seek + i - 1)
                      /\ ~io.failed =>
                            io.index = io.length \/ io.seek + io.index >= FileLen(io.file)
    BY DEF ReadsTheFile
  <2>1. /\ Len(io.data) = io.index
        /\ \A i \in 1 .. io.index :
              io.seek + i <= FileLen(io.file) /\ io.data[i] = Word(io.file, io.seek + i - 1)
    BY DEF FatInv, ReadSoFar
  <2>2. ~io.failed => io.index = io.length \/ io.seek + io.index >= FileLen(io.file)
    BY DEF FatInv, Complete
  <2> QED
    BY <2>1, <2>2
<1> QED
    BY <1>1, <1>2, PTL

\* A write changes only words that the call was asked to write.
LEMMA WrittenWords ==
    ASSUME FatInv, WriteCluster, NEW c \in Clusters, NEW w \in Offsets, card'[c][w] # card[c][w]
    PROVE  \E k \in io.seek .. io.seek + io.length - 1 :
              k < FileLen(io.file) /\ ClusterAt(io.file, k) = c /\ k % ClusterWords = w
<1>1. /\ pc = "chain" /\ Found /\ io.rw = "write" /\ io.op = "write" /\ io.left > 0
    BY DEF WriteCluster, Found, FatInv, CallOK
<1>2. PICK sectors :
          card' = [card EXCEPT ![io.cluster] =
                     [v \in Offsets |-> IF v < sectors * SectorWords THEN io.buffer[v] ELSE @[v]]]
    BY DEF WriteCluster
<1>3. /\ io.file \in Files /\ io.cluster_num \in Nat
      /\ io.cluster_num < Len(Clusters_of_call) /\ io.cluster = Target /\ chain \in Chains
    BY <1>1, FoundTarget
<1>4. card \in [Clusters -> [Offsets -> Words]]
    BY DEF FatInv, StateOK
<1>5. c = Target /\ io.buffer[w] # card[Target][w]
  <2>1. c = io.cluster
    BY <1>2, <1>4
  <2>2. card'[c][w] = card[c][w] \/ card'[c][w] = io.buffer[w]
    BY <1>2, <1>4, <2>1
  <2> QED
    BY <1>3, <2>1, <2>2
<1>6. /\ io.start \in Nat /\ io.seek \in Nat /\ io.index \in Nat /\ io.length \in Nat
      /\ io.left \in Nat /\ io.index + io.left = io.length
    BY DEF FatInv, StateOK, Numbers
<1>7. w \in 0 .. ClusterWords - 1 /\ io.start <= w /\ w < io.start + Effective
  <2>1. w < io.start \/ w >= io.start + Effective => io.buffer[w] = card[Target][w]
    BY <1>1 DEF FatInv, Fetched
  <2>2. Effective \in Nat
    BY <1>1, Turn
  <2>3. w \in 0 .. ClusterWords - 1
    BY DEF Offsets
  <2>4. ~(w < io.start) /\ ~(w >= io.start + Effective)
    BY <1>5, <2>1
  <2> QED
    BY <1>6, <2>2, <2>3, <2>4, ClusterWordsPositive
<1>8. Effective \in Nat /\ Effective <= io.left
    BY <1>1, Turn
<1> DEFINE p == io.cluster_num * ClusterWords
           n == Len(Clusters_of_call)
           k == p + w
<1>9. /\ p \in Nat /\ io.seek <= p + io.start /\ p + io.start <= io.seek + io.index
      /\ ClusterWords \in Nat
  <2>1. io.seek <= Here /\ Here <= io.seek + io.index
    BY <1>1 DEF FatInv, InOrder
  <2> QED
    BY <1>3, <2>1, ClusterWordsPositive DEF Here
<1>10. n * ClusterWords \in Nat /\ p + ClusterWords <= n * ClusterWords
  <2>1. n \in Nat
    <3>1. Len(Clusters_of_call) \in 1 .. LastCluster /\ LastCluster \in Nat
        BY <1>3, ChainLength, Geometry DEF Clusters_of_call
    <3> QED
        BY <3>1
  <2>2. io.cluster_num \in Nat /\ io.cluster_num < n
    BY <1>3
  <2>3. ClusterWords \in Nat \ {0}
    BY ClusterWordsPositive
  <2> HIDE DEF n
  <2>4. io.cluster_num * ClusterWords + ClusterWords <= n * ClusterWords
    BY <2>1, <2>2, <2>3, ClustersInOrder, Zenon
  <2> QED
    BY <2>1, <2>3, <2>4
<1>11. ClusterAt(io.file, k) = c /\ k % ClusterWords = w
  <2>1. /\ ClusterAt(io.file, io.cluster_num * ClusterWords + w)
              = chain[io.file][io.cluster_num + 1]
        /\ (io.cluster_num * ClusterWords + w) % ClusterWords = w
    BY <1>3, <1>7, WordOfCluster, Zenon
  <2>2. c = chain[io.file][io.cluster_num + 1]
    BY <1>5 DEF Target, Clusters_of_call
  <2> QED
    BY <2>1, <2>2, Zenon
<1>12. FileLen(io.file) = n * ClusterWords
    BY DEF FileLen, Clusters_of_call
<1> HIDE DEF p, n
<1>13. k \in io.seek .. io.seek + io.length - 1 /\ k < FileLen(io.file)
    BY <1>6, <1>7, <1>8, <1>9, <1>10, <1>12
<1> QED
    BY <1>11, <1>13

\* WritesInside: fat_writefile leaves the words around those that it was asked to
\* write, and every other file, as they are, although it writes whole clusters and
\* the card may fail between two of their sectors.
THEOREM WritesStayInside == TableReads => (FilesSpec => WritesInside)
<1> DEFINE Inside ==
        \A c \in Clusters : \A w \in Offsets :
            card'[c][w] # card[c][w] =>
                \E k \in io.seek .. io.seek + io.length - 1 :
                    k < FileLen(io.file) /\ ClusterAt(io.file, k) = c /\ k % ClusterWords = w
<1> SUFFICES ASSUME TableReads PROVE FilesSpec => [][Inside]_fat_vars
    BY DEF WritesInside
<1>1. FilesSpec => []FatInv
    BY FilesInvariant
<1>2. FatInv /\ [FilesNext]_fat_vars => [Inside]_fat_vars
  <2> SUFFICES ASSUME FatInv, FilesNext PROVE Inside
    OBVIOUS
  <2>1. CASE WriteCluster
    BY <2>1, WrittenWords
  <2>2. CASE card' = card
    BY <2>2
  <2>3. CASE Loop \/ NextInChain \/ EndOfFile \/ ReadCluster \/ ReadFails \/ CopyOut \/ CopyIn
    BY <2>2, <2>3 DEF Loop, NextInChain, EndOfFile, ReadCluster, ReadFails, CopyOut, CopyIn
  <2>4. ASSUME NEW f \in Files,
               \/ ReadTapeId(f) \/ ReadDiskHeader(f) \/ update_tape_head(f)
               \/ read_tape_block(f) \/ read_disk_block(f) \/ write_disk_block(f)
        PROVE  card' = card
    <3>1. PICK op \in {"read", "write"}, seek \in Nat, length \in Nat,
               data \in Data \cup {<< >>} : Call(op, f, seek, length, data)
        BY <2>4, NewCall
    <3> QED
        BY <3>1, CallFields
  <2> HIDE DEF Inside
  <2> QED
    BY <2>1, <2>2, <2>3, <2>4 DEF FilesNext, FatStep
<1> QED
    BY <1>1, <1>2, PTL DEF FilesSpec
=============================================================================
