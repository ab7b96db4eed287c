---------------------------- MODULE CoresProofs ----------------------------
(***************************************************************************)
(* Proofs about Cores: the boot, and what the secondary cores call.        *)
(***************************************************************************)
EXTENDS Cores, FiniteSetTheorems, TLAPS

\* A core that has not been released from the firmware.
Asleep(k) == at[k] \in {"firmware", "look"} /\ spin[k] = NULL
Waiting(k) == Asleep(k) /\ k \notin buffered

\* Core 0 starts the others one by one: those before todo have counted themselves,
\* those after it are with the firmware, so that the count has one writer at a time.
Early == {"_start", "multicore_start", "release"}
Awaits == {"release_sev", "wait_ack"}
OneByOne ==
    /\ at[0] \in {"_start", "multicore_start"} => todo = 1
    /\ at[0] \in Early => \A k \in Secondary : IF k < todo THEN k \in Counted ELSE Waiting(k)
    /\ at[0] \in Awaits => /\ \A k \in Secondary : k < todo => k \in Counted
                           /\ \A k \in Secondary : k > todo => Waiting(k)
    /\ at[0] \notin Early \cup Awaits => Counted = Secondary

\* A release that is not seen yet is that of the core that core 0 waits for.
BufferedWaits == \A k \in buffered : at[0] \in Awaits /\ k = todo /\ Asleep(k)

\* What CoresReady is then, and in the copy of the core that is counting itself.
CountIs ==
    /\ CoresReady = CASE at[0] = "_start" -> 0
                      [] at[0] \in Early \ {"_start"} -> todo
                      [] at[0] \in Awaits -> IF todo \in Counted THEN todo + 1 ELSE todo
                      [] OTHER -> Last + 1
    /\ \A k \in Secondary : at[k] = "store_ready" => loaded[k] = CoresReady

\* A core in its spin loop finds nothing in its entry but what was posted to it, and
\* keeps that until it calls it.
EntriesPosted ==
    \A k \in Secondary :
        /\ at[k] \in {"idle_core_spin", "load_entry"} => spin[k] \in {NULL} \cup owing[k]
        /\ at[k] \in {"clear_entry", "blr"} => loaded[k] \in owing[k]

\* The lock of a core that is in WAIT is set by interrupts of that core only.
LocksWoken ==
    \A c \in AllCores :
        at[c] \in {"wfi", "suspended", "waitloop"} /\ wait_lock[8 * c] = 1 => woken[c]

\* The inductive invariant.
CoresInv == /\ CoresTypeOK /\ OneByOne /\ BufferedWaits /\ CountIs /\ EntriesPosted
            /\ LocksWoken

-----------------------------------------------------------------------------
\* The secondary cores are numbered from 1 on.
LEMMA Numbered == Last \in 1 .. 3 /\ Secondary = 1 .. Last
<1> DEFINE Size(a, b) == IF a > b THEN 0 ELSE b - a + 1
<1>0. \A a, b \in Int : Cardinality(a .. b) = Size(a, b)  BY FS_Interval
<1>i. 1 \in Int /\ 2 \in Int /\ 3 \in Int  OBVIOUS
<1>1. Cardinality(1 .. 1) = 1
  <2>1. Cardinality(1 .. 1) = Size(1, 1)  BY <1>0, <1>i, Zenon
  <2> QED  BY <2>1
<1>2. Cardinality(1 .. 2) = 2
  <2>1. Cardinality(1 .. 2) = Size(1, 2)  BY <1>0, <1>i, Zenon
  <2> QED  BY <2>1
<1>3. Cardinality(1 .. 3) = 3
  <2>1. Cardinality(1 .. 3) = Size(1, 3)  BY <1>0, <1>i, Zenon
  <2> QED  BY <2>1
<1>4. CASE Secondary = 1 .. 1  BY <1>1, <1>4 DEF Last
<1>5. CASE Secondary = 1 .. 2  BY <1>2, <1>5 DEF Last
<1>6. CASE Secondary = 1 .. 3  BY <1>3, <1>6 DEF Last
<1> QED  BY <1>4, <1>5, <1>6, CoresAssumption

\* Core 0 is none of them, and its entries are told apart.
LEMMA Apart == /\ 0 \notin Secondary /\ Secondary \subseteq Nat
               /\ AllCores = Secondary \cup {0}
               /\ NULL # multicore_start /\ NULL # idle /\ multicore_start # idle
               /\ multicore_start \notin Calls /\ NULL \notin Calls /\ idle \notin Calls
<1>1. NULL # multicore_start /\ NULL # idle /\ multicore_start # idle
  <2>1. \A a, b : Cardinality({a, a, b}) # 3
    <3> TAKE a, b
    <3>1. {a, a, b} = {a} \cup {b}  OBVIOUS
    <3>2. IsFiniteSet({a}) /\ Cardinality({a}) = 1  BY FS_Singleton
    <3>3. IsFiniteSet({a} \cup {b}) /\ Cardinality({a} \cup {b}) \in {1, 2}
        BY <3>2, FS_AddElement
    <3> QED  BY <3>1, <3>3
  <2>2. Cardinality({NULL, multicore_start, idle}) = 3  BY CoresAssumption
  <2>3. CASE NULL = multicore_start
    <3> {NULL, multicore_start, idle} = {NULL, NULL, idle}  BY <2>3
    <3> QED  BY <2>1, <2>2
  <2>4. CASE NULL = idle
    <3> {NULL, multicore_start, idle} = {NULL, NULL, multicore_start}  BY <2>4
    <3> QED  BY <2>1, <2>2
  <2>5. CASE multicore_start = idle
    <3> {NULL, multicore_start, idle} = {idle, idle, NULL}  BY <2>5
    <3> QED  BY <2>1, <2>2
  <2> QED  BY <2>3, <2>4, <2>5
<1> QED  BY <1>1, Numbered, CoresAssumption DEF AllCores
-----------------------------------------------------------------------------

\* While a core counts itself, core 0 waits for it.
LEMMA Counting ==
    CoresInv => \A k \in Secondary :
        at[k] \in {"load_ready", "store_ready"}
        => at[0] \in Awaits /\ k = todo /\ CoresReady = todo
<1> SUFFICES ASSUME CoresInv, NEW k \in Secondary, at[k] \in {"load_ready", "store_ready"}
             PROVE  at[0] \in Awaits /\ k = todo /\ CoresReady = todo
  OBVIOUS
<1>1. k \notin Counted /\ ~ Waiting(k)  BY DEF Counted, Waiting, Asleep
<1>2. at[0] \in Awaits  BY <1>1 DEF CoresInv, OneByOne
<1>3. k \in Nat /\ todo \in Nat  BY Apart DEF CoresInv, CoresTypeOK
<1>4. k = todo  BY <1>1, <1>2, <1>3 DEF CoresInv, OneByOne
<1>5. CoresReady = todo  BY <1>1, <1>2, <1>4 DEF CoresInv, CountIs, Early, Awaits
<1> QED  BY <1>2, <1>4, <1>5

\* Every step keeps the invariant.
LEMMA CoresInductive == CoresInv /\ [CoresNext]_cores_vars => CoresInv'
<1> SUFFICES ASSUME CoresInv, [CoresNext]_cores_vars
             PROVE  CoresInv'
  OBVIOUS
<1>f. ASSUME NEW k \in Secondary, Firmware(k)
      PROVE  /\ at[k] \in {"firmware", "look"} /\ event' \in [AllCores -> BOOLEAN]
             /\ \/ at' = [at EXCEPT ![k] = "look"]
                \/ at' = [at EXCEPT ![k] = "firmware"]
                \/ spin[k] # NULL /\ at' = [at EXCEPT ![k] = "multicore_start"]
             /\ UNCHANGED <<CoresReady, spin, loaded, todo, posts, owing, buffered, wait_vars>>
  <2>1. CASE Goto(k, "firmware", "look") /\ Wfe(k)
    BY <1>f, <2>1 DEF Firmware, Goto, Wfe, CoresInv, CoresTypeOK
  <2>2. CASE /\ Goto(k, "look", IF spin[k] = NULL THEN "firmware" ELSE "multicore_start")
             /\ UNCHANGED event
    BY <1>f, <2>2 DEF Firmware, Goto, CoresInv, CoresTypeOK
  <2> QED  BY <1>f, <2>1, <2>2 DEF Firmware
<1> USE Numbered, Apart
    DEF CoresInv, CoresTypeOK, OneByOne, BufferedWaits, CountIs, EntriesPosted, LocksWoken,
        Waiting, Asleep, Counted, Early, Awaits, Labels, Labels0, Goto, boot_vars, wait_vars
<1>0. CASE UNCHANGED cores_vars
  BY <1>0 DEF cores_vars
<1>1. ASSUME NEW k \in Secondary, Firmware(k) PROVE CoresInv'
  <2>1. CoresTypeOK'  BY <1>1, <1>f, SMTT(30)
  <2>2. OneByOne'  BY <1>1, <1>f, SMTT(30)
  <2>3. CountIs'  BY <1>1, <1>f, SMTT(30)
  <2>4. EntriesPosted'  BY <1>1, <1>f
  <2>5. BufferedWaits'  BY <1>1, <1>f
  <2>6. LocksWoken'  BY <1>1, <1>f
  <2> QED  BY <2>1, <2>2, <2>3, <2>4, <2>5, <2>6
<1>2. ASSUME NEW k \in Secondary, LoadReady(k) PROVE CoresInv'
  <2>1. CoresReady \in 0 .. Last  BY <1>2, Counting DEF LoadReady
  <2>2. CoresTypeOK'  BY <1>2, <2>1 DEF LoadReady
  <2>3. OneByOne'  BY <1>2 DEF LoadReady
  <2>4. CountIs'  BY <1>2 DEF LoadReady
  <2>5. EntriesPosted'  BY <1>2 DEF LoadReady
  <2>6. BufferedWaits'  BY <1>2 DEF LoadReady
  <2>7. LocksWoken'  BY <1>2 DEF LoadReady
  <2> QED  BY <2>2, <2>3, <2>4, <2>5, <2>6, <2>7
<1>3. ASSUME NEW k \in Secondary, StoreReady(k) PROVE CoresInv'
  <2>1. at[0] \in Awaits /\ k = todo /\ CoresReady = todo
    BY <1>3, Counting DEF StoreReady
  <2>2. CoresReady' = todo + 1 /\ k \in Counted'
    <3>1. loaded[k] = CoresReady /\ at'[k] = "start_idle"  BY <1>3 DEF StoreReady
    <3> QED  BY <1>3, <2>1, <3>1 DEF StoreReady
  <2>3. CoresTypeOK'
    <3>1. CoresReady' \in 0 .. Last + 1  BY <2>1, <2>2
    <3>2. loaded' \in [AllCores -> Entries \cup (0 .. Last)]  BY <1>3 DEF StoreReady, Entries
    <3>3. at' \in [AllCores -> Labels \cup Labels0] /\ at'[0] \in Labels0
      BY <1>3 DEF StoreReady
    <3> QED  BY <1>3, <3>1, <3>2, <3>3 DEF StoreReady
  <2>4. OneByOne'  BY <1>3 DEF StoreReady
  <2>5. CountIs'
    <3>1. at'[0] \in Awaits /\ todo' = todo /\ todo \in Counted'
      BY <1>3, <2>1, <2>2 DEF StoreReady
    <3>2. \A j \in Secondary : at'[j] # "store_ready"
      <4> SUFFICES ASSUME NEW j \in Secondary, at'[j] = "store_ready" PROVE FALSE  OBVIOUS
      <4>1. at[j] = "store_ready" /\ j # k  BY <1>3 DEF StoreReady
      <4> QED  BY <2>1, <4>1, Counting
    <3> HIDE DEF Counted
    <3> QED  BY <2>2, <3>1, <3>2
  <2>6. EntriesPosted'  BY <1>3 DEF StoreReady
  <2>7. BufferedWaits'  BY <1>3 DEF StoreReady
  <2>8. LocksWoken'  BY <1>3 DEF StoreReady
  <2> QED  BY <2>3, <2>4, <2>5, <2>6, <2>7, <2>8
<1>4. ASSUME NEW k \in Secondary, StartIdleCoreSpin(k) PROVE CoresInv'
  <2>1. CoresTypeOK'  BY <1>4 DEF StartIdleCoreSpin, Entries
  <2>2. OneByOne'  BY <1>4 DEF StartIdleCoreSpin
  <2>3. CountIs'  BY <1>4 DEF StartIdleCoreSpin
  <2>4. EntriesPosted'  BY <1>4 DEF StartIdleCoreSpin
  <2>5. BufferedWaits'  BY <1>4 DEF StartIdleCoreSpin
  <2>6. LocksWoken'  BY <1>4 DEF StartIdleCoreSpin
  <2> QED  BY <2>1, <2>2, <2>3, <2>4, <2>5, <2>6
<1>5. ASSUME NEW k \in Secondary, IdleCoreSpin(k) PROVE CoresInv'
  <2>1. CoresTypeOK'  BY <1>5 DEF IdleCoreSpin, Wfe
  <2>2. OneByOne'  BY <1>5 DEF IdleCoreSpin
  <2>3. CountIs'  BY <1>5 DEF IdleCoreSpin
  <2>4. EntriesPosted'  BY <1>5 DEF IdleCoreSpin
  <2>5. BufferedWaits'  BY <1>5 DEF IdleCoreSpin
  <2>6. LocksWoken'  BY <1>5 DEF IdleCoreSpin
  <2> QED  BY <2>1, <2>2, <2>3, <2>4, <2>5, <2>6
<1>6. ASSUME NEW k \in Secondary, LoadEntry(k) PROVE CoresInv'
  <2>1. CoresTypeOK'  BY <1>6 DEF LoadEntry, Entries
  <2>2. OneByOne'  BY <1>6 DEF LoadEntry
  <2>3. CountIs'  BY <1>6 DEF LoadEntry
  <2>4. EntriesPosted'  BY <1>6 DEF LoadEntry
  <2>5. BufferedWaits'  BY <1>6 DEF LoadEntry
  <2>6. LocksWoken'  BY <1>6 DEF LoadEntry
  <2> QED  BY <2>1, <2>2, <2>3, <2>4, <2>5, <2>6
<1>7. ASSUME NEW k \in Secondary, ClearEntry(k) PROVE CoresInv'
  <2>1. CoresTypeOK'  BY <1>7 DEF ClearEntry, Entries
  <2>2. OneByOne'  BY <1>7 DEF ClearEntry
  <2>3. CountIs'  BY <1>7 DEF ClearEntry
  <2>4. EntriesPosted'  BY <1>7 DEF ClearEntry
  <2>5. BufferedWaits'  BY <1>7 DEF ClearEntry
  <2>6. LocksWoken'  BY <1>7 DEF ClearEntry
  <2> QED  BY <2>1, <2>2, <2>3, <2>4, <2>5, <2>6
<1>8. ASSUME NEW k \in Secondary, Blr(k) PROVE CoresInv'
  <2>1. CoresTypeOK'  BY <1>8 DEF Blr
  <2>2. OneByOne'  BY <1>8 DEF Blr
  <2>3. CountIs'  BY <1>8 DEF Blr
  <2>4. EntriesPosted'  BY <1>8 DEF Blr
  <2>5. BufferedWaits'  BY <1>8 DEF Blr
  <2>6. LocksWoken'  BY <1>8 DEF Blr
  <2> QED  BY <2>1, <2>2, <2>3, <2>4, <2>5, <2>6
<1>9. ASSUME NEW k \in Secondary, Return(k) PROVE CoresInv'
  <2>1. CoresTypeOK'  BY <1>9 DEF Return, Entries
  <2>2. OneByOne'  BY <1>9 DEF Return
  <2>3. CountIs'  BY <1>9 DEF Return
  <2>4. EntriesPosted'  BY <1>9 DEF Return
  <2>5. BufferedWaits'  BY <1>9 DEF Return
  <2>6. LocksWoken'  BY <1>9 DEF Return
  <2> QED  BY <2>1, <2>2, <2>3, <2>4, <2>5, <2>6
<1>10. CASE Start
  <2>1. CoresTypeOK'  BY <1>10 DEF Start
  <2>2. OneByOne'  BY <1>10 DEF Start
  <2>3. CountIs'  BY <1>10 DEF Start
  <2>4. EntriesPosted'  BY <1>10 DEF Start
  <2>5. BufferedWaits'  BY <1>10 DEF Start
  <2>6. LocksWoken'  BY <1>10 DEF Start
  <2> QED  BY <2>1, <2>2, <2>3, <2>4, <2>5, <2>6
<1>11. CASE Release
  <2>1. CoresTypeOK'  BY <1>11 DEF Release, Sev, Entries
  <2>2. OneByOne'  BY <1>11 DEF Release
  <2>3. CountIs'  BY <1>11 DEF Release
  <2>4. EntriesPosted'  BY <1>11 DEF Release
  <2>5. BufferedWaits'  BY <1>11 DEF Release
  <2>6. LocksWoken'  BY <1>11 DEF Release
  <2> QED  BY <2>1, <2>2, <2>3, <2>4, <2>5, <2>6
<1>12. CASE WaitAck
  <2>1. CoresTypeOK'  BY <1>12 DEF WaitAck
  <2>2. OneByOne'
    <3>1. \A k \in Secondary : k <= todo => k \in Counted
      <4>1. todo \in Counted  BY <1>12 DEF WaitAck
      <4> HIDE DEF Counted
      <4> QED  BY <1>12, <4>1 DEF WaitAck
    <3>2. \A k \in Secondary : k > todo => Waiting(k)  BY <1>12 DEF WaitAck
    <3>3. \A k \in Secondary : at'[k] = at[k] /\ spin' = spin /\ buffered' = buffered
      BY <1>12 DEF WaitAck
    <3>4. Counted' = Counted /\ \A k \in Secondary : Waiting(k)' = Waiting(k)  BY <3>3
    <3>5. CASE todo = Last
      <4>1. at'[0] = "CoreExecute"  BY <1>12, <3>5 DEF WaitAck
      <4>2. \A k \in Secondary : k \in Counted
        <5>1. \A k \in Secondary : k <= todo  BY <3>5
        <5> HIDE DEF Counted
        <5> QED  BY <3>1, <5>1, Zenon
      <4>3. Counted = Secondary  BY <4>2
      <4> HIDE DEF Counted, Waiting
      <4> QED  BY <3>4, <4>1, <4>3
    <3>6. CASE todo # Last
      <4>1. at'[0] = "release" /\ todo' = todo + 1  BY <1>12, <3>6 DEF WaitAck
      <4> HIDE DEF Counted, Waiting
      <4> QED  BY <3>1, <3>2, <3>4, <4>1
    <3> QED  BY <3>5, <3>6
  <2>3. CountIs'  BY <1>12 DEF WaitAck
  <2>4. EntriesPosted'  BY <1>12 DEF WaitAck
  <2>5. BufferedWaits'  BY <1>12 DEF WaitAck
  <2>6. LocksWoken'  BY <1>12 DEF WaitAck
  <2> QED  BY <2>1, <2>2, <2>3, <2>4, <2>5, <2>6
<1>13. CASE BiosPost
  <2>1. CoresTypeOK'
    <3>1. CASE Refused(todo)  BY <1>13, <3>1 DEF BiosPost
    <3>2. CASE ~ Refused(todo)
      <4>1. Store(todo, idle, "sev")  BY <1>13, <3>2 DEF BiosPost
      <4>2. spin' \in [Secondary -> Entries]  BY <4>1 DEF Store, Entries
      <4>3. owing' \in [Secondary -> SUBSET (Calls \cup {idle})]  BY <4>1 DEF Store
      <4>4. at' \in [AllCores -> Labels \cup Labels0] /\ at'[0] \in Labels0  BY <4>1 DEF Store
      <4> QED  BY <1>13, <4>2, <4>3, <4>4 DEF BiosPost
    <3> QED  BY <3>1, <3>2
  <2>2. OneByOne'  BY <1>13 DEF BiosPost, Store
  <2>3. CountIs'
    <3>1. at[0] = "CoreExecute" /\ CoresReady' = CoresReady /\ loaded' = loaded
      BY <1>13 DEF BiosPost
    <3>2. at'[0] \in {"next", "sev"} /\ \A j \in Secondary : at'[j] = at[j]
      BY <1>13 DEF BiosPost, Store
    <3>3. CoresReady' = Last + 1  BY <3>1
    <3>4. \A j \in Secondary : at'[j] = "store_ready" => loaded'[j] = CoresReady'
      BY <3>1, <3>2
    <3> HIDE DEF Counted
    <3> QED  BY <3>2, <3>3, <3>4
  <2>4. EntriesPosted'
    <3>1. CASE Refused(todo)  BY <1>13, <3>1 DEF BiosPost
    <3>2. CASE ~ Refused(todo)  BY <1>13, <3>2 DEF BiosPost, Store
    <3> QED  BY <3>1, <3>2
  <2>5. BufferedWaits'  BY <1>13 DEF BiosPost, Store
  <2>6. LocksWoken'  BY <1>13 DEF BiosPost, Store
  <2> QED  BY <2>1, <2>2, <2>3, <2>4, <2>5, <2>6
<1>14. CASE BiosNext
  <2>1. CoresTypeOK'
    <3>1. todo' \in Secondary  BY <1>14 DEF BiosNext
    <3>2. event' \in [AllCores -> BOOLEAN]  BY <1>14 DEF BiosNext, Sev
    <3>3. at' \in [AllCores -> Labels \cup Labels0] /\ at'[0] \in Labels0
      BY <1>14 DEF BiosNext
    <3> QED  BY <1>14, <3>1, <3>2, <3>3 DEF BiosNext
  <2>2. OneByOne'  BY <1>14 DEF BiosNext
  <2>3. CountIs'  BY <1>14 DEF BiosNext
  <2>4. EntriesPosted'  BY <1>14 DEF BiosNext
  <2>5. BufferedWaits'  BY <1>14 DEF BiosNext
  <2>6. LocksWoken'  BY <1>14 DEF BiosNext
  <2> QED  BY <2>1, <2>2, <2>3, <2>4, <2>5, <2>6
<1>15. CASE Post
  <2>1. PICK core \in Secondary, call \in Calls \cup {idle} : Store(core, call, "posted")
    BY <1>15 DEF Post
  <2>2. CoresTypeOK'
    <3>1. spin' \in [Secondary -> Entries]  BY <2>1 DEF Store, Entries
    <3>2. owing' \in [Secondary -> SUBSET (Calls \cup {idle})]  BY <2>1 DEF Store
    <3>3. at' \in [AllCores -> Labels \cup Labels0] /\ at'[0] \in Labels0  BY <2>1 DEF Store
    <3>4. posts' \in 0 .. MaxPosts  BY <1>15, CoresAssumption DEF Post
    <3> QED  BY <1>15, <3>1, <3>2, <3>3, <3>4 DEF Post
  <2>3. OneByOne'  BY <1>15, <2>1 DEF Post, Store
  <2>4. CountIs'  BY <1>15, <2>1 DEF Post, Store
  <2>5. EntriesPosted'  BY <1>15, <2>1 DEF Post, Store
  <2>6. BufferedWaits'  BY <1>15, <2>1 DEF Post, Store
  <2>7. LocksWoken'  BY <1>15, <2>1 DEF Post, Store
  <2> QED  BY <2>2, <2>3, <2>4, <2>5, <2>6, <2>7
<1>16. CASE Posted
  <2>1. CoresTypeOK'  BY <1>16 DEF Posted, Sev
  <2>2. OneByOne'  BY <1>16 DEF Posted
  <2>3. CountIs'  BY <1>16 DEF Posted
  <2>4. EntriesPosted'  BY <1>16 DEF Posted
  <2>5. BufferedWaits'  BY <1>16 DEF Posted
  <2>6. LocksWoken'  BY <1>16 DEF Posted
  <2> QED  BY <2>1, <2>2, <2>3, <2>4, <2>5, <2>6
<1>17. ASSUME NEW c \in AllCores, MulticoreStart(c) PROVE CoresInv'
  <2>1. CoresTypeOK'  BY <1>17 DEF MulticoreStart
  <2>2. OneByOne'  BY <1>17 DEF MulticoreStart
  <2>3. CountIs'  BY <1>17 DEF MulticoreStart
  <2>4. EntriesPosted'  BY <1>17 DEF MulticoreStart
  <2>5. BufferedWaits'  BY <1>17 DEF MulticoreStart
  <2>6. LocksWoken'  BY <1>17 DEF MulticoreStart
  <2> QED  BY <2>1, <2>2, <2>3, <2>4, <2>5, <2>6
<1>18. ASSUME NEW c \in AllCores, Wait(c) PROVE CoresInv'
  <2>1. CoresTypeOK'  BY <1>18 DEF Wait, LockOf
  <2>2. OneByOne'  BY <1>18 DEF Wait
  <2>3. CountIs'  BY <1>18 DEF Wait
  <2>4. EntriesPosted'  BY <1>18 DEF Wait
  <2>5. BufferedWaits'  BY <1>18 DEF Wait
  <2>6. LocksWoken'
    <3> SUFFICES ASSUME NEW d \in AllCores, at'[d] \in {"wfi", "suspended", "waitloop"},
                        wait_lock'[8 * d] = 1
                 PROVE  woken'[d]
      OBVIOUS
    <3>1. d \in Nat /\ 8 * d \in Halfwords /\ 8 * d \in LockOf(d)
      BY DEF LockOf, Halfwords
    <3>2. d # c  BY <1>18, <3>1 DEF Wait
    <3>3. at'[d] = at[d] /\ woken'[d] = woken[d]  BY <1>18, <3>2 DEF Wait
    <3>4. wait_lock[8 * d] = 1  BY <1>18, <3>1 DEF Wait
    <3> QED  BY <3>3, <3>4
  <2> QED  BY <2>1, <2>2, <2>3, <2>4, <2>5, <2>6
<1>19. ASSUME NEW c \in AllCores, Wfi(c) PROVE CoresInv'
  <2>1. CoresTypeOK'  BY <1>19 DEF Wfi
  <2>2. OneByOne'  BY <1>19 DEF Wfi
  <2>3. CountIs'  BY <1>19 DEF Wfi
  <2>4. EntriesPosted'  BY <1>19 DEF Wfi
  <2>5. BufferedWaits'  BY <1>19 DEF Wfi
  <2>6. LocksWoken'  BY <1>19 DEF Wfi
  <2> QED  BY <2>1, <2>2, <2>3, <2>4, <2>5, <2>6
<1>20. ASSUME NEW c \in AllCores, WaitLoop(c) PROVE CoresInv'
  <2>1. CoresTypeOK'  BY <1>20 DEF WaitLoop, LockSet
  <2>2. OneByOne'  BY <1>20 DEF WaitLoop
  <2>3. CountIs'  BY <1>20 DEF WaitLoop
  <2>4. EntriesPosted'  BY <1>20 DEF WaitLoop
  <2>5. BufferedWaits'  BY <1>20 DEF WaitLoop
  <2>6. LocksWoken'  BY <1>20 DEF WaitLoop
  <2> QED  BY <2>1, <2>2, <2>3, <2>4, <2>5, <2>6
<1>21. ASSUME NEW c \in AllCores, Interrupted(c) PROVE CoresInv'
  <2>1. CoresTypeOK'  BY <1>21 DEF Interrupted
  <2>2. OneByOne'  BY <1>21 DEF Interrupted
  <2>3. CountIs'  BY <1>21 DEF Interrupted
  <2>4. EntriesPosted'  BY <1>21 DEF Interrupted
  <2>5. BufferedWaits'  BY <1>21 DEF Interrupted
  <2>6. LocksWoken'  BY <1>21 DEF Interrupted
  <2> QED  BY <2>1, <2>2, <2>3, <2>4, <2>5, <2>6
<1>22. ASSUME NEW c \in AllCores, KernelEntered(c) PROVE CoresInv'
  <2>1. CoresTypeOK'
    <3>1. at' \in [AllCores -> Labels \cup Labels0] /\ at'[0] \in Labels0
      BY <1>22 DEF KernelEntered
    <3>2. wait_lock' \in [Halfwords -> {0, 1}]  BY <1>22 DEF KernelEntered
    <3>3. entered' \in 0 .. MaxEntered  BY <1>22, CoresAssumption DEF KernelEntered
    <3>4. woken' \in [AllCores -> BOOLEAN]  BY <1>22 DEF KernelEntered
    <3> QED  BY <1>22, <3>1, <3>2, <3>3, <3>4 DEF KernelEntered
  <2>2. OneByOne'  BY <1>22 DEF KernelEntered
  <2>3. CountIs'  BY <1>22 DEF KernelEntered
  <2>4. EntriesPosted'  BY <1>22 DEF KernelEntered
  <2>5. BufferedWaits'  BY <1>22 DEF KernelEntered
  <2>6. LocksWoken'  BY <1>22 DEF KernelEntered
  <2> QED  BY <2>1, <2>2, <2>3, <2>4, <2>5, <2>6
<1>23. CASE ReleaseSev
  <2>1. CoresTypeOK'  BY <1>23 DEF ReleaseSev, Sev
  <2>2. OneByOne'  BY <1>23 DEF ReleaseSev
  <2>3. CountIs'  BY <1>23 DEF ReleaseSev
  <2>4. EntriesPosted'  BY <1>23 DEF ReleaseSev
  <2>5. BufferedWaits'  BY <1>23 DEF ReleaseSev
  <2>6. LocksWoken'  BY <1>23 DEF ReleaseSev
  <2> QED  BY <2>1, <2>2, <2>3, <2>4, <2>5, <2>6
<1>24. ASSUME NEW k \in Secondary, StoreSeen(k) PROVE CoresInv'
  <2>1. CoresTypeOK'  BY <1>24 DEF StoreSeen, Entries
  <2>2. OneByOne'  BY <1>24 DEF StoreSeen
  <2>3. CountIs'  BY <1>24 DEF StoreSeen
  <2>4. EntriesPosted'  BY <1>24 DEF StoreSeen
  <2>5. BufferedWaits'  BY <1>24 DEF StoreSeen
  <2>6. LocksWoken'  BY <1>24 DEF StoreSeen
  <2> QED  BY <2>1, <2>2, <2>3, <2>4, <2>5, <2>6
<1> HIDE DEF CoresInv, Goto, boot_vars, wait_vars
<1> QED
  BY <1>0, <1>1, <1>2, <1>3, <1>4, <1>5, <1>6, <1>7, <1>8, <1>9, <1>10, <1>11, <1>12,
     <1>13, <1>14, <1>15, <1>16, <1>17, <1>18, <1>19, <1>20, <1>21, <1>22, <1>23, <1>24
  DEF CoresNext, SecondaryStep, BootStep, WaitStep

\* It holds when core 0 comes to _start.
LEMMA CoresInitially == CoresInit => CoresInv
<1> SUFFICES ASSUME CoresInit PROVE CoresInv  OBVIOUS
<1> USE Numbered, Apart DEF CoresInit
<1>1. CoresTypeOK
  <2>1. at \in [AllCores -> Labels \cup Labels0] /\ at[0] \in Labels0  BY DEF Labels, Labels0
  <2>2. spin \in [Secondary -> Entries] /\ loaded \in [AllCores -> Entries \cup (0 .. Last)]
    BY DEF Entries
  <2> QED  BY <2>1, <2>2, CoresAssumption DEF CoresTypeOK
<1>2. OneByOne
  <2>1. \A k \in Secondary : Waiting(k)  BY DEF Waiting, Asleep
  <2> QED  BY <2>1 DEF OneByOne, Early
<1>3. CountIs
  <2>1. at[0] = "_start" /\ \A k \in Secondary : at[k] = "firmware"  OBVIOUS
  <2> QED  BY <2>1 DEF CountIs, Early, Awaits
<1>4. EntriesPosted /\ BufferedWaits  BY DEF EntriesPosted, BufferedWaits
<1>5. LocksWoken
  <2>1. \A c \in AllCores : at[c] \notin {"wfi", "suspended", "waitloop"}  OBVIOUS
  <2> QED  BY <2>1 DEF LocksWoken
<1> QED  BY <1>1, <1>2, <1>3, <1>4, <1>5 DEF CoresInv

\* The invariant gives the count: the cores that have counted themselves are the
\* first ones, which CoresReady tells.
LEMMA CountedAreFirst == CoresInv => ReadyCounted
<1> SUFFICES ASSUME CoresInv PROVE ReadyCounted  OBVIOUS
<1> USE Numbered, Apart
<1>1. todo \in Nat /\ 1 <= todo /\ todo <= Last  BY DEF CoresInv, CoresTypeOK
<1>2. \A n \in Nat : Cardinality(1 .. n) = n
  <2> DEFINE Size(a, b) == IF a > b THEN 0 ELSE b - a + 1
  <2>1. \A a, b \in Int : Cardinality(a .. b) = Size(a, b)  BY FS_Interval
  <2>2. ASSUME NEW n \in Nat PROVE Cardinality(1 .. n) = n
    <3>1. 1 \in Int /\ n \in Int  OBVIOUS
    <3>2. Cardinality(1 .. n) = Size(1, n)  BY <2>1, <3>1, Zenon
    <3> QED  BY <3>2
  <2> QED  BY <2>2
<1>3. CASE at[0] \in Early \ {"_start"}
  <2>1. Counted = 1 .. todo - 1
    BY <1>1, <1>3 DEF CoresInv, OneByOne, Waiting, Asleep, Counted, Awaits
  <2>2. Cardinality(Counted) = todo - 1
    <3>1. todo - 1 \in Nat  BY <1>1
    <3> QED  BY <1>2, <2>1, <3>1
  <2>3. CoresReady = todo  BY <1>3 DEF CoresInv, CountIs, Early, Awaits
  <2> QED  BY <1>1, <1>3, <2>2, <2>3 DEF ReadyCounted, Early
<1>4. CASE at[0] \in Awaits
  <2>1. CASE todo \in Counted
    <3>1. Counted = 1 .. todo
      BY <1>1, <1>4, <2>1 DEF CoresInv, OneByOne, Waiting, Asleep, Counted, Awaits
    <3>2. Cardinality(Counted) = todo  BY <1>1, <1>2, <3>1
    <3>3. CoresReady = todo + 1  BY <1>4, <2>1 DEF CoresInv, CountIs, Early, Awaits
    <3> QED  BY <1>1, <1>4, <3>2, <3>3 DEF ReadyCounted, Awaits
  <2>2. CASE todo \notin Counted
    <3>1. Counted = 1 .. todo - 1
      BY <1>1, <1>4, <2>2 DEF CoresInv, OneByOne, Waiting, Asleep, Counted, Awaits
    <3>2. Cardinality(Counted) = todo - 1
      <4>1. todo - 1 \in Nat  BY <1>1
      <4> QED  BY <1>2, <3>1, <4>1
    <3>3. CoresReady = todo  BY <1>4, <2>2 DEF CoresInv, CountIs, Early, Awaits
    <3> QED  BY <1>1, <1>4, <3>2, <3>3 DEF ReadyCounted, Awaits
  <2> QED  BY <2>1, <2>2
<1>5. CASE at[0] \notin Early \cup Awaits
  <2>1. Counted = Secondary  BY <1>5 DEF CoresInv, OneByOne
  <2>2. CoresReady = Last + 1  BY <1>5 DEF CoresInv, CountIs, Early, Awaits
  <2> QED  BY <2>1, <2>2 DEF ReadyCounted, Last
<1>6. CASE at[0] = "_start"  BY <1>6 DEF ReadyCounted
<1> QED  BY <1>3, <1>4, <1>5, <1>6 DEF Early

-----------------------------------------------------------------------------
\* The state of the cores is well typed in every execution, for one to three
\* secondary cores: CoresReady never exceeds their number (init.S).
THEOREM CoresTypeCorrect == CoresSpec => []CoresTypeOK
<1>1. CoresInv => CoresTypeOK  BY DEF CoresInv
<1> QED  BY <1>1, CoresInitially, CoresInductive, PTL DEF CoresSpec

\* The cores count themselves with a load and a store that nothing makes one step
\* (start_kernel_core1 and so on of init.S); no count is lost, and core 0 executes
\* nothing of the system before all have counted themselves, because it releases
\* a core only after the one before it has.
THEOREM CountNotLost == CoresSpec => []ReadyCounted
<1> QED  BY CountedAreFirst, CoresInitially, CoresInductive, PTL DEF CoresSpec

\* What a core calls in its spin loop (blr of init.S) was posted to it by
\* CoreExecute and not called since, wherever the loop was when it was posted:
\* the entry that released the core from the firmware is not called again.
THEOREM NothingCalledTwice == CoresSpec => CalledOnce
<1>1. CoresInv /\ [CoresNext]_cores_vars
      => [\A k \in Secondary :
             at[k] = "blr" /\ at'[k] # "blr" => loaded[k] \in owing[k]]_cores_vars
  BY DEF CoresInv, EntriesPosted
<1> QED  BY <1>1, CoresInitially, CoresInductive, PTL DEF CoresSpec, CalledOnce

\* WAIT (asmlib.S) returns only if an interrupt has entered the kernel of its own core
\* since it was called, on up to four cores whose locks c_irq_handler sets in an array
\* of halfwords that WAIT reads in doublewords.
THEOREM WaitsForInterrupt == CoresSpec => WaitReturns
<1>1. CoresInv /\ [CoresNext]_cores_vars
      => [\A c \in AllCores :
             at[c] = "waitloop" /\ at'[c] \in {"main", "called"} => woken[c]]_cores_vars
  <2> SUFFICES ASSUME CoresInv, [CoresNext]_cores_vars, NEW c \in AllCores,
                      at[c] = "waitloop", at'[c] \in {"main", "called"}
               PROVE  woken[c]
    OBVIOUS
  <2> USE Apart DEF CoresInv, CoresTypeOK, Goto
  <2>1. CASE WaitLoop(c)
    <3>1. 8 * c \in LockOf(c)  BY DEF LockOf
    <3>2. wait_lock[8 * c] = 1  BY <2>1, <3>1 DEF WaitLoop, LockSet
    <3> QED  BY <3>2 DEF LocksWoken
  <2>2. ASSUME NEW k \in Secondary, SecondaryStep(k) \/ StoreSeen(k) PROVE FALSE
    BY <2>2 DEF SecondaryStep, StoreSeen, Firmware, MulticoreStart, LoadReady, StoreReady,
                StartIdleCoreSpin, IdleCoreSpin, LoadEntry, ClearEntry, Blr, Return
  <2>3. CASE BootStep \/ Post
    BY <2>3 DEF BootStep, Post, Start, MulticoreStart, Release, ReleaseSev, WaitAck, BiosPost,
                BiosNext, Posted, Store
  <2>4. ASSUME NEW d \in AllCores, Wait(d) \/ WaitStep(d) \/ Interrupted(d) \/ KernelEntered(d)
        PROVE  WaitLoop(c)
    BY <2>4 DEF Wait, WaitStep, Wfi, WaitLoop, Interrupted, KernelEntered
  <2>5. CASE UNCHANGED cores_vars  BY <2>5 DEF cores_vars
  <2> QED  BY <2>1, <2>2, <2>3, <2>4, <2>5 DEF CoresNext
<1> QED  BY <1>1, CoresInitially, CoresInductive, PTL DEF CoresSpec, WaitReturns
=============================================================================
