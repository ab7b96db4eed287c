------------------------------- MODULE Cores -------------------------------
(***************************************************************************)
(* The four cores: their release through the spin table and the count      *)
(* CoresReady (source/init.S), the calls that CoreExecute posts to them    *)
(* (source/asmlib.S, bios_main of source/bios_main.c), and WAIT, whose     *)
(* wait_lock is set by c_irq_handler (source/interrupts.c).  Loads and     *)
(* stores of shared words are steps of their own; wfe waits for the event  *)
(* register that sev sets on every core, wfi for an interrupt.             *)
(***************************************************************************)
EXTENDS Naturals, FiniteSets

CONSTANTS
    Secondary,     \* the cores 1, 2 and 3
    Calls,         \* functions that a client posts besides idle, and that return
    KernelCores,   \* cores whose interrupts enter the kernel of the application
    MaxPosts,      \* bound: calls of CoreExecute by the client
    MaxEntered,    \* bound: interrupts that enter the kernel
    NULL, multicore_start, idle

ASSUME CoresAssumption ==
    /\ Secondary \in {1 .. 1, 1 .. 2, 1 .. 3}
    /\ KernelCores \subseteq Secondary \cup {0}
    /\ MaxPosts \in Nat /\ MaxEntered \in Nat
    /\ Cardinality({NULL, multicore_start, idle}) = 3
    /\ {NULL, multicore_start, idle} \cap Calls = {}

AllCores == Secondary \cup {0}
Last == Cardinality(Secondary)
Entries == Calls \cup {NULL, multicore_start, idle}

\* wait_lock has four halfwords; WAIT of core c takes the four that begin at 8 * c.
Halfwords == 0 .. (8 * Last + 3)
LockOf(c) == (8 * c) .. (8 * c + 3)

VARIABLES
    at,          \* the instruction that each core is about to execute
    CoresReady,
    spin,        \* spin_cpu1 and so on
    buffered,    \* the entries whose release core 0 has stored and no core can see yet
    event,       \* the event register of each core
    loaded,      \* what each core has loaded from a shared word
    todo,        \* on core 0: the core it starts, or that CoreExecute posts to
    posts,       \* counts calls of CoreExecute by the client, for the bound
    wait_lock,   \* the memory from wait_lock on, in halfwords
    entered,     \* counts interrupts that entered the kernel, for the bound
    \* History:
    owing,       \* what was posted to each core and has not been called
    woken        \* the kernel was entered since the core called WAIT

boot_vars == <<CoresReady, spin, buffered, event, loaded, todo, posts, owing>>
wait_vars == <<wait_lock, entered, woken>>
cores_vars == <<at, boot_vars, wait_vars>>

\* The firmware keeps cores 1 to 3 at their entries of the spin table.
CoresInit ==
    /\ at = [c \in AllCores |-> IF c = 0 THEN "_start" ELSE "firmware"]
    /\ CoresReady = 0
    /\ spin = [k \in Secondary |-> NULL]
    /\ buffered = {}
    /\ event = [c \in AllCores |-> FALSE]
    /\ loaded = [c \in AllCores |-> NULL]
    /\ todo = 1
    /\ posts = 0
    /\ owing = [k \in Secondary |-> {}]
    /\ wait_lock = [h \in Halfwords |-> 0]
    /\ entered = 0
    /\ woken = [c \in AllCores |-> FALSE]

Goto(c, from, to) == at[c] = from /\ at' = [at EXCEPT ![c] = to]

\* What sev does: every core's event register, its own included.
Sev == event' = [c \in AllCores |-> TRUE]

\* wfe goes on when the event register is set, and clears it.
Wfe(c) == event[c] /\ event' = [event EXCEPT ![c] = FALSE]

-----------------------------------------------------------------------------
(* Secondary cores *)

\* The spin loop of the firmware, which leaves the entry as it is.
Firmware(k) ==
    /\ \/ /\ Goto(k, "firmware", "look")
          /\ Wfe(k)
       \/ /\ Goto(k, "look", IF spin[k] = NULL THEN "firmware" ELSE "multicore_start")
          /\ UNCHANGED event
    /\ UNCHANGED <<CoresReady, spin, loaded, todo, posts, owing, buffered, wait_vars>>

\* multicore_start sets up the stacks and the vectors and goes down to EL1.
MulticoreStart(c) ==
    /\ Goto(c, "multicore_start", IF c = 0 THEN "release" ELSE "load_ready")
    /\ UNCHANGED <<boot_vars, wait_vars>>

LoadReady(k) ==
    /\ Goto(k, "load_ready", "store_ready")
    /\ loaded' = [loaded EXCEPT ![k] = CoresReady]
    /\ UNCHANGED <<CoresReady, spin, event, todo, posts, owing, buffered, wait_vars>>

StoreReady(k) ==
    /\ Goto(k, "store_ready", "start_idle")
    /\ CoresReady' = loaded[k] + 1
    /\ loaded' = [loaded EXCEPT ![k] = NULL]
    /\ UNCHANGED <<spin, event, todo, posts, owing, buffered, wait_vars>>

Bug_StartIdleCoreSpin_uncleared(k) ==
    /\ Goto(k, "start_idle", "idle_core_spin")
    /\ UNCHANGED <<boot_vars, wait_vars>>

\* start_idle_core_spin clears the entry, whatever it holds.
StartIdleCoreSpin(k) ==
    /\ Goto(k, "start_idle", "idle_core_spin")
    /\ spin' = [spin EXCEPT ![k] = NULL]
    /\ UNCHANGED <<CoresReady, event, loaded, todo, posts, owing, buffered, wait_vars>>

IdleCoreSpin(k) ==
    /\ Goto(k, "idle_core_spin", "load_entry")
    /\ Wfe(k)
    /\ UNCHANGED <<CoresReady, spin, loaded, todo, posts, owing, buffered, wait_vars>>

LoadEntry(k) ==
    /\ Goto(k, "load_entry", IF spin[k] = NULL THEN "idle_core_spin" ELSE "clear_entry")
    /\ loaded' = [loaded EXCEPT ![k] = spin[k]]
    /\ UNCHANGED <<CoresReady, spin, event, todo, posts, owing, buffered, wait_vars>>

ClearEntry(k) ==
    /\ Goto(k, "clear_entry", "blr")
    /\ spin' = [spin EXCEPT ![k] = NULL]
    /\ UNCHANGED <<CoresReady, event, loaded, todo, posts, owing, buffered, wait_vars>>

\* blr x4: idle never returns, and multicore_start would start the core again.
Blr(k) ==
    /\ Goto(k, "blr", CASE loaded[k] = idle -> "idle"
                        [] loaded[k] = multicore_start -> "multicore_start"
                        [] OTHER -> "called")
    /\ owing' = [owing EXCEPT ![k] = @ \ {loaded[k]}]
    /\ UNCHANGED <<CoresReady, spin, event, loaded, todo, posts, buffered, wait_vars>>

Return(k) ==
    /\ Goto(k, "called", "start_idle")
    /\ loaded' = [loaded EXCEPT ![k] = NULL]
    /\ UNCHANGED <<CoresReady, spin, event, todo, posts, owing, buffered, wait_vars>>

-----------------------------------------------------------------------------
(* Core 0 *)

Bug_Start_uncounted ==
    /\ Goto(0, "_start", "multicore_start")
    /\ UNCHANGED <<boot_vars, wait_vars>>

Start ==
    /\ Goto(0, "_start", "multicore_start")
    /\ CoresReady' = 1
    /\ UNCHANGED <<spin, event, loaded, todo, posts, owing, buffered, wait_vars>>

\* start_kernel_core0 stores to spin_cpu1 and so on, one after the other, ...
Release ==
    /\ Goto(0, "release", "release_sev")
    /\ buffered' = buffered \cup {todo}
    /\ UNCHANGED <<CoresReady, spin, event, loaded, todo, posts, owing, wait_vars>>

\* ... each time with a sev that no barrier keeps from being seen before the store.
ReleaseSev ==
    /\ Goto(0, "release_sev", "wait_ack")
    /\ Sev
    /\ UNCHANGED <<CoresReady, spin, buffered, loaded, todo, posts, owing, wait_vars>>

\* The store is seen by the core that it releases.
StoreSeen(k) ==
    /\ k \in buffered
    /\ spin' = [spin EXCEPT ![k] = multicore_start]
    /\ buffered' = buffered \ {k}
    /\ UNCHANGED <<at, CoresReady, event, loaded, todo, posts, owing, wait_vars>>

Bug_WaitAck_earlier ==
    /\ at[0] = "wait_ack"
    /\ CoresReady >= todo
    /\ IF todo = Last THEN Goto(0, "wait_ack", "CoreExecute") /\ todo' = 1
                      ELSE Goto(0, "wait_ack", "release") /\ todo' = todo + 1
    /\ UNCHANGED <<CoresReady, spin, event, loaded, posts, owing, buffered, wait_vars>>

\* wait_ack_core1 and so on; then _crt0, whose bss does not hold CoresReady, and
\* initSystem of bios_main.
WaitAck ==
    /\ at[0] = "wait_ack"
    /\ CoresReady = todo + 1
    /\ IF todo = Last THEN Goto(0, "wait_ack", "CoreExecute") /\ todo' = 1
                      ELSE Goto(0, "wait_ack", "release") /\ todo' = todo + 1
    /\ UNCHANGED <<CoresReady, spin, event, loaded, posts, owing, buffered, wait_vars>>

\* CoreExecute refuses core 0 and cores that are not ready.
Refused(core) == core = 0 \/ core >= CoresReady

\* The store of CoreExecute, whose dsb makes it seen before anything that follows.
Store(core, entry, to) ==
    /\ spin' = [spin EXCEPT ![core] = entry]
    /\ owing' = [owing EXCEPT ![core] = @ \cup {entry}]
    /\ at' = [at EXCEPT ![0] = to]

\* bios_main posts idle to core after core; then sev ends CoreExecute.
BiosPost ==
    /\ at[0] = "CoreExecute"
    /\ IF Refused(todo) THEN at' = [at EXCEPT ![0] = "next"] /\ UNCHANGED <<spin, owing>>
                        ELSE Store(todo, idle, "sev")
    /\ UNCHANGED <<CoresReady, event, loaded, todo, posts, buffered, wait_vars>>

BiosNext ==
    /\ \/ Goto(0, "sev", "next") /\ Sev /\ UNCHANGED todo
       \/ /\ Goto(0, "next", IF todo = Last THEN "main" ELSE "CoreExecute")
          /\ todo' = IF todo = Last THEN todo ELSE todo + 1
          /\ UNCHANGED event
    /\ UNCHANGED <<CoresReady, spin, loaded, posts, owing, buffered, wait_vars>>

\* A client of CoreExecute posts a call of its own.
Post ==
    /\ at[0] = "main" /\ posts < MaxPosts
    /\ posts' = posts + 1
    /\ \E core \in Secondary, call \in Calls \cup {idle} :
           ~Refused(core) /\ Store(core, call, "posted")
    /\ UNCHANGED <<CoresReady, event, loaded, todo, buffered, wait_vars>>

Bug_Posted_silent == Goto(0, "posted", "main") /\ UNCHANGED <<boot_vars, wait_vars>>

\* The sev that ends CoreExecute.
Posted ==
    /\ Goto(0, "posted", "main")
    /\ Sev
    /\ UNCHANGED <<CoresReady, spin, loaded, todo, posts, owing, buffered, wait_vars>>

-----------------------------------------------------------------------------
(* WAIT *)

Bug_Wait_uncleared(c) ==
    /\ Goto(c, IF c = 0 THEN "main" ELSE "called", "wfi")
    /\ woken' = [woken EXCEPT ![c] = FALSE]
    /\ UNCHANGED <<boot_vars, wait_lock, entered>>

\* WAIT stores a doubleword of zeros at 16 bytes per core from wait_lock on.
Wait(c) ==
    /\ Goto(c, IF c = 0 THEN "main" ELSE "called", "wfi")
    /\ wait_lock' = [h \in Halfwords |-> IF h \in LockOf(c) THEN 0 ELSE wait_lock[h]]
    /\ woken' = [woken EXCEPT ![c] = FALSE]
    /\ UNCHANGED <<boot_vars, entered>>

Wfi(c) ==
    /\ Goto(c, "wfi", "suspended")
    /\ UNCHANGED <<boot_vars, wait_vars>>

\* The doubleword is 1.
LockSet(c) == \A h \in LockOf(c) : wait_lock[h] = IF h = 8 * c THEN 1 ELSE 0

WaitLoop(c) ==
    /\ Goto(c, "waitloop", IF ~LockSet(c) THEN "wfi" ELSE IF c = 0 THEN "main" ELSE "called")
    /\ UNCHANGED <<boot_vars, wait_vars>>

\* An interrupt, which ends a wfi only if the core is already in it.
Interrupted(c) ==
    /\ Goto(c, "suspended", "waitloop")
    /\ UNCHANGED <<boot_vars, wait_vars>>

\* An interrupt that c_irq_handler hands to the kernel, which comes back to what
\* it interrupted: the halfword wait_lock[core] is set.
KernelEntered(c) ==
    /\ c \in KernelCores /\ at[c] \in {"main", "called", "idle", "wfi", "suspended", "waitloop"}
    /\ entered < MaxEntered
    /\ entered' = entered + 1
    /\ wait_lock' = [wait_lock EXCEPT ![c] = 1]
    /\ woken' = [woken EXCEPT ![c] = TRUE]
    /\ at' = [at EXCEPT ![c] = IF @ = "suspended" THEN "waitloop" ELSE @]
    /\ UNCHANGED boot_vars

SecondaryStep(k) ==
    \/ Firmware(k) \/ MulticoreStart(k) \/ LoadReady(k) \/ StoreReady(k)
    \/ StartIdleCoreSpin(k) \/ IdleCoreSpin(k) \/ LoadEntry(k) \/ ClearEntry(k) \/ Blr(k)
    \/ Return(k)

BootStep == \/ Start \/ MulticoreStart(0) \/ Release \/ ReleaseSev \/ WaitAck
            \/ BiosPost \/ BiosNext \/ Posted

WaitStep(c) == Wfi(c) \/ WaitLoop(c)

CoresNext ==
    \/ \E k \in Secondary : SecondaryStep(k) \/ StoreSeen(k)
    \/ BootStep \/ Post
    \/ \E c \in AllCores : Wait(c) \/ WaitStep(c) \/ Interrupted(c) \/ KernelEntered(c)

CoresSpec == CoresInit /\ [][CoresNext]_cores_vars

\* Every core executes, and stores are seen in the end.  Nobody has to post, to
\* call WAIT, to interrupt or to enter the kernel: nothing in the code asks for
\* another interrupt when one has come.
FairCoresSpec ==
    /\ CoresSpec
    /\ WF_cores_vars(BootStep)
    /\ \A k \in Secondary : WF_cores_vars(SecondaryStep(k)) /\ WF_cores_vars(StoreSeen(k))
    /\ \A c \in AllCores : WF_cores_vars(WaitStep(c))

-----------------------------------------------------------------------------
Labels0 == {"_start", "multicore_start", "release", "release_sev", "wait_ack", "CoreExecute",
            "sev", "next", "main", "posted", "wfi", "suspended", "waitloop"}
Labels == {"firmware", "look", "multicore_start", "load_ready", "store_ready", "start_idle",
           "idle_core_spin", "load_entry", "clear_entry", "blr", "idle", "called",
           "wfi", "suspended", "waitloop"}

CoresTypeOK ==
    /\ at \in [AllCores -> Labels \cup Labels0] /\ at[0] \in Labels0
    /\ CoresReady \in 0 .. Last + 1
    /\ spin \in [Secondary -> Entries]
    /\ buffered \subseteq Secondary
    /\ event \in [AllCores -> BOOLEAN]
    /\ loaded \in [AllCores -> Entries \cup (0 .. Last)]
    /\ todo \in Secondary
    /\ posts \in 0 .. MaxPosts
    /\ owing \in [Secondary -> SUBSET (Calls \cup {idle})]
    /\ wait_lock \in [Halfwords -> {0, 1}]
    /\ entered \in 0 .. MaxEntered
    /\ woken \in [AllCores -> BOOLEAN]

Counted == {k \in Secondary : at[k] \notin {"firmware", "look", "multicore_start",
                                            "load_ready", "store_ready"}}

\* Although the cores count themselves with a load and a store, no count is lost,
\* and core 0 does not clear memory or initialise the system before every core
\* has counted itself, which is once.
ReadyCounted ==
    /\ at[0] # "_start" => CoresReady = 1 + Cardinality(Counted)
    /\ at[0] \in {"CoreExecute", "sev", "next", "main", "posted"} => Counted = Secondary

\* A core calls what was posted to it and nothing twice: neither the entry that
\* released it from the firmware, nor a call that it has already taken.
CalledOnce ==
    [][\A k \in Secondary : at[k] = "blr" /\ at'[k] # "blr" => loaded[k] \in owing[k]]_cores_vars

\* Core 0 boots and comes to main ("The "main" kernel runs on core0", init.S).
BootEnds == <>(at[0] = "main")

\* A core that has left the firmware does not keep core 0 waiting: it counts
\* itself, whatever the core before it does, and core 0 finds the count it wants.
Acknowledged ==
    \A k \in Secondary : at[k] = "multicore_start" ~> at[0] = "main" \/ todo > k

\* A call that is posted while the core sleeps in its spin loop is taken.
CallTaken ==
    \A k \in Secondary :
        at[k] = "idle_core_spin" /\ spin[k] # NULL ~> at[k] \in {"idle", "called"}

\* WAIT returns only if an interrupt has entered the kernel of its core since it
\* was called, although the locks of all cores are words of one array.
WaitReturns ==
    [][\A c \in AllCores :
           at[c] = "waitloop" /\ at'[c] \in {"main", "called"} => woken[c]]_cores_vars

\* It does return: an interrupt that entered the kernel is seen at the next look,
\* on whatever core it came ("put the machine in idle state waiting for
\* interrupts", libuarm.h), ...
WokenSeen == \A c \in AllCores : at[c] = "waitloop" /\ woken[c] => LockSet(c)

\* ... and wherever in the loop it came.
WaitEnds ==
    \A c \in AllCores :
        at[c] \in {"wfi", "suspended", "waitloop"} /\ woken[c] ~> at[c] \in {"main", "called"}

\* What CoreExecute has posted is called in the end.
PostedCalled ==
    \A k \in Secondary : \A call \in Calls : call \in owing[k] ~> call \notin owing[k]
=============================================================================
