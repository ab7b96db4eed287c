--------------------------- MODULE EmulatedTimers ---------------------------
(***************************************************************************)
(* The timer lists of source/emulated/emulated_timers.c.  The lists are    *)
(* sequences of timer_t blocks.  They are used by the FIQ handler of core 0 *)
(* only, so calls do not overlap; the loops of removeTimerType and          *)
(* insertTimer are walked one node at a time, aux being the cursor.         *)
(***************************************************************************)
EXTENDS Naturals, Sequences, FiniteSets

CONSTANTS
    Timers,    \* the blocks of timerarray[MAX_TIMERS]
    Keys,      \* the (type, code) pairs: 3 device types x 4 devices
    NoKey,     \* TIMER_TYPE UNALLOCATED
    NoTimer,   \* a NULL timer_t pointer
    NoDeadline, \* no timer is armed for the key
    Delays,    \* the delays, in microseconds, that devices ask for
    Horizon    \* bound on the clock

ASSUME TimersFinite == IsFiniteSet(Timers) /\ IsFiniteSet(Keys)
\* MAX_TIMERS is (IL_LINES+1)*MAX_DEVICES = 20; there are 12 keys.
ASSUME EnoughTimers == Cardinality(Keys) <= Cardinality(Timers)
ASSUME NoKeyNotKey == NoKey \notin Keys
ASSUME NoTimerNotTimer == NoTimer \notin Timers
ASSUME NoDeadlineNotTime == NoDeadline \notin Nat
ASSUME DelaysNat == Delays \subseteq Nat /\ Horizon \in Nat

VARIABLES
    pending_timers,  \* the armed timers, as list order
    free_timers,     \* the blocks not in use, as list order
    time,            \* time[b]: the field of block b
    key,             \* key[b]: the fields type and code of block b
    pc,              \* where add_timer is: "idle" when it is not running
    arg,             \* the arguments of the add_timer call
    aux,             \* position of the cursor in pending_timers
    timer,           \* add_timer's local: the block it allocated
    next,            \* what the last next_timer or next_pending_timer said
    now              \* getTOD()

vars == <<pending_timers, free_timers, time, key, pc, arg, aux, timer, next, now>>

lists == <<pending_timers, free_timers>>
fields == <<time, key>>
call == <<pc, arg, aux, timer>>

(***************************************************************************)
(* include/maldos/listx.h: list_del of the node at position i, list_add    *)
(* that makes e the node at position i, list_add_tail.                     *)
(***************************************************************************)
list_del(s, i) ==
    [j \in 1..(Len(s) - 1) |-> IF j < i THEN s[j] ELSE s[j + 1]]

list_add(s, i, e) ==
    [j \in 1..(Len(s) + 1) |->
        IF j < i THEN s[j] ELSE IF j = i THEN e ELSE s[j - 1]]

list_add_tail(s, e) == Append(s, e)

-----------------------------------------------------------------------------
NoReport == [res |-> "none", key |-> NoKey, time |-> 0]

Reported(res, b) == [res |-> res, key |-> key[b], time |-> time[b]]

NoCall == [key |-> NoKey, time |-> 0]

\* init_emulated_timers: every block of the array is free, once.
Init == /\ pending_timers = <<>>
        /\ free_timers \in {s \in [1..Cardinality(Timers) -> Timers] :
                               /\ \A i, j \in DOMAIN s : s[i] = s[j] => i = j
                               /\ \A b \in Timers : \E i \in DOMAIN s : s[i] = b}
        /\ time = [b \in Timers |-> 0]
        /\ key = [b \in Timers |-> NoKey]
        /\ pc = "idle"
        /\ arg = NoCall
        /\ aux = 0
        /\ timer = NoTimer
        /\ next = NoReport
        /\ now = 0

\* add_timer is called; removeTimerType starts at the head of the list.
add_timer(k, d) ==
    /\ pc = "idle"
    /\ arg' = [key |-> k, time |-> now + d]
    /\ pc' = "remove"
    /\ aux' = 1
    /\ UNCHANGED <<lists, fields, timer, next, now>>

\* freeTimer.
Bug_freeTimer_lost(s, b) == s
freeTimer(s, b) == list_add_tail(s, b)

\* The cursor after list_del of the node at i: its successor, now at i.
Bug_SuccessorSkipped(i) == i + 1
Successor(i) == i

\* The test of type and code in removeTimerType's loop.
Bug_Matches_never(b) == FALSE
Matches(b) == key[b] = arg.key

\* One turn of removeTimerType's loop: unlink and free, or go on.
removeTimerType ==
    /\ pc = "remove"
    /\ aux <= Len(pending_timers)
    /\ IF Matches(pending_timers[aux])
       THEN /\ pending_timers' = list_del(pending_timers, aux)
            /\ free_timers' = freeTimer(free_timers, pending_timers[aux])
            /\ aux' = Successor(aux)
       ELSE /\ aux' = aux + 1
            /\ UNCHANGED lists
    /\ UNCHANGED <<fields, pc, arg, timer, next, now>>

removeTimerTypeDone ==
    /\ pc = "remove"
    /\ aux > Len(pending_timers)
    /\ pc' = "alloc"
    /\ UNCHANGED <<lists, fields, arg, aux, timer, next, now>>

\* The locals of a call die when it returns.
Return == pc' = "idle" /\ arg' = NoCall /\ aux' = 0 /\ timer' = NoTimer

\* allocTimer takes the first free block and add_timer fills its fields; if
\* there is none, add_timer logs and returns and the device is not armed.
allocTimer ==
    /\ pc = "alloc"
    /\ IF free_timers = <<>>
       THEN Return /\ UNCHANGED <<free_timers, fields>>
       ELSE /\ timer' = free_timers[1]
            /\ free_timers' = list_del(free_timers, 1)
            /\ time' = [time EXCEPT ![free_timers[1]] = arg.time]
            /\ key' = [key EXCEPT ![free_timers[1]] = arg.key]
            /\ pc' = "insert"
            /\ aux' = 1
            /\ UNCHANGED arg
    /\ UNCHANGED <<pending_timers, next, now>>

\* insertTimer stops at the first timer that expires after the new one.
Bug_Later_reversed(b) == time[b] < time[timer]
Later(b) == time[b] > time[timer]

insertTimerScan ==
    /\ pc = "insert"
    /\ aux <= Len(pending_timers)
    /\ ~Later(pending_timers[aux])
    /\ aux' = aux + 1
    /\ UNCHANGED <<lists, fields, pc, arg, timer, next, now>>

insertTimerLink ==
    /\ pc = "insert"
    /\ aux <= Len(pending_timers) => Later(pending_timers[aux])
    /\ pending_timers' = list_add(pending_timers, aux, timer)
    /\ Return
    /\ UNCHANGED <<free_timers, fields, next, now>>

\* next_timer, and next_pending_timer when nothing has expired: a copy of
\* the head of the list, if there is one.
next_timer ==
    /\ pc = "idle"
    /\ next' = IF pending_timers = <<>> THEN NoReport
               ELSE Reported("pending", pending_timers[1])
    /\ UNCHANGED <<lists, fields, call, now>>

Bug_Expired_early(b) == time[b] <= now
Expired(b) == time[b] < now

\* next_pending_timer when the head has expired: removeTimer, freeTimer.
next_pending_timer ==
    /\ pc = "idle"
    /\ pending_timers # <<>>
    /\ Expired(pending_timers[1])
    /\ next' = Reported("expired", pending_timers[1])
    /\ free_timers' = freeTimer(free_timers, pending_timers[1])
    /\ pending_timers' = list_del(pending_timers, 1)
    /\ UNCHANGED <<fields, call, now>>

\* Time passes, between and during calls.
Tick ==
    /\ now < Horizon
    /\ now' = now + 1
    /\ UNCHANGED <<lists, fields, call, next>>

Next == \/ \E k \in Keys, d \in Delays : add_timer(k, d)
        \/ removeTimerType \/ removeTimerTypeDone
        \/ allocTimer
        \/ insertTimerScan \/ insertTimerLink
        \/ next_timer \/ next_pending_timer
        \/ Tick

Spec == Init /\ [][Next]_vars

-----------------------------------------------------------------------------
Calls == [key : Keys \cup {NoKey}, time : Nat]

\* Type invariant.  The cursor of add_timer's loops is a node of the list or
\* the list head (the position after the last node) and never beyond it.
TypeOK ==
    /\ pending_timers \in Seq(Timers)
    /\ free_timers \in Seq(Timers)
    /\ time \in [Timers -> Nat]
    /\ key \in [Timers -> Keys \cup {NoKey}]
    /\ pc \in {"idle", "remove", "alloc", "insert"}
    /\ arg \in Calls
    /\ pc # "idle" => arg.key \in Keys
    /\ aux \in Nat
    /\ pc \in {"remove", "insert"} => aux \in 1..(Len(pending_timers) + 1)
    /\ timer \in Timers \cup {NoTimer}
    /\ pc = "insert" => timer \in Timers
    /\ next \in [res : {"none", "pending", "expired"}, key : Keys \cup {NoKey}, time : Nat]
    /\ now \in Nat

Linked(s, b) == \E i \in DOMAIN s : s[i] = b
InHand(b) == pc = "insert" /\ b = timer

\* Every timer_t block is in exactly one place, once: free_timers,
\* pending_timers, or the hands of the add_timer that just allocated it.
\* list_del, freeTimer and insertTimer neither lose a block nor link it twice.
TimersPartitioned ==
    /\ \A i, j \in DOMAIN pending_timers : pending_timers[i] = pending_timers[j] => i = j
    /\ \A i, j \in DOMAIN free_timers : free_timers[i] = free_timers[j] => i = j
    /\ \A b \in Timers : \/ Linked(pending_timers, b)
                         \/ Linked(free_timers, b)
                         \/ InHand(b)
    /\ \A b \in Timers : /\ ~(Linked(pending_timers, b) /\ Linked(free_timers, b))
                         /\ InHand(b) => ~Linked(pending_timers, b) /\ ~Linked(free_timers, b)

\* insertTimer keeps pending_timers in order of expiry, so that the head
\* that next_timer and next_pending_timer look at is the earliest timer.
PendingSorted ==
    \A i, j \in DOMAIN pending_timers :
        i <= j => time[pending_timers[i]] <= time[pending_timers[j]]

\* No device has two pending timers, so that a device armed again never
\* completes by an older timer.  While removeTimerType runs, the nodes behind
\* its cursor belong to other devices; once it is done, all of them do.
OneTimerPerKey ==
    /\ \A i, j \in DOMAIN pending_timers :
           key[pending_timers[i]] = key[pending_timers[j]] => i = j
    /\ \A i \in DOMAIN pending_timers :
           /\ key[pending_timers[i]] \in Keys
           /\ pc = "remove" /\ i < aux => ~Matches(pending_timers[i])
           /\ pc \in {"alloc", "insert"} => ~Matches(pending_timers[i])

\* What insertTimer's scan has established: the block in hand carries the
\* arguments of the call, and the nodes behind the cursor expire no later.
ScanInv ==
    pc = "insert" =>
        /\ key[timer] = arg.key
        /\ time[timer] = arg.time
        /\ \A i \in DOMAIN pending_timers : i < aux => ~Later(pending_timers[i])

\* The inductive invariant.
IndInv == /\ TypeOK
          /\ TimersPartitioned
          /\ PendingSorted
          /\ OneTimerPerKey
          /\ ScanInv

\* add_timer's "Fatal: no more timers!" path is never taken: removeTimerType
\* leaves at most one timer per other device, and there are enough blocks.
NeverExhausted == pc = "alloc" => free_timers # <<>>

\* The deadline a device has: the one of the call in progress, or the one in
\* its pending timer.
Deadline(k) ==
    IF pc # "idle" /\ arg.key = k THEN arg.time
    ELSE IF \E i \in DOMAIN pending_timers : key[pending_timers[i]] = k
         THEN time[pending_timers[CHOOSE i \in DOMAIN pending_timers :
                                     key[pending_timers[i]] = k]]
         ELSE NoDeadline

DT == INSTANCE DeviceTimers
        WITH deadline <- [k \in Keys |-> Deadline(k)], report <- next

\* The lists implement the one-deadline-per-device interface of DeviceTimers:
\* add_timer replaces the device's deadline when it is called, the queries
\* report an earliest deadline, and only an expired earliest one is removed.
ImplementsDeviceTimers == DT!Spec
=============================================================================
