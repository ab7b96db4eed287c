---------------------------- MODULE DeviceTimers ----------------------------
(***************************************************************************)
(* What include/emulated_timers.h promises to the emulated devices: at     *)
(* most one deadline per device, the latest one asked for; a query names a *)
(* device whose deadline is earliest; an expiry takes exactly that device. *)
(* EmulatedTimers.tla is the implementation: two linked lists of timer_t.  *)
(***************************************************************************)
EXTENDS Naturals

CONSTANTS
    Keys,      \* the (type, code) pairs a timer is armed for
    NoKey,     \* no device: TIMER_TYPE UNALLOCATED
    NoDeadline, \* no timer is armed for the key
    Delays,    \* the delays, in microseconds, that devices ask for
    Horizon    \* bound on the clock

VARIABLES
    deadline,  \* deadline[k]: when k's timer expires, or NoDeadline
    report,    \* what the last query returned
    now        \* getTOD()

\* The result of a query: the returned int and the timer_t filled in.
NoReport == [res |-> "none", key |-> NoKey, time |-> 0]

Reported(res, k, t) == [res |-> res, key |-> k, time |-> t]

Init == /\ deadline = [k \in Keys |-> NoDeadline]
        /\ report = NoReport
        /\ now = 0

Armed == {k \in Keys : deadline[k] # NoDeadline}

\* k expires before no other device.
Earliest(k) == k \in Armed /\ \A j \in Armed : deadline[k] <= deadline[j]

\* Arming replaces whatever deadline the device had.
Add(k, d) == /\ deadline' = [deadline EXCEPT ![k] = now + d]
             /\ UNCHANGED <<report, now>>

Empty == /\ Armed = {}
         /\ report' = NoReport
         /\ UNCHANGED <<deadline, now>>

\* The earliest deadline is reported and kept.
Peek(k) == /\ Earliest(k)
           /\ report' = Reported("pending", k, deadline[k])
           /\ UNCHANGED <<deadline, now>>

\* The earliest deadline has passed: it is reported and disarmed.
Expire(k) == /\ Earliest(k)
             /\ deadline[k] < now
             /\ report' = Reported("expired", k, deadline[k])
             /\ deadline' = [deadline EXCEPT ![k] = NoDeadline]
             /\ UNCHANGED now

Tick == /\ now < Horizon
        /\ now' = now + 1
        /\ UNCHANGED <<deadline, report>>

Next == \/ \E k \in Keys, d \in Delays : Add(k, d)
        \/ Empty
        \/ \E k \in Keys : Peek(k) \/ Expire(k)
        \/ Tick

vars == <<deadline, report, now>>

Spec == Init /\ [][Next]_vars
=============================================================================
