----------------------------- MODULE IrqHandler -----------------------------
(***************************************************************************)
(* c_irq_handler and setTIMER of source/interrupts.c, running beneath the  *)
(* FIQ handler.  The physical timer of a core interrupts it by IRQ; an     *)
(* emulated interrupt line is brought to the kernel by making that timer   *)
(* fire at once.  IRQs are taken in user mode only; FIQs are always taken, *)
(* so every load and store of the interrupt lines is a step of its own.    *)
(***************************************************************************)
EXTENDS FiqHandler

CONSTANTS
    TimerDelays,   \* the microseconds that kernels pass to setTIMER
    RoundsOfLines  \* the order in which clean_interrupt_lines visits the lines

ASSUME TimerDelaysNat == TimerDelays \subseteq Nat
ASSUME LinesVisited == RoundsOfLines = <<Cores, Tapes, Disks, Printers>>

VARIABLES
    mode,       \* what each core runs beneath the handlers: "user" or "kernel"
    irq,        \* where each core is in c_irq_handler or setTIMER
    round,      \* the local i of clean_interrupt_lines
    loaded,     \* the byte of INTERRUPT_LINES in a register
    started,    \* the local currentTime
    refire,     \* what pending_emulated_interrupt returned to setTIMER
    scheduled_physical_timers  \* the times set by setTIMER; 0 for none

irq_vars == <<mode, irq, round, loaded, started, refire, scheduled_physical_timers>>
all_vars == <<vars, irq_vars>>

\* bios_main starts the application at EL1.
IrqInit == /\ Init
           /\ mode = [c \in Cores |-> "kernel"]
           /\ irq = [c \in Cores |-> "idle"]
           /\ round = [c \in Cores |-> 0]
           /\ loaded = [c \in Cores |-> {}]
           /\ started = [c \in Cores |-> 0]
           /\ refire = [c \in Cores |-> FALSE]
           /\ scheduled_physical_timers = [c \in Cores |-> 0]

\* A core executes, unless a FIQ has preempted it.
Runs(c) == c = Core0 => fiq = "idle" /\ mailbox = NoMail

At(c, pc) == Runs(c) /\ irq[c] = pc
Goto(c, pc) == irq' = [irq EXCEPT ![c] = pc]
SetPhysical(c, t) == physical_timer' = [physical_timer EXCEPT ![c] = t]
ByteOfTimers == lines \cap Cores

\* Nothing that belongs to the devices and the FIQ handler changes, but for
\* the lines and the physical timers.
DevicesIdle == UNCHANGED <<registers, regs, timers, printer_vars, tape_vars, disk_vars,
                           now, fiq_vars>>

-----------------------------------------------------------------------------
(* c_irq_handler *)

\* An IRQ in user mode.  Core 0 reads its IRQ source; the other cores leave
\* tmp uninitialized.
IrqEnter(c) ==
    /\ At(c, "idle")
    /\ mode[c] = "user"
    /\ Fired(physical_timer[c])
    /\ \/ Goto(c, "timer")
       \/ c # Core0 /\ Goto(c, "pending")
    /\ DevicesIdle
    /\ UNCHANGED <<lines, physical_timer, mode, round, loaded, started, refire,
                   scheduled_physical_timers>>

TimerReached(c) == now >= scheduled_physical_timers[c]

\* The timer set by setTIMER has not come yet when the clock is read: ...
IrqTimerRead(c) ==
    /\ At(c, "timer")
    /\ ~TimerReached(c)
    /\ started' = [started EXCEPT ![c] = now]
    /\ Goto(c, "again")
    /\ DevicesIdle
    /\ UNCHANGED <<lines, physical_timer, mode, round, loaded, refire,
                   scheduled_physical_timers>>

Bug_IrqTimerAgain_off(c) ==
    /\ At(c, "again")
    /\ SetPhysical(c, Off)
    /\ started' = [started EXCEPT ![c] = 0]
    /\ Goto(c, "pending")
    /\ DevicesIdle
    /\ UNCHANGED <<lines, mode, round, loaded, refire, scheduled_physical_timers>>

\* ... wait for the rest of it.
IrqTimerAgain(c) ==
    /\ At(c, "again")
    /\ SetPhysical(c, now + (scheduled_physical_timers[c] - started[c]))
    /\ started' = [started EXCEPT ![c] = 0]
    /\ Goto(c, "pending")
    /\ DevicesIdle
    /\ UNCHANGED <<lines, mode, round, loaded, refire, scheduled_physical_timers>>

\* It has: the timer line of the core is raised, in a load and a store ...
IrqTimerLoad(c) ==
    /\ At(c, "timer")
    /\ TimerReached(c)
    /\ loaded' = [loaded EXCEPT ![c] = ByteOfTimers]
    /\ Goto(c, "raise")
    /\ DevicesIdle
    /\ UNCHANGED <<lines, physical_timer, mode, round, started, refire,
                   scheduled_physical_timers>>

Bug_IrqTimerRaise_kept(c) ==
    /\ At(c, "raise")
    /\ lines' = (lines \ Cores) \cup loaded[c] \cup {c}
    /\ SetPhysical(c, Off)
    /\ loaded' = [loaded EXCEPT ![c] = {}]
    /\ Goto(c, "pending")
    /\ DevicesIdle
    /\ UNCHANGED <<mode, round, started, refire, scheduled_physical_timers>>

\* ... and the physical timer is switched off.
IrqTimerRaise(c) ==
    /\ At(c, "raise")
    /\ lines' = (lines \ Cores) \cup loaded[c] \cup {c}
    /\ scheduled_physical_timers' = [scheduled_physical_timers EXCEPT ![c] = 0]
    /\ SetPhysical(c, Off)
    /\ loaded' = [loaded EXCEPT ![c] = {}]
    /\ Goto(c, "pending")
    /\ DevicesIdle
    /\ UNCHANGED <<mode, round, started, refire>>

Bug_IrqPending_forgets(c) ==
    /\ At(c, "pending")
    /\ Goto(c, "clean")
    /\ round' = [round EXCEPT ![c] = 1]
    /\ DevicesIdle
    /\ UNCHANGED <<lines, physical_timer, mode, loaded, started, refire,
                   scheduled_physical_timers>>

\* The physical timer fires again at once while a line is pending.
IrqPending(c) ==
    /\ At(c, "pending")
    /\ IF pending_emulated_interrupt THEN SetPhysical(c, now) ELSE UNCHANGED physical_timer
    /\ Goto(c, "clean")
    /\ round' = [round EXCEPT ![c] = 1]
    /\ DevicesIdle
    /\ UNCHANGED <<lines, mode, loaded, started, refire, scheduled_physical_timers>>

\* clean_interrupt_lines: each byte is loaded, masked with the installed
\* devices, and stored.
IrqCleanLoad(c) ==
    /\ At(c, "clean")
    /\ round[c] <= Len(RoundsOfLines)
    /\ loaded' = [loaded EXCEPT ![c] = lines \cap RoundsOfLines[round[c]]]
    /\ Goto(c, "store")
    /\ DevicesIdle
    /\ UNCHANGED <<lines, physical_timer, mode, round, started, refire,
                   scheduled_physical_timers>>

IrqCleanStore(c) ==
    /\ At(c, "store")
    /\ lines' = (lines \ RoundsOfLines[round[c]]) \cup (loaded[c] \cap DeviceInstalled)
    /\ loaded' = [loaded EXCEPT ![c] = {}]
    /\ round' = [round EXCEPT ![c] = @ + 1]
    /\ Goto(c, "clean")
    /\ DevicesIdle
    /\ UNCHANGED <<physical_timer, mode, started, refire, scheduled_physical_timers>>

\* The kernel's interrupt handler is entered if a line is still pending;
\* otherwise the interrupted process goes on.
IrqDispatch(c) ==
    /\ At(c, "clean")
    /\ round[c] > Len(RoundsOfLines)
    /\ mode' = [mode EXCEPT ![c] = IF pending_emulated_interrupt THEN "kernel" ELSE "user"]
    /\ Goto(c, "idle")
    /\ round' = [round EXCEPT ![c] = 0]
    /\ DevicesIdle
    /\ UNCHANGED <<lines, physical_timer, loaded, started, refire, scheduled_physical_timers>>

-----------------------------------------------------------------------------
(* setTIMER, called by the kernel *)

\* The clock is read, and the timer line loaded.
SetTimer(c) ==
    /\ At(c, "idle")
    /\ mode[c] = "kernel"
    /\ now < PostUntil
    /\ started' = [started EXCEPT ![c] = now]
    /\ loaded' = [loaded EXCEPT ![c] = ByteOfTimers]
    /\ Goto(c, "lower")
    /\ DevicesIdle
    /\ UNCHANGED <<lines, physical_timer, mode, round, refire, scheduled_physical_timers>>

\* The core's timer line is lowered and the new time written down.
SetTimerLower(c, us) ==
    /\ At(c, "lower")
    /\ lines' = (lines \ Cores) \cup (loaded[c] \ {c})
    /\ scheduled_physical_timers' = [scheduled_physical_timers EXCEPT ![c] = started[c] + us]
    /\ loaded' = [loaded EXCEPT ![c] = {}]
    /\ Goto(c, "look")
    /\ DevicesIdle
    /\ UNCHANGED <<physical_timer, mode, round, started, refire>>

SetTimerLook(c) ==
    /\ At(c, "look")
    /\ refire' = [refire EXCEPT ![c] = pending_emulated_interrupt]
    /\ Goto(c, "arm")
    /\ DevicesIdle
    /\ UNCHANGED <<lines, physical_timer, mode, round, loaded, started,
                   scheduled_physical_timers>>

\* The physical timer is set for the new time, or for now if a line was
\* pending; the time left was reckoned from the clock read at the start.
SetTimerArm(c) ==
    /\ At(c, "arm")
    /\ LET left == scheduled_physical_timers[c] - started[c] IN
       SetPhysical(c, IF left > 0 /\ ~refire[c] THEN now + left ELSE now)
    /\ Goto(c, "idle")
    /\ started' = [started EXCEPT ![c] = 0]
    /\ refire' = [refire EXCEPT ![c] = FALSE]
    /\ DevicesIdle
    /\ UNCHANGED <<lines, mode, round, loaded, scheduled_physical_timers>>

\* The kernel resumes a process.
KernelReturn(c) ==
    /\ At(c, "idle")
    /\ mode[c] = "kernel"
    /\ mode' = [mode EXCEPT ![c] = "user"]
    /\ DevicesIdle
    /\ UNCHANGED <<lines, physical_timer, irq, round, loaded, started, refire,
                   scheduled_physical_timers>>

-----------------------------------------------------------------------------
IrqCore(c) == \/ IrqEnter(c) \/ IrqTimerRead(c) \/ IrqTimerAgain(c)
              \/ IrqTimerLoad(c) \/ IrqTimerRaise(c) \/ IrqPending(c)
              \/ IrqCleanLoad(c) \/ IrqCleanStore(c) \/ IrqDispatch(c)

SetTimerCore(c) == \/ \E us \in TimerDelays : SetTimerLower(c, us)
                   \/ SetTimerLook(c) \/ SetTimerArm(c)

\* Processes and the kernel of core 0 post commands, between their own steps.
IrqClient == irq[Core0] = "idle" /\ Client /\ UNCHANGED irq_vars

\* A FIQ takes its time, at most MaxRun, in its loop; setTIMER and c_irq_handler
\* take MaxRun at most, but for the FIQs that preempt them, from reading the
\* clock to arming.
IrqTick == /\ fiq \in {"idle", "loop"}
           /\ \A c \in Cores : Runs(c) /\ irq[c] \in {"again", "lower", "look", "arm"}
                                   => now < started[c] + MaxRun
           /\ Tick
           /\ UNCHANGED irq_vars

IrqNext == \/ \E c \in Cores : IrqCore(c) \/ SetTimer(c) \/ SetTimerCore(c) \/ KernelReturn(c)
           \/ IrqClient
           \/ Fiq /\ UNCHANGED irq_vars
           \/ IrqTick

IrqSpec == IrqInit /\ [][IrqNext]_all_vars

\* The handlers and setTIMER run to their end, kernels return to a process,
\* an interrupt that stays pending is taken, and time passes (IrqTick is
\* disabled only by the bounds on running times).
FairIrqSpec ==
    /\ IrqSpec
    /\ WF_all_vars(Fiq /\ UNCHANGED irq_vars)
    /\ SF_all_vars(IrqTick)
    /\ \A c \in Cores : WF_all_vars(IrqCore(c)) /\ WF_all_vars(SetTimerCore(c) \/ KernelReturn(c))

-----------------------------------------------------------------------------
IrqTypeOK ==
    /\ TypeOK
    /\ mode \in [Cores -> {"user", "kernel"}]
    /\ irq \in [Cores -> {"idle", "timer", "again", "raise", "pending", "clean", "store",
                          "lower", "look", "arm"}]
    /\ round \in [Cores -> 0..(Len(RoundsOfLines) + 1)]
    /\ loaded \in [Cores -> SUBSET (Devices \cup Cores)]
    /\ started \in [Cores -> Nat]
    /\ refire \in [Cores -> BOOLEAN]
    /\ scheduled_physical_timers \in [Cores -> Nat]

\* An unmasked pending line has the physical timer of core 0 on, or a handler
\* under way that will switch it on: the kernel will be told.  The FIQ handler,
\* c_irq_handler and setTIMER all write that timer and preempt each other.
DeliveryArmed ==
    pending_emulated_interrupt /\ fiq = "idle" /\ mailbox = NoMail =>
        physical_timer[Core0] # Off \/ irq[Core0] = "pending"

\* While a line is pending and no handler runs, the physical timer fires ("Until
\* there are interrupt lines pending fire interrupts immediately", interrupts.c).
FiresAtOnce ==
    pending_emulated_interrupt /\ fiq = "idle" /\ mailbox = NoMail /\ irq[Core0] = "idle" =>
        Fired(physical_timer[Core0])

\* A time set by setTIMER is not forgotten: until it is reached the physical timer is
\* on, however many device interrupts share it.  On the cores that no FIQ preempts it
\* fires, unless it has fired already, late by no more than the handlers' own time.
ScheduledServed ==
    \A c \in Cores :
        scheduled_physical_timers[c] > 0 /\ irq[c] \notin {"raise", "lower", "look", "arm"} =>
            /\ physical_timer[c] # Off
            /\ c = Core0 \/ Fired(physical_timer[c])
                 \/ physical_timer[c] <= scheduled_physical_timers[c] + MaxRun

\* c_irq_handler lowers no line ("Interrupts run at level EL1; they are
\* enabled only at level EL0, so there are no nested interrupts", vectors.S).
IrqLowersNothing ==
    [][\A c \in Cores : irq[c] = "store" /\ irq'[c] = "clean" => lines \subseteq lines']_all_vars

\* A timer line goes up only if setTIMER asked for it ("either a timer
\* interrupt reached its condition or there are emulated interrupt lines
\* pending", interrupts.c).
TimerLineAskedFor ==
    [][\A c \in Cores : c \in lines' \ lines => scheduled_physical_timers[c] > 0]_all_vars

\* A raised timer line is lowered only by setTIMER on its core ("Don't clear
\* the timer interrupt on purpose; it's on the user to to that", interrupts.c).
TimerLineKept ==
    [][\A c \in Cores : c \in lines \ lines' => irq[c] = "lower" /\ irq'[c] = "look"]_all_vars

\* A pending unmasked line is brought to the kernel, or is lowered first.
Delivered ==
    \A d \in (Devices \cup Cores) \ Masked : d \in lines ~> d \notin lines \/ mode[Core0] = "kernel"

\* A time set by setTIMER is reached.
TimerComes ==
    \A c \in Cores : scheduled_physical_timers[c] > 0 ~> scheduled_physical_timers[c] = 0
=============================================================================
