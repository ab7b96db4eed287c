---------------------------- MODULE ContextSwitch ----------------------------
(***************************************************************************)
(* Exceptions and the switching of processor states: source/vectors.S,     *)
(* STST_asm, STST_asm_el2, LDST and pushRegisters of source/asmlib.S,      *)
(* c_swi_handler and the end of c_irq_handler of source/interrupts.c, and  *)
(* the kernel of example/source/app_main.c, which switches two processes.  *)
(* System calls are taken at EL1 and passed on to EL2, IRQs are taken at   *)
(* EL1, FIQs at EL2, and only there they are masked.  What C code leaves   *)
(* in a register is Junk.                                                  *)
(***************************************************************************)
EXTENDS Naturals, Sequences

CONSTANTS
    Cores, Core0,  \* the cores; core 0 takes the FIQs and runs the processes
    Procs,         \* the processes t1, t2 of the example, numbered
    MaxTaken       \* bound: system calls and IRQs that are taken

\* A register file is numbered as the words of a state_t are: x0 to x28, frame
\* pointer, link register, stack pointer, pc, TTBR0 and status.
GPRS == 0 .. 30
SP == 31
ELR == 32
TTBR0 == 33
STATUS == 34
Words == 0 .. 34

\* The status words 0x300 (EL0), 0x305 (EL1) and 0x385 (EL1, IRQs masked).
User == 0
Level1 == 1
Kernel == 2

\* Values are told apart by where they come from: word k of the first state of
\* program i is 100 * i + k.
Junk == 0
Home(i, status) == [k \in Words |-> IF k = STATUS THEN status ELSE 100 * i + k]
Bios(c) == Home(c + 1, Level1)
Process(p) == Home(p + 10, User)
StackEL1(c) == 20001 + 100 * c        \* __EL1_stack_core...
StackEL2(c) == 30001 + 100 * c        \* __EL2_stack_core...
KernelSP(c) == 40001 + 100 * c        \* the word at KERNEL_CORE..._SP
SwiFrame == 50                        \* what c_swi_handler takes of the stack
Handler(kind) == IF kind = "irq" THEN 9001 ELSE 9002
TTBR1 == 9003

ASSUME Numbers == /\ Cores \subseteq 0 .. 3 /\ Core0 = 0 /\ Core0 \in Cores
                  /\ Procs \subseteq 1 .. 9 /\ Procs # {}
                  /\ MaxTaken \in Nat

VARIABLES
    x,            \* the general purpose registers of each core
    sp,           \* its stack pointers sp_el0, sp_el1 and sp_el2
    ttbr0, pc, pstate,
    elr, spsr,    \* ELR_EL1 and SPSR_EL1
    phase,        \* the code between the kernel and the hardware that runs on it
    fiq,          \* core 0 is in fiq_handler_el2
    frames,       \* what that pushed on the stack of EL2
    handlers,     \* INTERRUPT_HANDLER and SYNCHRONOUS_HANDLER are installed
    active,       \* the kernel's handlers that run on each core, the last one on top
    oldarea,      \* the two old areas of each core
    t, current,   \* the kernel's states of the processes, and which one runs
    taken,        \* counts system calls and IRQs, for the bound
    \* History, in no register of the machine:
    before,       \* the state that a FIQ interrupted
    hist,         \* the state that the last exception of a kind interrupted
    owed          \* the state in which each process was left

cpu == <<x, sp, ttbr0, pc, pstate>>
banked == <<elr, spsr>>
kernel_vars == <<handlers, active, t, current, owed>>
ctx_vars == <<cpu, banked, phase, fiq, frames, oldarea, kernel_vars, taken, before, hist>>

\* The state of the program that runs on core c, word by word.
StateOf(c) == [k \in Words |->
                  CASE k \in GPRS -> x[c][k]
                    [] k = SP -> IF pstate[c] = User THEN sp[c].el0 ELSE sp[c].el1
                    [] k = ELR -> pc[c]
                    [] k = TTBR0 -> ttbr0[c]
                    [] k = STATUS -> pstate[c]]

\* init.S leaves every core at EL1 with IRQs enabled; nothing is installed.
CtxInit ==
    /\ x = [c \in Cores |-> [k \in GPRS |-> Bios(c)[k]]]
    /\ sp = [c \in Cores |-> [el0 |-> Junk, el1 |-> Bios(c)[SP], el2 |-> StackEL2(c)]]
    /\ ttbr0 = [c \in Cores |-> Bios(c)[TTBR0]]
    /\ pc = [c \in Cores |-> Bios(c)[ELR]]
    /\ pstate = [c \in Cores |-> Level1]
    /\ elr = [c \in Cores |-> Junk] /\ spsr = [c \in Cores |-> User]
    /\ phase = [c \in Cores |-> "run"]
    /\ fiq = FALSE /\ frames = << >>
    /\ handlers = FALSE
    /\ active = [c \in Cores |-> << >>]
    /\ oldarea = [c \in Cores |-> [kind \in {"irq", "sync"} |-> [k \in Words |-> Junk]]]
    /\ t = [p \in Procs |-> Process(p)]
    /\ current = CHOOSE p \in Procs : \A q \in Procs : q <= p
    /\ taken = 0
    /\ before = Bios(Core0)
    /\ hist = [c \in Cores |-> [kind \in {"irq", "sync"} |-> [k \in Words |-> Junk]]]
    /\ owed = [p \in Procs |-> Process(p)]

-----------------------------------------------------------------------------
(* LDST and the handlers' first instructions *)

\* Core c executes at EL1 or EL0, unless a FIQ has preempted it.
Executes(c, ph) == phase[c] = ph /\ (c = Core0 => ~fiq)

\* LDST reads x2 and x3 from 24 bytes into the area, and what follows from there.
Loaded(area) == [k \in GPRS |-> IF k \in 2 .. 29 THEN area[k + 1] ELSE area[k]]

\* LDST(area), up to and with its eret; stack2 is the stack pointer of EL2 then.
LDST(c, area, stack2) ==
    /\ x' = [x EXCEPT ![c] = Loaded(area)]
    /\ sp' = [sp EXCEPT ![c] =
                 IF area[STATUS] = User THEN [@ EXCEPT !.el0 = area[SP], !.el2 = stack2]
                                        ELSE [@ EXCEPT !.el1 = area[SP], !.el2 = stack2]]
    /\ pc' = [pc EXCEPT ![c] = area[ELR]]
    /\ ttbr0' = [ttbr0 EXCEPT ![c] = area[TTBR0]]
    /\ pstate' = [pstate EXCEPT ![c] = area[STATUS]]
    /\ phase' = [phase EXCEPT ![c] = "run"]

\* The local state_t kernel with which handlers are entered.
Entry(c, kind, stack) ==
    [k \in Words |-> CASE k = SP -> stack [] k = ELR -> Handler(kind)
                       [] k = TTBR0 -> ttbr0[c] [] k = STATUS -> Kernel [] OTHER -> Junk]

\* The processor takes an exception to EL1.
Take(c, kind, ph) ==
    /\ Executes(c, "run")
    /\ taken < MaxTaken
    /\ taken' = taken + 1
    /\ elr' = [elr EXCEPT ![c] = pc[c]]
    /\ spsr' = [spsr EXCEPT ![c] = pstate[c]]
    /\ hist' = [hist EXCEPT ![c][kind] = StateOf(c)]
    /\ phase' = [phase EXCEPT ![c] = ph]

-----------------------------------------------------------------------------
(* System calls *)

\* SYSCALL: of bios_main, of a process, and of the kernel's interrupt().
Svc(c) ==
    /\ \/ active[c] = << >>
       \/ c # Core0 /\ active[c] = <<"irq">>
    /\ Take(c, "sync", "svc")
    /\ UNCHANGED <<cpu, fiq, frames, oldarea, kernel_vars, before>>

Bug_STST_asm_el2_sp(c) ==
    [k \in Words |-> CASE k \in GPRS -> x[c][k] [] k = SP -> sp[c].el1
                       [] k = ELR -> elr[c] [] k = TTBR0 -> ttbr0[c] [] OTHER -> spsr[c]]

\* STST_asm_el2: what the stack of EL2 keeps of x0 to x5, x29 and x30 is
\* stored with the rest.
STST_asm_el2(c) ==
    [k \in Words |-> CASE k \in GPRS -> x[c][k]
                       [] k = SP -> IF spsr[c] = User THEN sp[c].el0 ELSE sp[c].el1
                       [] k = ELR -> elr[c]
                       [] k = TTBR0 -> ttbr0[c]
                       [] OTHER -> spsr[c]]

\* syncronous_exception hands over to EL2 by hvc; swi_handler_el2 stores the state.
Hvc(c) ==
    /\ Executes(c, "svc")
    /\ oldarea' = [oldarea EXCEPT ![c]["sync"] = STST_asm_el2(c)]
    /\ phase' = [phase EXCEPT ![c] = "swi"]
    /\ UNCHANGED <<cpu, banked, fiq, frames, kernel_vars, taken, before, hist>>

\* GETSP of c_swi_handler, which runs at EL2.
GETSP(c) == sp[c].el2 - SwiFrame

\* c_swi_handler enters the kernel's handler, or resumes the caller.
c_swi_handler(c) ==
    /\ Executes(c, "swi")
    /\ IF handlers
       THEN /\ LDST(c, Entry(c, "sync", IF spsr[c] = User THEN KernelSP(c) ELSE GETSP(c)),
                    StackEL2(c))
            /\ active' = [active EXCEPT ![c] = <<"sync">> \o @]
       ELSE LDST(c, oldarea[c]["sync"], StackEL2(c)) /\ UNCHANGED active
    /\ UNCHANGED <<banked, fiq, frames, oldarea, handlers, t, current, owed, taken, before, hist>>

-----------------------------------------------------------------------------
(* IRQs *)

\* irq_handler, from EL0: the stack of EL1 is emptied, x27 is lost.  From EL1
\* (keep_current_stack_irq_handler) both are kept.
Irq(c) ==
    /\ pstate[c] # Kernel
    /\ Take(c, "irq", "irq")
    /\ IF pstate[c] = User
       THEN /\ sp' = [sp EXCEPT ![c].el1 = StackEL1(c)]
            /\ x' = [x EXCEPT ![c][27] = Junk]
       ELSE UNCHANGED <<sp, x>>
    /\ UNCHANGED <<ttbr0, pc, pstate, fiq, frames, oldarea, kernel_vars, before>>

Bug_STST_asm_unadjusted(c) ==
    [k \in Words |-> CASE k \in GPRS \ {27, 28} -> x[c][k] [] k = 27 -> c [] k = 28 -> ttbr0[c]
                       [] k = SP -> IF spsr[c] = User THEN sp[c].el0 ELSE sp[c].el1 - 16
                       [] k = ELR -> elr[c] [] k = TTBR0 -> ttbr0[c] [] OTHER -> spsr[c]]

\* STST_asm: x27 and x28 hold the core and TTBR0 by now, which is still on the
\* stack when the stack pointer is stored.
STST_asm(c) ==
    LET sp_pushed == sp[c].el1 - 16 IN
    [k \in Words |-> CASE k = 27 -> c
                       [] k \in {28, TTBR0} -> ttbr0[c]
                       [] k \in GPRS \ {27, 28} -> x[c][k]
                       [] k = SP -> IF spsr[c] = User THEN sp[c].el0 ELSE sp_pushed + 16
                       [] k = ELR -> elr[c]
                       [] OTHER -> spsr[c]]

\* The rest of irq_handler: the kernel's tables are used from here on, and the
\* state is stored.
IrqSave(c) ==
    /\ Executes(c, "irq")
    /\ oldarea' = [oldarea EXCEPT ![c]["irq"] = STST_asm(c)]
    /\ ttbr0' = [ttbr0 EXCEPT ![c] = TTBR1]
    /\ x' = [x EXCEPT ![c] = [k \in GPRS |-> Junk]]
    /\ phase' = [phase EXCEPT ![c] = "c_irq"]
    /\ UNCHANGED <<sp, pc, pstate, banked, fiq, frames, kernel_vars, taken, before, hist>>

\* c_irq_handler ends by entering the kernel's handler if there is one and
\* something is pending, or else resumes what was interrupted.
c_irq_handler(c) ==
    /\ Executes(c, "c_irq")
    /\ \/ /\ handlers
          /\ LDST(c, Entry(c, "irq", KernelSP(c)), sp[c].el2)
          /\ active' = [active EXCEPT ![c] = <<"irq">> \o @]
       \/ LDST(c, oldarea[c]["irq"], sp[c].el2) /\ UNCHANGED active
    /\ UNCHANGED <<banked, fiq, frames, oldarea, handlers, t, current, owed, taken, before, hist>>

-----------------------------------------------------------------------------
(* FIQs *)

Pairs == [i \in 1 .. 14 |-> <<2 * i - 2, 2 * i - 1>>]
Reversed(s) == [i \in DOMAIN s |-> s[Len(s) + 1 - i]]

\* fiq_handler_el2 pushes x29 and x30, and pushRegisters the others.
PushOrder == << <<29, 30>> >> \o Pairs \o << <<28>> >>

Bug_PopOrder_pushed == << <<28>> >> \o Pairs \o << <<29, 30>> >>

\* popRegisters, and the end of fiq_handler_el2.
PopOrder == << <<28>> >> \o Reversed(Pairs) \o << <<29, 30>> >>

\* A FIQ is taken to EL2 wherever core 0 is at EL1 or EL0; c_fiq_handler uses
\* every register.
Fiq ==
    /\ ~fiq /\ phase[Core0] # "swi"
    /\ fiq' = TRUE
    /\ before' = StateOf(Core0)
    /\ frames' = [i \in DOMAIN PushOrder |->
                     [j \in DOMAIN PushOrder[i] |-> x[Core0][PushOrder[i][j]]]]
    /\ x' = [x EXCEPT ![Core0] = [k \in GPRS |-> Junk]]
    /\ sp' = [sp EXCEPT ![Core0].el2 = @ - 16 * Len(PushOrder)]
    /\ UNCHANGED <<ttbr0, pc, pstate, banked, phase, oldarea, kernel_vars, taken, hist>>

\* Each pop takes what is on top.
FiqReturn ==
    /\ fiq
    /\ fiq' = FALSE
    /\ frames' = << >>
    /\ x' = [x EXCEPT ![Core0] = [k \in GPRS |->
                LET at == CHOOSE ij \in (1 .. 16) \X (1 .. 2) :
                              /\ ij[1] \in DOMAIN PopOrder /\ ij[2] \in DOMAIN PopOrder[ij[1]]
                              /\ PopOrder[ij[1]][ij[2]] = k
                IN  Reversed(frames)[at[1]][at[2]]]]
    /\ sp' = [sp EXCEPT ![Core0].el2 = @ + 16 * Len(PopOrder)]
    /\ UNCHANGED <<ttbr0, pc, pstate, banked, phase, oldarea, kernel_vars, taken, before, hist>>

-----------------------------------------------------------------------------
(* The kernel *)

\* main of the example installs the handlers and loads the first process.
\* (STST fills the states of the processes; what matters of them is assigned.)
Main ==
    /\ Executes(Core0, "run") /\ active[Core0] = << >> /\ ~handlers
    /\ handlers' = TRUE
    /\ LDST(Core0, t[current], sp[Core0].el2)
    /\ UNCHANGED <<banked, fiq, frames, oldarea, active, t, current, owed, taken, before, hist>>

\* synchronous() resumes the caller.
Synchronous(c) ==
    /\ Executes(c, "run")
    /\ active[c] # << >> /\ Head(active[c]) = "sync"
    /\ LDST(c, oldarea[c]["sync"], sp[c].el2)
    /\ active' = [active EXCEPT ![c] = IF Tail(@) = << >> THEN << >> ELSE <<"called">>]
    /\ UNCHANGED <<banked, fiq, frames, oldarea, handlers, t, current, owed, taken, before, hist>>

Bug_Interrupt_uncopied ==
    /\ Executes(Core0, "run")
    /\ active[Core0] # << >> /\ Head(active[Core0]) = "irq"
    /\ current' \in Procs
    /\ t' = [t EXCEPT ![current'] = oldarea[Core0]["irq"]]
    /\ owed' = [owed EXCEPT ![current] = hist[Core0]["irq"]]
    /\ LDST(Core0, t'[current'], sp[Core0].el2)
    /\ active' = [active EXCEPT ![Core0] = Tail(@)]
    /\ UNCHANGED <<banked, fiq, frames, oldarea, handlers, taken, before, hist>>

\* interrupt() on core 0 keeps the state of the process (copy_state), chooses
\* one, and loads it.
Interrupt ==
    /\ Executes(Core0, "run")
    /\ active[Core0] # << >> /\ Head(active[Core0]) = "irq"
    /\ t' = [t EXCEPT ![current] = oldarea[Core0]["irq"]]
    /\ owed' = [owed EXCEPT ![current] = hist[Core0]["irq"]]
    /\ current' \in Procs
    /\ LDST(Core0, t'[current'], sp[Core0].el2)
    /\ active' = [active EXCEPT ![Core0] = Tail(@)]
    /\ UNCHANGED <<banked, fiq, frames, oldarea, handlers, taken, before, hist>>

\* On the other cores it resumes what was interrupted, after its SYSCALL.
InterruptOther(c) ==
    /\ Executes(c, "run")
    /\ active[c] = <<"called">>
    /\ LDST(c, oldarea[c]["irq"], sp[c].el2)
    /\ active' = [active EXCEPT ![c] = << >>]
    /\ UNCHANGED <<banked, fiq, frames, oldarea, handlers, t, current, owed, taken, before, hist>>

CtxNext ==
    \/ \E c \in Cores : \/ Svc(c) \/ Hvc(c) \/ c_swi_handler(c)
                        \/ Irq(c) \/ IrqSave(c) \/ c_irq_handler(c)
                        \/ Synchronous(c) \/ InterruptOther(c)
    \/ Fiq \/ FiqReturn
    \/ Main \/ Interrupt

CtxSpec == CtxInit /\ [][CtxNext]_ctx_vars

-----------------------------------------------------------------------------
States == [Words -> Nat]
Agree(s, u, W) == \A k \in W : s[k] = u[k]

\* The build leaves x27 and x28 to the handlers (SConstruct), and the README
\* says that interrupts corrupt x26 too.
KeptByIrq == Words \ {26, 27, 28}

CtxTypeOK ==
    /\ x \in [Cores -> [GPRS -> Nat]]
    /\ sp \in [Cores -> [el0 : Nat, el1 : Nat, el2 : Nat]]
    /\ {ttbr0, pc, elr} \subseteq [Cores -> Nat]
    /\ {pstate, spsr} \subseteq [Cores -> {User, Level1, Kernel}]
    /\ phase \in [Cores -> {"run", "svc", "swi", "irq", "c_irq"}]
    /\ fiq \in BOOLEAN /\ handlers \in BOOLEAN
    /\ Len(frames) = IF fiq THEN 16 ELSE 0
    /\ active \in [Cores -> {<< >>, <<"sync">>, <<"irq">>, <<"sync", "irq">>, <<"called">>}]
    /\ {oldarea, hist} \subseteq [Cores -> [{"irq", "sync"} -> States]]
    /\ {t, owed} \subseteq [Procs -> States]
    /\ current \in Procs
    /\ taken \in 0 .. MaxTaken
    /\ before \in States

\* A FIQ is invisible: whatever it interrupts, a process, the kernel, or one of
\* the other handlers between two of its steps, goes on with the same registers,
\* and the stack of EL2 is empty again.
FiqTransparent ==
    [][fiq /\ ~fiq' => /\ StateOf(Core0)' = before
                       /\ sp'[Core0].el2 = StackEL2(Core0)]_ctx_vars

\* While the kernel serves a system call, the old area holds the complete state
\* of the caller, at whichever level it runs and whatever interrupted the vectors.
SyscallSaved ==
    \A c \in Cores : active[c] # << >> /\ Head(active[c]) = "sync" =>
                         oldarea[c]["sync"] = hist[c]["sync"]

\* While the kernel serves an interrupt, also beneath a system call of its own,
\* the old area holds what was interrupted: its stack pointer is that before the
\* pushes of irq_handler, its TTBR0 is not the kernel's.
InterruptSaved ==
    \A c \in Cores : active[c] # << >> /\ active[c] # <<"sync">> =>
                         Agree(oldarea[c]["irq"], hist[c]["irq"], KeptByIrq)

\* A process that does not run is kept as it was when it was preempted, over
\* any number of switches, system calls and interrupts.
ProcessesKept ==
    \A p \in Procs \ {current} : Agree(t[p], owed[p], KeptByIrq)

\* What c_irq_handler interrupted goes on as it was ("loads processor state
\* stored at address *addr", libuarm.h; "registers x26, x27 and x28 are
\* corrupted during interrupt handling", README.md).
Resumed ==
    [][\A c \in Cores : phase[c] = "c_irq" /\ phase'[c] = "run" /\ active'[c] = active[c] =>
           Agree(StateOf(c)', hist[c]["irq"], KeptByIrq)]_ctx_vars

\* A system call of code at EL1 does not change its stack ("If we already were
\* at EL1 do not change stack pointer", interrupts.c).
StackKept ==
    [][\A c \in Cores : phase[c] = "swi" /\ phase'[c] = "run" /\ spsr[c] # User =>
           sp'[c].el1 = sp[c].el1]_ctx_vars
=============================================================================
