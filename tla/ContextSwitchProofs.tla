------------------------ MODULE ContextSwitchProofs ------------------------
(***************************************************************************)
(* Proofs about ContextSwitch: what is saved of the state that a system    *)
(* call, an IRQ or a FIQ interrupts.                                       *)
(***************************************************************************)
EXTENDS ContextSwitch, SequenceTheorems, TLAPS

Levels == {User, Level1, Kernel}

\* The general purpose registers of a core, without what a FIQ makes of them.
Regs(c) == IF c = Core0 /\ fiq THEN [k \in GPRS |-> before[k]] ELSE x[c]

\* What an exception to EL1 interrupted, as the banked registers still hold it.
Interrupted(c) ==
    [k \in Words |-> CASE k \in GPRS -> Regs(c)[k]
                       [] k = SP -> IF spsr[c] = User THEN sp[c].el0 ELSE sp[c].el1
                       [] k = ELR -> elr[c]
                       [] k = TTBR0 -> ttbr0[c]
                       [] k = STATUS -> spsr[c]]

\* Status words are those of the three levels, wherever a state is kept.
LevelsOK ==
    /\ \A c \in Cores : \A kind \in {"irq", "sync"} : oldarea[c][kind][STATUS] \in Levels
    /\ \A p \in Procs : t[p][STATUS] \in Levels

\* During a FIQ the stack of EL2 holds the registers, and the rest is untouched;
\* c_swi_handler, which uses that stack too, is never beneath it.
FiqInv ==
    /\ fiq => /\ phase[Core0] # "swi"
              /\ frames = [i \in DOMAIN PushOrder |->
                              [j \in DOMAIN PushOrder[i] |-> before[PushOrder[i][j]]]]
              /\ \A k \in Words \ GPRS : StateOf(Core0)[k] = before[k]
              /\ sp[Core0].el2 = StackEL2(Core0) - 16 * Len(PushOrder)
    /\ \A c \in Cores : (c = Core0 /\ fiq) \/ sp[c].el2 = StackEL2(c)

\* What each step of the vectors has saved so far of the state that was
\* interrupted, and while the kernel's handlers run.
SavedInv(c) ==
    /\ phase[c] = "svc" => hist[c]["sync"] = Interrupted(c)
    /\ phase[c] = "swi" \/ active[c] \in {<<"sync">>, <<"sync", "irq">>} =>
           oldarea[c]["sync"] = hist[c]["sync"]
    /\ phase[c] = "irq" => Agree(Interrupted(c), hist[c]["irq"], KeptByIrq)
    /\ phase[c] = "c_irq" \/ active[c] \in {<<"irq">>, <<"sync", "irq">>, <<"called">>} =>
           Agree(oldarea[c]["irq"], hist[c]["irq"], KeptByIrq)

\* How handlers nest: IRQs are masked in the kernel, whose interrupt() alone calls
\* the system.
NestingInv(c) ==
    /\ phase[c] \in {"svc", "swi"} => active[c] \in {<< >>, <<"irq">>}
    /\ phase[c] \in {"irq", "c_irq"} => active[c] = << >>
    /\ active[c] # << >> => pstate[c] = Kernel
    /\ (phase[c] \in {"svc", "swi"} /\ active[c] = <<"irq">>) \/ active[c] = <<"sync", "irq">> =>
           hist[c]["sync"][STATUS] = Kernel

\* The inductive invariant.
CtxInv ==
    /\ CtxTypeOK /\ LevelsOK /\ FiqInv
    /\ \A c \in Cores : SavedInv(c) /\ NestingInv(c)
    /\ ProcessesKept

-----------------------------------------------------------------------------
\* The handlers that run on a core are few; what Head, Tail and pushes make of them.
LEMMA Stacks ==
    /\ <<"sync">> \o << >> = <<"sync">> /\ <<"sync">> \o <<"irq">> = <<"sync", "irq">>
    /\ <<"irq">> \o << >> = <<"irq">>
    /\ Head(<<"sync">>) = "sync" /\ Head(<<"irq">>) = "irq" /\ Head(<<"called">>) = "called"
    /\ Head(<<"sync", "irq">>) = "sync"
    /\ Tail(<<"sync">>) = << >> /\ Tail(<<"irq">>) = << >> /\ Tail(<<"sync", "irq">>) = <<"irq">>
    /\ \A s \in {<<"sync">>, <<"irq">>, <<"called">>, <<"sync", "irq">>} : s # << >>
    /\ <<"sync">> # <<"irq">> /\ <<"sync">> # <<"called">> /\ <<"irq">> # <<"called">>
    /\ <<"sync", "irq">> \notin {<<"sync">>, <<"irq">>, <<"called">>}
<1>1. <<"sync">> \o << >> = <<"sync">>  OBVIOUS
<1>2. <<"sync">> \o <<"irq">> = <<"sync", "irq">>
  <2> DEFINE SS == {"sync", "irq"}
             s == <<"sync">>
             u == <<"irq">>
             v == <<"sync", "irq">>
  <2>1. s \in Seq(SS) /\ Len(s) = 1 /\ s[1] = "sync"  OBVIOUS
  <2>2. u \in Seq(SS) /\ Len(u) = 1 /\ u[1] = "irq"  OBVIOUS
  <2>3. v \in Seq(SS) /\ Len(v) = 2 /\ v[1] = "sync" /\ v[2] = "irq"  OBVIOUS
  <2> HIDE DEF SS, s, u, v
  <2>4. s \o u \in Seq(SS) /\ Len(s \o u) = 2 /\ (s \o u)[1] = "sync" /\ (s \o u)[2] = "irq"
    BY <2>1, <2>2, ConcatProperties
  <2>5. \A w \in Seq(SS) : DOMAIN w = 1 .. Len(w)  OBVIOUS
  <2>6. s \o u = v  BY <2>3, <2>4, <2>5, SeqEqual
  <2> QED  BY <2>6 DEF s, u, v
<1>3. <<"irq">> \o << >> = <<"irq">>  OBVIOUS
<1>4. Head(<<"sync">>) = "sync" /\ Head(<<"irq">>) = "irq" /\ Head(<<"called">>) = "called"
  OBVIOUS
<1>5. Head(<<"sync", "irq">>) = "sync"  OBVIOUS
<1>6. Tail(<<"sync">>) = << >>  OBVIOUS
<1>7. Tail(<<"irq">>) = << >>  OBVIOUS
<1>8. Tail(<<"sync", "irq">>) = <<"irq">>  OBVIOUS
<1>9. \A s \in {<<"sync">>, <<"irq">>, <<"called">>, <<"sync", "irq">>} : s # << >>  OBVIOUS
<1>10. <<"sync">> # <<"irq">> /\ <<"sync">> # <<"called">> /\ <<"irq">> # <<"called">>  OBVIOUS
<1>11. <<"sync", "irq">> \notin {<<"sync">>, <<"irq">>, <<"called">>}  OBVIOUS
<1> QED  BY <1>1, <1>2, <1>3, <1>4, <1>5, <1>6, <1>7, <1>8, <1>9, <1>10, <1>11, Zenon

\* A first element, a sequence of fourteen and a last one.
Bracket(a, p, b) == <<a>> \o p \o <<b>>

LEMMA Bracketed ==
    \A S : \A a, b \in S : \A p \in Seq(S) : Len(p) = 14 =>
        /\ Bracket(a, p, b) \in Seq(S) /\ Len(Bracket(a, p, b)) = 16
        /\ Bracket(a, p, b) =
               [i \in 1 .. 16 |-> IF i = 1 THEN a ELSE IF i = 16 THEN b ELSE p[i - 1]]
<1> SUFFICES ASSUME NEW S, NEW a \in S, NEW b \in S, NEW p \in Seq(S), Len(p) = 14
             PROVE  /\ Bracket(a, p, b) \in Seq(S) /\ Len(Bracket(a, p, b)) = 16
                    /\ Bracket(a, p, b) =
                           [i \in 1 .. 16 |-> IF i = 1 THEN a ELSE IF i = 16 THEN b ELSE p[i - 1]]
  OBVIOUS
<1> DEFINE a1 == <<a>>
           b1 == <<b>>
           ap == a1 \o p
           apb == ap \o b1
<1>1. a1 \in Seq(S) /\ Len(a1) = 1 /\ a1[1] = a  OBVIOUS
<1>2. b1 \in Seq(S) /\ Len(b1) = 1 /\ b1[1] = b  OBVIOUS
<1> HIDE DEF a1, b1, ap, apb
<1>3. \A s, u \in Seq(S) : /\ s \o u \in Seq(S) /\ Len(s \o u) = Len(s) + Len(u)
                           /\ \A i \in 1 .. Len(s) + Len(u) :
                                 (s \o u)[i] = IF i <= Len(s) THEN s[i] ELSE u[i - Len(s)]
  BY ConcatProperties
<1>4. /\ ap \in Seq(S) /\ Len(ap) = 15
      /\ \A i \in 1 .. 15 : ap[i] = IF i <= 1 THEN a1[i] ELSE p[i - 1]
  <2>1. /\ a1 \o p \in Seq(S) /\ Len(a1 \o p) = Len(a1) + Len(p)
        /\ \A i \in 1 .. Len(a1) + Len(p) :
              (a1 \o p)[i] = IF i <= Len(a1) THEN a1[i] ELSE p[i - Len(a1)]
    BY <1>1, <1>3, Zenon
  <2>2. Len(a1) + Len(p) = 15  BY <1>1
  <2> QED  BY <2>1, <2>2, <1>1 DEF ap
<1>5. /\ apb \in Seq(S) /\ Len(apb) = 16
      /\ \A i \in 1 .. 16 : apb[i] = IF i <= 15 THEN ap[i] ELSE b1[i - 15]
  <2>1. /\ ap \o b1 \in Seq(S) /\ Len(ap \o b1) = Len(ap) + Len(b1)
        /\ \A i \in 1 .. Len(ap) + Len(b1) :
              (ap \o b1)[i] = IF i <= Len(ap) THEN ap[i] ELSE b1[i - Len(ap)]
    BY <1>2, <1>3, <1>4, Zenon
  <2>2. Len(ap) + Len(b1) = 16  BY <1>2, <1>4
  <2> QED  BY <2>1, <2>2, <1>4 DEF apb
<1>6. apb = Bracket(a, p, b)  BY DEF Bracket, apb, ap, a1, b1
<1>7. /\ apb \in Seq(S) /\ Len(apb) = 16
      /\ apb[1] = a /\ apb[16] = b
      /\ \A i \in 2 .. 15 : apb[i] = p[i - 1]
  BY <1>1, <1>2, <1>4, <1>5
<1>8. apb = [i \in 1 .. 16 |-> IF i = 1 THEN a ELSE IF i = 16 THEN b ELSE p[i - 1]]
  BY <1>7
<1> QED  BY <1>6, <1>7, <1>8

\* popRegisters takes the pairs in the reverse of the order in which they were pushed.
LEMMA PopsReverse ==
    /\ PushOrder \in Seq(Seq(Nat)) /\ DOMAIN PushOrder = 1 .. 16 /\ Len(PushOrder) = 16
    /\ PopOrder \in Seq(Seq(Nat)) /\ DOMAIN PopOrder = 1 .. 16 /\ Len(PopOrder) = 16
    /\ \A i \in 1 .. 16 : PopOrder[i] = PushOrder[17 - i]
    /\ PopOrder[1] = <<28>> /\ PopOrder[16] = <<29, 30>>
    /\ \A m \in 1 .. 14 : PopOrder[16 - m] = <<2 * m - 2, 2 * m - 1>>
<1> DEFINE SS == Seq(Nat)
           a == <<29, 30>>
           b == <<28>>
<1>1. a \in SS /\ b \in SS  OBVIOUS
<1>2. \A i \in 1 .. 14 : <<2 * i - 2, 2 * i - 1>> \in SS  OBVIOUS
<1>3. Pairs \in [1 .. 14 -> SS]  BY <1>2 DEF Pairs
<1> HIDE DEF SS, a, b
<1>4. \A f \in [1 .. 14 -> SS] : f \in Seq(SS) /\ Len(f) = 14
  <2> SUFFICES ASSUME NEW f \in [1 .. 14 -> SS] PROVE f \in Seq(SS) /\ Len(f) = 14  OBVIOUS
  <2>1. f \in Seq(SS)
    <3>1. 14 \in Nat  OBVIOUS
    <3> QED  BY <3>1, SeqDef, Zenon
  <2>2. Len(f) = 14  BY <2>1, LenProperties
  <2> QED  BY <2>1, <2>2
<1>5. Pairs \in Seq(SS) /\ Len(Pairs) = 14 /\ DOMAIN Pairs = 1 .. 14  BY <1>3, <1>4
<1>6. Reversed(Pairs) = [i \in 1 .. 14 |-> Pairs[15 - i]]  BY <1>5 DEF Reversed
<1>7. Reversed(Pairs) \in [1 .. 14 -> SS]
  <2> HIDE DEF Pairs
  <2> QED  BY <1>3, <1>6
<1>8. Reversed(Pairs) \in Seq(SS) /\ Len(Reversed(Pairs)) = 14  BY <1>7, <1>4
<1> DEFINE P == Pairs
           R == Reversed(Pairs)
<1>9. P \in Seq(SS) /\ Len(P) = 14 /\ R \in Seq(SS) /\ Len(R) = 14  BY <1>5, <1>8
<1>10. /\ PushOrder = Bracket(a, P, b) /\ PopOrder = Bracket(b, R, a)
       BY DEF Bracket, PushOrder, PopOrder, a, b
<1>11. \A i \in 2 .. 15 : R[i - 1] = P[16 - i]  BY <1>6
<1> HIDE DEF P, R
<1>12. /\ PushOrder \in Seq(SS) /\ Len(PushOrder) = 16 /\ PushOrder[1] = a /\ PushOrder[16] = b
       /\ \A i \in 2 .. 15 : PushOrder[i] = P[i - 1]
  <2> DEFINE w == Bracket(a, P, b)
             f == [i \in 1 .. 16 |-> IF i = 1 THEN a ELSE IF i = 16 THEN b ELSE P[i - 1]]
  <2>1. w \in Seq(SS) /\ Len(w) = 16 /\ w = f  BY <1>1, <1>9, Bracketed
  <2>2. f[1] = a /\ f[16] = b /\ \A i \in 2 .. 15 : f[i] = P[i - 1]  OBVIOUS
  <2>3. PushOrder = w  BY <1>10
  <2> HIDE DEF w, f
  <2> QED  BY <2>1, <2>2, <2>3
<1>13. /\ PopOrder \in Seq(SS) /\ Len(PopOrder) = 16 /\ PopOrder[1] = b /\ PopOrder[16] = a
       /\ \A i \in 2 .. 15 : PopOrder[i] = R[i - 1]
  <2> DEFINE w == Bracket(b, R, a)
             f == [i \in 1 .. 16 |-> IF i = 1 THEN b ELSE IF i = 16 THEN a ELSE R[i - 1]]
  <2>1. w \in Seq(SS) /\ Len(w) = 16 /\ w = f  BY <1>1, <1>9, Bracketed
  <2>2. f[1] = b /\ f[16] = a /\ \A i \in 2 .. 15 : f[i] = R[i - 1]  OBVIOUS
  <2>3. PopOrder = w  BY <1>10
  <2> HIDE DEF w, f
  <2> QED  BY <2>1, <2>2, <2>3
<1>14. DOMAIN PushOrder = 1 .. 16 /\ DOMAIN PopOrder = 1 .. 16
  <2>1. \A s \in Seq(SS) : DOMAIN s = 1 .. Len(s)  OBVIOUS
  <2> QED  BY <2>1, <1>12, <1>13
<1>15. \A i \in 1 .. 16 : PopOrder[i] = PushOrder[17 - i]
  BY <1>11, <1>12, <1>13, SMTT(30)
<1>16. \A m \in 1 .. 14 : PopOrder[16 - m] = P[m]
  BY <1>11, <1>13
<1>17. \A m \in 1 .. 14 : P[m] = <<2 * m - 2, 2 * m - 1>>  BY DEF P, Pairs
<1>18. \A m \in 1 .. 14 : PopOrder[16 - m] = <<2 * m - 2, 2 * m - 1>>  BY <1>16, <1>17, Zenon
<1> QED  BY <1>12, <1>13, <1>14, <1>15, <1>18, Zenon DEF SS, a, b

\* Every general purpose register is among them.
LEMMA PopsAll ==
    \A k \in GPRS : \E i \in 1 .. 16 : \E j \in 1 .. 2 :
        j \in DOMAIN PopOrder[i] /\ PopOrder[i][j] = k
<1> SUFFICES ASSUME NEW k \in 0 .. 30
             PROVE  \E i \in 1 .. 16 :
                       \E j \in 1 .. 2 : j \in DOMAIN PopOrder[i] /\ PopOrder[i][j] = k
  BY DEF GPRS
<1>1. CASE k = 28
  <2>1. PopOrder[1] = <<28>>  BY PopsReverse
  <2> QED  BY <1>1, <2>1
<1>2. CASE k \in {29, 30}
  <2>1. PopOrder[16] = <<29, 30>>  BY PopsReverse
  <2> QED  BY <1>2, <2>1
<1>3. CASE k \in 0 .. 27
  <2>1. PICK m \in 1 .. 14 : k = 2 * m - 2 \/ k = 2 * m - 1  BY <1>3
  <2>2. PopOrder[16 - m] = <<2 * m - 2, 2 * m - 1>>  BY PopsReverse, Zenon
  <2> QED  BY <2>1, <2>2
<1> QED  BY <1>1, <1>2, <1>3

-----------------------------------------------------------------------------
(* States word by word *)

LEMMA WordNumbers ==
    /\ \A k \in Words : k \in GPRS \/ k = SP \/ k = ELR \/ k = TTBR0 \/ k = STATUS
    /\ GPRS \subseteq Words /\ {SP, ELR, TTBR0, STATUS} \subseteq Words
    /\ SP \notin GPRS /\ ELR \notin GPRS /\ TTBR0 \notin GPRS /\ STATUS \notin GPRS
    /\ SP # ELR /\ SP # TTBR0 /\ SP # STATUS /\ ELR # TTBR0 /\ ELR # STATUS /\ TTBR0 # STATUS
<1> QED  BY DEF Words, GPRS, SP, ELR, TTBR0, STATUS

\* Functions on the words of a state are equal when they agree on each of them.
LEMMA SameWords ==
    ASSUME NEW f, NEW g, f = [k \in Words |-> f[k]], g = [k \in Words |-> g[k]],
           \A k \in GPRS : f[k] = g[k], f[SP] = g[SP], f[ELR] = g[ELR],
           f[TTBR0] = g[TTBR0], f[STATUS] = g[STATUS]
    PROVE  f = g
<1>1. \A k \in Words : f[k] = g[k]  BY WordNumbers
<1> QED  BY <1>1

\* A state put together from registers, stack pointer, pc, TTBR0 and status.
Assemble(gprs, stack, entry, tables, status) ==
    [k \in Words |-> CASE k \in GPRS -> gprs[k] [] k = SP -> stack [] k = ELR -> entry
                       [] k = TTBR0 -> tables [] k = STATUS -> status]

LEMMA AssembledWords ==
    ASSUME NEW g, NEW s, NEW e, NEW tt, NEW st
    PROVE  /\ Assemble(g, s, e, tt, st) = [k \in Words |-> Assemble(g, s, e, tt, st)[k]]
           /\ \A k \in GPRS : Assemble(g, s, e, tt, st)[k] = g[k]
           /\ Assemble(g, s, e, tt, st)[SP] = s /\ Assemble(g, s, e, tt, st)[ELR] = e
           /\ Assemble(g, s, e, tt, st)[TTBR0] = tt /\ Assemble(g, s, e, tt, st)[STATUS] = st
<1> USE WordNumbers DEF Assemble
<1>1. Assemble(g, s, e, tt, st) = [k \in Words |-> Assemble(g, s, e, tt, st)[k]]  OBVIOUS
<1>2. \A k \in GPRS : Assemble(g, s, e, tt, st)[k] = g[k]  OBVIOUS
<1>3. Assemble(g, s, e, tt, st)[SP] = s /\ Assemble(g, s, e, tt, st)[ELR] = e  OBVIOUS
<1>4. Assemble(g, s, e, tt, st)[TTBR0] = tt /\ Assemble(g, s, e, tt, st)[STATUS] = st  OBVIOUS
<1> QED  BY <1>1, <1>2, <1>3, <1>4

\* The stack pointer of the program at EL0 or EL1.
StackOf(stacks, status) == IF status = User THEN stacks.el0 ELSE stacks.el1

LEMMA StateAssembled ==
    ASSUME NEW c
    PROVE  /\ StateOf(c) = Assemble(x[c], StackOf(sp[c], pstate[c]), pc[c], ttbr0[c], pstate[c])
           /\ StateOf(c)' = Assemble(x'[c], StackOf(sp'[c], pstate'[c]), pc'[c], ttbr0'[c],
                                     pstate'[c])
<1>1. StateOf(c) = Assemble(x[c], StackOf(sp[c], pstate[c]), pc[c], ttbr0[c], pstate[c])
  BY DEF StateOf, Assemble, StackOf
<1>2. StateOf(c)' = Assemble(x'[c], StackOf(sp'[c], pstate'[c]), pc'[c], ttbr0'[c], pstate'[c])
  BY DEF StateOf, Assemble, StackOf
<1> QED  BY <1>1, <1>2

LEMMA InterruptedAssembled ==
    ASSUME NEW c
    PROVE  /\ Interrupted(c) = Assemble(Regs(c), StackOf(sp[c], spsr[c]), elr[c], ttbr0[c], spsr[c])
           /\ Interrupted(c)' =
                  Assemble(Regs(c)', StackOf(sp'[c], spsr'[c]), elr'[c], ttbr0'[c], spsr'[c])
<1>1. Interrupted(c) = Assemble(Regs(c), StackOf(sp[c], spsr[c]), elr[c], ttbr0[c], spsr[c])
  BY DEF Interrupted, Assemble, StackOf
<1>2. Interrupted(c)' =
          Assemble(Regs(c)', StackOf(sp'[c], spsr'[c]), elr'[c], ttbr0'[c], spsr'[c])
  BY DEF Interrupted, Assemble, StackOf
<1> QED  BY <1>1, <1>2

\* swi_handler_el2 stores what is assembled of the banked registers.
LEMMA STST_asm_el2Assembled ==
    ASSUME NEW c
    PROVE  STST_asm_el2(c) = Assemble(x[c], StackOf(sp[c], spsr[c]), elr[c], ttbr0[c], spsr[c])
<1> DEFINE area == STST_asm_el2(c)
<1>1. area = [k \in Words |-> area[k]]  BY DEF STST_asm_el2
<1>2. \A k \in GPRS : area[k] = x[c][k]  BY WordNumbers DEF STST_asm_el2
<1>3. area[SP] = StackOf(sp[c], spsr[c])  BY WordNumbers DEF STST_asm_el2, StackOf
<1>4. area[ELR] = elr[c] /\ area[TTBR0] = ttbr0[c] /\ area[STATUS] = spsr[c]
  BY WordNumbers DEF STST_asm_el2
<1> DEFINE assembled == Assemble(x[c], StackOf(sp[c], spsr[c]), elr[c], ttbr0[c], spsr[c])
<1>5. /\ assembled = [k \in Words |-> assembled[k]]
      /\ \A k \in GPRS : assembled[k] = x[c][k]
      /\ assembled[SP] = StackOf(sp[c], spsr[c]) /\ assembled[ELR] = elr[c]
      /\ assembled[TTBR0] = ttbr0[c] /\ assembled[STATUS] = spsr[c]
  BY AssembledWords
<1> HIDE DEF area, assembled
<1>6. area = assembled  BY <1>1, <1>2, <1>3, <1>4, <1>5, SameWords
<1> QED  BY <1>6 DEF area, assembled

\* The words of an assembled state are natural numbers when its parts are.
LEMMA AssembledTyped ==
    ASSUME NEW g \in [GPRS -> Nat], NEW s \in Nat, NEW e \in Nat, NEW tt \in Nat, NEW st \in Nat
    PROVE  Assemble(g, s, e, tt, st) \in States
<1> DEFINE f == Assemble(g, s, e, tt, st)
<1>1. f = [k \in Words |-> f[k]]  BY AssembledWords
<1>2. \A k \in GPRS : f[k] \in Nat  BY AssembledWords
<1>3. f[SP] \in Nat /\ f[ELR] \in Nat /\ f[TTBR0] \in Nat /\ f[STATUS] \in Nat
  BY AssembledWords
<1> HIDE DEF f
<1>4. \A k \in Words : f[k] \in Nat  BY <1>2, <1>3, WordNumbers
<1>5. f \in States  BY <1>1, <1>4 DEF States
<1> QED  BY <1>5 DEF f

-----------------------------------------------------------------------------
(* Steps of one core *)

\* A step of core c, which no FIQ has preempted, leaves the other cores alone.
Apart(c) ==
    /\ c = Core0 => ~fiq
    /\ fiq' = fiq /\ frames' = frames /\ before' = before
    /\ \A d \in Cores \ {c} :
           /\ x'[d] = x[d] /\ sp'[d] = sp[d] /\ ttbr0'[d] = ttbr0[d] /\ pc'[d] = pc[d]
           /\ pstate'[d] = pstate[d] /\ elr'[d] = elr[d] /\ spsr'[d] = spsr[d]
           /\ phase'[d] = phase[d] /\ active'[d] = active[d]
           /\ oldarea'[d] = oldarea[d] /\ hist'[d] = hist[d]

\* What SavedInv and NestingInv say of the other cores goes on to hold, and so
\* does FiqInv when the step leaves the stack of EL2 empty.
LEMMA OthersApart ==
    ASSUME CtxInv, NEW c \in Cores, Apart(c), sp'[c].el2 = StackEL2(c)
    PROVE  /\ FiqInv'
           /\ \A d \in Cores \ {c} : SavedInv(d)' /\ NestingInv(d)'
<1>1. \A d \in Cores \ {c} : Regs(d)' = Regs(d)
  BY DEF Apart, Regs
<1>2. ASSUME NEW d \in Cores \ {c} PROVE Interrupted(d)' = Interrupted(d)
  <2>1. /\ Regs(d)' = Regs(d) /\ sp'[d] = sp[d] /\ ttbr0'[d] = ttbr0[d]
        /\ elr'[d] = elr[d] /\ spsr'[d] = spsr[d]
    BY <1>1 DEF Apart
  <2> QED  BY <2>1, InterruptedAssembled
<1>3. ASSUME NEW d \in Cores \ {c} PROVE SavedInv(d)' /\ NestingInv(d)'
  <2>1. SavedInv(d) /\ NestingInv(d)  BY DEF CtxInv
  <2>2. SavedInv(d)'  BY <1>2, <2>1 DEF Apart, SavedInv, Agree
  <2>3. NestingInv(d)'  BY <2>1 DEF Apart, NestingInv
  <2> QED  BY <2>2, <2>3
<1>4. FiqInv'
  <2>1. fiq => Core0 \in Cores \ {c}  BY Numbers DEF Apart
  <2>2. ASSUME fiq PROVE StateOf(Core0)' = StateOf(Core0)
    <3>1. /\ x'[Core0] = x[Core0] /\ sp'[Core0] = sp[Core0] /\ ttbr0'[Core0] = ttbr0[Core0]
          /\ pc'[Core0] = pc[Core0] /\ pstate'[Core0] = pstate[Core0]
      BY <2>1, <2>2 DEF Apart
    <3> QED  BY <3>1, StateAssembled
  <2>3. FiqInv  BY DEF CtxInv
  <2>4. \A d \in Cores : (d = Core0 /\ fiq') \/ sp'[d].el2 = StackEL2(d)
    BY <2>3 DEF Apart, FiqInv
  <2>5. fiq' => /\ phase'[Core0] # "swi"
                /\ frames' = [i \in DOMAIN PushOrder |->
                                 [j \in DOMAIN PushOrder[i] |-> before'[PushOrder[i][j]]]]
                /\ \A k \in Words \ GPRS : StateOf(Core0)'[k] = before'[k]
                /\ sp'[Core0].el2 = StackEL2(Core0) - 16 * Len(PushOrder)
    BY <2>1, <2>2, <2>3 DEF Apart, FiqInv
  <2> QED  BY <2>4, <2>5 DEF FiqInv
<1> QED  BY <1>3, <1>4

\* LDST leaves a typed processor state, at the level the area tells.
LEMMA Loads ==
    ASSUME CtxTypeOK, NEW c \in Cores, NEW area \in States, area[STATUS] \in Levels,
           NEW stack2 \in Nat, LDST(c, area, stack2)
    PROVE  /\ x' \in [Cores -> [GPRS -> Nat]]
           /\ sp' \in [Cores -> [el0 : Nat, el1 : Nat, el2 : Nat]]
           /\ pc' \in [Cores -> Nat] /\ ttbr0' \in [Cores -> Nat]
           /\ pstate' \in [Cores -> {User, Level1, Kernel}]
           /\ phase' \in [Cores -> {"run", "svc", "swi", "irq", "c_irq"}]
           /\ pstate'[c] = area[STATUS] /\ phase'[c] = "run" /\ sp'[c].el2 = stack2
           /\ \A d \in Cores \ {c} : /\ x'[d] = x[d] /\ sp'[d] = sp[d] /\ ttbr0'[d] = ttbr0[d]
                                     /\ pc'[d] = pc[d] /\ pstate'[d] = pstate[d]
                                     /\ phase'[d] = phase[d]
<1>1. Loaded(area) \in [GPRS -> Nat]  BY DEF Loaded, GPRS, States, Words
<1>2. x' \in [Cores -> [GPRS -> Nat]]  BY <1>1 DEF LDST, CtxTypeOK
<1>3. SP \in Words /\ ELR \in Words /\ TTBR0 \in Words /\ STATUS \in Words
  BY DEF SP, ELR, TTBR0, STATUS, Words
<1>4. area[SP] \in Nat /\ area[ELR] \in Nat /\ area[TTBR0] \in Nat  BY <1>3 DEF States
<1>5. sp' \in [Cores -> [el0 : Nat, el1 : Nat, el2 : Nat]] /\ sp'[c].el2 = stack2
  BY <1>4, ZenonT(60) DEF LDST, CtxTypeOK
<1>6. pc' \in [Cores -> Nat] /\ ttbr0' \in [Cores -> Nat]  BY <1>4 DEF LDST, CtxTypeOK
<1>7. pstate' \in [Cores -> {User, Level1, Kernel}] /\ pstate'[c] = area[STATUS]
  BY DEF LDST, CtxTypeOK, Levels
<1>8. phase' \in [Cores -> {"run", "svc", "swi", "irq", "c_irq"}] /\ phase'[c] = "run"
  BY DEF LDST, CtxTypeOK
<1>9. \A d \in Cores \ {c} : /\ x'[d] = x[d] /\ sp'[d] = sp[d] /\ ttbr0'[d] = ttbr0[d]
                             /\ pc'[d] = pc[d] /\ pstate'[d] = pstate[d] /\ phase'[d] = phase[d]
  BY DEF LDST, CtxTypeOK
<1> QED  BY <1>2, <1>5, <1>6, <1>7, <1>8, <1>9

\* What CoreStep needs of a step of core c to conclude that CtxInv goes on to hold.
LEMMA CoreStep ==
    ASSUME CtxInv, NEW c \in Cores, Apart(c), sp'[c].el2 = StackEL2(c),
           CtxTypeOK', LevelsOK', SavedInv(c)', NestingInv(c)', ProcessesKept'
    PROVE  CtxInv'
<1>1. FiqInv' /\ \A d \in Cores \ {c} : SavedInv(d)' /\ NestingInv(d)'
  BY OthersApart
<1>2. \A d \in Cores : SavedInv(d)' /\ NestingInv(d)'  BY <1>1
<1> QED  BY <1>1, <1>2 DEF CtxInv

LEMMA StateTyped ==
    ASSUME CtxTypeOK, NEW c \in Cores
    PROVE  StateOf(c) \in States /\ STST_asm_el2(c) \in States
<1>1. /\ x[c] \in [GPRS -> Nat] /\ StackOf(sp[c], pstate[c]) \in Nat /\ pc[c] \in Nat
      /\ ttbr0[c] \in Nat /\ pstate[c] \in Nat
  BY DEF CtxTypeOK, StackOf, User, Level1, Kernel
<1>2. StackOf(sp[c], spsr[c]) \in Nat /\ elr[c] \in Nat /\ spsr[c] \in Nat
  <2>1. /\ sp \in [Cores -> [el0 : Nat, el1 : Nat, el2 : Nat]] /\ elr \in [Cores -> Nat]
        /\ spsr \in [Cores -> {User, Level1, Kernel}]
    BY DEF CtxTypeOK
  <2>2. spsr[c] \in Nat  BY <2>1 DEF User, Level1, Kernel
  <2>3. StackOf(sp[c], spsr[c]) \in Nat  BY <2>1 DEF StackOf
  <2> QED  BY <2>1, <2>2, <2>3
<1>3. \A g \in [GPRS -> Nat] : \A s, e, tt, st \in Nat : Assemble(g, s, e, tt, st) \in States
  BY AssembledTyped
<1>4. Assemble(x[c], StackOf(sp[c], pstate[c]), pc[c], ttbr0[c], pstate[c]) \in States
  BY <1>1, <1>3
<1>5. Assemble(x[c], StackOf(sp[c], spsr[c]), elr[c], ttbr0[c], spsr[c]) \in States
  BY <1>1, <1>2, <1>3
<1> QED  BY <1>4, <1>5, StateAssembled, STST_asm_el2Assembled

\* The processor takes an exception: the state it interrupts is in the banked
\* registers, in those that it leaves alone and, for the proof, in hist.
LEMMA Takes ==
    ASSUME CtxInv, NEW c \in Cores, NEW kind \in {"irq", "sync"},
           NEW ph \in {"svc", "irq"}, Take(c, kind, ph)
    PROVE  /\ c = Core0 => ~fiq
           /\ elr' \in [Cores -> Nat] /\ spsr' \in [Cores -> {User, Level1, Kernel}]
           /\ phase' \in [Cores -> {"run", "svc", "swi", "irq", "c_irq"}]
           /\ hist' \in [Cores -> [{"irq", "sync"} -> States]]
           /\ taken' \in 0 .. MaxTaken
           /\ elr'[c] = pc[c] /\ spsr'[c] = pstate[c] /\ phase'[c] = ph
           /\ hist'[c][kind] = StateOf(c)
           /\ \A k \in {"irq", "sync"} \ {kind} : hist'[c][k] = hist[c][k]
           /\ \A d \in Cores \ {c} : /\ elr'[d] = elr[d] /\ spsr'[d] = spsr[d]
                                     /\ phase'[d] = phase[d] /\ hist'[d] = hist[d]
<1>1. CtxTypeOK  BY DEF CtxInv
<1>2. StateOf(c) \in States  BY <1>1, StateTyped
<1>3. elr' \in [Cores -> Nat] /\ spsr' \in [Cores -> {User, Level1, Kernel}]
      /\ phase' \in [Cores -> {"run", "svc", "swi", "irq", "c_irq"}]
  BY <1>1 DEF Take, CtxTypeOK
<1>4. hist' \in [Cores -> [{"irq", "sync"} -> States]]
      /\ hist'[c][kind] = StateOf(c)
      /\ \A k \in {"irq", "sync"} \ {kind} : hist'[c][k] = hist[c][k]
      /\ \A d \in Cores \ {c} : hist'[d] = hist[d]
  <2> DEFINE s == StateOf(c)
  <2>1. hist' = [hist EXCEPT ![c][kind] = s] /\ s \in States  BY <1>2 DEF Take
  <2>2. hist \in [Cores -> [{"irq", "sync"} -> States]]  BY <1>1 DEF CtxTypeOK
  <2> HIDE DEF s
  <2>3. /\ hist' \in [Cores -> [{"irq", "sync"} -> States]] /\ hist'[c][kind] = s
        /\ \A k \in {"irq", "sync"} \ {kind} : hist'[c][k] = hist[c][k]
        /\ \A d \in Cores \ {c} : hist'[d] = hist[d]
    BY <2>1, <2>2
  <2> QED  BY <2>3 DEF s
<1>5. taken' \in 0 .. MaxTaken  BY <1>1, Numbers, SMTT(30) DEF Take, CtxTypeOK
<1>6. elr'[c] = pc[c] /\ spsr'[c] = pstate[c] /\ phase'[c] = ph /\ (c = Core0 => ~fiq)
  BY <1>1 DEF Take, CtxTypeOK, Executes
<1>7. \A d \in Cores \ {c} : elr'[d] = elr[d] /\ spsr'[d] = spsr[d] /\ phase'[d] = phase[d]
  BY <1>1 DEF Take, CtxTypeOK
<1> QED  BY <1>3, <1>4, <1>5, <1>6, <1>7

LEMMA SvcStep ==
    ASSUME CtxInv, NEW c \in Cores, Svc(c)
    PROVE  CtxInv'
<1>1. Take(c, "sync", "svc")  BY DEF Svc
<1>2. /\ c = Core0 => ~fiq
      /\ elr' \in [Cores -> Nat] /\ spsr' \in [Cores -> {User, Level1, Kernel}]
      /\ phase' \in [Cores -> {"run", "svc", "swi", "irq", "c_irq"}]
      /\ hist' \in [Cores -> [{"irq", "sync"} -> States]]
      /\ taken' \in 0 .. MaxTaken
      /\ elr'[c] = pc[c] /\ spsr'[c] = pstate[c] /\ phase'[c] = "svc"
      /\ hist'[c]["sync"] = StateOf(c) /\ hist'[c]["irq"] = hist[c]["irq"]
      /\ \A d \in Cores \ {c} : /\ elr'[d] = elr[d] /\ spsr'[d] = spsr[d]
                                /\ phase'[d] = phase[d] /\ hist'[d] = hist[d]
  BY <1>1, Takes
<1>3. /\ UNCHANGED <<x, sp, ttbr0, pc, pstate, fiq, frames, oldarea>>
      /\ UNCHANGED <<handlers, active, t, current, owed, before>>
  BY DEF Svc, cpu, kernel_vars
<1>4. Apart(c)  BY <1>2, <1>3 DEF Apart
<1>5. sp'[c].el2 = StackEL2(c)  BY <1>2, <1>3 DEF CtxInv, FiqInv
<1>6. CtxTypeOK'  BY <1>2, <1>3 DEF CtxInv, CtxTypeOK
<1>7. LevelsOK'  BY <1>3 DEF CtxInv, LevelsOK
<1>8. SavedInv(c)'
  <2>1. Regs(c)' = x[c]  BY <1>2, <1>3 DEF Regs
  <2>2. StateOf(c) = Interrupted(c)'
    BY <1>2, <1>3, <2>1, StateAssembled, InterruptedAssembled
  <2>3. SavedInv(c) /\ active[c] \in {<< >>, <<"irq">>}  BY DEF CtxInv, Svc
  <2>4. active[c] \notin {<<"sync">>, <<"sync", "irq">>}  BY <2>3, Stacks
  <2> QED  BY <1>2, <1>3, <2>2, <2>3, <2>4 DEF SavedInv, Agree
<1>9. NestingInv(c)'
  <2>1. NestingInv(c) /\ active[c] \in {<< >>, <<"irq">>}  BY DEF CtxInv, Svc
  <2>2. hist'[c]["sync"][STATUS] = pstate[c]  BY <1>2, StateAssembled, AssembledWords
  <2>3. active[c] # <<"sync", "irq">> /\ <<"irq">> # << >>  BY <2>1, Stacks
  <2> QED  BY <1>2, <1>3, <2>1, <2>2, <2>3 DEF NestingInv
<1>10. ProcessesKept'  BY <1>3 DEF CtxInv, ProcessesKept, Agree
<1> QED  BY <1>4, <1>5, <1>6, <1>7, <1>8, <1>9, <1>10, CoreStep

LEMMA HvcStep ==
    ASSUME CtxInv, NEW c \in Cores, Hvc(c)
    PROVE  CtxInv'
<1>1. CtxTypeOK /\ phase[c] = "svc" /\ (c = Core0 => ~fiq)  BY DEF CtxInv, Hvc, Executes
<1>2. /\ UNCHANGED <<x, sp, ttbr0, pc, pstate, elr, spsr, fiq, frames, taken, before, hist>>
      /\ UNCHANGED <<handlers, active, t, current, owed>>
  BY DEF Hvc, cpu, banked, kernel_vars
<1> DEFINE area == STST_asm_el2(c)
<1>3. area \in States /\ area = Interrupted(c) /\ area[STATUS] = spsr[c]
  <2>1. Regs(c) = x[c]  BY <1>1 DEF Regs
  <2> QED
    BY <1>1, <2>1, StateTyped, STST_asm_el2Assembled, InterruptedAssembled, AssembledWords
<1>4. oldarea' = [oldarea EXCEPT ![c]["sync"] = area] /\ phase' = [phase EXCEPT ![c] = "swi"]
  BY DEF Hvc
<1> HIDE DEF area
<1>5. /\ oldarea' \in [Cores -> [{"irq", "sync"} -> States]]
      /\ oldarea'[c]["sync"] = area /\ oldarea'[c]["irq"] = oldarea[c]["irq"]
      /\ \A d \in Cores \ {c} : oldarea'[d] = oldarea[d]
  BY <1>1, <1>3, <1>4 DEF CtxTypeOK
<1>6. /\ phase' \in [Cores -> {"run", "svc", "swi", "irq", "c_irq"}] /\ phase'[c] = "swi"
      /\ \A d \in Cores \ {c} : phase'[d] = phase[d]
  BY <1>1, <1>4 DEF CtxTypeOK
<1>7. Apart(c)  BY <1>1, <1>2, <1>5, <1>6 DEF Apart
<1>8. sp'[c].el2 = StackEL2(c)  BY <1>1, <1>2 DEF CtxInv, FiqInv
<1>9. CtxTypeOK'  BY <1>1, <1>2, <1>5, <1>6 DEF CtxTypeOK
<1>10. LevelsOK'
  <2>1. spsr[c] \in Levels  BY <1>1 DEF CtxTypeOK, Levels
  <2> QED  BY <1>2, <1>3, <1>5, <2>1 DEF CtxInv, LevelsOK
<1>11. SavedInv(c)'
  <2>1. SavedInv(c)  BY DEF CtxInv
  <2> QED  BY <1>1, <1>2, <1>3, <1>5, <1>6, <2>1 DEF SavedInv, Agree
<1>12. NestingInv(c)'
  <2>1. NestingInv(c)  BY DEF CtxInv
  <2> QED  BY <1>1, <1>2, <1>6, <2>1 DEF NestingInv
<1>13. ProcessesKept'  BY <1>2 DEF CtxInv, ProcessesKept, Agree
<1> QED  BY <1>7, <1>8, <1>9, <1>10, <1>11, <1>12, <1>13, CoreStep

\* The state with which a handler of the kernel is entered.
LEMMA EntryTyped ==
    ASSUME CtxTypeOK, NEW c \in Cores, NEW kind, NEW stack \in Nat
    PROVE  /\ Entry(c, kind, stack) \in States
           /\ Entry(c, kind, stack)[STATUS] = Kernel
<1> DEFINE f == Entry(c, kind, stack)
<1>1. f = [k \in Words |-> f[k]]  BY DEF Entry
<1>2. \A k \in GPRS : f[k] = Junk  BY WordNumbers DEF Entry
<1>3. f[SP] = stack /\ f[ELR] = Handler(kind)  BY WordNumbers DEF Entry
<1>4. f[TTBR0] = ttbr0[c] /\ f[STATUS] = Kernel  BY WordNumbers DEF Entry
<1> HIDE DEF f
<1>5. Handler(kind) \in Nat /\ ttbr0[c] \in Nat /\ Junk \in Nat /\ Kernel \in Nat
  BY DEF Handler, Junk, Kernel, CtxTypeOK
<1>6. \A k \in Words : f[k] \in Nat  BY <1>2, <1>3, <1>4, <1>5, WordNumbers
<1>7. f \in States  BY <1>1, <1>6 DEF States
<1> QED  BY <1>4, <1>7 DEF f

\* c_swi_handler, when a handler is installed: it runs on top of what ran.
LEMMA SwiEnterStep ==
    ASSUME CtxInv, NEW c \in Cores, c_swi_handler(c), handlers
    PROVE  CtxInv'
<1> DEFINE stack == IF spsr[c] = User THEN KernelSP(c) ELSE GETSP(c)
           area == Entry(c, "sync", stack)
<1>1. CtxTypeOK /\ phase[c] = "swi" /\ (c = Core0 => ~fiq)  BY DEF CtxInv, c_swi_handler, Executes
<1>2. LDST(c, area, StackEL2(c)) /\ active' = [active EXCEPT ![c] = <<"sync">> \o active[c]]
  BY DEF c_swi_handler
<1>3. /\ UNCHANGED <<elr, spsr, fiq, frames, oldarea, taken, before, hist>>
      /\ UNCHANGED <<handlers, t, current, owed>>
  BY DEF c_swi_handler, banked
<1>4. c \in Nat /\ StackEL2(c) \in Nat /\ stack \in Nat
  <2>1. c \in Nat  BY Numbers
  <2>2. KernelSP(c) \in Nat /\ StackEL2(c) \in Nat  BY <2>1 DEF KernelSP, StackEL2
  <2>3. sp[c].el2 = StackEL2(c)  BY <1>1 DEF CtxInv, FiqInv
  <2>4. GETSP(c) \in Nat  BY <2>1, <2>3 DEF GETSP, StackEL2, SwiFrame
  <2> QED  BY <2>1, <2>2, <2>4
<1>5. area \in States /\ area[STATUS] = Kernel /\ area[STATUS] \in Levels
  BY <1>1, <1>4, EntryTyped DEF Levels
<1> HIDE DEF area
<1>6. /\ x' \in [Cores -> [GPRS -> Nat]]
      /\ sp' \in [Cores -> [el0 : Nat, el1 : Nat, el2 : Nat]]
      /\ pc' \in [Cores -> Nat] /\ ttbr0' \in [Cores -> Nat]
      /\ pstate' \in [Cores -> {User, Level1, Kernel}]
      /\ phase' \in [Cores -> {"run", "svc", "swi", "irq", "c_irq"}]
      /\ pstate'[c] = Kernel /\ phase'[c] = "run" /\ sp'[c].el2 = StackEL2(c)
      /\ \A d \in Cores \ {c} : /\ x'[d] = x[d] /\ sp'[d] = sp[d] /\ ttbr0'[d] = ttbr0[d]
                                /\ pc'[d] = pc[d] /\ pstate'[d] = pstate[d]
                                /\ phase'[d] = phase[d]
  BY <1>1, <1>2, <1>4, <1>5, Loads
<1>7. active[c] \in {<< >>, <<"irq">>}  BY <1>1 DEF CtxInv, NestingInv
<1>8. /\ active' \in [Cores -> {<< >>, <<"sync">>, <<"irq">>, <<"sync", "irq">>, <<"called">>}]
      /\ active[c] = << >> => active'[c] = <<"sync">>
      /\ active[c] = <<"irq">> => active'[c] = <<"sync", "irq">>
      /\ \A d \in Cores \ {c} : active'[d] = active[d]
  <2>1. <<"sync">> \o active[c] \in {<<"sync">>, <<"sync", "irq">>}  BY <1>7, Stacks
  <2>2. active \in [Cores -> {<< >>, <<"sync">>, <<"irq">>, <<"sync", "irq">>, <<"called">>}]
    BY <1>1 DEF CtxTypeOK
  <2>3. active'[c] = <<"sync">> \o active[c]  BY <1>2, <2>2
  <2>4. active' \in [Cores -> {<< >>, <<"sync">>, <<"irq">>, <<"sync", "irq">>, <<"called">>}]
    BY <1>2, <2>1, <2>2
  <2>5. \A d \in Cores \ {c} : active'[d] = active[d]  BY <1>2, <2>2
  <2> QED  BY <2>3, <2>4, <2>5, Stacks
<1>9. Apart(c)  BY <1>1, <1>3, <1>6, <1>8 DEF Apart
<1>10. CtxTypeOK'  BY <1>1, <1>3, <1>6, <1>8 DEF CtxTypeOK
<1>11. LevelsOK'  BY <1>3 DEF CtxInv, LevelsOK
<1>12. SavedInv(c)'
  <2>1. SavedInv(c)  BY DEF CtxInv
  <2>2. active[c] = << >> => active'[c] \notin {<<"irq">>, <<"sync", "irq">>, <<"called">>}
    BY <1>8, Stacks
  <2> QED  BY <1>1, <1>3, <1>6, <1>7, <2>1, <2>2 DEF SavedInv, Agree
<1>13. NestingInv(c)'
  <2>1. NestingInv(c)  BY DEF CtxInv
  <2>2. active[c] = << >> => active'[c] # <<"sync", "irq">>  BY <1>8, Stacks
  <2> QED  BY <1>1, <1>3, <1>6, <1>7, <2>1, <2>2 DEF NestingInv
<1>14. ProcessesKept'  BY <1>3 DEF CtxInv, ProcessesKept, Agree
<1> QED  BY <1>6, <1>9, <1>10, <1>11, <1>12, <1>13, <1>14, CoreStep

\* c_swi_handler before any handler is installed: the caller goes on.
LEMMA SwiResumeStep ==
    ASSUME CtxInv, NEW c \in Cores, c_swi_handler(c), ~handlers
    PROVE  CtxInv'
<1> DEFINE area == oldarea[c]["sync"]
<1>1. CtxTypeOK /\ phase[c] = "swi" /\ (c = Core0 => ~fiq)  BY DEF CtxInv, c_swi_handler, Executes
<1>2. LDST(c, area, StackEL2(c))  BY DEF c_swi_handler
<1>3. /\ UNCHANGED <<elr, spsr, fiq, frames, oldarea, taken, before, hist>>
      /\ UNCHANGED <<handlers, active, t, current, owed>>
  BY DEF c_swi_handler, banked
<1>4. StackEL2(c) \in Nat  BY Numbers DEF StackEL2
<1>5. area \in States /\ area[STATUS] \in Levels  BY <1>1 DEF CtxTypeOK, CtxInv, LevelsOK
<1> HIDE DEF area
<1>6. /\ x' \in [Cores -> [GPRS -> Nat]]
      /\ sp' \in [Cores -> [el0 : Nat, el1 : Nat, el2 : Nat]]
      /\ pc' \in [Cores -> Nat] /\ ttbr0' \in [Cores -> Nat]
      /\ pstate' \in [Cores -> {User, Level1, Kernel}]
      /\ phase' \in [Cores -> {"run", "svc", "swi", "irq", "c_irq"}]
      /\ pstate'[c] = area[STATUS] /\ phase'[c] = "run" /\ sp'[c].el2 = StackEL2(c)
      /\ \A d \in Cores \ {c} : /\ x'[d] = x[d] /\ sp'[d] = sp[d] /\ ttbr0'[d] = ttbr0[d]
                                /\ pc'[d] = pc[d] /\ pstate'[d] = pstate[d]
                                /\ phase'[d] = phase[d]
  BY <1>1, <1>2, <1>4, <1>5, Loads
<1>7. Apart(c)  BY <1>1, <1>3, <1>6 DEF Apart
<1>8. CtxTypeOK'  BY <1>1, <1>3, <1>6 DEF CtxTypeOK
<1>9. LevelsOK'  BY <1>3 DEF CtxInv, LevelsOK
<1>10. SavedInv(c)'
  <2>1. SavedInv(c)  BY DEF CtxInv
  <2> QED  BY <1>3, <1>6, <2>1 DEF SavedInv, Agree
<1>11. NestingInv(c)'
  <2>1. NestingInv(c) /\ SavedInv(c)  BY DEF CtxInv
  <2>2. active[c] \in {<< >>, <<"irq">>} /\ <<"irq">> # << >>  BY <1>1, <2>1, Stacks DEF NestingInv
  <2>3. active[c] # <<"sync", "irq">>  BY <2>2, Stacks
  <2>4. active[c] = <<"irq">> => area[STATUS] = Kernel
    BY <1>1, <2>1 DEF NestingInv, SavedInv, area
  <2> QED  BY <1>3, <1>6, <2>2, <2>3, <2>4 DEF NestingInv
<1>12. ProcessesKept'  BY <1>3 DEF CtxInv, ProcessesKept, Agree
<1> QED  BY <1>6, <1>7, <1>8, <1>9, <1>10, <1>11, <1>12, CoreStep

LEMMA IrqStep ==
    ASSUME CtxInv, NEW c \in Cores, Irq(c)
    PROVE  CtxInv'
<1>1. CtxTypeOK /\ Take(c, "irq", "irq") /\ pstate[c] # Kernel  BY DEF CtxInv, Irq
<1>2. /\ c = Core0 => ~fiq
      /\ elr' \in [Cores -> Nat] /\ spsr' \in [Cores -> {User, Level1, Kernel}]
      /\ phase' \in [Cores -> {"run", "svc", "swi", "irq", "c_irq"}]
      /\ hist' \in [Cores -> [{"irq", "sync"} -> States]]
      /\ taken' \in 0 .. MaxTaken
      /\ elr'[c] = pc[c] /\ spsr'[c] = pstate[c] /\ phase'[c] = "irq"
      /\ hist'[c]["irq"] = StateOf(c) /\ hist'[c]["sync"] = hist[c]["sync"]
      /\ \A d \in Cores \ {c} : /\ elr'[d] = elr[d] /\ spsr'[d] = spsr[d]
                                /\ phase'[d] = phase[d] /\ hist'[d] = hist[d]
  BY <1>1, Takes
<1>3. UNCHANGED <<ttbr0, pc, pstate, fiq, frames, oldarea, handlers, active, t, current, owed,
                  before>>
  BY DEF Irq, kernel_vars
<1>4. /\ sp' \in [Cores -> [el0 : Nat, el1 : Nat, el2 : Nat]]
      /\ sp'[c].el2 = sp[c].el2 /\ sp'[c].el0 = sp[c].el0
      /\ pstate[c] # User => sp'[c].el1 = sp[c].el1
      /\ \A d \in Cores \ {c} : sp'[d] = sp[d]
  <2>1. StackEL1(c) \in Nat  BY Numbers DEF StackEL1
  <2> HIDE DEF StackEL1
  <2>2. sp \in [Cores -> [el0 : Nat, el1 : Nat, el2 : Nat]]  BY <1>1 DEF CtxTypeOK
  <2>3. CASE pstate[c] = User
    <3>1. sp' = [sp EXCEPT ![c] = [@ EXCEPT !.el1 = StackEL1(c)]]  BY <2>3 DEF Irq
    <3> QED  BY <2>1, <2>2, <2>3, <3>1
  <2>4. CASE pstate[c] # User
    <3>1. sp' = sp  BY <2>4 DEF Irq
    <3> QED  BY <2>2, <2>4, <3>1
  <2> QED  BY <2>3, <2>4
<1>5. /\ x' \in [Cores -> [GPRS -> Nat]]
      /\ \A k \in GPRS \ {27} : x'[c][k] = x[c][k]
      /\ \A d \in Cores \ {c} : x'[d] = x[d]
  <2>1. Junk \in Nat  BY DEF Junk
  <2>2. x \in [Cores -> [GPRS -> Nat]]  BY <1>1 DEF CtxTypeOK
  <2>3. x' = x \/ x' = [x EXCEPT ![c] = [@ EXCEPT ![27] = Junk]]  BY DEF Irq
  <2> QED  BY <2>1, <2>2, <2>3
<1>6. Apart(c)  BY <1>2, <1>3, <1>4, <1>5 DEF Apart
<1>7. sp'[c].el2 = StackEL2(c)  BY <1>2, <1>4 DEF CtxInv, FiqInv
<1>8. CtxTypeOK'  BY <1>1, <1>2, <1>3, <1>4, <1>5 DEF CtxTypeOK
<1>9. LevelsOK'  BY <1>3 DEF CtxInv, LevelsOK
<1>10. SavedInv(c) /\ NestingInv(c) /\ active[c] = << >>
  <2>1. SavedInv(c) /\ NestingInv(c)  BY DEF CtxInv
  <2> QED  BY <1>1, <2>1 DEF NestingInv
<1>11. Agree(Interrupted(c)', hist'[c]["irq"], KeptByIrq)
  <2> DEFINE i == Interrupted(c)'
             s == StateOf(c)
  <2>1. Regs(c)' = x'[c]  BY <1>2, <1>3 DEF Regs
  <2>2. StackOf(sp'[c], spsr'[c]) = StackOf(sp[c], pstate[c])
    BY <1>2, <1>4 DEF StackOf
  <2>3. /\ \A k \in GPRS : i[k] = x'[c][k]
        /\ i[SP] = StackOf(sp[c], pstate[c]) /\ i[ELR] = pc[c]
        /\ i[TTBR0] = ttbr0[c] /\ i[STATUS] = pstate[c]
    BY <1>2, <1>3, <2>1, <2>2, InterruptedAssembled, AssembledWords
  <2>4. /\ \A k \in GPRS : s[k] = x[c][k]
        /\ s[SP] = StackOf(sp[c], pstate[c]) /\ s[ELR] = pc[c]
        /\ s[TTBR0] = ttbr0[c] /\ s[STATUS] = pstate[c]
    BY StateAssembled, AssembledWords
  <2> HIDE DEF i, s
  <2>5. \A k \in KeptByIrq : i[k] = s[k]
    BY <1>5, <2>3, <2>4, WordNumbers DEF KeptByIrq
  <2> QED  BY <1>2, <2>5 DEF i, s, Agree
<1>12. SavedInv(c)'
  BY <1>2, <1>3, <1>10, <1>11, Stacks DEF SavedInv
<1>13. NestingInv(c)'  BY <1>2, <1>3, <1>10, Stacks DEF NestingInv
<1>14. ProcessesKept'  BY <1>3 DEF CtxInv, ProcessesKept, Agree
<1> QED  BY <1>6, <1>7, <1>8, <1>9, <1>12, <1>13, <1>14, CoreStep

\* irq_handler stores the state, but for the registers that it has used.
LEMMA STST_asmWords ==
    ASSUME CtxTypeOK, NEW c \in Cores
    PROVE  /\ STST_asm(c) \in States
           /\ \A k \in GPRS \ {27, 28} : STST_asm(c)[k] = x[c][k]
           /\ STST_asm(c)[SP] = StackOf(sp[c], spsr[c])
           /\ STST_asm(c)[ELR] = elr[c] /\ STST_asm(c)[TTBR0] = ttbr0[c]
           /\ STST_asm(c)[STATUS] = spsr[c]
<1> DEFINE f == STST_asm(c)
<1>1. f = [k \in Words |-> f[k]]  BY DEF STST_asm
<1>2. 27 \in GPRS /\ 28 \in GPRS /\ 27 # 28  BY DEF GPRS
<1>3. /\ 27 # TTBR0 /\ 28 # TTBR0
      /\ 27 \notin {SP, ELR, TTBR0, STATUS} /\ 28 \notin {SP, ELR, TTBR0, STATUS}
  BY DEF SP, ELR, TTBR0, STATUS
<1>4. \A k \in GPRS \ {27, 28} : f[k] = x[c][k]  BY WordNumbers, <1>2, <1>3 DEF STST_asm
<1>5. f[27] = c  BY WordNumbers, <1>2, <1>3 DEF STST_asm
<1>6. f[28] = ttbr0[c]  BY WordNumbers, <1>2, <1>3 DEF STST_asm
<1>7. f[SP] = IF spsr[c] = User THEN sp[c].el0 ELSE sp[c].el1 - 16 + 16
  BY WordNumbers, <1>2, <1>3 DEF STST_asm
<1>8. f[ELR] = elr[c]  BY WordNumbers, <1>2, <1>3 DEF STST_asm
<1>9. f[TTBR0] = ttbr0[c]  BY WordNumbers, <1>2, <1>3 DEF STST_asm
<1>10. f[STATUS] = spsr[c]  BY WordNumbers, <1>2, <1>3 DEF STST_asm
<1> HIDE DEF f
<1>11. /\ x[c] \in [GPRS -> Nat] /\ sp[c] \in [el0 : Nat, el1 : Nat, el2 : Nat]
       /\ elr[c] \in Nat /\ ttbr0[c] \in Nat /\ spsr[c] \in {User, Level1, Kernel}
  BY DEF CtxTypeOK
<1>12. f[SP] = StackOf(sp[c], spsr[c]) /\ f[SP] \in Nat  BY <1>7, <1>11 DEF StackOf
<1>13. c \in Nat /\ spsr[c] \in Nat  BY <1>11, Numbers DEF User, Level1, Kernel
<1>14. \A k \in GPRS : f[k] \in Nat  BY <1>4, <1>5, <1>6, <1>11, <1>13
<1>15. \A k \in Words : f[k] \in Nat
  BY <1>8, <1>9, <1>10, <1>11, <1>12, <1>13, <1>14, WordNumbers
<1>16. f \in States  BY <1>1, <1>15 DEF States
<1> QED  BY <1>4, <1>8, <1>9, <1>10, <1>12, <1>16 DEF f

LEMMA IrqSaveStep ==
    ASSUME CtxInv, NEW c \in Cores, IrqSave(c)
    PROVE  CtxInv'
<1>1. CtxTypeOK /\ phase[c] = "irq" /\ (c = Core0 => ~fiq)  BY DEF CtxInv, IrqSave, Executes
<1>2. /\ UNCHANGED <<sp, pc, pstate, elr, spsr, fiq, frames, taken, before, hist>>
      /\ UNCHANGED <<handlers, active, t, current, owed>>
  BY DEF IrqSave, banked, kernel_vars
<1> DEFINE area == STST_asm(c)
<1>3. /\ area \in States
      /\ \A k \in GPRS \ {27, 28} : area[k] = x[c][k]
      /\ area[SP] = StackOf(sp[c], spsr[c]) /\ area[ELR] = elr[c]
      /\ area[TTBR0] = ttbr0[c] /\ area[STATUS] = spsr[c]
  BY <1>1, STST_asmWords
<1>4. /\ oldarea' = [oldarea EXCEPT ![c]["irq"] = area] /\ ttbr0' = [ttbr0 EXCEPT ![c] = TTBR1]
      /\ x' = [x EXCEPT ![c] = [k \in GPRS |-> Junk]] /\ phase' = [phase EXCEPT ![c] = "c_irq"]
  BY DEF IrqSave
<1> HIDE DEF area
<1>5. /\ oldarea' \in [Cores -> [{"irq", "sync"} -> States]]
      /\ oldarea'[c]["irq"] = area /\ oldarea'[c]["sync"] = oldarea[c]["sync"]
      /\ \A d \in Cores \ {c} : oldarea'[d] = oldarea[d]
  BY <1>1, <1>3, <1>4 DEF CtxTypeOK
<1>6. /\ phase' \in [Cores -> {"run", "svc", "swi", "irq", "c_irq"}] /\ phase'[c] = "c_irq"
      /\ \A d \in Cores \ {c} : phase'[d] = phase[d]
  BY <1>1, <1>4 DEF CtxTypeOK
<1>7. /\ x' \in [Cores -> [GPRS -> Nat]] /\ ttbr0' \in [Cores -> Nat]
      /\ \A d \in Cores \ {c} : x'[d] = x[d] /\ ttbr0'[d] = ttbr0[d]
  <2>1. [k \in GPRS |-> Junk] \in [GPRS -> Nat] /\ TTBR1 \in Nat  BY DEF Junk, TTBR1
  <2>2. x \in [Cores -> [GPRS -> Nat]] /\ ttbr0 \in [Cores -> Nat]  BY <1>1 DEF CtxTypeOK
  <2> QED  BY <1>4, <2>1, <2>2
<1>8. Apart(c)  BY <1>1, <1>2, <1>5, <1>6, <1>7 DEF Apart
<1>9. sp'[c].el2 = StackEL2(c)  BY <1>1, <1>2 DEF CtxInv, FiqInv
<1>10. CtxTypeOK'  BY <1>1, <1>2, <1>5, <1>6, <1>7 DEF CtxTypeOK
<1>11. LevelsOK'
  <2>1. spsr[c] \in Levels  BY <1>1 DEF CtxTypeOK, Levels
  <2> QED  BY <1>2, <1>3, <1>5, <2>1 DEF CtxInv, LevelsOK
<1>12. SavedInv(c) /\ NestingInv(c)  BY DEF CtxInv
<1>13. Agree(area, hist[c]["irq"], KeptByIrq)
  <2> DEFINE i == Interrupted(c)
  <2>1. Regs(c) = x[c]  BY <1>1 DEF Regs
  <2>2. /\ \A k \in GPRS : i[k] = x[c][k]
        /\ i[SP] = StackOf(sp[c], spsr[c]) /\ i[ELR] = elr[c]
        /\ i[TTBR0] = ttbr0[c] /\ i[STATUS] = spsr[c]
    BY <2>1, InterruptedAssembled, AssembledWords
  <2>3. \A k \in KeptByIrq : i[k] = hist[c]["irq"][k]  BY <1>1, <1>12 DEF SavedInv, Agree
  <2> HIDE DEF i
  <2>4. \A k \in KeptByIrq : area[k] = i[k]
    BY <1>3, <2>2, WordNumbers DEF KeptByIrq
  <2> QED  BY <2>3, <2>4 DEF Agree
<1>14. SavedInv(c)'
  <2>1. active[c] = << >>  BY <1>1, <1>12 DEF NestingInv
  <2> QED  BY <1>2, <1>5, <1>6, <1>13, <2>1, Stacks DEF SavedInv
<1>15. NestingInv(c)'  BY <1>1, <1>2, <1>6, <1>12 DEF NestingInv
<1>16. ProcessesKept'  BY <1>2 DEF CtxInv, ProcessesKept, Agree
<1> QED  BY <1>8, <1>9, <1>10, <1>11, <1>14, <1>15, <1>16, CoreStep

\* The two ends of c_irq_handler: it enters the kernel's handler, or resumes
\* what was interrupted.
IrqEnters(c) ==
    /\ Executes(c, "c_irq")
    /\ LDST(c, Entry(c, "irq", KernelSP(c)), sp[c].el2)
    /\ active' = [active EXCEPT ![c] = <<"irq">> \o @]
    /\ UNCHANGED <<banked, fiq, frames, oldarea, handlers, t, current, owed, taken, before, hist>>

IrqResumes(c) ==
    /\ Executes(c, "c_irq")
    /\ LDST(c, oldarea[c]["irq"], sp[c].el2)
    /\ UNCHANGED <<active, banked, fiq, frames, oldarea>>
    /\ UNCHANGED <<handlers, t, current, owed, taken, before, hist>>

LEMMA IrqEnterStep ==
    ASSUME CtxInv, NEW c \in Cores, IrqEnters(c)
    PROVE  CtxInv'
<1> DEFINE area == Entry(c, "irq", KernelSP(c))
<1>1. CtxTypeOK /\ phase[c] = "c_irq" /\ (c = Core0 => ~fiq)  BY DEF CtxInv, IrqEnters, Executes
<1>2. LDST(c, area, sp[c].el2) /\ active' = [active EXCEPT ![c] = <<"irq">> \o active[c]]
  BY DEF IrqEnters
<1>3. /\ UNCHANGED <<elr, spsr, fiq, frames, oldarea, taken, before, hist>>
      /\ UNCHANGED <<handlers, t, current, owed>>
  BY DEF IrqEnters, banked
<1>4. StackEL2(c) \in Nat /\ sp[c].el2 = StackEL2(c)
  BY <1>1, Numbers DEF StackEL2, CtxInv, FiqInv
<1>5. area \in States /\ area[STATUS] = Kernel /\ area[STATUS] \in Levels
  <2>1. KernelSP(c) \in Nat  BY Numbers DEF KernelSP
  <2> QED  BY <1>1, <2>1, EntryTyped DEF Levels
<1> HIDE DEF area
<1>6. /\ x' \in [Cores -> [GPRS -> Nat]]
      /\ sp' \in [Cores -> [el0 : Nat, el1 : Nat, el2 : Nat]]
      /\ pc' \in [Cores -> Nat] /\ ttbr0' \in [Cores -> Nat]
      /\ pstate' \in [Cores -> {User, Level1, Kernel}]
      /\ phase' \in [Cores -> {"run", "svc", "swi", "irq", "c_irq"}]
      /\ pstate'[c] = Kernel /\ phase'[c] = "run" /\ sp'[c].el2 = StackEL2(c)
      /\ \A d \in Cores \ {c} : /\ x'[d] = x[d] /\ sp'[d] = sp[d] /\ ttbr0'[d] = ttbr0[d]
                                /\ pc'[d] = pc[d] /\ pstate'[d] = pstate[d]
                                /\ phase'[d] = phase[d]
  BY <1>1, <1>2, <1>4, <1>5, Loads
<1>7. SavedInv(c) /\ active[c] = << >>  BY <1>1 DEF CtxInv, NestingInv
<1>8. /\ active' \in [Cores -> {<< >>, <<"sync">>, <<"irq">>, <<"sync", "irq">>, <<"called">>}]
      /\ active'[c] = <<"irq">>
      /\ \A d \in Cores \ {c} : active'[d] = active[d]
  <2>1. <<"irq">> \o active[c] = <<"irq">>  BY <1>7, Stacks
  <2>2. active \in [Cores -> {<< >>, <<"sync">>, <<"irq">>, <<"sync", "irq">>, <<"called">>}]
    BY <1>1 DEF CtxTypeOK
  <2> QED  BY <1>2, <2>1, <2>2
<1>9. Apart(c)  BY <1>1, <1>3, <1>6, <1>8 DEF Apart
<1>10. CtxTypeOK'  BY <1>1, <1>3, <1>6, <1>8 DEF CtxTypeOK
<1>11. LevelsOK'  BY <1>3 DEF CtxInv, LevelsOK
<1>12. SavedInv(c)'
  <2>1. <<"irq">> \notin {<<"sync">>, <<"sync", "irq">>}  BY Stacks
  <2> QED  BY <1>1, <1>3, <1>6, <1>7, <1>8, <2>1 DEF SavedInv, Agree
<1>13. NestingInv(c)'
  <2>1. <<"irq">> # << >> /\ <<"irq">> # <<"sync", "irq">>  BY Stacks
  <2> QED  BY <1>6, <1>8, <2>1 DEF NestingInv
<1>14. ProcessesKept'  BY <1>3 DEF CtxInv, ProcessesKept, Agree
<1> QED  BY <1>6, <1>9, <1>10, <1>11, <1>12, <1>13, <1>14, CoreStep

LEMMA IrqResumeStep ==
    ASSUME CtxInv, NEW c \in Cores, IrqResumes(c)
    PROVE  CtxInv'
<1> DEFINE area == oldarea[c]["irq"]
<1>1. CtxTypeOK /\ phase[c] = "c_irq" /\ (c = Core0 => ~fiq)  BY DEF CtxInv, IrqResumes, Executes
<1>2. LDST(c, area, sp[c].el2)  BY DEF IrqResumes
<1>3. /\ UNCHANGED <<elr, spsr, fiq, frames, oldarea, taken, before, hist>>
      /\ UNCHANGED <<active, handlers, t, current, owed>>
  BY DEF IrqResumes, banked
<1>4. StackEL2(c) \in Nat /\ sp[c].el2 = StackEL2(c)
  BY <1>1, Numbers DEF StackEL2, CtxInv, FiqInv
<1>5. area \in States /\ area[STATUS] \in Levels  BY <1>1 DEF CtxTypeOK, CtxInv, LevelsOK
<1> HIDE DEF area
<1>6. /\ x' \in [Cores -> [GPRS -> Nat]]
      /\ sp' \in [Cores -> [el0 : Nat, el1 : Nat, el2 : Nat]]
      /\ pc' \in [Cores -> Nat] /\ ttbr0' \in [Cores -> Nat]
      /\ pstate' \in [Cores -> {User, Level1, Kernel}]
      /\ phase' \in [Cores -> {"run", "svc", "swi", "irq", "c_irq"}]
      /\ pstate'[c] = area[STATUS] /\ phase'[c] = "run" /\ sp'[c].el2 = StackEL2(c)
      /\ \A d \in Cores \ {c} : /\ x'[d] = x[d] /\ sp'[d] = sp[d] /\ ttbr0'[d] = ttbr0[d]
                                /\ pc'[d] = pc[d] /\ pstate'[d] = pstate[d]
                                /\ phase'[d] = phase[d]
  BY <1>1, <1>2, <1>4, <1>5, Loads
<1>7. SavedInv(c) /\ active[c] = << >>  BY <1>1 DEF CtxInv, NestingInv
<1>8. Apart(c)  BY <1>1, <1>3, <1>6 DEF Apart
<1>9. CtxTypeOK'  BY <1>1, <1>3, <1>6 DEF CtxTypeOK
<1>10. LevelsOK'  BY <1>3 DEF CtxInv, LevelsOK
<1>11. SavedInv(c)'  BY <1>3, <1>6, <1>7 DEF SavedInv, Agree
<1>12. NestingInv(c)'  BY <1>3, <1>6, <1>7, Stacks DEF NestingInv
<1>13. ProcessesKept'  BY <1>3 DEF CtxInv, ProcessesKept, Agree
<1> QED  BY <1>6, <1>8, <1>9, <1>10, <1>11, <1>12, <1>13, CoreStep

LEMMA SynchronousStep ==
    ASSUME CtxInv, NEW c \in Cores, Synchronous(c)
    PROVE  CtxInv'
<1> DEFINE area == oldarea[c]["sync"]
<1>1. CtxTypeOK /\ phase[c] = "run" /\ (c = Core0 => ~fiq)  BY DEF CtxInv, Synchronous, Executes
<1>2. LDST(c, area, sp[c].el2)  BY DEF Synchronous
<1>3. /\ UNCHANGED <<elr, spsr, fiq, frames, oldarea, taken, before, hist>>
      /\ UNCHANGED <<handlers, t, current, owed>>
  BY DEF Synchronous, banked
<1>4. StackEL2(c) \in Nat /\ sp[c].el2 = StackEL2(c)
  BY <1>1, Numbers DEF StackEL2, CtxInv, FiqInv
<1>5. area \in States /\ area[STATUS] \in Levels  BY <1>1 DEF CtxTypeOK, CtxInv, LevelsOK
<1>6. SavedInv(c) /\ NestingInv(c)  BY DEF CtxInv
<1>7. active[c] \in {<<"sync">>, <<"sync", "irq">>}
  <2>1. active[c] \in {<< >>, <<"sync">>, <<"irq">>, <<"sync", "irq">>, <<"called">>}
    BY <1>1 DEF CtxTypeOK
  <2>2. active[c] # << >> /\ Head(active[c]) = "sync"  BY DEF Synchronous
  <2> QED  BY <2>1, <2>2, Stacks
<1>8. area = hist[c]["sync"]  BY <1>6, <1>7 DEF SavedInv
<1> HIDE DEF area
<1>9. /\ x' \in [Cores -> [GPRS -> Nat]]
      /\ sp' \in [Cores -> [el0 : Nat, el1 : Nat, el2 : Nat]]
      /\ pc' \in [Cores -> Nat] /\ ttbr0' \in [Cores -> Nat]
      /\ pstate' \in [Cores -> {User, Level1, Kernel}]
      /\ phase' \in [Cores -> {"run", "svc", "swi", "irq", "c_irq"}]
      /\ pstate'[c] = area[STATUS] /\ phase'[c] = "run" /\ sp'[c].el2 = StackEL2(c)
      /\ \A d \in Cores \ {c} : /\ x'[d] = x[d] /\ sp'[d] = sp[d] /\ ttbr0'[d] = ttbr0[d]
                                /\ pc'[d] = pc[d] /\ pstate'[d] = pstate[d]
                                /\ phase'[d] = phase[d]
  BY <1>1, <1>2, <1>4, <1>5, Loads
<1>10. /\ active' \in [Cores -> {<< >>, <<"sync">>, <<"irq">>, <<"sync", "irq">>, <<"called">>}]
       /\ active[c] = <<"sync">> => active'[c] = << >>
       /\ active[c] = <<"sync", "irq">> => active'[c] = <<"called">>
       /\ \A d \in Cores \ {c} : active'[d] = active[d]
  <2> DEFINE left == IF Tail(active[c]) = << >> THEN << >> ELSE <<"called">>
  <2>1. active \in [Cores -> {<< >>, <<"sync">>, <<"irq">>, <<"sync", "irq">>, <<"called">>}]
    BY <1>1 DEF CtxTypeOK
  <2>2. active' = [active EXCEPT ![c] = left]  BY DEF Synchronous
  <2>3. active[c] = <<"sync">> => left = << >>  BY Stacks
  <2>4. active[c] = <<"sync", "irq">> => left = <<"called">>
    <3>1. Tail(<<"sync", "irq">>) = <<"irq">> /\ <<"irq">> # << >>  BY Stacks
    <3> QED  BY <3>1
  <2>5. left \in {<< >>, <<"called">>}  OBVIOUS
  <2> HIDE DEF left
  <2> QED  BY <2>1, <2>2, <2>3, <2>4, <2>5
<1>11. Apart(c)  BY <1>1, <1>3, <1>9, <1>10 DEF Apart
<1>12. CtxTypeOK'  BY <1>1, <1>3, <1>9, <1>10 DEF CtxTypeOK
<1>13. LevelsOK'  BY <1>3 DEF CtxInv, LevelsOK
<1>14. /\ active'[c] \in {<< >>, <<"called">>}
       /\ active'[c] = <<"called">> => active[c] = <<"sync", "irq">>
  BY <1>7, <1>10, Stacks
<1>15. SavedInv(c)'
  <2>1. /\ << >> \notin {<<"sync">>, <<"sync", "irq">>, <<"irq">>, <<"called">>}
        /\ <<"called">> \notin {<<"sync">>, <<"sync", "irq">>}
    BY Stacks
  <2> QED  BY <1>3, <1>6, <1>9, <1>14, <2>1 DEF SavedInv, Agree
<1>16. NestingInv(c)'
  <2>1. << >> # <<"sync", "irq">> /\ <<"called">> # <<"sync", "irq">>  BY Stacks
  <2>2. active'[c] # << >> => area[STATUS] = Kernel  BY <1>6, <1>8, <1>14 DEF NestingInv
  <2> QED  BY <1>9, <1>14, <2>1, <2>2 DEF NestingInv
<1>17. ProcessesKept'  BY <1>3 DEF CtxInv, ProcessesKept, Agree
<1> QED  BY <1>9, <1>11, <1>12, <1>13, <1>15, <1>16, <1>17, CoreStep

LEMMA InterruptOtherStep ==
    ASSUME CtxInv, NEW c \in Cores, InterruptOther(c)
    PROVE  CtxInv'
<1> DEFINE area == oldarea[c]["irq"]
<1>1. CtxTypeOK /\ phase[c] = "run" /\ (c = Core0 => ~fiq)  BY DEF CtxInv, InterruptOther, Executes
<1>2. LDST(c, area, sp[c].el2)  BY DEF InterruptOther
<1>3. /\ UNCHANGED <<elr, spsr, fiq, frames, oldarea, taken, before, hist>>
      /\ UNCHANGED <<handlers, t, current, owed>>
  BY DEF InterruptOther, banked
<1>4. StackEL2(c) \in Nat /\ sp[c].el2 = StackEL2(c)
  BY <1>1, Numbers DEF StackEL2, CtxInv, FiqInv
<1>5. area \in States /\ area[STATUS] \in Levels  BY <1>1 DEF CtxTypeOK, CtxInv, LevelsOK
<1> HIDE DEF area
<1>6. /\ x' \in [Cores -> [GPRS -> Nat]]
      /\ sp' \in [Cores -> [el0 : Nat, el1 : Nat, el2 : Nat]]
      /\ pc' \in [Cores -> Nat] /\ ttbr0' \in [Cores -> Nat]
      /\ pstate' \in [Cores -> {User, Level1, Kernel}]
      /\ phase' \in [Cores -> {"run", "svc", "swi", "irq", "c_irq"}]
      /\ pstate'[c] = area[STATUS] /\ phase'[c] = "run" /\ sp'[c].el2 = StackEL2(c)
      /\ \A d \in Cores \ {c} : /\ x'[d] = x[d] /\ sp'[d] = sp[d] /\ ttbr0'[d] = ttbr0[d]
                                /\ pc'[d] = pc[d] /\ pstate'[d] = pstate[d]
                                /\ phase'[d] = phase[d]
  BY <1>1, <1>2, <1>4, <1>5, Loads
<1>7. /\ active' \in [Cores -> {<< >>, <<"sync">>, <<"irq">>, <<"sync", "irq">>, <<"called">>}]
      /\ active'[c] = << >>
      /\ \A d \in Cores \ {c} : active'[d] = active[d]
  <2>1. active \in [Cores -> {<< >>, <<"sync">>, <<"irq">>, <<"sync", "irq">>, <<"called">>}]
    BY <1>1 DEF CtxTypeOK
  <2>2. active' = [active EXCEPT ![c] = << >>]  BY DEF InterruptOther
  <2> QED  BY <2>1, <2>2
<1>8. Apart(c)  BY <1>1, <1>3, <1>6, <1>7 DEF Apart
<1>9. CtxTypeOK'  BY <1>1, <1>3, <1>6, <1>7 DEF CtxTypeOK
<1>10. LevelsOK'  BY <1>3 DEF CtxInv, LevelsOK
<1>11. << >> \notin {<<"sync">>, <<"sync", "irq">>, <<"irq">>, <<"called">>}  BY Stacks
<1>12. SavedInv(c)'  BY <1>6, <1>7, <1>11 DEF SavedInv
<1>13. NestingInv(c)'  BY <1>6, <1>7, <1>11 DEF NestingInv
<1>14. ProcessesKept'  BY <1>3 DEF CtxInv, ProcessesKept, Agree
<1> QED  BY <1>6, <1>8, <1>9, <1>10, <1>12, <1>13, <1>14, CoreStep

LEMMA InterruptStep ==
    ASSUME CtxInv, Interrupt
    PROVE  CtxInv'
<1> DEFINE c == Core0
           kept == oldarea[c]["irq"]
           area == t'[current']
<1>1. CtxTypeOK /\ c \in Cores /\ phase[c] = "run" /\ ~fiq
  BY Numbers DEF CtxInv, Interrupt, Executes
<1>2. LDST(c, area, sp[c].el2)  BY DEF Interrupt
<1>3. UNCHANGED <<elr, spsr, fiq, frames, oldarea, taken, before, hist, handlers>>
  BY DEF Interrupt, banked
<1>4. StackEL2(c) \in Nat /\ sp[c].el2 = StackEL2(c)
  BY <1>1, Numbers DEF StackEL2, CtxInv, FiqInv
<1>5. kept \in States /\ kept[STATUS] \in Levels  BY <1>1 DEF CtxTypeOK, CtxInv, LevelsOK
<1>6. SavedInv(c) /\ NestingInv(c)  BY <1>1 DEF CtxInv
<1>7. active[c] = <<"irq">>
  <2>1. active[c] \in {<< >>, <<"sync">>, <<"irq">>, <<"sync", "irq">>, <<"called">>}
    BY <1>1 DEF CtxTypeOK
  <2>2. active[c] # << >> /\ Head(active[c]) = "irq"  BY DEF Interrupt
  <2> QED  BY <2>1, <2>2, Stacks
<1>8. Agree(kept, hist[c]["irq"], KeptByIrq)  BY <1>6, <1>7 DEF SavedInv
<1>9. /\ t' = [t EXCEPT ![current] = kept] /\ owed' = [owed EXCEPT ![current] = hist[c]["irq"]]
      /\ current' \in Procs
  BY DEF Interrupt
<1> HIDE DEF kept
<1>10. t' \in [Procs -> States] /\ \A p \in Procs : t'[p][STATUS] \in Levels
  <2>1. t \in [Procs -> States] /\ current \in Procs /\ \A p \in Procs : t[p][STATUS] \in Levels
    BY <1>1 DEF CtxTypeOK, CtxInv, LevelsOK
  <2> QED  BY <1>5, <1>9, <2>1
<1>11. owed' \in [Procs -> States]  BY <1>1, <1>9 DEF CtxTypeOK
<1>12. area \in States /\ area[STATUS] \in Levels  BY <1>9, <1>10
<1> HIDE DEF area
<1>13. /\ x' \in [Cores -> [GPRS -> Nat]]
      /\ sp' \in [Cores -> [el0 : Nat, el1 : Nat, el2 : Nat]]
      /\ pc' \in [Cores -> Nat] /\ ttbr0' \in [Cores -> Nat]
      /\ pstate' \in [Cores -> {User, Level1, Kernel}]
      /\ phase' \in [Cores -> {"run", "svc", "swi", "irq", "c_irq"}]
      /\ pstate'[c] = area[STATUS] /\ phase'[c] = "run" /\ sp'[c].el2 = StackEL2(c)
      /\ \A d \in Cores \ {c} : /\ x'[d] = x[d] /\ sp'[d] = sp[d] /\ ttbr0'[d] = ttbr0[d]
                                /\ pc'[d] = pc[d] /\ pstate'[d] = pstate[d]
                                /\ phase'[d] = phase[d]
  BY <1>1, <1>2, <1>4, <1>12, Loads
<1>14. /\ active' \in [Cores -> {<< >>, <<"sync">>, <<"irq">>, <<"sync", "irq">>, <<"called">>}]
      /\ active'[c] = << >>
       /\ \A d \in Cores \ {c} : active'[d] = active[d]
  <2>1. active \in [Cores -> {<< >>, <<"sync">>, <<"irq">>, <<"sync", "irq">>, <<"called">>}]
    BY <1>1 DEF CtxTypeOK
  <2>2. active' = [active EXCEPT ![c] = Tail(active[c])] /\ Tail(active[c]) = << >>
    BY <1>7, Stacks DEF Interrupt
  <2> QED  BY <1>1, <2>1, <2>2
<1>15. Apart(c)  BY <1>1, <1>3, <1>13, <1>14 DEF Apart
<1>16. CtxTypeOK'  BY <1>1, <1>3, <1>9, <1>10, <1>11, <1>13, <1>14, SMTT(30) DEF CtxTypeOK
<1>17. LevelsOK'  BY <1>3, <1>10 DEF CtxInv, LevelsOK
<1>18. << >> \notin {<<"sync">>, <<"sync", "irq">>, <<"irq">>, <<"called">>}  BY Stacks
<1>19. SavedInv(c)'  BY <1>13, <1>14, <1>18 DEF SavedInv
<1>20. NestingInv(c)'  BY <1>13, <1>14, <1>18 DEF NestingInv
<1>21. ProcessesKept'
  <2> SUFFICES ASSUME NEW p \in Procs \ {current'} PROVE Agree(t'[p], owed'[p], KeptByIrq)
    BY DEF ProcessesKept, Agree
  <2>1. t \in [Procs -> States] /\ owed \in [Procs -> States] /\ current \in Procs
    BY <1>1 DEF CtxTypeOK
  <2>2. CASE p = current
    <3>1. t'[p] = kept /\ owed'[p] = hist[c]["irq"]  BY <1>9, <2>1, <2>2
    <3> QED  BY <1>8, <3>1
  <2>3. CASE p # current
    <3>1. t'[p] = t[p] /\ owed'[p] = owed[p]  BY <1>9, <2>1, <2>3
    <3>2. Agree(t[p], owed[p], KeptByIrq)  BY <2>3 DEF CtxInv, ProcessesKept
    <3> QED  BY <3>1, <3>2
  <2> QED  BY <2>2, <2>3
<1> QED  BY <1>1, <1>13, <1>15, <1>16, <1>17, <1>19, <1>20, <1>21, CoreStep

LEMMA MainStep ==
    ASSUME CtxInv, Main
    PROVE  CtxInv'
<1> DEFINE c == Core0
           area == t[current]
<1>1. CtxTypeOK /\ c \in Cores /\ phase[c] = "run" /\ ~fiq /\ active[c] = << >>
  BY Numbers DEF CtxInv, Main, Executes
<1>2. LDST(c, area, sp[c].el2)  BY DEF Main
<1>3. /\ UNCHANGED <<elr, spsr, fiq, frames, oldarea, taken, before, hist>>
      /\ UNCHANGED <<active, t, current, owed>> /\ handlers' = TRUE
  BY DEF Main, banked
<1>4. StackEL2(c) \in Nat /\ sp[c].el2 = StackEL2(c)
  BY <1>1, Numbers DEF StackEL2, CtxInv, FiqInv
<1>5. area \in States /\ area[STATUS] \in Levels  BY <1>1 DEF CtxTypeOK, CtxInv, LevelsOK
<1> HIDE DEF area
<1>6. /\ x' \in [Cores -> [GPRS -> Nat]]
      /\ sp' \in [Cores -> [el0 : Nat, el1 : Nat, el2 : Nat]]
      /\ pc' \in [Cores -> Nat] /\ ttbr0' \in [Cores -> Nat]
      /\ pstate' \in [Cores -> {User, Level1, Kernel}]
      /\ phase' \in [Cores -> {"run", "svc", "swi", "irq", "c_irq"}]
      /\ pstate'[c] = area[STATUS] /\ phase'[c] = "run" /\ sp'[c].el2 = StackEL2(c)
      /\ \A d \in Cores \ {c} : /\ x'[d] = x[d] /\ sp'[d] = sp[d] /\ ttbr0'[d] = ttbr0[d]
                                /\ pc'[d] = pc[d] /\ pstate'[d] = pstate[d]
                                /\ phase'[d] = phase[d]
  BY <1>1, <1>2, <1>4, <1>5, Loads
<1>7. Apart(c)  BY <1>1, <1>3, <1>6 DEF Apart
<1>8. CtxTypeOK'  BY <1>1, <1>3, <1>6 DEF CtxTypeOK
<1>9. LevelsOK'  BY <1>3 DEF CtxInv, LevelsOK
<1>10. << >> \notin {<<"sync">>, <<"sync", "irq">>, <<"irq">>, <<"called">>}  BY Stacks
<1>11. SavedInv(c)'  BY <1>1, <1>3, <1>6, <1>10 DEF SavedInv
<1>12. NestingInv(c)'  BY <1>1, <1>3, <1>6, <1>10 DEF NestingInv
<1>13. ProcessesKept'  BY <1>3 DEF CtxInv, ProcessesKept, Agree
<1> QED  BY <1>1, <1>6, <1>7, <1>8, <1>9, <1>11, <1>12, <1>13, CoreStep

-----------------------------------------------------------------------------
(* FIQs *)

\* What is pushed are general purpose registers.
LEMMA PushedGPRS ==
    \A i \in 1 .. 16 : \A j \in DOMAIN PushOrder[i] : PushOrder[i][j] \in GPRS
<1> SUFFICES ASSUME NEW i \in 1 .. 16 PROVE \A j \in DOMAIN PopOrder[i] : PopOrder[i][j] \in GPRS
  <2>1. \A i \in 1 .. 16 : PushOrder[i] = PopOrder[17 - i]
    <3> SUFFICES ASSUME NEW i \in 1 .. 16 PROVE PushOrder[i] = PopOrder[17 - i]  OBVIOUS
    <3>1. 17 - i \in 1 .. 16 /\ 17 - (17 - i) = i  OBVIOUS
    <3>2. PopOrder[17 - i] = PushOrder[17 - (17 - i)]  BY <3>1, PopsReverse
    <3> QED  BY <3>1, <3>2
  <2>2. ASSUME NEW i \in 1 .. 16, NEW j \in DOMAIN PushOrder[i] PROVE PushOrder[i][j] \in GPRS
    <3>1. 17 - i \in 1 .. 16  OBVIOUS
    <3> QED  BY <2>1, <3>1
  <2> QED  BY <2>2
<1>1. CASE i = 1
  <2>1. PopOrder[i] = <<28>>  BY <1>1, PopsReverse
  <2> QED  BY <2>1 DEF GPRS
<1>2. CASE i = 16
  <2>1. PopOrder[i] = <<29, 30>>  BY <1>2, PopsReverse
  <2> QED  BY <2>1 DEF GPRS
<1>3. CASE i \in 2 .. 15
  <2>1. PICK m \in 1 .. 14 : i = 16 - m
    <3>1. 16 - i \in 1 .. 14 /\ i = 16 - (16 - i)  BY <1>3
    <3> QED  BY <3>1
  <2>2. PopOrder[i] = <<2 * m - 2, 2 * m - 1>>  BY <2>1, PopsReverse
  <2> QED  BY <2>2 DEF GPRS
<1> QED  BY <1>1, <1>2, <1>3

LEMMA SixteenFrames ==
    ASSUME NEW f, f = [i \in 1 .. 16 |-> f[i]]
    PROVE  Len(f) = 16 /\ DOMAIN f = 1 .. 16
<1> DEFINE S == {f[i] : i \in 1 .. 16}
<1>1. f \in [1 .. 16 -> S]  OBVIOUS
<1> HIDE DEF S
<1>2. f \in Seq(S)
  <2>1. 16 \in Nat  OBVIOUS
  <2> QED  BY <1>1, <2>1, SeqDef, Zenon
<1>3. DOMAIN f = 1 .. Len(f) /\ Len(f) \in Nat  BY <1>2, LenProperties
<1>4. DOMAIN f = 1 .. 16  BY <1>1
<1> QED  BY <1>3, <1>4

\* A FIQ leaves the state that exceptions to EL1 have saved, or still hold.
LEMMA FiqFrame ==
    ASSUME CtxInv, \A d \in Cores : Regs(d)' = Regs(d),
           \A d \in Cores : sp'[d].el0 = sp[d].el0 /\ sp'[d].el1 = sp[d].el1,
           UNCHANGED <<ttbr0, pc, pstate, banked, phase, oldarea, kernel_vars, taken, hist>>
    PROVE  /\ LevelsOK' /\ ProcessesKept'
           /\ \A c \in Cores : SavedInv(c)' /\ NestingInv(c)'
<1>1. /\ UNCHANGED <<ttbr0, pc, pstate, elr, spsr, phase, oldarea, hist>>
      /\ UNCHANGED <<handlers, active, t, current, owed>>
  BY DEF banked, kernel_vars
<1>2. LevelsOK' /\ ProcessesKept'  BY <1>1 DEF CtxInv, LevelsOK, ProcessesKept, Agree
<1>3. ASSUME NEW c \in Cores PROVE SavedInv(c)' /\ NestingInv(c)'
  <2>1. SavedInv(c) /\ NestingInv(c)  BY DEF CtxInv
  <2>2. StackOf(sp'[c], spsr'[c]) = StackOf(sp[c], spsr[c])  BY <1>1 DEF StackOf
  <2>3. Interrupted(c)' = Interrupted(c)  BY <1>1, <2>2, InterruptedAssembled
  <2>4. SavedInv(c)'  BY <1>1, <2>1, <2>3 DEF SavedInv, Agree
  <2>5. NestingInv(c)'  BY <1>1, <2>1 DEF NestingInv
  <2> QED  BY <2>4, <2>5
<1> QED  BY <1>2, <1>3

LEMMA FiqStep ==
    ASSUME CtxInv, Fiq
    PROVE  CtxInv'
<1>1. CtxTypeOK /\ Core0 \in Cores /\ ~fiq /\ phase[Core0] # "swi" /\ fiq' = TRUE
  BY Numbers DEF CtxInv, Fiq
<1>2. /\ UNCHANGED <<ttbr0, pc, pstate, elr, spsr, phase, oldarea, taken, hist>>
      /\ UNCHANGED <<handlers, active, t, current, owed>>
  BY DEF Fiq, banked, kernel_vars
<1>3. /\ before' = StateOf(Core0) /\ before' \in States
      /\ \A k \in GPRS : before'[k] = x[Core0][k]
  BY <1>1, StateTyped, StateAssembled, AssembledWords DEF Fiq
<1>4. /\ x' \in [Cores -> [GPRS -> Nat]]
      /\ \A d \in Cores \ {Core0} : x'[d] = x[d]
  <2>1. [k \in GPRS |-> Junk] \in [GPRS -> Nat]  BY DEF Junk
  <2>2. x \in [Cores -> [GPRS -> Nat]] /\ x' = [x EXCEPT ![Core0] = [k \in GPRS |-> Junk]]
    BY <1>1 DEF CtxTypeOK, Fiq
  <2> QED  BY <2>1, <2>2
<1>5. /\ sp' \in [Cores -> [el0 : Nat, el1 : Nat, el2 : Nat]]
      /\ sp'[Core0].el2 = StackEL2(Core0) - 16 * Len(PushOrder)
      /\ \A d \in Cores : sp'[d].el0 = sp[d].el0 /\ sp'[d].el1 = sp[d].el1
      /\ \A d \in Cores \ {Core0} : sp'[d] = sp[d]
  <2> DEFINE top == StackEL2(Core0) - 16 * Len(PushOrder)
  <2>1. sp[Core0].el2 = StackEL2(Core0)  BY <1>1 DEF CtxInv, FiqInv
  <2>2. sp' = [sp EXCEPT ![Core0] = [@ EXCEPT !.el2 = sp[Core0].el2 - 16 * Len(PushOrder)]]
    BY DEF Fiq
  <2>3. top \in Nat  BY PopsReverse, Numbers DEF StackEL2
  <2>4. sp' = [sp EXCEPT ![Core0] = [@ EXCEPT !.el2 = top]]  BY <2>1, <2>2
  <2> HIDE DEF top
  <2>5. sp \in [Cores -> [el0 : Nat, el1 : Nat, el2 : Nat]]  BY <1>1 DEF CtxTypeOK
  <2>6. /\ sp' \in [Cores -> [el0 : Nat, el1 : Nat, el2 : Nat]] /\ sp'[Core0].el2 = top
        /\ \A d \in Cores : sp'[d].el0 = sp[d].el0 /\ sp'[d].el1 = sp[d].el1
        /\ \A d \in Cores \ {Core0} : sp'[d] = sp[d]
    BY <1>1, <2>3, <2>4, <2>5
  <2> QED  BY <2>6 DEF top
<1>6. /\ frames' = [i \in DOMAIN PushOrder |->
                       [j \in DOMAIN PushOrder[i] |-> before'[PushOrder[i][j]]]]
      /\ Len(frames') = 16
  <2>1. DOMAIN PushOrder = 1 .. 16  BY PopsReverse
  <2>2. frames' = [i \in 1 .. 16 |-> [j \in DOMAIN PushOrder[i] |-> x[Core0][PushOrder[i][j]]]]
    BY <2>1 DEF Fiq
  <2>3. \A i \in 1 .. 16 : \A j \in DOMAIN PushOrder[i] :
            x[Core0][PushOrder[i][j]] = before'[PushOrder[i][j]]
    BY <1>3, PushedGPRS
  <2>4. frames' = [i \in 1 .. 16 |-> [j \in DOMAIN PushOrder[i] |-> before'[PushOrder[i][j]]]]
    BY <2>2, <2>3
  <2>5. frames' = [i \in 1 .. 16 |-> frames'[i]]  BY <2>2
  <2> QED  BY <2>1, <2>4, <2>5, SixteenFrames
<1>7. CtxTypeOK'  BY <1>1, <1>2, <1>3, <1>4, <1>5, <1>6 DEF CtxTypeOK
<1>8. FiqInv'
  <2>1. StackOf(sp'[Core0], pstate'[Core0]) = StackOf(sp[Core0], pstate[Core0])
    BY <1>1, <1>2, <1>5 DEF StackOf
  <2>2. \A k \in Words \ GPRS : StateOf(Core0)'[k] = before'[k]
    <3> DEFINE s == StateOf(Core0)'
               u == StateOf(Core0)
    <3>1. /\ s[SP] = u[SP] /\ s[ELR] = u[ELR] /\ s[TTBR0] = u[TTBR0] /\ s[STATUS] = u[STATUS]
      BY <1>2, <2>1, StateAssembled, AssembledWords
    <3> HIDE DEF s, u
    <3>2. \A k \in Words \ GPRS : s[k] = u[k]  BY <3>1, WordNumbers
    <3> QED  BY <1>3, <3>2 DEF s, u
  <2>3. \A d \in Cores : (d = Core0 /\ fiq') \/ sp'[d].el2 = StackEL2(d)
    BY <1>1, <1>5 DEF CtxInv, FiqInv
  <2> QED  BY <1>1, <1>2, <1>5, <1>6, <2>2, <2>3 DEF FiqInv
<1>9. \A d \in Cores : Regs(d)' = Regs(d)
  <2>1. x[Core0] = [k \in GPRS |-> x[Core0][k]]  BY <1>1 DEF CtxTypeOK
  <2>2. [k \in GPRS |-> before'[k]] = x[Core0]  BY <1>3, <2>1
  <2> QED  BY <1>1, <1>4, <2>2 DEF Regs
<1>10. LevelsOK' /\ ProcessesKept' /\ \A c \in Cores : SavedInv(c)' /\ NestingInv(c)'
  <2>1. UNCHANGED <<ttbr0, pc, pstate, banked, phase, oldarea, kernel_vars, taken, hist>>
    BY DEF Fiq
  <2> QED  BY <1>5, <1>9, <2>1, FiqFrame
<1> QED  BY <1>7, <1>8, <1>10 DEF CtxInv

\* The end of fiq_handler_el2 gives back every register, and the stack.
LEMMA FiqRestores ==
    ASSUME CtxInv, FiqReturn
    PROVE  /\ x' = [x EXCEPT ![Core0] = [k \in GPRS |-> before[k]]]
           /\ sp' = [sp EXCEPT ![Core0] = [@ EXCEPT !.el2 = StackEL2(Core0)]]
<1>1. /\ fiq /\ sp[Core0].el2 = StackEL2(Core0) - 16 * Len(PushOrder)
      /\ frames = [i \in DOMAIN PushOrder |->
                      [j \in DOMAIN PushOrder[i] |-> before[PushOrder[i][j]]]]
  BY DEF CtxInv, FiqInv, FiqReturn
<1>2. Len(frames) = 16 /\ DOMAIN frames = 1 .. 16
  BY <1>1, PopsReverse DEF CtxInv, CtxTypeOK
<1>3. \A i \in 1 .. 16 : Reversed(frames)[i] = frames[17 - i]  BY <1>2 DEF Reversed
<1>4. ASSUME NEW i \in 1 .. 16, NEW j \in DOMAIN PopOrder[i]
      PROVE  Reversed(frames)[i][j] = before[PopOrder[i][j]]
  <2>1. 17 - i \in 1 .. 16 /\ 17 - i \in DOMAIN PushOrder  BY PopsReverse
  <2>2. PopOrder[i] = PushOrder[17 - i]  BY PopsReverse
  <2>3. frames[17 - i] = [l \in DOMAIN PushOrder[17 - i] |-> before[PushOrder[17 - i][l]]]
    BY <1>1, <2>1
  <2> QED  BY <1>3, <2>2, <2>3
<1> DEFINE Holds(ij, k) == /\ ij[1] \in DOMAIN PopOrder /\ ij[2] \in DOMAIN PopOrder[ij[1]]
                           /\ PopOrder[ij[1]][ij[2]] = k
           At(k) == CHOOSE ij \in (1 .. 16) \X (1 .. 2) : Holds(ij, k)
<1>5. ASSUME NEW k \in GPRS PROVE Reversed(frames)[At(k)[1]][At(k)[2]] = before[k]
  <2>1. \E ij \in (1 .. 16) \X (1 .. 2) : Holds(ij, k)
    <3>1. PICK i \in 1 .. 16, j \in 1 .. 2 : j \in DOMAIN PopOrder[i] /\ PopOrder[i][j] = k
      BY PopsAll
    <3>2. <<i, j>> \in (1 .. 16) \X (1 .. 2) /\ Holds(<<i, j>>, k)  BY <3>1, PopsReverse
    <3> QED  BY <3>2
  <2> HIDE DEF Holds
  <2>2. At(k) \in (1 .. 16) \X (1 .. 2) /\ Holds(At(k), k)  BY <2>1
  <2> USE DEF Holds
  <2> HIDE DEF At
  <2>3. At(k)[1] \in 1 .. 16 /\ At(k)[2] \in DOMAIN PopOrder[At(k)[1]]
        /\ PopOrder[At(k)[1]][At(k)[2]] = k
    BY <2>2, PopsReverse
  <2> QED  BY <1>4, <2>3
<1>6. x' = [x EXCEPT ![Core0] = [k \in GPRS |-> Reversed(frames)[At(k)[1]][At(k)[2]]]]
  BY DEF FiqReturn
<1>7. [k \in GPRS |-> Reversed(frames)[At(k)[1]][At(k)[2]]] = [k \in GPRS |-> before[k]]
  <2> HIDE DEF At
  <2> QED  BY <1>5
<1>8. sp[Core0].el2 + 16 * Len(PopOrder) = StackEL2(Core0)
  BY <1>1, PopsReverse, Numbers DEF StackEL2
<1>9. sp' = [sp EXCEPT ![Core0] = [@ EXCEPT !.el2 = sp[Core0].el2 + 16 * Len(PopOrder)]]
  BY DEF FiqReturn
<1> HIDE DEF At
<1> QED  BY <1>6, <1>7, <1>8, <1>9

LEMMA FiqReturnStep ==
    ASSUME CtxInv, FiqReturn
    PROVE  CtxInv'
<1>1. CtxTypeOK /\ Core0 \in Cores /\ fiq /\ fiq' = FALSE
  BY Numbers DEF CtxInv, FiqReturn
<1>2. /\ UNCHANGED <<ttbr0, pc, pstate, elr, spsr, phase, oldarea, taken, hist, before>>
      /\ UNCHANGED <<handlers, active, t, current, owed>>
  BY DEF FiqReturn, banked, kernel_vars
<1>3. /\ x' = [x EXCEPT ![Core0] = [k \in GPRS |-> before[k]]]
      /\ sp' = [sp EXCEPT ![Core0] = [@ EXCEPT !.el2 = StackEL2(Core0)]]
  BY FiqRestores
<1>4. /\ x' \in [Cores -> [GPRS -> Nat]] /\ x'[Core0] = [k \in GPRS |-> before[k]]
      /\ \A d \in Cores \ {Core0} : x'[d] = x[d]
  <2>1. [k \in GPRS |-> before[k]] \in [GPRS -> Nat]
    BY <1>1, WordNumbers DEF CtxTypeOK, States
  <2> QED  BY <1>1, <1>3, <2>1 DEF CtxTypeOK
<1>5. /\ sp' \in [Cores -> [el0 : Nat, el1 : Nat, el2 : Nat]]
      /\ sp'[Core0].el2 = StackEL2(Core0)
      /\ \A d \in Cores : sp'[d].el0 = sp[d].el0 /\ sp'[d].el1 = sp[d].el1
      /\ \A d \in Cores \ {Core0} : sp'[d] = sp[d]
  <2>1. StackEL2(Core0) \in Nat  BY Numbers DEF StackEL2
  <2> HIDE DEF StackEL2
  <2>2. sp \in [Cores -> [el0 : Nat, el1 : Nat, el2 : Nat]]  BY <1>1 DEF CtxTypeOK
  <2> QED  BY <1>1, <1>3, <2>1, <2>2
<1>6. CtxTypeOK'
  <2>1. Len(frames') = 0  BY DEF FiqReturn
  <2> QED  BY <1>1, <1>2, <1>4, <1>5, <2>1 DEF CtxTypeOK
<1>7. FiqInv'
  <2>1. \A d \in Cores : sp'[d].el2 = StackEL2(d)  BY <1>5 DEF CtxInv, FiqInv
  <2> QED  BY <1>1, <2>1 DEF FiqInv
<1>8. \A d \in Cores : Regs(d)' = Regs(d)  BY <1>1, <1>4 DEF Regs
<1>9. LevelsOK' /\ ProcessesKept' /\ \A c \in Cores : SavedInv(c)' /\ NestingInv(c)'
  <2>1. UNCHANGED <<ttbr0, pc, pstate, banked, phase, oldarea, kernel_vars, taken, hist>>
    BY DEF FiqReturn
  <2> QED  BY <1>5, <1>8, <2>1, FiqFrame
<1> QED  BY <1>6, <1>7, <1>9 DEF CtxInv

-----------------------------------------------------------------------------
(* The theorems *)

\* There is a last process, which runs first.
LEMMA LastProcess == \E p \in Procs : \A q \in Procs : q <= p
<1> SUFFICES ASSUME \A p \in Procs : \E q \in Procs : ~(q <= p) PROVE FALSE
  OBVIOUS
<1>1. Procs \subseteq 1 .. 9 /\ Procs # {}  BY Numbers
<1>2. 9 \notin Procs  BY <1>1
<1>3. 8 \notin Procs  BY <1>1, <1>2
<1>4. 7 \notin Procs  BY <1>1, <1>2, <1>3
<1>5. 6 \notin Procs  BY <1>1, <1>2, <1>3, <1>4
<1>6. 5 \notin Procs  BY <1>1, <1>2, <1>3, <1>4, <1>5
<1>7. 4 \notin Procs  BY <1>1, <1>2, <1>3, <1>4, <1>5, <1>6
<1>8. 3 \notin Procs  BY <1>1, <1>2, <1>3, <1>4, <1>5, <1>6, <1>7
<1>9. 2 \notin Procs  BY <1>1, <1>2, <1>3, <1>4, <1>5, <1>6, <1>7, <1>8
<1>10. 1 \notin Procs  BY <1>1, <1>2, <1>3, <1>4, <1>5, <1>6, <1>7, <1>8, <1>9
<1>11. \A p \in Procs : p \in {1, 2, 3, 4, 5, 6, 7, 8, 9}  BY <1>1
<1> QED
  BY <1>1, <1>2, <1>3, <1>4, <1>5, <1>6, <1>7, <1>8, <1>9, <1>10, <1>11

LEMMA HomeTyped ==
    ASSUME NEW i \in Nat, NEW status \in Levels
    PROVE  /\ Home(i, status) \in States
           /\ Home(i, status)[STATUS] = status
           /\ \A k \in Words : Home(i, status)[k] \in Nat
<1>1. status \in Nat  BY DEF Levels, User, Level1, Kernel
<1>2. \A k \in Words : 100 * i + k \in Nat  BY DEF Words
<1>3. \A k \in Words : Home(i, status)[k] \in Nat  BY <1>1, <1>2 DEF Home
<1>4. Home(i, status) \in States  BY <1>1, <1>2 DEF Home, States
<1>5. Home(i, status)[STATUS] = status  BY WordNumbers DEF Home
<1> QED  BY <1>3, <1>4, <1>5

LEMMA CtxInitially ==
    ASSUME CtxInit
    PROVE  CtxInv
<1>1. \A c \in Cores : Bios(c) \in States /\ \A k \in Words : Bios(c)[k] \in Nat
  <2> SUFFICES ASSUME NEW c \in Cores
               PROVE  Bios(c) \in States /\ \A k \in Words : Bios(c)[k] \in Nat
    OBVIOUS
  <2>1. c + 1 \in Nat /\ Level1 \in Levels  BY Numbers DEF Levels
  <2> QED  BY <2>1, HomeTyped DEF Bios
<1>2. \A p \in Procs : Process(p) \in States /\ Process(p)[STATUS] = User
  <2> SUFFICES ASSUME NEW p \in Procs PROVE Process(p) \in States /\ Process(p)[STATUS] = User
    OBVIOUS
  <2>1. p + 10 \in Nat /\ User \in Levels  BY Numbers DEF Levels
  <2> QED  BY <2>1, HomeTyped DEF Process
<1> DEFINE blank == [k \in Words |-> Junk]
<1>3. blank \in States /\ blank[STATUS] = User  BY WordNumbers DEF States, Junk, User
<1>4. \A c \in Cores : StackEL2(c) \in Nat  BY Numbers DEF StackEL2
<1>5. fiq = FALSE /\ handlers = FALSE /\ taken = 0  BY DEF CtxInit
<1>6. CtxTypeOK
  <2>1. x \in [Cores -> [GPRS -> Nat]]  BY <1>1, WordNumbers DEF CtxInit
  <2>2. sp \in [Cores -> [el0 : Nat, el1 : Nat, el2 : Nat]]
    <3>1. Junk \in Nat /\ \A c \in Cores : Bios(c)[SP] \in Nat  BY <1>1, WordNumbers DEF Junk
    <3>2. sp = [c \in Cores |-> [el0 |-> Junk, el1 |-> Bios(c)[SP], el2 |-> StackEL2(c)]]
      BY DEF CtxInit
    <3> QED  BY <1>4, <3>1, <3>2
  <2>3. ttbr0 \in [Cores -> Nat] /\ pc \in [Cores -> Nat] /\ elr \in [Cores -> Nat]
    <3>1. Junk \in Nat /\ \A c \in Cores : Bios(c)[TTBR0] \in Nat /\ Bios(c)[ELR] \in Nat
      BY <1>1, WordNumbers DEF Junk
    <3> QED  BY <3>1 DEF CtxInit
  <2>4. /\ {pstate, spsr} \subseteq [Cores -> {User, Level1, Kernel}]
        /\ phase \in [Cores -> {"run", "svc", "swi", "irq", "c_irq"}]
    BY DEF CtxInit
  <2>5. Len(frames) = 0  BY DEF CtxInit
  <2>6. active \in [Cores -> {<< >>, <<"sync">>, <<"irq">>, <<"sync", "irq">>, <<"called">>}]
    BY DEF CtxInit
  <2>7. {oldarea, hist} \subseteq [Cores -> [{"irq", "sync"} -> States]]
    <3>1. /\ oldarea = [c \in Cores |-> [kind \in {"irq", "sync"} |-> blank]]
          /\ hist = [c \in Cores |-> [kind \in {"irq", "sync"} |-> blank]]
      BY DEF CtxInit
    <3> HIDE DEF blank
    <3> QED  BY <1>3, <3>1
  <2>8. {t, owed} \subseteq [Procs -> States]
    <3>1. t = [p \in Procs |-> Process(p)] /\ owed = [p \in Procs |-> Process(p)]
      BY DEF CtxInit
    <3> QED  BY <1>2, <3>1
  <2>9. current \in Procs  BY LastProcess DEF CtxInit
  <2>10. taken \in 0 .. MaxTaken  BY <1>5, Numbers
  <2>11. before \in States  BY <1>1, Numbers DEF CtxInit
  <2> QED
    BY <1>5, <2>1, <2>2, <2>3, <2>4, <2>5, <2>6, <2>7, <2>8, <2>9, <2>10, <2>11 DEF CtxTypeOK
<1>7. LevelsOK
  <2>1. \A c \in Cores : \A kind \in {"irq", "sync"} : oldarea[c][kind] = blank  BY DEF CtxInit
  <2>2. \A p \in Procs : t[p] = Process(p)  BY DEF CtxInit
  <2> HIDE DEF blank
  <2> QED  BY <1>2, <1>3, <2>1, <2>2 DEF LevelsOK, Levels
<1>8. FiqInv
  <2>1. \A c \in Cores : sp[c].el2 = StackEL2(c)  BY DEF CtxInit
  <2> QED  BY <1>5, <2>1 DEF FiqInv
<1>9. ASSUME NEW c \in Cores PROVE SavedInv(c) /\ NestingInv(c)
  <2>1. phase[c] = "run" /\ active[c] = << >>  BY DEF CtxInit
  <2>2. << >> \notin {<<"sync">>, <<"sync", "irq">>, <<"irq">>, <<"called">>}  BY Stacks
  <2> QED  BY <2>1, <2>2 DEF SavedInv, NestingInv
<1>10. ProcessesKept
  <2>1. t = owed  BY DEF CtxInit
  <2> QED  BY <2>1 DEF ProcessesKept, Agree
<1> QED  BY <1>6, <1>7, <1>8, <1>9, <1>10 DEF CtxInv

LEMMA CtxStep ==
    ASSUME CtxInv, [CtxNext]_ctx_vars
    PROVE  CtxInv'
<1>1. CASE UNCHANGED ctx_vars
  <2>1. /\ UNCHANGED <<x, sp, ttbr0, pc, pstate, elr, spsr, phase, fiq, frames>>
        /\ UNCHANGED <<handlers, active, oldarea, t, current, taken, before, hist, owed>>
    BY <1>1 DEF ctx_vars, cpu, banked, kernel_vars
  <2>2. CtxTypeOK' /\ LevelsOK' /\ ProcessesKept'
    BY <2>1 DEF CtxInv, CtxTypeOK, LevelsOK, ProcessesKept, Agree
  <2>3. \A c \in Cores : Regs(c)' = Regs(c)  BY <2>1 DEF Regs
  <2>4. \A c \in Cores : SavedInv(c)' /\ NestingInv(c)'
    BY <2>1, <2>3, FiqFrame DEF banked, kernel_vars
  <2>5. FiqInv'
    <3>1. StateOf(Core0)' = StateOf(Core0)  BY <2>1, StateAssembled
    <3> QED  BY <2>1, <3>1 DEF CtxInv, FiqInv
  <2> QED  BY <2>2, <2>4, <2>5 DEF CtxInv
<1>2. ASSUME NEW c \in Cores, Svc(c) PROVE CtxInv'  BY <1>2, SvcStep
<1>3. ASSUME NEW c \in Cores, Hvc(c) PROVE CtxInv'  BY <1>3, HvcStep
<1>4. ASSUME NEW c \in Cores, c_swi_handler(c) PROVE CtxInv'
  BY <1>4, SwiEnterStep, SwiResumeStep
<1>5. ASSUME NEW c \in Cores, Irq(c) PROVE CtxInv'  BY <1>5, IrqStep
<1>6. ASSUME NEW c \in Cores, IrqSave(c) PROVE CtxInv'  BY <1>6, IrqSaveStep
<1>7. ASSUME NEW c \in Cores, c_irq_handler(c) PROVE CtxInv'
  <2>1. IrqEnters(c) \/ IrqResumes(c)  BY <1>7 DEF c_irq_handler, IrqEnters, IrqResumes
  <2> QED  BY <2>1, IrqEnterStep, IrqResumeStep
<1>8. ASSUME NEW c \in Cores, Synchronous(c) PROVE CtxInv'  BY <1>8, SynchronousStep
<1>9. ASSUME NEW c \in Cores, InterruptOther(c) PROVE CtxInv'  BY <1>9, InterruptOtherStep
<1>10. CASE Fiq  BY <1>10, FiqStep
<1>11. CASE FiqReturn  BY <1>11, FiqReturnStep
<1>12. CASE Main  BY <1>12, MainStep
<1>13. CASE Interrupt  BY <1>13, InterruptStep
<1> QED
  BY <1>1, <1>2, <1>3, <1>4, <1>5, <1>6, <1>7, <1>8, <1>9, <1>10, <1>11, <1>12, <1>13 DEF CtxNext

\* The inductive invariant holds in every state.
THEOREM CtxInvariant == CtxSpec => []CtxInv
<1> QED  BY CtxInitially, CtxStep, PTL DEF CtxSpec

\* Registers, stacks, old areas and the kernel's nesting of handlers are always of
\* their types: at most an interrupt and a system call of it are served on a core.
THEOREM ContextTyped == CtxSpec => []CtxTypeOK
<1>1. CtxInv => CtxTypeOK  BY DEF CtxInv
<1> QED  BY <1>1, CtxInvariant, PTL

\* While the kernel serves a system call, the old area holds the complete state of
\* the caller: swi_handler_el2 has stored what syncronous_exception was called with,
\* whatever FIQs came in between.
THEOREM SyscallStateSaved == CtxSpec => []SyscallSaved
<1>1. CtxInv => SyscallSaved
  <2> SUFFICES ASSUME CtxInv, NEW c \in Cores, active[c] # << >>, Head(active[c]) = "sync"
               PROVE  oldarea[c]["sync"] = hist[c]["sync"]
    BY DEF SyscallSaved
  <2>1. active[c] \in {<< >>, <<"sync">>, <<"irq">>, <<"sync", "irq">>, <<"called">>}
    BY DEF CtxInv, CtxTypeOK
  <2>2. active[c] \in {<<"sync">>, <<"sync", "irq">>}  BY <2>1, Stacks
  <2>3. SavedInv(c)  BY DEF CtxInv
  <2> QED  BY <2>2, <2>3 DEF SavedInv
<1> QED  BY <1>1, CtxInvariant, PTL

\* While the kernel serves an interrupt, the old area of irq_handler agrees with
\* what was interrupted on every word that the build does not give up.
THEOREM InterruptStateSaved == CtxSpec => []InterruptSaved
<1>1. CtxInv => InterruptSaved
  <2> SUFFICES ASSUME CtxInv, NEW c \in Cores, active[c] # << >>, active[c] # <<"sync">>
               PROVE  Agree(oldarea[c]["irq"], hist[c]["irq"], KeptByIrq)
    BY DEF InterruptSaved
  <2>1. active[c] \in {<< >>, <<"sync">>, <<"irq">>, <<"sync", "irq">>, <<"called">>}
    BY DEF CtxInv, CtxTypeOK
  <2>2. active[c] \in {<<"irq">>, <<"sync", "irq">>, <<"called">>}  BY <2>1
  <2>3. SavedInv(c)  BY DEF CtxInv
  <2> QED  BY <2>2, <2>3 DEF SavedInv
<1> QED  BY <1>1, CtxInvariant, PTL

\* The kernel keeps a process that does not run as it was preempted, over any
\* number of switches, system calls, interrupts and FIQs, for any number of cores
\* and processes.
THEOREM ProcessesAreKept == CtxSpec => []ProcessesKept
<1>1. CtxInv => ProcessesKept  BY DEF CtxInv
<1> QED  BY <1>1, CtxInvariant, PTL

\* A FIQ is invisible to what it interrupts: fiq_handler_el2 gives back every
\* register, in the reverse of the order in which it pushed them, and the stack.
THEOREM FiqIsTransparent == CtxSpec => FiqTransparent
<1>1. CtxInv /\ [CtxNext]_ctx_vars =>
          [fiq /\ ~fiq' => /\ StateOf(Core0)' = before
                           /\ sp'[Core0].el2 = StackEL2(Core0)]_ctx_vars
  <2> SUFFICES ASSUME CtxInv, CtxNext, fiq, ~fiq'
               PROVE  StateOf(Core0)' = before /\ sp'[Core0].el2 = StackEL2(Core0)
    OBVIOUS
  <2>1. FiqReturn
    BY DEF CtxNext, Svc, Hvc, c_swi_handler, Irq, IrqSave, c_irq_handler, Synchronous,
           InterruptOther, Fiq, Main, Interrupt
  <2>2. /\ x' = [x EXCEPT ![Core0] = [k \in GPRS |-> before[k]]]
        /\ sp' = [sp EXCEPT ![Core0] = [@ EXCEPT !.el2 = StackEL2(Core0)]]
    BY <2>1, FiqRestores
  <2>3. CtxTypeOK /\ Core0 \in Cores /\ UNCHANGED <<ttbr0, pc, pstate>>
    BY <2>1, Numbers DEF CtxInv, FiqReturn
  <2>4. x'[Core0] = [k \in GPRS |-> before[k]]  BY <2>2, <2>3 DEF CtxTypeOK
  <2>5. /\ sp'[Core0].el0 = sp[Core0].el0 /\ sp'[Core0].el1 = sp[Core0].el1
        /\ sp'[Core0].el2 = StackEL2(Core0)
    <3> HIDE DEF StackEL2
    <3>1. sp \in [Cores -> [el0 : Nat, el1 : Nat, el2 : Nat]]  BY <2>3 DEF CtxTypeOK
    <3> QED  BY <2>2, <2>3, <3>1
  <2>6. StackOf(sp'[Core0], pstate'[Core0]) = StackOf(sp[Core0], pstate[Core0])
    BY <2>3, <2>5 DEF StackOf
  <2> DEFINE s == StateOf(Core0)'
             u == StateOf(Core0)
  <2>7. /\ s = [k \in Words |-> s[k]]
        /\ \A k \in GPRS : s[k] = before[k]
        /\ s[SP] = u[SP] /\ s[ELR] = u[ELR] /\ s[TTBR0] = u[TTBR0] /\ s[STATUS] = u[STATUS]
    BY <2>3, <2>4, <2>6, StateAssembled, AssembledWords
  <2>8. \A k \in Words \ GPRS : u[k] = before[k]  BY DEF CtxInv, FiqInv
  <2>9. before = [k \in Words |-> before[k]]  BY <2>3 DEF CtxTypeOK, States
  <2> HIDE DEF s, u
  <2>10. \A k \in Words : s[k] = before[k]  BY <2>7, <2>8, WordNumbers
  <2>11. s = before  BY <2>7, <2>9, <2>10
  <2> QED  BY <2>5, <2>11 DEF s
<1>2. CtxSpec => [][CtxNext]_ctx_vars  BY DEF CtxSpec
<1> QED  BY <1>1, <1>2, CtxInvariant, PTL DEF FiqTransparent
=============================================================================
