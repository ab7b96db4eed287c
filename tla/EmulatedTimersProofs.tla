------------------------ MODULE EmulatedTimersProofs ------------------------
(***************************************************************************)
(* Proofs about EmulatedTimers, for any number of timer blocks and devices *)
(* with at least as many blocks as devices.                                 *)
(***************************************************************************)
EXTENDS EmulatedTimers, FiniteSetTheorems, TLAPS

\* list_del of a node: the list is one shorter, the nodes after it move up.
LEMMA DelProperties ==
    ASSUME NEW S, NEW s \in Seq(S), NEW i \in 1..Len(s)
    PROVE  /\ list_del(s, i) \in Seq(S)
           /\ Len(list_del(s, i)) = Len(s) - 1
           /\ DOMAIN list_del(s, i) = 1..(Len(s) - 1)
           /\ \A j \in 1..(Len(s) - 1) :
                  list_del(s, i)[j] = IF j < i THEN s[j] ELSE s[j + 1]
BY DEF list_del

\* list_add at a position: the list is one longer, the nodes there move down.
LEMMA AddProperties ==
    ASSUME NEW S, NEW s \in Seq(S), NEW i \in 1..(Len(s) + 1), NEW e \in S
    PROVE  /\ list_add(s, i, e) \in Seq(S)
           /\ Len(list_add(s, i, e)) = Len(s) + 1
           /\ DOMAIN list_add(s, i, e) = 1..(Len(s) + 1)
           /\ \A j \in 1..(Len(s) + 1) :
                  list_add(s, i, e)[j] = IF j < i THEN s[j]
                                         ELSE IF j = i THEN e ELSE s[j - 1]
BY DEF list_add

\* list_add_tail: the list is one longer, the nodes stay where they are.
LEMMA TailProperties ==
    ASSUME NEW S, NEW s \in Seq(S), NEW e \in S
    PROVE  /\ list_add_tail(s, e) \in Seq(S)
           /\ Len(list_add_tail(s, e)) = Len(s) + 1
           /\ DOMAIN list_add_tail(s, e) = 1..(Len(s) + 1)
           /\ \A j \in 1..(Len(s) + 1) :
                  list_add_tail(s, e)[j] = IF j = Len(s) + 1 THEN e ELSE s[j]
BY DEF list_add_tail

\* No node is linked twice.
Injective(s) == \A i, j \in DOMAIN s : s[i] = s[j] => i = j

\* Unlinking a node of a list removes it and no other.
LEMMA DelLinked ==
    ASSUME NEW S, NEW s \in Seq(S), NEW i \in 1..Len(s), Injective(s)
    PROVE  /\ Injective(list_del(s, i))
           /\ \A b : Linked(list_del(s, i), b) <=> Linked(s, b) /\ b # s[i]
<1> DEFINE t == list_del(s, i)
<1>1. /\ DOMAIN t = 1..(Len(s) - 1)
      /\ \A j \in 1..(Len(s) - 1) : t[j] = IF j < i THEN s[j] ELSE s[j + 1]
    BY DelProperties
<1>2. DOMAIN s = 1..Len(s) /\ Len(s) \in Nat
    OBVIOUS
<1> HIDE DEF t
<1>3. Injective(t)
  <2> SUFFICES ASSUME NEW j \in 1..(Len(s) - 1), NEW k \in 1..(Len(s) - 1), t[j] = t[k]
               PROVE  j = k
    BY <1>1 DEF Injective
  <2>1. \A a, c \in 1..Len(s) : s[a] = s[c] => a = c
    BY <1>2 DEF Injective
  <2> DEFINE old(m) == IF m < i THEN m ELSE m + 1
  <2>2. \A m \in 1..(Len(s) - 1) : old(m) \in 1..Len(s) /\ t[m] = s[old(m)]
    BY <1>1, <1>2
  <2>3. s[old(j)] = s[old(k)] /\ old(j) \in 1..Len(s) /\ old(k) \in 1..Len(s)
    BY <2>2
  <2>4. old(j) = old(k)
    <3> HIDE DEF old
    <3> QED BY <2>1, <2>3
  <2> QED
    BY <2>4
<1>4. ASSUME NEW b, Linked(t, b) PROVE Linked(s, b) /\ b # s[i]
    BY <1>1, <1>2, <1>4 DEF Linked, Injective
<1>5. ASSUME NEW b, Linked(s, b), b # s[i] PROVE Linked(t, b)
  <2>1. PICK j \in 1..Len(s) : s[j] = b
    BY <1>2, <1>5 DEF Linked
  <2>2. CASE j < i
    BY <1>1, <1>2, <2>1, <2>2 DEF Linked
  <2>3. CASE j > i
    <3>1. j - 1 \in 1..(Len(s) - 1) /\ t[j - 1] = s[j]
        BY <1>1, <1>2, <2>1, <2>3
    <3> QED
        BY <1>1, <2>1, <3>1 DEF Linked
  <2> QED
    BY <1>2, <1>5, <2>1, <2>2, <2>3
<1> QED
    BY <1>3, <1>4, <1>5 DEF t

\* Linking a new node adds it and no other.
LEMMA AddLinked ==
    ASSUME NEW S, NEW s \in Seq(S), NEW i \in 1..(Len(s) + 1), NEW e \in S,
           Injective(s), ~Linked(s, e)
    PROVE  /\ Injective(list_add(s, i, e))
           /\ \A b : Linked(list_add(s, i, e), b) <=> Linked(s, b) \/ b = e
<1> DEFINE t == list_add(s, i, e)
<1>1. /\ DOMAIN t = 1..(Len(s) + 1)
      /\ \A j \in 1..(Len(s) + 1) :
             t[j] = IF j < i THEN s[j] ELSE IF j = i THEN e ELSE s[j - 1]
    BY AddProperties
<1>2. DOMAIN s = 1..Len(s) /\ Len(s) \in Nat
    OBVIOUS
<1> HIDE DEF t
<1>3. Injective(t)
  <2> SUFFICES ASSUME NEW j \in 1..(Len(s) + 1), NEW k \in 1..(Len(s) + 1), t[j] = t[k]
               PROVE  j = k
    BY <1>1 DEF Injective
  <2>1. \A a, c \in 1..Len(s) : s[a] = s[c] => a = c
    BY <1>2 DEF Injective
  <2>2. \A a \in 1..Len(s) : s[a] # e
    BY <1>2 DEF Linked
  <2> DEFINE old(m) == IF m < i THEN m ELSE m - 1
  <2>3. \A m \in 1..(Len(s) + 1) :
            IF m = i THEN t[m] = e
            ELSE old(m) \in 1..Len(s) /\ t[m] = s[old(m)]
    BY <1>1, <1>2
  <2>4. CASE j = i \/ k = i
    <3> HIDE DEF old
    <3> QED BY <2>2, <2>3, <2>4
  <2>5. CASE j # i /\ k # i
    <3>1. old(j) = old(k)
      <4> HIDE DEF old
      <4> QED BY <2>1, <2>3, <2>5
    <3> QED
        BY <2>5, <3>1
  <2> QED
    BY <2>4, <2>5
<1>4. ASSUME NEW b, Linked(t, b) PROVE Linked(s, b) \/ b = e
    BY <1>1, <1>2, <1>4 DEF Linked
<1>5. ASSUME NEW b, Linked(s, b) PROVE Linked(t, b)
  <2>1. PICK j \in 1..Len(s) : s[j] = b
    BY <1>2, <1>5 DEF Linked
  <2>2. CASE j < i
    BY <1>1, <1>2, <2>1, <2>2 DEF Linked
  <2>3. CASE j >= i
    <3>1. j + 1 \in 1..(Len(s) + 1) /\ t[j + 1] = s[j]
        BY <1>1, <1>2, <2>1, <2>3
    <3> QED
        BY <1>1, <2>1, <3>1 DEF Linked
  <2> QED
    BY <1>2, <2>1, <2>2, <2>3
<1>6. Linked(t, e)
    BY <1>1 DEF Linked
<1> QED
    BY <1>3, <1>4, <1>5, <1>6 DEF t

\* The same for a node linked at the tail.
LEMMA TailLinked ==
    ASSUME NEW S, NEW s \in Seq(S), NEW e \in S, Injective(s), ~Linked(s, e)
    PROVE  /\ Injective(list_add_tail(s, e))
           /\ \A b : Linked(list_add_tail(s, e), b) <=> Linked(s, b) \/ b = e
<1> DEFINE t == list_add_tail(s, e)
<1>1. /\ DOMAIN t = 1..(Len(s) + 1)
      /\ \A j \in 1..(Len(s) + 1) : t[j] = IF j = Len(s) + 1 THEN e ELSE s[j]
    BY TailProperties
<1>2. DOMAIN s = 1..Len(s) /\ Len(s) \in Nat
    OBVIOUS
<1> HIDE DEF t
<1>3. Injective(t)
    BY <1>1, <1>2 DEF Injective, Linked
<1>4. \A b : Linked(t, b) <=> Linked(s, b) \/ b = e
    BY <1>1, <1>2 DEF Linked
<1> QED
    BY <1>3, <1>4 DEF t

-----------------------------------------------------------------------------
\* Type correctness of the timer lists.
LEMMA TypeInit == Init => TypeOK
<1> SUFFICES ASSUME Init PROVE TypeOK
    OBVIOUS
<1>1. Cardinality(Timers) \in Nat
    BY TimersFinite, FS_CardinalityType
<1>2. free_timers \in Seq(Timers)
    BY <1>1 DEF Init
<1> QED
    BY <1>2 DEF Init, TypeOK, Calls, NoCall, NoReport

LEMMA TypeNext == TypeOK /\ [Next]_vars => TypeOK'
<1> SUFFICES ASSUME TypeOK, [Next]_vars PROVE TypeOK'
    OBVIOUS
<1> USE DEF TypeOK, lists, fields, call
<1>1. ASSUME NEW k \in Keys, NEW d \in Delays, add_timer(k, d) PROVE TypeOK'
    BY <1>1, DelaysNat DEF add_timer, Calls
<1>2. CASE removeTimerType
  <2>1. CASE Matches(pending_timers[aux])
    <3>1. /\ list_del(pending_timers, aux) \in Seq(Timers)
          /\ Len(list_del(pending_timers, aux)) = Len(pending_timers) - 1
        BY <1>2, DelProperties DEF removeTimerType
    <3>2. list_add_tail(free_timers, pending_timers[aux]) \in Seq(Timers)
      <4>1. pending_timers[aux] \in Timers
        BY <1>2 DEF removeTimerType
      <4> QED
        BY <4>1, TailProperties
    <3>3. /\ pending_timers' = list_del(pending_timers, aux)
          /\ free_timers' = list_add_tail(free_timers, pending_timers[aux])
          /\ aux' = aux
          /\ UNCHANGED <<time, key, pc, arg, timer, next, now>>
        BY <1>2, <2>1 DEF removeTimerType, freeTimer, Successor
    <3>4. aux' \in 1..(Len(pending_timers') + 1)
        BY <1>2, <3>1, <3>3 DEF removeTimerType
    <3> QED
        BY <3>1, <3>2, <3>3, <3>4
  <2>2. CASE ~Matches(pending_timers[aux])
    BY <1>2, <2>2 DEF removeTimerType
  <2> QED
    BY <2>1, <2>2
<1>3. CASE removeTimerTypeDone
    BY <1>3 DEF removeTimerTypeDone
<1>4. CASE allocTimer
  <2>1. CASE free_timers = <<>>
    BY <1>4, <2>1 DEF allocTimer, Return, NoCall, Calls
  <2>2. CASE free_timers # <<>>
    <3>1. 1 \in 1..Len(free_timers) /\ free_timers[1] \in Timers
        BY <2>2
    <3>2. list_del(free_timers, 1) \in Seq(Timers)
        BY <3>1, DelProperties
    <3>3. /\ timer' = free_timers[1]
          /\ free_timers' = list_del(free_timers, 1)
          /\ time' = [time EXCEPT ![free_timers[1]] = arg.time]
          /\ key' = [key EXCEPT ![free_timers[1]] = arg.key]
          /\ pc = "alloc" /\ pc' = "insert"
          /\ aux' = 1
          /\ UNCHANGED <<pending_timers, arg, next, now>>
        BY <1>4, <2>2 DEF allocTimer
    <3>4. arg.time \in Nat /\ arg.key \in Keys
        BY <3>3 DEF Calls
    <3>5. time' \in [Timers -> Nat] /\ key' \in [Timers -> Keys \cup {NoKey}]
        BY <3>1, <3>3, <3>4
    <3>6. aux' \in 1..(Len(pending_timers') + 1)
        BY <3>3
    <3> QED
        BY <3>1, <3>2, <3>3, <3>4, <3>5, <3>6
  <2> QED
    BY <2>1, <2>2
<1>5. CASE insertTimerScan
    BY <1>5 DEF insertTimerScan
<1>6. CASE insertTimerLink
  <2>1. list_add(pending_timers, aux, timer) \in Seq(Timers)
    BY <1>6, AddProperties DEF insertTimerLink
  <2> QED
    BY <1>6, <2>1 DEF insertTimerLink, Return, NoCall, Calls
<1>7. CASE next_timer
    BY <1>7 DEF next_timer, NoReport, Reported
<1>8. CASE next_pending_timer
  <2>1. 1 \in 1..Len(pending_timers) /\ pending_timers[1] \in Timers
    BY <1>8 DEF next_pending_timer
  <2>2. list_del(pending_timers, 1) \in Seq(Timers)
    BY <2>1, DelProperties
  <2>3. list_add_tail(free_timers, pending_timers[1]) \in Seq(Timers)
    BY <2>1, TailProperties
  <2> QED
    BY <1>8, <2>1, <2>2, <2>3 DEF next_pending_timer, freeTimer, Reported
<1>9. CASE Tick
    BY <1>9 DEF Tick
<1>10. CASE UNCHANGED vars
    BY <1>10 DEF vars
<1> QED
    BY <1>1, <1>2, <1>3, <1>4, <1>5, <1>6, <1>7, <1>8, <1>9, <1>10 DEF Next

\* The lists, fields and cursor of emulated_timers.c keep their types in every
\* behaviour; the loop cursor never leaves the list.
THEOREM TypeCorrect == Spec => []TypeOK
<1> QED
    BY TypeInit, TypeNext, PTL DEF Spec

-----------------------------------------------------------------------------
\* removeTimerType and next_pending_timer free the node at position i: the
\* blocks stay partitioned, the list stays sorted and without duplicates, and
\* the nodes before i do not move.
LEMMA FreeStep ==
    ASSUME TypeOK, TimersPartitioned, PendingSorted, OneTimerPerKey,
           NEW i \in 1..Len(pending_timers), pc # "insert", pc' # "insert",
           pending_timers' = list_del(pending_timers, i),
           free_timers' = list_add_tail(free_timers, pending_timers[i]),
           UNCHANGED <<time, key>>
    PROVE  /\ TimersPartitioned'
           /\ PendingSorted'
           /\ \A j, k \in DOMAIN pending_timers' :
                  key[pending_timers'[j]] = key[pending_timers'[k]] => j = k
           /\ \A j \in DOMAIN pending_timers' :
                  \E m \in DOMAIN pending_timers :
                      /\ pending_timers'[j] = pending_timers[m]
                      /\ j < i => m = j
                      /\ m # i
<1> DEFINE P == pending_timers
           Q == pending_timers'
           b == P[i]
           old(m) == IF m < i THEN m ELSE m + 1
<1>1. P \in Seq(Timers) /\ free_timers \in Seq(Timers) /\ b \in Timers
    BY DEF TypeOK
<1>2. Injective(P) /\ Injective(free_timers) /\ Linked(P, b) /\ ~Linked(free_timers, b)
    BY <1>1 DEF TimersPartitioned, Injective, Linked
<1>3. /\ Injective(Q)
      /\ \A c : Linked(Q, c) <=> Linked(P, c) /\ c # b
    BY <1>1, <1>2, DelLinked
<1>4. /\ Injective(free_timers')
      /\ \A c : Linked(free_timers', c) <=> Linked(free_timers, c) \/ c = b
    BY <1>1, <1>2, TailLinked
<1>5. TimersPartitioned'
  <2>1. \A c \in Timers : Linked(P, c) \/ Linked(free_timers, c)
    BY DEF TimersPartitioned, InHand
  <2>2. \A c \in Timers : ~(Linked(P, c) /\ Linked(free_timers, c))
    BY DEF TimersPartitioned
  <2>3. \A c \in Timers : (Linked(P, c) \/ Linked(free_timers, c))'
    BY <1>3, <1>4, <2>1
  <2>4. \A c \in Timers : ~(Linked(P, c) /\ Linked(free_timers, c))'
    BY <1>2, <1>3, <1>4, <2>2
  <2>5. \A c \in Timers : ~InHand(c)'
    BY DEF InHand
  <2> QED
    BY <1>3, <1>4, <2>3, <2>4, <2>5 DEF TimersPartitioned, Injective
<1>6. DOMAIN P = 1..Len(P) /\ Len(P) \in Nat /\ DOMAIN Q = 1..(Len(P) - 1)
    BY <1>1, DelProperties
<1>7. \A m \in DOMAIN Q : old(m) \in DOMAIN P /\ Q[m] = P[old(m)] /\ old(m) # i
  <2>1. \A j \in 1..(Len(P) - 1) : list_del(P, i)[j] = IF j < i THEN P[j] ELSE P[j + 1]
    BY <1>1, DelProperties
  <2>2. \A j \in 1..(Len(P) - 1) : old(j) \in 1..Len(P) /\ old(j) # i
    BY <1>6
  <2> QED
    BY <1>6, <2>1, <2>2
<1>8. \A j, k \in DOMAIN Q : /\ j <= k => old(j) <= old(k)
                             /\ old(j) = old(k) => j = k
    BY <1>6
<1>9. PendingSorted'
  <2> SUFFICES ASSUME NEW j \in DOMAIN Q, NEW k \in DOMAIN Q, j <= k
               PROVE  time'[Q[j]] <= time'[Q[k]]
    BY DEF PendingSorted
  <2> HIDE DEF old
  <2> QED
    BY <1>7, <1>8 DEF PendingSorted
<1>10. \A j, k \in DOMAIN Q : key[Q[j]] = key[Q[k]] => j = k
  <2> HIDE DEF old
  <2> QED
    BY <1>7, <1>8 DEF OneTimerPerKey
<1>11. \A j \in DOMAIN Q : \E m \in DOMAIN P : Q[j] = P[m] /\ (j < i => m = j) /\ m # i
  <2> SUFFICES ASSUME NEW j \in DOMAIN Q
               PROVE  \E m \in DOMAIN P : Q[j] = P[m] /\ (j < i => m = j) /\ m # i
    OBVIOUS
  <2>1. j < i => old(j) = j
    OBVIOUS
  <2>2. old(j) \in DOMAIN P /\ Q[j] = P[old(j)] /\ old(j) # i
    BY <1>7
  <2> HIDE DEF old
  <2> QED
    BY <2>1, <2>2
<1> QED
    BY <1>5, <1>9, <1>10, <1>11

\* insertTimer links the block in hand at the cursor.
LEMMA LinkStep ==
    ASSUME IndInv, insertTimerLink
    PROVE  /\ TimersPartitioned'
           /\ PendingSorted'
           /\ OneTimerPerKey'
<1> DEFINE P == pending_timers
           Q == pending_timers'
           old(m) == IF m < aux THEN m ELSE m - 1
<1> USE DEF IndInv
<1>1. /\ P \in Seq(Timers) /\ timer \in Timers /\ aux \in 1..(Len(P) + 1)
      /\ Q = list_add(P, aux, timer)
      /\ UNCHANGED <<free_timers, time, key>>
      /\ pc = "insert" /\ pc' = "idle"
    BY DEF TypeOK, insertTimerLink, Return, fields
<1>2. Injective(P) /\ ~Linked(P, timer) /\ ~Linked(free_timers, timer)
    BY <1>1 DEF TimersPartitioned, Injective, InHand
<1>3. /\ Injective(Q)
      /\ \A c : Linked(Q, c) <=> Linked(P, c) \/ c = timer
    BY <1>1, <1>2, AddLinked
<1>4. DOMAIN P = 1..Len(P) /\ Len(P) \in Nat /\ DOMAIN Q = 1..(Len(P) + 1)
    BY <1>1, AddProperties
<1>5. \A m \in DOMAIN Q : IF m = aux THEN Q[m] = timer
                          ELSE old(m) \in DOMAIN P /\ Q[m] = P[old(m)]
  <2>1. \A m \in 1..(Len(P) + 1) :
            list_add(P, aux, timer)[m] = IF m < aux THEN P[m]
                                         ELSE IF m = aux THEN timer ELSE P[m - 1]
    BY <1>1 DEF list_add
  <2>2. \A m \in 1..(Len(P) + 1) : m # aux => old(m) \in 1..Len(P)
    <3> aux \in 1..(Len(P) + 1) /\ Len(P) \in Nat
        BY <1>1, <1>4
    <3> QED
        OBVIOUS
  <2>3. \A m \in 1..(Len(P) + 1) :
            IF m = aux THEN Q[m] = timer ELSE Q[m] = P[old(m)]
    BY <1>1, <2>1
  <2> QED
    BY <1>4, <2>2, <2>3
<1>6. TimersPartitioned'
  <2>1. \A c \in Timers : (Linked(P, c) \/ Linked(free_timers, c))'
    BY <1>1, <1>3 DEF TimersPartitioned, InHand
  <2>2. \A c \in Timers : ~(Linked(P, c) /\ Linked(free_timers, c))'
    BY <1>1, <1>2, <1>3 DEF TimersPartitioned
  <2>3. \A c \in Timers : ~InHand(c)'
    BY <1>1 DEF InHand
  <2>4. Injective(free_timers')
    BY <1>1 DEF TimersPartitioned, Injective
  <2> QED
    BY <1>3, <2>1, <2>2, <2>3, <2>4 DEF TimersPartitioned, Injective
<1>7. \A m \in DOMAIN P : time[P[m]] \in Nat /\ time[timer] \in Nat
    BY <1>1 DEF TypeOK
<1>8. PendingSorted'
  <2> SUFFICES ASSUME NEW j \in DOMAIN Q, NEW k \in DOMAIN Q, j <= k
               PROVE  time[Q[j]] <= time[Q[k]]
    BY <1>1 DEF PendingSorted
  <2>1. CASE j # aux /\ k # aux
    <3>1. old(j) \in DOMAIN P /\ old(k) \in DOMAIN P /\ Q[j] = P[old(j)] /\ Q[k] = P[old(k)]
        BY <1>5, <2>1
    <3>2. old(j) <= old(k)
        BY <1>1, <1>4, <2>1
    <3> HIDE DEF old
    <3> QED
        BY <3>1, <3>2 DEF PendingSorted
  <2>2. CASE j = aux /\ k = aux
    BY <1>5, <1>7, <2>2, <1>1 DEF TypeOK
  <2>3. CASE j = aux /\ k # aux
    <3>1. old(k) \in DOMAIN P /\ Q[k] = P[old(k)] /\ Q[j] = timer
        BY <1>5, <2>3
    <3>2. aux <= old(k) /\ aux \in DOMAIN P
        BY <1>1, <1>4, <2>3, <3>1
    <3>3. Later(P[aux])
        BY <1>1, <1>4, <3>2 DEF insertTimerLink
    <3> HIDE DEF old
    <3>4. time[P[aux]] <= time[P[old(k)]]
        BY <3>1, <3>2 DEF PendingSorted
    <3> QED
        BY <1>7, <3>1, <3>2, <3>3, <3>4 DEF Later
  <2>4. CASE j # aux /\ k = aux
    <3>1. old(j) \in DOMAIN P /\ Q[j] = P[old(j)] /\ Q[k] = timer
        BY <1>5, <2>4
    <3>2. old(j) < aux
        BY <1>1, <1>4, <2>4
    <3> HIDE DEF old
    <3>3. ~Later(P[old(j)])
        BY <1>1, <3>1, <3>2 DEF ScanInv
    <3> QED
        BY <1>7, <3>1, <3>3 DEF Later
  <2> QED
    BY <2>1, <2>2, <2>3, <2>4
<1>9. OneTimerPerKey'
  <2>1. key[timer] = arg.key /\ arg.key \in Keys
    BY <1>1 DEF ScanInv, TypeOK
  <2>2. \A m \in DOMAIN P : key[P[m]] \in Keys /\ key[P[m]] # key[timer]
    BY <1>1, <2>1 DEF OneTimerPerKey, Matches
  <2>3. \A j, k \in DOMAIN Q : key[Q[j]] = key[Q[k]] => j = k
    <3> SUFFICES ASSUME NEW j \in DOMAIN Q, NEW k \in DOMAIN Q, key[Q[j]] = key[Q[k]]
                 PROVE  j = k
        OBVIOUS
    <3>1. CASE j = aux \/ k = aux
      <4> HIDE DEF old
      <4> QED BY <1>5, <2>2, <3>1
    <3>2. CASE j # aux /\ k # aux
      <4>1. old(j) = old(k)
        <5> HIDE DEF old
        <5> QED BY <1>5, <3>2 DEF OneTimerPerKey
      <4>2. j \in Nat /\ k \in Nat /\ aux \in Nat
        BY <1>1, <1>4
      <4> QED
        BY <3>2, <4>1, <4>2
    <3> QED
        BY <3>1, <3>2
  <2>4. \A j \in DOMAIN Q : key[Q[j]] \in Keys
    <3> HIDE DEF old
    <3> QED BY <1>5, <2>1, <2>2
  <2> QED
    BY <1>1, <2>3, <2>4 DEF OneTimerPerKey
<1> QED
    BY <1>6, <1>8, <1>9

\* allocTimer takes the block at the head of free_timers.
LEMMA AllocStep ==
    ASSUME IndInv, allocTimer, free_timers # <<>>
    PROVE  TimersPartitioned' /\ PendingSorted' /\ OneTimerPerKey' /\ ScanInv'
<1> DEFINE b == free_timers[1]
<1> USE DEF IndInv
<1>1. /\ pc = "alloc" /\ pc' = "insert" /\ timer' = b /\ aux' = 1
      /\ free_timers' = list_del(free_timers, 1)
      /\ time' = [time EXCEPT ![b] = arg.time]
      /\ key' = [key EXCEPT ![b] = arg.key]
      /\ UNCHANGED <<pending_timers, arg, next, now>>
    BY DEF allocTimer
<1>2. /\ free_timers \in Seq(Timers) /\ 1 \in 1..Len(free_timers) /\ b \in Timers
      /\ pending_timers \in Seq(Timers)
    BY DEF TypeOK
<1>3. Injective(free_timers) /\ Injective(pending_timers)
      /\ Linked(free_timers, b) /\ ~Linked(pending_timers, b)
    BY <1>2 DEF TimersPartitioned, Injective, Linked
<1>4. /\ Injective(free_timers')
      /\ \A c : Linked(free_timers', c) <=> Linked(free_timers, c) /\ c # b
    BY <1>1, <1>2, <1>3, DelLinked
<1>5. TimersPartitioned'
  <2>1. \A c \in Timers : (Linked(pending_timers, c) \/ Linked(free_timers, c) \/ InHand(c))'
    BY <1>1, <1>4 DEF TimersPartitioned, InHand
  <2>2. \A c \in Timers : ~(Linked(pending_timers, c) /\ Linked(free_timers, c))'
    BY <1>1, <1>4 DEF TimersPartitioned
  <2>3. \A c \in Timers :
            InHand(c)' => ~Linked(pending_timers, c)' /\ ~Linked(free_timers, c)'
    BY <1>1, <1>3, <1>4 DEF InHand
  <2>4. Injective(pending_timers')
    BY <1>1, <1>3
  <2> QED
    BY <1>4, <2>1, <2>2, <2>3, <2>4 DEF TimersPartitioned, Injective
<1>6. \A i \in DOMAIN pending_timers : pending_timers[i] # b /\ pending_timers[i] \in Timers
    BY <1>2, <1>3 DEF Linked
<1>7. \A i \in DOMAIN pending_timers :
          /\ time'[pending_timers[i]] = time[pending_timers[i]]
          /\ key'[pending_timers[i]] = key[pending_timers[i]]
    BY <1>1, <1>6 DEF TypeOK
<1>8. PendingSorted'
    BY <1>1, <1>7 DEF PendingSorted
<1>9. OneTimerPerKey'
    BY <1>1, <1>7 DEF OneTimerPerKey, Matches
<1>10. ScanInv'
  <2>1. key'[b] = arg.key /\ time'[b] = arg.time
    BY <1>1, <1>2 DEF TypeOK
  <2>2. \A i \in DOMAIN pending_timers : ~(i < 1)
    BY <1>2
  <2> QED
    BY <1>1, <2>1, <2>2 DEF ScanInv
<1> QED
    BY <1>5, <1>8, <1>9, <1>10

LEMMA IndInit == Init => IndInv
<1> SUFFICES ASSUME Init PROVE IndInv
    OBVIOUS
<1>1. TypeOK
    BY TypeInit
<1>2. TimersPartitioned
    BY DEF Init, TimersPartitioned, Linked, InHand
<1>3. PendingSorted /\ OneTimerPerKey /\ ScanInv
    BY DEF Init, PendingSorted, OneTimerPerKey, ScanInv
<1> QED
    BY <1>1, <1>2, <1>3 DEF IndInv

\* A step that links and unlinks nothing and leaves the fields alone.
LEMMA QuietStep ==
    ASSUME TimersPartitioned, PendingSorted,
           UNCHANGED <<pending_timers, free_timers, time, key, timer>>,
           pc' = "insert" <=> pc = "insert"
    PROVE  TimersPartitioned' /\ PendingSorted'
<1>1. \A b : /\ Linked(pending_timers, b)' <=> Linked(pending_timers, b)
             /\ Linked(free_timers, b)' <=> Linked(free_timers, b)
             /\ InHand(b)' <=> InHand(b)
    BY DEF Linked, InHand
<1>2. TimersPartitioned'
    BY <1>1 DEF TimersPartitioned
<1> QED
    BY <1>2 DEF PendingSorted

LEMMA IndNext == IndInv /\ [Next]_vars => IndInv'
<1> SUFFICES ASSUME IndInv, [Next]_vars PROVE IndInv'
    OBVIOUS
<1> DEFINE Rest == TimersPartitioned /\ PendingSorted /\ OneTimerPerKey /\ ScanInv
<1>a. TypeOK /\ TimersPartitioned /\ PendingSorted /\ OneTimerPerKey /\ ScanInv
    BY DEF IndInv
<1>b. TypeOK'
    BY <1>a, TypeNext
<1>1. ASSUME NEW k \in Keys, NEW d \in Delays, add_timer(k, d) PROVE Rest'
  <2>1. /\ UNCHANGED <<pending_timers, free_timers, time, key, timer>>
        /\ pc = "idle" /\ pc' = "remove" /\ aux' = 1
    BY <1>1 DEF add_timer, lists, fields
  <2>2. \A i \in DOMAIN pending_timers : ~(i < 1)
    BY <1>a DEF TypeOK
  <2>3. OneTimerPerKey' /\ ScanInv'
    BY <1>a, <2>1, <2>2 DEF OneTimerPerKey, ScanInv
  <2> QED
    BY <1>a, <2>1, <2>3, QuietStep
<1>2. ASSUME removeTimerType PROVE Rest'
  <2>1. CASE Matches(pending_timers[aux])
    <3>1. /\ pc = "remove" /\ aux \in 1..Len(pending_timers)
          /\ pending_timers' = list_del(pending_timers, aux)
          /\ free_timers' = list_add_tail(free_timers, pending_timers[aux])
          /\ aux' = aux
          /\ UNCHANGED <<time, key, pc, arg, timer, next, now>>
        BY <1>a, <1>2, <2>1 DEF TypeOK, removeTimerType, freeTimer, Successor, fields
    <3>2. /\ TimersPartitioned'
          /\ PendingSorted'
          /\ \A j, k \in DOMAIN pending_timers' :
                 key[pending_timers'[j]] = key[pending_timers'[k]] => j = k
          /\ \A j \in DOMAIN pending_timers' :
                 \E m \in DOMAIN pending_timers :
                     pending_timers'[j] = pending_timers[m] /\ (j < aux => m = j) /\ m # aux
        BY <1>a, <3>1, FreeStep
    <3>3. OneTimerPerKey'
        BY <1>a, <3>1, <3>2 DEF OneTimerPerKey, Matches
    <3>4. ScanInv'
        BY <3>1 DEF ScanInv
    <3> QED
        BY <3>2, <3>3, <3>4
  <2>2. CASE ~Matches(pending_timers[aux])
    <3>1. /\ pc = "remove" /\ aux \in 1..Len(pending_timers) /\ aux' = aux + 1
          /\ UNCHANGED <<pending_timers, free_timers, time, key, pc, arg, timer, next, now>>
        BY <1>a, <1>2, <2>2 DEF TypeOK, removeTimerType, lists, fields
    <3>2. \A i \in DOMAIN pending_timers : i < aux + 1 => i < aux \/ i = aux
        BY <1>a, <3>1, SMTT(30) DEF TypeOK
    <3>3. OneTimerPerKey'
        BY <1>a, <2>2, <3>1, <3>2 DEF OneTimerPerKey, Matches
    <3>4. ScanInv'
        BY <3>1 DEF ScanInv
    <3> QED
        BY <1>a, <3>1, <3>3, <3>4, QuietStep
  <2> QED
    BY <2>1, <2>2
<1>3. ASSUME removeTimerTypeDone PROVE Rest'
  <2>1. /\ UNCHANGED <<pending_timers, free_timers, time, key, arg, timer>>
        /\ pc = "remove" /\ pc' = "alloc"
    BY <1>3 DEF removeTimerTypeDone, lists, fields
  <2>2. \A i \in DOMAIN pending_timers : i < aux
    BY <1>3, <1>a DEF removeTimerTypeDone, TypeOK
  <2>3. OneTimerPerKey' /\ ScanInv'
    BY <1>a, <2>1, <2>2 DEF OneTimerPerKey, Matches, ScanInv
  <2> QED
    BY <1>a, <2>1, <2>3, QuietStep
<1>4. ASSUME allocTimer PROVE Rest'
  <2>1. CASE free_timers # <<>>
    <3>1. TimersPartitioned' /\ PendingSorted' /\ OneTimerPerKey' /\ ScanInv'
        BY <1>4, <2>1, AllocStep
    <3> QED
        BY <3>1
  <2>2. CASE free_timers = <<>>
    <3>1. /\ UNCHANGED <<pending_timers, free_timers, time, key>>
          /\ pc = "alloc" /\ pc' = "idle"
        BY <1>4, <2>2 DEF allocTimer, Return, fields
    <3>2. \A b : /\ Linked(pending_timers, b)' <=> Linked(pending_timers, b)
                 /\ Linked(free_timers, b)' <=> Linked(free_timers, b)
                 /\ ~InHand(b) /\ ~InHand(b)'
        BY <3>1 DEF Linked, InHand
    <3>3. TimersPartitioned'
        BY <1>a, <3>1, <3>2 DEF TimersPartitioned
    <3>4. PendingSorted' /\ OneTimerPerKey' /\ ScanInv'
        BY <1>a, <3>1 DEF PendingSorted, OneTimerPerKey, ScanInv
    <3> QED
        BY <3>3, <3>4
  <2> QED
    BY <2>1, <2>2
<1>5. ASSUME insertTimerScan PROVE Rest'
  <2>1. /\ UNCHANGED <<pending_timers, free_timers, time, key, pc, arg, timer>>
        /\ pc = "insert" /\ aux' = aux + 1 /\ ~Later(pending_timers[aux])
    BY <1>5 DEF insertTimerScan, lists, fields
  <2>2. \A i \in DOMAIN pending_timers : i < aux + 1 => i < aux \/ i = aux
    BY <1>a DEF TypeOK
  <2>3. OneTimerPerKey' /\ ScanInv'
    BY <1>a, <2>1, <2>2 DEF OneTimerPerKey, Matches, ScanInv, Later
  <2> QED
    BY <1>a, <2>1, <2>3, QuietStep
<1>6. ASSUME insertTimerLink PROVE Rest'
  <2>1. ScanInv'
    BY <1>6 DEF insertTimerLink, Return, ScanInv
  <2>2. TimersPartitioned' /\ PendingSorted' /\ OneTimerPerKey'
    BY <1>6, LinkStep
  <2> QED
    BY <2>1, <2>2
<1>7. ASSUME next_timer \/ Tick \/ UNCHANGED vars PROVE Rest'
  <2>1. UNCHANGED <<pending_timers, free_timers, time, key, pc, arg, aux, timer>>
    BY <1>7 DEF next_timer, Tick, vars, lists, fields, call
  <2>2. OneTimerPerKey' /\ ScanInv'
    BY <1>a, <2>1 DEF OneTimerPerKey, Matches, ScanInv, Later
  <2> QED
    BY <1>a, <2>1, <2>2, QuietStep
<1>8. ASSUME next_pending_timer PROVE Rest'
  <2>1. /\ pc = "idle" /\ 1 \in 1..Len(pending_timers)
        /\ pending_timers' = list_del(pending_timers, 1)
        /\ free_timers' = list_add_tail(free_timers, pending_timers[1])
        /\ UNCHANGED <<time, key, pc, arg, aux, timer, now>>
    BY <1>a, <1>8 DEF TypeOK, next_pending_timer, freeTimer, fields, call
  <2>2. /\ TimersPartitioned'
        /\ PendingSorted'
        /\ \A j, k \in DOMAIN pending_timers' :
               key[pending_timers'[j]] = key[pending_timers'[k]] => j = k
        /\ \A j \in DOMAIN pending_timers' :
               \E m \in DOMAIN pending_timers :
                   pending_timers'[j] = pending_timers[m] /\ (j < 1 => m = j) /\ m # 1
    BY <1>a, <2>1, FreeStep
  <2>3. OneTimerPerKey' /\ ScanInv'
    BY <1>a, <2>1, <2>2 DEF OneTimerPerKey, ScanInv
  <2> QED
    BY <2>2, <2>3
<1>9. Rest'
    BY <1>1, <1>2, <1>3, <1>4, <1>5, <1>6, <1>7, <1>8 DEF Next
<1> QED
    BY <1>b, <1>9 DEF IndInv

\* The timer lists satisfy their inductive invariant in every behaviour.
THEOREM TimersInvariant == Spec => []IndInv
<1> QED
    BY IndInit, IndNext, PTL DEF Spec

\* No timer_t block is lost or linked twice by allocTimer, freeTimer,
\* removeTimerType, insertTimer and next_pending_timer.
THEOREM Partitioned == Spec => []TimersPartitioned
<1>1. IndInv => TimersPartitioned
    BY DEF IndInv
<1> QED
    BY <1>1, TimersInvariant, PTL

\* The head of pending_timers is always an earliest timer.
THEOREM Sorted == Spec => []PendingSorted
<1>1. IndInv => PendingSorted
    BY DEF IndInv
<1> QED
    BY <1>1, TimersInvariant, PTL

\* A device armed again while its timer is pending has only the new timer.
THEOREM OneTimer == Spec => []OneTimerPerKey
<1>1. IndInv => OneTimerPerKey
    BY DEF IndInv
<1> QED
    BY <1>1, TimersInvariant, PTL

\* When allocTimer runs, a block is free: if all were pending they would carry
\* as many different keys, none of them the one being armed.
LEMMA BlockFree == IndInv => NeverExhausted
<1> SUFFICES ASSUME IndInv, pc = "alloc", free_timers = <<>> PROVE FALSE
    BY DEF NeverExhausted
<1> DEFINE Others == Keys \ {arg.key}
           owner == [b \in Timers |-> key[b]]
<1>1. arg.key \in Keys
    BY DEF IndInv, TypeOK
<1>2. \A b \in Timers : Linked(pending_timers, b)
    BY DEF IndInv, TimersPartitioned, Linked, InHand
<1>3. owner \in Injection(Timers, Others)
  <2>1. \A b \in Timers : key[b] \in Others
    BY <1>2 DEF IndInv, OneTimerPerKey, Matches, Linked
  <2>2. \A b, c \in Timers : key[b] = key[c] => b = c
    BY <1>2 DEF IndInv, OneTimerPerKey, Linked
  <2> QED
    BY <2>1, <2>2 DEF Injection, IsInjective
<1>4. IsFiniteSet(Others) /\ Cardinality(Others) = Cardinality(Keys) - 1
    BY <1>1, TimersFinite, FS_RemoveElement
<1> HIDE DEF Others, owner
<1>5. Cardinality(Timers) <= Cardinality(Others)
    BY <1>3, <1>4, FS_Injection
<1>6. Cardinality(Timers) \in Nat /\ Cardinality(Keys) \in Nat
    BY TimersFinite, FS_CardinalityType
<1> QED
    BY <1>4, <1>5, <1>6, EnoughTimers

\* "Fatal: no more timers!" is unreachable with at least as many timer blocks
\* as (type, code) pairs; MAX_TIMERS is 20 for 12 of them.
THEOREM TimersSuffice == Spec => []NeverExhausted
<1> QED
    BY BlockFree, TimersInvariant, PTL

-----------------------------------------------------------------------------
(* The interface                                                           *)

\* A pending timer of device k expires at t.
Waits(k, t) == \E b \in Timers : Linked(pending_timers, b) /\ key[b] = k /\ time[b] = t

Calling(k) == pc # "idle" /\ arg.key = k

\* What Deadline means: a device has the deadline of the call in progress, or that
\* of its one pending timer.
DeadlineMeans(k) ==
    /\ Calling(k) => Deadline(k) = arg.time
    /\ \A t : ~Calling(k) /\ Waits(k, t) => Deadline(k) = t
    /\ ~Calling(k) /\ (\A t : ~Waits(k, t)) => Deadline(k) = NoDeadline

Deadlines == \A k \in Keys : DeadlineMeans(k)

\* No device has two pending timers, so there is nothing to choose from.
LEMMA DeadlineIs == IndInv => Deadlines
<1> SUFFICES ASSUME IndInv, NEW k \in Keys PROVE DeadlineMeans(k)
    BY DEF Deadlines
<1> DEFINE P == pending_timers
<1>1. P \in Seq(Timers) /\ \A i \in DOMAIN P : P[i] \in Timers
    BY DEF IndInv, TypeOK
<1>2. Calling(k) => Deadline(k) = arg.time
    BY DEF Calling, Deadline
<1>3. ASSUME NEW t, ~Calling(k), Waits(k, t) PROVE Deadline(k) = t
  <2>1. PICK i \in DOMAIN P : key[P[i]] = k /\ time[P[i]] = t
    BY <1>3 DEF Waits, Linked
  <2>2. \A j \in DOMAIN P : key[P[j]] = k => j = i
    BY <2>1 DEF IndInv, OneTimerPerKey
  <2>3. (CHOOSE j \in DOMAIN P : key[P[j]] = k) = i
    BY <2>1, <2>2
  <2> QED
    BY <1>3, <2>1, <2>3 DEF Deadline, Calling
<1>4. ASSUME ~Calling(k), \A t : ~Waits(k, t) PROVE Deadline(k) = NoDeadline
  <2>1. ~\E i \in DOMAIN P : key[P[i]] = k
    BY <1>1, <1>4 DEF Waits, Linked
  <2> QED
    BY <1>4, <2>1 DEF Deadline, Calling
<1> QED
    BY <1>2, <1>3, <1>4 DEF DeadlineMeans

\* The same after a step.
LEMMA DeadlineIsNext == IndInv' => Deadlines'
    BY DeadlineIs, PTL

\* A device whose timer a step leaves alone, and that it does not call for, has
\* the deadline that it had.
LEMMA DeadlineKept ==
    ASSUME Deadlines, Deadlines', NEW k \in Keys,
           \/ Calling(k) /\ Calling(k)' /\ arg' = arg
           \/ ~Calling(k) /\ ~Calling(k)' /\ \A t : Waits(k, t)' <=> Waits(k, t)
    PROVE  Deadline(k)' = Deadline(k)
<1>1. DeadlineMeans(k) /\ DeadlineMeans(k)'
    BY DEF Deadlines
<1>2. CASE Calling(k) /\ Calling(k)' /\ arg' = arg
    BY <1>1, <1>2 DEF DeadlineMeans
<1>3. CASE ~Calling(k) /\ ~Calling(k)' /\ \A t : Waits(k, t)' <=> Waits(k, t)
  <2>1. CASE \A t : ~Waits(k, t)
    BY <1>1, <1>3, <2>1 DEF DeadlineMeans
  <2>2. CASE \E t : Waits(k, t)
    BY <1>1, <1>3, <2>2 DEF DeadlineMeans
  <2> QED
    BY <2>1, <2>2
<1> QED
    BY <1>2, <1>3

\* What a step is to DeviceTimers.
Allowed == DT!Next \/ UNCHANGED DT!vars

\* Steps that no device sees.
LEMMA UnseenStep ==
    ASSUME \A k \in Keys : Deadline(k)' = Deadline(k), UNCHANGED <<next, now>>
    PROVE  Allowed
    BY DEF Allowed, DT!vars

\* The devices that wait are those whose block is pending: what a step does to the
\* list is what it does to them.
LEMMA WaitsKept ==
    ASSUME UNCHANGED <<pending_timers, time, key>>
    PROVE  \A k, t : Waits(k, t)' <=> Waits(k, t)
    BY DEF Waits, Linked

\* add_timer gives a device its new deadline when it is called.
LEMMA AddRefines ==
    ASSUME IndInv, Deadlines, Deadlines', NEW k \in Keys, NEW d \in Delays, add_timer(k, d)
    PROVE  DT!Add(k, d)
<1>1. /\ pc = "idle" /\ pc' = "remove" /\ arg' = [key |-> k, time |-> now + d]
      /\ UNCHANGED <<pending_timers, time, key, next, now>>
    BY DEF add_timer, lists, fields
<1>2. \A j \in Keys : ~Calling(j) /\ (Calling(j)' <=> j = k)
    BY <1>1 DEF Calling
<1>3. Deadline(k)' = now + d
    BY <1>1, <1>2 DEF Deadlines, DeadlineMeans
<1>4. \A j \in Keys : j # k => Deadline(j)' = Deadline(j)
    BY <1>1, <1>2, WaitsKept, DeadlineKept
<1> QED
    BY <1>1, <1>3, <1>4 DEF DT!Add

\* removeTimerType takes only the timer of the device that is being armed.
LEMMA RemoveRefines ==
    ASSUME IndInv, Deadlines, Deadlines', removeTimerType
    PROVE  Allowed
<1>1. pc = "remove" /\ UNCHANGED <<time, key, pc, arg, next, now>>
    BY DEF removeTimerType, fields
<1>2. \A k \in Keys : Calling(k)' <=> Calling(k)
    BY <1>1 DEF Calling
<1>3. ASSUME NEW k \in Keys, ~Calling(k), NEW t PROVE Waits(k, t)' <=> Waits(k, t)
  <2>1. CASE Matches(pending_timers[aux])
    <3> DEFINE b == pending_timers[aux]
    <3>1. /\ pending_timers \in Seq(Timers) /\ aux \in 1..Len(pending_timers)
          /\ pending_timers' = list_del(pending_timers, aux)
        BY <1>1, <2>1 DEF IndInv, TypeOK, removeTimerType
    <3>2. Injective(pending_timers)
        BY DEF IndInv, TimersPartitioned, Injective
    <3>3. \A c : Linked(pending_timers', c) <=> Linked(pending_timers, c) /\ c # b
        BY <3>1, <3>2, DelLinked
    <3>4. key[b] # k
        BY <1>1, <1>3, <2>1 DEF Matches, Calling
    <3> HIDE DEF b
    <3> QED
        BY <1>1, <3>3, <3>4 DEF Waits
  <2>2. CASE ~Matches(pending_timers[aux])
    <3>1. UNCHANGED <<pending_timers, time, key>>
        BY <1>1, <2>2 DEF removeTimerType, lists
    <3> QED
        BY <3>1, WaitsKept
  <2> QED
    BY <2>1, <2>2
<1>4. \A k \in Keys : Deadline(k)' = Deadline(k)
    BY <1>1, <1>2, <1>3, DeadlineKept
<1> QED
    BY <1>1, <1>4, UnseenStep

\* The block that allocTimer takes is pending for nobody.
LEMMA AllocRefines ==
    ASSUME IndInv, Deadlines, Deadlines', allocTimer
    PROVE  Allowed
<1>1. free_timers # <<>>
    BY BlockFree DEF NeverExhausted, allocTimer
<1> DEFINE b == free_timers[1]
<1>2. /\ pc = "alloc" /\ pc' = "insert"
      /\ time' = [time EXCEPT ![b] = arg.time] /\ key' = [key EXCEPT ![b] = arg.key]
      /\ UNCHANGED <<pending_timers, arg, next, now>>
    BY <1>1 DEF allocTimer
<1>3. b \in Timers /\ ~Linked(pending_timers, b)
  <2>1. b \in Timers /\ Linked(free_timers, b)
    BY <1>1 DEF IndInv, TypeOK, Linked
  <2> QED
    BY <2>1 DEF IndInv, TimersPartitioned
<1>4. \A k \in Keys : Calling(k)' <=> Calling(k)
    BY <1>2 DEF Calling
<1>5. \A c \in Timers : c # b => time'[c] = time[c] /\ key'[c] = key[c]
    BY <1>2 DEF IndInv, TypeOK
<1>6. \A c : Linked(pending_timers, c)' <=> Linked(pending_timers, c)
    BY <1>2 DEF Linked
<1> HIDE DEF b
<1>7. \A k, t : Waits(k, t)' <=> Waits(k, t)
    BY <1>3, <1>5, <1>6 DEF Waits
<1>8. \A k \in Keys : Deadline(k)' = Deadline(k)
    BY <1>2, <1>4, <1>7, DeadlineKept
<1> QED
    BY <1>2, <1>8, UnseenStep

\* insertTimer links the timer that the call already counted.
LEMMA LinkRefines ==
    ASSUME IndInv, Deadlines, Deadlines', insertTimerLink
    PROVE  Allowed
<1>1. /\ pc = "insert" /\ pc' = "idle"
      /\ pending_timers' = list_add(pending_timers, aux, timer)
      /\ UNCHANGED <<time, key, next, now>>
    BY DEF insertTimerLink, Return, fields
<1>2. /\ pending_timers \in Seq(Timers) /\ timer \in Timers
      /\ aux \in 1..(Len(pending_timers) + 1)
    BY <1>1 DEF IndInv, TypeOK
<1>3. Injective(pending_timers) /\ ~Linked(pending_timers, timer)
    BY <1>1, <1>2 DEF IndInv, TimersPartitioned, Injective, InHand
<1>4. \A c : Linked(pending_timers', c) <=> Linked(pending_timers, c) \/ c = timer
    BY <1>1, <1>2, <1>3, AddLinked
<1>5. key[timer] = arg.key /\ time[timer] = arg.time
    BY <1>1 DEF IndInv, ScanInv
<1>6. ASSUME NEW k \in Keys PROVE Deadline(k)' = Deadline(k)
  <2>1. CASE k = arg.key
    <3>1. PICK t : t = arg.time
        OBVIOUS
    <3>2. Waits(k, t)'
        BY <1>1, <1>2, <1>4, <1>5, <2>1, <3>1 DEF Waits
    <3>3. Deadline(k)' = t
        BY <1>1, <3>2 DEF Deadlines, DeadlineMeans, Calling
    <3>4. Deadline(k) = t
        BY <1>1, <2>1, <3>1 DEF Deadlines, DeadlineMeans, Calling
    <3> QED
        BY <3>3, <3>4
  <2>2. CASE k # arg.key
    <3>1. \A t : Waits(k, t)' <=> Waits(k, t)
        BY <1>1, <1>4, <1>5, <2>2 DEF Waits
    <3>2. ~Calling(k) /\ ~Calling(k)'
        BY <1>1, <2>2 DEF Calling
    <3> QED
        BY <3>1, <3>2, DeadlineKept
  <2> QED
    BY <2>1, <2>2
<1> QED
    BY <1>1, <1>6, UnseenStep

\* The head of the list belongs to a device whose deadline is an earliest one.
LEMMA HeadIsEarliest ==
    ASSUME IndInv, Deadlines, pc = "idle", pending_timers # <<>>
    PROVE  LET b == pending_timers[1] IN
           /\ b \in Timers /\ key[b] \in Keys /\ Deadline(key[b]) = time[b]
           /\ DT!Earliest(key[b])
<1> DEFINE P == pending_timers
           b == P[1]
<1>1. P \in Seq(Timers) /\ 1 \in DOMAIN P /\ b \in Timers /\ Linked(P, b)
    BY DEF IndInv, TypeOK, Linked
<1>2. key[b] \in Keys /\ time[b] \in Nat
    BY <1>1 DEF IndInv, TypeOK, OneTimerPerKey
<1>3. Waits(key[b], time[b]) /\ ~Calling(key[b])
    BY <1>1 DEF Waits, Calling
<1>4. Deadline(key[b]) = time[b]
    BY <1>2, <1>3 DEF Deadlines, DeadlineMeans
<1>5. ASSUME NEW j \in Keys, Deadline(j) # NoDeadline PROVE time[b] <= Deadline(j)
  <2>1. ~Calling(j) /\ DeadlineMeans(j)
    BY DEF Calling, Deadlines
  <2>2. PICK t : Waits(j, t)
    BY <1>5, <2>1 DEF DeadlineMeans
  <2>3. Deadline(j) = t
    BY <2>1, <2>2 DEF DeadlineMeans
  <2>4. PICK i \in DOMAIN P : time[P[i]] = t
    BY <2>2 DEF Waits, Linked
  <2>5. 1 <= i
    BY <1>1, <2>4
  <2>6. time[P[1]] <= time[P[i]]
    BY <1>1, <2>4, <2>5 DEF IndInv, PendingSorted
  <2> QED
    BY <2>3, <2>4, <2>6
<1>6. DT!Earliest(key[b])
  <2>1. key[b] \in DT!Armed
    BY <1>2, <1>4, NoDeadlineNotTime DEF DT!Armed
  <2>2. \A j \in DT!Armed : j \in Keys /\ Deadline(j) # NoDeadline
    BY DEF DT!Armed
  <2>3. \A j \in DT!Armed :
            [k \in Keys |-> Deadline(k)][key[b]] <= [k \in Keys |-> Deadline(k)][j]
    BY <1>2, <1>4, <1>5, <2>2
  <2> QED
    BY <2>1, <2>3 DEF DT!Earliest
<1> QED
    BY <1>1, <1>2, <1>4, <1>6

\* next_timer reports an earliest deadline and keeps it.
LEMMA NextTimerRefines ==
    ASSUME IndInv, Deadlines, Deadlines', next_timer
    PROVE  DT!Next
<1>1. pc = "idle" /\ UNCHANGED <<pending_timers, time, key, pc, arg, now>>
    BY DEF next_timer, lists, fields, call
<1>2. \A k \in Keys : Deadline(k)' = Deadline(k)
    BY <1>1, WaitsKept, DeadlineKept DEF Calling
<1>3. CASE pending_timers = <<>>
  <2>1. \A k \in Keys : Deadline(k) = NoDeadline
    BY <1>1, <1>3 DEF Deadlines, DeadlineMeans, Waits, Linked, Calling
  <2>2. next' = NoReport
    BY <1>3 DEF next_timer
  <2>3. DT!Empty
    BY <1>1, <1>2, <2>1, <2>2 DEF DT!Empty, DT!Armed, DT!NoReport, NoReport
  <2> QED
    BY <2>3 DEF DT!Next
<1>4. CASE pending_timers # <<>>
  <2> DEFINE b == pending_timers[1]
  <2>1. b \in Timers /\ key[b] \in Keys /\ Deadline(key[b]) = time[b] /\ DT!Earliest(key[b])
    BY <1>1, <1>4, HeadIsEarliest
  <2>2. next' = [res |-> "pending", key |-> key[b], time |-> time[b]]
    BY <1>4 DEF next_timer, Reported
  <2> HIDE DEF b
  <2>3. DT!Peek(key[b])
    BY <1>1, <1>2, <2>1, <2>2 DEF DT!Peek, DT!Reported
  <2> QED
    BY <2>1, <2>3 DEF DT!Next
<1> QED
    BY <1>3, <1>4

\* next_pending_timer takes the earliest deadline, which has passed, and no other.
LEMMA NextPendingRefines ==
    ASSUME IndInv, Deadlines, Deadlines', next_pending_timer
    PROVE  DT!Next
<1> DEFINE b == pending_timers[1]
<1>1. /\ pc = "idle" /\ pending_timers # <<>> /\ time[b] < now
      /\ next' = [res |-> "expired", key |-> key[b], time |-> time[b]]
      /\ pending_timers' = list_del(pending_timers, 1)
      /\ UNCHANGED <<time, key, pc, arg, now>>
    BY DEF next_pending_timer, Expired, Reported, fields, call
<1>2. b \in Timers /\ key[b] \in Keys /\ Deadline(key[b]) = time[b] /\ DT!Earliest(key[b])
    BY <1>1, HeadIsEarliest
<1>3. pending_timers \in Seq(Timers) /\ 1 \in 1..Len(pending_timers)
    BY <1>1 DEF IndInv, TypeOK
<1>4. Injective(pending_timers)
    BY DEF IndInv, TimersPartitioned, Injective
<1>5. \A c : Linked(pending_timers', c) <=> Linked(pending_timers, c) /\ c # b
    BY <1>1, <1>3, <1>4, DelLinked
<1>6. \A c : Linked(pending_timers, c) /\ key[c] = key[b] => c = b
    BY <1>3 DEF IndInv, OneTimerPerKey, Linked
<1> HIDE DEF b
<1>7. PICK h \in Keys : h = key[b]
    BY <1>2
<1>8. Deadline(h)' = NoDeadline
  <2>1. \A t : ~Waits(h, t)'
    BY <1>1, <1>5, <1>6, <1>7 DEF Waits
  <2> QED
    BY <1>1, <2>1 DEF Deadlines, DeadlineMeans, Calling
<1>9. ASSUME NEW k \in Keys, k # h PROVE Deadline(k)' = Deadline(k)
  <2>1. \A t : Waits(k, t)' <=> Waits(k, t)
    BY <1>1, <1>5, <1>7, <1>9 DEF Waits
  <2> QED
    BY <1>1, <2>1, DeadlineKept DEF Calling
<1>10. DT!Expire(h)
  <2> DEFINE D == [k \in Keys |-> Deadline(k)]
  <2>1. D' = [D EXCEPT ![h] = NoDeadline]
    BY <1>7, <1>8, <1>9
  <2>2. D[h] = time[b]
    BY <1>2, <1>7
  <2> HIDE DEF D
  <2> QED
    BY <1>1, <1>2, <1>7, <2>1, <2>2 DEF DT!Expire, DT!Reported, D
<1> QED
    BY <1>10 DEF DT!Next

\* Every step is one of DeviceTimers, or none of its.
LEMMA StepsRefine ==
    ASSUME IndInv, Deadlines, Deadlines', [Next]_vars
    PROVE  Allowed
<1>1. CASE \E k \in Keys, d \in Delays : add_timer(k, d)
    BY <1>1, AddRefines DEF Allowed, DT!Next
<1>2. CASE removeTimerType
    BY <1>2, RemoveRefines
<1>3. CASE allocTimer
    BY <1>3, AllocRefines
<1>4. CASE insertTimerLink
    BY <1>4, LinkRefines
<1>5. CASE next_timer
    BY <1>5, NextTimerRefines DEF Allowed
<1>6. CASE next_pending_timer
    BY <1>6, NextPendingRefines DEF Allowed
<1>7. CASE removeTimerTypeDone \/ insertTimerScan \/ Tick \/ UNCHANGED vars
  <2>1. /\ UNCHANGED <<pending_timers, time, key, arg, next>>
        /\ pc' = "idle" <=> pc = "idle"
    BY <1>7 DEF removeTimerTypeDone, insertTimerScan, Tick, vars, lists, fields, call
  <2>2. \A k \in Keys : Calling(k)' <=> Calling(k)
    BY <2>1 DEF Calling
  <2>3. \A k \in Keys : Deadline(k)' = Deadline(k)
    BY <2>1, <2>2, WaitsKept, DeadlineKept
  <2>4. CASE Tick
    BY <2>1, <2>3, <2>4 DEF Tick, Allowed, DT!Next, DT!Tick
  <2>5. CASE ~Tick
    <3>1. now' = now
        BY <1>7, <2>5 DEF removeTimerTypeDone, insertTimerScan, vars
    <3> QED
        BY <2>1, <2>3, <3>1, UnseenStep
  <2> QED
    BY <2>4, <2>5
<1> QED
    BY <1>1, <1>2, <1>3, <1>4, <1>5, <1>6, <1>7 DEF Next

\* emulated_timers.c implements DeviceTimers: a device has at most one deadline, the
\* one that it asked for last, and what is reported and removed is an earliest one.
THEOREM TimersImplementDeadlines == Spec => ImplementsDeviceTimers
<1>1. Init => DT!Init
  <2>1. SUFFICES ASSUME Init PROVE DT!Init
    OBVIOUS
  <2>2. Deadlines
    BY <2>1, IndInit, DeadlineIs
  <2>3. \A k \in Keys : Deadline(k) = NoDeadline
    BY <2>1, <2>2 DEF Init, Deadlines, DeadlineMeans, Waits, Linked, Calling
  <2> QED
    BY <2>1, <2>3 DEF Init, DT!Init, DT!NoReport, NoReport
<1>2. IndInv /\ IndInv' /\ [Next]_vars => [DT!Next]_(DT!vars)
    BY DeadlineIs, DeadlineIsNext, StepsRefine DEF Allowed
<1> QED
    BY <1>1, <1>2, TimersInvariant, PTL DEF Spec, ImplementsDeviceTimers, DT!Spec
=============================================================================
