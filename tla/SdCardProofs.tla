----------------------------- MODULE SdCardProofs -----------------------------
(***************************************************************************)
(* Proofs about SdCard, for cards and calls of any size, whatever is lost, *)
(* unanswered or damaged.                                                  *)
(***************************************************************************)
EXTENDS SdCard, FiniteSetTheorems, TLAPS

\* The card's registers, numbers without bounds.
CardStates == {"any", "idle", "ready", "ident", "stby", "tran", "data"}
CardSet == [state : CardStates, app : BOOLEAN, rca : {0, RCA}, wide : BOOLEAN,
            left : Int, at : Int, preset : Int, hc : BOOLEAN,
            flags : SUBSET {"SET_BLKCNT", "BUS_WIDTH_4"}]

Errors == {SD_OK, SD_TIMEOUT, SD_ERROR}

\* The commands of the code.
CommandNames == {"GO_IDLE", "SEND_IF_COND", "SEND_OP_COND", "SEND_OP_COND_busy", "APP_CMD",
                 "ALL_SEND_CID", "SEND_REL_ADDR", "CARD_SELECT", "SEND_SCR", "SET_BUS_WIDTH",
                 "STOP_TRANS", "SET_BLOCKCNT", "SINGLE", "MULTI"}

\* What no command changes, and what only one changes after the reset.
SameCard(k, k2) == k2.hc = k.hc /\ k2.flags = k.flags

Keeps(k, k2, cmd) ==
    /\ SameCard(k, k2)
    /\ cmd \notin {"GO_IDLE", "SEND_REL_ADDR"} => k2.rca = k.rca
    /\ cmd \notin {"GO_IDLE", "SET_BUS_WIDTH"} => k2.wide = k.wide

\* What a command that succeeds leaves behind.
Done(k2, cmd, arg) ==
    /\ cmd = "GO_IDLE" => k2.rca = 0 /\ k2.wide = FALSE
    /\ cmd = "SEND_REL_ADDR" => k2.rca = RCA
    /\ cmd = "SET_BUS_WIDTH" => k2.wide = TRUE
    /\ cmd \in {"SINGLE", "MULTI"} => k2.at = IF k2.hc THEN arg ELSE arg \div BlockSize

-----------------------------------------------------------------------------
\* The number of blocks of a card is a number.
LEMMA EndlessInt == Endless \in Int
<1>1. LastBlock \in Nat
    BY SdAssumption
<1>2. Cardinality(0 .. LastBlock) = LastBlock - 0 + 1
    BY <1>1, FS_Interval
<1> QED
    BY <1>1, <1>2 DEF Endless, Blocks

\* A register can be written.
LEMMA CardWritten ==
    ASSUME NEW k \in CardSet
    PROVE  /\ \A st \in CardStates : [k EXCEPT !.state = st] \in CardSet
           /\ \A b \in BOOLEAN : [k EXCEPT !.app = b] \in CardSet
           /\ \A b \in BOOLEAN : [k EXCEPT !.wide = b] \in CardSet
           /\ \A n \in {0, RCA} : [k EXCEPT !.rca = n] \in CardSet
           /\ \A n \in Int : [k EXCEPT !.left = n] \in CardSet
           /\ \A n \in Int : [k EXCEPT !.at = n] \in CardSet
           /\ \A n \in Int : [k EXCEPT !.preset = n] \in CardSet
<1>1. \A st \in CardStates : [k EXCEPT !.state = st] \in CardSet
    BY DEF CardSet, CardStates
<1>2. \A b \in BOOLEAN : [k EXCEPT !.app = b] \in CardSet
    BY DEF CardSet
<1>3. \A b \in BOOLEAN : [k EXCEPT !.wide = b] \in CardSet
    BY DEF CardSet
<1>4. \A n \in {0, RCA} : [k EXCEPT !.rca = n] \in CardSet
    BY DEF CardSet
<1>5. \A n \in Int : [k EXCEPT !.left = n] \in CardSet
    BY DEF CardSet
<1>6. \A n \in Int : [k EXCEPT !.at = n] \in CardSet
    BY DEF CardSet
<1>7. \A n \in Int : [k EXCEPT !.preset = n] \in CardSet
    BY DEF CardSet
<1> QED
    BY <1>1, <1>2, <1>3, <1>4, <1>5, <1>6, <1>7

\* A command that moves the card to another state, and at most that.
LEMMA StateWritten ==
    ASSUME NEW k \in CardSet, NEW st \in CardStates, NEW cmd
    PROVE  [k EXCEPT !.state = st] \in CardSet /\ Keeps(k, [k EXCEPT !.state = st], cmd)
<1>1. [k EXCEPT !.state = st] \in CardSet
    BY CardWritten
<1>2. Keeps(k, [k EXCEPT !.state = st], cmd)
    BY DEF CardSet, Keeps, SameCard
<1> QED
    BY <1>1, <1>2

\* Every command first ends what APP_CMD and SET_BLOCKCNT announced.
Cleared(k) == [k EXCEPT !.app = FALSE, !.preset = 0]

\* That leaves the rest of the card as it is.
LEMMA ClearedKeeps ==
    ASSUME NEW k \in CardSet
    PROVE  /\ Cleared(k) \in CardSet
           /\ Cleared(k).hc = k.hc /\ Cleared(k).flags = k.flags
           /\ Cleared(k).rca = k.rca /\ Cleared(k).wide = k.wide
<1> DEFINE k0 == [k EXCEPT !.app = FALSE]
<1>1. Cleared(k) = [k0 EXCEPT !.preset = 0]
    BY DEF CardSet, Cleared
<1>2. /\ k0 \in CardSet
      /\ k0.hc = k.hc /\ k0.flags = k.flags /\ k0.rca = k.rca /\ k0.wide = k.wide
  <2>1. k0 \in CardSet
    BY CardWritten
  <2>2. k0.hc = k.hc /\ k0.flags = k.flags /\ k0.rca = k.rca /\ k0.wide = k.wide
    BY DEF CardSet
  <2> QED
    BY <2>1, <2>2
<1> HIDE DEF k0
<1>3. Cleared(k) \in CardSet
  <2>1. 0 \in Int
    OBVIOUS
  <2> QED
    BY <1>1, <1>2, <2>1, CardWritten, Zenon
<1>4. /\ Cleared(k).hc = k0.hc /\ Cleared(k).flags = k0.flags
      /\ Cleared(k).rca = k0.rca /\ Cleared(k).wide = k0.wide
    BY <1>1, <1>2 DEF CardSet
<1> QED
    BY <1>2, <1>3, <1>4, Zenon

\* GO_IDLE forgets the address and the width of the bus.
LEMMA GoIdleWritten ==
    ASSUME NEW k \in CardSet, NEW e,
           e = [k EXCEPT !.state = "idle", !.rca = 0, !.wide = FALSE, !.left = 0]
    PROVE  /\ e \in CardSet /\ e.hc = k.hc /\ e.flags = k.flags
           /\ e.rca = 0 /\ e.wide = FALSE
<1> DEFINE k1 == [k EXCEPT !.state = "idle"]
           k2 == [k1 EXCEPT !.rca = 0]
           k3 == [k2 EXCEPT !.wide = FALSE]
<1>1. k1 \in CardSet
    BY CardWritten DEF CardStates
<1>2. k2 \in CardSet
    BY <1>1, CardWritten
<1>3. k3 \in CardSet
    BY <1>2, CardWritten
<1>4. e = [k3 EXCEPT !.left = 0]
    BY DEF CardSet
<1>5. e.hc = k.hc /\ e.flags = k.flags /\ e.rca = 0 /\ e.wide = FALSE
    BY DEF CardSet
<1> HIDE DEF k1, k2, k3
<1>6. 0 \in Int
    OBVIOUS
<1>7. e \in CardSet
    BY <1>3, <1>4, <1>6, CardWritten, ZenonT(60)
<1> QED
    BY <1>5, <1>7

\* SEND_REL_ADDR, SET_BUS_WIDTH, APP_CMD and STOP_TRANS.
LEMMA OthersWritten ==
    ASSUME NEW k \in CardSet
    PROVE  /\ LET e == [k EXCEPT !.state = "stby", !.rca = RCA] IN
              /\ e \in CardSet /\ Keeps(k, e, "SEND_REL_ADDR") /\ e.rca = RCA
           /\ LET e == [k EXCEPT !.wide = TRUE] IN
              /\ e \in CardSet /\ Keeps(k, e, "SET_BUS_WIDTH") /\ e.wide = TRUE
           /\ LET e == [k EXCEPT !.app = TRUE] IN
              /\ e \in CardSet /\ Keeps(k, e, "APP_CMD")
           /\ LET e == [k EXCEPT !.state = "tran", !.left = 0] IN
              /\ e \in CardSet /\ Keeps(k, e, "STOP_TRANS")
<1>1. LET e == [k EXCEPT !.state = "stby", !.rca = RCA] IN
      e \in CardSet /\ Keeps(k, e, "SEND_REL_ADDR") /\ e.rca = RCA
  <2> DEFINE k1 == [k EXCEPT !.state = "stby"]
             e == [k EXCEPT !.state = "stby", !.rca = RCA]
  <2>1. k1 \in CardSet
    BY CardWritten DEF CardStates
  <2>2. e = [k1 EXCEPT !.rca = RCA]
    BY DEF CardSet
  <2>3. e \in CardSet
    BY <2>1, <2>2, CardWritten
  <2>4. Keeps(k, e, "SEND_REL_ADDR") /\ e.rca = RCA
    BY DEF CardSet, Keeps, SameCard
  <2> QED
    BY <2>3, <2>4
<1>2. LET e == [k EXCEPT !.wide = TRUE] IN
      e \in CardSet /\ Keeps(k, e, "SET_BUS_WIDTH") /\ e.wide = TRUE
  <2>1. Keeps(k, [k EXCEPT !.wide = TRUE], "SET_BUS_WIDTH") /\ [k EXCEPT !.wide = TRUE].wide = TRUE
    BY DEF CardSet, Keeps, SameCard
  <2> QED
    BY <2>1, CardWritten
<1>3. LET e == [k EXCEPT !.app = TRUE] IN e \in CardSet /\ Keeps(k, e, "APP_CMD")
  <2>1. Keeps(k, [k EXCEPT !.app = TRUE], "APP_CMD")
    BY DEF CardSet, Keeps, SameCard
  <2> QED
    BY <2>1, CardWritten
<1>4. LET e == [k EXCEPT !.state = "tran", !.left = 0] IN
      e \in CardSet /\ Keeps(k, e, "STOP_TRANS")
  <2> DEFINE k1 == [k EXCEPT !.state = "tran"]
             e == [k EXCEPT !.state = "tran", !.left = 0]
  <2>1. k1 \in CardSet
    BY CardWritten DEF CardStates
  <2>2. e = [k1 EXCEPT !.left = 0] /\ 0 \in Int
    BY DEF CardSet
  <2> HIDE DEF k1
  <2>3. e \in CardSet
    BY <2>1, <2>2, CardWritten, Zenon
  <2> USE DEF k1
  <2>4. Keeps(k, e, "STOP_TRANS")
    BY DEF CardSet, Keeps, SameCard
  <2> QED
    BY <2>3, <2>4
<1> QED
    BY <1>1, <1>2, <1>3, <1>4

\* A command that starts a transfer.
LEMMA TransferWritten ==
    ASSUME NEW k \in CardSet, NEW n \in Int, NEW place \in Int, NEW cmd \in CommandNames
    PROVE  LET e == [k EXCEPT !.state = "data", !.left = n, !.at = place] IN
           e \in CardSet /\ Keeps(k, e, cmd) /\ e.at = place
<1> DEFINE e == [k EXCEPT !.state = "data", !.left = n, !.at = place]
<1>1. e \in CardSet
  <2> DEFINE k1 == [k EXCEPT !.state = "data"]
             k2 == [k1 EXCEPT !.left = n]
  <2>1. k1 \in CardSet
    BY CardWritten DEF CardStates
  <2>2. k2 \in CardSet
    BY <2>1, CardWritten
  <2>3. e = [k2 EXCEPT !.at = place]
    BY DEF CardSet
  <2> HIDE DEF k1, k2
  <2> QED
    BY <2>2, <2>3, CardWritten
<1>2. Keeps(k, e, cmd) /\ e.at = place
    BY DEF CardSet, Keeps, SameCard
<1> QED
    BY <1>1, <1>2

\* A legal command on the card.
LEMMA ExecutedKeeps ==
    ASSUME NEW k \in CardSet, NEW cmd \in CommandNames, NEW arg \in Int
    PROVE  /\ Executed(k, cmd, arg) \in CardSet
           /\ Keeps(k, Executed(k, cmd, arg), cmd)
           /\ Done(Executed(k, cmd, arg), cmd, arg)
<1> DEFINE k1 == Cleared(k)
           at == IF k1.hc THEN arg ELSE arg \div BlockSize
           e == Executed(k, cmd, arg)
           Transfer1(left) == [k1 EXCEPT !.state = "data", !.left = left, !.at = at]
<1>1. /\ k1 \in CardSet /\ k1.hc = k.hc /\ k1.flags = k.flags /\ k1.rca = k.rca
      /\ k1.wide = k.wide
    BY ClearedKeeps
<1>2. arg \div BlockSize \in Int /\ at \in Int
    BY SdAssumption
<1>3. \A k2 : Keeps(k1, k2, cmd) => Keeps(k, k2, cmd)
    BY <1>1, Zenon DEF Keeps, SameCard
<1>4. /\ cmd = "GO_IDLE" =>
              e = [k1 EXCEPT !.state = "idle", !.rca = 0, !.wide = FALSE, !.left = 0]
      /\ cmd = "APP_CMD" => e = [k1 EXCEPT !.app = TRUE]
      /\ cmd = "SEND_OP_COND" => e = [k1 EXCEPT !.state = "ready"]
      /\ cmd = "ALL_SEND_CID" => e = [k1 EXCEPT !.state = "ident"]
      /\ cmd = "SEND_REL_ADDR" => e = [k1 EXCEPT !.state = "stby", !.rca = RCA]
      /\ cmd = "CARD_SELECT" => e = [k1 EXCEPT !.state = "tran"]
      /\ cmd = "SET_BUS_WIDTH" => e = [k1 EXCEPT !.wide = TRUE]
      /\ cmd = "STOP_TRANS" => e = [k1 EXCEPT !.state = "tran", !.left = 0]
      /\ cmd = "SET_BLOCKCNT" => e = [k1 EXCEPT !.preset = arg]
      /\ cmd = "SINGLE" => e = Transfer1(1)
      /\ cmd = "MULTI" => e = Transfer1(IF k.preset # 0 THEN k.preset ELSE Endless)
      /\ cmd \in {"SEND_IF_COND", "SEND_OP_COND_busy", "SEND_SCR"} => e = k1
    BY DEF Executed, Cleared
<1>5. 1 \in Int /\ (IF k.preset # 0 THEN k.preset ELSE Endless) \in Int
    BY EndlessInt DEF CardSet
<1> HIDE DEF k1, at, e
<1> SUFFICES e \in CardSet /\ Keeps(k, e, cmd) /\ Done(e, cmd, arg)
    BY DEF e
<1>6. CASE cmd \in {"SINGLE", "MULTI"}
  <2>1. PICK left \in Int : e = [k1 EXCEPT !.state = "data", !.left = left, !.at = at]
    BY <1>4, <1>5, <1>6
  <2>2. e \in CardSet /\ Keeps(k1, e, cmd) /\ e.at = at
    BY <1>1, <1>2, <2>1, TransferWritten
  <2> QED
    BY <1>3, <1>6, <2>2 DEF Done, at, Keeps, SameCard
<1>7. CASE cmd \in {"SEND_OP_COND", "ALL_SEND_CID", "CARD_SELECT"}
    BY <1>1, <1>3, <1>4, <1>7, StateWritten DEF Done, CardStates
<1>8. CASE cmd = "GO_IDLE"
  <2>1. /\ e \in CardSet /\ e.hc = k1.hc /\ e.flags = k1.flags
        /\ e.rca = 0 /\ e.wide = FALSE
    BY <1>1, <1>4, <1>8, GoIdleWritten
  <2>2. Keeps(k, e, cmd)
    BY <1>1, <1>8, <2>1, Zenon DEF Keeps, SameCard
  <2>3. Done(e, cmd, arg)
    BY <1>8, <2>1 DEF Done
  <2> QED
    BY <2>1, <2>2, <2>3
<1>9. CASE cmd \in {"SEND_REL_ADDR", "SET_BUS_WIDTH", "APP_CMD", "SET_BLOCKCNT", "STOP_TRANS"}
  <2>1. CASE cmd = "SEND_REL_ADDR"
    <3>1. e \in CardSet /\ Keeps(k1, e, "SEND_REL_ADDR") /\ e.rca = RCA
      BY <1>1, <1>4, <2>1, OthersWritten, ZenonT(60)
    <3> QED
      BY <1>3, <2>1, <3>1 DEF Done
  <2>2. CASE cmd = "SET_BUS_WIDTH"
    <3>1. e \in CardSet /\ Keeps(k1, e, "SET_BUS_WIDTH") /\ e.wide = TRUE
      BY <1>1, <1>4, <2>2, OthersWritten, ZenonT(60)
    <3> QED
      BY <1>3, <2>2, <3>1 DEF Done
  <2>3. CASE cmd = "APP_CMD"
    <3>1. e \in CardSet /\ Keeps(k1, e, "APP_CMD")
      BY <1>1, <1>4, <2>3, OthersWritten
    <3> QED
      BY <1>3, <2>3, <3>1 DEF Done
  <2>4. CASE cmd = "SET_BLOCKCNT"
    <3>1. e \in CardSet /\ Keeps(k1, e, "SET_BLOCKCNT")
      <4>1. e = [k1 EXCEPT !.preset = arg]
        BY <1>4, <2>4
      <4>2. [k1 EXCEPT !.preset = arg] \in CardSet
        BY <1>1, CardWritten
      <4>3. Keeps(k1, [k1 EXCEPT !.preset = arg], "SET_BLOCKCNT")
        BY <1>1 DEF CardSet, Keeps, SameCard
      <4> QED
        BY <4>1, <4>2, <4>3
    <3> QED
      BY <1>3, <2>4, <3>1 DEF Done
  <2>5. CASE cmd = "STOP_TRANS"
    <3>1. e \in CardSet /\ Keeps(k1, e, "STOP_TRANS")
      BY <1>1, <1>4, <2>5, OthersWritten
    <3> QED
      BY <1>3, <2>5, <3>1 DEF Done
  <2> QED
    BY <1>9, <2>1, <2>2, <2>3, <2>4, <2>5
<1>10. CASE cmd \in {"SEND_IF_COND", "SEND_OP_COND_busy", "SEND_SCR"}
    BY <1>1, <1>3, <1>4, <1>10 DEF Done, Keeps, SameCard
<1> QED
    BY <1>6, <1>7, <1>8, <1>9, <1>10 DEF CommandNames

Outcomes == [card : CardSet, err : Errors, answer : BOOLEAN]

\* How one command may end.
LEMMA SentOutcome ==
    ASSUME NEW k \in CardSet, NEW cmd \in CommandNames, NEW arg \in Int, NEW o \in Sent(k, cmd, arg)
    PROVE  /\ o \in Outcomes
           /\ o.answer = (o.err = SD_OK)
           /\ Keeps(k, o.card, cmd)
           /\ o.err = SD_OK => Done(o.card, cmd, arg)
<1> DEFINE done == Executed(k, cmd, arg)
           end(card0, err) == [card |-> card0, err |-> err, answer |-> err = SD_OK]
           k0 == [k EXCEPT !.app = FALSE]
<1>1. done \in CardSet /\ Keeps(k, done, cmd) /\ Done(done, cmd, arg)
    BY ExecutedKeeps
<1>2. k0 \in CardSet /\ Keeps(k, k0, cmd) /\ Keeps(k, k, cmd)
    BY DEF CardSet, Keeps, SameCard
<1>3. \/ o = end(done, SD_OK) \/ o = end(k, SD_TIMEOUT) \/ o = end(done, SD_TIMEOUT)
      \/ o = end(done, SD_ERROR) \/ o = end(k0, SD_TIMEOUT)
    BY DEF Sent
<1> HIDE DEF done, k0
<1>4. SD_OK # SD_TIMEOUT /\ SD_OK # SD_ERROR
    BY DEF SD_OK, SD_TIMEOUT, SD_ERROR
<1>5. ASSUME NEW k2 \in CardSet, NEW err \in Errors, o = end(k2, err)
      PROVE  /\ o \in Outcomes /\ o.card = k2 /\ o.err = err
             /\ o.answer = (o.err = SD_OK)
  <2>1. (err = SD_OK) \in BOOLEAN
    OBVIOUS
  <2> QED
    BY <1>5, <2>1, Zenon DEF Outcomes
<1>6. SD_OK \in Errors /\ SD_TIMEOUT \in Errors /\ SD_ERROR \in Errors
    BY DEF Errors
<1>7. CASE o = end(done, SD_OK)
    BY <1>1, <1>4, <1>5, <1>6, <1>7
<1>8. CASE o = end(k, SD_TIMEOUT) \/ o = end(k0, SD_TIMEOUT)
    BY <1>2, <1>4, <1>5, <1>6, <1>8
<1>9. CASE o = end(done, SD_TIMEOUT) \/ o = end(done, SD_ERROR)
    BY <1>1, <1>4, <1>5, <1>6, <1>9
<1> QED
    BY <1>3, <1>7, <1>8, <1>9

\* How a command of the driver may end, with the APP_CMD before it if it needs one.
LEMMA CommandOutcome ==
    ASSUME card \in CardSet, sd_rca \in Int, NEW cmd \in CommandNames \ {"APP_CMD"},
           NEW arg \in Int, NEW o \in sd_cmd(cmd, arg)
    PROVE  /\ o.card \in CardSet /\ o.err \in Errors /\ o.answer \in BOOLEAN
           /\ Keeps(card, o.card, cmd)
           /\ o.err = SD_OK => Done(o.card, cmd, arg)
<1>1. CASE cmd \notin AppCommands
    BY <1>1, SentOutcome DEF sd_cmd, Outcomes
<1>2. CASE cmd \in AppCommands
  <2>1. PICK a \in Sent(card, "APP_CMD", sd_rca) :
            o \in IF sd_rca # 0 /\ ~a.answer THEN {[a EXCEPT !.err = SD_ERROR]}
                  ELSE {[p EXCEPT !.err = IF p.answer THEN a.err ELSE @] :
                           p \in Sent(a.card, cmd, arg)}
    BY <1>2 DEF sd_cmd, sd_cmd_app
  <2>2. /\ a \in Outcomes /\ a.card \in CardSet /\ a.answer = (a.err = SD_OK)
        /\ Keeps(card, a.card, "APP_CMD")
    BY SentOutcome DEF CommandNames, Outcomes
  <2>3. CASE sd_rca # 0 /\ ~a.answer
    <3>1. o = [a EXCEPT !.err = SD_ERROR]
      BY <2>1, <2>3
    <3>2. o.card = a.card /\ o.err = SD_ERROR /\ o.answer = a.answer
      BY <2>2, <3>1 DEF Outcomes
    <3> QED
      BY <2>2, <3>2 DEF Keeps, SameCard, Errors, Outcomes, SD_OK, SD_ERROR
  <2>4. CASE ~(sd_rca # 0 /\ ~a.answer)
    <3>1. PICK p \in Sent(a.card, cmd, arg) : o = [p EXCEPT !.err = IF p.answer THEN a.err ELSE @]
      BY <2>1, <2>4
    <3>2. /\ p \in Outcomes /\ p.answer = (p.err = SD_OK)
          /\ Keeps(a.card, p.card, cmd)
          /\ p.err = SD_OK => Done(p.card, cmd, arg)
      BY <2>2, SentOutcome
    <3>3. /\ o.card = p.card /\ o.answer = p.answer
          /\ o.err = IF p.answer THEN a.err ELSE p.err
      BY <3>1, <3>2 DEF Outcomes
    <3> QED
      BY <2>2, <3>2, <3>3 DEF Keeps, SameCard, Outcomes
  <2> QED
    BY <2>3, <2>4
<1> QED
    BY <1>1, <1>2

-----------------------------------------------------------------------------
(* The clocks                                                              *)

\* The frequencies that sd.c is written with.
CodeClocks == BaseClock = 41666666 /\ SlowClock = 400000 /\ FastClock = 25000000

\* For them sd_clk never exceeds what it is asked for, on hosts of every version.
LEMMA ClockKept ==
    ASSUME CodeClocks, sd_hv \in {1, 2}, NEW f \in {SlowClock, FastClock}
    PROVE  BaseClock \div (2 * sd_clk(f)) <= f
<1>1. PowerUpTo(103) = 64
  <2> DEFINE P(d) == d <= 103 /\ \A e \in Divisors : e <= 103 => e <= d
  <2>1. 64 \in Divisors /\ P(64)
    BY DEF Divisors
  <2>2. \A d \in Divisors : P(d) => d = 64
    BY DEF Divisors
  <2>3. PowerUpTo(103) = CHOOSE d \in Divisors : P(d)
    BY DEF PowerUpTo
  <2> HIDE DEF P
  <2>4. (CHOOSE d \in Divisors : P(d)) = 64
    BY <2>1, <2>2
  <2> QED
    BY <2>3, <2>4
<1>2. PowerUpTo(0) = 1
    BY DEF PowerUpTo
<1>3. 41666666 \div 400000 = 104 /\ 41666666 \div 25000000 = 1
    OBVIOUS
<1>4. CASE f = SlowClock
  <2>1. sd_clk(f) = IF sd_hv > 1 THEN 104 ELSE 64
    <3>1. BaseClock \div f = 104 /\ (BaseClock \div f) - 1 = 103
      BY <1>3, <1>4 DEF CodeClocks
    <3> QED
      BY <1>1, <3>1 DEF sd_clk
  <2>2. 41666666 \div (2 * 104) <= 400000 /\ 41666666 \div (2 * 64) <= 400000
    OBVIOUS
  <2> QED
    BY <1>4, <2>1, <2>2 DEF CodeClocks
<1>5. CASE f = FastClock
  <2>1. sd_clk(f) = 2
    <3>1. BaseClock \div f = 1 /\ (BaseClock \div f) - 1 = 0
      BY <1>3, <1>5 DEF CodeClocks
    <3> QED
      BY <1>2, <3>1 DEF sd_clk
  <2>2. 41666666 \div (2 * 2) <= 25000000
    OBVIOUS
  <2> QED
    BY <1>5, <2>1, <2>2 DEF CodeClocks
<1> QED
    BY <1>4, <1>5

-----------------------------------------------------------------------------
(* sd_init                                                                 *)

\* The statements of sd_init that look for a card, those that address it,
\* those of a call of sd_transferblock, and those after sd_init.
Identifying == {"GO_IDLE", "SEND_IF_COND", "SEND_OP_COND", "ALL_SEND_CID", "SEND_REL_ADDR"}
Addressing == {"CARD_SELECT", "SEND_SCR", "SCR", "SET_BUS_WIDTH"}
Moving == {"inhibit", "SET_BLOCKCNT", "open", "block", "data"}
Ready == Moving \cup {"ready"}

\* Types, as far as they matter.
StateOK ==
    /\ pc \in {"sd_init", "failed"} \cup Identifying \cup Addressing \cup Ready
    /\ sd_hv \in {1, 2} /\ sd_rca \in {0, RCA}
    /\ sd_scr \subseteq {"CCS", "SET_BLKCNT", "BUS_WIDTH_4"}
    /\ card \in CardSet

\* What ACMD41 said of the capacity.
CapacityKnown ==
    /\ r \in {"none", "CCS", "COMPLETE"}
    /\ r = "CCS" => card.hc = TRUE
    /\ r = "COMPLETE" => card.hc = FALSE
    /\ pc \in {"ALL_SEND_CID", "SEND_REL_ADDR"} \cup Addressing => r # "none"

\* The driver has an address from SEND_REL_ADDR on, the card's own.
AddressKnown ==
    /\ pc \in {"sd_init"} \cup Identifying => sd_rca = 0
    /\ pc \in Addressing => sd_rca = RCA /\ card.rca = RCA

\* Both use one line until SET_BUS_WIDTH.
OneLine ==
    /\ pc \in {"sd_init"} \cup Identifying \cup Addressing => wide = FALSE
    /\ pc \in (Identifying \ {"GO_IDLE"}) \cup Addressing => card.wide = FALSE

\* The flags, from SCR on.
ScrKnown == pc \in {"SET_BUS_WIDTH"} \cup Ready =>
    sd_scr = card.flags \cup (IF card.hc = TRUE THEN {"CCS"} ELSE {})

\* What sd_init leaves when it succeeds.
Agreed ==
    /\ sd_rca = RCA /\ card.rca = RCA
    /\ wide = card.wide

ClockSafe == CodeClocks =>
    /\ pc \in Identifying => Frequency <= SlowClock
    /\ pc \in Addressing \cup Ready => Frequency <= FastClock

\* The inductive invariant of sd_init.
InitInv == /\ StateOK /\ CapacityKnown /\ AddressKnown /\ OneLine /\ ScrKnown
           /\ pc \in Ready => Agreed
           /\ ClockSafe

\* Before sd_init nothing is known, and nothing is said.
LEMMA InitInitial == ASSUME SdInit PROVE InitInv
<1>1. StateOK
  <2>1. PICK k \in Cards : /\ card = k /\ k.state = "any" /\ k.at = 0 /\ k.left = 0
                           /\ k.preset = 0 /\ ~k.app /\ k.rca = RCA
    BY DEF SdInit
  <2>2. Cards \subseteq CardSet
    <3>1. 0 .. Endless \subseteq Int /\ Blocks \subseteq Int /\ 0 .. MaxNum \subseteq Int
      BY DEF Blocks
    <3> QED
      BY <3>1 DEF Cards, CardSet, CardStates
  <2> QED
    BY <2>1, <2>2 DEF SdInit, StateOK
<1>2. CapacityKnown /\ AddressKnown /\ OneLine /\ pc \notin Ready /\ ScrKnown
    BY DEF SdInit, CapacityKnown, AddressKnown, OneLine, ScrKnown, Identifying, Addressing,
           Ready, Moving
<1>3. ClockSafe
    BY DEF SdInit, ClockSafe, Identifying, Addressing, Ready, Moving
<1> QED
    BY <1>1, <1>2, <1>3 DEF InitInv

\* The controller's reset, and the first clock.
LEMMA ResetStep == ASSUME InitInv, Reset PROVE InitInv'
<1>1. /\ pc = "sd_init" /\ pc' \in {"GO_IDLE", "failed"}
      /\ UNCHANGED <<sd_scr, sd_rca, sd_hv, r, wide, card>>
    BY DEF Reset, Failed
<1>2. StateOK' /\ CapacityKnown' /\ AddressKnown' /\ OneLine' /\ pc' \notin Ready /\ ScrKnown'
    BY <1>1 DEF InitInv, StateOK, ScrKnown, CapacityKnown, AddressKnown, OneLine, Identifying,
                Addressing, Ready, Moving
<1>3. ClockSafe'
  <2>1. CASE pc' = "failed"
    BY <2>1 DEF ClockSafe, Identifying, Addressing, Ready, Moving
  <2>2. CASE pc' = "GO_IDLE"
    <3>1. divisor' = sd_clk(SlowClock)
      BY <2>2 DEF Reset, Failed
    <3>2. CodeClocks => BaseClock \div (2 * sd_clk(SlowClock)) <= SlowClock
      BY ClockKept DEF InitInv, StateOK
    <3>3. CodeClocks => Frequency' <= SlowClock
      BY <3>1, <3>2 DEF Frequency
    <3> QED
      BY <2>2, <3>3 DEF ClockSafe, Identifying, Addressing, Ready, Moving, CodeClocks
  <2> QED
    BY <1>1, <2>1, <2>2
<1> QED
    BY <1>2, <1>3 DEF InitInv

\* A command changes neither what the driver knows nor, but for the commands
\* that are meant to, the card's address and the width of its bus.
CardMoved(cmd) == card' \in CardSet /\ Keeps(card, card', cmd)

\* A step that needs no other clock.
SamePhase ==
    \/ pc \in Identifying /\ pc' \in Identifying \cup {"failed"}
    \/ pc \in Addressing \cup Ready /\ pc' \in Addressing \cup Ready \cup {"failed"}

\* The steps that change the statement, the card and r only.
LEMMA SameDriver ==
    ASSUME InitInv, card' \in CardSet, SamePhase,
           UNCHANGED <<sd_scr, sd_rca, sd_hv, divisor, wide>>
    PROVE  StateOK' /\ ClockSafe'
<1>1. StateOK'
    BY DEF InitInv, StateOK, SamePhase
<1>2. ClockSafe'
  <2>1. Frequency' = Frequency
    BY DEF Frequency
  <2> QED
    BY <2>1 DEF InitInv, ClockSafe, CodeClocks, SamePhase, Identifying, Addressing, Ready, Moving
<1> QED
    BY <1>1, <1>2

\* What a command that ends sd_init leaves does not matter.
LEMMA FailedStep ==
    ASSUME InitInv, NEW cmd, CardMoved(cmd), pc' = "failed",
           UNCHANGED <<sd_scr, sd_hv, wide>>, sd_rca' \in {0, RCA},
           r' = r \/ (r' = IF card.hc THEN "CCS" ELSE "COMPLETE")
    PROVE  InitInv'
<1>1. StateOK'
    BY DEF InitInv, StateOK, CardMoved
<1>2. card.hc \in BOOLEAN /\ card'.hc = card.hc
    BY DEF InitInv, StateOK, CardSet, CardMoved, Keeps, SameCard
<1>3. CapacityKnown'
    BY <1>2 DEF InitInv, CapacityKnown, Addressing
<1>4. AddressKnown' /\ OneLine' /\ ClockSafe' /\ pc' \notin Ready /\ ScrKnown'
    BY DEF AddressKnown, ScrKnown, OneLine, ClockSafe, Identifying, Addressing, Ready, Moving
<1> QED
    BY <1>1, <1>3, <1>4 DEF InitInv

\* GO_IDLE, SEND_IF_COND, CARD_SELECT and SEND_SCR.
LEMMA InitCommandStep == ASSUME InitInv, InitCommand PROVE InitInv'
<1>1. /\ pc \in {"GO_IDLE", "SEND_IF_COND", "CARD_SELECT", "SEND_SCR"}
      /\ Follows["GO_IDLE"] = "SEND_IF_COND" /\ Follows["SEND_IF_COND"] = "SEND_OP_COND"
      /\ Follows["CARD_SELECT"] = "SEND_SCR" /\ Follows["SEND_SCR"] = "SCR"
      /\ UNCHANGED <<sd_scr, sd_rca, sd_hv, divisor, wide, r>>
    BY DEF InitCommand, Follows, init_vars
<1>2. PICK o \in sd_cmd(pc, sd_rca) :
          /\ card' = o.card
          /\ IF o.err = SD_OK THEN pc' = Follows[pc] ELSE pc' = "failed"
    BY DEF InitCommand, Failed
<1>3. card \in CardSet /\ sd_rca \in Int /\ pc \in CommandNames \ {"APP_CMD"}
    BY <1>1 DEF InitInv, StateOK, CommandNames, RCA
<1>4. /\ CardMoved(pc)
      /\ o.err = SD_OK => Done(card', pc, sd_rca)
    BY <1>2, <1>3, CommandOutcome DEF CardMoved
<1>5. CASE o.err # SD_OK
  <2>1. pc' = "failed"
    BY <1>2, <1>5
  <2> QED
    BY <1>1, <1>4, <2>1, FailedStep DEF InitInv, StateOK
<1>6. CASE o.err = SD_OK
  <2>1. pc' = Follows[pc]
    BY <1>2, <1>6
  <2>2. \/ pc = "GO_IDLE" /\ pc' = "SEND_IF_COND"
        \/ pc = "SEND_IF_COND" /\ pc' = "SEND_OP_COND"
        \/ pc = "CARD_SELECT" /\ pc' = "SEND_SCR"
        \/ pc = "SEND_SCR" /\ pc' = "SCR"
    BY <1>1, <2>1
  <2>3. StateOK' /\ ClockSafe'
    BY <1>1, <1>4, <2>2, SameDriver DEF SamePhase, CardMoved, Identifying, Addressing
  <2>4. CapacityKnown'
    BY <1>1, <1>4, <2>2 DEF InitInv, CapacityKnown, CardMoved, Keeps, SameCard, Addressing
  <2>5. AddressKnown'
    BY <1>1, <1>4, <2>2 DEF InitInv, AddressKnown, CardMoved, Keeps, Identifying, Addressing
  <2>6. OneLine'
    BY <1>1, <1>4, <1>6, <2>2 DEF InitInv, OneLine, CardMoved, Keeps, Done, Identifying, Addressing
  <2>7. pc' \notin Ready /\ ScrKnown'
    BY <2>2 DEF ScrKnown, Ready, Moving
  <2> QED
    BY <2>3, <2>4, <2>5, <2>6, <2>7 DEF InitInv
<1> QED
    BY <1>5, <1>6

\* ACMD41: the answer that powered up tells the capacity.
LEMMA SendOpCondStep == ASSUME InitInv, SendOpCond PROVE InitInv'
<1>1. pc = "SEND_OP_COND" /\ UNCHANGED <<sd_scr, sd_rca, sd_hv, divisor, wide>>
    BY DEF SendOpCond
<1>2. PICK cmd \in {"SEND_OP_COND", "SEND_OP_COND_busy"} : \E o \in sd_cmd(cmd, 0) :
          /\ card' = o.card
          /\ r' = IF o.answer /\ cmd = "SEND_OP_COND" THEN (IF card.hc THEN "CCS" ELSE "COMPLETE")
                                                       ELSE r
          /\ IF o.err = SD_ERROR THEN pc' = "failed" ELSE pc' = pc
    BY DEF SendOpCond, Failed
<1>3. PICK o \in sd_cmd(cmd, 0) :
          /\ card' = o.card
          /\ r' = IF o.answer /\ cmd = "SEND_OP_COND" THEN (IF card.hc THEN "CCS" ELSE "COMPLETE")
                                                       ELSE r
          /\ IF o.err = SD_ERROR THEN pc' = "failed" ELSE pc' = pc
    BY <1>2
<1>4. card \in CardSet /\ sd_rca \in Int /\ 0 \in Int /\ cmd \in CommandNames \ {"APP_CMD"}
    BY <1>2 DEF InitInv, StateOK, CommandNames, RCA
<1>5. CardMoved(cmd)
    BY <1>3, <1>4, CommandOutcome DEF CardMoved
<1>6. r' = r \/ (r' = IF card.hc THEN "CCS" ELSE "COMPLETE")
    BY <1>3
<1>7. CASE pc' = "failed"
    BY <1>1, <1>5, <1>6, <1>7, FailedStep DEF InitInv, StateOK
<1>8. CASE pc' = pc
  <2>1. StateOK' /\ ClockSafe'
    BY <1>1, <1>5, <1>8, SameDriver DEF SamePhase, CardMoved, Identifying
  <2>2. card.hc \in BOOLEAN /\ card'.hc = card.hc
    BY <1>4, <1>5 DEF CardSet, CardMoved, Keeps, SameCard
  <2>3. CapacityKnown'
    BY <1>1, <1>6, <1>8, <2>2 DEF InitInv, CapacityKnown, Addressing
  <2>4. AddressKnown' /\ pc' \notin Ready /\ ScrKnown'
    BY <1>1, <1>8 DEF InitInv, ScrKnown, AddressKnown, Identifying, Addressing, Ready, Moving
  <2>5. OneLine'
    BY <1>1, <1>2, <1>5, <1>8 DEF InitInv, OneLine, CardMoved, Keeps, Identifying, Addressing
  <2> QED
    BY <2>1, <2>3, <2>4, <2>5 DEF InitInv
<1> QED
    BY <1>3, <1>7, <1>8

\* Powered up: the answer is there.
LEMMA OpCondDoneStep == ASSUME InitInv, OpCondDone PROVE InitInv'
<1>1. /\ pc = "SEND_OP_COND"
      /\ pc' = "failed" \/ (pc' = "ALL_SEND_CID" /\ r # "none")
      /\ UNCHANGED <<sd_scr, sd_rca, sd_hv, r, divisor, wide, card>>
    BY DEF OpCondDone, Failed, init_vars
<1>2. StateOK' /\ ClockSafe'
    BY <1>1, SameDriver DEF SamePhase, Identifying, InitInv, StateOK
<1>3. CapacityKnown' /\ AddressKnown' /\ OneLine' /\ ScrKnown' /\ pc' \notin Ready
    BY <1>1 DEF InitInv, ScrKnown, CapacityKnown, AddressKnown, OneLine, Identifying, Addressing,
                Ready, Moving
<1> QED
    BY <1>2, <1>3 DEF InitInv

\* ALL_SEND_CID, whatever became of it.
LEMMA AllSendCidStep == ASSUME InitInv, AllSendCid PROVE InitInv'
<1>1. /\ pc = "ALL_SEND_CID" /\ pc' = "SEND_REL_ADDR"
      /\ UNCHANGED <<sd_scr, sd_rca, sd_hv, r, divisor, wide>>
    BY DEF AllSendCid, init_vars
<1>2. PICK o \in sd_cmd("ALL_SEND_CID", 0) : card' = o.card
    BY DEF AllSendCid
<1>3. /\ card \in CardSet /\ sd_rca \in Int /\ 0 \in Int
      /\ "ALL_SEND_CID" \in CommandNames \ {"APP_CMD"}
    BY DEF InitInv, StateOK, CommandNames, RCA
<1>4. CardMoved("ALL_SEND_CID")
    BY <1>2, <1>3, CommandOutcome DEF CardMoved
<1>5. StateOK' /\ ClockSafe'
    BY <1>1, <1>4, SameDriver DEF SamePhase, CardMoved, Identifying
<1>6. CapacityKnown'
    BY <1>1, <1>4 DEF InitInv, CapacityKnown, CardMoved, Keeps, SameCard, Addressing
<1>7. AddressKnown' /\ OneLine' /\ ScrKnown' /\ pc' \notin Ready
    BY <1>1, <1>4 DEF InitInv, ScrKnown, AddressKnown, OneLine, CardMoved, Keeps, Identifying,
                      Addressing, Ready, Moving
<1> QED
    BY <1>5, <1>6, <1>7 DEF InitInv

\* SEND_REL_ADDR: the card's address is the driver's, and the clock is that of
\* transfers.
LEMMA SendRelAddrStep == ASSUME InitInv, SendRelAddr PROVE InitInv'
<1>1. /\ pc = "SEND_REL_ADDR"
      /\ UNCHANGED <<sd_scr, sd_hv, r, wide>>
    BY DEF SendRelAddr
<1>2. PICK o \in sd_cmd("SEND_REL_ADDR", 0) :
          /\ card' = o.card
          /\ IF o.err = SD_OK
             THEN /\ sd_rca' = o.card.rca
                  /\ \/ pc' = "CARD_SELECT" /\ divisor' = sd_clk(FastClock)
                     \/ pc' = "failed"
             ELSE sd_rca' = 0 /\ pc' = "failed"
    BY DEF SendRelAddr, Failed
<1>3. /\ card \in CardSet /\ sd_rca \in Int /\ 0 \in Int
      /\ "SEND_REL_ADDR" \in CommandNames \ {"APP_CMD"}
    BY DEF InitInv, StateOK, CommandNames, RCA
<1>4. CardMoved("SEND_REL_ADDR") /\ (o.err = SD_OK => Done(card', "SEND_REL_ADDR", 0))
    BY <1>2, <1>3, CommandOutcome DEF CardMoved
<1>5. o.err = SD_OK => card'.rca = RCA /\ sd_rca' = RCA
    BY <1>2, <1>4 DEF Done
<1>6. CASE pc' = "failed"
  <2>1. sd_rca' \in {0, RCA}
    BY <1>2, <1>5
  <2> QED
    BY <1>1, <1>4, <1>6, <2>1, FailedStep
<1>7. CASE pc' # "failed"
  <2>1. /\ pc' = "CARD_SELECT" /\ divisor' = sd_clk(FastClock)
        /\ card'.rca = RCA /\ sd_rca' = RCA
    BY <1>2, <1>5, <1>7
  <2>2. StateOK'
    BY <1>1, <1>4, <2>1 DEF InitInv, StateOK, CardMoved, Addressing
  <2>3. CapacityKnown'
    BY <1>1, <1>4, <2>1 DEF InitInv, CapacityKnown, CardMoved, Keeps, SameCard, Addressing
  <2>4. AddressKnown' /\ OneLine' /\ ScrKnown' /\ pc' \notin Ready
    BY <1>1, <1>4, <2>1 DEF InitInv, ScrKnown, AddressKnown, OneLine, CardMoved, Keeps, Identifying,
                            Addressing, Ready, Moving
  <2>5. ClockSafe'
    <3>1. CodeClocks => BaseClock \div (2 * sd_clk(FastClock)) <= FastClock
      BY ClockKept DEF InitInv, StateOK
    <3>2. CodeClocks => Frequency' <= FastClock
      BY <2>1, <3>1 DEF Frequency
    <3> QED
      BY <2>1, <3>2 DEF ClockSafe, Identifying, Addressing, Ready, Moving, CodeClocks
  <2> QED
    BY <2>2, <2>3, <2>4, <2>5 DEF InitInv
<1> QED
    BY <1>6, <1>7

\* SCR: the flags of the card, with that of the capacity.
LEMMA ReadScrStep == ASSUME InitInv, ReadScr PROVE InitInv'
<1>1. /\ pc = "SCR" /\ UNCHANGED <<sd_rca, sd_hv, r, divisor, wide, card>>
      /\ \/ pc' \in {"SET_BUS_WIDTH", "ready"} /\ sd_scr' = ScrFlags
         \/ pc' = "failed" /\ UNCHANGED sd_scr
    BY DEF ReadScr, Failed
<1>2. /\ card \in CardSet /\ card.flags \subseteq {"SET_BLKCNT", "BUS_WIDTH_4"}
      /\ card.hc \in BOOLEAN
    BY DEF InitInv, StateOK, CardSet
<1>3. ScrFlags = card.flags \cup (IF card.hc = TRUE THEN {"CCS"} ELSE {})
  <2>1. r # "none" /\ (r = "CCS" => card.hc = TRUE) /\ (r = "COMPLETE" => card.hc = FALSE)
        /\ r \in {"none", "CCS", "COMPLETE"}
    BY <1>1 DEF InitInv, CapacityKnown, Addressing
  <2> QED
    BY <1>2, <2>1 DEF ScrFlags
<1>4. StateOK'
    BY <1>1, <1>2, <1>3 DEF InitInv, StateOK, Addressing, Ready
<1>5. ClockSafe'
  <2>1. Frequency' = Frequency
    BY <1>1 DEF Frequency
  <2> QED
    BY <1>1, <2>1 DEF InitInv, ClockSafe, CodeClocks, Identifying, Addressing, Ready, Moving
<1>6. CapacityKnown' /\ AddressKnown' /\ OneLine'
    BY <1>1 DEF InitInv, CapacityKnown, AddressKnown, OneLine, Identifying, Addressing
<1>7. ScrKnown' /\ (pc' \in Ready => Agreed')
  <2>1. ScrKnown'
    BY <1>1, <1>3 DEF ScrKnown, Ready, Moving
  <2>2. sd_rca = RCA /\ card.rca = RCA /\ wide = FALSE /\ card.wide = FALSE
    BY <1>1 DEF InitInv, AddressKnown, OneLine, Addressing
  <2> QED
    BY <1>1, <2>1, <2>2 DEF Agreed
<1> QED
    BY <1>4, <1>5, <1>6, <1>7 DEF InitInv

\* SET_BUS_WIDTH: both sides change, or sd_init fails.
LEMMA SetBusWidthStep == ASSUME InitInv, SetBusWidth PROVE InitInv'
<1>1. pc = "SET_BUS_WIDTH" /\ UNCHANGED <<sd_scr, sd_rca, sd_hv, r, divisor>>
    BY DEF SetBusWidth
<1>2. PICK o \in sd_cmd("SET_BUS_WIDTH", sd_rca) :
          /\ card' = o.card
          /\ wide' = (o.err = SD_OK)
          /\ IF o.err = SD_OK THEN pc' = "ready" ELSE pc' = "failed"
    BY DEF SetBusWidth, Failed
<1>3. /\ card \in CardSet /\ sd_rca \in Int
      /\ "SET_BUS_WIDTH" \in CommandNames \ {"APP_CMD"}
    BY DEF InitInv, StateOK, CommandNames, RCA
<1>4. CardMoved("SET_BUS_WIDTH") /\ (o.err = SD_OK => Done(card', "SET_BUS_WIDTH", sd_rca))
    BY <1>2, <1>3, CommandOutcome DEF CardMoved
<1>5. pc' \in {"ready", "failed"}
    BY <1>2
<1>6. StateOK'
    BY <1>1, <1>4, <1>5 DEF InitInv, StateOK, CardMoved, Ready
<1>7. CapacityKnown'
    BY <1>1, <1>4, <1>5 DEF InitInv, CapacityKnown, CardMoved, Keeps, SameCard, Addressing
<1>8. AddressKnown' /\ OneLine'
    BY <1>5 DEF AddressKnown, OneLine, Identifying, Addressing
<1>9. ScrKnown'
    BY <1>1, <1>4, <1>5 DEF InitInv, ScrKnown, CardMoved, Keeps, SameCard, Ready, Moving
<1>10. pc' \in Ready => Agreed'
  <2>1. SUFFICES ASSUME pc' \in Ready PROVE Agreed'
    OBVIOUS
  <2>2. o.err = SD_OK
    BY <1>2, <2>1 DEF Ready, Moving
  <2>3. wide' = TRUE /\ card'.wide = TRUE
    BY <1>2, <1>4, <2>2 DEF Done
  <2>4. sd_rca' = RCA /\ card'.rca = RCA
    BY <1>1, <1>4 DEF InitInv, AddressKnown, Addressing, CardMoved, Keeps
  <2> QED
    BY <2>3, <2>4 DEF Agreed
<1>11. ClockSafe'
  <2>1. Frequency' = Frequency
    BY <1>1 DEF Frequency
  <2> QED
    BY <1>1, <1>5, <2>1 DEF InitInv, ClockSafe, CodeClocks, Identifying, Addressing, Ready, Moving
<1> QED
    BY <1>6, <1>7, <1>8, <1>9, <1>10, <1>11 DEF InitInv

\* A step of a call: what driver and card agreed on stays.
LEMMA AfterInitStep ==
    ASSUME InitInv, NEW cmd \in {"SET_BLOCKCNT", "SINGLE", "MULTI", "STOP_TRANS"}, CardMoved(cmd),
           pc \in Ready, pc' \in Ready, UNCHANGED init_vars
    PROVE  InitInv'
<1>1. UNCHANGED <<sd_scr, sd_rca, sd_hv, r, divisor, wide>>
    BY DEF init_vars
<1>2. StateOK' /\ ClockSafe'
    BY <1>1, SameDriver DEF SamePhase, CardMoved
<1>3. CapacityKnown'
    BY <1>1 DEF InitInv, CapacityKnown, CardMoved, Keeps, SameCard, Addressing, Ready, Moving
<1>4. AddressKnown' /\ OneLine'
    BY DEF AddressKnown, OneLine, Identifying, Addressing, Ready, Moving
<1>5. ScrKnown' /\ Agreed'
    BY <1>1 DEF InitInv, ScrKnown, Agreed, CardMoved, Keeps, SameCard
<1> QED
    BY <1>2, <1>3, <1>4, <1>5 DEF InitInv

\* The card moves a block.
LEMMA AdvancedKeeps ==
    ASSUME NEW k \in CardSet, NEW cmd
    PROVE  /\ Advanced(k) \in CardSet /\ Keeps(k, Advanced(k), cmd)
           /\ k.left # 1 /\ k.at + 1 \in Blocks => Advanced(k).at = k.at + 1
           /\ k.left = 1 => Advanced(k).state = "tran"
<1>1. CASE k.left = 1
  <2> DEFINE e == [k EXCEPT !.state = "tran", !.left = 0]
  <2>1. Advanced(k) = e
    BY <1>1 DEF Advanced
  <2>2. e \in CardSet
    BY OthersWritten
  <2>3. Keeps(k, e, cmd) /\ e.state = "tran"
    BY DEF CardSet, Keeps, SameCard
  <2> QED
    BY <1>1, <2>1, <2>2, <2>3
<1>2. CASE k.left # 1
  <2> DEFINE n == IF k.left = Endless THEN k.left ELSE k.left - 1
             p == IF k.at + 1 \in Blocks THEN k.at + 1 ELSE k.at
             k1 == [k EXCEPT !.left = n]
             e == [k EXCEPT !.left = n, !.at = p]
  <2>1. Advanced(k) = e
    BY <1>2 DEF Advanced
  <2>2. n \in Int /\ p \in Int
    BY DEF CardSet
  <2> HIDE DEF n, p
  <2>3. k1 \in CardSet
    BY <2>2, CardWritten, Zenon
  <2>4. e = [k1 EXCEPT !.at = p]
    BY DEF CardSet
  <2>5. Keeps(k, e, cmd) /\ e.at = p
    BY DEF CardSet, Keeps, SameCard
  <2> HIDE DEF k1
  <2>6. e \in CardSet
    BY <2>2, <2>3, <2>4, CardWritten, Zenon
  <2>7. k.at + 1 \in Blocks => e.at = k.at + 1
    BY <2>5 DEF p
  <2> HIDE DEF e
  <2> QED
    BY <1>2, <2>1, <2>5, <2>6, <2>7
<1> QED
    BY <1>1, <1>2

-----------------------------------------------------------------------------
(* sd_transferblock                                                        *)

Places == 0 .. MaxNum - 1
NoCall == [rw |-> "none", lba |-> 0, num |-> 1]

\* What a block holds, on the card and on the way.
DataOK ==
    /\ buffer \in [Places -> Data]
    /\ blocks \in [Blocks -> Data]
    /\ sending # << >> => \E d \in Data : sending = <<d>>
    /\ errors \in BOOLEAN
    /\ writing # << >> => writing \in Blocks \X Data

\* How far a call is.
Progress ==
    /\ pc \in Moving => call \in Calls
    /\ pc \notin Moving => call = NoCall
    /\ c \in Nat
    /\ pc \in {"inhibit", "SET_BLOCKCNT", "open"} => c = 0
    /\ pc = "block" => c <= call.num
    /\ pc = "data" => c < call.num
    /\ pc \in {"SET_BLOCKCNT", "open"} => Has("CCS")

\* How many blocks of the call the card has still to get of the c that were moved.
Behind == IF sending = << >> THEN 0 ELSE 1

\* The card is at the block that comes next, after the one on its way.
InPlace == ~errors /\ card.state = "data" =>
    /\ pc = "block" /\ Has("CCS") /\ c < call.num => card.at = call.lba + c - Behind
    /\ pc = "data" => card.at = call.lba + c - Behind

\* No command moves the card while a block is on its way.
OnItsWay == sending # << >> =>
    /\ pc \in {"ready", "inhibit", "block", "data"}
    /\ pc = "block" /\ ~Has("CCS") => card.state = "data"
    /\ card.at \in Blocks

\* The inductive invariant of sd_transferblock.
MoveInv == DataOK /\ Progress /\ InPlace /\ OnItsWay

\* The numbers of a call.
LEMMA CallNumbers ==
    ASSUME Progress
    PROVE  /\ call.lba \in Nat /\ call.num \in Nat \ {0} /\ c \in Nat
           /\ pc \in Moving => /\ call \in Calls /\ call # NoCall /\ call.num <= MaxNum
                               /\ call.rw \in {"read", "write"}
                               /\ call.lba + call.num - 1 \in Blocks
<1>1. MaxNum \in Nat \ {0} /\ LastBlock \in Nat
    BY SdAssumption
<1>2. CASE pc \in Moving
    BY <1>1, <1>2 DEF Progress, Calls, Blocks, NoCall
<1>3. CASE pc \notin Moving
    BY <1>3 DEF Progress, NoCall
<1> QED
    BY <1>2, <1>3

\* A command that the card does not answer, or that is not sent for errors, and
\* STOP_TRANS leave the card at its block.
LEMMA PlaceKept ==
    ASSUME card \in CardSet, NEW cmd \in CommandNames \ AppCommands, NEW arg \in Int,
           NEW o \in sd_cmd(cmd, arg)
    PROVE  /\ errors => o.err # SD_OK /\ o.card = card
           /\ cmd = "SINGLE" /\ card.state = "data" => o.err # SD_OK /\ o.card.at = card.at
           /\ cmd = "STOP_TRANS" => o.card.at = card.at
<1> DEFINE done == Executed(card, cmd, arg)
           k0 == [card EXCEPT !.app = FALSE]
           end(card0, err) == [card |-> card0, err |-> err, answer |-> err = SD_OK]
<1>1. o \in Sent(card, cmd, arg)
    BY DEF sd_cmd
<1>2. SD_OK # SD_TIMEOUT
    BY DEF SD_OK, SD_TIMEOUT
<1>3. k0.at = card.at
    BY DEF CardSet
<1>4. cmd = "SINGLE" /\ card.state = "data" => ~Legal(card, cmd, arg)
    BY DEF Legal
<1>5. cmd = "STOP_TRANS" => done.at = card.at
  <2>1. cmd = "STOP_TRANS" => done = [Cleared(card) EXCEPT !.state = "tran", !.left = 0]
    BY DEF Executed, Cleared
  <2>2. Cleared(card) \in CardSet /\ Cleared(card).at = card.at
    BY ClearedKeeps DEF Cleared, CardSet
  <2> QED
    BY <2>1, <2>2 DEF CardSet
<1>6. ASSUME errors PROVE o.card = card /\ o.err = SD_TIMEOUT
  <2>1. o = end(card, SD_TIMEOUT)
    BY <1>1, <1>6, Zenon DEF Sent
  <2> QED
    BY <2>1
<1>7. ASSUME ~errors, ~Legal(card, cmd, arg) PROVE o.card = k0 /\ o.err = SD_TIMEOUT
  <2>1. o = end(k0, SD_TIMEOUT)
    BY <1>1, <1>7, Zenon DEF Sent
  <2> HIDE DEF k0
  <2> QED
    BY <2>1
<1>8. ASSUME ~errors, Legal(card, cmd, arg) PROVE o.card = done \/ o.card = card
  <2>1. \/ o = end(done, SD_OK) \/ o = end(card, SD_TIMEOUT) \/ o = end(done, SD_TIMEOUT)
        \/ o = end(done, SD_ERROR)
    BY <1>1, <1>8 DEF Sent
  <2> HIDE DEF done
  <2> QED
    BY <2>1
<1> HIDE DEF done, k0
<1> QED
    BY <1>2, <1>3, <1>4, <1>5, <1>6, <1>7, <1>8

\* Every statement of a call that sends a command.
LEMMA CommandStep ==
    ASSUME InitInv, NEW cmd \in {"SET_BLOCKCNT", "SINGLE", "MULTI", "STOP_TRANS"},
           NEW arg \in Int, NEW o \in sd_cmd(cmd, arg), card' = o.card,
           pc \in Ready, pc' \in Ready, UNCHANGED init_vars
    PROVE  InitInv' /\ (o.err = SD_OK => Done(card', cmd, arg))
<1>1. card \in CardSet /\ sd_rca \in Int /\ cmd \in CommandNames \ {"APP_CMD"}
    BY DEF InitInv, StateOK, CommandNames, RCA
<1>2. CardMoved(cmd) /\ (o.err = SD_OK => Done(card', cmd, arg))
    BY <1>1, CommandOutcome DEF CardMoved
<1> QED
    BY <1>2, AfterInitStep

\* A card that is not asked anything agrees as before.
LEMMA CardKept ==
    ASSUME InitInv, UNCHANGED card, pc \in Ready, pc' \in Ready, UNCHANGED init_vars
    PROVE  InitInv'
<1>1. CardMoved("SINGLE")
    BY DEF InitInv, StateOK, CardMoved, Keeps, SameCard
<1> QED
    BY <1>1, AfterInitStep

\* A command of a call goes on, or the call returns 0.
LEMMA CommandGoesOn ==
    ASSUME InitInv, NEW cmd \in {"SET_BLOCKCNT", "SINGLE", "MULTI"}, NEW arg \in Int,
           NEW to \in Ready, pc \in Ready, Command(cmd, arg, to)
    PROVE  /\ InitInv'
           /\ UNCHANGED <<sd_scr, buffer>> /\ UNCHANGED way_vars
           /\ cmd = "SINGLE" /\ card.state = "data" => Return(0) /\ card'.at = card.at
           /\ \/ /\ pc' = to /\ UNCHANGED <<call, c, result>> /\ Done(card', cmd, arg)
                 /\ ~errors /\ ~(cmd = "SINGLE" /\ card.state = "data")
              \/ Return(0)
<1>1. PICK o \in sd_cmd(cmd, arg) :
          /\ card' = o.card
          /\ IF o.err = SD_OK THEN pc' = to /\ UNCHANGED <<call, c, result>> ELSE Return(0)
    BY DEF Command
<1>2. pc' \in Ready
    BY <1>1 DEF Return, Ready
<1>3. UNCHANGED init_vars /\ UNCHANGED <<sd_scr, buffer>> /\ UNCHANGED way_vars
    BY DEF Command, init_vars
<1>4. InitInv' /\ (o.err = SD_OK => Done(card', cmd, arg))
    BY <1>1, <1>2, <1>3, CommandStep
<1>5. /\ errors => o.err # SD_OK
      /\ cmd = "SINGLE" /\ card.state = "data" => o.err # SD_OK /\ o.card.at = card.at
  <2>1. card \in CardSet /\ cmd \in CommandNames \ AppCommands
    BY DEF InitInv, StateOK, CommandNames, AppCommands
  <2> QED
    BY <1>1, <2>1, PlaceKept
<1> QED
    BY <1>1, <1>3, <1>4, <1>5

\* The block that a byte address stands for.
LEMMA BlockOfByte ==
    ASSUME NEW n \in Nat
    PROVE  n * BlockSize \in Int /\ (n * BlockSize) \div BlockSize = n
<1> DEFINE b == BlockSize
           q == (n * b) \div b
<1>1. b \in Nat \ {0}
    BY SdAssumption
<1> HIDE DEF b
<1>2. n * b \in Nat /\ q \in Int
    BY <1>1
<1>3. b * q <= n * b /\ n * b < b * q + b
    BY <1>1, <1>2
<1> HIDE DEF q
<1>4. q <= n /\ n < q + 1
    BY <1>1, <1>2, <1>3
<1>5. q = n
    BY <1>2, <1>4
<1> QED
    BY <1>2, <1>5 DEF b, q

\* What a call is for BlockTransfers.
Blockwise == BT!BlocksNext \/ UNCHANGED BT!block_vars

\* The block on its way has its place as long as the card stays there.
Unmoved == UNCHANGED way_vars /\ (sending = << >> \/ UNCHANGED card.at)

LEMMA UnmovedWay == ASSUME Unmoved PROVE UNCHANGED <<Stored, Flying, errors>>
    BY DEF Unmoved, way_vars, Stored, Flying

\* Steps that BlockTransfers does not see.
LEMMA Unseen ==
    ASSUME UNCHANGED <<call, buffer, c, result>>, Unmoved
    PROVE  Blockwise /\ UNCHANGED BT!block_vars
    BY UnmovedWay DEF Blockwise, BT!block_vars

\* A call that returns early reports 0, and may clear the errors.
LEMMA ReturnsNothing ==
    ASSUME MoveInv, pc \in Moving, Return(0), UNCHANGED <<buffer, sending, blocks, writing>>,
           sending = << >> \/ UNCHANGED card.at, errors' \in {errors, FALSE}
    PROVE  Blockwise /\ MoveInv'
<1>1. Stored' = Stored /\ Flying' = Flying
    BY DEF Stored, Flying
<1>2. call # NoCall
    BY CallNumbers DEF MoveInv
<1>3. call' = NoCall /\ result' = 0 /\ c' = c /\ pc' = "ready"
    BY DEF Return, NoCall
<1>4. BT!Finish
    BY <1>1, <1>2, <1>3 DEF BT!Finish, BT!None, NoCall
<1>5. MoveInv'
    BY <1>3 DEF MoveInv, DataOK, Progress, InPlace, OnItsWay, Moving
<1> QED
    BY <1>4, <1>5 DEF Blockwise, BT!BlocksNext

\* sd_init moves no block.
LEMMA InitMovesNothing ==
    ASSUME MoveInv, pc \notin Moving \cup {"ready"}, pc' \notin Moving,
           UNCHANGED io_vars, UNCHANGED way_vars
    PROVE  Blockwise /\ MoveInv'
<1>1. UNCHANGED <<call, c, buffer, result, sending, errors, blocks, writing>>
    BY DEF io_vars, way_vars
<1>2. sending = << >>
    BY DEF MoveInv, OnItsWay, Moving
<1>3. MoveInv'
    BY <1>1, <1>2 DEF MoveInv, DataOK, Progress, InPlace, OnItsWay, Moving
<1> QED
    BY <1>1, <1>2, <1>3, Unseen DEF Unmoved

\* A call begins.
LEMMA BeginStep == ASSUME MoveInv, sd_transferblock PROVE Blockwise /\ MoveInv'
<1>1. /\ pc = "ready" /\ pc' = "inhibit" /\ call' \in Calls /\ c' = 0
      /\ buffer' = buffer \/ buffer' \in [Places -> Data]
      /\ UNCHANGED <<result, card, sending, errors, blocks, writing>>
    BY DEF sd_transferblock, Places, way_vars
<1>2. buffer' \in [Places -> Data]
    BY <1>1 DEF MoveInv, DataOK
<1>3. call = NoCall
    BY <1>1 DEF MoveInv, Progress, Moving
<1>4. call' \in BT!Calls
  <2>1. MaxNum \in Nat \ {0} /\ LastBlock \in Nat
    BY SdAssumption
  <2>2. ASSUME NEW k \in Calls PROVE k.lba .. k.lba + k.num - 1 \subseteq Blocks
    BY <2>1 DEF Calls, Blocks
  <2> QED
    BY <1>1, <2>2 DEF Calls, BT!Calls
<1>5. Stored' = Stored /\ Flying' = Flying
    BY <1>1 DEF Stored, Flying
<1>6. BT!Begin
    BY <1>1, <1>2, <1>3, <1>4, <1>5 DEF BT!Begin, BT!None, BT!Places, NoCall, Places
<1>7. MoveInv'
    BY <1>1, <1>2 DEF MoveInv, DataOK, Progress, InPlace, OnItsWay, Moving
<1> QED
    BY <1>6, <1>7 DEF Blockwise, BT!BlocksNext

\* DAT_INHIBIT is gone, or it does not go.
LEMMA DatInhibitStep == ASSUME MoveInv, DatInhibit PROVE Blockwise /\ MoveInv'
<1>1. /\ pc = "inhibit" /\ pc \in Moving /\ UNCHANGED sd_scr
      /\ UNCHANGED <<card, buffer, sending, errors, blocks, writing>>
    BY DEF DatInhibit, Moving, init_vars, way_vars
<1>2. CASE Return(0)
    BY <1>1, <1>2, ReturnsNothing
<1>3. CASE ~Return(0)
  <2>1. /\ pc' = IF ~Has("CCS") THEN "block"
                 ELSE IF call.num > 1 /\ Has("SET_BLKCNT") THEN "SET_BLOCKCNT" ELSE "open"
        /\ sending = << >>
        /\ UNCHANGED <<call, c, result>>
    BY <1>3 DEF DatInhibit
  <2>2. Has("CCS")' = Has("CCS")
    BY <1>1 DEF Has
  <2>3. c = 0 /\ 0 <= call.num /\ call \in Calls
    BY <1>1, CallNumbers DEF MoveInv, Progress
  <2>4. MoveInv'
    BY <1>1, <2>1, <2>2, <2>3 DEF MoveInv, DataOK, Progress, InPlace, OnItsWay, Moving
  <2> QED
    BY <1>1, <2>1, <2>4, Unseen DEF Unmoved, way_vars
<1> QED
    BY <1>2, <1>3

\* Flags and capacity are one, as sd_init left them.
LEMMA CcsIsCapacity == ASSUME InitInv, pc \in Ready PROVE Has("CCS") <=> card.hc = TRUE
    BY DEF InitInv, StateOK, ScrKnown, CardSet, Has

\* SET_BLOCKCNT.
LEMMA SetBlockcntStep ==
    ASSUME InitInv, MoveInv, SetBlockcnt PROVE InitInv' /\ Blockwise /\ MoveInv'
<1>1. pc = "SET_BLOCKCNT" /\ pc \in Moving /\ pc \in Ready /\ "open" \in Ready
    BY DEF SetBlockcnt, Moving, Ready
<1>2. call.num \in Int /\ call \in Calls /\ c = 0 /\ Has("CCS") /\ sending = << >>
    BY <1>1, CallNumbers DEF MoveInv, Progress, OnItsWay
<1>3. /\ InitInv'
      /\ UNCHANGED <<sd_scr, buffer>> /\ UNCHANGED way_vars
      /\ \/ pc' = "open" /\ UNCHANGED <<call, c, result>>
         \/ Return(0)
    BY <1>1, <1>2, CommandGoesOn DEF SetBlockcnt
<1>4. CASE Return(0)
    BY <1>1, <1>2, <1>3, <1>4, ReturnsNothing DEF way_vars
<1>5. CASE ~Return(0)
  <2>1. MoveInv'
    BY <1>2, <1>3, <1>5
       DEF MoveInv, DataOK, Progress, InPlace, OnItsWay, Moving, Has, way_vars
  <2> QED
    BY <1>2, <1>3, <1>5, <2>1, Unseen DEF Unmoved
<1> QED
    BY <1>4, <1>5

\* The command for all blocks of a call.
LEMMA OpenStep == ASSUME InitInv, MoveInv, Open PROVE InitInv' /\ Blockwise /\ MoveInv'
<1>1. pc = "open" /\ pc \in Moving /\ pc \in Ready /\ "block" \in Ready
    BY DEF Open, Moving, Ready
<1>2. /\ call.lba \in Nat /\ call.num \in Nat \ {0} /\ call \in Calls
      /\ c = 0 /\ Has("CCS") /\ sending = << >>
    BY <1>1, CallNumbers DEF MoveInv, Progress, OnItsWay
<1>3. PICK cmd \in {"SINGLE", "MULTI"} : Command(cmd, call.lba, "block")
    BY DEF Open
<1>4. /\ InitInv'
      /\ UNCHANGED <<sd_scr, buffer>> /\ UNCHANGED way_vars
      /\ \/ pc' = "block" /\ UNCHANGED <<call, c, result>> /\ Done(card', cmd, call.lba)
         \/ Return(0)
    BY <1>1, <1>2, <1>3, CommandGoesOn
<1>5. CASE Return(0)
    BY <1>1, <1>2, <1>4, <1>5, ReturnsNothing DEF way_vars
<1>6. CASE ~Return(0)
  <2>1. pc' = "block" /\ UNCHANGED <<call, c, result>> /\ Done(card', cmd, call.lba)
    BY <1>4, <1>6
  <2>2. card'.hc = TRUE
    <3>1. pc' \in Ready /\ Has("CCS")'
      BY <1>1, <1>2, <1>4, <2>1 DEF Has
    <3> QED
      BY <1>4, <3>1 DEF InitInv, StateOK, ScrKnown, CardSet, Has
  <2>3. card'.at = call.lba
    BY <2>1, <2>2, <1>3 DEF Done
  <2>4. call.lba + 0 - 0 = call.lba
    BY <1>2
  <2>5. MoveInv'
    BY <1>2, <1>4, <2>1, <2>3, <2>4
       DEF MoveInv, DataOK, Progress, InPlace, Behind, OnItsWay, Moving, Has, way_vars
  <2> QED
    BY <1>2, <1>4, <2>1, <2>5, Unseen DEF Unmoved
<1> QED
    BY <1>5, <1>6

\* The next block: with a command of its own on cards of standard capacity.
LEMMA BlockStep == ASSUME InitInv, MoveInv, Block PROVE InitInv' /\ Blockwise /\ MoveInv'
<1>1. pc = "block" /\ c < call.num /\ pc \in Moving /\ pc \in Ready /\ "data" \in Ready
    BY DEF Block, Moving, Ready
<1>2. /\ call.lba \in Nat /\ call.num \in Nat \ {0} /\ c \in Nat /\ call \in Calls
    BY <1>1, CallNumbers DEF MoveInv
<1>3. CASE Has("CCS")
  <2>1. /\ pc' = "data" /\ UNCHANGED init_vars
        /\ UNCHANGED <<sd_scr, call, c, buffer, result, card>> /\ UNCHANGED way_vars
    BY <1>3 DEF Block, init_vars, io_vars
  <2>2. InitInv'
    BY <1>1, <2>1, CardKept
  <2>3. MoveInv'
    BY <1>1, <1>2, <1>3, <2>1
       DEF MoveInv, DataOK, Progress, InPlace, Behind, OnItsWay, Moving, Has, way_vars
  <2> QED
    BY <2>1, <2>2, <2>3, Unseen DEF Unmoved
<1>4. CASE ~Has("CCS")
  <2>1. Command("SINGLE", ByteAddress, "data")
    BY <1>4 DEF Block
  <2>2. /\ call.lba + c \in Nat /\ ByteAddress \in Int
        /\ ByteAddress \div BlockSize = call.lba + c
    BY <1>2, BlockOfByte DEF ByteAddress
  <2>3. /\ InitInv'
        /\ UNCHANGED <<sd_scr, buffer>> /\ UNCHANGED way_vars
        /\ card.state = "data" => Return(0) /\ card'.at = card.at
        /\ \/ /\ pc' = "data" /\ UNCHANGED <<call, c, result>>
              /\ Done(card', "SINGLE", ByteAddress) /\ card.state # "data"
           \/ Return(0)
    BY <1>1, <2>1, <2>2, CommandGoesOn
  <2>4. sending # << >> => card.state = "data"
    BY <1>1, <1>4 DEF MoveInv, OnItsWay
  <2>5. CASE Return(0)
    BY <1>1, <2>3, <2>4, <2>5, ReturnsNothing DEF way_vars
  <2>6. CASE ~Return(0)
    <3>1. /\ pc' = "data" /\ UNCHANGED <<call, c, result>>
          /\ Done(card', "SINGLE", ByteAddress) /\ sending = << >>
      BY <2>3, <2>4, <2>6
    <3>2. card'.hc = FALSE
      <4>1. pc' \in Ready /\ ~Has("CCS")'
        BY <1>1, <1>4, <2>3, <3>1 DEF Has
      <4> QED
        BY <2>3, <4>1 DEF InitInv, StateOK, ScrKnown, CardSet, Has
    <3>3. card'.at = call.lba + c - 0
      BY <1>2, <2>2, <3>1, <3>2 DEF Done
    <3>4. MoveInv'
      BY <1>1, <1>2, <2>3, <3>1, <3>3
         DEF MoveInv, DataOK, Progress, InPlace, Behind, OnItsWay, Moving, Has, way_vars
    <3> QED
      BY <2>3, <3>1, <3>4, Unseen DEF Unmoved
  <2> QED
    BY <2>5, <2>6
<1> QED
    BY <1>3, <1>4

\* A block is moved, the one that BlockTransfers moves.
LEMMA TransferStepMoves == ASSUME InitInv, MoveInv, Transfer PROVE InitInv' /\ Blockwise /\ MoveInv'
<1>1. /\ pc = "data" /\ pc \in Moving /\ pc \in Ready /\ pc' = "block" /\ pc' \in Ready
      /\ card.state = "data" /\ sending = << >> /\ errors = FALSE /\ c' = c + 1
      /\ UNCHANGED init_vars /\ UNCHANGED <<sd_scr, call, result, errors, blocks, writing>>
    BY DEF Transfer, Moving, Ready, init_vars, MoveInv, DataOK
<1>2. /\ call.lba \in Nat /\ call.num \in Nat \ {0} /\ c \in Nat /\ call \in Calls
      /\ call.num <= MaxNum /\ call.rw \in {"read", "write"} /\ call # NoCall
      /\ call.lba + call.num - 1 \in Blocks /\ c < call.num
    BY <1>1, CallNumbers DEF MoveInv, Progress
<1>3. MaxNum \in Nat \ {0} /\ LastBlock \in Nat
    BY SdAssumption
<1>4. card.at = call.lba + c
    BY <1>1, <1>2 DEF MoveInv, InPlace, Behind
<1>5. /\ card.at \in Blocks /\ c \in Places
      /\ c + 1 < call.num => card.at + 1 \in Blocks
    BY <1>2, <1>3, <1>4 DEF Blocks, Places
<1>6. buffer \in [Places -> Data] /\ blocks \in [Blocks -> Data]
    BY DEF MoveInv, DataOK
<1>7. card \in CardSet
    BY DEF InitInv, StateOK
<1>8. Flying = << >> /\ errors' = errors
    BY <1>1 DEF Flying
<1>10. c' \in Nat /\ c' <= call.num
    BY <1>1, <1>2
<1>11. CASE call.rw = "read"
  <2>1. /\ buffer' = [buffer EXCEPT ![c] = blocks[card.at]] /\ writing = << >>
        /\ card' = Advanced(card) /\ sending' = << >>
    BY <1>1, <1>11 DEF Transfer
  <2>2. Stored = blocks /\ Stored' = Stored /\ Flying' = << >>
    BY <1>1, <2>1 DEF Stored, Flying
  <2>3. BT!Move
    BY <1>1, <1>2, <1>4, <1>8, <1>11, <2>1, <2>2 DEF BT!Move, BT!None, NoCall
  <2>4. buffer' \in [Places -> Data]
    BY <1>5, <1>6, <2>1
  <2>5. card'.state = "data" /\ c + 1 < call.num => card'.at = call.lba + (c + 1) - 0
    <3>1. SUFFICES ASSUME card'.state = "data", c + 1 < call.num
                   PROVE  card'.at = call.lba + (c + 1) - 0
      OBVIOUS
    <3>2. card.left # 1
      BY <1>7, <2>1, <3>1, AdvancedKeeps
    <3>3. card'.at = card.at + 1
      BY <1>5, <1>7, <2>1, <3>1, <3>2, AdvancedKeeps
    <3> QED
      BY <1>2, <1>4, <3>3
  <2>6. InitInv'
    <3>1. CardMoved("SINGLE")
      BY <1>7, <2>1, AdvancedKeeps DEF CardMoved
    <3> QED
      BY <1>1, <3>1, AfterInitStep
  <2>7. MoveInv'
    BY <1>1, <1>2, <1>6, <1>10, <2>1, <2>4, <2>5
       DEF MoveInv, DataOK, Progress, InPlace, Behind, OnItsWay, Moving, Has
  <2> QED
    BY <2>3, <2>6, <2>7 DEF Blockwise, BT!BlocksNext
<1>12. CASE call.rw = "write"
  <2>1. sending' = <<buffer[c]>> /\ buffer' = buffer /\ card' = card
    BY <1>12 DEF Transfer
  <2>2. Stored' = Stored /\ Flying' = <<card.at, buffer[c]>>
    BY <1>1, <2>1 DEF Stored, Flying
  <2>3. BT!Move
    BY <1>1, <1>2, <1>4, <1>8, <1>12, <2>1, <2>2 DEF BT!Move, BT!None, NoCall
  <2>4. DataOK'
    <3>1. buffer[c] \in Data
      BY <1>5, <1>6
    <3> QED
      BY <1>1, <2>1, <3>1 DEF MoveInv, DataOK
  <2>5. card'.at = call.lba + (c + 1) - 1 /\ card'.at \in Blocks /\ card'.state = "data"
    BY <1>1, <1>2, <1>4, <1>5, <2>1
  <2>6. InitInv'
    BY <1>1, <2>1, CardKept
  <2>7. MoveInv'
    <3>1. sending' # << >> /\ Behind' = 1
      BY <2>1 DEF Behind
    <3>2. Progress'
      BY <1>1, <1>2, <1>10 DEF Progress, Moving
    <3>3. InPlace' /\ OnItsWay'
      BY <1>1, <2>5, <3>1 DEF InPlace, OnItsWay
    <3> QED
      BY <2>4, <3>2, <3>3 DEF MoveInv
  <2> QED
    BY <2>3, <2>6, <2>7 DEF Blockwise, BT!BlocksNext
<1> QED
    BY <1>2, <1>11, <1>12

\* No data: the call reports 0.
LEMMA NoTransferStep == ASSUME InitInv, MoveInv, NoTransfer PROVE InitInv' /\ Blockwise /\ MoveInv'
<1>1. /\ pc = "data" /\ pc \in Moving /\ pc \in Ready /\ Return(0) /\ pc' \in Ready
      /\ card' = Advanced(card) \/ card' = card
      /\ sending = << >> \/ UNCHANGED card.at
      /\ errors' = FALSE
      /\ UNCHANGED init_vars /\ UNCHANGED <<buffer, sending, blocks, writing>>
    BY DEF NoTransfer, Moving, Ready, Return
<1>2. CardMoved("SINGLE")
  <2>1. card \in CardSet
    BY DEF InitInv, StateOK
  <2>2. Keeps(card, card, "SINGLE")
    BY DEF Keeps, SameCard
  <2> QED
    BY <1>1, <2>1, <2>2, AdvancedKeeps DEF CardMoved
<1>3. InitInv'
    BY <1>1, <1>2, AfterInitStep
<1> QED
    BY <1>1, <1>3, ReturnsNothing

\* The length is reported when all blocks were moved.
LEMMA FinishStep == ASSUME InitInv, MoveInv, Finish PROVE InitInv' /\ Blockwise /\ MoveInv'
<1>1. /\ pc = "block" /\ c = call.num /\ pc \in Moving /\ pc \in Ready
      /\ UNCHANGED init_vars /\ UNCHANGED buffer /\ UNCHANGED way_vars
    BY DEF Finish, Moving, Ready
<1>2. Return(0) \/ Return(call.num)
    BY DEF Finish
<1>3. pc' = "ready" /\ pc' \in Ready /\ call' = NoCall /\ c' = c
    BY <1>2 DEF Return, NoCall, Ready
<1>4. InitInv' /\ UNCHANGED card.at
  <2>1. CASE UNCHANGED card
    BY <1>1, <1>3, <2>1, CardKept
  <2>2. CASE ~UNCHANGED card
    <3>1. PICK o \in sd_cmd("STOP_TRANS", 0) : card' = o.card
      BY <2>2 DEF Finish
    <3>2. 0 \in Int
      OBVIOUS
    <3>3. card \in CardSet /\ "STOP_TRANS" \in CommandNames \ AppCommands
      BY DEF InitInv, StateOK, CommandNames, AppCommands
    <3>4. o.card.at = card.at
      BY <3>2, <3>3, PlaceKept
    <3> QED
      BY <1>1, <1>3, <3>1, <3>2, <3>4, CommandStep
  <2> QED
    BY <2>1, <2>2
<1>5. Blockwise
  <2>1. UNCHANGED <<Stored, Flying, errors>>
    BY <1>1, <1>4, UnmovedWay DEF Unmoved
  <2>2. call # NoCall
    BY <1>1, CallNumbers DEF MoveInv
  <2>3. BT!Finish
    BY <1>1, <1>2, <1>3, <2>1, <2>2 DEF Return, BT!Finish, BT!None, NoCall
  <2> QED
    BY <2>3 DEF Blockwise, BT!BlocksNext
<1>6. MoveInv'
    BY <1>1, <1>3, <1>4 DEF MoveInv, DataOK, Progress, InPlace, OnItsWay, Moving, way_vars
<1> QED
    BY <1>4, <1>5, <1>6

\* A step of the card in which what it is at may change.
LEMMA AfterCardStep ==
    ASSUME InitInv, CardMoved("SINGLE"),
           UNCHANGED <<pc, sd_scr, sd_rca, sd_hv, r, divisor, wide>>, pc \in Ready
    PROVE  InitInv'
<1>1. StateOK' /\ ClockSafe'
    BY SameDriver DEF SamePhase, CardMoved
<1>2. CapacityKnown' /\ AddressKnown' /\ OneLine'
    BY DEF InitInv, CapacityKnown, AddressKnown, OneLine, CardMoved, Keeps, SameCard, Identifying,
           Addressing, Ready, Moving
<1>3. ScrKnown' /\ Agreed'
    BY DEF InitInv, ScrKnown, Agreed, CardMoved, Keeps, SameCard
<1> QED
    BY <1>1, <1>2, <1>3 DEF InitInv

\* The block on its way lands where it was sent.
LEMMA TakeStep == ASSUME InitInv, MoveInv, Take PROVE InitInv' /\ Blockwise /\ MoveInv'
<1>1. /\ sending # << >> /\ writing = << >> /\ writing' = <<card.at, sending[1]>>
      /\ sending' = << >>
      /\ card' = IF card.state = "data" THEN Advanced(card) ELSE card
      /\ UNCHANGED <<pc, call, c, buffer, result, errors, blocks>>
      /\ UNCHANGED <<sd_scr, sd_rca, sd_hv, r, divisor, wide>>
    BY DEF Take, init_vars, io_vars
<1>2. PICK d \in Data : sending = <<d>>
    BY <1>1 DEF MoveInv, DataOK
<1>3. card \in CardSet /\ pc \in {"ready", "inhibit", "block", "data"} /\ pc \in Ready
    BY <1>1 DEF InitInv, StateOK, MoveInv, OnItsWay, Ready, Moving
<1>4. InitInv'
  <2>1. CardMoved("SINGLE")
    BY <1>1, <1>3, AdvancedKeeps DEF CardMoved, Keeps, SameCard
  <2> QED
    BY <1>1, <1>3, <2>1, AfterCardStep
<1>5. Blockwise
  <2>1. Flying = <<card.at, sending[1]>> /\ Flying' = << >> /\ Flying # << >>
    BY <1>1 DEF Flying
  <2>2. Stored = blocks /\ Stored' = [blocks EXCEPT ![card.at] = sending[1]]
    BY <1>1 DEF Stored
  <2>3. BT!Land
    BY <1>1, <2>1, <2>2 DEF BT!Land
  <2> QED
    BY <2>3 DEF Blockwise, BT!BlocksNext
<1>6. card.at \in Blocks
    BY <1>1 DEF MoveInv, OnItsWay
<1>7. MoveInv'
  <2>1. DataOK'
    BY <1>1, <1>2, <1>6 DEF MoveInv, DataOK
  <2>2. Progress' /\ OnItsWay'
    BY <1>1 DEF MoveInv, Progress, OnItsWay, Has
  <2>3. InPlace'
    <3>1. SUFFICES ASSUME ~errors, card'.state = "data", c < call.num,
                          pc = "data" \/ (pc = "block" /\ Has("CCS"))
                   PROVE  card'.at = call.lba + c - 0
      BY <1>1 DEF InPlace, Behind, Has, MoveInv, Progress
    <3>2. card.state = "data" /\ card' = Advanced(card)
      BY <1>1, <3>1
    <3>3. card.at = call.lba + c - 1
      BY <1>1, <3>1, <3>2 DEF MoveInv, InPlace, Behind
    <3>4. /\ call.lba \in Nat /\ c \in Nat /\ call.num \in Nat
          /\ call.lba + call.num - 1 \in Blocks
      BY <3>1, CallNumbers DEF MoveInv, Moving
    <3>5. card.at + 1 = call.lba + c /\ card.at + 1 \in Blocks
      BY <3>1, <3>3, <3>4, SdAssumption DEF Blocks
    <3>6. card.left # 1
      BY <1>3, <3>1, <3>2, AdvancedKeeps
    <3> QED
      BY <1>3, <3>2, <3>4, <3>5, <3>6, AdvancedKeeps
  <2> QED
    BY <2>1, <2>2, <2>3 DEF MoveInv
<1> QED
    BY <1>4, <1>5, <1>7

\* The block on its way is lost.
LEMMA LoseStep == ASSUME InitInv, MoveInv, Lose PROVE InitInv' /\ Blockwise /\ MoveInv'
<1>1. /\ sending # << >> /\ sending' = << >> /\ errors' = TRUE
      /\ card' = IF card.left = 1 THEN Advanced(card) ELSE card
      /\ UNCHANGED <<pc, call, c, buffer, result, blocks, writing>>
      /\ UNCHANGED <<sd_scr, sd_rca, sd_hv, r, divisor, wide>>
    BY DEF Lose, init_vars, io_vars
<1>2. card \in CardSet /\ pc \in Ready
    BY <1>1 DEF InitInv, StateOK, MoveInv, OnItsWay, Ready, Moving
<1>3. InitInv'
  <2>1. CardMoved("SINGLE")
    BY <1>1, <1>2, AdvancedKeeps DEF CardMoved, Keeps, SameCard
  <2> QED
    BY <1>1, <1>2, <2>1, AfterCardStep
<1>4. Blockwise
  <2>1. Flying # << >> /\ Flying' = << >> /\ Stored' = Stored
    BY <1>1 DEF Flying, Stored
  <2>2. BT!Lose
    BY <1>1, <2>1 DEF BT!Lose
  <2> QED
    BY <2>2 DEF Blockwise, BT!BlocksNext
<1>5. MoveInv'
    BY <1>1 DEF MoveInv, DataOK, Progress, InPlace, OnItsWay, Has
<1> QED
    BY <1>3, <1>4, <1>5

\* The card programs the block that Stored already counts.
LEMMA ProgramStep == ASSUME InitInv, MoveInv, Program PROVE InitInv' /\ Blockwise /\ MoveInv'
<1>1. /\ writing # << >> /\ writing' = << >>
      /\ blocks' = [blocks EXCEPT ![writing[1]] = writing[2]]
      /\ UNCHANGED <<pc, card, call, c, buffer, result, sending, errors>>
      /\ UNCHANGED <<sd_scr, sd_rca, sd_hv, r, divisor, wide>>
    BY DEF Program, init_vars, io_vars
<1>2. Stored' = Stored /\ Flying' = Flying
    BY <1>1 DEF Stored, Flying
<1>3. Blockwise
    BY <1>1, <1>2 DEF Blockwise, BT!block_vars
<1>4. InitInv'
  <2>1. Frequency' = Frequency
    BY <1>1 DEF Frequency
  <2> QED
    BY <1>1, <2>1 DEF InitInv, StateOK, CapacityKnown, AddressKnown, OneLine, ScrKnown, Agreed,
                      ClockSafe, CodeClocks
<1>5. blocks' \in [Blocks -> Data]
    BY <1>1 DEF MoveInv, DataOK
<1>6. MoveInv'
    BY <1>1, <1>5 DEF MoveInv, DataOK, Progress, InPlace, Behind, OnItsWay, Has
<1> QED
    BY <1>3, <1>4, <1>6

-----------------------------------------------------------------------------
(* The specification                                                       *)

\* The inductive invariant of the module.
SdInv == InitInv /\ MoveInv

\* Before sd_init.
LEMMA SdInitial == ASSUME SdInit PROVE SdInv /\ BT!BlocksInit
<1>1. InitInv
    BY InitInitial
<1>2. buffer \in [Places -> Data] /\ blocks \in [Blocks -> Data] /\ writing = << >>
      /\ sending = << >> /\ errors = FALSE
    BY DEF SdInit, Places
<1>3. pc \notin Moving /\ call = NoCall /\ c = 0 /\ result = 0 /\ c \in Nat
    BY DEF SdInit, Moving, NoCall
<1>4. MoveInv
    BY <1>2, <1>3 DEF MoveInv, DataOK, Progress, InPlace, OnItsWay, Moving
<1>5. Stored = blocks /\ Flying = << >>
    BY <1>2 DEF Stored, Flying
<1>6. BT!BlocksInit
    BY <1>2, <1>3, <1>5 DEF BT!BlocksInit, BT!Places, BT!None, Places, NoCall
<1> QED
    BY <1>1, <1>4, <1>6 DEF SdInv

\* A step of sd_init.
LEMMA InitSteps == ASSUME SdInv, InitStep PROVE SdInv' /\ Blockwise
<1>1. InitInv /\ MoveInv
    BY DEF SdInv
<1>2. InitInv'
    BY <1>1, ResetStep, InitCommandStep, SendOpCondStep, OpCondDoneStep, AllSendCidStep,
       SendRelAddrStep, ReadScrStep, SetBusWidthStep DEF InitStep
<1>3. /\ pc \notin Moving \cup {"ready"} /\ pc' \notin Moving
      /\ UNCHANGED io_vars /\ UNCHANGED way_vars
  <2>1. CASE Reset
    BY <2>1 DEF Reset, Failed, Moving
  <2>2. CASE InitCommand
    BY <2>2 DEF InitCommand, Failed, Follows, Moving
  <2>3. CASE SendOpCond
    BY <2>3 DEF SendOpCond, Failed, Moving
  <2>4. CASE OpCondDone
    BY <2>4 DEF OpCondDone, Failed, Moving
  <2>5. CASE AllSendCid
    BY <2>5 DEF AllSendCid, Moving
  <2>6. CASE SendRelAddr
    BY <2>6 DEF SendRelAddr, Failed, Moving
  <2>7. CASE ReadScr
    BY <2>7 DEF ReadScr, Failed, Moving
  <2>8. CASE SetBusWidth
    BY <2>8 DEF SetBusWidth, Failed, Moving
  <2> QED
    BY <2>1, <2>2, <2>3, <2>4, <2>5, <2>6, <2>7, <2>8 DEF InitStep
<1> QED
    BY <1>1, <1>2, <1>3, InitMovesNothing DEF SdInv

\* Every step keeps the invariant and is one of BlockTransfers, or none of its.
LEMMA SdSteps == ASSUME SdInv, [SdNext]_sd_vars PROVE SdInv' /\ Blockwise
<1>1. InitInv /\ MoveInv
    BY DEF SdInv
<1>2. CASE InitStep
    BY <1>2, InitSteps
<1>3. CASE sd_transferblock
  <2>1. /\ pc \in Ready /\ pc' \in Ready /\ UNCHANGED card /\ UNCHANGED init_vars
    BY <1>3 DEF sd_transferblock, Ready, Moving
  <2> QED
    BY <1>1, <1>3, <2>1, CardKept, BeginStep DEF SdInv
<1>4. CASE TransferStep
  <2>1. CASE DatInhibit
    <3>1. /\ pc \in Ready /\ pc' \in Ready /\ UNCHANGED card /\ UNCHANGED init_vars
      BY <2>1 DEF DatInhibit, Return, Ready, Moving
    <3> QED
      BY <1>1, <2>1, <3>1, CardKept, DatInhibitStep DEF SdInv
  <2> QED
    BY <1>1, <1>4, <2>1, SetBlockcntStep, OpenStep, BlockStep, TransferStepMoves, NoTransferStep,
       FinishStep DEF TransferStep, SdInv
<1>5. CASE CardStep \/ Program
    BY <1>1, <1>5, TakeStep, LoseStep, ProgramStep DEF CardStep, SdInv
<1>6. CASE UNCHANGED sd_vars
  <2>1. /\ UNCHANGED <<pc, card, call, c, buffer, result, sending, errors, blocks, writing>>
        /\ UNCHANGED <<sd_scr, sd_rca, sd_hv, r, divisor, wide>>
    BY <1>6 DEF sd_vars, init_vars, io_vars, way_vars
  <2>2. Frequency' = Frequency
    BY <2>1 DEF Frequency
  <2>3. InitInv'
    BY <1>1, <2>1, <2>2 DEF InitInv, StateOK, CapacityKnown, AddressKnown, OneLine, ScrKnown,
                            Agreed, ClockSafe, CodeClocks
  <2>4. MoveInv'
    BY <1>1, <2>1 DEF MoveInv, DataOK, Progress, InPlace, Behind, OnItsWay, Has
  <2> QED
    BY <2>1, <2>3, <2>4, Unseen DEF Unmoved, way_vars, SdInv
<1> QED
    BY <1>2, <1>3, <1>4, <1>5, <1>6 DEF SdNext

\* The invariant of sd_init and sd_transferblock holds whatever is lost, whatever
\* the size of the card and of the calls.
THEOREM SdInvariant == SdSpec => []SdInv
<1>1. SdInit => SdInv
    BY SdInitial
<1>2. SdInv /\ [SdNext]_sd_vars => SdInv'
    BY SdSteps
<1> QED
    BY <1>1, <1>2, PTL DEF SdSpec

\* When sd_init reports success, driver and card agree, and the clock was never
\* too fast, with the frequencies that sd.c is compiled with.
THEOREM DriverAndCardAgree == CodeClocks => (SdSpec => []InitAgrees)
<1> SUFFICES ASSUME CodeClocks PROVE SdSpec => []InitAgrees
    OBVIOUS
<1>1. SdInv => InitAgrees
  <2>1. SUFFICES ASSUME SdInv PROVE InitAgrees
    OBVIOUS
  <2>2. InitInv
    BY <2>1 DEF SdInv
  <2>3. ASSUME pc \notin {"sd_init", "failed"}
        PROVE  Frequency <= IF sd_rca = 0 THEN SlowClock ELSE FastClock
    <3>1. CASE pc \in Identifying
      BY <2>1, <2>2, <3>1 DEF InitInv, AddressKnown, ClockSafe
    <3>2. CASE pc \in Addressing \cup Ready
      <4>1. sd_rca # 0
        BY <2>2, <3>2 DEF InitInv, AddressKnown, Agreed, RCA
      <4> QED
        BY <2>1, <2>2, <3>2, <4>1 DEF InitInv, ClockSafe
    <3> QED
      BY <2>2, <2>3, <3>1, <3>2 DEF InitInv, StateOK
  <2>4. ASSUME pc \in Ready
        PROVE  /\ Has("CCS") = card.hc /\ sd_scr \ {"CCS"} = card.flags
               /\ sd_rca = card.rca /\ wide = card.wide
    <3>1. /\ sd_scr = card.flags \cup (IF card.hc = TRUE THEN {"CCS"} ELSE {})
          /\ card.flags \subseteq {"SET_BLKCNT", "BUS_WIDTH_4"} /\ card.hc \in BOOLEAN
      BY <2>2, <2>4 DEF InitInv, ScrKnown, StateOK, CardSet
    <3>2. Has("CCS") = card.hc /\ sd_scr \ {"CCS"} = card.flags
      BY <3>1 DEF Has
    <3> QED
      BY <2>2, <2>4, <3>2 DEF InitInv, Agreed
  <2> QED
    BY <2>3, <2>4 DEF InitAgrees, Ready, Moving
<1> QED
    BY <1>1, SdInvariant, PTL

\* sd_transferblock implements BlockTransfers: the blocks of a call are moved one
\* after the other, in order, and its length is reported only if all of them were.
\* A block that is written may be on its way when that is reported, and be lost; then
\* no other is sent before a call has failed.
THEOREM TransfersAreBlockTransfers == SdSpec => ImplementsBlockTransfers
<1>1. SdInit => BT!BlocksInit
    BY SdInitial
<1>2. SdInv /\ [SdNext]_sd_vars => [BT!BlocksNext]_(BT!block_vars)
    BY SdSteps DEF Blockwise
<1> QED
    BY <1>1, <1>2, SdInvariant, PTL DEF SdSpec, ImplementsBlockTransfers, BT!BlocksSpec
=============================================================================
