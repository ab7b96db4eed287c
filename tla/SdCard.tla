------------------------------- MODULE SdCard -------------------------------
(***************************************************************************)
(* source/hal/sd.c: sd_init, sd_cmd, sd_clk and sd_transferblock, on a     *)
(* card that follows the states of the SD protocol: a command that is not  *)
(* legal in its state is not answered.  Commands and answers may be lost   *)
(* or damaged, and data may fail to come or to arrive.  The controller     *)
(* keeps one block on its way to the card.  A block is one value.          *)
(***************************************************************************)
EXTENDS Integers, Sequences, FiniteSets

CONSTANTS
    LastBlock,             \* blocks are numbered from 0
    MaxNum, Data,          \* as in BlockTransfers
    BlockSize,             \* 512
    Tries,                 \* of ACMD41: 6
    BaseClock, SlowClock, FastClock,   \* 41666666, 400000 and 25000000 Hz
    Faults                 \* of "lost", "unanswered", "damaged", "data": what may go wrong

Blocks == 0 .. LastBlock
RCA == 1                   \* the address that a card gives itself, not 0
SD_OK == 0
SD_TIMEOUT == -1
SD_ERROR == -2

ASSUME SdAssumption ==
    /\ LastBlock \in Nat
    /\ MaxNum \in Nat \ {0} /\ BlockSize \in Nat \ {0} /\ Tries \in Nat \ {0}
    /\ Faults \subseteq {"lost", "unanswered", "damaged", "data"}

VARIABLES
    pc,           \* the statement of sd_init or sd_transferblock
    sd_scr,       \* its flags: "CCS", "SET_BLKCNT", "BUS_WIDTH_4"
    sd_rca, sd_err, sd_hv,
    cnt, r,       \* locals of sd_init
    divisor,      \* of the clock
    wide,         \* CONTROL0 has C0_HCTL_DWITDH
    call, c, buffer, result,   \* arguments, locals and result of sd_transferblock
    card,         \* the state of the card
    blocks,       \* what it holds
    sending,      \* the block in the controller's buffer, on its way to the card, or << >>
    errors,       \* the error bits of INTERRUPT, once a block on its way was lost
    writing       \* the block that the card is programming, or << >>

init_vars == <<sd_scr, sd_rca, sd_hv, cnt, r, divisor, wide>>
io_vars == <<call, c, buffer, result>>
way_vars == <<sending, errors, blocks, writing>>
sd_vars == <<pc, sd_err, init_vars, io_vars, card, way_vars>>

-----------------------------------------------------------------------------
(* The card *)

Endless == Cardinality(Blocks) + 1

\* The states that the commands of the code lead through.  app: the next command
\* is an application command; left: blocks that it will still move, from block at
\* on; preset: the block count of SET_BLOCKCNT.
Cards == [state : {"any", "idle", "ready", "ident", "stby", "tran", "data"}, app : BOOLEAN,
          rca : {0, RCA}, wide : BOOLEAN, left : 0 .. Endless, at : Blocks, preset : 0 .. MaxNum,
          hc : BOOLEAN, flags : SUBSET {"SET_BLKCNT", "BUS_WIDTH_4"}]

AppCommands == {"SEND_OP_COND", "SEND_OP_COND_busy", "SEND_SCR", "SET_BUS_WIDTH"}

Legal(k, cmd, arg) ==
    /\ cmd \in AppCommands => k.app
    /\ CASE cmd = "GO_IDLE" -> TRUE
         [] cmd \in {"SEND_IF_COND", "SEND_OP_COND", "SEND_OP_COND_busy"} -> k.state = "idle"
         [] cmd = "APP_CMD" -> k.state \in {"idle", "tran"} /\ arg = k.rca
         [] cmd = "ALL_SEND_CID" -> k.state = "ready"
         [] cmd = "SEND_REL_ADDR" -> k.state \in {"ident", "stby"}
         [] cmd = "CARD_SELECT" -> k.state = "stby" /\ arg = k.rca
         [] cmd = "STOP_TRANS" -> k.state = "data"
         [] OTHER -> k.state = "tran"

\* What a command that is legal does to the card.
Executed(card0, cmd, arg) ==
    LET k == [card0 EXCEPT !.app = FALSE, !.preset = 0]
        Transfer(left) == [k EXCEPT !.state = "data", !.left = left,
                                    !.at = IF k.hc THEN arg ELSE arg \div BlockSize]
    IN  CASE cmd = "GO_IDLE" -> [k EXCEPT !.state = "idle", !.rca = 0, !.wide = FALSE, !.left = 0]
          [] cmd = "APP_CMD" -> [k EXCEPT !.app = TRUE]
          [] cmd = "SEND_OP_COND" -> [k EXCEPT !.state = "ready"]
          [] cmd = "ALL_SEND_CID" -> [k EXCEPT !.state = "ident"]
          [] cmd = "SEND_REL_ADDR" -> [k EXCEPT !.state = "stby", !.rca = RCA]
          [] cmd = "CARD_SELECT" -> [k EXCEPT !.state = "tran"]
          [] cmd = "SET_BUS_WIDTH" -> [k EXCEPT !.wide = TRUE]
          [] cmd = "STOP_TRANS" -> [k EXCEPT !.state = "tran", !.left = 0]
          [] cmd = "SET_BLOCKCNT" -> [k EXCEPT !.preset = arg]
          [] cmd = "SINGLE" -> Transfer(1)
          [] cmd = "MULTI" -> Transfer(IF card0.preset # 0 THEN card0.preset ELSE Endless)
          [] OTHER -> k

\* The card has moved a block, and goes on until all are moved.
Advanced(k) ==
    IF k.left = 1 THEN [k EXCEPT !.state = "tran", !.left = 0]
    ELSE [k EXCEPT !.left = IF @ = Endless THEN @ ELSE @ - 1,
                   !.at = IF @ + 1 \in Blocks THEN @ + 1 ELSE @]

\* How a command can end: the card, the error that sd_cmd notes, and whether
\* there is an answer.  As long as there are errors, sd_status lets none be sent.
Sent(k, cmd, arg) ==
    LET done == Executed(k, cmd, arg)
        end(card0, err) == [card |-> card0, err |-> err, answer |-> err = SD_OK]
    IN  IF errors THEN {end(k, SD_TIMEOUT)}
        ELSE IF Legal(k, cmd, arg)
        THEN {end(done, SD_OK)}
             \cup {end(k, SD_TIMEOUT) : f \in Faults \cap {"lost"}}
             \cup {end(done, SD_TIMEOUT) : f \in Faults \cap {"unanswered"}}
             \cup {end(done, SD_ERROR) : f \in Faults \cap {"damaged"}}
        ELSE {end([k EXCEPT !.app = FALSE], SD_TIMEOUT)}

-----------------------------------------------------------------------------
(* Commands *)

\* sd_cmd with CMD_NEED_APP sends APP_CMD first.  As long as the card has no
\* address, the failure of that is noted, and the command is sent all the same.
sd_cmd_app(cmd, arg) ==
    UNION {IF sd_rca # 0 /\ ~a.answer THEN {[a EXCEPT !.err = SD_ERROR]}
           ELSE {[o EXCEPT !.err = IF o.answer THEN a.err ELSE @] : o \in Sent(a.card, cmd, arg)} :
              a \in Sent(card, "APP_CMD", sd_rca)}

sd_cmd(cmd, arg) == IF cmd \in AppCommands THEN sd_cmd_app(cmd, arg) ELSE Sent(card, cmd, arg)

Divisors == {1, 2, 4, 8, 16, 32, 64, 128}

\* 1 << s for the shift s that sd_clk computes from n.
PowerUpTo(n) ==
    IF n = 0 THEN 1
    ELSE CHOOSE d \in Divisors : d <= n /\ \A e \in Divisors : e <= n => e <= d

\* sd_clk: hosts of version 3 take any divisor, the others powers of two.  The
\* clock is divided by twice the divisor.
sd_clk(f) ==
    LET ratio == BaseClock \div f
        d == IF sd_hv > 1 THEN ratio ELSE PowerUpTo(ratio - 1)
    IN  IF d <= 2 THEN 2 ELSE d
Frequency == BaseClock \div (2 * divisor)

-----------------------------------------------------------------------------
(* sd_init *)

\* Hosts before version 3 are treated alike.  The firmware leaves a card in any
\* state; what a call transfers is the first to tell its blocks apart.
SdInit ==
    /\ pc = "sd_init"
    /\ sd_scr = {} /\ sd_rca = 0 /\ sd_err = SD_OK /\ sd_hv \in {1, 2}
    /\ cnt = Tries /\ r = "none" /\ divisor = 1 /\ wide = FALSE
    /\ call = [rw |-> "none", lba |-> 0, num |-> 1] /\ c = 0 /\ result = 0
    /\ buffer \in {[p \in 0 .. MaxNum - 1 |-> d] : d \in Data}
    /\ card \in {k \in Cards : /\ k.state = "any" /\ k.at = 0 /\ k.left = 0 /\ k.preset = 0
                               /\ ~k.app /\ k.rca = RCA}
    /\ blocks \in {[b \in Blocks |-> d] : d \in Data}
    /\ sending = << >> /\ errors = FALSE /\ writing = << >>

\* Every early return of sd_init; bios_main then does without a card.
Failed == pc' = "failed"

\* The controller is reset, and the clock set to identify the card.
Reset ==
    /\ pc = "sd_init"
    /\ \/ pc' = "GO_IDLE" /\ divisor' = sd_clk(SlowClock)
       \/ Failed /\ UNCHANGED divisor
    /\ UNCHANGED <<sd_scr, sd_rca, sd_err, sd_hv, cnt, r, wide, io_vars, card, way_vars>>

\* The commands whose sd_err is looked at, with what follows them.
Follows == [GO_IDLE |-> "SEND_IF_COND", SEND_IF_COND |-> "SEND_OP_COND",
            CARD_SELECT |-> "SEND_SCR", SEND_SCR |-> "SCR"]

InitCommand ==
    /\ pc \in DOMAIN Follows
    /\ \E o \in sd_cmd(pc, sd_rca) :
          /\ card' = o.card /\ sd_err' = o.err
          /\ IF o.err = SD_OK THEN pc' = Follows[pc] ELSE Failed
    /\ UNCHANGED <<init_vars, io_vars, way_vars>>

Bug_SendOpCond_uncounted ==
    /\ pc = "SEND_OP_COND" /\ r = "none" /\ cnt # 0
    /\ UNCHANGED <<pc, sd_err, init_vars, io_vars, card, way_vars>>

\* ACMD41, until the card is powered up.  Timeouts are another try.
SendOpCond ==
    /\ pc = "SEND_OP_COND" /\ r = "none" /\ cnt # 0
    /\ cnt' = cnt - 1
    /\ \E cmd \in {"SEND_OP_COND", "SEND_OP_COND_busy"} : \E o \in sd_cmd(cmd, 0) :
          /\ card' = o.card /\ sd_err' = o.err
          /\ r' = IF o.answer /\ cmd = "SEND_OP_COND" THEN (IF card.hc THEN "CCS" ELSE "COMPLETE")
                                                       ELSE r
          /\ IF o.err = SD_ERROR THEN Failed ELSE UNCHANGED pc
    /\ UNCHANGED <<sd_scr, sd_rca, sd_hv, divisor, wide, io_vars, way_vars>>

\* An answer to the last try is taken for none.
OpCondDone ==
    /\ pc = "SEND_OP_COND" /\ (r # "none" \/ cnt = 0)
    /\ IF r # "none" /\ cnt # 0 THEN pc' = "ALL_SEND_CID" ELSE Failed
    /\ UNCHANGED <<sd_err, init_vars, io_vars, card, way_vars>>

\* Nobody looks at sd_err after ALL_SEND_CID.
AllSendCid ==
    /\ pc = "ALL_SEND_CID"
    /\ \E o \in sd_cmd("ALL_SEND_CID", 0) : card' = o.card /\ sd_err' = o.err
    /\ pc' = "SEND_REL_ADDR"
    /\ UNCHANGED <<init_vars, io_vars, way_vars>>

\* The address, and the clock for transfers.
SendRelAddr ==
    /\ pc = "SEND_REL_ADDR"
    /\ \E o \in sd_cmd("SEND_REL_ADDR", 0) :
          /\ card' = o.card /\ sd_err' = o.err
          /\ IF o.err = SD_OK
             THEN /\ sd_rca' = o.card.rca
                  /\ \/ pc' = "CARD_SELECT" /\ divisor' = sd_clk(FastClock)
                     \/ Failed /\ UNCHANGED divisor
             ELSE sd_rca' = 0 /\ Failed /\ UNCHANGED divisor
    /\ UNCHANGED <<sd_scr, sd_hv, cnt, r, wide, io_vars, way_vars>>

Bug_ScrFlags_ccs == {"CCS"} \cup card.flags

\* The two words of SCR, and the flag of the driver's own.
ScrFlags == card.flags \cup (IF r = "CCS" THEN {"CCS"} ELSE {})

\* The loop that reads SCR ends when the words are there: cnt is set for it, and
\* never changes.
ReadScr ==
    /\ pc = "SCR"
    /\ \/ /\ sd_scr' = ScrFlags
          /\ pc' = IF "BUS_WIDTH_4" \in card.flags THEN "SET_BUS_WIDTH" ELSE "ready"
          /\ cnt' = Tries
       \/ "data" \in Faults /\ Failed /\ UNCHANGED <<sd_scr, cnt>>
    /\ UNCHANGED <<sd_rca, sd_err, sd_hv, r, divisor, wide, io_vars, card, way_vars>>

SetBusWidth ==
    /\ pc = "SET_BUS_WIDTH"
    /\ \E o \in sd_cmd("SET_BUS_WIDTH", sd_rca) :
          /\ card' = o.card /\ sd_err' = o.err
          /\ wide' = (o.err = SD_OK)
          /\ IF o.err = SD_OK THEN pc' = "ready" ELSE Failed
    /\ UNCHANGED <<sd_scr, sd_rca, sd_hv, cnt, r, divisor, io_vars, way_vars>>

-----------------------------------------------------------------------------
(* sd_transferblock *)

Calls == {k \in [rw : {"read", "write"}, lba : Blocks, num : 1 .. MaxNum] :
              k.lba + k.num - 1 \in Blocks}

Return(length) ==
    /\ pc' = "ready"
    /\ result' = length
    /\ call' = [rw |-> "none", lba |-> 0, num |-> 1]
    /\ UNCHANGED c

Has(flag) == flag \in sd_scr

sd_transferblock ==
    /\ pc = "ready"
    /\ pc' = "inhibit"
    /\ call' \in Calls
    /\ IF call'.rw = "read" THEN UNCHANGED buffer ELSE buffer' \in [0 .. MaxNum - 1 -> Data]
    /\ c' = 0
    /\ UNCHANGED <<sd_err, init_vars, result, card, way_vars>>

\* sd_status waits until the card has programmed what was written.  Errors that came
\* after the last call are not looked at before, and nothing clears them here.
DatInhibit ==
    /\ pc = "inhibit"
    /\ \/ /\ sending = << >> /\ writing = << >> /\ ~errors
          /\ pc' = IF ~Has("CCS") THEN "block"
                   ELSE IF call.num > 1 /\ Has("SET_BLKCNT") THEN "SET_BLOCKCNT" ELSE "open"
          /\ UNCHANGED <<sd_err, call, c, result>>
       \/ /\ errors \/ (card.state = "data" /\ sending = << >>) \/ "data" \in Faults
          /\ sd_err' = SD_TIMEOUT
          /\ Return(0)
    /\ UNCHANGED <<init_vars, buffer, card, way_vars>>

\* A command of the transfer; on an error the call is over.
Command(cmd, arg, to) ==
    /\ \E o \in sd_cmd(cmd, arg) :
          /\ card' = o.card /\ sd_err' = o.err
          /\ IF o.err = SD_OK THEN pc' = to /\ UNCHANGED <<call, c, result>> ELSE Return(0)
    /\ UNCHANGED <<init_vars, buffer, way_vars>>

SetBlockcnt == pc = "SET_BLOCKCNT" /\ Command("SET_BLOCKCNT", call.num, "open")

Open == pc = "open" /\ Command(IF call.num = 1 THEN "SINGLE" ELSE "MULTI", call.lba, "block")

Bug_ByteAddress == call.lba + c

\* Cards of standard capacity count bytes, and get a command for every block.
ByteAddress == (call.lba + c) * BlockSize

Block ==
    /\ pc = "block" /\ c < call.num
    /\ IF Has("CCS") THEN pc' = "data" /\ UNCHANGED <<sd_err, init_vars, io_vars, card, way_vars>>
                     ELSE Command("SINGLE", ByteAddress, "data")

\* sd_int finds the controller's buffer ready: with a block that is read from it, or
\* free for the next one.  What became of the one before is not asked.
Transfer ==
    /\ pc = "data" /\ card.state = "data" /\ sending = << >> /\ ~errors
    /\ IF call.rw = "read"
       THEN /\ writing = << >>
            /\ buffer' = [buffer EXCEPT ![c] = blocks[card.at]]
            /\ card' = Advanced(card)
            /\ UNCHANGED sending
       ELSE sending' = <<buffer[c]>> /\ UNCHANGED <<buffer, card>>
    /\ c' = c + 1
    /\ pc' = "block"
    /\ UNCHANGED <<sd_err, init_vars, call, result, errors, blocks, writing>>

\* sd_int reports a timeout or the errors, and clears them.  No STOP_TRANS follows: a
\* card that has more blocks to move goes on waiting for that.
NoTransfer ==
    /\ pc = "data" /\ (errors \/ card.state # "data" \/ "data" \in Faults)
    /\ card' = IF sending = << >> /\ card.left = 1 THEN Advanced(card) ELSE card
    /\ sd_err' \in {SD_TIMEOUT, SD_ERROR}
    /\ errors' = FALSE
    /\ Return(0)
    /\ UNCHANGED <<init_vars, buffer, sending, blocks, writing>>

\* Without a block count the card is told to stop; it may still be programming, or
\* have the last block on its way.  Nobody waits for DATA_DONE.
Finish ==
    /\ pc = "block" /\ c = call.num
    /\ IF call.num > 1 /\ Has("CCS") /\ ~Has("SET_BLKCNT")
       THEN \E o \in sd_cmd("STOP_TRANS", 0) :
               /\ card' = o.card /\ sd_err' = o.err
               /\ Return(IF o.err = SD_OK THEN call.num ELSE 0)
       ELSE Return(call.num) /\ UNCHANGED <<card, sd_err>>
    /\ UNCHANGED <<init_vars, buffer, way_vars>>

\* The card takes the block on its way, ...
Take ==
    /\ sending # << >> /\ writing = << >>
    /\ writing' = <<card.at, sending[1]>>
    /\ sending' = << >>
    /\ card' = IF card.state = "data" THEN Advanced(card) ELSE card
    /\ UNCHANGED <<pc, sd_err, init_vars, io_vars, errors, blocks>>

\* ... or it is damaged, or cut short by STOP_TRANS.
Lose ==
    /\ sending # << >> /\ (card.state # "data" \/ "data" \in Faults)
    /\ sending' = << >>
    /\ errors' = TRUE
    /\ card' = IF card.left = 1 THEN Advanced(card) ELSE card
    /\ UNCHANGED <<pc, sd_err, init_vars, io_vars, blocks, writing>>

Program ==
    /\ writing # << >>
    /\ blocks' = [blocks EXCEPT ![writing[1]] = writing[2]]
    /\ writing' = << >>
    /\ UNCHANGED <<pc, sd_err, init_vars, io_vars, card, sending, errors>>

InitStep == \/ Reset \/ InitCommand \/ SendOpCond \/ OpCondDone \/ AllSendCid
            \/ SendRelAddr \/ ReadScr \/ SetBusWidth
TransferStep == \/ DatInhibit \/ SetBlockcnt \/ Open \/ Block \/ Transfer \/ NoTransfer \/ Finish

CardStep == Take \/ Lose

SdNext == InitStep \/ sd_transferblock \/ TransferStep \/ CardStep \/ Program

SdSpec == SdInit /\ [][SdNext]_sd_vars

\* Every wait of the code is bounded, but that for SCR, whose words do come; the
\* card programs what it has taken.
FairSdSpec == /\ SdSpec /\ WF_sd_vars(InitStep \/ TransferStep)
              /\ WF_sd_vars(CardStep) /\ WF_sd_vars(Program)

-----------------------------------------------------------------------------
\* The blocks as a later transfer finds them.
Stored == IF writing = << >> THEN blocks ELSE [blocks EXCEPT ![writing[1]] = writing[2]]

\* The block on its way, and its place.
Flying == IF sending = << >> THEN << >> ELSE <<card.at, sending[1]>>

BT == INSTANCE BlockTransfers WITH blocks <- Stored, moved <- c, flying <- Flying, lost <- errors

\* sd_transferblock keeps its promise on cards of both capacities, with and without
\* block counts, whichever command or block fails and whatever failed before: a
\* length is reported only after exactly the blocks of the call were moved in their
\* order, the last one at least as far as to the controller; no block is sent after
\* one that was lost before a call has failed.
ImplementsBlockTransfers == BT!BlocksSpec

\* The length that a call reports holds: its last block is not lost afterwards
\* ("Reads or writes a block of memory to the sd card", sd.c).
Reported == [][call.rw = "none" /\ result # 0 /\ ~errors => ~errors']_sd_vars

\* When sd_init reports success, driver and card agree, whatever was lost or tried
\* twice on the way: on the unit of addresses, the block counts, the card's own
\* address and the width of the bus.  The clock is never too fast for the phase.
InitAgrees ==
    /\ pc \notin {"sd_init", "failed"} =>
          Frequency <= IF sd_rca = 0 THEN SlowClock ELSE FastClock
    /\ pc \in {"ready", "inhibit", "SET_BLOCKCNT", "open", "block", "data"} =>
          /\ Has("CCS") = card.hc
          /\ sd_scr \ {"CCS"} = card.flags
          /\ sd_rca = card.rca
          /\ wide = card.wide

\* sd_init and every transfer return.
SdReturns == pc \notin {"ready", "failed"} ~> pc \in {"ready", "failed"}

\* A card that answers in its last try is taken, as every try before.
PoweredUpTaken == [][pc = "SEND_OP_COND" /\ r # "none" => pc' # "failed"]_sd_vars

\* After a call that failed, the card takes the next one.
CardReady == pc = "ready" => card.state = "tran"
=============================================================================
