--------------------------- MODULE BlockTransfers ---------------------------
(***************************************************************************)
(* What sd_transferblock promises to fat.c: the blocks of a call are moved *)
(* one after the other, in order, between the card and the buffer, and the *)
(* call reports its length only if all of them were.  A call that reports  *)
(* 0 has moved some first part of them.  A block that is written is on its *)
(* way first: it may land or be lost when the call has already reported    *)
(* its length, but no other is moved meanwhile, and after a loss none is   *)
(* moved before a call has reported 0.                                     *)
(***************************************************************************)
EXTENDS Naturals

CONSTANTS Blocks,   \* the blocks of the card
          MaxNum,   \* the longest call, in blocks
          Data      \* what a block may hold; Blocks are numbers, MaxNum is not 0

VARIABLES blocks, buffer, call, moved, result,
          flying,   \* the block on its way and where it goes, or << >>
          lost      \* one was lost that no call has failed for yet
block_vars == <<blocks, buffer, call, moved, result, flying, lost>>

\* The calls for blocks of the card; a buffer has one place for every block.
Places == 0 .. MaxNum - 1
Calls == {c \in [rw : {"read", "write"}, lba : Blocks, num : 1 .. MaxNum] :
              c.lba .. c.lba + c.num - 1 \subseteq Blocks}
None == [rw |-> "none", lba |-> 0, num |-> 1]

BlocksInit == /\ blocks \in [Blocks -> Data]
              /\ buffer \in [Places -> Data]
              /\ call = None /\ moved = 0 /\ result = 0
              /\ flying = << >> /\ lost = FALSE

Begin == /\ call = None
         /\ call' \in Calls
         /\ buffer' \in [Places -> Data]
         /\ moved' = 0
         /\ UNCHANGED <<blocks, result, flying, lost>>

Move == /\ call # None /\ moved < call.num
        /\ flying = << >> /\ ~lost
        /\ IF call.rw = "read"
           THEN buffer' = [buffer EXCEPT ![moved] = blocks[call.lba + moved]] /\ UNCHANGED flying
           ELSE flying' = <<call.lba + moved, buffer[moved]>> /\ UNCHANGED buffer
        /\ moved' = moved + 1
        /\ UNCHANGED <<blocks, call, result, lost>>

Land == /\ flying # << >>
        /\ blocks' = [blocks EXCEPT ![flying[1]] = flying[2]]
        /\ flying' = << >>
        /\ UNCHANGED <<buffer, call, moved, result, lost>>

Lose == /\ flying # << >>
        /\ flying' = << >> /\ lost' = TRUE
        /\ UNCHANGED <<blocks, buffer, call, moved, result>>

\* Lengths are counted in blocks.
Finish == /\ call # None
          /\ \/ moved = call.num /\ result' = call.num /\ UNCHANGED lost
             \/ result' = 0 /\ lost' \in {lost, FALSE}
          /\ call' = None
          /\ UNCHANGED <<blocks, buffer, moved, flying>>

BlocksNext == Begin \/ Move \/ Land \/ Lose \/ Finish

BlocksSpec == BlocksInit /\ [][BlocksNext]_block_vars
=============================================================================
