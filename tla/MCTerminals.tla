---------------------------- MODULE MCTerminals ----------------------------
(* Glyphs of 8 by 16 on a display as wide as the code's, 1280 pixels, with  *)
(* few rows of the code's 960.                                              *)
(* Cursors are independent, so one printer prints in each behaviour.        *)
EXTENDS Terminals

OnePrinter == \E num \in Printers :
                  /\ \A other \in Printers \ {num} : cursor[other] = [x |-> 0, y |-> 0]
                  /\ drawn = {} \/ sent.num = num
=============================================================================
