--------------------------- MODULE MCDeviceFiles ---------------------------
(* A tape of two blocks and a disk of two sectors on one small card.        *)
EXTENDS DeviceFiles, TLC

CONSTANTS tape, disk

\* Contiguous, interleaved, and backwards: a sector of the table has four entries.
MCChains == {
    (tape :> <<2, 3, 4, 5, 6>>) @@ (disk :> <<7, 8, 9, 10, 11, 12>>),
    (tape :> <<3, 5, 7, 9, 11>>) @@ (disk :> <<2, 4, 6, 8, 10, 12>>),
    (tape :> <<12, 6, 10, 4, 8>>) @@ (disk :> <<11, 9, 7, 5, 3, 2>>)}
=============================================================================
