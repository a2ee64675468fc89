--------------------------- MODULE MCAcquisition ---------------------------
(***************************************************************************)
(* Small instance: two processes and two runs between them, a ticker map *)
(* of one write and a filing of three, which makes two batches of two.     *)
(***************************************************************************)
EXTENDS Acquisition, TLC

CONSTANTS p1, p2

MCFiles == <<"tickers", "filing">>
MCParts == [tickers |-> 1, filing |-> 3]
=============================================================================
