-------------------------- MODULE MCSignalTracker --------------------------
(***************************************************************************)
(* One LONG and one SHORT signal with the geometry analyze() gives them:   *)
(* stop, entry zone and targets on the proper sides of each other. The     *)
(* prices hit every stop, zone, gap and target.                            *)
(***************************************************************************)
EXTENDS SignalTracker

CONSTANTS long, short

LongSetup  == [long |-> TRUE,  sl |-> 1, lo |-> 2, hi |-> 2, entry |-> 2,
               tps |-> <<3, 4, 5>>]
ShortSetup == [long |-> FALSE, sl |-> 5, lo |-> 4, hi |-> 4, entry |-> 4,
               tps |-> <<3, 1>>]

MCSetup  == [s \in Signals |-> IF s = long THEN LongSetup ELSE ShortSetup]
MCPrices == 1 .. 5

\* For overlapping passes: the last two targets at one price
TightSetup  == [s \in Signals |-> [LongSetup EXCEPT !.tps = <<3, 4, 4>>]]
TightPrices == 1 .. 4

=============================================================================
