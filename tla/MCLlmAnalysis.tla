--------------------------- MODULE MCLlmAnalysis ---------------------------
(***************************************************************************)
(* Three tables of candles: a market with a corrected bar, the same market *)
(* an hour later, and one with too few bars. The ticks: one out of reach of *)
(* the setup that the last candle is near, and one within reach.           *)
(***************************************************************************)
EXTENDS LlmAnalysis

CONSTANTS j1, j2

Candle(tf, t, revision, h, l, c) ==
    [tf |-> tf, t |-> t, revision |-> revision, h |-> h, l |-> l, c |-> c]

\* True ranges of 4 and 6 after the first bar.
Rows == {Candle("M15", 15, 0, 102, 98, 100), Candle("M15", 30, 0, 103, 99, 101),
         Candle("M15", 45, 0, 107, 99, 100), Candle("M15", 45, 1, 107, 101, 106)}
        \union {Candle("M5", 5 * k, 0, 107, 98, 100) : k \in 6 .. 9}

MCMarkets == {[rows |-> Rows, now |-> 60], [rows |-> Rows, now |-> 106],
              [rows |-> {r \in Rows : r.t < 40}, now |-> 60]}

MCLookback == [M15 |-> 90, M5 |-> 60]
MCLimit    == [M15 |-> 4, M5 |-> 4]
MCMin      == [M15 |-> 3, M5 |-> 3]

MCTicks == {[last |-> 0, bid |-> 95], [last |-> 107, bid |-> 95]}

Setup(entry, stop) == [direction |-> "LONG", entry |-> entry, stop |-> stop]

\* The mean range is 5: an entry within 7.5 of the price passes, and a setup
\* without entry and stop, which lacks targets as well, is not compared.
MCSetups  == {Setup(100, 98)}
MCAnswers == {[kind |-> "no JSON"], [kind |-> "NONE"],
              [kind |-> "setup", setup |-> Setup(103, 100)],
              [kind |-> "incomplete", setup |-> Setup(0, 0)]}
=============================================================================
