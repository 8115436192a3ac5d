----------------------------- MODULE MCBacktest -----------------------------
(***************************************************************************)
(* Four M15 bars of two terminals with twelve M5 bars, one of them         *)
(* corrected; the second and the third H1 bar are cut into by the range.   *)
(***************************************************************************)
EXTENDS Backtest

MCLength == [M5 |-> 1, M15 |-> 3, H1 |-> 12]

Row(terminal, tf, t, revision, h, l) ==
    [terminal |-> terminal, tf |-> tf, t |-> t, revision |-> revision,
     closed |-> TRUE, h |-> h, l |-> l]

Highs == <<3, 4, 3, 5, 3, 3, 6, 3, 2, 3, 3, 3>>
Lows  == <<1, 2, 2, 2, 2, 0, 2, 2, 1, 2, 1, 1>>

Bars == {Row("a", "M5", 11 + k, 0, Highs[k], Lows[k]) : k \in 1 .. 12}
        \union {Row(x, "M15", 9 + 3 * k, 0, 6, 0) : x \in {"a", "b"}, k \in 1 .. 4}
        \union {Row("a", "H1", 12 * k, 0, 6, 0) : k \in 0 .. 1}
Corrected == Bars \union {Row("b", "M15", 15, 1, 7, 0)}
\* Only n of the M15 bars have closed.
First(n) == {[r EXCEPT !.closed = r.tf # "M15" \/ r.t < 12 + 3 * n] : r \in Bars}

\* Two bars are enough for the check and too few for a round of the loop.
MCHistories == {Bars, Corrected, First(2), First(1)}

MCSetups == {[direction |-> "LONG", entry |-> 2, sl |-> 1, tp |-> 5],
             [direction |-> "LONG", entry |-> 2, sl |-> 1, tp |-> 4],
             [direction |-> "SHORT", entry |-> 3, sl |-> 6, tp |-> 1]}
=============================================================================
