---------------------------- MODULE TradingCore ----------------------------
(***************************************************************************)
(* The detectors of packages/trading-core as operators on sequences of     *)
(* candles: true range and Wilder's ATR, pivots, equal levels, structure   *)
(* events, fair value gaps, order blocks, liquidity levels and sweeps.     *)
(*                                                                         *)
(* A candle is [t, o, h, l, c, closed]; t is openTime. Positions count     *)
(* from 1 where the code counts from 0. Prices are integers. An ATR and a  *)
(* share of it are fractions [num, den], compared exactly.                 *)
(***************************************************************************)
EXTENDS Integers, Sequences, SequencesExt, FiniteSets, FiniteSetsExt

Abs(x) == IF x < 0 THEN -x ELSE x

\* A configured multiple of the ATR, given in hundredths.
Share(hundredths, a) == [num |-> hundredths * a.num, den |-> 100 * a.den]
AtLeast(x, q) == x * q.den >= q.num
Exceeds(x, q) == x * q.den > q.num

\* The sum of a sequence of integers.
Total(s) ==
    LET sum[i \in 0 .. Len(s)] == IF i = 0 THEN 0 ELSE sum[i - 1] + s[i]
    IN  sum[Len(s)]

-----------------------------------------------------------------------------
\* measure.ts

\* The closed candles, in their order.
ClosedOnly(cs) ==
    LET closed == {i \in DOMAIN cs : cs[i].closed}
        Nth(k) == CHOOSE i \in closed : Cardinality({j \in closed : j <= i}) = k
    IN  [k \in 1 .. Cardinality(closed) |-> cs[Nth(k)]]

Body(c)      == Abs(c.c - c.o)
BarRange(c)  == c.h - c.l
IsBullish(c) == c.c > c.o
IsBearish(c) == c.c < c.o

TrueRange(cur, prev) ==
    Max({cur.h - cur.l, Abs(cur.h - prev.c), Abs(cur.l - prev.c)})

\* previous * (period - 1) + true range, over one more factor period
Wilder(previous, period, term) ==
    [num |-> previous.num * (period - 1) + term * previous.den,
     den |-> previous.den * period]

\* Defined from position period + 1 on, the mean of the first true ranges.
Atr(cs, period) ==
    LET Term(i) == TrueRange(cs[i], cs[i - 1])
        atr[i \in period + 1 .. Len(cs)] ==
          IF i = period + 1
          THEN [num |-> Total([k \in 1 .. period |-> Term(k + 1)]), den |-> period]
          ELSE Wilder(atr[i - 1], period, Term(i))
    IN  atr

-----------------------------------------------------------------------------
\* pivots.ts

\* Position i beats its neighbours, and all of them are there.
IsPivot(cs, i, left, right, Beats(_, _)) ==
    /\ i \in left + 1 .. Len(cs) - right
    /\ \A j \in (i - left .. i + right) \ {i} : Beats(cs[i], cs[j])

Higher(x, y) == x.h > y.h
Lower(x, y)  == x.l < y.l

UnconfirmedHigh(cs, i, left, right) == IsPivot(cs, i, left, right - 1, Higher) \* mutant
HighPivot(cs, i, left, right) == IsPivot(cs, i, left, right, Higher)
LowPivot(cs, i, left, right)  == IsPivot(cs, i, left, right, Lower)

Pivot(cs, i, kind) ==
    [index |-> i, t |-> cs[i].t, kind |-> kind,
     price |-> IF kind = "HIGH" THEN cs[i].h ELSE cs[i].l]

PivotSet(cs, left, right) ==
    {Pivot(cs, i, "HIGH") : i \in {j \in DOMAIN cs : HighPivot(cs, j, left, right)}}
    \union
    {Pivot(cs, i, "LOW") : i \in {j \in DOMAIN cs : LowPivot(cs, j, left, right)}}

\* In the order of their bars; a bar may be a high and a low at once.
FindPivots(cs, left, right) ==
    LET At(i) ==
          (IF HighPivot(cs, i, left, right)
           THEN <<Pivot(cs, i, "HIGH")>> ELSE <<>>)
          \o (IF LowPivot(cs, i, left, right)
              THEN <<Pivot(cs, i, "LOW")>> ELSE <<>>)
        found[i \in 0 .. Len(cs)] ==
          IF i = 0 THEN <<>> ELSE found[i - 1] \o At(i)
    IN  found[Len(cs)]

BelowTolerance(p, q, tol) == ~AtLeast(Abs(p.price - q.price), tol)  \* mutant
WithinTolerance(p, q, tol) == ~Exceeds(Abs(p.price - q.price), tol)

\* findEqualLevels: the first ungrouped pivot leads a group and takes every
\* later one that is near it and that no earlier leader has taken. Groups are
\* sets of positions; near means of the kind and within the tolerance.
Near(pivots, kind, tol, i, j) ==
    /\ pivots[i].kind = kind /\ pivots[j].kind = kind
    /\ WithinTolerance(pivots[i], pivots[j], tol)

\* The leaders among the first n pivots.
Leaders(pivots, kind, tol, n) ==
    LET leaders[i \in 0 .. Len(pivots)] ==
          IF i = 0 THEN {}
          ELSE LET before == leaders[i - 1]
               IN  IF \/ pivots[i].kind # kind
                      \/ \E k \in before : Near(pivots, kind, tol, k, i)
                   THEN before ELSE before \union {i}
    IN  leaders[n]

Group(pivots, kind, tol, k) ==
    {k} \union {j \in k + 1 .. Len(pivots) :
                  /\ Near(pivots, kind, tol, k, j)
                  /\ \A e \in Leaders(pivots, kind, tol, k - 1) :
                        ~Near(pivots, kind, tol, e, j)}

EqualGroups(pivots, kind, tol) ==
    {g \in {Group(pivots, kind, tol, k) :
                k \in Leaders(pivots, kind, tol, Len(pivots))} :
        Cardinality(g) >= 2}

-----------------------------------------------------------------------------
\* structure.ts

\* The positions after the pivot that close beyond it by the buffer.
Breaks(cs, p, buffer) ==
    {k \in p.index + 1 .. Len(cs) :
        /\ cs[k].closed
        /\ IF p.kind = "HIGH" THEN Exceeds(cs[k].c - p.price, buffer)
                              ELSE Exceeds(p.price - cs[k].c, buffer)}

\* Only two adjacent pivots of one kind tell a trend.
InferTrend(trend, prev, cur) ==
    IF prev.kind = "HIGH" /\ cur.kind = "HIGH" /\ cur.price > prev.price
    THEN "UP"
    ELSE IF prev.kind = "LOW" /\ cur.kind = "LOW" /\ cur.price < prev.price
    THEN "DOWN" ELSE trend

BreaksOrigin(pivots, i) ==
    \E k \in {i - 1, i - 2} \intersect DOMAIN pivots :
        /\ pivots[k].kind = pivots[i].kind
        /\ IF pivots[i].kind = "HIGH" THEN pivots[k].price < pivots[i].price
                                      ELSE pivots[k].price > pivots[i].price

StructureEvent(cs, pivots, i, trend, buffer) ==
    LET up == pivots[i].kind = "HIGH"
    IN  [direction  |-> IF up THEN "BULLISH" ELSE "BEARISH",
         pivotIndex |-> pivots[i].index,
         breakIndex |-> Min(Breaks(cs, pivots[i], buffer)),
         kind |-> IF trend # (IF up THEN "DOWN" ELSE "UP") THEN "BOS"
                  ELSE IF BreaksOrigin(pivots, i) THEN "MSS" ELSE "CHOCH"]

\* One event at most for each pivot but the first, in the order of the pivots.
DetectStructure(cs, pivots, buffer) ==
    LET seen[i \in DOMAIN pivots] ==
          IF i = 1 THEN [trend |-> "NONE", events |-> <<>>]
          ELSE LET trend == InferTrend(seen[i - 1].trend,
                                       pivots[i - 1], pivots[i])
               IN  IF Breaks(cs, pivots[i], buffer) = {}
                   THEN [seen[i - 1] EXCEPT !.trend = trend]
                   ELSE [trend |-> IF pivots[i].kind = "HIGH"
                                   THEN "UP" ELSE "DOWN",
                         events |-> Append(seen[i - 1].events,
                            StructureEvent(cs, pivots, i, trend, buffer))]
    IN  IF Len(pivots) < 2 THEN <<>> ELSE seen[Len(pivots)].events

-----------------------------------------------------------------------------
\* zones.ts

\* A gap between the neighbours of position i, of at least minSize.
Gap(cs, i, minSize) ==
    LET a == cs[i - 1]
        c == cs[i + 1]
    IN  {g \in {[direction |-> "BULLISH", low |-> a.h, high |-> c.l],
                [direction |-> "BEARISH", low |-> c.h, high |-> a.l]} :
            g.high > g.low /\ AtLeast(g.high - g.low, minSize)}

\* A later candle trades back to the near edge of the gap.
TradesBack(c, g) ==
    c.closed /\ IF g.direction = "BULLISH" THEN c.l <= g.high ELSE c.h >= g.low

DetectFvgs(cs, minSize) ==
    UNION {{[direction |-> g.direction, low |-> g.low, high |-> g.high, at |-> i,
             mitigated |-> \E k \in i + 2 .. Len(cs) : TradesBack(cs[k], g)] :
               g \in Gap(cs, i, minSize)} :
           i \in {j \in 2 .. Len(cs) - 1 :
                    cs[j - 1].closed /\ cs[j].closed /\ cs[j + 1].closed}}

Opposite(c, d) == IF IsBullish(d) THEN IsBearish(c) ELSE IsBullish(c)

\* The last opposite candle among the three before a displacement. The code
\* never sets "mitigated" of an order block.
OppositesBefore(cs, d) ==
    {k \in (d - 3 .. d - 1) \intersect DOMAIN cs :
        cs[k].closed /\ Opposite(cs[k], cs[d])}

DetectOrderBlocks(cs, displacements) ==
    LET OrderBlock(d) ==
          LET j == Max(OppositesBefore(cs, d))
          IN  [direction |-> IF IsBullish(cs[d]) THEN "BULLISH" ELSE "BEARISH",
               low |-> cs[j].l, high |-> cs[j].h, at |-> j, from |-> d]
    IN  {OrderBlock(d) : d \in {x \in displacements :
            cs[x].closed /\ OppositesBefore(cs, x) # {}}}

-----------------------------------------------------------------------------
\* liquidity.ts

\* A level is [source, side, price, since, derived]. "since" is detectedAt;
\* a derived level (swing or equal) is scanned whatever its "since".
WindowLevels(cs, source, from, to, since, atLeast) ==
    LET inWin == {i \in DOMAIN cs : cs[i].closed /\ cs[i].t >= from /\ cs[i].t < to}
        Level(side, price) == [source |-> source, side |-> side,
                               price |-> price, since |-> since, derived |-> FALSE]
    IN  IF Cardinality(inWin) < atLeast THEN {}
        ELSE {Level("HIGH", Max({cs[i].h : i \in inWin})),
              Level("LOW",  Min({cs[i].l : i \in inWin}))}

\* sessions: a set of [name, from, to], the hours of a day
SessionLevels(cs, sessions, dayStart) ==
    UNION {WindowLevels(cs, s.name, dayStart + s.from, dayStart + s.to,
                        dayStart + s.to, 2) : s \in sessions}

PrevDayWeekLevels(cs, dayStart, day, weekStart, week) ==
    WindowLevels(cs, "PD", dayStart - day, dayStart, dayStart, 1)
    \union WindowLevels(cs, "PW", weekStart - week, weekStart, weekStart, 1)

\* The mean price of an equal-level group, rounded down.
MeanPrice(pivots, g) ==
    Total([i \in DOMAIN pivots |-> IF i \in g THEN pivots[i].price ELSE 0])
        \div Cardinality(g)

PivotsToLiquidity(pivots, tol, now) ==
    {[source |-> "SWING", side |-> p.kind, price |-> p.price,
      since |-> p.t, derived |-> TRUE] : p \in ToSet(pivots)}
    \union
    UNION {{[source |-> "EQUAL", side |-> side, price |-> MeanPrice(pivots, g),
             since |-> now, derived |-> TRUE] :
                g \in EqualGroups(pivots, side, tol)} : side \in {"HIGH", "LOW"}}

\* Scanned: closed, and after "since" for a level that is not derived.
Scanned(level, cs) ==
    {i \in DOMAIN cs : cs[i].closed /\ (level.derived \/ cs[i].t > level.since)}

SweepsIt(level, c, pen) ==
    IF level.side = "HIGH"
    THEN Exceeds(c.h - level.price, pen) /\ c.c < level.price
    ELSE Exceeds(level.price - c.l, pen) /\ c.c > level.price

BreaksIt(level, c) ==
    IF level.side = "HIGH" THEN c.c > level.price ELSE c.c < level.price

TouchesIt(level, c) ==
    IF level.side = "HIGH" THEN c.h >= level.price ELSE c.l <= level.price

\* The first sweep or break decides; without one the first touch does.
ClassifyLevel(level, cs, pen) ==
    LET scanned == Scanned(level, cs)
        ended   == {i \in scanned : SweepsIt(level, cs[i], pen)
                                     \/ BreaksIt(level, cs[i])}
        touched == {i \in scanned : TouchesIt(level, cs[i])}
    IN  IF ended # {}
        THEN [state |-> IF SweepsIt(level, cs[Min(ended)], pen)
                        THEN "SWEPT" ELSE "BROKEN", at |-> cs[Min(ended)].t]
        ELSE IF touched # {}
        THEN [state |-> "TOUCHED", at |-> cs[Min(touched)].t]
        ELSE [state |-> "FRESH", at |-> -1]
=============================================================================
