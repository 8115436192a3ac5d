---------------------------- MODULE SignalEngine ----------------------------
(***************************************************************************)
(* analyze (packages/trading-core/src/engine.ts): the signal, or the reason *)
(* why there is none, for the candles the worker has loaded. The state is   *)
(* what the analysis reads: the M15 and M5 candles as the bridge stores     *)
(* them, the last of which may still be live, and the higher timeframes.    *)
(*                                                                         *)
(* Time counts M15 bars. A price difference below a unit is rounded down.   *)
(***************************************************************************)
EXTENDS TradingCore

CONSTANTS
    cfg,              \* the strategy configuration, ATR shares in hundredths
    MinM15, MinM5,    \* 30 and 50: fewer closed candles are not analysed
    MinRange,         \* 10: fewer closed candles have no dealing range
    MinBias, BiasBars,\* 5 and 20 closes of a higher timeframe
    Sessions, Day, Week,
    Shapes,           \* the [move, up, down] of an M5 bar from the last close
    LiveShapes,       \* those of a bar that has not closed yet
    Starts,           \* the M5 bars stored at the start, a multiple of three,
                      \* with the closes of H4 and H1: [bars, h4, h1]
    MaxBars           \* bound: M5 bars

\* The dealing range reads 4 * maxSetupAge candles and must not be null, and
\* the true ranges are divided by atrPeriod.
ASSUME ConfigAssumption ==
    /\ MinM15 >= MinRange /\ 4 * cfg.maxSetupAge >= MinRange
    /\ cfg.left \in Nat /\ cfg.right \in Nat
    /\ cfg.atrPeriod \in Nat \ {0} /\ cfg.slBuffer \in Nat

Bars == [t : Nat, o : Int, h : Int, l : Int, c : Int, closed : BOOLEAN]

\* A bar closes within its range.
Ranged(b) == b.l <= b.c /\ b.c <= b.h

ASSUME ShapesAssumption ==
    Shapes \union LiveShapes \subseteq [move : Int, up : Nat, down : Nat]
ASSUME StartsAssumption ==
    /\ MaxBars \in Nat
    /\ \A s \in Starts :
          /\ s.bars \in Seq(Bars)
          /\ \E k \in 1 .. MaxBars : Len(s.bars) = 3 * k /\ 3 * k <= MaxBars
          /\ \A i \in DOMAIN s.bars :
                s.bars[i].t = i /\ Ranged(s.bars[i]) /\ s.bars[i].closed

VARIABLES
    m15, m5,          \* Candle rows of the two timeframes, by openTime
    htf,              \* the closes of H4 and H1
    now,              \* the wall clock: the M15 bar that is forming
    analysis          \* what analyze answers for these rows

vars == <<m15, m5, htf, now, analysis>>

-----------------------------------------------------------------------------
\* engine.ts: what the checks are made from

Floor(q) == q.num \div q.den
LastN(s, n) == SubSeq(s, Max({1, Len(s) - n + 1}), Len(s))

\* Null for fewer than MinRange closed candles.
DealingRange(cs) ==
    [high |-> Max({cs[i].h : i \in DOMAIN cs}),
     low  |-> Min({cs[i].l : i \in DOMAIN cs})]

\* The sign of a change of more than a thousandth over the last closes.
BiasOf(closes) ==
    LET recent == LastN(closes, BiasBars)
        change == 1000 * (recent[Len(recent)] - recent[1])
    IN  IF Len(recent) < MinBias THEN 0
        ELSE IF change > recent[1] THEN 1
        ELSE IF change < -recent[1] THEN -1 ELSE 0

HtfBias(h4, h1) ==
    LET a == BiasOf(h4)
        b == BiasOf(h1)
    IN  IF (a > 0 /\ b >= 0) \/ (a = 0 /\ b > 0) THEN "BULLISH"
        ELSE IF (a < 0 /\ b <= 0) \/ (a = 0 /\ b < 0) THEN "BEARISH"
        ELSE "NEUTRAL"

Displacements(cs, atrs) ==
    {i \in DOMAIN atrs \intersect DOMAIN cs :
        /\ AtLeast(Body(cs[i]), Share(cfg.dispBody, atrs[i]))
        /\ AtLeast(BarRange(cs[i]), Share(cfg.dispRange, atrs[i]))}

\* The levels of M15 and, of these, the swept ones with the sweeping candle.
Levels(c15, atrNow, clock) ==
    PivotsToLiquidity(FindPivots(c15, cfg.left, cfg.right),
                      Share(cfg.tolerance, atrNow), clock)
    \union PrevDayWeekLevels(c15, (clock \div Day) * Day, Day,
                             (clock \div Week) * Week, Week)
    \union SessionLevels(c15, Sessions, (clock \div Day) * Day)

Swept(levels, c15, atrNow) ==
    {l \in levels :
        ClassifyLevel(l, c15, Share(cfg.sweepPen, atrNow)).state = "SWEPT"}

Evidence(c15, c5, clock) ==
    LET atrs15  == Atr(c15, cfg.atrPeriod)
        atrs5   == Atr(c5, cfg.atrPeriod)
        atr15   == atrs15[Len(c15)]
        atr5    == atrs5[Len(c5)]
        levels  == Levels(c15, atr15, clock)
        disp    == Displacements(c15, atrs15)
        events  == DetectStructure(c5, FindPivots(c5, cfg.left, cfg.right),
                                   Share(cfg.breakBuffer, atr5))
    IN  [price   |-> c15[Len(c15)].c,
         range   |-> DealingRange(LastN(c15, 4 * cfg.maxSetupAge)),
         bias    |-> HtfBias(htf.h4, htf.h1),
         levels  |-> levels,
         swept   |-> Swept(levels, c15, atr15),
         events  |-> events,
         disp    |-> disp,
         fvgs    |-> {f \in DetectFvgs(c5, Share(cfg.minFvg, atr5)) : ~f.mitigated},
         obs     |-> DetectOrderBlocks(c15, disp),
         reach   |-> Share(500, atr15),
         slRoom  |-> Floor(Share(cfg.slBuffer, atr5))]

-----------------------------------------------------------------------------
\* engine.ts: the checks, the zone, the stop and the targets

Side(dir) == IF dir = "LONG" THEN "BULLISH" ELSE "BEARISH"

\* Bias and any sweep: a reversal or a continuation, in the bias' direction.
Direction(e) ==
    IF e.swept = {} \/ e.bias = "NEUTRAL" THEN "NONE"
    ELSE IF e.bias = "BULLISH" THEN "LONG" ELSE "SHORT"

InDiscount(e) == 2 * e.price < e.range.high + e.range.low
InPremium(e)  == 2 * e.price > e.range.high + e.range.low
ZoneSideOk(e, dir) == IF dir = "LONG" THEN InDiscount(e) ELSE InPremium(e)

BiasOk(e, dir)  == e.bias = Side(dir) \/ ZoneSideOk(e, dir)
SweptOk(e)      == e.swept # {}
DispOk(e, c15, dir) ==
    /\ e.disp # {}
    /\ Len(c15) - Max(e.disp) <= cfg.maxSetupAge
    /\ (dir = "LONG") = IsBullish(c15[Max(e.disp)])

LastEvent(e) == e.events[Len(e.events)]
StructOk(e, c5, dir) ==
    /\ e.events # <<>>
    /\ LastEvent(e).kind \in {"MSS", "CHOCH"}
    /\ LastEvent(e).direction = Side(dir)
    /\ Len(c5) - LastEvent(e).breakIndex <= cfg.maxConfirmAge

Matching(zones, dir) == {z \in zones : z.direction = Side(dir)}
ZoneOk(e, dir) == Matching(e.fvgs, dir) # {} \/ Matching(e.obs, dir) # {}

StructAdvisory(e, c15, c5, dir) ==                                \* mutant
    BiasOk(e, dir) /\ SweptOk(e) /\ DispOk(e, c15, dir) /\ ZoneOk(e, dir)
\* The checks that block; that the price is on the zone's side only adds weight.
ChecksPass(e, c15, c5, dir) ==
    /\ BiasOk(e, dir) /\ SweptOk(e) /\ DispOk(e, c15, dir)
    /\ StructOk(e, c5, dir) /\ ZoneOk(e, dir)

If(ok, weight) == IF ok THEN weight ELSE 0
\* The weights of the checks that hold and the bonus for an MSS, at most 100.
Confidence(e, c15, c5, dir) ==
    Min({100, If(BiasOk(e, dir), 20) + If(SweptOk(e), 20)
              + If(DispOk(e, c15, dir), 15) + If(StructOk(e, c5, dir), 20)
              + If(ZoneOk(e, dir), 15) + If(ZoneSideOk(e, dir), 10)
              + If(e.events # <<>> /\ LastEvent(e).kind = "MSS", 10)})

\* find takes the first, which is the oldest, of the matching zones.
First(zones) == CHOOSE z \in zones : \A x \in zones : z.at <= x.at
EntryZone(e, dir) ==
    IF Matching(e.fvgs, dir) # {} THEN First(Matching(e.fvgs, dir))
    ELSE CHOOSE o \in Matching(e.obs, dir) :
            \A x \in Matching(e.obs, dir) : o.from <= x.from

ZoneDistance(zone, price) == Max({zone.low - price, price - zone.high, 0})

StopInside(zone, dir, room) ==                                    \* mutant
    IF dir = "LONG" THEN zone.low + room ELSE zone.high - room
StopLoss(zone, dir, room) ==
    IF dir = "LONG" THEN zone.low - room ELSE zone.high + room

\* Opposing liquidity beyond the entry and beyond the current price.
Opposing(e, dir, entry) ==
    {l \in e.levels :
        IF dir = "LONG"
        THEN l.side = "HIGH" /\ l.price > entry /\ l.price > e.price
        ELSE l.side = "LOW"  /\ l.price < entry /\ l.price < e.price}

Nearer(dir, x, y) == IF dir = "LONG" THEN x.price < y.price ELSE x.price > y.price

\* One of the levels that no other is nearer than.
Nearest(levels, dir) ==
    CHOOSE l \in levels : \A x \in levels : ~Nearer(dir, x, l)

\* At most three, nearest first; without one the end of the dealing range.
TakeProfits(e, dir, entry) ==
    LET left[i \in 1 .. 3] ==
          IF i = 1 THEN Opposing(e, dir, entry)
          ELSE {l \in left[i - 1] : l # Nearest(left[i - 1], dir)}
        found   == Cardinality({i \in 1 .. 3 : left[i] # {}})
        Part(i) == IF i = 3 THEN 50 ELSE 25
    IN  IF found = 0
        THEN <<[price |-> IF dir = "LONG" THEN e.range.high ELSE e.range.low,
                part |-> 100]>>
        ELSE [i \in 1 .. found |->
                [price |-> Nearest(left[i], dir).price, part |-> Part(i)]]

No(why) == [found |-> FALSE, why |-> why]

\* From the entry zone on; every check but the zone's side holds.
Setup(e, c15, c5, dir) ==
    LET zone  == EntryZone(e, dir)
        entry == (zone.low + zone.high) \div 2
        stop  == StopLoss(zone, dir, e.slRoom)
        risk  == Abs(entry - stop)
        tps   == TakeProfits(e, dir, entry)
        conf  == Confidence(e, c15, c5, dir)
    IN  IF Exceeds(ZoneDistance(zone, e.price), e.reach) THEN No("stale_entry_zone")
        ELSE IF risk <= 0 THEN No("zero_risk")
        ELSE IF 100 * Abs(tps[1].price - entry) < cfg.minRR * risk
             THEN No("rr_too_low")
        ELSE IF conf < cfg.minConfidence THEN No("confidence_low")
        ELSE [found |-> TRUE, direction |-> dir, zone |-> zone, entry |-> entry,
              stop |-> stop, tps |-> tps, confidence |-> conf,
              opposing |-> Opposing(e, dir, entry) # {}]

WithLive(rows) == rows                                            \* mutant
Confirmed(rows) == ClosedOnly(rows)
Analyze(rows15, rows5, clock) ==
    LET c15 == Confirmed(rows15)
        c5  == Confirmed(rows5)
        e   == Evidence(c15, c5, clock)
        dir == Direction(e)
    IN  IF Len(c15) < MinM15 \/ Len(c5) < MinM5 THEN No("insufficient_candles")
        ELSE IF Len(c15) <= cfg.atrPeriod \/ Len(c5) <= cfg.atrPeriod
             THEN No("atr_not_ready")
        ELSE IF dir = "NONE" THEN No("no_model")
        ELSE IF ~ChecksPass(e, c15, c5, dir) THEN No("failed_checks")
        ELSE Setup(e, c15, c5, dir)

-----------------------------------------------------------------------------
\* The candles as the bridge stores them. An M15 row covers three M5 bars and
\* is stored by a request of its own, possibly after later M5 bars.

Aggregate(bars, t, closed) ==
    [t |-> t, o |-> bars[1].o, c |-> bars[Len(bars)].c, closed |-> closed,
     h |-> Max({bars[i].h : i \in DOMAIN bars}),
     l |-> Min({bars[i].l : i \in DOMAIN bars})]

Three(bars, k) == SubSeq(bars, 3 * k - 2, 3 * k)

\* The next M5 bar opens at the last close.
NextBar(bars, s, closed) ==
    LET o == bars[Len(bars)].c
        c == o + s.move
    IN  [t |-> Len(bars) + 1, o |-> o, c |-> c, closed |-> closed,
         h |-> Max({o, c}) + s.up, l |-> Min({o, c}) - s.down]

Init == /\ \E s \in Starts : m5 = s.bars /\ htf = [h4 |-> s.h4, h1 |-> s.h1]
        /\ m15 = [k \in 1 .. Len(m5) \div 3 |-> Aggregate(Three(m5, k), k, TRUE)]
        /\ now = Len(m15) + 1
        /\ analysis = Analyze(m15, m5, now)

\* Only the last row of a timeframe may be live.
Settled(rows) == IF rows[Len(rows)].closed THEN rows
                 ELSE SubSeq(rows, 1, Len(rows) - 1)
Closed5  == Settled(m5)
Closed15 == Settled(m15)

Store(rows15, rows5, clock) ==
    /\ m15' = rows15 /\ m5' = rows5 /\ now' = clock
    /\ analysis' = Analyze(rows15, rows5, clock)
    /\ UNCHANGED htf

\* candles/current: a live row, written again and again
Live5(s) == Store(m15, Append(Closed5, NextBar(Closed5, s, FALSE)), now)

Pending == SubSeq(m5, 3 * Len(Closed15) + 1, Len(m5))
Live15 == /\ Len(Pending) \in 1 .. 3
          /\ Store(Append(Closed15, Aggregate(Pending, now, FALSE)), m5, now)

\* candles/closed
Close5(s) == /\ Len(Closed5) < MaxBars
             /\ Store(m15, Append(Closed5, NextBar(Closed5, s, TRUE)), now)

Close15BesideLive ==                                              \* mutant
    /\ Len(Closed5) >= 3 * now
    /\ Store(Append(m15, Aggregate(Three(Closed5, now), now, TRUE)), m5, now + 1)
Close15 == /\ Len(Closed5) >= 3 * now
           /\ Store(Append(Closed15, Aggregate(Three(Closed5, now), now, TRUE)),
                    m5, now + 1)

Next == \/ \E s \in LiveShapes : Live5(s)
        \/ \E s \in Shapes : Close5(s)
        \/ Live15
        \/ Close15

Spec == Init /\ [][Next]_vars

-----------------------------------------------------------------------------
\* The invariant of the types: rows in the order of their bars, live ones only
\* at the end, and an analysis that is a signal or the reason for none.
Closed(cs) == \A i \in 1 .. Len(cs) - 1 : cs[i].closed
TypeOK ==
    /\ m5 \in Seq(Bars) /\ m15 \in Seq(Bars)
    /\ Closed(m5) /\ Closed(m15)
    /\ \A i \in DOMAIN m5 : m5[i].t = i /\ Ranged(m5[i])
    /\ \A i \in DOMAIN m15 : m15[i].t = i /\ Ranged(m15[i])
    /\ now = Len(Closed15) + 1 /\ Len(Closed5) <= MaxBars
    /\ analysis.found => analysis.direction \in {"LONG", "SHORT"}
    /\ ~analysis.found =>
          analysis.why \in {"insufficient_candles", "atr_not_ready", "no_model",
            "failed_checks", "stale_entry_zone", "zero_risk", "rr_too_low",
            "confidence_low"}

\* Why the types hold: there is a closed candle of either timeframe.
EngineInv == TypeOK /\ Closed5 # <<>> /\ Closed15 # <<>>

\* The analysis in the state is the one for the rows in the state.
Analysed == analysis = Analyze(m15, m5, now)

\* "No repaint" (pivots.ts 3-6): a confirmed pivot stays, and the only pivots a
\* further candle brings are those of the bar that it confirms.
NoRepaint(cs, next) ==
    LET found == PivotSet(cs, cfg.left, cfg.right)
        after == PivotSet(next, cfg.left, cfg.right)
    IN  /\ found \subseteq after
        /\ \A p \in after \ found : p.index = Len(next) - cfg.right
PivotsNeverRepaint ==
    [][NoRepaint(Closed5, Closed5') /\ NoRepaint(Closed15, Closed15')]_vars

\* "Only closed candles ever produce evidence" (README.md:54): whatever a live
\* row says, and however often it changes, the analysis is the same.
LiveIsNoEvidence ==
    [][Closed5' = Closed5 /\ Closed15' = Closed15 => analysis' = analysis]_vars

\* A structure break never comes before its pivot is confirmed, although
\* detectStructure looks for it from the bar after the pivot on; the pivots it
\* is given are all there are.
BreakAfterConfirmation ==
    /\ ToSet(FindPivots(Closed5, cfg.left, cfg.right))
         = PivotSet(Closed5, cfg.left, cfg.right)
    /\ \A e \in ToSet(DetectStructure(Closed5,
                       FindPivots(Closed5, cfg.left, cfg.right),
                       [num |-> 0, den |-> 1])) :
          e.breakIndex > e.pivotIndex + cfg.right

\* findEqualLevels: no pivot counts in two groups, and of two pivots of a kind
\* within the tolerance at least one is in a group.
EqualLevelsCover ==
    LET tol    == [num |-> 2, den |-> 1]
        pivots == FindPivots(Closed5, cfg.left, cfg.right)
    IN  \A kind \in {"HIGH", "LOW"} :
          LET groups == EqualGroups(pivots, kind, tol)
          IN  /\ \A g, h \in groups : g = h \/ g \intersect h = {}
              /\ \A i, j \in DOMAIN pivots :
                    (/\ i # j /\ pivots[i].kind = kind /\ pivots[j].kind = kind
                     /\ Abs(pivots[i].price - pivots[j].price) <= 2)
                       => {i, j} \intersect UNION groups # {}

\* The plan of a signal hangs together: the stop beyond the far edge of the
\* zone, a gap that is the zone not entered again up to the last M5 bar, the
\* targets nearest first and at most the whole position, and, when
\* they are opposing liquidity, beyond the entry and the current price. (The
\* end of the dealing range, taken without any, may lie behind the entry.)
PlanHangsTogether ==
    analysis.found =>
        LET sign == IF analysis.direction = "LONG" THEN 1 ELSE -1
            tps  == analysis.tps
        IN  /\ sign * (analysis.entry - analysis.stop) > 0
            /\ \A x \in {analysis.zone.low, analysis.zone.high} :
                  sign * (x - analysis.stop) >= 0
            /\ "mitigated" \in DOMAIN analysis.zone =>
                  IF sign = 1
                  THEN analysis.zone.high <= Closed5[Len(Closed5)].l
                  ELSE analysis.zone.low >= Closed5[Len(Closed5)].h
            /\ \A i, j \in DOMAIN tps :
                  i < j => sign * (tps[j].price - tps[i].price) >= 0
            /\ Total([i \in DOMAIN tps |-> tps[i].part]) <= 100
            /\ analysis.opposing => \A i \in DOMAIN tps :
                  /\ sign * (tps[i].price - analysis.entry) > 0
                  /\ sign * (tps[i].price - Closed15[Len(Closed15)].c) > 0

\* The weights of the five checks that block add up to 90: a signal of the
\* engine has confidence 90 or 100, whatever minimumConfidence says, and so is
\* never held back by the gate's cooldown (analyzer.ts 223).
NeverThrottled == analysis.found => analysis.confidence \in {90, 100}
=============================================================================
