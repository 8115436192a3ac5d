--------------------------- MODULE BacktestProofs ---------------------------
(***************************************************************************)
(* The invariants of Backtest, for every table of candles, engine, range,  *)
(* warm-up and number of stalls and faults. What the engine is shown rests *)
(* on two facts about the loaded candles: there is one for each opening    *)
(* time, and the order of the opening times is that of the list. What the  *)
(* row lists rests on counting the writes of the executions.               *)
(***************************************************************************)
EXTENDS Backtest, FiniteSetTheorems, TLAPS

-----------------------------------------------------------------------------
(* Lists *)

LEMMA ToSetOf ==
    ASSUME NEW S, NEW s \in Seq(S)
    PROVE  s \in Seq(ToSet(s)) /\ ToSet(s) \subseteq S
           /\ \A k \in DOMAIN s : s[k] \in ToSet(s)
BY DEF ToSet

\* An engine that answers nothing adds nothing, and one answer is appended.
LEMMA ListOfNone == SetToSeq({}) = <<>>
<1>1. Cardinality({}) = 0
      BY FS_EmptySet
<1>2. \E f \in [1 .. 0 -> {}] : IsInjective(f)
      BY <<>> \in [1 .. 0 -> {}] DEF IsInjective
<1>3. SetToSeq({}) \in [1 .. 0 -> {}]
      BY <1>1, <1>2 DEF SetToSeq
<1> QED BY <1>3

LEMMA ListOfOne == ASSUME NEW x PROVE SetToSeq({x}) = <<x>>
<1>1. Cardinality({x}) = 1
      BY FS_Singleton
<1>2. <<x>> \in [1 .. 1 -> {x}] /\ IsInjective(<<x>>)
      BY DEF IsInjective
<1>3. SetToSeq({x}) \in [1 .. 1 -> {x}]
      BY <1>1, <1>2 DEF SetToSeq
<1> QED BY <1>3

-----------------------------------------------------------------------------
(* Candles *)

\* Of finitely many revisions one is the latest.
LEMMA LatestExists ==
    ASSUME NEW S, IsFiniteSet(S), S # {}, \A r \in S : r.revision \in Int
    PROVE  \E r \in S : \A s \in S : ~Better(s, r)
<1> DEFINE Above(r) == {s \in S : Better(s, r)}
           family == {Above(r) : r \in S}
<1>1. family \subseteq FiniteSubsetsOf(S) /\ family # {}
  <2>1. \A r \in S : Above(r) \in SUBSET S
        OBVIOUS
  <2>2. FiniteSubsetsOf(S) = SUBSET S
        BY FS_FiniteSubsetsOfFinite
  <2>3. \A T \in family : T \in SUBSET S
        BY <2>1
  <2>4. family # {}
        OBVIOUS
  <2> HIDE DEF family
  <2> QED BY <2>2, <2>3, <2>4
<1>2. PICK A \in family : \A B \in family : ~(<<B, A>> \in StrictSubsetOrdering(S))
      BY <1>1, FS_StrictSubsetOrderingWellFounded, WFMin
<1>3. PICK r \in S : A = Above(r)
      OBVIOUS
<1>4. ASSUME NEW s \in S, Better(s, r)
      PROVE  FALSE
  <2>1. Above(s) \subseteq Above(r) /\ s \in Above(r) /\ s \notin Above(s)
        BY <1>4 DEF Better
  <2>2. <<Above(s), Above(r)>> \in StrictSubsetOrdering(S)
        BY <2>1 DEF StrictSubsetOrdering
  <2> QED BY <1>2, <1>3, <2>2
<1> QED BY <1>4

\* What is loaded are stored rows of the timeframe, one for each opening time.
LEMMA LoadedRows ==
    ASSUME NEW tf, rows \in Histories
    PROVE  /\ IsFiniteSet(Load(tf))
           /\ \A c \in Load(tf) : c \in rows /\ c.tf = tf /\ c.t \in Int
           /\ \A c, d \in Load(tf) : c.t = d.t => c = d
<1> DEFINE from == IF Length[tf] > Length["M15"] THEN 0 ELSE From
           inRange == InRange(tf, from, To)
           At(t) == {r \in inRange : r.t = t}
           Latest(t) == CHOOSE r \in At(t) : \A s \in At(t) : ~Better(s, r)
<1>1. Load(tf) = {Latest(r.t) : r \in inRange}
      BY DEF Load, LoadCandleRange
<1>2. /\ inRange \in SUBSET rows /\ IsFiniteSet(rows)
      /\ \A r \in inRange : r.tf = tf /\ r.t \in Int /\ r.revision \in Int
      BY BacktestAssumption DEF InRange
<1> HIDE DEF inRange
<1>3. \A r \in inRange : Latest(r.t) \in At(r.t)
  <2> SUFFICES ASSUME NEW r \in inRange
              PROVE  Latest(r.t) \in At(r.t)
              OBVIOUS
  <2>1. At(r.t) \in SUBSET rows /\ r \in At(r.t)
        BY <1>2
  <2>2. IsFiniteSet(At(r.t)) /\ \A s \in At(r.t) : s.revision \in Int
        BY <1>2, <2>1, FS_Subset
  <2>3. \E x \in At(r.t) : \A s \in At(r.t) : ~Better(s, x)
        BY <2>1, <2>2, LatestExists
  <2> QED BY <2>3
<1>4. \A c \in Load(tf) : c \in inRange /\ c = Latest(c.t)
  <2>1. \A r \in inRange : Latest(r.t) \in inRange /\ Latest(r.t).t = r.t
        BY <1>3
  <2> HIDE DEF Latest
  <2> QED BY <1>1, <2>1
<1> HIDE DEF Latest
<1>5. Load(tf) \in SUBSET rows
      BY <1>2, <1>4
<1>6. IsFiniteSet(Load(tf))
      BY <1>2, <1>5, FS_Subset
<1> QED BY <1>2, <1>4, <1>6

\* The candles are listed by their opening times.
LEMMA InOrderSorts ==
    ASSUME NEW S, IsFiniteSet(S), \A c \in S : c.t \in Int,
           \A c, d \in S : c.t = d.t => c = d
    PROVE  /\ Cardinality(S) \in Nat
           /\ InOrder(S) \in [1 .. Cardinality(S) -> S]
           /\ \A j, k \in 1 .. Cardinality(S) :
                 j < k => InOrder(S)[j].t < InOrder(S)[k].t
<1> DEFINE n == Cardinality(S)
           Below(c) == Cardinality(Before(c, S))
           rank == [c \in S |-> Below(c) + 1]
<1>1. n \in Nat
      BY FS_CardinalityType
<1>2. \A c \in S : IsFiniteSet(Before(c, S)) /\ Below(c) \in 0 .. n - 1
  <2>1. TAKE c \in S
  <2>2. Before(c, S) \in SUBSET S /\ c \notin Before(c, S)
        BY DEF Before
  <2>3. IsFiniteSet(Before(c, S)) /\ Below(c) <= n /\ Below(c) # n
        BY <2>2, FS_Subset
  <2>4. Below(c) \in Nat
        BY <2>3, FS_CardinalityType
  <2> QED BY <1>1, <2>2, <2>3, <2>4
<1>3. \A c, d \in S : c.t < d.t => Below(c) < Below(d)
  <2> SUFFICES ASSUME NEW c \in S, NEW d \in S, c.t < d.t
              PROVE  Below(c) < Below(d)
              OBVIOUS
  <2>1. Before(c, S) \in SUBSET Before(d, S) /\ c \in Before(d, S) \ Before(c, S)
        BY DEF Before
  <2>2. Below(c) <= Below(d) /\ Below(c) # Below(d)
        BY <1>2, <2>1, FS_Subset
  <2> QED BY <1>2, <2>2
<1>4. rank \in Injection(S, 1 .. n)
  <2>1. rank \in [S -> 1 .. n]
        BY <1>1, <1>2
  <2>2. \A c, d \in S : rank[c] = rank[d] => c = d
        BY <1>2, <1>3
  <2> QED BY <2>1, <2>2 DEF Injection, IsInjective
<1>5. rank \in Surjection(S, 1 .. n)
  <2>1. IsFiniteSet(1 .. n) /\ Cardinality(1 .. n) = n
        BY <1>1, FS_Interval
  <2> QED BY <1>4, <2>1, FS_Injection
<1>6. \A k \in 1 .. n : \E c \in S : Below(c) = k - 1
  <2> TAKE k \in 1 .. n
  <2>1. PICK c \in S : rank[c] = k
        BY <1>5 DEF Surjection
  <2> QED BY <1>1, <1>2, <2>1
<1>7. \A k \in 1 .. n : InOrder(S)[k] \in S /\ Below(InOrder(S)[k]) = k - 1
      BY <1>6 DEF InOrder
<1>8. InOrder(S) \in [1 .. n -> S]
      BY <1>7 DEF InOrder
<1>9. ASSUME NEW j \in 1 .. n, NEW k \in 1 .. n, j < k
      PROVE  InOrder(S)[j].t < InOrder(S)[k].t
  <2> DEFINE c == InOrder(S)[j]
             d == InOrder(S)[k]
  <2>1. c \in S /\ d \in S /\ Below(c) = j - 1 /\ Below(d) = k - 1
        BY <1>7
  <2> HIDE DEF c, d
  <2>2. ~(d.t < c.t) /\ c # d
        BY <1>1, <1>3, <1>9, <2>1
  <2>3. c.t < d.t
        BY <2>1, <2>2
  <2> QED BY <2>3 DEF c, d
<1> QED BY <1>1, <1>8, <1>9

LEMMA M15Sorted ==
    ASSUME rows \in Histories
    PROVE  /\ Len(M15) \in Nat /\ DOMAIN M15 = 1 .. Len(M15)
           /\ \A k \in 1 .. Len(M15) : M15[k].tf = "M15" /\ M15[k].t \in Int
           /\ \A j, k \in 1 .. Len(M15) : j < k => M15[j].t < M15[k].t
<1> DEFINE S == Load("M15")
<1>1. /\ IsFiniteSet(S)
      /\ \A c \in S : c.tf = "M15" /\ c.t \in Int
      /\ \A c, d \in S : c.t = d.t => c = d
      BY LoadedRows
<1>2. /\ Cardinality(S) \in Nat
      /\ InOrder(S) \in [1 .. Cardinality(S) -> S]
      /\ \A j, k \in 1 .. Cardinality(S) :
            j < k => InOrder(S)[j].t < InOrder(S)[k].t
      BY <1>1, InOrderSorts
<1>3. M15 = InOrder(S)
      BY DEF M15
<1>4. M15 \in Seq(S) /\ Len(M15) = Cardinality(S)
      BY <1>2, <1>3
<1> QED BY <1>1, <1>2, <1>3, <1>4

\* What the engine is shown for the bar at k, and what it was for the bar of
\* the last round as long as neither table, position nor view changes.
LEMMA SeenUpToBar ==
    ASSUME rows \in Histories, NEW k \in 1 .. Len(M15), NEW c \in Seen(k)
    PROVE  /\ c.t <= M15[k].t
           /\ ClosesAt(c) <= ClosesAt(M15[k]) \/ Length[c.tf] > Length["M15"]
<1>1. /\ Len(M15) \in Nat /\ DOMAIN M15 = 1 .. Len(M15)
      /\ \A n \in 1 .. Len(M15) : M15[n].tf = "M15" /\ M15[n].t \in Int
      /\ \A m, n \in 1 .. Len(M15) : m < n => M15[m].t < M15[n].t
      BY M15Sorted
<1>2. CASE c \in ToSet(SubSeq(M15, 1, k))
  <2>1. PICK m \in 1 .. k : c = M15[m]
        BY <1>1, <1>2 DEF ToSet
  <2>2. c.tf = "M15" /\ c.t \in Int /\ c.t <= M15[k].t
        BY <1>1, <2>1
  <2> QED BY <1>1, <2>2, BacktestAssumption DEF ClosesAt
<1>3. CASE \E tf \in Timeframes \ {"M15"} : c \in Slice(Load(tf), M15[k].t)
  <2>1. PICK tf \in Timeframes \ {"M15"} : c \in Slice(Load(tf), M15[k].t)
        BY <1>3
  <2>2. c \in Load(tf) /\ c.t <= M15[k].t
        BY <2>1 DEF Slice
  <2>3. c.tf = tf /\ c.t \in Int
        BY <2>2, LoadedRows
  <2> QED BY <1>1, <2>1, <2>2, <2>3, BacktestAssumption DEF ClosesAt, Timeframes
<1> QED BY <1>2, <1>3 DEF Seen

LEMMA SameM15 == ASSUME rows' = rows PROVE M15' = M15
BY DEF M15, InOrder, Before, Load, LoadCandleRange, InRange, Better

-----------------------------------------------------------------------------
(* How often a setup is listed *)

LEMMA CopiesFinite ==
    ASSUME NEW S, NEW trades \in Seq(S), NEW key
    PROVE  /\ IsFiniteSet(Copies(trades, key))
           /\ Cardinality(Copies(trades, key)) \in Nat
           /\ Copies(trades, key) \subseteq 1 .. Len(trades)
<1>1. /\ Len(trades) \in Nat /\ DOMAIN trades = 1 .. Len(trades)
      OBVIOUS
<1>2. IsFiniteSet(1 .. Len(trades)) /\ Copies(trades, key) \subseteq 1 .. Len(trades)
      BY <1>1, FS_Interval DEF Copies
<1> QED BY <1>2, FS_Subset, FS_CardinalityType

\* A bound on the setups that are listed is one on all of them.
LEMMA CopiesBound ==
    ASSUME NEW S, NEW trades \in Seq(S), NEW n \in Nat, NEW key,
           \A a \in DOMAIN trades :
              Cardinality(Copies(trades, Key(trades[a].setup))) <= n
    PROVE  Cardinality(Copies(trades, key)) <= n
<1>1. CASE Copies(trades, key) = {}
      BY <1>1, FS_EmptySet
<1>2. CASE \E a \in DOMAIN trades : Key(trades[a].setup) = key
      BY <1>2
<1> QED BY <1>1, <1>2 DEF Copies

\* A list without repetitions adds each setup once at most.
LEMMA CopiesAppended ==
    ASSUME NEW S, NEW s \in Seq(S), NEW t \in Seq(S), Distinct(t), NEW key
    PROVE  Cardinality(Copies(s \o t, key)) <= Cardinality(Copies(s, key)) + 1
<1> DEFINE old == Copies(s, key)
<1>1. /\ Len(s) \in Nat /\ Len(t) \in Nat
      /\ DOMAIN s = 1 .. Len(s) /\ DOMAIN t = 1 .. Len(t)
      /\ DOMAIN (s \o t) = 1 .. Len(s) + Len(t)
      /\ \A a \in 1 .. Len(s) : (s \o t)[a] = s[a]
      /\ \A a \in Len(s) + 1 .. Len(s) + Len(t) : (s \o t)[a] = t[a - Len(s)]
      OBVIOUS
<1>2. IsFiniteSet(old) /\ Cardinality(old) \in Nat
      BY CopiesFinite
<1>3. \A a \in Copies(s \o t, key) :
         \/ a \in old
         \/ /\ a \in Len(s) + 1 .. Len(s) + Len(t)
            /\ Key(t[a - Len(s)].setup) = key
  <2> SUFFICES ASSUME NEW a \in 1 .. Len(s) + Len(t), Key((s \o t)[a].setup) = key
              PROVE  \/ a \in old
                     \/ /\ a \in Len(s) + 1 .. Len(s) + Len(t)
                        /\ Key(t[a - Len(s)].setup) = key
              BY <1>1 DEF Copies
  <2>1. CASE a \in 1 .. Len(s)
    <3>1. a \in DOMAIN s /\ (s \o t)[a] = s[a]
          BY <1>1, <2>1
    <3> QED BY <3>1 DEF Copies
  <2>2. CASE a \in Len(s) + 1 .. Len(s) + Len(t)
    <3>1. (s \o t)[a] = t[a - Len(s)]
          BY <1>1, <2>2
    <3> QED BY <2>2, <3>1
  <2> QED BY <1>1, <2>1, <2>2
<1>4. old \subseteq Copies(s \o t, key)
  <2> SUFFICES ASSUME NEW a \in old PROVE a \in Copies(s \o t, key)
              OBVIOUS
  <2>1. a \in 1 .. Len(s) /\ Key(s[a].setup) = key
        BY <1>1 DEF Copies
  <2>2. a \in DOMAIN (s \o t) /\ (s \o t)[a] = s[a]
        BY <1>1, <2>1
  <2> QED BY <2>1, <2>2 DEF Copies
<1>5. CASE \A b \in DOMAIN t : Key(t[b].setup) # key
  <2>1. \A a \in Len(s) + 1 .. Len(s) + Len(t) : a - Len(s) \in DOMAIN t
        BY <1>1
  <2>2. Copies(s \o t, key) = old
        BY <1>3, <1>4, <1>5, <2>1
  <2> QED BY <1>2, <2>2
<1>6. ASSUME NEW b \in DOMAIN t, Key(t[b].setup) = key
      PROVE  Cardinality(Copies(s \o t, key)) <= Cardinality(old) + 1
  <2>1. \A a \in Len(s) + 1 .. Len(s) + Len(t) :
           Key(t[a - Len(s)].setup) = key => a = Len(s) + b
    <3> SUFFICES ASSUME NEW a \in Len(s) + 1 .. Len(s) + Len(t),
                        Key(t[a - Len(s)].setup) = key
                PROVE  a = Len(s) + b
                OBVIOUS
    <3>1. a - Len(s) \in DOMAIN t
          BY <1>1
    <3>2. a - Len(s) = b
          BY <1>6, <3>1 DEF Distinct
    <3> QED BY <1>1, <3>2
  <2>2. Copies(s \o t, key) \subseteq old \union {Len(s) + b}
        BY <1>3, <2>1
  <2>3. /\ IsFiniteSet(old \union {Len(s) + b})
        /\ Cardinality(old \union {Len(s) + b}) <= Cardinality(old) + 1
    <3> DEFINE x == Len(s) + b
    <3> HIDE DEF old, x
    <3>1. /\ IsFiniteSet(old \union {x})
          /\ \/ Cardinality(old \union {x}) = Cardinality(old)
             \/ Cardinality(old \union {x}) = Cardinality(old) + 1
          BY <1>2, FS_AddElement
    <3>2. Cardinality(old \union {x}) <= Cardinality(old) + 1
          BY <1>2, <3>1
    <3> QED BY <3>1, <3>2 DEF x
  <2>4. /\ Cardinality(Copies(s \o t, key)) <= Cardinality(old \union {Len(s) + b})
        /\ IsFiniteSet(Copies(s \o t, key))
        BY <2>2, <2>3, FS_Subset
  <2>5. /\ Cardinality(Copies(s \o t, key)) \in Nat
        /\ Cardinality(old \union {Len(s) + b}) \in Nat
        BY <2>3, <2>4, FS_CardinalityType
  <2> QED BY <1>2, <2>3, <2>4, <2>5
<1> QED BY <1>5, <1>6

\* The stalls pay for what an execution has written before.
NoLess == job.stalled + Ahead <= job'.stalled + Ahead'

LEMMA SameTrades ==
    ASSUME TypeOK, WrittenByNow, bt'.trades = bt.trades, job'.stalled \in Nat, NoLess
    PROVE  WrittenByNow'
<1>1. bt.trades \in Seq(ToSet(bt.trades)) /\ job.stalled \in Nat
      BY DEF TypeOK
<1>2. Ahead \in Int /\ Ahead' \in Int
      BY DEF Ahead
<1>3. ASSUME NEW a \in DOMAIN bt.trades
      PROVE  Cardinality(Copies(bt.trades, Key(bt.trades[a].setup)))
                <= job'.stalled + Ahead'
  <2> DEFINE c == Cardinality(Copies(bt.trades, Key(bt.trades[a].setup)))
  <2>1. c \in Nat
        BY <1>1, CopiesFinite
  <2>2. c <= job.stalled + Ahead
        BY DEF WrittenByNow
  <2> HIDE DEF c
  <2>3. c <= job'.stalled + Ahead'
        BY <1>1, <1>2, <2>1, <2>2 DEF NoLess
  <2> QED BY <2>3 DEF c
<1> QED BY <1>3 DEF WrittenByNow, Copies, Key

-----------------------------------------------------------------------------
(* Steps *)

\* What stays when the candles, the signals and the bar that is shown do.
LEMMA SameReplay ==
    ASSUME OnlyHigherBarsForming, UNCHANGED <<rows, i, seen>>
    PROVE  OnlyHigherBarsForming'
<1>1. M15' = M15
      BY SameM15
<1> QED BY <1>1 DEF OnlyHigherBarsForming, ClosesAt

\* Every step that touches neither the replay nor the trades.
Rest == UNCHANGED <<rows, i, seen, signals, bt.trades, bt.total>>

LEMMA RestKeeps ==
    ASSUME BacktestInv, Rest,
           bt' \in [status : Statuses, trades : {bt.trades}, total : {bt.total}],
           job' \in [state : JobStates, stalled : Nat], pc' \in Labels,
           pc' = "replay" => pc = "replay",
           pc' \in Unshown => pc \in Unshown,
           Executing', CompletedLast', NoLess
    PROVE  BacktestInv'
<1>1. TypeOK'
      BY DEF BacktestInv, TypeOK, Rest, ToSet
<1>2. PastWarmup'
      BY DEF BacktestInv, PastWarmup, Rest
<1>3. Distinct(signals)'
      BY DEF BacktestInv, Distinct, Rest, Key
<1>4. WrittenByNow'
      BY SameTrades DEF BacktestInv, Rest
<1>5. OnlyHigherBarsForming'
      BY SameReplay DEF BacktestInv, Rest
<1> QED BY <1>1, <1>2, <1>3, <1>4, <1>5 DEF BacktestInv

\* The function of the job ends: nothing of it is left but the row.
LEMMA EndKeeps ==
    ASSUME BacktestInv, UNCHANGED <<rows, bt>>,
           pc' = "off" /\ i' = 0 /\ seen' = {} /\ signals' = <<>>,
           job' \in [state : JobStates \ {"active"}, stalled : Nat],
           CompletedLast', NoLess
    PROVE  BacktestInv'
<1>1. TypeOK'
  <2>1. signals' \in Seq(ToSet(signals)')
        OBVIOUS
  <2>2. bt' \in [status : Statuses, trades : Seq(ToSet(bt.trades)'), total : Nat]
        BY DEF BacktestInv, TypeOK, ToSet
  <2> QED BY <2>1, <2>2 DEF BacktestInv, TypeOK, Labels
<1>2. Executing'
      BY DEF Executing
<1>3. PastWarmup' /\ Distinct(signals)'
      BY DEF PastWarmup, Distinct
<1>4. WrittenByNow'
      BY SameTrades DEF BacktestInv
<1>5. OnlyHigherBarsForming'
      BY DEF OnlyHigherBarsForming
<1> QED BY <1>1, <1>2, <1>3, <1>4, <1>5 DEF BacktestInv

\* One round of the loop.
LEMMA ReplayKeeps ==
    ASSUME BacktestInv, NEW answer \in Answers, Replay(answer)
    PROVE  BacktestInv'
<1> USE DEF BacktestInv, TypeOK
<1>1. /\ i \in 1 .. Len(M15) /\ pc = "replay" /\ i' = i + 1
      /\ UNCHANGED <<rows, bt, job, pc>>
      BY BacktestAssumption, M15Sorted DEF Replay, PastWarmup
<1>2. ASSUME signals' = signals
      PROVE  TypeOK' /\ Distinct(signals)'
  <2>1. TypeOK'
        BY <1>1, <1>2 DEF ToSet
  <2>2. Distinct(signals)'
        BY <1>1, <1>2 DEF Distinct, Key
  <2> QED BY <2>1, <2>2
<1>3. ASSUME NEW s, NewSignal(s), signals' = Append(signals, Trade(s, M15[i].t))
      PROVE  TypeOK' /\ Distinct(signals)'
  <2> DEFINE t == Trade(s, M15[i].t)
  <2>1. t.setup = s
        BY DEF Trade
  <2> HIDE DEF t
  <2>2. /\ signals \in Seq(ToSet(signals) \union {t})
        /\ \A k \in DOMAIN signals : signals[k] \in ToSet(signals)
        BY DEF ToSet
  <2>3. /\ signals' = Append(signals, t)
        /\ DOMAIN signals' = 1 .. Len(signals) + 1
        /\ \A k \in 1 .. Len(signals) : signals'[k] = signals[k]
        /\ signals'[Len(signals) + 1] = t
        /\ DOMAIN signals = 1 .. Len(signals) /\ Len(signals) \in Nat
        BY <1>3, <2>2 DEF t
  <2>4. signals' \in Seq(ToSet(signals)')
        BY <2>2, <2>3, ToSetOf DEF ToSet
  <2>5. TypeOK'
        BY <1>1, <2>4 DEF ToSet
  <2>6. \A k \in DOMAIN signals : Key(signals[k].setup) # Key(t.setup)
        BY <1>3, <2>1, <2>2 DEF NewSignal
  <2>7. Distinct(signals)'
    <3> SUFFICES ASSUME NEW a \in DOMAIN signals', NEW b \in DOMAIN signals',
                        Key(signals'[a].setup) = Key(signals'[b].setup)
                PROVE  a = b
                BY DEF Distinct, Key
    <3>1. CASE a \in 1 .. Len(signals) /\ b \in 1 .. Len(signals)
          BY <2>3, <3>1 DEF Distinct
    <3>2. CASE a = Len(signals) + 1 /\ b \in 1 .. Len(signals)
          BY <2>3, <2>6, <3>2
    <3>3. CASE a \in 1 .. Len(signals) /\ b = Len(signals) + 1
          BY <2>3, <2>6, <3>3
    <3> QED BY <2>3, <3>1, <3>2, <3>3
  <2> QED BY <2>5, <2>7
<1>4. TypeOK' /\ Distinct(signals)'
  <2> DEFINE new == {x \in answer : NewSignal(x)}
  <2>1. CASE new = {}
    <3>1. {Trade(s, M15[i].t) : s \in new} = {}
          BY <2>1
    <3>2. signals' = signals \o SetToSeq({})
          BY <3>1 DEF Replay
    <3>3. signals' = signals
          BY <3>2, ListOfNone
    <3> QED BY <1>2, <3>3
  <2>2. ASSUME NEW s, NewSignal(s), new = {s}
        PROVE  TypeOK' /\ Distinct(signals)'
    <3>1. {Trade(x, M15[i].t) : x \in new} = {Trade(s, M15[i].t)}
          BY <2>2
    <3>2. signals' = signals \o SetToSeq({Trade(s, M15[i].t)})
          BY <3>1 DEF Replay
    <3>3. signals' = signals \o <<Trade(s, M15[i].t)>>
          BY <3>2, ListOfOne
    <3>4. signals' = Append(signals, Trade(s, M15[i].t))
          BY <3>3
    <3> QED BY <1>3, <2>2, <3>4
  <2>3. new = {} \/ \E s : NewSignal(s) /\ new = {s}
    <3>1. answer = {} \/ \E s : answer = {s}
          BY DEF Answers
    <3> QED BY <3>1
  <2> QED BY <2>1, <2>2, <2>3
<1>5. Executing' /\ CompletedLast' /\ WrittenByNow'
  <2>1. NoLess
        BY <1>1 DEF NoLess, Ahead
  <2>2. WrittenByNow'
        BY <1>1, <2>1, SameTrades
  <2> QED BY <1>1, <2>2 DEF Executing, CompletedLast
<1>6. PastWarmup'
      BY <1>1, BacktestAssumption DEF Replay, PastWarmup, Unshown
<1>7. OnlyHigherBarsForming'
  <2>1. M15' = M15 /\ seen' = Seen(i) /\ i' - 1 = i
        BY <1>1, SameM15 DEF Replay
  <2>2. \A c \in seen' :
           /\ c.t <= M15[i].t
           /\ ClosesAt(c) <= ClosesAt(M15[i]) \/ Length[c.tf] > Length["M15"]
        BY <1>1, <2>1, SeenUpToBar
  <2> QED BY <2>1, <2>2 DEF OnlyHigherBarsForming, ClosesAt
<1> QED BY <1>4, <1>5, <1>6, <1>7

\* The row is completed.
LEMMA CompleteKeeps == ASSUME BacktestInv, Complete PROVE BacktestInv'
<1> USE DEF BacktestInv, TypeOK
<1> DEFINE all == bt.trades \o signals
           kept == ToSet(bt.trades) \union ToSet(signals)
<1>1. bt.trades \in Seq(kept) /\ signals \in Seq(kept)
      OBVIOUS
<1>2. /\ all \in Seq(kept)
      /\ bt'.trades = all /\ bt'.status = "COMPLETED"
      /\ bt'.total = Len(signals) /\ Len(signals) \in Nat
      BY <1>1 DEF Complete
<1>3. all \in Seq(ToSet(all)) /\ ToSet(all) \subseteq kept
  <2>1. \A s \in Seq(kept) : s \in Seq(ToSet(s)) /\ ToSet(s) \subseteq kept
        BY ToSetOf
  <2> QED BY <1>2, <2>1
<1>4. TypeOK'
  <2>1. bt' \in [status : Statuses, trades : Seq(ToSet(bt'.trades)), total : Nat]
        BY <1>2, <1>3 DEF Complete, Statuses, Final
  <2> QED BY <2>1 DEF Complete, Labels, ToSet
<1>5. WrittenByNow'
  <2>1. /\ job' = job /\ job.stalled \in Nat
        /\ pc = "replay" /\ pc' = "return" /\ job.state # "completed"
        BY DEF Complete, Executing
  <2>2. Ahead' = Ahead + 1 /\ Ahead \in -1 .. 0
        BY <2>1 DEF Ahead
  <2>3. job.stalled + Ahead \in Nat
    <3>1. job.state # "active" => job.stalled # 0
          BY <2>1 DEF Executing
    <3>2. job.state = "active" => Ahead = 0
          BY <2>1 DEF Ahead
    <3> QED BY <2>1, <2>2, <3>1, <3>2
  <2>4. ASSUME NEW key
        PROVE  Cardinality(Copies(all, key)) <= job.stalled + Ahead + 1
    <3> DEFINE c == Cardinality(Copies(bt.trades, key))
               c1 == Cardinality(Copies(all, key))
               n == job.stalled + Ahead
    <3>1. c <= n
          BY <1>1, <2>3, CopiesBound DEF WrittenByNow
    <3>2. c1 <= c + 1
          BY <1>1, CopiesAppended
    <3>3. c \in Nat /\ c1 \in Nat
          BY <1>1, <1>2, CopiesFinite
    <3> HIDE DEF c, c1, n, all
    <3>4. n \in Nat /\ c1 <= n + 1
          BY <2>3, <3>1, <3>2, <3>3 DEF n
    <3> QED BY <3>4 DEF c1, n
  <2>5. ASSUME NEW key
        PROVE  Cardinality(Copies(all, key)) <= job'.stalled + Ahead'
        BY <2>1, <2>2, <2>4
  <2> QED BY <1>2, <2>5 DEF WrittenByNow, Copies, Key
<1>6. CompletedLast'
  <2> SUFFICES ASSUME job.stalled = 0
              PROVE  Len(all) = Len(signals)
              BY <1>2 DEF Complete, CompletedLast
  <2>1. bt.status # "COMPLETED"
        BY DEF Complete, CompletedLast, Executing
  <2>2. bt.trades = <<>>
        BY <2>1 DEF CompletedLast
  <2>3. all = signals
        BY <2>2
  <2> QED BY <2>3
<1>7. Executing' /\ PastWarmup' /\ Distinct(signals)'
      BY DEF Complete, Executing, PastWarmup, Unshown, Distinct, Key
<1>8. OnlyHigherBarsForming'
      BY SameReplay DEF Complete
<1> QED BY <1>4, <1>5, <1>6, <1>7, <1>8

-----------------------------------------------------------------------------
(* The invariant *)

LEMMA InitInv == Init => BacktestInv
<1> SUFFICES ASSUME Init
            PROVE  BacktestInv
            OBVIOUS
<1> USE DEF Init, Idle
<1>1. TypeOK
  <2>1. <<>> \in Seq(ToSet(<<>>))
        OBVIOUS
  <2> QED BY <2>1 DEF TypeOK, Statuses, JobStates, Labels
<1>2. Executing /\ PastWarmup /\ Distinct(signals)
      BY DEF Executing, PastWarmup, Distinct
<1>3. CompletedLast
      BY DEF CompletedLast, Distinct
<1>4. WrittenByNow /\ OnlyHigherBarsForming
      BY DEF WrittenByNow, OnlyHigherBarsForming
<1> QED BY <1>1, <1>2, <1>3, <1>4 DEF BacktestInv

\* The API's steps, and those of the worker that only move on.
LEMMA MovesKeep ==
    ASSUME BacktestInv,
           \/ CreateRow \/ AddJob \/ ApiDies \/ Take \/ Start \/ LoadFails
           \/ Insufficient \/ CompleteFails \/ Catch
    PROVE  BacktestInv'
<1>1. NoLess
  <2>1. job.stalled \in Nat /\ job'.stalled = job.stalled
        BY DEF BacktestInv, TypeOK, CreateRow, AddJob, ApiDies, Take, Start, LoadFails,
               Insufficient, CompleteFails, Catch, GoTo
  <2>2. Ahead \in -1 .. 1 /\ Ahead' \in -1 .. 1
        BY DEF Ahead
  <2>3. CASE UNCHANGED <<job, pc>>
        BY <2>1, <2>2, <2>3 DEF NoLess, Ahead
  <2>4. CASE AddJob \/ ApiDies
    <3>1. /\ pc' = pc /\ job.state \notin {"active", "completed"}
          /\ job'.state \notin {"active", "completed"}
          BY <2>4 DEF AddJob, ApiDies, run, BacktestInv, TypeOK
    <3>2. Ahead' = Ahead
          BY <3>1 DEF Ahead
    <3> QED BY <2>1, <2>2, <3>2 DEF NoLess
  <2>5. CASE Take \/ Start
    <3>1. Ahead = 0 /\ Ahead' = 0
          BY <2>5 DEF Take, Start, Ahead, BacktestInv, TypeOK, Executing
    <3> QED BY <2>1, <3>1 DEF NoLess
  <2>6. CASE LoadFails \/ Insufficient \/ CompleteFails \/ Catch
    <3>1. /\ job' = job /\ pc \in {"loading", "replay", "catch"}
          /\ pc' \in {"catch", "throw"}
          BY <2>6 DEF LoadFails, Insufficient, CompleteFails, Catch, GoTo
    <3>2. Ahead \in -1 .. 0 /\ Ahead' = 0
          BY <3>1 DEF Ahead, BacktestInv, Executing
    <3> QED BY <2>1, <3>2 DEF NoLess
  <2> QED BY <2>3, <2>4, <2>5, <2>6 DEF CreateRow, run
<1> USE DEF BacktestInv, TypeOK, Executing, CompletedLast, Rest,
            Unshown, Statuses, Final, JobStates, Labels, run
<1>2. CASE CreateRow
      BY <1>1, <1>2, RestKeeps DEF CreateRow
<1>3. CASE AddJob
      BY <1>1, <1>3, RestKeeps DEF AddJob
<1>4. CASE ApiDies
      BY <1>1, <1>4, RestKeeps DEF ApiDies
<1>5. CASE Take
      BY <1>1, <1>5, RestKeeps DEF Take
<1>6. CASE Start
      BY <1>1, <1>6, RestKeeps DEF Start
<1>7. CASE LoadFails \/ Insufficient \/ CompleteFails
      BY <1>1, <1>7, RestKeeps DEF LoadFails, Insufficient, CompleteFails, GoTo
<1>8. CASE Catch
      BY <1>1, <1>8, RestKeeps DEF Catch
<1> QED BY <1>2, <1>3, <1>4, <1>5, <1>6, <1>7, <1>8

\* The candles suffice: the loop starts.
LEMMA LoadedKeeps == ASSUME BacktestInv, Loaded PROVE BacktestInv'
<1> USE DEF BacktestInv, Loaded
<1>1. TypeOK'
      BY BacktestAssumption DEF TypeOK, Labels, ToSet
<1>2. Executing' /\ PastWarmup' /\ Distinct(signals)' /\ CompletedLast'
      BY BacktestAssumption DEF Executing, PastWarmup, Unshown, Distinct, Key,
                                CompletedLast
<1>3. WrittenByNow'
  <2>1. NoLess
        BY DEF NoLess, Ahead, TypeOK, Executing
  <2> QED BY <2>1, SameTrades DEF TypeOK
<1>4. OnlyHigherBarsForming'
      BY DEF PastWarmup, Unshown, OnlyHigherBarsForming
<1> QED BY <1>1, <1>2, <1>3, <1>4

LEMMA EndsKeep ==
    ASSUME BacktestInv, StartFails \/ Return \/ Throw \/ CatchFails
    PROVE  BacktestInv'
<1> USE DEF BacktestInv, TypeOK, JobStates
<1>1. PICK state \in {"failed", "completed"} :
         /\ End(state)
         /\ pc \in {"start", "return", "throw", "catch"}
         /\ state = "completed" <=> pc = "return"
      BY DEF StartFails, Return, Throw, CatchFails
<1>2. /\ UNCHANGED <<rows, bt>>
      /\ pc' = "off" /\ i' = 0 /\ seen' = {} /\ signals' = <<>>
      /\ job'.state = IF job.state = "active" THEN state ELSE job.state
      /\ job' \in [state : JobStates \ {"active"}, stalled : {job.stalled}]
      BY <1>1 DEF End
<1>3. CompletedLast'
      BY <1>1, <1>2 DEF CompletedLast, Executing
<1>4. job.stalled \in Nat
      OBVIOUS
<1>5. /\ job' \in [state : JobStates \ {"active"}, stalled : Nat]
      /\ job'.stalled = job.stalled
      BY <1>2, <1>4
<1> HIDE DEF BacktestInv, TypeOK, JobStates
<1>6. Ahead = IF pc = "return" /\ job.state = "active" THEN 1 ELSE 0
      BY <1>1 DEF Ahead, BacktestInv, Executing
<1>7. Ahead' = Ahead
      BY <1>1, <1>2, <1>6 DEF Ahead, BacktestInv, Executing
<1>8. NoLess
      BY <1>4, <1>5, <1>6, <1>7 DEF NoLess
<1> QED BY <1>2, <1>3, <1>5, <1>8, EndKeeps

LEMMA StalledType ==
    ASSUME BacktestInv
    PROVE  /\ Stalled \in [state : {"waiting", "failed"}, stalled : Nat \ {0}]
           /\ Stalled.stalled = job.stalled + 1
<1>1. job.stalled \in Nat
      BY DEF BacktestInv, TypeOK
<1>2. job.stalled + 1 \in Nat \ {0}
      BY <1>1
<1> QED BY <1>2 DEF Stalled

\* The execution is gone, and its job stalls unless it has before.
LEMMA WorkerDiesKeeps == ASSUME BacktestInv, WorkerDies PROVE BacktestInv'
<1> USE DEF BacktestInv, TypeOK, JobStates
<1>1. /\ UNCHANGED <<rows, bt>> /\ pc # "off"
      /\ pc' = "off" /\ i' = 0 /\ seen' = {} /\ signals' = <<>>
      /\ job' = IF job.state = "active" THEN Stalled ELSE job
      BY DEF WorkerDies
<1>2. /\ job' \in [state : JobStates \ {"active"}, stalled : Nat \ {0}]
      /\ job'.stalled = IF job.state = "active" THEN job.stalled + 1 ELSE job.stalled
      /\ job'.state \notin {"active", "completed"}
      BY <1>1, StalledType DEF Executing
<1>3. CompletedLast'
      BY <1>2 DEF CompletedLast
<1>4. job.stalled \in Nat
      OBVIOUS
<1> HIDE DEF BacktestInv, TypeOK, JobStates
<1>5. Ahead' = 0 /\ Ahead \in -1 .. 1 /\ (job.state # "active" => Ahead \in -1 .. 0)
      BY <1>1, <1>2 DEF Ahead, BacktestInv, Executing
<1>6. NoLess
      BY <1>2, <1>4, <1>5 DEF NoLess
<1>7. job' \in [state : JobStates \ {"active"}, stalled : Nat]
      BY <1>2
<1> QED BY <1>1, <1>3, <1>6, <1>7, EndKeeps

\* The job stalls while what is left of its function runs on.
LEMMA LockLostKeeps == ASSUME BacktestInv, LockLost PROVE BacktestInv'
<1>1. /\ UNCHANGED <<rows, bt, pc, i, seen, signals>>
      /\ job.state = "active" /\ seen # {} /\ job' = Stalled
      BY DEF LockLost, run
<1>2. /\ job' \in [state : {"waiting", "failed"}, stalled : Nat \ {0}]
      /\ job'.stalled = job.stalled + 1 /\ job.stalled \in Nat
      BY <1>1, StalledType DEF BacktestInv, TypeOK
<1>3. Executing' /\ CompletedLast'
      BY <1>1, <1>2 DEF Executing, CompletedLast, BacktestInv, PastWarmup, Unshown
<1>4. NoLess
      BY <1>1, <1>2 DEF NoLess, Ahead
<1>5. Rest /\ pc' = pc /\ bt' \in [status : Statuses, trades : {bt.trades}, total : {bt.total}]
      BY <1>1 DEF Rest, BacktestInv, TypeOK
<1>6. job' \in [state : JobStates, stalled : Nat] /\ pc' \in Labels
      BY <1>1, <1>2 DEF JobStates, BacktestInv, TypeOK
<1> QED BY <1>3, <1>4, <1>5, <1>6, RestKeeps

LEMMA NextInv == BacktestInv /\ [Next]_vars => BacktestInv'
<1> SUFFICES ASSUME BacktestInv, [Next]_vars
            PROVE  BacktestInv'
            OBVIOUS
<1>1. CASE CreateRow \/ AddJob \/ ApiDies
      BY <1>1, MovesKeep
<1>2. CASE RunSteps
  <2>1. CASE Take \/ Start \/ Insufficient \/ Catch
        BY <2>1, MovesKeep
  <2>2. CASE Return \/ Throw
        BY <2>2, EndsKeep
  <2>3. CASE Loaded
        BY <2>3, LoadedKeeps
  <2>4. CASE Complete
        BY <2>4, CompleteKeeps
  <2>5. CASE \E answer \in Answers : Replay(answer)
        BY <2>5, ReplayKeeps
  <2> QED BY <1>2, <2>1, <2>2, <2>3, <2>4, <2>5 DEF RunSteps
<1>3. CASE Faulty
      BY <1>1, <1>3, MovesKeep, EndsKeep, WorkerDiesKeeps, LockLostKeeps DEF Faulty
<1>4. CASE UNCHANGED vars
  <2>1. Rest /\ UNCHANGED <<bt, job, pc>>
        BY <1>4 DEF vars, run, Rest
  <2>2. Executing' /\ CompletedLast' /\ NoLess
        BY <2>1 DEF BacktestInv, TypeOK, Executing, CompletedLast, NoLess, Ahead
  <2> QED BY <2>1, <2>2, RestKeeps DEF BacktestInv, TypeOK
<1> QED BY <1>1, <1>2, <1>3, <1>4 DEF Next

LEMMA Invariant == Spec => []BacktestInv
<1> QED BY InitInv, NextInv, PTL DEF Spec

-----------------------------------------------------------------------------
(* Results *)

\* For every table of candles: what the engine is shown for a bar opens no
\* later than the bar and, on M5 and M15, has closed when the bar closes
\* (backtest-runner.ts 44-57).
THEOREM HigherBarsCorrect == Spec => []OnlyHigherBarsForming
<1>1. BacktestInv => OnlyHigherBarsForming
      BY DEF BacktestInv
<1> QED BY <1>1, Invariant, PTL

\* However often the worker dies, fails to write or loses the lock: a setup is
\* listed once more for each stall and no oftener, and the row of a job that has
\* not stalled lists what its summary counts (backtest-runner.ts 62-64, 93-122).
THEOREM TradesCorrect == Spec => []TradesPerExecution
<1>1. BacktestInv => TradesPerExecution
  <2> SUFFICES ASSUME BacktestInv PROVE TradesPerExecution
              OBVIOUS
  <2>1. bt.trades \in Seq(ToSet(bt.trades)) /\ job.stalled \in Nat /\ Ahead \in -1 .. 1
        BY DEF BacktestInv, TypeOK, Ahead
  <2>2. \A key : Cardinality(Copies(bt.trades, key)) \in Nat
        BY <2>1, CopiesFinite
  <2>3. \A a \in DOMAIN bt.trades :
           Cardinality(Copies(bt.trades, Key(bt.trades[a].setup))) <= job.stalled + 1
        BY <2>1, <2>2 DEF BacktestInv, WrittenByNow
  <2> QED BY <2>3 DEF BacktestInv, CompletedLast, TradesPerExecution
<1> QED BY <1>1, Invariant, PTL
=============================================================================
