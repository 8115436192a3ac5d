--------------------------- MODULE AnalysisProofs ---------------------------
(***************************************************************************)
(* The analysis, of the engine and of the models.                          *)
(*                                                                         *)
(* SignalEngine, for every configuration, every bar shape and any number   *)
(* of bars: the rows stay well formed, confirmed pivots are never          *)
(* repainted, a live row changes nothing in the analysis, equal levels     *)
(* cover the near pivots, no structure break precedes the confirmation of  *)
(* its pivot, the plan of a signal hangs together, and a signal is never   *)
(* held back by the gate's cooldown.                                       *)
(*                                                                         *)
(* LlmAnalysis, for any candles, ticks and answers and any number of jobs: *)
(* a model is held to the tick that was read, and what the models are      *)
(* asked is bounded by the executions and the signals, of which every job  *)
(* has a bounded number.                                                   *)
(***************************************************************************)
EXTENDS SignalEngine, LlmAnalysis, SequenceTheorems, FiniteSetTheorems, TLAPS

-----------------------------------------------------------------------------
\* Induction. An induction principle over a property would take an operator as
\* a parameter; over the set of the numbers that have it, it is a lemma like
\* any other, and so is the existence of a function defined step by step.

LEMMA LeastNat ==
    ASSUME NEW B \in SUBSET Nat, B # {}
    PROVE  \E m \in B : \A n \in B : m <= n
<1>1. PICK n \in B : TRUE
  OBVIOUS
<1>. DEFINE R == StrictSubsetOrdering(1 .. n)
            T == {1 .. b : b \in {x \in B : x <= n}}
<1>2. IsWellFoundedOn(R, SUBSET (1 .. n))
  <2>1. IsFiniteSet(1 .. n)
    BY FS_Interval
  <2>2. FiniteSubsetsOf(1 .. n) = SUBSET (1 .. n)
    BY <2>1, FS_FiniteSubsetsOfFinite
  <2>. QED BY <2>2, FS_StrictSubsetOrderingWellFounded
<1>3. T \subseteq SUBSET (1 .. n) /\ T # {}
  BY <1>1
<1>4. PICK x \in T : \A y \in T : ~(<<y, x>> \in R)
  <2>. HIDE DEF R, T
  <2>. QED BY <1>2, <1>3, WFMin
<1>5. PICK m \in B : m <= n /\ x = 1 .. m
  BY <1>4
<1>6. ASSUME NEW b \in B, b < m PROVE FALSE
  <2>1. 1 .. b \in T
    BY <1>5, <1>6
  <2>2. 1 .. b \subseteq 1 .. m /\ m \in 1 .. m /\ m \notin 1 .. b
    BY <1>6
  <2>3. <<1 .. b, x>> \in (SUBSET (1 .. n)) \X (SUBSET (1 .. n))
    BY <1>3, <1>4, <2>1
  <2>4. <<1 .. b, x>> \in R
    BY <1>5, <2>2, <2>3 DEF StrictSubsetOrdering
  <2>. QED BY <1>4, <2>1, <2>4
<1>7. \A b \in B : m <= b
  BY <1>6
<1>. QED BY <1>7

\* Induction on a set
LEMMA NatSet ==
    ASSUME NEW B \in SUBSET Nat, 0 \in B, \A n \in B : n + 1 \in B
    PROVE  B = Nat
<1>. DEFINE C == Nat \ B
<1>. SUFFICES ASSUME C # {} PROVE FALSE
  OBVIOUS
<1>1. PICK m \in C : \A n \in C : m <= n
  BY LeastNat
<1>2. m # 0 /\ m - 1 \in Nat /\ ~(m <= m - 1)
  OBVIOUS
<1>3. m - 1 \in B
  BY <1>1, <1>2
<1>4. (m - 1) + 1 \in B
  BY <1>3
<1>. QED BY <1>2, <1>4

\* From first, step i leads from one member of V to another.
Stepwise(n, V, first, step) ==
    /\ n \in Nat /\ first \in V
    /\ \A i \in 1 .. n : \A x \in V : step[i][x] \in V

\* A function defined step by step exists.
LEMMA StepByStep ==
    ASSUME NEW n, NEW V, NEW first, NEW step, Stepwise(n, V, first, step)
    PROVE  \E f \in [0 .. n -> V] :
              f[0] = first /\ \A i \in 1 .. n : f[i] = step[i][f[i - 1]]
<1>0. /\ n \in Nat /\ first \in V
      /\ \A i \in 1 .. n : \A x \in V : step[i][x] \in V
  BY DEF Stepwise
<1>. DEFINE Good(k, f) == /\ f \in [0 .. k -> V] /\ f[0] = first
                          /\ \A i \in 1 .. k : f[i] = step[i][f[i - 1]]
            Has(k) == k <= n => \E f : Good(k, f)
            B == {k \in Nat : Has(k)}
<1>1. Has(0)
  <2>1. Good(0, [i \in 0 .. 0 |-> first])
    BY <1>0
  <2>. QED BY <2>1
<1>2. ASSUME NEW k \in Nat, Has(k) PROVE Has(k + 1)
  <2>. SUFFICES ASSUME k + 1 <= n PROVE \E f : Good(k + 1, f)
    OBVIOUS
  <2>1. PICK f : Good(k, f)
    BY <1>0, <1>2
  <2>. DEFINE g == [i \in 0 .. k + 1 |-> IF i <= k THEN f[i] ELSE step[k + 1][f[k]]]
  <2>2. k + 1 \in 1 .. n /\ f[k] \in V /\ step[k + 1][f[k]] \in V
    BY <1>0, <2>1
  <2>3. g \in [0 .. k + 1 -> V] /\ g[0] = first
    BY <1>0, <2>1, <2>2
  <2>4. ASSUME NEW i \in 1 .. k + 1 PROVE g[i] = step[i][g[i - 1]]
    BY <1>0, <2>1, <2>2
  <2>. QED BY <2>3, <2>4
<1>. HIDE DEF Has
<1>3. 0 \in B /\ (\A k \in B : k + 1 \in B) /\ B \in SUBSET Nat
  BY <1>1, <1>2
<1>. HIDE DEF B
<1>4. B = Nat
  BY <1>3, NatSet
<1>5. Has(n)
  BY <1>0, <1>4 DEF B
<1>. QED BY <1>0, <1>5 DEF Has

\* What holds at 0 and is kept by every step up to n holds throughout.
LEMMA UpTo ==
    ASSUME NEW n \in Nat, NEW B, 0 \in B, \A i \in 1 .. n : i - 1 \in B => i \in B
    PROVE  \A i \in 0 .. n : i \in B
<1>. DEFINE C == {k \in Nat : k <= n => k \in B}
<1>1. ASSUME NEW k \in C PROVE k + 1 \in C
  <2>1. k + 1 <= n => k + 1 \in 1 .. n /\ (k + 1) - 1 \in B
    OBVIOUS
  <2>. QED BY <2>1
<1>2. 0 \in C /\ C \in SUBSET Nat
  OBVIOUS
<1>3. C = Nat
  <2>. HIDE DEF C
  <2>. QED BY <1>1, <1>2, NatSet
<1>. QED BY <1>3

LEMMA StaysIn ==
    ASSUME NEW n \in Nat, NEW V, NEW f, f[0] \in V,
           \A i \in 1 .. n : f[i - 1] \in V => f[i] \in V
    PROVE  \A i \in 0 .. n : f[i] \in V
<1>. DEFINE B == {i \in 0 .. n : f[i] \in V}
<1>1. 0 \in B /\ \A i \in 1 .. n : i - 1 \in B => i \in B
  OBVIOUS
<1>2. \A i \in 0 .. n : i \in B
  <2>. HIDE DEF B
  <2>. QED BY <1>1, UpTo
<1>. QED BY <1>2

LEMMA TotalSteps ==
    ASSUME NEW s, Len(s) \in Nat, \A i \in 1 .. Len(s) : s[i] \in Int
    PROVE  \E f : /\ f \in [0 .. Len(s) -> Int] /\ f[0] = 0
                  /\ \A i \in 1 .. Len(s) : f[i] = f[i - 1] + s[i]
                  /\ Total(s) = f[Len(s)]
<1>. DEFINE n == Len(s)
            Rule(f) == [i \in 0 .. n |-> IF i = 0 THEN 0 ELSE f[i - 1] + s[i]]
            step == [i \in 1 .. n |-> [x \in Int |-> x + s[i]]]
            sum == CHOOSE f : f = Rule(f)
<1>1. /\ \A i \in 1 .. n : \A x \in Int : step[i][x] = x + s[i]
      /\ Stepwise(n, Int, 0, step)
  <2>1. \A i \in 1 .. n : \A x \in Int : step[i][x] = x + s[i]
    OBVIOUS
  <2>. QED BY <2>1 DEF Stepwise
<1>. HIDE DEF step
<1>2. PICK g \in [0 .. n -> Int] : g[0] = 0 /\ \A i \in 1 .. n : g[i] = step[i][g[i - 1]]
  BY <1>1, StepByStep
<1>3. g = Rule(g)
  <2>1. ASSUME NEW i \in 1 .. n PROVE g[i] = g[i - 1] + s[i]
    <3>1. i - 1 \in 0 .. n
      OBVIOUS
    <3>2. g[i - 1] \in Int
      BY <3>1
    <3>. QED BY <1>1, <1>2, <3>2
  <2>. QED BY <1>2, <2>1
<1>4. sum = Rule(sum)
  BY <1>3
<1>5. Total(s) = sum[n]
  BY DEF Total
<1>. HIDE DEF sum
<1>6. DOMAIN sum = 0 .. n /\ sum[0] = 0 /\ \A i \in 1 .. n : sum[i] = sum[i - 1] + s[i]
  BY <1>4
<1>7. \A i \in 0 .. n : sum[i] \in Int
  <2>1. \A i \in 1 .. n : sum[i - 1] \in Int => sum[i] \in Int
    BY <1>6
  <2>2. sum[0] \in Int /\ n \in Nat
    BY <1>6
  <2>. HIDE DEF n
  <2>. QED BY <2>1, <2>2, StaysIn, Zenon
<1>8. sum \in [0 .. n -> Int]
  BY <1>4, <1>7
<1>. QED BY <1>5, <1>6, <1>8

LEMMA TotalType ==
    ASSUME NEW s, Len(s) \in Nat, \A i \in 1 .. Len(s) : s[i] \in Int
    PROVE  /\ Total(s) \in Int
           /\ (\A i \in 1 .. Len(s) : s[i] \in Nat) => Total(s) \in Nat
<1>1. PICK f : /\ f \in [0 .. Len(s) -> Int] /\ f[0] = 0
               /\ \A i \in 1 .. Len(s) : f[i] = f[i - 1] + s[i]
               /\ Total(s) = f[Len(s)]
  BY TotalSteps
<1>2. ASSUME \A i \in 1 .. Len(s) : s[i] \in Nat PROVE f[Len(s)] \in Nat
  <2>1. \A i \in 1 .. Len(s) : f[i - 1] \in Nat => f[i] \in Nat
    BY <1>1, <1>2
  <2>2. \A i \in 0 .. Len(s) : f[i] \in Nat
    <3>1. f[0] \in Nat
      BY <1>1
    <3>. QED BY <2>1, <3>1, StaysIn, Zenon
  <2>. QED BY <2>2
<1>. QED BY <1>1, <1>2

-----------------------------------------------------------------------------
\* Pivots and breaks

\* A further candle changes nothing at the positions before it.
LEMMA AppendKeeps ==
    ASSUME NEW cs \in Seq(Bars), NEW b \in Bars
    PROVE  /\ Append(cs, b) \in Seq(Bars)
           /\ Len(Append(cs, b)) = Len(cs) + 1
           /\ \A i \in 1 .. Len(cs) : Append(cs, b)[i] = cs[i]
           /\ Append(cs, b)[Len(cs) + 1] = b
OBVIOUS

LEMMA HighPivotStays ==
    ASSUME NEW cs \in Seq(Bars), NEW b \in Bars, NEW left \in Nat,
           NEW right \in Nat, NEW i \in 1 .. Len(cs) - right
    PROVE  HighPivot(Append(cs, b), i, left, right) <=> HighPivot(cs, i, left, right)
<1>. DEFINE next == Append(cs, b)
<1>1. Len(next) = Len(cs) + 1 /\ Len(cs) \in Nat
      /\ \A k \in 1 .. Len(cs) : next[k] = cs[k]
  BY AppendKeeps
<1>2. i \in left + 1 .. Len(next) - right <=> i \in left + 1 .. Len(cs) - right
  BY <1>1
<1>3. ASSUME i \in left + 1 .. Len(cs) - right, NEW j \in (i - left .. i + right) \ {i}
      PROVE  next[j] = cs[j] /\ next[i] = cs[i]
  BY <1>1, <1>3
<1>. HIDE DEF next
<1>4. HighPivot(next, i, left, right) <=> HighPivot(cs, i, left, right)
  BY <1>2, <1>3 DEF HighPivot, IsPivot, Higher
<1>. QED BY <1>4 DEF next

LEMMA LowPivotStays ==
    ASSUME NEW cs \in Seq(Bars), NEW b \in Bars, NEW left \in Nat,
           NEW right \in Nat, NEW i \in 1 .. Len(cs) - right
    PROVE  LowPivot(Append(cs, b), i, left, right) <=> LowPivot(cs, i, left, right)
<1>. DEFINE next == Append(cs, b)
<1>1. Len(next) = Len(cs) + 1 /\ Len(cs) \in Nat
      /\ \A k \in 1 .. Len(cs) : next[k] = cs[k]
  BY AppendKeeps
<1>2. i \in left + 1 .. Len(next) - right <=> i \in left + 1 .. Len(cs) - right
  BY <1>1
<1>3. ASSUME i \in left + 1 .. Len(cs) - right, NEW j \in (i - left .. i + right) \ {i}
      PROVE  next[j] = cs[j] /\ next[i] = cs[i]
  BY <1>1, <1>3
<1>. HIDE DEF next
<1>4. LowPivot(next, i, left, right) <=> LowPivot(cs, i, left, right)
  BY <1>2, <1>3 DEF LowPivot, IsPivot, Lower
<1>. QED BY <1>4 DEF next

\* What the set of pivots consists of.
LEMMA PivotSetMembers ==
    ASSUME NEW cs, NEW left, NEW right, NEW p
    PROVE  p \in PivotSet(cs, left, right) <=>
              \E i \in DOMAIN cs :
                 \/ HighPivot(cs, i, left, right) /\ p = Pivot(cs, i, "HIGH")
                 \/ LowPivot(cs, i, left, right) /\ p = Pivot(cs, i, "LOW")
BY DEF PivotSet

\* A further candle keeps every pivot and confirms those of one bar only.
LEMMA AppendNoRepaint ==
    ASSUME NEW cs \in Seq(Bars), NEW b \in Bars
    PROVE  NoRepaint(cs, Append(cs, b))
<1>. DEFINE next == Append(cs, b)
            left == cfg.left
            right == cfg.right
<1>1. left \in Nat /\ right \in Nat
  BY ConfigAssumption
<1>2. /\ Len(next) = Len(cs) + 1 /\ Len(cs) \in Nat
      /\ DOMAIN cs = 1 .. Len(cs) /\ DOMAIN next = 1 .. Len(next)
      /\ \A k \in 1 .. Len(cs) : next[k] = cs[k]
  BY AppendKeeps
<1>3. ASSUME NEW i \in 1 .. Len(cs) - right
      PROVE  /\ HighPivot(next, i, left, right) <=> HighPivot(cs, i, left, right)
             /\ LowPivot(next, i, left, right) <=> LowPivot(cs, i, left, right)
             /\ \A kind : Pivot(next, i, kind) = Pivot(cs, i, kind)
  <2>1. HighPivot(next, i, left, right) <=> HighPivot(cs, i, left, right)
    BY <1>1, HighPivotStays
  <2>2. LowPivot(next, i, left, right) <=> LowPivot(cs, i, left, right)
    BY <1>1, LowPivotStays
  <2>3. next[i] = cs[i]
    BY <1>1, <1>2
  <2>4. \A kind : Pivot(next, i, kind) = Pivot(cs, i, kind)
    BY <2>3 DEF Pivot
  <2>. QED BY <2>1, <2>2, <2>4
<1>4. ASSUME NEW rows, NEW i \in DOMAIN rows,
             HighPivot(rows, i, left, right) \/ LowPivot(rows, i, left, right)
      PROVE  i <= Len(rows) - right
  BY <1>4 DEF HighPivot, LowPivot, IsPivot
<1>. HIDE DEF next, left, right
<1>5. PivotSet(cs, left, right) \subseteq PivotSet(next, left, right)
  <2>1. SUFFICES ASSUME NEW p \in PivotSet(cs, left, right)
                 PROVE  p \in PivotSet(next, left, right)
    OBVIOUS
  <2>2. PICK i \in DOMAIN cs :
              \/ HighPivot(cs, i, left, right) /\ p = Pivot(cs, i, "HIGH")
              \/ LowPivot(cs, i, left, right) /\ p = Pivot(cs, i, "LOW")
    BY PivotSetMembers
  <2>3. i \in 1 .. Len(cs) - right /\ i \in DOMAIN next
    BY <1>1, <1>2, <1>4, <2>2
  <2>. QED BY <1>3, <2>2, <2>3, PivotSetMembers
<1>6. ASSUME NEW p \in PivotSet(next, left, right) \ PivotSet(cs, left, right)
      PROVE  p.index = Len(next) - right
  <2>1. PICK i \in DOMAIN next :
              \/ HighPivot(next, i, left, right) /\ p = Pivot(next, i, "HIGH")
              \/ LowPivot(next, i, left, right) /\ p = Pivot(next, i, "LOW")
    BY PivotSetMembers
  <2>2. i <= Len(next) - right
    BY <1>4, <2>1
  <2>3. CASE i <= Len(cs) - right
    <3>1. i \in 1 .. Len(cs) - right /\ i \in DOMAIN cs
      BY <1>1, <1>2, <2>3
    <3>. QED BY <1>3, <1>6, <2>1, <3>1, PivotSetMembers
  <2>4. CASE i > Len(cs) - right
    <3>1. p.index = i
      BY <2>1 DEF Pivot
    <3>. QED BY <1>1, <1>2, <2>2, <2>4, <3>1
  <2>. QED BY <1>1, <1>2, <2>3, <2>4
<1>. QED BY <1>5, <1>6 DEF NoRepaint, next, left, right

\* Nothing repaints when nothing is added.
LEMMA SameNoRepaint == ASSUME NEW cs PROVE NoRepaint(cs, cs)
BY DEF NoRepaint

LEMMA BelowNeverExceeds ==
    ASSUME NEW x \in Int, x < 0, NEW n \in Nat, NEW d \in Nat \ {0}
    PROVE  ~(x * d > n)
<1>1. x * d <= -d
  BY SMTT(30)
<1>. QED BY <1>1

\* detectStructure looks for the break of a pivot among all later candles, yet
\* none of those that confirm the pivot can be it: they close on its inner
\* side. So a break is only seen once its pivot is known (structure.ts).
THEOREM BreaksComeAfterConfirmation ==
    ASSUME NEW cs \in Seq(Bars), NEW left \in Nat, NEW right \in Nat,
           \A i \in DOMAIN cs : cs[i].l <= cs[i].c /\ cs[i].c <= cs[i].h,
           NEW n \in Nat, NEW d \in Nat \ {0},
           NEW p \in PivotSet(cs, left, right),
           NEW k \in Breaks(cs, p, [num |-> n, den |-> d])
    PROVE  k > p.index + right
<1>1. PICK i \in DOMAIN cs :
            \/ HighPivot(cs, i, left, right) /\ p = Pivot(cs, i, "HIGH")
            \/ LowPivot(cs, i, left, right) /\ p = Pivot(cs, i, "LOW")
  BY PivotSetMembers
<1>2. p.index = i /\ i \in 1 .. Len(cs) /\ Len(cs) \in Nat
  BY <1>1 DEF Pivot
<1>3. k \in i + 1 .. Len(cs)
  BY <1>2 DEF Breaks
<1>4. /\ cs[k].c \in Int /\ cs[k].h \in Int /\ cs[k].l \in Int
      /\ cs[i].h \in Int /\ cs[i].l \in Int
  <2>1. cs[k] \in Bars /\ cs[i] \in Bars
    BY <1>2, <1>3, ElementOfSeq
  <2>. QED BY <2>1 DEF Bars
<1>. DEFINE buffer == [num |-> n, den |-> d]
<1>5. buffer.num = n /\ buffer.den = d
  OBVIOUS
<1>. HIDE DEF buffer
<1>6. IF p.kind = "HIGH" THEN (cs[k].c - p.price) * d > n
                         ELSE (p.price - cs[k].c) * d > n
  <2>1. k \in Breaks(cs, p, buffer)
    BY DEF buffer
  <2>2. IF p.kind = "HIGH" THEN Exceeds(cs[k].c - p.price, buffer)
                           ELSE Exceeds(p.price - cs[k].c, buffer)
    BY <2>1 DEF Breaks
  <2>. QED BY <1>5, <2>2 DEF Exceeds
<1>7. k \notin i + 1 .. i + right
  <2>1. SUFFICES ASSUME k \in i + 1 .. i + right PROVE FALSE
    OBVIOUS
  <2>2. k \in (i - left .. i + right) \ {i}
    BY <1>2, <2>1
  <2>3. cs[k].l <= cs[k].c /\ cs[k].c <= cs[k].h
    BY <1>2, <1>3
  <2>4. CASE HighPivot(cs, i, left, right) /\ p = Pivot(cs, i, "HIGH")
    <3>1. cs[i].h > cs[k].h
      BY <2>2, <2>4 DEF HighPivot, IsPivot, Higher
    <3>2. p.kind = "HIGH" /\ p.price = cs[i].h
      BY <2>4 DEF Pivot
    <3>3. cs[k].c - p.price \in Int /\ cs[k].c - p.price < 0
      BY <1>4, <2>3, <3>1, <3>2
    <3>4. ~((cs[k].c - p.price) * d > n)
      BY <3>3, BelowNeverExceeds
    <3>. QED BY <1>6, <3>2, <3>4
  <2>5. CASE LowPivot(cs, i, left, right) /\ p = Pivot(cs, i, "LOW")
    <3>1. cs[i].l < cs[k].l
      BY <2>2, <2>5 DEF LowPivot, IsPivot, Lower
    <3>2. p.kind = "LOW" /\ p.price = cs[i].l
      BY <2>5 DEF Pivot
    <3>3. p.price - cs[k].c \in Int /\ p.price - cs[k].c < 0
      BY <1>4, <2>3, <3>1, <3>2
    <3>4. ~((p.price - cs[k].c) * d > n)
      BY <3>3, BelowNeverExceeds
    <3>. QED BY <1>6, <3>2, <3>4
  <2>. QED BY <1>1, <2>4, <2>5
<1>. QED BY <1>2, <1>3, <1>7

\* findPivots: what one bar adds.
PivotsAt(cs, left, right, i) ==
    (IF HighPivot(cs, i, left, right)
     THEN <<Pivot(cs, i, "HIGH")>> ELSE <<>>)
    \o (IF LowPivot(cs, i, left, right)
        THEN <<Pivot(cs, i, "LOW")>> ELSE <<>>)

LEMMA ToSetOfConcat ==
    ASSUME NEW S, NEW s \in Seq(S), NEW t \in Seq(S)
    PROVE  s \o t \in Seq(S) /\ ToSet(s \o t) = ToSet(s) \union ToSet(t)
<1>1. /\ s \o t \in Seq(S) /\ Len(s \o t) = Len(s) + Len(t)
      /\ Len(s) \in Nat /\ Len(t) \in Nat
      /\ DOMAIN (s \o t) = 1 .. Len(s) + Len(t)
      /\ DOMAIN s = 1 .. Len(s) /\ DOMAIN t = 1 .. Len(t)
      /\ \A i \in 1 .. Len(s) + Len(t) : (s \o t)[i] =
             IF i <= Len(s) THEN s[i] ELSE t[i - Len(s)]
  BY ConcatProperties
<1>2. ASSUME NEW i \in 1 .. Len(s) + Len(t)
      PROVE  (s \o t)[i] \in ToSet(s) \union ToSet(t)
  <2>1. CASE i <= Len(s)
    <3>1. i \in DOMAIN s /\ (s \o t)[i] = s[i]
      BY <1>1, <2>1
    <3>. QED BY <3>1 DEF ToSet
  <2>2. CASE i > Len(s)
    <3>1. i - Len(s) \in DOMAIN t /\ (s \o t)[i] = t[i - Len(s)]
      BY <1>1, <2>2
    <3>. QED BY <3>1 DEF ToSet
  <2>. QED BY <1>1, <2>1, <2>2
<1>3. ASSUME NEW i \in DOMAIN s PROVE s[i] \in ToSet(s \o t)
  <2>1. i \in DOMAIN (s \o t) /\ (s \o t)[i] = s[i]
    BY <1>1
  <2>. QED BY <2>1 DEF ToSet
<1>4. ASSUME NEW i \in DOMAIN t PROVE t[i] \in ToSet(s \o t)
  <2>1. i + Len(s) \in DOMAIN (s \o t) /\ (s \o t)[i + Len(s)] = t[(i + Len(s)) - Len(s)]
        /\ (i + Len(s)) - Len(s) = i
    BY <1>1
  <2>. QED BY <2>1 DEF ToSet
<1>5. ToSet(s \o t) \subseteq ToSet(s) \union ToSet(t)
  BY <1>1, <1>2 DEF ToSet
<1>6. ToSet(s) \subseteq ToSet(s \o t) /\ ToSet(t) \subseteq ToSet(s \o t)
  BY <1>3, <1>4 DEF ToSet
<1>. QED BY <1>1, <1>5, <1>6

LEMMA PivotsAtMembers ==
    ASSUME NEW cs, NEW left, NEW right, NEW i \in DOMAIN cs
    PROVE  LET P == PivotSet(cs, left, right)
               A == PivotsAt(cs, left, right, i)
           IN  A \in Seq(P) /\ ToSet(A) = {p \in P : p.index = i}
<1>. DEFINE P == PivotSet(cs, left, right)
            A == PivotsAt(cs, left, right, i)
            h == Pivot(cs, i, "HIGH")
            l == Pivot(cs, i, "LOW")
            H == HighPivot(cs, i, left, right)
            L == LowPivot(cs, i, left, right)
<1>1. h.index = i /\ l.index = i
  BY DEF Pivot
<1>2. {p \in P : p.index = i} = (IF H THEN {h} ELSE {}) \union (IF L THEN {l} ELSE {})
  <2>1. ASSUME NEW p \in P, p.index = i PROVE (H /\ p = h) \/ (L /\ p = l)
    <3>1. PICK j \in DOMAIN cs :
                 \/ HighPivot(cs, j, left, right) /\ p = Pivot(cs, j, "HIGH")
                 \/ LowPivot(cs, j, left, right) /\ p = Pivot(cs, j, "LOW")
      BY PivotSetMembers
    <3>2. j = i
      BY <2>1, <3>1 DEF Pivot
    <3>. QED BY <3>1, <3>2
  <2>2. (H => h \in P) /\ (L => l \in P)
    BY PivotSetMembers
  <2>. HIDE DEF P, h, l, H, L
  <2>. QED BY <1>1, <2>1, <2>2
<1>3. (H => h \in P) /\ (L => l \in P)
  BY PivotSetMembers
<1>. DEFINE X == IF H THEN <<h>> ELSE <<>>
            Y == IF L THEN <<l>> ELSE <<>>
<1>4. A = X \o Y
  BY DEF PivotsAt
<1>. HIDE DEF P, h, l, H, L, A
<1>5. X \in Seq(P) /\ ToSet(X) = IF H THEN {h} ELSE {}
  BY <1>3 DEF ToSet
<1>6. Y \in Seq(P) /\ ToSet(Y) = IF L THEN {l} ELSE {}
  BY <1>3 DEF ToSet
<1>. HIDE DEF X, Y
<1>7. A \in Seq(P) /\ ToSet(A) = ToSet(X) \union ToSet(Y)
  BY <1>4, <1>5, <1>6, ToSetOfConcat
<1>8. A \in Seq(P) /\ ToSet(A) = {p \in P : p.index = i}
  BY <1>2, <1>5, <1>6, <1>7
<1>. QED BY <1>8 DEF A, P

\* findPivots walks the bars once and misses none.
LEMMA FindPivotsMembers ==
    ASSUME NEW cs, Len(cs) \in Nat, DOMAIN cs = 1 .. Len(cs), NEW left, NEW right
    PROVE  LET P == PivotSet(cs, left, right)
           IN  /\ FindPivots(cs, left, right) \in Seq(P)
               /\ ToSet(FindPivots(cs, left, right)) = P
<1>. DEFINE n == Len(cs)
            P == PivotSet(cs, left, right)
            Of(i) == PivotsAt(cs, left, right, i)
            Rule(f) == [i \in 0 .. n |-> IF i = 0 THEN <<>> ELSE f[i - 1] \o Of(i)]
            step == [i \in 1 .. n |-> [x \in Seq(P) |-> x \o Of(i)]]
            found == CHOOSE f : f = Rule(f)
            Upto(i) == {p \in P : p.index <= i}
<1>1. FindPivots(cs, left, right) = found[n]
  BY DEF FindPivots, PivotsAt
<1>2. \A i \in 1 .. n : Of(i) \in Seq(P) /\ ToSet(Of(i)) = {p \in P : p.index = i}
  BY PivotsAtMembers
<1>3. \A p \in P : p.index \in 1 .. n
  <2>. TAKE p \in P
  <2>1. PICK i \in DOMAIN cs :
               \/ HighPivot(cs, i, left, right) /\ p = Pivot(cs, i, "HIGH")
               \/ LowPivot(cs, i, left, right) /\ p = Pivot(cs, i, "LOW")
    BY PivotSetMembers
  <2>. QED BY <2>1 DEF Pivot
<1>. HIDE DEF P, Of
<1>4. /\ \A i \in 1 .. n : \A x \in Seq(P) : step[i][x] = x \o Of(i)
      /\ Stepwise(n, Seq(P), <<>>, step)
  <2>1. \A i \in 1 .. n : \A x \in Seq(P) : step[i][x] = x \o Of(i)
    OBVIOUS
  <2>2. \A i \in 1 .. n : \A x \in Seq(P) : x \o Of(i) \in Seq(P)
    BY <1>2, ToSetOfConcat
  <2>3. <<>> \in Seq(P)
    BY EmptySeq
  <2>. HIDE DEF step
  <2>. QED BY <2>1, <2>2, <2>3 DEF Stepwise
<1>. HIDE DEF step
<1>5. PICK g \in [0 .. n -> Seq(P)] : g[0] = <<>> /\ \A i \in 1 .. n : g[i] = step[i][g[i - 1]]
  BY <1>4, StepByStep
<1>6. g = Rule(g)
  <2>1. ASSUME NEW i \in 1 .. n PROVE g[i] = g[i - 1] \o Of(i)
    <3>1. g[i - 1] \in Seq(P)
      BY <1>5
    <3>. QED BY <1>4, <1>5, <3>1
  <2>. QED BY <1>5, <2>1
<1>7. found = Rule(found)
  BY <1>6
<1>. HIDE DEF found
<1>8. found[0] = <<>> /\ \A i \in 1 .. n : found[i] = found[i - 1] \o Of(i)
  <2>1. n \in Nat
    OBVIOUS
  <2>. HIDE DEF n
  <2>2. 0 \in 0 .. n /\ \A i \in 1 .. n : i \in 0 .. n /\ i # 0
    BY <2>1
  <2>3. \A i \in 0 .. n : found[i] = IF i = 0 THEN <<>> ELSE found[i - 1] \o Of(i)
    BY <1>7
  <2>. HIDE DEF Of
  <2>. QED BY <2>2, <2>3
<1>. DEFINE B == {i \in 0 .. n : found[i] \in Seq(P) /\ ToSet(found[i]) = Upto(i)}
<1>9. 0 \in B
  <2>1. Upto(0) = {} /\ ToSet(<<>>) = {}
    BY <1>3 DEF ToSet
  <2>2. <<>> \in Seq(P) /\ 0 \in 0 .. n
    BY EmptySeq
  <2>3. found[0] \in Seq(P) /\ ToSet(found[0]) = Upto(0)
    BY <1>8, <2>1, <2>2
  <2>. HIDE DEF Upto
  <2>. QED BY <2>2, <2>3
<1>10. ASSUME NEW i \in 1 .. n, i - 1 \in B PROVE i \in B
  <2>1. found[i - 1] \in Seq(P) /\ ToSet(found[i - 1]) = Upto(i - 1)
    BY <1>10
  <2>2. found[i] = found[i - 1] \o Of(i)
    BY <1>8
  <2>3. found[i] \in Seq(P) /\ ToSet(found[i]) = Upto(i - 1) \union {p \in P : p.index = i}
    BY <1>2, <2>1, <2>2, ToSetOfConcat
  <2>4. Upto(i) = Upto(i - 1) \union {p \in P : p.index = i}
    BY <1>3
  <2>5. found[i] \in Seq(P) /\ ToSet(found[i]) = Upto(i) /\ i \in 0 .. n
    BY <2>3, <2>4
  <2>. HIDE DEF Upto
  <2>. QED BY <2>5
<1>11. n \in B
  <2>1. \A i \in 0 .. n : i \in B
    <3>. HIDE DEF B
    <3>. QED BY <1>9, <1>10, UpTo
  <2>. HIDE DEF B
  <2>. QED BY <2>1
<1>12. Upto(n) = P
  BY <1>3
<1>. HIDE DEF Upto
<1>. QED BY <1>1, <1>11, <1>12 DEF P

-----------------------------------------------------------------------------
\* Equal levels

\* One after the other the pivots become leaders, or not.
LEMMA LeadersSteps ==
    ASSUME NEW pivots, Len(pivots) \in Nat, NEW kind, NEW tol
    PROVE  LET n == Len(pivots)
               L(k) == Leaders(pivots, kind, tol, k)
           IN  /\ L(0) = {}
               /\ \A i \in 1 .. n :
                     L(i) = IF \/ pivots[i].kind # kind
                               \/ \E k \in L(i - 1) : Near(pivots, kind, tol, k, i)
                            THEN L(i - 1) ELSE L(i - 1) \union {i}
<1>. DEFINE n == Len(pivots)
            Not(x, i) == \/ pivots[i].kind # kind
                         \/ \E k \in x : Near(pivots, kind, tol, k, i)
            Plus(x, i) == IF Not(x, i) THEN x ELSE x \union {i}
            Rule(f) == [i \in 0 .. n |-> IF i = 0 THEN {} ELSE Plus(f[i - 1], i)]
            V == SUBSET (1 .. n)
            step == [i \in 1 .. n |-> [x \in V |-> Plus(x, i)]]
            leaders == CHOOSE f : f = Rule(f)
            L(k) == Leaders(pivots, kind, tol, k)
<1>1. \A k : L(k) = leaders[k]
  BY DEF Leaders
<1>2. n \in Nat
  OBVIOUS
<1>. HIDE DEF n, Not, L
<1>3. \A i \in 1 .. n : \A x \in V : step[i][x] = Plus(x, i)
  OBVIOUS
<1>4. Stepwise(n, V, {}, step)
  <2>1. \A i \in 1 .. n : \A x \in V : Plus(x, i) \in V
    OBVIOUS
  <2>2. {} \in V
    OBVIOUS
  <2>. HIDE DEF V, Plus, step
  <2>. QED BY <1>2, <1>3, <2>1, <2>2 DEF Stepwise
<1>. HIDE DEF Plus, step, V
<1>5. PICK g \in [0 .. n -> V] : g[0] = {} /\ \A i \in 1 .. n : g[i] = step[i][g[i - 1]]
  BY <1>4, StepByStep
<1>6. g = Rule(g)
  <2>1. ASSUME NEW i \in 1 .. n PROVE g[i] = Plus(g[i - 1], i)
    <3>1. g[i - 1] \in V
      BY <1>2, <1>5
    <3>. QED BY <1>3, <1>5, <3>1
  <2>. QED BY <1>2, <1>5, <2>1
<1>7. leaders = Rule(leaders)
  BY <1>6
<1>. HIDE DEF leaders
<1>8. leaders[0] = {} /\ \A i \in 1 .. n : leaders[i] = Plus(leaders[i - 1], i)
  <2>1. 0 \in 0 .. n /\ \A i \in 1 .. n : i \in 0 .. n /\ i # 0
    BY <1>2
  <2>2. \A i \in 0 .. n : leaders[i] = IF i = 0 THEN {} ELSE Plus(leaders[i - 1], i)
    BY <1>7
  <2>. QED BY <2>1, <2>2
<1>9. L(0) = {} /\ \A i \in 1 .. n : L(i) = Plus(L(i - 1), i)
  BY <1>1, <1>8
<1>. QED BY <1>9 DEF Plus, Not, n, L

\* A leader is one for good, and whether a pivot leads is settled at its turn.
LEMMA LeadersStay ==
    ASSUME NEW pivots, Len(pivots) \in Nat, NEW kind, NEW tol
    PROVE  LET n == Len(pivots)
               L(k) == Leaders(pivots, kind, tol, k)
           IN  \A k \in 0 .. n : L(k) = {l \in L(n) : l <= k} /\ L(k) \subseteq 1 .. k
<1>. DEFINE n == Len(pivots)
            L(k) == Leaders(pivots, kind, tol, k)
<1>1. /\ L(0) = {}
      /\ \A i \in 1 .. n : L(i) = L(i - 1) \/ L(i) = L(i - 1) \union {i}
  BY LeadersSteps
<1>2. n \in Nat
  OBVIOUS
<1>. HIDE DEF n, L
<1>3. \A k \in 0 .. n : L(k) \subseteq 1 .. k
  <2>. DEFINE B == {k \in 0 .. n : L(k) \subseteq 1 .. k}
  <2>1. 0 \in B /\ \A i \in 1 .. n : i - 1 \in B => i \in B
    BY <1>1, <1>2
  <2>2. \A i \in 0 .. n : i \in B
    <3>. HIDE DEF B
    <3>. QED BY <1>2, <2>1, UpTo
  <2>. QED BY <2>2
<1>4. ASSUME NEW k \in 0 .. n PROVE L(k) = {l \in L(n) : l <= k}
  <2>. DEFINE B == {i \in 0 .. n : i >= k => L(k) = {l \in L(i) : l <= k}}
  <2>1. 0 \in B
    BY <1>1, <1>2
  <2>2. ASSUME NEW i \in 1 .. n, i - 1 \in B PROVE i \in B
    <3>1. CASE i <= k
      <4>1. L(i) \subseteq 1 .. i
        BY <1>2, <1>3
      <4>2. i = k => L(k) = {l \in L(i) : l <= k}
        BY <4>1
      <4>. QED BY <1>2, <3>1, <4>2
    <3>2. CASE i > k
      <4>1. L(k) = {l \in L(i - 1) : l <= k}
        BY <1>2, <2>2, <3>2
      <4>2. {l \in L(i) : l <= k} = {l \in L(i - 1) : l <= k}
        BY <1>1, <1>2, <3>2
      <4>. QED BY <1>2, <4>1, <4>2
    <3>. QED BY <1>2, <3>1, <3>2
  <2>3. \A i \in 0 .. n : i \in B
    <3>. HIDE DEF B
    <3>. QED BY <1>2, <2>1, <2>2, UpTo
  <2>. QED BY <1>2, <2>3
<1>. QED BY <1>3, <1>4 DEF n, L

\* Which positions lead: those of the kind that no earlier leader is near.
LEMMA LeadersAre ==
    ASSUME NEW pivots, Len(pivots) \in Nat, NEW kind, NEW tol
    PROVE  LET n == Len(pivots)
               L(k) == Leaders(pivots, kind, tol, k)
           IN  /\ L(n) \subseteq 1 .. n
               /\ \A i \in 1 .. n :
                     i \in L(n) <=> /\ pivots[i].kind = kind
                                    /\ \A k \in L(n) : k < i => ~Near(pivots, kind, tol, k, i)
<1>. DEFINE n == Len(pivots)
            L(k) == Leaders(pivots, kind, tol, k)
            N(i, j) == Near(pivots, kind, tol, i, j)
            Is(i) == pivots[i].kind = kind
<1>1. ASSUME NEW i \in 1 .. n
      PROVE  L(i) = IF ~Is(i) \/ \E k \in L(i - 1) : N(k, i)
                    THEN L(i - 1) ELSE L(i - 1) \union {i}
  <2>1. L(i) = IF \/ pivots[i].kind # kind
                  \/ \E k \in L(i - 1) : Near(pivots, kind, tol, k, i)
               THEN L(i - 1) ELSE L(i - 1) \union {i}
    BY LeadersSteps
  <2>. HIDE DEF L
  <2>. QED BY <2>1
<1>2. \A k \in 0 .. n : L(k) = {l \in L(n) : l <= k} /\ L(k) \subseteq 1 .. k
  BY LeadersStay
<1>3. n \in Nat
  OBVIOUS
<1>. HIDE DEF n, L, N, Is
<1>4. ASSUME NEW i \in 1 .. n
      PROVE  i \in L(n) <=> Is(i) /\ \A k \in L(n) : k < i => ~N(k, i)
  <2>1. i \in L(n) <=> i \in L(i)
    BY <1>2, <1>3
  <2>2. i \notin L(i - 1)
    BY <1>2, <1>3
  <2>3. \A k : k \in L(i - 1) <=> k \in L(n) /\ k < i
    <3>1. L(i - 1) = {l \in L(n) : l <= i - 1} /\ L(n) \subseteq 1 .. n
      BY <1>2, <1>3
    <3>. QED BY <1>3, <3>1
  <2>. QED BY <1>1, <2>1, <2>2, <2>3
<1>5. L(n) \subseteq 1 .. n
  BY <1>2, <1>3
<1>. QED BY <1>4, <1>5 DEF n, L, N, Is

\* No pivot counts in two groups.
LEMMA GroupsApart ==
    ASSUME NEW pivots, Len(pivots) \in Nat, NEW kind, NEW tol,
           NEW g \in EqualGroups(pivots, kind, tol),
           NEW h \in EqualGroups(pivots, kind, tol)
    PROVE  g = h \/ g \intersect h = {}
<1>. DEFINE n == Len(pivots)
            L(k) == Leaders(pivots, kind, tol, k)
            N(i, j) == Near(pivots, kind, tol, i, j)
            G(k) == Group(pivots, kind, tol, k)
<1>1. PICK a \in L(n), b \in L(n) : g = G(a) /\ h = G(b)
  BY DEF EqualGroups
<1>2. /\ n \in Nat /\ L(n) \subseteq 1 .. n
      /\ \A k \in 0 .. n : L(k) = {l \in L(n) : l <= k}
      /\ \A i \in L(n), k \in L(n) : k < i => ~N(k, i)
  <2>1. \A k \in 0 .. n : L(k) = {l \in L(n) : l <= k}
    BY LeadersStay
  <2>2. /\ L(n) \subseteq 1 .. n
        /\ \A i \in 1 .. n :
              i \in L(n) <=> pivots[i].kind = kind /\ \A k \in L(n) : k < i => ~N(k, i)
    BY LeadersAre
  <2>. HIDE DEF L, N
  <2>. QED BY <2>1, <2>2
<1>3. \A k, j : j \in G(k) <=> \/ j = k
                              \/ /\ j \in k + 1 .. n /\ N(k, j)
                                 /\ \A e \in L(k - 1) : ~N(e, j)
  BY DEF Group
<1>. HIDE DEF n, L, N, G
<1>4. ASSUME NEW x \in L(n), NEW y \in L(n), x < y, NEW j \in G(x), j \in G(y)
      PROVE  FALSE
  <2>1. x \in 1 .. n /\ y \in 1 .. n
    BY <1>2
  <2>2. j # x
    BY <1>2, <1>3, <1>4, <2>1
  <2>3. N(x, j)
    BY <1>3, <2>2
  <2>4. j # y
    BY <1>2, <1>4, <2>3
  <2>5. x \in L(y - 1)
    BY <1>2, <1>4, <2>1
  <2>6. ~N(x, j)
    BY <1>3, <1>4, <2>4, <2>5
  <2>. QED BY <2>3, <2>6
<1>5. a \in Int /\ b \in Int
  BY <1>1, <1>2
<1>6. ASSUME g # h, NEW j \in g, j \in h PROVE FALSE
  <2>1. a < b \/ b < a
    BY <1>1, <1>5, <1>6
  <2>. QED BY <1>1, <1>4, <1>6, <2>1
<1>. QED BY <1>6

\* Two different positions make a group of two.
LEMMA AtLeastTwo ==
    ASSUME NEW n \in Nat, NEW g, g \subseteq 1 .. n, NEW i \in g, NEW j \in g, i # j
    PROVE  Cardinality(g) >= 2
<1>1. IsFiniteSet(g)
  <2>1. IsFiniteSet(1 .. n) /\ g \in SUBSET (1 .. n)
    BY FS_Interval
  <2>. QED BY <2>1, FS_Subset
<1>2. IsFiniteSet({i}) /\ Cardinality({i}) = 1
  BY FS_Singleton
<1>3. IsFiniteSet({i, j}) /\ Cardinality({i, j}) = 2
  <2>1. {i} \union {j} = {i, j} /\ j \notin {i}
    OBVIOUS
  <2>2. IsFiniteSet({i} \union {j}) /\ Cardinality({i} \union {j}) = 1 + 1
    BY <1>2, <2>1, FS_AddElement
  <2>. QED BY <2>1, <2>2
<1>4. {i, j} \in SUBSET g
  OBVIOUS
<1>5. Cardinality({i, j}) <= Cardinality(g) /\ Cardinality(g) \in Nat
  BY <1>1, <1>4, FS_Subset, FS_CardinalityType
<1>. QED BY <1>3, <1>5

\* Of two positions that are near each other at least one is in a group.
LEMMA NearOnesGrouped ==
    ASSUME NEW pivots, Len(pivots) \in Nat, NEW kind, NEW tol,
           NEW i \in 1 .. Len(pivots), NEW j \in 1 .. Len(pivots), i < j,
           Near(pivots, kind, tol, i, j)
    PROVE  \E g \in EqualGroups(pivots, kind, tol) : i \in g \/ j \in g
<1>. DEFINE n == Len(pivots)
            L(k) == Leaders(pivots, kind, tol, k)
            N(a, b) == Near(pivots, kind, tol, a, b)
            G(k) == Group(pivots, kind, tol, k)
            Is(a) == pivots[a].kind = kind
<1>1. n \in Nat /\ i \in 1 .. n /\ j \in 1 .. n /\ N(i, j) /\ Is(i)
  BY DEF Near
<1>2. /\ L(n) \subseteq 1 .. n
      /\ \A k \in 0 .. n : L(k) = {l \in L(n) : l <= k}
      /\ \A a \in 1 .. n : Is(a) /\ (\A k \in L(n) : k < a => ~N(k, a)) => a \in L(n)
  <2>1. \A k \in 0 .. n : L(k) = {l \in L(n) : l <= k}
    BY LeadersStay
  <2>2. /\ L(n) \subseteq 1 .. n
        /\ \A a \in 1 .. n :
              a \in L(n) <=> Is(a) /\ \A k \in L(n) : k < a => ~N(k, a)
    BY LeadersAre
  <2>. HIDE DEF L, N, Is
  <2>. QED BY <2>1, <2>2
<1>3. \A k, b : b \in G(k) <=> \/ b = k
                              \/ /\ b \in k + 1 .. n /\ N(k, b)
                                 /\ \A e \in L(k - 1) : ~N(e, b)
  BY DEF Group
<1>4. ASSUME NEW k \in L(n), Cardinality(G(k)) >= 2
      PROVE  G(k) \in EqualGroups(pivots, kind, tol)
  BY <1>4 DEF EqualGroups
<1>. HIDE DEF n, L, N, G, Is
\* The first leader that is near a position has it in its group.
<1>5. ASSUME NEW b \in 1 .. n, NEW l \in L(n), l < b, N(l, b)
      PROVE  \E g \in EqualGroups(pivots, kind, tol) : b \in g
  <2>. DEFINE E == {e \in L(n) : e < b /\ N(e, b)}
  <2>1. E \in SUBSET Nat /\ E # {}
    BY <1>2, <1>5
  <2>2. PICK m \in E : \A e \in E : m <= e
    <3>. HIDE DEF E
    <3>. QED BY <2>1, LeastNat
  <2>3. m \in 1 .. n /\ m < b /\ N(m, b) /\ m \in L(n)
    BY <1>2, <2>2
  <2>4. \A e \in L(m - 1) : ~N(e, b)
    <3>1. L(m - 1) = {l1 \in L(n) : l1 <= m - 1}
      BY <1>1, <1>2, <2>3
    <3>. QED BY <1>2, <2>2, <2>3, <3>1
  <2>5. b \in G(m) /\ m \in G(m)
    BY <1>1, <1>3, <2>3, <2>4
  <2>6. G(m) \subseteq 1 .. n
    BY <1>1, <1>3, <2>3
  <2>7. Cardinality(G(m)) >= 2
    <3>1. m # b
      BY <2>3
    <3>. QED BY <1>1, <2>5, <2>6, <3>1, AtLeastTwo
  <2>. QED BY <1>4, <2>3, <2>5, <2>7
<1>6. CASE \E l \in L(n) : l < i /\ N(l, i)
  BY <1>1, <1>5, <1>6
<1>7. CASE \A l \in L(n) : l < i => ~N(l, i)
  <2>1. i \in L(n)
    BY <1>1, <1>2, <1>7
  <2>. QED BY <1>1, <1>5, <2>1
<1>. QED BY <1>6, <1>7

\* What the tolerance compares is the same either way round.
LEMMA AbsSwaps == \A a, b \in Int : Abs(a - b) = Abs(b - a)
BY DEF Abs

-----------------------------------------------------------------------------
\* The rows of a timeframe

Rows(rows) == /\ rows \in Seq(Bars)
              /\ Closed(rows)
              /\ \A i \in DOMAIN rows : rows[i].t = i /\ Ranged(rows[i])

LEMMA SettledRows ==
    ASSUME NEW rows, Rows(rows), rows # <<>>
    PROVE  /\ Settled(rows) \in Seq(Bars)
           /\ \A i \in DOMAIN Settled(rows) :
                 /\ Settled(rows)[i] = rows[i] /\ i \in DOMAIN rows
                 /\ Settled(rows)[i].closed
<1>1. /\ rows \in Seq(Bars) /\ Len(rows) \in Nat /\ Len(rows) > 0
      /\ DOMAIN rows = 1 .. Len(rows)
  BY EmptySeq DEF Rows
<1>2. \A i \in 1 .. Len(rows) - 1 : rows[i].closed
  BY DEF Rows, Closed
<1>3. CASE rows[Len(rows)].closed
  BY <1>1, <1>2, <1>3 DEF Settled
<1>4. CASE ~rows[Len(rows)].closed
  <2>. DEFINE cut == SubSeq(rows, 1, Len(rows) - 1)
  <2>1. /\ cut \in Seq(Bars) /\ DOMAIN cut = 1 .. Len(rows) - 1
        /\ \A i \in 1 .. Len(rows) - 1 : cut[i] = rows[i]
    BY <1>1
  <2>. QED BY <1>1, <1>2, <1>4, <2>1 DEF Settled
<1>. QED BY <1>3, <1>4

\* As only the last row may be live, the filter of measure.ts leaves what
\* the bridge has settled.
LEMMA ClosedIsSettled ==
    ASSUME NEW rows, Rows(rows), rows # <<>>
    PROVE  ClosedOnly(rows) = Settled(rows)
<1>. DEFINE cs     == Settled(rows)
            n      == Len(cs)
            closed == {i \in DOMAIN rows : rows[i].closed}
            Nth(k) == CHOOSE i \in closed : Cardinality({j \in closed : j <= i}) = k
<1>1. /\ cs \in Seq(Bars) /\ n \in Nat /\ DOMAIN cs = 1 .. n
      /\ \A i \in 1 .. n : cs[i] = rows[i] /\ i \in DOMAIN rows /\ rows[i].closed
  <2>1. cs \in Seq(Bars) /\ \A i \in DOMAIN cs :
           cs[i] = rows[i] /\ i \in DOMAIN rows /\ cs[i].closed
    BY SettledRows
  <2>. HIDE DEF cs
  <2>. QED BY <2>1
<1>2. closed = 1 .. n
  <2>1. /\ rows \in Seq(Bars) /\ Len(rows) \in Nat /\ Len(rows) > 0
        /\ DOMAIN rows = 1 .. Len(rows)
    BY EmptySeq DEF Rows
  <2>2. CASE rows[Len(rows)].closed
    <3>1. n = Len(rows)
      BY <2>2 DEF Settled
    <3>. HIDE DEF cs, n
    <3>. QED BY <1>1, <2>1, <3>1
  <2>3. CASE ~rows[Len(rows)].closed
    <3>1. n = Len(rows) - 1
      BY <2>1, <2>3 DEF Settled
    <3>. HIDE DEF cs, n
    <3>2. \A i \in DOMAIN rows : rows[i].closed <=> i \in 1 .. n
      <4>1. TAKE i \in DOMAIN rows
      <4>2. i \in 1 .. n \/ i = Len(rows)
        BY <2>1, <3>1
      <4>. QED BY <1>1, <2>1, <2>3, <3>1, <4>2
    <3>. QED BY <1>1, <3>2
  <2>. QED BY <2>2, <2>3
<1>. HIDE DEF cs, n, closed
<1>3. Cardinality(closed) = n
  BY <1>1, <1>2, FS_Interval
<1>4. \A i \in 1 .. n : Cardinality({j \in closed : j <= i}) = i
  <2>. TAKE i \in 1 .. n
  <2>1. {j \in closed : j <= i} = 1 .. i /\ i \in Nat /\ i >= 1
    BY <1>1, <1>2
  <2>2. Cardinality(1 .. i) = i
    BY <2>1, FS_Interval
  <2>. QED BY <2>1, <2>2
<1>5. \A k \in 1 .. n : Nth(k) = k
  BY <1>2, <1>4
<1>. HIDE DEF Nth
<1>6. [k \in 1 .. n |-> rows[Nth(k)]] = cs
  <2>1. [k \in 1 .. n |-> rows[Nth(k)]] = [k \in 1 .. n |-> cs[k]]
    BY <1>1, <1>5
  <2>. QED BY <1>1, <2>1
<1>7. ClosedOnly(rows) = [k \in 1 .. Cardinality(closed) |-> rows[Nth(k)]]
  BY DEF ClosedOnly, closed, Nth
<1>. QED BY <1>3, <1>6, <1>7 DEF cs

\* Settled undoes the append of a live row and keeps that of a closed one.
LEMMA AppendRows ==
    ASSUME NEW cs, Rows(cs), \A i \in DOMAIN cs : cs[i].closed,
           NEW b \in Bars, b.t = Len(cs) + 1, Ranged(b)
    PROVE  /\ Rows(Append(cs, b)) /\ Append(cs, b) # <<>>
           /\ b.closed => Settled(Append(cs, b)) = Append(cs, b)
           /\ ~b.closed => Settled(Append(cs, b)) = cs
<1>. DEFINE next == Append(cs, b)
<1>1. /\ cs \in Seq(Bars) /\ Len(cs) \in Nat /\ DOMAIN cs = 1 .. Len(cs)
      /\ next \in Seq(Bars) /\ Len(next) = Len(cs) + 1
      /\ DOMAIN next = 1 .. Len(cs) + 1
      /\ \A i \in 1 .. Len(cs) : next[i] = cs[i]
      /\ next[Len(cs) + 1] = b
  BY AppendKeeps DEF Rows
<1>2. next # <<>>
  BY <1>1
<1>3. SubSeq(next, 1, Len(next) - 1) = cs
  <2>1. /\ SubSeq(next, 1, Len(cs)) \in Seq(Bars)
        /\ Len(SubSeq(next, 1, Len(cs))) = Len(cs)
        /\ \A i \in 1 .. Len(cs) : SubSeq(next, 1, Len(cs))[i] = next[i]
    BY <1>1
  <2>2. SubSeq(next, 1, Len(cs)) = cs
    BY <1>1, <2>1, SeqEqual
  <2>. QED BY <1>1, <2>2
<1>. HIDE DEF next
<1>4. Closed(next)
  BY <1>1 DEF Closed
<1>5. \A i \in DOMAIN next : next[i].t = i /\ Ranged(next[i])
  BY <1>1 DEF Rows
<1>6. Rows(next)
  BY <1>1, <1>4, <1>5 DEF Rows
<1>7. next[Len(next)] = b
  BY <1>1
<1>8. b.closed => Settled(next) = next
  BY <1>7 DEF Settled
<1>9. ~b.closed => Settled(next) = cs
  BY <1>3, <1>7 DEF Settled
<1>. QED BY <1>2, <1>6, <1>8, <1>9 DEF next

LEMMA MaxOfTwo ==
    ASSUME NEW a \in Int, NEW b \in Int
    PROVE  Max({a, b}) \in Int /\ Max({a, b}) >= a /\ Max({a, b}) >= b
<1>1. \E x \in {a, b} : \A y \in {a, b} : x >= y
  OBVIOUS
<1>. QED BY <1>1 DEF Max

LEMMA MinOfTwo ==
    ASSUME NEW a \in Int, NEW b \in Int
    PROVE  Min({a, b}) \in Int /\ Min({a, b}) <= a /\ Min({a, b}) <= b
           /\ Min({a, b}) \in {a, b}
<1>1. \E x \in {a, b} : \A y \in {a, b} : x <= y
  OBVIOUS
<1>. QED BY <1>1 DEF Min

\* The bar that follows is a bar, whatever its shape.
LEMMA NextBarType ==
    ASSUME NEW bars \in Seq(Bars), bars # <<>>, NEW s \in Shapes \union LiveShapes,
           NEW closed \in BOOLEAN
    PROVE  LET b == NextBar(bars, s, closed)
           IN  b \in Bars /\ b.t = Len(bars) + 1 /\ Ranged(b) /\ b.closed = closed
<1>. DEFINE o == bars[Len(bars)].c
            c == o + s.move
            h == Max({o, c}) + s.up
            l == Min({o, c}) - s.down
            t == Len(bars) + 1
<1>1. t \in Nat /\ Len(bars) \in 1 .. Len(bars)
  BY EmptySeq
<1>2. bars[Len(bars)] \in Bars
  BY <1>1, ElementOfSeq
<1>3. o \in Int /\ s.move \in Int /\ s.up \in Nat /\ s.down \in Nat
  BY <1>2, ShapesAssumption DEF Bars
<1>. HIDE DEF o
<1>4. c \in Int
  BY <1>3
<1>. HIDE DEF c
<1>5. h \in Int /\ l \in Int /\ l <= c /\ c <= h
  <2>1. Max({o, c}) \in Int /\ Max({o, c}) >= c
    BY <1>3, <1>4, MaxOfTwo
  <2>2. Min({o, c}) \in Int /\ Min({o, c}) <= c
    BY <1>3, <1>4, MinOfTwo
  <2>. QED BY <1>3, <1>4, <2>1, <2>2
<1>6. NextBar(bars, s, closed) =
         [t |-> t, o |-> o, c |-> c, closed |-> closed, h |-> h, l |-> l]
  BY DEF NextBar, o, c
<1>. HIDE DEF h, l, t
<1>7. [t |-> t, o |-> o, c |-> c, closed |-> closed, h |-> h, l |-> l] \in Bars
  BY <1>1, <1>3, <1>4, <1>5 DEF Bars
<1>. QED BY <1>5, <1>6, <1>7 DEF t, Ranged

\* One to three bars: the last close lies between the highest high and the
\* lowest low.
LEMMA ExtremesOfBars ==
    ASSUME NEW bars \in Seq(Bars), Len(bars) \in 1 .. 3,
           \A i \in DOMAIN bars : Ranged(bars[i])
    PROVE  LET highs == {bars[i].h : i \in DOMAIN bars}
               lows  == {bars[i].l : i \in DOMAIN bars}
               c     == bars[Len(bars)].c
           IN  /\ Max(highs) \in Int /\ Min(lows) \in Int
               /\ Min(lows) <= c /\ c <= Max(highs)
<1>. DEFINE highs == {bars[i].h : i \in DOMAIN bars}
            lows  == {bars[i].l : i \in DOMAIN bars}
<1>1. /\ DOMAIN bars = 1 .. Len(bars) /\ 1 \in DOMAIN bars
      /\ \A i \in DOMAIN bars : bars[i].h \in Int /\ bars[i].l \in Int
  <2>1. DOMAIN bars = 1 .. Len(bars) /\ 1 \in DOMAIN bars
    OBVIOUS
  <2>2. \A i \in DOMAIN bars : bars[i] \in Bars
    BY <2>1, ElementOfSeq
  <2>. QED BY <2>1, <2>2 DEF Bars
<1>2. DOMAIN bars = {1} \/ DOMAIN bars = {1, 2} \/ DOMAIN bars = {1, 2, 3}
  BY <1>1
<1>3. \E x \in highs : \A y \in highs : x >= y
  <2>. DEFINE Best(i) == i \in DOMAIN bars /\ \A j \in DOMAIN bars : bars[i].h >= bars[j].h
  <2>2. CASE DOMAIN bars = {1}
    <3>1. bars[1].h \in Int
      BY <1>1
    <3>2. Best(1)
      BY <2>2, <3>1
    <3>. QED BY <3>2
  <2>3. CASE DOMAIN bars = {1, 2}
    <3>1. bars[1].h \in Int /\ bars[2].h \in Int
      BY <1>1, <2>3
    <3>2. Best(1) \/ Best(2)
      BY <2>3, <3>1
    <3>. QED BY <3>2
  <2>4. CASE DOMAIN bars = {1, 2, 3}
    <3>1. bars[1].h \in Int /\ bars[2].h \in Int /\ bars[3].h \in Int
      BY <1>1, <2>4
    <3>2. Best(1) \/ Best(2) \/ Best(3)
      BY <2>4, <3>1
    <3>. QED BY <3>2
  <2>. QED BY <1>2, <2>2, <2>3, <2>4
<1>4. \E x \in lows : \A y \in lows : x <= y
  <2>. DEFINE Best(i) == i \in DOMAIN bars /\ \A j \in DOMAIN bars : bars[i].l <= bars[j].l
  <2>2. CASE DOMAIN bars = {1}
    <3>1. bars[1].l \in Int
      BY <1>1
    <3>2. Best(1)
      BY <2>2, <3>1
    <3>. QED BY <3>2
  <2>3. CASE DOMAIN bars = {1, 2}
    <3>1. bars[1].l \in Int /\ bars[2].l \in Int
      BY <1>1, <2>3
    <3>2. Best(1) \/ Best(2)
      BY <2>3, <3>1
    <3>. QED BY <3>2
  <2>4. CASE DOMAIN bars = {1, 2, 3}
    <3>1. bars[1].l \in Int /\ bars[2].l \in Int /\ bars[3].l \in Int
      BY <1>1, <2>4
    <3>2. Best(1) \/ Best(2) \/ Best(3)
      BY <2>4, <3>1
    <3>. QED BY <3>2
  <2>. QED BY <1>2, <2>2, <2>3, <2>4
<1>. DEFINE last == bars[Len(bars)]
<1>5. last.h \in highs /\ last.l \in lows
      /\ highs \subseteq Int /\ lows \subseteq Int
  BY <1>1
<1>6. last.h \in Int /\ last.l \in Int /\ last.c \in Int
      /\ last.l <= last.c /\ last.c <= last.h
  <2>1. Len(bars) \in DOMAIN bars
    OBVIOUS
  <2>2. last \in Bars
    BY <2>1, ElementOfSeq
  <2>. QED BY <2>1, <2>2 DEF Bars, Ranged
<1>. HIDE DEF highs, lows, last
<1>7. Max(highs) \in Int /\ Max(highs) >= last.h
  BY <1>3, <1>5 DEF Max
<1>8. Min(lows) \in Int /\ Min(lows) <= last.l
  BY <1>4, <1>5 DEF Min
<1>9. /\ Max(highs) \in Int /\ Min(lows) \in Int
      /\ Min(lows) <= last.c /\ last.c <= Max(highs)
  BY <1>6, <1>7, <1>8
<1>. QED BY <1>9 DEF highs, lows, last

LEMMA AggregateType ==
    ASSUME NEW bars \in Seq(Bars), Len(bars) \in 1 .. 3,
           \A i \in DOMAIN bars : Ranged(bars[i]),
           NEW t \in Nat, NEW closed \in BOOLEAN
    PROVE  LET b == Aggregate(bars, t, closed)
           IN  b \in Bars /\ b.t = t /\ Ranged(b) /\ b.closed = closed
<1>. DEFINE o == bars[1].o
            c == bars[Len(bars)].c
            h == Max({bars[i].h : i \in DOMAIN bars})
            l == Min({bars[i].l : i \in DOMAIN bars})
<1>1. h \in Int /\ l \in Int /\ l <= c /\ c <= h
  BY ExtremesOfBars
<1>2. o \in Int /\ c \in Int
  <2>1. 1 \in 1 .. Len(bars) /\ Len(bars) \in 1 .. Len(bars)
    OBVIOUS
  <2>2. bars[1] \in Bars /\ bars[Len(bars)] \in Bars
    BY <2>1, ElementOfSeq
  <2>. QED BY <2>2 DEF Bars
<1>3. Aggregate(bars, t, closed) =
         [t |-> t, o |-> o, c |-> c, closed |-> closed, h |-> h, l |-> l]
  BY DEF Aggregate
<1>. HIDE DEF o, c, h, l
<1>4. [t |-> t, o |-> o, c |-> c, closed |-> closed, h |-> h, l |-> l] \in Bars
  BY <1>1, <1>2 DEF Bars
<1>. QED BY <1>1, <1>3, <1>4 DEF Ranged

LEMMA PartOfRows ==
    ASSUME NEW rows, Rows(rows), NEW a \in Nat \ {0}, NEW b \in 0 .. Len(rows)
    PROVE  /\ SubSeq(rows, a, b) \in Seq(Bars)
           /\ \A i \in DOMAIN SubSeq(rows, a, b) :
                 Ranged(SubSeq(rows, a, b)[i])
<1>. DEFINE part == SubSeq(rows, a, b)
<1>1. rows \in Seq(Bars) /\ Len(rows) \in Nat /\ DOMAIN rows = 1 .. Len(rows)
  BY DEF Rows
<1>2. /\ part \in Seq(Bars) /\ DOMAIN part = 1 .. Len(part)
      /\ \A i \in DOMAIN part : part[i] = rows[a + i - 1] /\ a + i - 1 \in DOMAIN rows
  BY <1>1
<1>. HIDE DEF part
<1>3. \A i \in DOMAIN part : Ranged(part[i])
  BY <1>2 DEF Rows
<1>. QED BY <1>2, <1>3 DEF part

LEMMA ClosedRows ==
    ASSUME NEW rows, Rows(rows), Settled(rows) # <<>>
    PROVE  /\ Rows(Settled(rows))
           /\ \A i \in DOMAIN Settled(rows) : Settled(rows)[i].closed
<1>1. rows # <<>>
  BY DEF Settled
<1>2. /\ Settled(rows) \in Seq(Bars)
      /\ \A i \in DOMAIN Settled(rows) :
            /\ Settled(rows)[i] = rows[i] /\ i \in DOMAIN rows
            /\ Settled(rows)[i].closed
  BY <1>1, SettledRows
<1>3. \A i \in 1 .. Len(Settled(rows)) - 1 : i \in DOMAIN Settled(rows)
  BY <1>2
<1>. QED BY <1>2, <1>3 DEF Rows, Closed

-----------------------------------------------------------------------------
\* What analyze answers

Whys == {"insufficient_candles", "atr_not_ready", "no_model", "failed_checks",
         "stale_entry_zone", "zero_risk", "rr_too_low", "confidence_low"}

Answer(a) == /\ a.found => /\ a.direction \in {"LONG", "SHORT"}
                            /\ a.confidence \in {90, 100}
             /\ ~a.found => a.why \in Whys

LEMMA NoIsAnswer == ASSUME NEW why \in Whys PROVE Answer(No(why))
BY DEF Answer, No

\* The five checks that block weigh 90 together.
LEMMA ConfidenceOfChecks ==
    ASSUME NEW e, NEW c15, NEW c5, NEW dir, ChecksPass(e, c15, c5, dir)
    PROVE  Confidence(e, c15, c5, dir) \in {90, 100}
<1>. DEFINE side == If(ZoneSideOk(e, dir), 10)
            mss  == If(e.events # <<>> /\ LastEvent(e).kind = "MSS", 10)
            sum  == If(BiasOk(e, dir), 20) + If(SweptOk(e), 20)
                    + If(DispOk(e, c15, dir), 15) + If(StructOk(e, c5, dir), 20)
                    + If(ZoneOk(e, dir), 15) + side + mss
<1>1. side \in {0, 10} /\ mss \in {0, 10}
  BY DEF If
<1>2. /\ If(BiasOk(e, dir), 20) = 20 /\ If(SweptOk(e), 20) = 20
      /\ If(DispOk(e, c15, dir), 15) = 15 /\ If(StructOk(e, c5, dir), 20) = 20
      /\ If(ZoneOk(e, dir), 15) = 15
  BY DEF ChecksPass, If
<1>3. Confidence(e, c15, c5, dir) = Min({100, sum})
  BY DEF Confidence
<1>. HIDE DEF side, mss
<1>4. sum \in {90, 100, 110}
  BY <1>1, <1>2
<1>. HIDE DEF sum
<1>5. Min({100, sum}) \in {100, sum} /\ Min({100, sum}) <= 100
  <2>1. sum \in Int /\ 100 \in Int
    BY <1>4
  <2>. QED BY <2>1, MinOfTwo
<1>. QED BY <1>3, <1>4, <1>5

LEMMA SetupIsAnswer ==
    ASSUME NEW e, NEW c15, NEW c5, NEW dir \in {"LONG", "SHORT"},
           ChecksPass(e, c15, c5, dir)
    PROVE  Answer(Setup(e, c15, c5, dir))
<1>1. Confidence(e, c15, c5, dir) \in {90, 100}
  BY ConfidenceOfChecks
<1>2. Answer(No("stale_entry_zone")) /\ Answer(No("zero_risk"))
      /\ Answer(No("rr_too_low")) /\ Answer(No("confidence_low"))
  BY NoIsAnswer DEF Whys
<1>3. ASSUME NEW zone, NEW entry, NEW stop, NEW tps, NEW conf \in {90, 100}, NEW opp
      PROVE  Answer([found |-> TRUE, direction |-> dir, zone |-> zone,
                     entry |-> entry, stop |-> stop, tps |-> tps,
                     confidence |-> conf, opposing |-> opp])
  BY DEF Answer
<1>. QED BY <1>1, <1>2, <1>3 DEF Setup

LEMMA AnalyzeAnswers ==
    ASSUME NEW rows15, NEW rows5, NEW clock
    PROVE  Answer(Analyze(rows15, rows5, clock))
<1>. DEFINE c15 == Confirmed(rows15)
            c5  == Confirmed(rows5)
            e   == Evidence(c15, c5, clock)
            dir == Direction(e)
<1>1. dir \in {"LONG", "SHORT", "NONE"}
  BY DEF Direction
<1>. HIDE DEF e, c15, c5
<1>2. ASSUME dir # "NONE", ChecksPass(e, c15, c5, dir)
      PROVE  Answer(Setup(e, c15, c5, dir))
  BY <1>1, <1>2, SetupIsAnswer
<1>3. Answer(No("insufficient_candles")) /\ Answer(No("atr_not_ready"))
      /\ Answer(No("no_model")) /\ Answer(No("failed_checks"))
  BY NoIsAnswer DEF Whys
<1>. HIDE DEF dir
<1>. QED BY <1>2, <1>3 DEF Analyze, e, c15, c5, dir

-----------------------------------------------------------------------------
\* The invariant

LEMMA TypeParts ==
    ASSUME EngineInv
    PROVE  /\ Rows(m5) /\ Rows(m15) /\ Rows(Closed5) /\ Rows(Closed15)
           /\ \A i \in DOMAIN Closed5 : Closed5[i].closed
           /\ \A i \in DOMAIN Closed15 : Closed15[i].closed
           /\ Closed5 \in Seq(Bars) /\ Closed15 \in Seq(Bars)
           /\ now = Len(Closed15) + 1 /\ now \in Nat \ {0}
<1>1. Rows(m5) /\ Rows(m15)
  BY DEF EngineInv, TypeOK, Rows
<1>2. /\ Rows(Closed5) /\ \A i \in DOMAIN Closed5 : Closed5[i].closed
  BY <1>1, ClosedRows DEF EngineInv, Closed5
<1>3. /\ Rows(Closed15) /\ \A i \in DOMAIN Closed15 : Closed15[i].closed
  BY <1>1, ClosedRows DEF EngineInv, Closed15
<1>4. now = Len(Closed15) + 1
  BY DEF EngineInv, TypeOK
<1>5. Closed5 \in Seq(Bars) /\ Closed15 \in Seq(Bars)
  BY <1>2, <1>3 DEF Rows
<1>. QED BY <1>1, <1>2, <1>3, <1>4, <1>5

\* The closed rows stay, or one is added.
Grown(cs, next) ==
    next = cs \/ \E b \in Bars : next = Append(cs, b)

\* The invariant from what a step leaves behind.
LEMMA InvFromRows ==
    ASSUME Rows(m5'), Rows(m15'), Closed5' # <<>>, Closed15' # <<>>,
           now' = Len(Closed15') + 1, Len(Closed5') <= MaxBars,
           analysis' = Analyze(m15', m5', now')
    PROVE  EngineInv'
<1>1. Answer(analysis')
  BY AnalyzeAnswers
<1>2. /\ analysis'.found => analysis'.direction \in {"LONG", "SHORT"}
      /\ ~analysis'.found =>
            analysis'.why \in {"insufficient_candles", "atr_not_ready", "no_model",
              "failed_checks", "stale_entry_zone", "zero_risk", "rr_too_low",
              "confidence_low"}
  BY <1>1 DEF Answer, Whys
<1>3. TypeOK'
  BY <1>2 DEF TypeOK, Rows
<1>. QED BY <1>3 DEF EngineInv

LEMMA Live5Step ==
    ASSUME EngineInv, NEW s \in LiveShapes, Live5(s)
    PROVE  EngineInv' /\ Closed5' = Closed5 /\ Closed15' = Closed15
<1>. DEFINE b == NextBar(Closed5, s, FALSE)
<1>1. b \in Bars /\ b.t = Len(Closed5) + 1 /\ Ranged(b) /\ ~b.closed
  BY NextBarType, TypeParts DEF EngineInv
<1>. HIDE DEF b
<1>2. Rows(Append(Closed5, b)) /\ Settled(Append(Closed5, b)) = Closed5
  BY <1>1, AppendRows, TypeParts
<1>3. m5' = Append(Closed5, b) /\ m15' = m15 /\ now' = now
      /\ analysis' = Analyze(m15', m5', now')
  BY DEF Live5, Store, b
<1>4. Rows(m5') /\ Closed5' = Closed5
  BY <1>2, <1>3 DEF Closed5
<1>5. Rows(m15') /\ Closed15' = Closed15
  BY <1>3, TypeParts DEF Closed15
<1>6. Closed5 # <<>> /\ Closed15 # <<>> /\ Len(Closed5) <= MaxBars
      /\ now = Len(Closed15) + 1
  BY DEF EngineInv, TypeOK
<1>. QED BY <1>3, <1>4, <1>5, <1>6, InvFromRows

LEMMA Live15Step ==
    ASSUME EngineInv, Live15
    PROVE  EngineInv' /\ Closed5' = Closed5 /\ Closed15' = Closed15
<1>. DEFINE b == Aggregate(Pending, now, FALSE)
<1>1. Pending \in Seq(Bars) /\ \A i \in DOMAIN Pending : Ranged(Pending[i])
  <2>1. 3 * Len(Closed15) + 1 \in Nat \ {0} /\ Len(m5) \in 0 .. Len(m5)
    BY TypeParts DEF Rows
  <2>. QED BY <2>1, PartOfRows, TypeParts DEF Pending
<1>2. b \in Bars /\ b.t = Len(Closed15) + 1 /\ Ranged(b) /\ ~b.closed
  BY <1>1, AggregateType, TypeParts DEF Live15
<1>. HIDE DEF b
<1>3. Rows(Append(Closed15, b)) /\ Settled(Append(Closed15, b)) = Closed15
  BY <1>2, AppendRows, TypeParts
<1>4. m15' = Append(Closed15, b) /\ m5' = m5 /\ now' = now
      /\ analysis' = Analyze(m15', m5', now')
  BY DEF Live15, Store, b
<1>5. Rows(m15') /\ Closed15' = Closed15
  BY <1>3, <1>4 DEF Closed15
<1>6. Rows(m5') /\ Closed5' = Closed5
  BY <1>4, TypeParts DEF Closed5
<1>7. Closed5 # <<>> /\ Closed15 # <<>> /\ Len(Closed5) <= MaxBars
      /\ now = Len(Closed15) + 1
  BY DEF EngineInv, TypeOK
<1>. QED BY <1>4, <1>5, <1>6, <1>7, InvFromRows

LEMMA Close5Step ==
    ASSUME EngineInv, NEW s \in Shapes, Close5(s)
    PROVE  EngineInv' /\ Grown(Closed5, Closed5') /\ Closed15' = Closed15
<1>. DEFINE b == NextBar(Closed5, s, TRUE)
<1>1. b \in Bars /\ b.t = Len(Closed5) + 1 /\ Ranged(b) /\ b.closed
  BY NextBarType, TypeParts DEF EngineInv
<1>. HIDE DEF b
<1>2. Rows(Append(Closed5, b)) /\ Append(Closed5, b) # <<>>
      /\ Settled(Append(Closed5, b)) = Append(Closed5, b)
  BY <1>1, AppendRows, TypeParts
<1>3. m5' = Append(Closed5, b) /\ m15' = m15 /\ now' = now
      /\ analysis' = Analyze(m15', m5', now')
  BY DEF Close5, Store, b
<1>4. Rows(m5') /\ Closed5' = Append(Closed5, b)
  BY <1>2, <1>3 DEF Closed5
<1>5. Rows(m15') /\ Closed15' = Closed15
  BY <1>3, TypeParts DEF Closed15
<1>6. Closed15 # <<>> /\ now = Len(Closed15) + 1
  BY DEF EngineInv, TypeOK
<1>7. Len(Closed5') <= MaxBars
  <2>1. Len(Closed5) < MaxBars /\ MaxBars \in Nat /\ Len(Closed5) \in Nat
    BY StartsAssumption, TypeParts DEF Close5
  <2>2. Len(Append(Closed5, b)) = Len(Closed5) + 1
    BY <1>1, TypeParts, AppendKeeps
  <2>. QED BY <1>4, <2>1, <2>2
<1>8. Grown(Closed5, Closed5')
  BY <1>1, <1>4 DEF Grown
<1>9. Closed5' # <<>>
  BY <1>2, <1>4
<1>. QED BY <1>3, <1>4, <1>5, <1>6, <1>7, <1>8, <1>9, InvFromRows

LEMMA Close15Step ==
    ASSUME EngineInv, Close15
    PROVE  EngineInv' /\ Closed5' = Closed5 /\ Grown(Closed15, Closed15')
<1>. DEFINE part == Three(Closed5, now)
            b == Aggregate(part, now, TRUE)
<1>1. /\ part \in Seq(Bars) /\ Len(part) = 3
      /\ \A i \in DOMAIN part : Ranged(part[i])
  <2>1. 3 * now - 2 \in Nat \ {0} /\ 3 * now \in 0 .. Len(Closed5)
        /\ 3 * now - 2 <= 3 * now
    BY TypeParts DEF Close15
  <2>2. Len(SubSeq(Closed5, 3 * now - 2, 3 * now)) = 3
    BY <2>1, TypeParts
  <2>3. /\ SubSeq(Closed5, 3 * now - 2, 3 * now) \in Seq(Bars)
        /\ \A i \in DOMAIN SubSeq(Closed5, 3 * now - 2, 3 * now) :
              Ranged(SubSeq(Closed5, 3 * now - 2, 3 * now)[i])
    BY <2>1, TypeParts, PartOfRows
  <2>. QED BY <2>2, <2>3 DEF Three
<1>. HIDE DEF part
<1>2. now \in Nat /\ Len(part) \in 1 .. 3
  <2>1. now \in Nat
    BY TypeParts
  <2>2. Len(part) = 3
    BY <1>1
  <2>. QED BY <2>1, <2>2
<1>3. b \in Bars /\ b.t = now /\ Ranged(b) /\ b.closed
  BY <1>1, <1>2, AggregateType
<1>4. now = Len(Closed15) + 1
  BY TypeParts
<1>. HIDE DEF b
<1>5. Rows(Append(Closed15, b)) /\ Append(Closed15, b) # <<>>
      /\ Settled(Append(Closed15, b)) = Append(Closed15, b)
  BY <1>3, <1>4, AppendRows, TypeParts
<1>6. m15' = Append(Closed15, b) /\ m5' = m5 /\ now' = now + 1
      /\ analysis' = Analyze(m15', m5', now')
  BY DEF Close15, Store, b, part
<1>7. Rows(m15') /\ Closed15' = Append(Closed15, b)
  BY <1>5, <1>6 DEF Closed15
<1>8. Rows(m5') /\ Closed5' = Closed5
  BY <1>6, TypeParts DEF Closed5
<1>9. now' = Len(Closed15') + 1
  BY <1>3, <1>4, <1>6, <1>7, TypeParts, AppendKeeps
<1>10. Closed5 # <<>> /\ Len(Closed5) <= MaxBars
  BY DEF EngineInv, TypeOK
<1>11. Grown(Closed15, Closed15') /\ Closed15' # <<>>
  BY <1>3, <1>5, <1>7 DEF Grown
<1>. QED BY <1>6, <1>7, <1>8, <1>9, <1>10, <1>11, InvFromRows

LEMMA StepGrows ==
    ASSUME EngineInv, [Next]_vars
    PROVE  EngineInv' /\ Grown(Closed5, Closed5') /\ Grown(Closed15, Closed15')
<1>1. CASE \E s \in LiveShapes : Live5(s)
  BY <1>1, Live5Step DEF Grown
<1>2. CASE \E s \in Shapes : Close5(s)
  BY <1>2, Close5Step DEF Grown
<1>3. CASE Live15
  BY <1>3, Live15Step DEF Grown
<1>4. CASE Close15
  BY <1>4, Close15Step DEF Grown
<1>5. CASE UNCHANGED vars
  BY <1>5 DEF vars, EngineInv, TypeOK, Closed5, Closed15, Grown
<1>. QED BY <1>1, <1>2, <1>3, <1>4, <1>5 DEF Next

LEMMA InitInv == Init => EngineInv
<1>. SUFFICES ASSUME Init PROVE EngineInv
  OBVIOUS
<1>1. PICK s \in Starts : m5 = s.bars
  BY DEF Init
<1>2. /\ m5 \in Seq(Bars) /\ MaxBars \in Nat
      /\ \A i \in DOMAIN m5 : m5[i].t = i /\ Ranged(m5[i]) /\ m5[i].closed
  BY <1>1, StartsAssumption
<1>3. PICK k \in 1 .. MaxBars : Len(m5) = 3 * k /\ 3 * k <= MaxBars
  BY <1>1, StartsAssumption
<1>4. k \in Nat \ {0} /\ Len(m5) \div 3 = k /\ DOMAIN m5 = 1 .. Len(m5)
  BY <1>2, <1>3
<1>5. Rows(m5) /\ Closed5 = m5 /\ m5 # <<>>
  <2>1. /\ \A i \in 1 .. Len(m5) - 1 : m5[i].closed
        /\ m5[Len(m5)].closed
    BY <1>2, <1>3, <1>4
  <2>2. m5 # <<>>
    BY <1>3, <1>4
  <2>. QED BY <1>2, <2>1, <2>2 DEF Rows, Closed, Closed5, Settled
<1>6. ASSUME NEW i \in 1 .. k
      PROVE  LET b == Aggregate(Three(m5, i), i, TRUE)
             IN  b \in Bars /\ b.t = i /\ Ranged(b) /\ b.closed
  <2>. DEFINE part == Three(m5, i)
  <2>1. 3 * i - 2 \in Nat \ {0} /\ 3 * i \in 0 .. Len(m5) /\ i \in Nat
    BY <1>3, <1>4
  <2>2. Len(part) = 3
    BY <1>2, <2>1 DEF Three
  <2>3. part \in Seq(Bars) /\ \A j \in DOMAIN part : Ranged(part[j])
    BY <1>5, <2>1, PartOfRows DEF Three
  <2>. HIDE DEF part
  <2>4. Len(part) \in 1 .. 3
    BY <2>2
  <2>5. LET b == Aggregate(part, i, TRUE)
        IN  b \in Bars /\ b.t = i /\ Ranged(b) /\ b.closed
    BY <2>1, <2>3, <2>4, AggregateType
  <2>. QED BY <2>5 DEF part
<1>7. m15 = [i \in 1 .. k |-> Aggregate(Three(m5, i), i, TRUE)]
  BY <1>4 DEF Init
<1>8. /\ m15 \in Seq(Bars) /\ Len(m15) = k /\ DOMAIN m15 = 1 .. k
      /\ \A i \in 1 .. k : m15[i].t = i /\ Ranged(m15[i]) /\ m15[i].closed
  <2>. DEFINE Bar(i) == Aggregate(Three(m5, i), i, TRUE)
  <2>1. \A i \in 1 .. k : /\ Bar(i) \in Bars /\ Bar(i).t = i
                           /\ Ranged(Bar(i)) /\ Bar(i).closed
    BY <1>6
  <2>. HIDE DEF Bar
  <2>2. m15 = [i \in 1 .. k |-> Bar(i)]
    BY <1>7 DEF Bar
  <2>3. m15 \in [1 .. k -> Bars]
    BY <2>1, <2>2
  <2>4. m15 \in Seq(Bars)
    BY <1>4, <2>3
  <2>5. \A i \in 1 .. k : m15[i] = Bar(i)
    BY <2>2
  <2>. QED BY <1>4, <2>1, <2>3, <2>4, <2>5
<1>9. Rows(m15) /\ Closed15 = m15 /\ m15 # <<>>
  <2>1. /\ \A i \in 1 .. Len(m15) - 1 : m15[i].closed
        /\ m15[Len(m15)].closed
    BY <1>4, <1>8
  <2>2. m15 # <<>>
    BY <1>4, <1>8
  <2>. QED BY <1>8, <2>1, <2>2 DEF Rows, Closed, Closed15, Settled
<1>10. now = Len(Closed15) + 1 /\ Len(Closed5) <= MaxBars
  BY <1>3, <1>5, <1>9 DEF Init
<1>11. Answer(analysis)
  BY AnalyzeAnswers DEF Init
<1>. QED BY <1>5, <1>9, <1>10, <1>11
      DEF EngineInv, TypeOK, Rows, Answer, Whys

\* The answer to the rows in the database, at the start and after every step.
LEMMA StepAnswers ==
    /\ Init => Answer(analysis)
    /\ Answer(analysis) /\ [Next]_vars => Answer(analysis)'
<1>1. Init => Answer(analysis)
  BY AnalyzeAnswers DEF Init
<1>2. ASSUME Answer(analysis), [Next]_vars PROVE Answer(analysis')
  <2>1. \/ \E rows15, rows5, clock : analysis' = Analyze(rows15, rows5, clock)
        \/ analysis' = analysis
    BY <1>2 DEF Next, Live5, Live15, Close5, Close15, Store, vars
  <2>. QED BY <1>2, <2>1, AnalyzeAnswers
<1>. QED BY <1>1, <1>2

LEMMA StepAnalysed ==
    /\ Init => Analysed
    /\ Analysed /\ [Next]_vars => Analysed'
<1>1. ASSUME NEW rows15, NEW rows5, NEW clock, Store(rows15, rows5, clock)
      PROVE  Analysed'
  BY <1>1 DEF Store, Analysed, Analyze, Evidence
<1>2. ASSUME Analysed, UNCHANGED vars PROVE Analysed'
  BY <1>2 DEF vars, Analysed, Analyze, Evidence
<1>3. Init => Analysed
  BY DEF Init, Analysed
<1>. QED BY <1>1, <1>2, <1>3 DEF Next, Live5, Live15, Close5, Close15

LEMMA EngineInvariant == Spec => []EngineInv
<1>1. EngineInv /\ [Next]_vars => EngineInv'
  BY StepGrows
<1>. QED BY InitInv, <1>1, PTL DEF Spec

\* The rows are in the order of their bars, only the last may be live, an M15
\* row is made of closed M5 bars in step with the clock, and every analysis is
\* a signal or one of the reasons for none.
THEOREM EngineTypeCorrect == Spec => []TypeOK
<1>1. EngineInv => TypeOK
  BY DEF EngineInv
<1>. QED BY EngineInvariant, <1>1, PTL

\* However the candles arrive, a confirmed pivot is never taken back, and a
\* closed candle confirms pivots of one bar only.
THEOREM NoRepaintCorrect == Spec => PivotsNeverRepaint
<1>1. ASSUME NEW cs \in Seq(Bars), NEW next, Grown(cs, next)
      PROVE  NoRepaint(cs, next)
  BY <1>1, SameNoRepaint, AppendNoRepaint DEF Grown
<1>2. ASSUME EngineInv, [Next]_vars
      PROVE  NoRepaint(Closed5, Closed5') /\ NoRepaint(Closed15, Closed15')
  BY <1>1, <1>2, StepGrows, TypeParts
<1>3. EngineInv /\ [Next]_vars
         => [NoRepaint(Closed5, Closed5') /\ NoRepaint(Closed15, Closed15')]_vars
  BY <1>2
<1>. QED BY EngineInvariant, <1>3, PTL DEF Spec, PivotsNeverRepaint

\* What the engine reads is what the bridge has settled.
Filtered == ClosedOnly(m5) = Closed5 /\ ClosedOnly(m15) = Closed15

LEMMA SettledIsFiltered == EngineInv => Filtered
<1>. SUFFICES ASSUME EngineInv PROVE Filtered
  OBVIOUS
<1>1. m5 # <<>> /\ m15 # <<>>
  BY TypeParts DEF EngineInv, Closed5, Closed15, Settled
<1>. QED BY <1>1, TypeParts, ClosedIsSettled DEF Filtered, Closed5, Closed15

\* Whatever a live row says, however often it is written and whatever the
\* configuration: the analysis changes with the closed candles only.
THEOREM LiveCorrect == Spec => LiveIsNoEvidence
<1>1. EngineInv => Filtered
  BY SettledIsFiltered
<1>2. ASSUME EngineInv, EngineInv', Filtered, Filtered', Analysed, Analysed',
             UNCHANGED htf, Closed5' = Closed5, Closed15' = Closed15
      PROVE  analysis' = analysis
  <2>1. now' = now
    BY <1>2 DEF EngineInv, TypeOK
  <2>2. ClosedOnly(m5') = ClosedOnly(m5) /\ ClosedOnly(m15') = ClosedOnly(m15)
    BY <1>2 DEF Filtered
  <2>. QED BY <1>2, <2>1, <2>2 DEF Analysed, Analyze, Evidence, Confirmed
<1>3. EngineInv /\ [Next]_vars => EngineInv'
  BY StepGrows
<1>4. [Next]_vars => UNCHANGED htf
  BY DEF Next, Live5, Live15, Close5, Close15, Store, vars
<1>5. /\ EngineInv /\ EngineInv' /\ Filtered /\ Filtered'
      /\ Analysed /\ Analysed' /\ [Next]_vars
      => [Closed5' = Closed5 /\ Closed15' = Closed15 => analysis' = analysis]_vars
  BY <1>2, <1>4
<1>. QED BY EngineInvariant, StepAnalysed, <1>1, <1>3, <1>5, PTL
      DEF Spec, LiveIsNoEvidence

\* A signal of the engine has confidence 90 or 100, so the gate never holds it
\* back for the cooldown.
THEOREM NeverThrottledCorrect == Spec => []NeverThrottled
<1>1. Answer(analysis) => NeverThrottled
  BY DEF Answer, NeverThrottled
<1>. QED BY StepAnswers, <1>1, PTL DEF Spec

-----------------------------------------------------------------------------
\* What is derived from the closed candles

LEMMA ClosedCandles ==
    ASSUME EngineInv
    PROVE  /\ Closed5 \in Seq(Bars) /\ Len(Closed5) \in Nat
           /\ DOMAIN Closed5 = 1 .. Len(Closed5)
           /\ \A i \in DOMAIN Closed5 : Ranged(Closed5[i])
           /\ cfg.left \in Nat /\ cfg.right \in Nat
<1>1. Rows(Closed5) /\ Closed5 \in Seq(Bars)
  BY TypeParts
<1>2. \A i \in DOMAIN Closed5 : Ranged(Closed5[i])
  BY <1>1 DEF Rows
<1>. QED BY <1>1, <1>2, ConfigAssumption

LEMMA PivotPrices ==
    ASSUME NEW cs \in Seq(Bars), NEW left, NEW right, NEW p \in PivotSet(cs, left, right)
    PROVE  p.price \in Int /\ p.kind \in {"HIGH", "LOW"} /\ p.index \in DOMAIN cs
<1>1. PICK i \in DOMAIN cs : p = Pivot(cs, i, "HIGH") \/ p = Pivot(cs, i, "LOW")
  BY PivotSetMembers
<1>2. cs[i] \in Bars
  BY ElementOfSeq
<1>3. cs[i].h \in Int /\ cs[i].l \in Int
  BY <1>2 DEF Bars
<1>. QED BY <1>1, <1>3 DEF Pivot

\* In any candles and for any width of the window no pivot counts in two equal
\* levels, and of two pivots of a kind within the tolerance one is in a level.
THEOREM EqualLevelsCorrect == Spec => []EqualLevelsCover
<1>1. ASSUME EngineInv PROVE EqualLevelsCover
  <2>. DEFINE tol    == [num |-> 2, den |-> 1]
              pivots == FindPivots(Closed5, cfg.left, cfg.right)
              P      == PivotSet(Closed5, cfg.left, cfg.right)
  <2>1. pivots \in Seq(P) /\ \A p \in P : p.price \in Int
    BY <1>1, ClosedCandles, FindPivotsMembers, PivotPrices
  <2>2. /\ Len(pivots) \in Nat /\ DOMAIN pivots = 1 .. Len(pivots)
        /\ \A i \in DOMAIN pivots : pivots[i].price \in Int
    <3>. HIDE DEF pivots, P
    <3>1. /\ Len(pivots) \in Nat /\ DOMAIN pivots = 1 .. Len(pivots)
          /\ \A i \in DOMAIN pivots : pivots[i] \in P
      BY <2>1
    <3>. QED BY <2>1, <3>1
  <2>. HIDE DEF pivots, P
  <2>3. ASSUME NEW kind, NEW i \in DOMAIN pivots, NEW j \in DOMAIN pivots,
               i # j, pivots[i].kind = kind, pivots[j].kind = kind,
               Abs(pivots[i].price - pivots[j].price) <= 2
        PROVE  {i, j} \intersect UNION EqualGroups(pivots, kind, tol) # {}
    <3>1. i \in 1 .. Len(pivots) /\ j \in 1 .. Len(pivots) /\ (i < j \/ j < i)
      BY <2>2, <2>3
    <3>2. Near(pivots, kind, tol, i, j) /\ Near(pivots, kind, tol, j, i)
      <4>1. Abs(pivots[j].price - pivots[i].price) = Abs(pivots[i].price - pivots[j].price)
            /\ Abs(pivots[i].price - pivots[j].price) \in Int
        BY <2>2, AbsSwaps DEF Abs
      <4>2. tol.num = 2 /\ tol.den = 1
        OBVIOUS
      <4>. HIDE DEF tol
      <4>. QED BY <2>3, <4>1, <4>2 DEF Near, WithinTolerance, Exceeds
    <3>. HIDE DEF tol
    <3>3. \E g \in EqualGroups(pivots, kind, tol) : i \in g \/ j \in g
      BY <2>2, <3>1, <3>2, NearOnesGrouped
    <3>. QED BY <3>3
  <2>4. ASSUME NEW kind
        PROVE  \A g, h \in EqualGroups(pivots, kind, tol) : g = h \/ g \intersect h = {}
    <3>. HIDE DEF tol
    <3>. QED BY <2>2, GroupsApart
  <2>. QED BY <2>3, <2>4 DEF EqualLevelsCover, pivots
<1>. QED BY EngineInvariant, <1>1, PTL

\* The events there may be: those of pivots that are broken.
Trends == {"NONE", "UP", "DOWN"}
Broken(cs, pivots, buffer) == {i \in DOMAIN pivots : Breaks(cs, pivots[i], buffer) # {}}
Events(cs, pivots, buffer) ==
    {StructureEvent(cs, pivots, i, trend, buffer) :
        i \in Broken(cs, pivots, buffer), trend \in Trends}

LEMMA BrokenHasEvent ==
    ASSUME NEW cs, NEW pivots, NEW buffer, NEW i \in Broken(cs, pivots, buffer),
           NEW trend \in Trends
    PROVE  StructureEvent(cs, pivots, i, trend, buffer) \in Events(cs, pivots, buffer)
BY DEF Events

LEMMA StructureEventsMembers ==
    ASSUME NEW cs, NEW pivots, Len(pivots) \in Nat, DOMAIN pivots = 1 .. Len(pivots),
           NEW buffer
    PROVE  DetectStructure(cs, pivots, buffer) \in Seq(Events(cs, pivots, buffer))
<1>. DEFINE n == Len(pivots)
            E == Events(cs, pivots, buffer)
            V == [trend : Trends, events : Seq(E)]
            start == [trend |-> "NONE", events |-> <<>>]
            After(x, i) ==
                LET trend == InferTrend(x.trend, pivots[i - 1], pivots[i])
                IN  IF Breaks(cs, pivots[i], buffer) = {}
                    THEN [x EXCEPT !.trend = trend]
                    ELSE [trend |-> IF pivots[i].kind = "HIGH" THEN "UP" ELSE "DOWN",
                          events |-> Append(x.events,
                             StructureEvent(cs, pivots, i, trend, buffer))]
            Rule(f) == [i \in DOMAIN pivots |-> IF i = 1 THEN start ELSE After(f[i - 1], i)]
            step == [i \in 1 .. n |-> [x \in V |-> IF i = 1 THEN start ELSE After(x, i)]]
            seen == CHOOSE f : f = Rule(f)
<1>1. DetectStructure(cs, pivots, buffer) = IF n < 2 THEN <<>> ELSE seen[n].events
  BY DEF DetectStructure
<1>2. start \in V
  <2>1. <<>> \in Seq(E)
    BY EmptySeq
  <2>. QED BY <2>1 DEF Trends
<1>3. ASSUME NEW i \in DOMAIN pivots, NEW x \in V PROVE After(x, i) \in V
  <2>. DEFINE trend == InferTrend(x.trend, pivots[i - 1], pivots[i])
              e == StructureEvent(cs, pivots, i, trend, buffer)
  <2>1. trend \in Trends /\ x.events \in Seq(E) /\ x \in [trend : Trends, events : Seq(E)]
    BY DEF InferTrend, Trends
  <2>. HIDE DEF trend
  <2>2. CASE Breaks(cs, pivots[i], buffer) = {}
    <3>1. After(x, i) = [x EXCEPT !.trend = trend]
      BY <2>2 DEF trend
    <3>. HIDE DEF E, After
    <3>. QED BY <2>1, <3>1
  <2>3. CASE Breaks(cs, pivots[i], buffer) # {}
    <3>1. e \in E
      <4>1. i \in Broken(cs, pivots, buffer)
        BY <2>3 DEF Broken
      <4>. QED BY <2>1, <4>1, BrokenHasEvent
    <3>2. After(x, i) = [trend |-> IF pivots[i].kind = "HIGH" THEN "UP" ELSE "DOWN",
                         events |-> Append(x.events, e)]
      BY <2>3 DEF trend
    <3>. HIDE DEF E, After, e
    <3>3. Append(x.events, e) \in Seq(E)
      BY <2>1, <3>1
    <3>. QED BY <3>2, <3>3 DEF Trends
  <2>. QED BY <2>2, <2>3
<1>. HIDE DEF V, start, After
<1>4. \A i \in 1 .. n : \A x \in V : step[i][x] = IF i = 1 THEN start ELSE After(x, i)
  OBVIOUS
<1>5. Stepwise(n, V, start, step)
  <2>1. \A i \in 1 .. n : \A x \in V : step[i][x] \in V
    BY <1>2, <1>3, <1>4
  <2>. HIDE DEF step
  <2>. QED BY <1>2, <2>1 DEF Stepwise
<1>. HIDE DEF step
<1>6. PICK g \in [0 .. n -> V] : g[0] = start /\ \A i \in 1 .. n : g[i] = step[i][g[i - 1]]
  BY <1>5, StepByStep
<1>. DEFINE h == [i \in DOMAIN pivots |-> g[i]]
<1>7. h = Rule(h)
  <2>1. ASSUME NEW i \in 1 .. n PROVE g[i] = IF i = 1 THEN start ELSE After(g[i - 1], i)
    <3>1. g[i - 1] \in V
      BY <1>6
    <3>. QED BY <1>4, <1>6, <3>1
  <2>2. \A i \in 1 .. n : i # 1 => i - 1 \in DOMAIN pivots
    OBVIOUS
  <2>. QED BY <2>1, <2>2
<1>8. seen = Rule(seen)
  BY <1>7
<1>. HIDE DEF seen
<1>9. /\ n >= 1 => seen[1] = start
      /\ \A i \in 1 .. n : i # 1 => seen[i] = After(seen[i - 1], i)
  <2>1. \A i \in 1 .. n : seen[i] = IF i = 1 THEN start ELSE After(seen[i - 1], i)
    BY <1>8
  <2>2. n >= 1 => 1 \in 1 .. n
    OBVIOUS
  <2>. QED BY <2>1, <2>2
<1>. DEFINE B == {i \in 0 .. n : i # 0 => seen[i] \in V}
<1>10. 0 \in B /\ \A i \in 1 .. n : i - 1 \in B => i \in B
  <2>1. ASSUME NEW i \in 1 .. n, i - 1 \in B PROVE seen[i] \in V
    <3>1. CASE i = 1
      BY <1>2, <1>9, <3>1
    <3>2. CASE i # 1
      <4>1. seen[i - 1] \in V
        BY <2>1, <3>2
      <4>. QED BY <1>3, <1>9, <3>2, <4>1
    <3>. QED BY <3>1, <3>2
  <2>. QED BY <2>1
<1>11. \A i \in 0 .. n : i \in B
  <2>. HIDE DEF B
  <2>. QED BY <1>10, UpTo
<1>12. n >= 2 => seen[n].events \in Seq(E)
  <2>1. n >= 2 => seen[n] \in V
    BY <1>11
  <2>. QED BY <2>1 DEF V
<1>13. <<>> \in Seq(E)
  BY EmptySeq
<1>. QED BY <1>1, <1>12, <1>13

\* Every event names a break after its pivot has been confirmed.
LEMMA EventsAreConfirmed ==
    ASSUME NEW cs \in Seq(Bars), NEW left \in Nat, NEW right \in Nat,
           \A i \in DOMAIN cs : Ranged(cs[i]),
           NEW n \in Nat, NEW d \in Nat \ {0},
           NEW e \in ToSet(DetectStructure(cs, FindPivots(cs, left, right),
                                           [num |-> n, den |-> d]))
    PROVE  e.breakIndex > e.pivotIndex + right
<1>. DEFINE P      == PivotSet(cs, left, right)
            pivots == FindPivots(cs, left, right)
            buffer == [num |-> n, den |-> d]
<1>1. pivots \in Seq(P)
  <2>1. Len(cs) \in Nat /\ DOMAIN cs = 1 .. Len(cs)
    OBVIOUS
  <2>. QED BY <2>1, FindPivotsMembers
<1>. HIDE DEF pivots
<1>2. DetectStructure(cs, pivots, buffer) \in Seq(Events(cs, pivots, buffer))
  <2>1. Len(pivots) \in Nat /\ DOMAIN pivots = 1 .. Len(pivots)
    BY <1>1
  <2>. QED BY <2>1, StructureEventsMembers
<1>3. e \in Events(cs, pivots, buffer)
  <2>. DEFINE s == DetectStructure(cs, pivots, buffer)
  <2>1. e \in ToSet(s)
    BY DEF pivots
  <2>. DEFINE E == Events(cs, pivots, buffer)
  <2>2. s \in Seq(E)
    BY <1>2
  <2>. HIDE DEF s, E
  <2>3. PICK k \in DOMAIN s : e = s[k]
    BY <2>1 DEF ToSet
  <2>4. e \in E
    BY <2>2, <2>3
  <2>. QED BY <2>4 DEF E
<1>4. PICK i \in Broken(cs, pivots, buffer), trend \in Trends :
          e = StructureEvent(cs, pivots, i, trend, buffer)
  <2>. HIDE DEF buffer
  <2>. QED BY <1>3 DEF Events
<1>. DEFINE p == pivots[i]
<1>5. p \in P /\ Breaks(cs, p, buffer) # {}
  <2>. HIDE DEF buffer, P
  <2>. QED BY <1>1, <1>4 DEF Broken
<1>6. e.pivotIndex = p.index /\ e.breakIndex = Min(Breaks(cs, p, buffer))
  <2>. HIDE DEF buffer
  <2>. QED BY <1>4 DEF StructureEvent
<1>. HIDE DEF p
<1>7. p.index \in Nat /\ Len(cs) \in Nat
  <2>1. p.index \in DOMAIN cs
    BY <1>5, PivotPrices
  <2>. QED BY <2>1
<1>8. Min(Breaks(cs, p, buffer)) \in Breaks(cs, p, buffer)
  <2>. HIDE DEF buffer
  <2>1. Breaks(cs, p, buffer) \in SUBSET Nat
    BY <1>7 DEF Breaks
  <2>2. \E m \in Breaks(cs, p, buffer) : \A k \in Breaks(cs, p, buffer) : m <= k
    BY <1>5, <2>1, LeastNat
  <2>. QED BY <2>2 DEF Min
<1>9. \A k \in Breaks(cs, p, buffer) : k > p.index + right
  <2>1. \A k \in DOMAIN cs : cs[k].l <= cs[k].c /\ cs[k].c <= cs[k].h
    BY DEF Ranged
  <2>. QED BY <1>5, <2>1, BreaksComeAfterConfirmation
<1>. QED BY <1>6, <1>8, <1>9

\* detectStructure never reports a break from before its pivot was confirmed,
\* for any candles and any widths of the window; it is given all the pivots.
THEOREM BreakCorrect == Spec => []BreakAfterConfirmation
<1>1. ASSUME EngineInv PROVE BreakAfterConfirmation
  <2>1. ToSet(FindPivots(Closed5, cfg.left, cfg.right))
            = PivotSet(Closed5, cfg.left, cfg.right)
    BY <1>1, ClosedCandles, FindPivotsMembers
  <2>2. 0 \in Nat /\ 1 \in Nat \ {0}
    OBVIOUS
  <2>3. ASSUME NEW e \in ToSet(DetectStructure(Closed5,
                              FindPivots(Closed5, cfg.left, cfg.right),
                              [num |-> 0, den |-> 1]))
        PROVE  e.breakIndex > e.pivotIndex + cfg.right
    BY <1>1, <2>2, <2>3, ClosedCandles, EventsAreConfirmed
  <2>. QED BY <2>1, <2>3 DEF BreakAfterConfirmation
<1>. QED BY EngineInvariant, <1>1, PTL

-----------------------------------------------------------------------------
\* Prices

\* Of finitely many numbers one is the greatest and one the least.
LEMMA Extremes ==
    ASSUME NEW n \in Nat, NEW S, S \subseteq 1 .. n, S # {}, NEW f,
           \A i \in S : f[i] \in Int
    PROVE  /\ \E m \in S : \A i \in S : f[i] <= f[m]
           /\ \E m \in S : \A i \in S : f[m] <= f[i]
<1>. DEFINE Great(k, m) == m \in S /\ m <= k /\ \A i \in S : i <= k => f[i] <= f[m]
            Least(k, m) == m \in S /\ m <= k /\ \A i \in S : i <= k => f[m] <= f[i]
            Some(k) == \E i \in S : i <= k
            B == {k \in 0 .. n : Some(k) => (\E m : Great(k, m)) /\ (\E m : Least(k, m))}
<1>1. 0 \in B
  OBVIOUS
<1>2. ASSUME NEW k \in 1 .. n, k - 1 \in B PROVE k \in B
  <2>1. CASE k \notin S
    <3>1. \A i \in S : i <= k <=> i <= k - 1
      BY <2>1
    <3>2. Some(k) => Some(k - 1)
      BY <3>1
    <3>3. \A m : Great(k - 1, m) => Great(k, m)
      BY <3>1
    <3>4. \A m : Least(k - 1, m) => Least(k, m)
      BY <3>1
    <3>. HIDE DEF Great, Least, Some
    <3>. QED BY <1>2, <3>2, <3>3, <3>4
  <2>2. CASE k \in S /\ ~Some(k - 1)
    <3>1. \A i \in S : i <= k => i = k
      BY <2>2
    <3>2. Great(k, k) /\ Least(k, k)
      BY <2>2, <3>1
    <3>. HIDE DEF Great, Least, Some
    <3>. QED BY <3>2
  <2>3. CASE k \in S /\ Some(k - 1)
    <3>1. PICK a : Great(k - 1, a)
      <4>. HIDE DEF Great, Least, Some
      <4>. QED BY <1>2, <2>3
    <3>2. PICK b : Least(k - 1, b)
      <4>. HIDE DEF Great, Least, Some
      <4>. QED BY <1>2, <2>3
    <3>3. f[k] \in Int /\ f[a] \in Int /\ f[b] \in Int /\ \A i \in S : i <= k => i <= k - 1 \/ i = k
      BY <2>3, <3>1, <3>2
    <3>4. Great(k, IF f[a] <= f[k] THEN k ELSE a)
      <4>1. CASE f[a] <= f[k]
        BY <2>3, <3>1, <3>3, <4>1
      <4>2. CASE ~(f[a] <= f[k])
        BY <2>3, <3>1, <3>3, <4>2
      <4>. QED BY <4>1, <4>2
    <3>5. Least(k, IF f[k] <= f[b] THEN k ELSE b)
      <4>1. CASE f[k] <= f[b]
        BY <2>3, <3>2, <3>3, <4>1
      <4>2. CASE ~(f[k] <= f[b])
        BY <2>3, <3>2, <3>3, <4>2
      <4>. QED BY <4>1, <4>2
    <3>. HIDE DEF Great, Least, Some
    <3>. QED BY <3>4, <3>5
  <2>. QED BY <2>1, <2>2, <2>3
<1>3. n \in B
  <2>1. \A k \in 0 .. n : k \in B
    <3>. HIDE DEF B
    <3>. QED BY <1>1, <1>2, UpTo
  <2>. HIDE DEF B
  <2>. QED BY <2>1
<1>4. Some(n) /\ \A i \in S : i <= n
  <2>1. \A i \in S : i <= n
    OBVIOUS
  <2>2. PICK i \in S : TRUE
    OBVIOUS
  <2>. QED BY <2>1, <2>2
<1>5. PICK a, b : Great(n, a) /\ Least(n, b)
  <2>. HIDE DEF Great, Least, Some
  <2>. QED BY <1>3, <1>4
<1>6. \A i \in S : f[i] <= f[a]
  BY <1>4, <1>5
<1>7. \A i \in S : f[b] <= f[i]
  BY <1>4, <1>5
<1>. QED BY <1>5, <1>6, <1>7

LEMMA BarPrices ==
    ASSUME NEW cs \in Seq(Bars), NEW i \in DOMAIN cs
    PROVE  cs[i].h \in Int /\ cs[i].l \in Int /\ cs[i].c \in Int
<1>1. cs[i] \in Bars
  BY ElementOfSeq
<1>. QED BY <1>1 DEF Bars

\* The highest high and the lowest low of some candles.
LEMMA HighestLowest ==
    ASSUME NEW cs \in Seq(Bars), NEW S, S \subseteq DOMAIN cs, S # {}
    PROVE  /\ Max({cs[i].h : i \in S}) \in Int
           /\ Min({cs[i].l : i \in S}) \in Int
<1>. DEFINE hs == [i \in DOMAIN cs |-> cs[i].h]
            ls == [i \in DOMAIN cs |-> cs[i].l]
            H  == {cs[i].h : i \in S}
            L  == {cs[i].l : i \in S}
<1>1. Len(cs) \in Nat /\ S \subseteq 1 .. Len(cs)
  OBVIOUS
<1>2. \A i \in S : hs[i] = cs[i].h /\ ls[i] = cs[i].l /\ cs[i].h \in Int /\ cs[i].l \in Int
  BY BarPrices
<1>. HIDE DEF hs, ls
<1>3. PICK a \in S : \A i \in S : hs[i] <= hs[a]
  <2>1. \A i \in S : hs[i] \in Int
    BY <1>2
  <2>. QED BY <1>1, <2>1, Extremes
<1>4. PICK b \in S : \A i \in S : ls[b] <= ls[i]
  <2>1. \A i \in S : ls[i] \in Int
    BY <1>2
  <2>. QED BY <1>1, <2>1, Extremes
<1>5. \E x \in H : \A y \in H : x >= y
  BY <1>2, <1>3
<1>6. \E x \in L : \A y \in L : x <= y
  BY <1>2, <1>4
<1>7. H \subseteq Int /\ L \subseteq Int
  BY <1>2
<1>. HIDE DEF H, L
<1>8. Max(H) \in Int
  BY <1>5, <1>7 DEF Max
<1>9. Min(L) \in Int
  BY <1>6, <1>7 DEF Min
<1>. QED BY <1>8, <1>9 DEF H, L

LEMMA WindowPrices ==
    ASSUME NEW cs \in Seq(Bars), NEW source, NEW from, NEW to, NEW since,
           NEW atLeast \in Nat \ {0},
           NEW l \in WindowLevels(cs, source, from, to, since, atLeast)
    PROVE  l.price \in Int
<1>. DEFINE inWin == {i \in DOMAIN cs : cs[i].closed /\ cs[i].t >= from /\ cs[i].t < to}
<1>1. /\ ~(Cardinality(inWin) < atLeast)
      /\ \/ l.price = Max({cs[i].h : i \in inWin})
         \/ l.price = Min({cs[i].l : i \in inWin})
  BY DEF WindowLevels
<1>2. inWin # {}
  <2>1. Cardinality({}) = 0
    BY FS_EmptySet
  <2>2. inWin = {} => Cardinality(inWin) < atLeast
    <3>. HIDE DEF inWin
    <3>. QED BY <2>1
  <2>. QED BY <1>1, <2>2
<1>3. inWin \subseteq DOMAIN cs
  OBVIOUS
<1>. HIDE DEF inWin
<1>. QED BY <1>1, <1>2, <1>3, HighestLowest

LEMMA MeanPriceType ==
    ASSUME NEW pivots, Len(pivots) \in Nat, DOMAIN pivots = 1 .. Len(pivots),
           \A i \in DOMAIN pivots : pivots[i].price \in Int,
           NEW kind, NEW tol, NEW g \in EqualGroups(pivots, kind, tol)
    PROVE  MeanPrice(pivots, g) \in Int
<1>. DEFINE n == Len(pivots)
            s == [i \in DOMAIN pivots |-> IF i \in g THEN pivots[i].price ELSE 0]
<1>1. Total(s) \in Int
  <2>1. s \in [1 .. n -> Int]
    OBVIOUS
  <2>2. n \in Nat
    OBVIOUS
  <2>. HIDE DEF s, n
  <2>3. s \in Seq(Int)
    BY <2>1, <2>2
  <2>4. Len(s) \in Nat /\ \A i \in 1 .. Len(s) : s[i] \in Int
    BY <2>3
  <2>. QED BY <2>4, TotalType
<1>2. Cardinality(g) \in Nat \ {0}
  <2>1. PICK k \in Leaders(pivots, kind, tol, n) : g = Group(pivots, kind, tol, k)
    BY DEF EqualGroups
  <2>2. k \in 1 .. n
    BY LeadersAre
  <2>3. g \subseteq 1 .. n
    BY <2>1, <2>2 DEF Group
  <2>4. IsFiniteSet(1 .. n) /\ g \in SUBSET (1 .. n)
    BY <2>3, FS_Interval
  <2>5. IsFiniteSet(g)
    BY <2>4, FS_Subset
  <2>6. Cardinality(g) \in Nat
    BY <2>5, FS_CardinalityType
  <2>7. Cardinality(g) >= 2
    BY DEF EqualGroups
  <2>. QED BY <2>6, <2>7
<1>3. MeanPrice(pivots, g) = Total(s) \div Cardinality(g)
  BY DEF MeanPrice
<1>. HIDE DEF s
<1>4. \A x \in Int : \A y \in Nat \ {0} : x \div y \in Int
  OBVIOUS
<1>. QED BY <1>1, <1>2, <1>3, <1>4

LEMMA LevelPrices ==
    ASSUME NEW cs \in Seq(Bars), NEW atrNow, NEW clock,
           NEW l \in Levels(cs, atrNow, clock)
    PROVE  l.price \in Int
<1>. DEFINE P      == PivotSet(cs, cfg.left, cfg.right)
            pivots == FindPivots(cs, cfg.left, cfg.right)
            tol    == Share(cfg.tolerance, atrNow)
<1>1. \/ l \in PivotsToLiquidity(pivots, tol, clock)
      \/ l \in PrevDayWeekLevels(cs, (clock \div Day) * Day, Day,
                                 (clock \div Week) * Week, Week)
      \/ l \in SessionLevels(cs, Sessions, (clock \div Day) * Day)
  BY DEF Levels
<1>2. pivots \in Seq(P) /\ \A p \in P : p.price \in Int
  <2>1. Len(cs) \in Nat /\ DOMAIN cs = 1 .. Len(cs)
    OBVIOUS
  <2>. QED BY <2>1, FindPivotsMembers, PivotPrices
<1>. HIDE DEF pivots, P, tol
<1>3. /\ Len(pivots) \in Nat /\ DOMAIN pivots = 1 .. Len(pivots)
      /\ \A i \in DOMAIN pivots : pivots[i].price \in Int
  <2>1. /\ Len(pivots) \in Nat /\ DOMAIN pivots = 1 .. Len(pivots)
        /\ \A i \in DOMAIN pivots : pivots[i] \in P
    BY <1>2
  <2>. QED BY <1>2, <2>1
<1>4. CASE l \in PivotsToLiquidity(pivots, tol, clock)
  <2>1. \/ \E p \in ToSet(pivots) : l.price = p.price
        \/ \E side \in {"HIGH", "LOW"} : \E g \in EqualGroups(pivots, side, tol) :
              l.price = MeanPrice(pivots, g)
    BY <1>4 DEF PivotsToLiquidity
  <2>2. \A p \in ToSet(pivots) : p.price \in Int
    BY <1>3 DEF ToSet
  <2>3. \A side \in {"HIGH", "LOW"} : \A g \in EqualGroups(pivots, side, tol) :
           MeanPrice(pivots, g) \in Int
    BY <1>3, MeanPriceType
  <2>. QED BY <2>1, <2>2, <2>3
<1>5. CASE l \in PrevDayWeekLevels(cs, (clock \div Day) * Day, Day,
                                   (clock \div Week) * Week, Week)
  <2>1. \E source, from, to, since : l \in WindowLevels(cs, source, from, to, since, 1)
    BY <1>5 DEF PrevDayWeekLevels
  <2>. QED BY <2>1, WindowPrices
<1>6. CASE l \in SessionLevels(cs, Sessions, (clock \div Day) * Day)
  <2>1. \E source, from, to, since : l \in WindowLevels(cs, source, from, to, since, 2)
    BY <1>6 DEF SessionLevels
  <2>. QED BY <2>1, WindowPrices
<1>. QED BY <1>1, <1>4, <1>5, <1>6

-----------------------------------------------------------------------------
\* True ranges and their average

LEMMA TrueRangeType ==
    ASSUME NEW cs \in Seq(Bars), NEW i \in DOMAIN cs, NEW j \in DOMAIN cs
    PROVE  TrueRange(cs[i], cs[j]) \in Nat
<1>. DEFINE a == cs[i].h - cs[i].l
            b == Abs(cs[i].h - cs[j].c)
            c == Abs(cs[i].l - cs[j].c)
<1>1. a \in Int /\ b \in Nat /\ c \in Nat
  <2>1. /\ cs[i].h \in Int /\ cs[i].l \in Int /\ cs[j].c \in Int
    BY BarPrices
  <2>2. \A x, y \in Int : Abs(x - y) \in Nat /\ x - y \in Int
    BY DEF Abs
  <2>. QED BY <2>1, <2>2
<1>2. TrueRange(cs[i], cs[j]) = Max({a, b, c})
  BY DEF TrueRange
<1>. HIDE DEF a, b, c
<1>3. \E x \in {a, b, c} : \A y \in {a, b, c} : x >= y
  BY <1>1
<1>4. Max({a, b, c}) \in {a, b, c} /\ Max({a, b, c}) >= b
  BY <1>3 DEF Max
<1>. QED BY <1>1, <1>2, <1>4

\* An ATR is a fraction that is not negative.
Fractions == [num : Nat, den : Nat \ {0}]

LEMMA WilderType ==
    ASSUME NEW x \in Fractions, NEW period \in Nat \ {0}, NEW term \in Nat
    PROVE  Wilder(x, period, term) \in Fractions
<1>. DEFINE n == x.num
            d == x.den
<1>1. n \in Nat /\ d \in Nat \ {0}
  BY DEF Fractions
<1>2. Wilder(x, period, term) = [num |-> n * (period - 1) + term * d, den |-> d * period]
  BY DEF Wilder
<1>. HIDE DEF n, d
<1>3. \A p, q \in Nat : p * q \in Nat
  OBVIOUS
<1>4. n * (period - 1) \in Nat /\ term * d \in Nat
  BY <1>1, <1>3
<1>5. \A p, q \in Nat \ {0} : p * q \in Nat \ {0}
  <2>1. SUFFICES ASSUME NEW p \in Nat \ {0}, NEW q \in Nat \ {0} PROVE p * q > 0 /\ p * q \in Nat
    OBVIOUS
  <2>2. p * q >= q
    BY SMTT(30)
  <2>. QED BY <2>2, <1>3
<1>6. d * period \in Nat \ {0}
  BY <1>1, <1>5
<1>. QED BY <1>2, <1>4, <1>6 DEF Fractions

LEMMA AtrType ==
    ASSUME NEW cs \in Seq(Bars), NEW period \in Nat \ {0}, Len(cs) > period
    PROVE  \A i \in period + 1 .. Len(cs) : Atr(cs, period)[i] \in Fractions
<1>. DEFINE n == Len(cs)
            m == n - period
            V == Fractions
            Term(i) == TrueRange(cs[i], cs[i - 1])
            ranges == [k \in 1 .. period |-> Term(k + 1)]
            start == [num |-> Total(ranges), den |-> period]
            After(x, i) == Wilder(x, period, Term(i))
            Rule(f) == [i \in period + 1 .. n |->
                           IF i = period + 1 THEN start ELSE After(f[i - 1], i)]
            step == [k \in 1 .. m |-> [x \in V |->
                        IF k = 1 THEN start ELSE After(x, k + period)]]
            atr == CHOOSE f : f = Rule(f)
<1>1. Atr(cs, period) = atr
  BY DEF Atr
<1>2. n \in Nat /\ m \in Nat /\ m >= 1 /\ n = m + period /\ DOMAIN cs = 1 .. n
  OBVIOUS
<1>3. \A i \in 2 .. n : Term(i) \in Nat
  <2>1. \A i \in 2 .. n : i \in DOMAIN cs /\ i - 1 \in DOMAIN cs
    BY <1>2
  <2>. QED BY <2>1, TrueRangeType
<1>. HIDE DEF n, m, Term
<1>4. start \in V
  <2>1. ranges \in [1 .. period -> Nat]
    BY <1>2, <1>3
  <2>. HIDE DEF ranges
  <2>2. ranges \in Seq(Nat)
    BY <2>1
  <2>3. /\ Len(ranges) \in Nat /\ \A i \in 1 .. Len(ranges) : ranges[i] \in Nat
        /\ \A i \in 1 .. Len(ranges) : ranges[i] \in Int
    BY <2>2
  <2>4. Total(ranges) \in Nat
    BY <2>3, TotalType
  <2>. QED BY <2>4 DEF Fractions
<1>5. ASSUME NEW i \in 2 .. n, NEW x \in V PROVE After(x, i) \in V
  BY <1>3, <1>5, WilderType
<1>. HIDE DEF V, start, After
<1>6. \A k \in 1 .. m : \A x \in V :
         step[k][x] = IF k = 1 THEN start ELSE After(x, k + period)
  OBVIOUS
<1>7. Stepwise(m, V, start, step)
  <2>1. \A k \in 1 .. m : k # 1 => k + period \in 2 .. n
    BY <1>2
  <2>2. \A k \in 1 .. m : \A x \in V : step[k][x] \in V
    BY <1>4, <1>5, <1>6, <2>1
  <2>. HIDE DEF step
  <2>. QED BY <1>2, <1>4, <2>2 DEF Stepwise
<1>. HIDE DEF step
<1>8. PICK g \in [0 .. m -> V] : g[0] = start /\ \A k \in 1 .. m : g[k] = step[k][g[k - 1]]
  BY <1>7, StepByStep
<1>. DEFINE h == [i \in period + 1 .. n |-> g[i - period]]
<1>9. h = Rule(h)
  <2>1. ASSUME NEW k \in 1 .. m
        PROVE  g[k] = IF k = 1 THEN start ELSE After(g[k - 1], k + period)
    <3>1. g[k - 1] \in V
      BY <1>2, <1>8
    <3>. QED BY <1>6, <1>8, <3>1
  <2>2. ASSUME NEW i \in period + 1 .. n
        PROVE  h[i] = IF i = period + 1 THEN start ELSE After(h[i - 1], i)
    <3>1. i - period \in 1 .. m /\ (i - period) + period = i
          /\ (i - period = 1 <=> i = period + 1)
      BY <1>2
    <3>2. h[i] = g[i - period]
      OBVIOUS
    <3>3. i # period + 1 => h[i - 1] = g[(i - period) - 1]
      <4>1. i # period + 1 => i - 1 \in period + 1 .. n /\ (i - 1) - period = (i - period) - 1
        BY <1>2
      <4>. QED BY <4>1
    <3>. HIDE DEF h
    <3>. QED BY <2>1, <3>1, <3>2, <3>3
  <2>. QED BY <2>2
<1>10. atr = Rule(atr)
  BY <1>9
<1>. HIDE DEF atr
<1>11. \A i \in period + 1 .. n :
          atr[i] = IF i = period + 1 THEN start ELSE After(atr[i - 1], i)
  BY <1>10
<1>. DEFINE B == {k \in 0 .. m : k # 0 => atr[k + period] \in V}
<1>12. ASSUME NEW k \in 1 .. m, k - 1 \in B PROVE k \in B
  <2>1. k + period \in period + 1 .. n /\ (k + period = period + 1 <=> k = 1)
        /\ (k # 1 => k + period \in 2 .. n)
        /\ (k + period) - 1 = (k - 1) + period
    BY <1>2
  <2>2. k # 1 => atr[(k - 1) + period] \in V
    BY <1>12
  <2>3. atr[k + period] \in V
    BY <1>4, <1>5, <1>11, <2>1, <2>2
  <2>. QED BY <2>3
<1>13. \A k \in 0 .. m : k \in B
  <2>1. 0 \in B
    BY <1>2
  <2>. HIDE DEF B
  <2>. QED BY <1>2, <1>12, <2>1, UpTo
<1>14. ASSUME NEW i \in period + 1 .. n PROVE atr[i] \in V
  <2>1. i - period \in 0 .. m /\ i - period # 0 /\ (i - period) + period = i
    BY <1>2
  <2>. QED BY <1>13, <2>1
<1>. QED BY <1>1, <1>14 DEF V, n

\* The room that the stop leaves is not negative.
LEMMA RoomType ==
    ASSUME NEW x \in Fractions, NEW share \in Nat
    PROVE  Floor(Share(share, x)) \in Nat
<1>. DEFINE a == share * x.num
            b == 100 * x.den
<1>1. a \in Nat /\ b \in Nat \ {0}
  <2>1. x.num \in Nat /\ x.den \in Nat \ {0}
    BY DEF Fractions
  <2>2. \A p, q \in Nat : p * q \in Nat
    OBVIOUS
  <2>. QED BY <2>1, <2>2
<1>2. Floor(Share(share, x)) = a \div b
  BY DEF Floor, Share
<1>. HIDE DEF a, b
<1>3. \A p \in Nat : \A q \in Nat \ {0} : p \div q \in Nat
  OBVIOUS
<1>. QED BY <1>1, <1>2, <1>3

-----------------------------------------------------------------------------
\* The entry zone

Sign(dir) == IF dir = "LONG" THEN 1 ELSE -1

\* An open gap has a height, and the last candle has not come back to it.
LEMMA GapsOpen ==
    ASSUME NEW cs \in Seq(Bars), \A i \in DOMAIN cs : cs[i].closed, NEW size,
           NEW z \in {f \in DetectFvgs(cs, size) : ~f.mitigated}
    PROVE  /\ z.low \in Int /\ z.high \in Int /\ z.low <= z.high
           /\ z.at \in Nat
           /\ z.direction = "BULLISH" => z.high <= cs[Len(cs)].l
           /\ z.direction = "BEARISH" => z.low >= cs[Len(cs)].h
<1>. DEFINE n == Len(cs)
<1>1. n \in Nat /\ DOMAIN cs = 1 .. n
  OBVIOUS
<1>. HIDE DEF n
<1>2. PICK i \in 2 .. n - 1 : \E g \in Gap(cs, i, size) :
          z = [direction |-> g.direction, low |-> g.low, high |-> g.high, at |-> i,
               mitigated |-> \E k \in i + 2 .. n : TradesBack(cs[k], g)]
  BY <1>1 DEF DetectFvgs, n
<1>gap. PICK g \in Gap(cs, i, size) :
          z = [direction |-> g.direction, low |-> g.low, high |-> g.high, at |-> i,
               mitigated |-> \E k \in i + 2 .. n : TradesBack(cs[k], g)]
  BY <1>2
<1>3. /\ z.direction = g.direction /\ z.low = g.low /\ z.high = g.high /\ z.at = i
      /\ ~\E k \in i + 2 .. n : TradesBack(cs[k], g)
  <2>1. ~z.mitigated
    OBVIOUS
  <2>. QED BY <1>gap, <2>1
<1>4. i - 1 \in DOMAIN cs /\ i + 1 \in DOMAIN cs /\ n \in DOMAIN cs /\ i \in Nat
  BY <1>1
<1>5. /\ cs[i - 1].h \in Int /\ cs[i - 1].l \in Int
      /\ cs[i + 1].h \in Int /\ cs[i + 1].l \in Int
      /\ cs[n].h \in Int /\ cs[n].l \in Int
  BY <1>4, BarPrices
<1>6. /\ g.high > g.low
      /\ \/ g = [direction |-> "BULLISH", low |-> cs[i - 1].h, high |-> cs[i + 1].l]
         \/ g = [direction |-> "BEARISH", low |-> cs[i + 1].h, high |-> cs[i - 1].l]
  BY DEF Gap
<1>7. i + 1 # n => n \in i + 2 .. n
  BY <1>1
<1>8. CASE g = [direction |-> "BULLISH", low |-> cs[i - 1].h, high |-> cs[i + 1].l]
  <2>1. /\ g.direction = "BULLISH" /\ g.low = cs[i - 1].h /\ g.high = cs[i + 1].l
    BY <1>8
  <2>2. g.high <= cs[n].l
    <3>1. CASE i + 1 = n
      BY <1>5, <2>1, <3>1
    <3>2. CASE i + 1 # n
      <4>1. ~TradesBack(cs[n], g) /\ cs[n].closed
        BY <1>3, <1>4, <1>7, <3>2
      <4>. QED BY <1>5, <2>1, <4>1 DEF TradesBack
    <3>. QED BY <3>1, <3>2
  <2>. QED BY <1>3, <1>4, <1>5, <1>6, <2>1, <2>2 DEF n
<1>9. CASE g = [direction |-> "BEARISH", low |-> cs[i + 1].h, high |-> cs[i - 1].l]
  <2>1. /\ g.direction = "BEARISH" /\ g.low = cs[i + 1].h /\ g.high = cs[i - 1].l
    BY <1>9
  <2>2. g.low >= cs[n].h
    <3>1. CASE i + 1 = n
      BY <1>5, <2>1, <3>1
    <3>2. CASE i + 1 # n
      <4>1. ~TradesBack(cs[n], g) /\ cs[n].closed
        BY <1>3, <1>4, <1>7, <3>2
      <4>. QED BY <1>5, <2>1, <4>1 DEF TradesBack
    <3>. QED BY <3>1, <3>2
  <2>. QED BY <1>3, <1>4, <1>5, <1>6, <2>1, <2>2 DEF n
<1>. QED BY <1>6, <1>8, <1>9

\* An order block is a candle.
LEMMA BlocksAreBars ==
    ASSUME NEW cs \in Seq(Bars), \A i \in DOMAIN cs : Ranged(cs[i]), NEW atrs,
           NEW z \in DetectOrderBlocks(cs, Displacements(cs, atrs))
    PROVE  /\ z.low \in Int /\ z.high \in Int /\ z.low <= z.high
           /\ z.from \in Nat
           /\ "mitigated" \notin DOMAIN z
<1>1. PICK d \in Displacements(cs, atrs) :
          /\ OppositesBefore(cs, d) # {}
          /\ z = [direction |-> IF IsBullish(cs[d]) THEN "BULLISH" ELSE "BEARISH",
                  low |-> cs[Max(OppositesBefore(cs, d))].l,
                  high |-> cs[Max(OppositesBefore(cs, d))].h,
                  at |-> Max(OppositesBefore(cs, d)), from |-> d]
  BY DEF DetectOrderBlocks
<1>. DEFINE O == OppositesBefore(cs, d)
            j == Max(O)
<1>2. d \in DOMAIN cs /\ d \in Nat
  BY DEF Displacements
<1>3. O \subseteq 1 .. Len(cs) /\ Len(cs) \in Nat
  BY DEF OppositesBefore
<1>4. j \in O
  <2>. DEFINE same == [i \in 1 .. Len(cs) |-> i]
  <2>1. \A i \in O : same[i] = i /\ same[i] \in Int
    BY <1>3
  <2>. HIDE DEF same, O
  <2>2. \E m \in O : \A i \in O : same[i] <= same[m]
    BY <1>1, <1>3, <2>1, Extremes DEF O
  <2>3. \E m \in O : \A i \in O : m >= i
    BY <1>3, <2>1, <2>2
  <2>. QED BY <2>3 DEF Max
<1>5. z = [direction |-> IF IsBullish(cs[d]) THEN "BULLISH" ELSE "BEARISH",
           low |-> cs[j].l, high |-> cs[j].h, at |-> j, from |-> d]
  BY <1>1
<1>. HIDE DEF O, j
<1>6. j \in DOMAIN cs
  BY <1>3, <1>4
<1>7. /\ cs[j].h \in Int /\ cs[j].l \in Int /\ cs[j].c \in Int /\ Ranged(cs[j])
  BY <1>6, BarPrices
<1>8. DOMAIN z = {"direction", "low", "high", "at", "from"}
  BY <1>5
<1>. QED BY <1>2, <1>5, <1>7, <1>8 DEF Ranged

\* find takes a zone of the signal's direction.
LEMMA EntryZoneIs ==
    ASSUME NEW e, NEW dir, ZoneOk(e, dir),
           \A z \in e.fvgs : z.at \in Nat,
           \A z \in e.obs : z.from \in Nat
    PROVE  LET z == EntryZone(e, dir)
           IN  z.direction = Side(dir) /\ (z \in e.fvgs \/ z \in e.obs)
<1>. DEFINE F == Matching(e.fvgs, dir)
            O == Matching(e.obs, dir)
<1>1. /\ \A z \in F : z \in e.fvgs /\ z.direction = Side(dir) /\ z.at \in Nat
      /\ \A z \in O : z \in e.obs /\ z.direction = Side(dir) /\ z.from \in Nat
  BY DEF Matching
<1>2. F # {} \/ O # {}
  BY DEF ZoneOk
<1>. HIDE DEF F, O
<1>3. F # {} => \E z \in F : \A x \in F : z.at <= x.at
  <2>. DEFINE A == {z.at : z \in F}
  <2>1. F # {} => A # {} /\ A \in SUBSET Nat
    BY <1>1
  <2>2. F # {} => \E m \in A : \A a \in A : m <= a
    <3>. HIDE DEF A
    <3>. QED BY <2>1, LeastNat
  <2>. QED BY <2>2
<1>4. O # {} => \E z \in O : \A x \in O : z.from <= x.from
  <2>. DEFINE A == {z.from : z \in O}
  <2>1. O # {} => A # {} /\ A \in SUBSET Nat
    BY <1>1
  <2>2. O # {} => \E m \in A : \A a \in A : m <= a
    <3>. HIDE DEF A
    <3>. QED BY <2>1, LeastNat
  <2>. QED BY <2>2
<1>5. CASE F # {}
  <2>1. EntryZone(e, dir) = CHOOSE z \in F : \A x \in F : z.at <= x.at
    BY <1>5 DEF EntryZone, First, F
  <2>2. EntryZone(e, dir) \in F
    BY <1>3, <1>5, <2>1
  <2>. QED BY <1>1, <2>2
<1>6. CASE F = {}
  <2>1. EntryZone(e, dir) = CHOOSE z \in O : \A x \in O : z.from <= x.from
    BY <1>6 DEF EntryZone, F, O
  <2>2. EntryZone(e, dir) \in O
    BY <1>2, <1>4, <1>6, <2>1
  <2>. QED BY <1>1, <2>2
<1>. QED BY <1>5, <1>6

-----------------------------------------------------------------------------
\* The targets

\* Levels beyond the entry and the price, on the signal's side.
Beyond(levels, dir, entry, price) ==
    \A l \in levels : /\ l.price \in Int
                      /\ Sign(dir) * (l.price - entry) > 0
                      /\ Sign(dir) * (l.price - price) > 0

LEMMA NearestIs ==
    ASSUME NEW dir \in {"LONG", "SHORT"}, NEW entry \in Int, NEW price \in Int,
           NEW levels, Beyond(levels, dir, entry, price), levels # {}
    PROVE  /\ Nearest(levels, dir) \in levels
           /\ \A x \in levels : Sign(dir) * (x.price - Nearest(levels, dir).price) >= 0
<1>. DEFINE D == {Sign(dir) * (l.price - entry) : l \in levels}
<1>1. \A l \in levels : l.price \in Int /\ Sign(dir) * (l.price - entry) > 0
  BY DEF Beyond
<1>2. D \in SUBSET Nat /\ D # {}
  BY <1>1 DEF Sign
<1>3. \E m \in D : \A d \in D : m <= d
  <2>. HIDE DEF D
  <2>. QED BY <1>2, LeastNat
<1>4. PICK l \in levels : \A x \in levels :
         Sign(dir) * (l.price - entry) <= Sign(dir) * (x.price - entry)
  BY <1>3
<1>5. \A x \in levels, y \in levels :
         (Sign(dir) * (y.price - entry) <= Sign(dir) * (x.price - entry)
             <=> ~Nearer(dir, x, y))
         /\ (~Nearer(dir, x, y) <=> Sign(dir) * (x.price - y.price) >= 0)
  BY <1>1 DEF Nearer, Sign
<1>6. \A x \in levels : ~Nearer(dir, x, l)
  BY <1>4, <1>5
<1>7. /\ Nearest(levels, dir) \in levels
      /\ \A x \in levels : ~Nearer(dir, x, Nearest(levels, dir))
  BY <1>6 DEF Nearest
<1>. QED BY <1>5, <1>7

\* What the plan promises of its targets.
TargetsOk(tps, dir, entry, price, opposing) ==
    /\ \A i, j \in DOMAIN tps :
          i < j => Sign(dir) * (tps[j].price - tps[i].price) >= 0
    /\ Total([i \in DOMAIN tps |-> tps[i].part]) <= 100
    /\ opposing => \A i \in DOMAIN tps :
          /\ Sign(dir) * (tps[i].price - entry) > 0
          /\ Sign(dir) * (tps[i].price - price) > 0

\* 25, 25 and 50, or fewer of them, or everything at once.
LEMMA PartsSum ==
    ASSUME NEW s \in Seq(Int), Len(s) \in 1 .. 3,
           \/ Len(s) = 1 /\ s[1] <= 100
           \/ \A i \in DOMAIN s : s[i] = IF i = 3 THEN 50 ELSE 25
    PROVE  Total(s) <= 100
<1>. DEFINE n == Len(s)
<1>1. /\ n \in Nat /\ DOMAIN s = 1 .. n /\ \A i \in 1 .. n : s[i] \in Int
      /\ n = 1 \/ n = 2 \/ n = 3
  OBVIOUS
<1>2. PICK f : /\ f \in [0 .. n -> Int] /\ f[0] = 0
               /\ \A i \in 1 .. n : f[i] = f[i - 1] + s[i]
               /\ Total(s) = f[n]
  BY <1>1, TotalSteps
<1>3. f[1] = s[1] /\ s[1] \in Int
  BY <1>1, <1>2
<1>4. n >= 2 => f[2] = f[1] + s[2] /\ s[2] \in Int
  BY <1>1, <1>2
<1>5. n >= 3 => f[3] = f[2] + s[3] /\ s[3] \in Int
  BY <1>1, <1>2
<1>6. CASE n = 1
  <2>1. s[1] <= 100
    BY <1>1, <1>6
  <2>. QED BY <1>2, <1>3, <1>6, <2>1
<1>7. CASE n = 2
  <2>1. s[1] = 25 /\ s[2] = 25
    BY <1>1, <1>7
  <2>. QED BY <1>2, <1>3, <1>4, <1>7, <2>1
<1>8. CASE n = 3
  <2>1. s[1] = 25 /\ s[2] = 25 /\ s[3] = 50
    BY <1>1, <1>8
  <2>. QED BY <1>2, <1>3, <1>4, <1>5, <1>8, <2>1
<1>. QED BY <1>1, <1>6, <1>7, <1>8

LEMMA TargetsHold ==
    ASSUME NEW e, NEW dir \in {"LONG", "SHORT"}, NEW entry \in Int, e.price \in Int,
           \A l \in e.levels : l.price \in Int
    PROVE  TargetsOk(TakeProfits(e, dir, entry), dir, entry, e.price,
                     Opposing(e, dir, entry) # {})
<1>. DEFINE O == Opposing(e, dir, entry)
            Drop(x) == {l \in x : l # Nearest(x, dir)}
            Rule(f) == [i \in 1 .. 3 |-> IF i = 1 THEN O ELSE Drop(f[i - 1])]
            left == CHOOSE f : f = Rule(f)
            found == Cardinality({i \in 1 .. 3 : left[i] # {}})
            Part(i) == IF i = 3 THEN 50 ELSE 25
            tps == TakeProfits(e, dir, entry)
            price == e.price
<1>1. tps = IF found = 0
            THEN <<[price |-> IF dir = "LONG" THEN e.range.high ELSE e.range.low,
                    part |-> 100]>>
            ELSE [i \in 1 .. found |->
                    [price |-> Nearest(left[i], dir).price, part |-> Part(i)]]
  BY DEF TakeProfits
<1>2. Beyond(O, dir, entry, price)
  BY DEF Beyond, Opposing, Sign
<1>3. price \in Int
  OBVIOUS
<1>. HIDE DEF O, tps, price
<1>4. /\ left[1] = O /\ left[2] = Drop(left[1]) /\ left[3] = Drop(left[2])
  <2>. DEFINE h == [i \in 1 .. 3 |-> IF i = 1 THEN O
                                     ELSE IF i = 2 THEN Drop(O) ELSE Drop(Drop(O))]
  <2>. HIDE DEF Drop
  <2>1. h[1] = O /\ h[2] = Drop(O) /\ h[3] = Drop(Drop(O))
    OBVIOUS
  <2>2. h = Rule(h)
    <3>1. ASSUME NEW i \in 1 .. 3 PROVE h[i] = IF i = 1 THEN O ELSE Drop(h[i - 1])
      <4>1. i = 1 \/ i = 2 \/ i = 3
        OBVIOUS
      <4>2. 2 - 1 = 1 /\ 3 - 1 = 2
        OBVIOUS
      <4>. HIDE DEF h
      <4>. QED BY <2>1, <4>1, <4>2
    <3>. QED BY <3>1
  <2>3. left = Rule(left)
    BY <2>2
  <2>. HIDE DEF left
  <2>4. \A i \in 1 .. 3 : left[i] = IF i = 1 THEN O ELSE Drop(left[i - 1])
    BY <2>3
  <2>5. 1 \in 1 .. 3 /\ 2 \in 1 .. 3 /\ 3 \in 1 .. 3 /\ 2 - 1 = 1 /\ 3 - 1 = 2
    OBVIOUS
  <2>. QED BY <2>4, <2>5
<1>. HIDE DEF left
<1>5. left[3] \subseteq left[2] /\ left[2] \subseteq left[1] /\ left[1] = O
  BY <1>4
<1>6. \A i \in 1 .. 3 : Beyond(left[i], dir, entry, price)
  <2>1. \A i \in 1 .. 3 : left[i] \subseteq O
    <3>1. \A i \in 1 .. 3 : i = 1 \/ i = 2 \/ i = 3
      OBVIOUS
    <3>. QED BY <1>5, <3>1
  <2>. QED BY <1>2, <2>1 DEF Beyond
<1>. HIDE DEF Drop
<1>7. found \in 0 .. 3 /\ \A i \in 1 .. 3 : left[i] # {} <=> i <= found
  <2>. DEFINE F == {i \in 1 .. 3 : left[i] # {}}
  <2>1. F = 1 .. 0 \/ F = 1 .. 1 \/ F = 1 .. 2 \/ F = 1 .. 3
    <3>1. CASE left[1] = {}
      <4>1. left[2] = {} /\ left[3] = {}
        BY <1>5, <3>1
      <4>2. F = 1 .. 0
        <5>1. \A i \in 1 .. 3 : i = 1 \/ i = 2 \/ i = 3
          OBVIOUS
        <5>. QED BY <3>1, <4>1, <5>1
      <4>. QED BY <4>2
    <3>2. CASE left[1] # {} /\ left[2] = {}
      <4>1. left[3] = {}
        BY <1>5, <3>2
      <4>2. F = 1 .. 1
        BY <3>2, <4>1
      <4>. QED BY <4>2
    <3>3. CASE left[2] # {} /\ left[3] = {}
      <4>1. left[1] # {}
        BY <1>5, <3>3
      <4>2. F = 1 .. 2
        BY <3>3, <4>1
      <4>. QED BY <4>2
    <3>4. CASE left[3] # {}
      <4>1. left[1] # {} /\ left[2] # {}
        BY <1>5, <3>4
      <4>2. F = 1 .. 3
        BY <3>4, <4>1
      <4>. QED BY <4>2
    <3>. QED BY <3>1, <3>2, <3>3, <3>4
  <2>2. ASSUME NEW k \in 0 .. 3 PROVE Cardinality(1 .. k) = k
    <3>1. 1 \in Int /\ k \in Int /\ (1 > k => k = 0) /\ k - 1 + 1 = k
      OBVIOUS
    <3>. QED BY <3>1, FS_Interval
  <2>3. PICK k \in 0 .. 3 : F = 1 .. k
    BY <2>1
  <2>4. found = k
    BY <2>2, <2>3
  <2>5. \A i \in 1 .. 3 : left[i] # {} <=> i \in F
    OBVIOUS
  <2>. HIDE DEF F, found
  <2>. QED BY <2>3, <2>4, <2>5
<1>. HIDE DEF found
<1>8. CASE found = 0
  <2>. DEFINE x == IF dir = "LONG" THEN e.range.high ELSE e.range.low
  <2>1. tps = <<[price |-> x, part |-> 100]>>
    BY <1>1, <1>8
  <2>. HIDE DEF x
  <2>2. O = {}
    BY <1>5, <1>7, <1>8
  <2>3. DOMAIN tps = 1 .. 1 /\ tps[1].part = 100
    BY <2>1
  <2>4. Total([i \in DOMAIN tps |-> tps[i].part]) <= 100
    <3>. DEFINE s == [i \in DOMAIN tps |-> tps[i].part]
    <3>1. s \in [1 .. 1 -> Int] /\ s[1] = 100
      BY <2>3
    <3>. HIDE DEF s
    <3>2. s \in Seq(Int) /\ Len(s) = 1
      <4>1. \A n \in Nat : s \in [1 .. n -> Int] => s \in Seq(Int) /\ Len(s) = n
        OBVIOUS
      <4>. QED BY <3>1, <4>1
    <3>3. Total(s) <= 100
      BY <3>1, <3>2, PartsSum
    <3>. QED BY <3>3 DEF s
  <2>. QED BY <2>2, <2>3, <2>4 DEF TargetsOk, O, tps
<1>9. CASE found # 0
  <2>1. tps = [i \in 1 .. found |->
                  [price |-> Nearest(left[i], dir).price, part |-> Part(i)]]
    BY <1>1, <1>9
  <2>2. /\ DOMAIN tps = 1 .. found /\ found \in 1 .. 3
        /\ \A i \in 1 .. found : /\ tps[i].price = Nearest(left[i], dir).price
                                 /\ tps[i].part = Part(i)
    BY <1>7, <1>9, <2>1
  <2>3. ASSUME NEW i \in 1 .. found
        PROVE  /\ Nearest(left[i], dir) \in left[i]
               /\ \A x \in left[i] : Sign(dir) * (x.price - Nearest(left[i], dir).price) >= 0
    <3>1. i \in 1 .. 3 /\ left[i] # {}
      BY <1>7
    <3>. QED BY <1>3, <1>6, <3>1, NearestIs
  <2>4. ASSUME NEW i \in DOMAIN tps, NEW j \in DOMAIN tps, i < j
        PROVE  Sign(dir) * (tps[j].price - tps[i].price) >= 0
    <3>1. i \in 1 .. found /\ j \in 1 .. found /\ i \in 1 .. 3 /\ j \in 1 .. 3
      BY <2>2
    <3>2. left[j] \subseteq left[i]
      <4>1. (i = 1 /\ j = 2) \/ (i = 1 /\ j = 3) \/ (i = 2 /\ j = 3)
        BY <2>4, <3>1
      <4>. QED BY <1>5, <4>1
    <3>. QED BY <2>2, <2>3, <3>1, <3>2
  <2>5. ASSUME NEW i \in DOMAIN tps
        PROVE  /\ Sign(dir) * (tps[i].price - entry) > 0
               /\ Sign(dir) * (tps[i].price - price) > 0
    <3>1. i \in 1 .. found /\ i \in 1 .. 3
      BY <2>2
    <3>. QED BY <1>6, <2>2, <2>3, <3>1 DEF Beyond
  <2>6. Total([i \in DOMAIN tps |-> tps[i].part]) <= 100
    <3>. DEFINE s == [i \in DOMAIN tps |-> tps[i].part]
    <3>1. s \in [1 .. found -> Int] /\ \A i \in 1 .. found : s[i] = IF i = 3 THEN 50 ELSE 25
      BY <2>2
    <3>. HIDE DEF s
    <3>2. s \in Seq(Int) /\ Len(s) = found
      BY <2>2, <3>1
    <3>3. Total(s) <= 100
      <4>1. \A i \in DOMAIN s : s[i] = IF i = 3 THEN 50 ELSE 25
        BY <3>1
      <4>. QED BY <2>2, <3>2, <4>1, PartsSum
    <3>. QED BY <3>3 DEF s
  <2>. QED BY <2>4, <2>5, <2>6 DEF TargetsOk, tps, price
<1>. QED BY <1>8, <1>9

-----------------------------------------------------------------------------
\* The plan

\* What PlanHangsTogether asks of a signal, given the last closed M5 bar and
\* the current price.
PlanOk(a, last, price) ==
    LET sign == Sign(a.direction)
    IN  /\ sign * (a.entry - a.stop) > 0
        /\ \A x \in {a.zone.low, a.zone.high} : sign * (x - a.stop) >= 0
        /\ "mitigated" \in DOMAIN a.zone =>
              IF sign = 1 THEN a.zone.high <= last.l ELSE a.zone.low >= last.h
        /\ TargetsOk(a.tps, a.direction, a.entry, price, a.opposing)

\* What the evidence is made of, as far as the plan depends on it.
Sound(e, last) ==
    /\ e.price \in Int /\ e.slRoom \in Nat
    /\ \A l \in e.levels : l.price \in Int
    /\ \A z \in e.fvgs : /\ z.low \in Int /\ z.high \in Int /\ z.low <= z.high
                         /\ z.at \in Nat
                         /\ z.direction = "BULLISH" => z.high <= last.l
                         /\ z.direction = "BEARISH" => z.low >= last.h
    /\ \A z \in e.obs : /\ z.low \in Int /\ z.high \in Int /\ z.low <= z.high
                        /\ z.from \in Nat
                        /\ "mitigated" \notin DOMAIN z

LEMMA SetupHolds ==
    ASSUME NEW e, NEW c15, NEW c5, NEW dir \in {"LONG", "SHORT"}, NEW last,
           Sound(e, last), ChecksPass(e, c15, c5, dir),
           Setup(e, c15, c5, dir).found
    PROVE  Setup(e, c15, c5, dir).direction = dir
           /\ PlanOk(Setup(e, c15, c5, dir), last, e.price)
<1>. DEFINE a     == Setup(e, c15, c5, dir)
            zone  == EntryZone(e, dir)
            entry == (zone.low + zone.high) \div 2
            stop  == StopLoss(zone, dir, e.slRoom)
            tps   == TakeProfits(e, dir, entry)
            opp   == Opposing(e, dir, entry)
            conf  == Confidence(e, c15, c5, dir)
<1>1. /\ a = [found |-> TRUE, direction |-> dir, zone |-> zone, entry |-> entry,
              stop |-> stop, tps |-> tps, confidence |-> conf, opposing |-> opp # {}]
      /\ ~(Abs(entry - stop) <= 0)
  BY DEF Setup, No
<1>2. zone.direction = Side(dir) /\ (zone \in e.fvgs \/ zone \in e.obs)
  <2>1. ZoneOk(e, dir)
    BY DEF ChecksPass
  <2>2. (\A z \in e.fvgs : z.at \in Nat) /\ (\A z \in e.obs : z.from \in Nat)
    BY DEF Sound
  <2>. QED BY <2>1, <2>2, EntryZoneIs
<1>3. e.price \in Int /\ e.slRoom \in Nat /\ \A l \in e.levels : l.price \in Int
  BY DEF Sound
<1>. HIDE DEF zone
<1>4. zone.low \in Int /\ zone.high \in Int /\ zone.low <= zone.high
  BY <1>2 DEF Sound
<1>5. /\ entry \in Int /\ zone.low <= entry /\ entry <= zone.high
  <2>1. \A x, y \in Int : x <= y => (x + y) \div 2 \in Int
                                     /\ x <= (x + y) \div 2 /\ (x + y) \div 2 <= y
    OBVIOUS
  <2>. QED BY <1>4, <2>1
<1>. HIDE DEF entry
<1>6. stop \in Int /\ stop = IF dir = "LONG" THEN zone.low - e.slRoom
                                             ELSE zone.high + e.slRoom
  BY <1>3, <1>4 DEF StopLoss
<1>. HIDE DEF stop
<1>7. /\ Sign(dir) * (entry - stop) > 0
      /\ Sign(dir) * (zone.low - stop) >= 0 /\ Sign(dir) * (zone.high - stop) >= 0
  <2>1. entry # stop
    BY <1>1, <1>5, <1>6 DEF Abs
  <2>. QED BY <1>3, <1>4, <1>5, <1>6, <2>1 DEF Sign
<1>8. "mitigated" \in DOMAIN zone =>
          IF Sign(dir) = 1 THEN zone.high <= last.l ELSE zone.low >= last.h
  <2>1. CASE zone \in e.fvgs
    BY <1>2, <2>1 DEF Sound, Side, Sign
  <2>2. CASE zone \in e.obs
    BY <2>2 DEF Sound
  <2>. QED BY <1>2, <2>1, <2>2
<1>9. TargetsOk(tps, dir, entry, e.price, opp # {})
  BY <1>3, <1>5, TargetsHold
<1>. HIDE DEF tps, opp, conf, a
<1>10. /\ a.direction = dir /\ a.zone = zone /\ a.entry = entry /\ a.stop = stop
       /\ a.tps = tps /\ a.opposing = (opp # {})
  BY <1>1
<1>11. PlanOk(a, last, e.price)
  BY <1>7, <1>8, <1>9, <1>10 DEF PlanOk
<1>. QED BY <1>10, <1>11 DEF a

\* Closed candles, as many as the two ATR values need.
Ready(cs) == /\ cs \in Seq(Bars) /\ Len(cs) > cfg.atrPeriod
             /\ \A i \in DOMAIN cs : cs[i].closed /\ Ranged(cs[i])

LEMMA EvidenceIsSound ==
    ASSUME NEW c15, NEW c5, Ready(c15), Ready(c5), NEW clock
    PROVE  /\ Sound(Evidence(c15, c5, clock), c5[Len(c5)])
           /\ Evidence(c15, c5, clock).price = c15[Len(c15)].c
<1>. DEFINE e      == Evidence(c15, c5, clock)
            atrs15 == Atr(c15, cfg.atrPeriod)
            atrs5  == Atr(c5, cfg.atrPeriod)
            atr15  == atrs15[Len(c15)]
            atr5   == atrs5[Len(c5)]
<1>1. /\ e.price = c15[Len(c15)].c
      /\ e.levels = Levels(c15, atr15, clock)
      /\ e.fvgs = {f \in DetectFvgs(c5, Share(cfg.minFvg, atr5)) : ~f.mitigated}
      /\ e.obs = DetectOrderBlocks(c15, Displacements(c15, atrs15))
      /\ e.slRoom = Floor(Share(cfg.slBuffer, atr5))
  BY DEF Evidence
<1>2. /\ c15 \in Seq(Bars) /\ Len(c15) > cfg.atrPeriod
      /\ c5 \in Seq(Bars) /\ Len(c5) > cfg.atrPeriod
      /\ \A i \in DOMAIN c5 : c5[i].closed
      /\ \A i \in DOMAIN c15 : Ranged(c15[i])
      /\ cfg.atrPeriod \in Nat \ {0} /\ cfg.slBuffer \in Nat
  BY ConfigAssumption DEF Ready
<1>3. e.price \in Int
  <2>1. Len(c15) \in DOMAIN c15
    BY <1>2
  <2>. QED BY <1>1, <1>2, <2>1, BarPrices
<1>4. e.slRoom \in Nat
  <2>1. Len(c5) \in cfg.atrPeriod + 1 .. Len(c5)
    BY <1>2
  <2>2. atr5 \in Fractions
    BY <1>2, <2>1, AtrType
  <2>. HIDE DEF atr5
  <2>. QED BY <1>1, <1>2, <2>2, RoomType
<1>. HIDE DEF e, atr15, atr5, atrs15
<1>5. \A l \in e.levels : l.price \in Int
  BY <1>1, <1>2, LevelPrices
<1>6. ASSUME NEW z \in e.fvgs
      PROVE  /\ z.low \in Int /\ z.high \in Int /\ z.low <= z.high
             /\ z.at \in Nat
             /\ z.direction = "BULLISH" => z.high <= c5[Len(c5)].l
             /\ z.direction = "BEARISH" => z.low >= c5[Len(c5)].h
  BY <1>1, <1>2, GapsOpen
<1>7. ASSUME NEW z \in e.obs
      PROVE  /\ z.low \in Int /\ z.high \in Int /\ z.low <= z.high
             /\ z.from \in Nat /\ "mitigated" \notin DOMAIN z
  BY <1>1, <1>2, BlocksAreBars
<1>8. Sound(e, c5[Len(c5)])
  BY <1>3, <1>4, <1>5, <1>6, <1>7 DEF Sound
<1>. QED BY <1>1, <1>8 DEF e

LEMMA FoundHangsTogether ==
    ASSUME NEW rows15, NEW rows5, NEW clock, NEW c15, NEW c5,
           c15 = ClosedOnly(rows15), c5 = ClosedOnly(rows5),
           c15 \in Seq(Bars), c5 \in Seq(Bars),
           \A i \in DOMAIN c15 : c15[i].closed /\ Ranged(c15[i]),
           \A i \in DOMAIN c5 : c5[i].closed /\ Ranged(c5[i]),
           Analyze(rows15, rows5, clock).found
    PROVE  /\ Analyze(rows15, rows5, clock).direction \in {"LONG", "SHORT"}
           /\ PlanOk(Analyze(rows15, rows5, clock), c5[Len(c5)], c15[Len(c15)].c)
<1>. DEFINE e   == Evidence(c15, c5, clock)
            dir == Direction(e)
            a   == Analyze(rows15, rows5, clock)
<1>1. dir \in {"LONG", "SHORT", "NONE"}
  BY DEF Direction
<1>2. \A why : ~No(why).found
  BY DEF No
<1>3. a = IF Len(c15) < MinM15 \/ Len(c5) < MinM5 THEN No("insufficient_candles")
          ELSE IF Len(c15) <= cfg.atrPeriod \/ Len(c5) <= cfg.atrPeriod
             THEN No("atr_not_ready")
          ELSE IF dir = "NONE" THEN No("no_model")
          ELSE IF ~ChecksPass(e, c15, c5, dir) THEN No("failed_checks")
          ELSE Setup(e, c15, c5, dir)
  BY DEF Analyze, Confirmed
<1>. HIDE DEF e, dir, a
<1>4. a.found
  BY DEF a
<1>5. /\ ~(Len(c15) <= cfg.atrPeriod) /\ ~(Len(c5) <= cfg.atrPeriod)
      /\ dir # "NONE" /\ ChecksPass(e, c15, c5, dir)
      /\ a = Setup(e, c15, c5, dir)
  BY <1>2, <1>3, <1>4
<1>6. Len(c15) > cfg.atrPeriod /\ Len(c5) > cfg.atrPeriod
  <2>1. Len(c15) \in Nat /\ Len(c5) \in Nat /\ cfg.atrPeriod \in Nat
    BY ConfigAssumption
  <2>. QED BY <1>5, <2>1
<1>7. Ready(c15) /\ Ready(c5)
  BY <1>6 DEF Ready
<1>8. Sound(e, c5[Len(c5)]) /\ e.price = c15[Len(c15)].c
  BY <1>7, EvidenceIsSound DEF e
<1>9. dir \in {"LONG", "SHORT"}
  BY <1>1, <1>5
<1>10. a.direction = dir /\ PlanOk(a, c5[Len(c5)], e.price)
  BY <1>4, <1>5, <1>8, <1>9, SetupHolds
<1>. QED BY <1>8, <1>9, <1>10 DEF a

\* The plan of every signal hangs together, for every configuration and
\* whatever the candles have done: the stop protects, the targets are in order.
THEOREM PlanCorrect == Spec => []PlanHangsTogether
<1>1. ASSUME EngineInv, Analysed, analysis.found PROVE PlanHangsTogether
  <2>. DEFINE last  == Closed5[Len(Closed5)]
              price == Closed15[Len(Closed15)].c
  <2>1. /\ Closed5 = ClosedOnly(m5) /\ Closed15 = ClosedOnly(m15)
        /\ Closed5 \in Seq(Bars) /\ Closed15 \in Seq(Bars)
        /\ Rows(Closed5) /\ Rows(Closed15)
        /\ \A i \in DOMAIN Closed5 : Closed5[i].closed
        /\ \A i \in DOMAIN Closed15 : Closed15[i].closed
    BY <1>1, TypeParts, SettledIsFiltered DEF Filtered
  <2>2. /\ \A i \in DOMAIN Closed5 : Closed5[i].closed /\ Ranged(Closed5[i])
        /\ \A i \in DOMAIN Closed15 : Closed15[i].closed /\ Ranged(Closed15[i])
    BY <2>1 DEF Rows
  <2>3. Analyze(m15, m5, now).found
    BY <1>1 DEF Analysed
  <2>4. /\ Analyze(m15, m5, now).direction \in {"LONG", "SHORT"}
        /\ PlanOk(Analyze(m15, m5, now), last, price)
    BY <2>1, <2>2, <2>3, FoundHangsTogether
  <2>5. analysis.direction \in {"LONG", "SHORT"} /\ PlanOk(analysis, last, price)
    BY <1>1, <2>4 DEF Analysed
  <2>. QED BY <2>5 DEF PlanOk, TargetsOk, Sign, PlanHangsTogether
<1>2. EngineInv /\ Analysed => PlanHangsTogether
  BY <1>1 DEF PlanHangsTogether
<1>. QED BY EngineInvariant, StepAnalysed, <1>2, PTL DEF Spec

-----------------------------------------------------------------------------
\* The models (LlmAnalysis): the price they are held to and what they cost

\* A setup is within reach of the price that was read, if there was one.
InReach(setup, read, range) ==
    Quote(read) > 0 /\ setup.entry # setup.stop
        => ~Exceeds(Abs(setup.entry - Quote(read)), Share(150, range))

\* The run, by where it is.
RunOk ==
    /\ run.pc \in {"idle", "load", "tick", "ask", "verdict", "gate"}
    /\ run.pc = "ask" =>
          /\ run = [pc |-> "ask", model |-> run.model, read |-> run.read,
                    price |-> run.price, range |-> run.range]
          /\ run.model \in 1 .. Models
          /\ (Quote(run.read) > 0 => run.price = Quote(run.read))
    /\ run.pc = "verdict" =>
          /\ DOMAIN run = {"pc", "setup", "llm", "read", "range"}
          /\ InReach(run.setup, run.read, run.range)
    /\ run.pc = "gate" /\ run.llm =>
          InReach(run.setup, run.read, run.range)

Reached == \A i \in DOMAIN signals :
    signals[i].llm => InReach(signals[i].setup, signals[i].read, signals[i].range)

\* The executions that a job may begin, and those it has begun: everyone ends
\* in a failed attempt, a stall, or the completion of the job.
Budget == MaxAttempts + MaxStalls
Begun(j) == jobs[j].attempts + jobs[j].stalled
            + (IF jobs[j].state \in {"active", "completed"} THEN 1 ELSE 0)

JobOk(j) ==
    /\ jobs[j] \in [state : {"new", "waiting", "active", "delayed", "completed", "failed"},
                    attempts : Nat, stalled : Nat]
    /\ jobs[j].state = "new" => jobs[j].attempts = 0 /\ jobs[j].stalled = 0
    /\ IF jobs[j].state = "failed"
       THEN jobs[j].attempts + jobs[j].stalled <= Budget
       ELSE jobs[j].attempts < MaxAttempts /\ jobs[j].stalled <= MaxStalls
JobsOk == DOMAIN jobs = Jobs /\ \A j \in Jobs : JobOk(j)

CheckPcs == {"ask", "done", "AGREE", "DISAGREE", "NEUTRAL"}
ChecksOk == /\ checks \in Seq([pc : CheckPcs, model : Nat])
            /\ \A i \in DOMAIN checks :
                  checks[i].pc = "ask" => checks[i].model \in 1 .. Models

\* What is paid for, execution by execution, and the requests still to come: of
\* the verifications and of the run.
Executions == {x \in Jobs \X (1 .. Budget) : x[2] <= Begun(x[1])}
Open == {x \in (DOMAIN checks) \X (1 .. Models) :
            checks[x[1]].pc = "ask" /\ checks[x[1]].model <= x[2]}
Left == IF run.pc = "ask" THEN Models - run.model + 1
        ELSE IF run.pc \in {"load", "tick"} THEN Models ELSE 0

-----------------------------------------------------------------------------
\* How a run goes on

LEMMA RunTypes ==
    /\ LlmInit => RunOk
    /\ RunOk /\ [LlmNext]_llmVars => RunOk'
<1>1. LlmInit => RunOk
  BY DEF LlmInit, RunOk, IdleRun
<1>2. ASSUME RunOk, UNCHANGED run PROVE RunOk'
  BY <1>2 DEF RunOk
<1>3. ASSUME run' = IdleRun PROVE RunOk'
  BY <1>3 DEF RunOk, IdleRun
<1>4. ASSUME NEW j \in Jobs, Take(j) PROVE RunOk'
  BY <1>4 DEF Take, RunOk
<1>5. ASSUME RunOk, RunStep PROVE RunOk'
  <2>1. ASSUME Return \/ Throw PROVE RunOk'
    BY <1>3, <2>1 DEF Return, Throw
  <2>2. ASSUME NEW s \in Setups, EngineFinds(s) PROVE RunOk'
    BY <2>2 DEF EngineFinds, Continue, RunOk
  <2>3. ASSUME EngineFindsNothing PROVE RunOk'
    BY <2>3 DEF EngineFindsNothing, Continue, RunOk
  <2>4. ASSUME NEW row \in Ticks \union {NoTick}, ReadTick(row) PROVE RunOk'
    <3>1. CASE Models = 0
      BY <2>1, <2>4, <3>1 DEF ReadTick
    <3>2. CASE Models # 0
      <4>1. run' = [pc |-> "ask", model |-> 1, read |-> row,
                    price |-> LivePrice(row, run.m15), range |-> MeanRange(run.m15)]
        BY <2>4, <3>2 DEF ReadTick, Continue
      <4>2. 1 \in 1 .. Models
        BY <3>2, JobAssumption
      <4>3. Quote(row) > 0 => LivePrice(row, run.m15) = Quote(row)
        BY DEF LivePrice, Quote, NoTick
      <4>. HIDE DEF LivePrice, MeanRange
      <4>. QED BY <4>1, <4>2, <4>3 DEF RunOk
    <3>. QED BY <3>1, <3>2
  <2>5. ASSUME ModelFails PROVE RunOk'
    <3>1. CASE NextModel(run.model) <= Models
      <4>1. /\ run = [pc |-> "ask", model |-> run.model, read |-> run.read,
                      price |-> run.price, range |-> run.range]
            /\ run.model \in 1 .. Models
            /\ (Quote(run.read) > 0 => run.price = Quote(run.read))
        BY <1>5, <2>5 DEF RunOk, ModelFails, Asks, At
      <4>2. run' = [run EXCEPT !.model = NextModel(@)]
        BY <2>5, <3>1 DEF ModelFails, Continue
      <4>3. run' = [pc |-> "ask", model |-> NextModel(run.model), read |-> run.read,
                    price |-> run.price, range |-> run.range]
        BY <4>1, <4>2
      <4>4. NextModel(run.model) \in 1 .. Models
        BY <3>1, <4>1, JobAssumption DEF NextModel
      <4>. QED BY <4>1, <4>3, <4>4 DEF RunOk
    <3>2. CASE ~(NextModel(run.model) <= Models)
      BY <2>1, <2>5, <3>2 DEF ModelFails
    <3>. QED BY <3>1, <3>2
  <2>6. ASSUME NEW a \in Answers, ModelAnswers(a) PROVE RunOk'
    <3>1. ASSUME NEW s, ModelFinds(s) PROVE RunOk'
      <4>1. (Quote(run.read) > 0 => run.price = Quote(run.read))
        BY <1>5, <3>1 DEF RunOk, ModelFinds, Asks, At
      <4>2. ~OutOfReach(s, run.price, run.range)
        BY <3>1 DEF ModelFinds
      <4>3. InReach(s, run.read, run.range)
        BY <4>1, <4>2 DEF InReach, OutOfReach
      <4>4. run' = [pc |-> "verdict", setup |-> s, llm |-> TRUE,
                    read |-> run.read, range |-> run.range]
        BY <3>1 DEF ModelFinds, Continue
      <4>. QED BY <4>3, <4>4 DEF RunOk
    <3>. QED BY <2>1, <2>6, <3>1
          DEF ModelAnswers, ModelBabbles, ModelSaysNone, VerdictFails, Rejected, Incomplete
  <2>7. ASSUME SetVerdict PROVE RunOk'
    <3>1. /\ DOMAIN run = {"pc", "setup", "llm", "read", "range"}
          /\ InReach(run.setup, run.read, run.range)
      BY <1>5, <2>7 DEF RunOk, SetVerdict, At
    <3>2. run' = [run EXCEPT !.pc = "gate"]
      BY <2>7 DEF SetVerdict, Continue
    <3>3. /\ run'.pc = "gate" /\ run'.setup = run.setup
          /\ run'.read = run.read /\ run'.range = run.range
      BY <3>1, <3>2
    <3>. QED BY <3>1, <3>3 DEF RunOk
  <2>8. ASSUME SkipClosed \/ SkipFew \/ GateDrops \/ Create \/ Fails PROVE RunOk'
    BY <2>1, <2>8 DEF SkipClosed, SkipFew, GateDrops, Create, Fails
  <2>. QED BY <1>5, <2>2, <2>3, <2>4, <2>5, <2>6, <2>7, <2>8 DEF RunStep
<1>6. ASSUME NEW i, Verify(i) PROVE UNCHANGED run
  BY <1>6 DEF Verify, CheckFails, CheckBabbles, WriteInsight, CheckAnswers, CheckTo
<1>7. ASSUME WorkerDies PROVE RunOk'
  BY <1>3, <1>7 DEF WorkerDies
<1>8. ASSUME NEW j \in Jobs, Schedule(j) \/ Retry(j) PROVE UNCHANGED run
  BY <1>8 DEF Schedule, Retry
<1>. QED BY <1>1, <1>2, <1>4, <1>5, <1>6, <1>7, <1>8 DEF LlmNext, llmVars

-----------------------------------------------------------------------------
\* What has been created

LEMMA LlmAppendKeeps ==
    ASSUME NEW s, s \in Seq(ToSet(s)), NEW x
    PROVE  /\ Append(s, x) \in Seq(ToSet(Append(s, x)))
           /\ Len(s) \in Nat /\ DOMAIN s = 1 .. Len(s)
           /\ Len(Append(s, x)) = Len(s) + 1
           /\ DOMAIN Append(s, x) = 1 .. Len(s) + 1
           /\ Append(s, x)[Len(s) + 1] = x
           /\ \A i \in 1 .. Len(s) : Append(s, x)[i] = s[i]
<1>. DEFINE S == ToSet(s) \union {x}
            t == Append(s, x)
<1>1. s \in Seq(S) /\ x \in S
  <2>1. ToSet(s) \subseteq S /\ x \in S
    OBVIOUS
  <2>. HIDE DEF S
  <2>2. \A i \in 1 .. Len(s) : s[i] \in S
    BY <2>1
  <2>. QED BY <2>1, <2>2
<1>. HIDE DEF S
<1>2. /\ Len(s) \in Nat /\ DOMAIN s = 1 .. Len(s)
      /\ t \in Seq(S) /\ Len(t) = Len(s) + 1 /\ DOMAIN t = 1 .. Len(s) + 1
      /\ t[Len(s) + 1] = x /\ \A i \in 1 .. Len(s) : t[i] = s[i]
  BY <1>1
<1>. HIDE DEF t
<1>3. t \in Seq(ToSet(t))
  <2>1. \A i \in 1 .. Len(t) : t[i] \in ToSet(t)
    BY <1>2 DEF ToSet
  <2>2. Len(t) \in Nat /\ t = [i \in 1 .. Len(t) |-> t[i]]
    BY <1>2
  <2>3. \A T : (\A i \in 1 .. Len(t) : t[i] \in T) => t \in Seq(T)
    BY <2>2
  <2>. QED BY <2>1, <2>3
<1>. QED BY <1>2, <1>3 DEF t

RowFields == {"setup", "llm", "read", "range", "insight", "verified"}

CreatedOk ==
    /\ signals \in Seq(ToSet(signals))
    /\ \A i \in DOMAIN signals :
          /\ DOMAIN signals[i] = RowFields
          /\ signals[i].llm =>
                InReach(signals[i].setup, signals[i].read, signals[i].range)

\* The signals stay, or one more is created, or one has its insight written.
LEMMA StepCreates ==
    ASSUME [LlmNext]_llmVars
    PROVE  \/ UNCHANGED signals
           \/ Create
           \/ \E i \in DOMAIN checks : WriteInsight(i)
<1>1. ASSUME NEW j \in Jobs, Schedule(j) \/ Take(j) \/ Retry(j) PROVE UNCHANGED signals
  BY <1>1 DEF Schedule, Take, Retry
<1>2. ASSUME RunStep, ~Create PROVE UNCHANGED signals
  <2>1. Unasked \/ Asks => UNCHANGED signals
    BY DEF Unasked, Asks
  <2>. QED BY <1>2, <2>1
        DEF RunStep, SkipClosed, SkipFew, EngineFinds, EngineFindsNothing, ReadTick,
            ModelFails, ModelAnswers, ModelBabbles, ModelSaysNone, VerdictFails,
            Rejected, Incomplete, ModelFinds, SetVerdict, GateDrops, Fails
<1>3. ASSUME NEW i \in DOMAIN checks, Verify(i), ~WriteInsight(i) PROVE UNCHANGED signals
  BY <1>3 DEF Verify, CheckFails, CheckBabbles, CheckAnswers, CheckAsks
<1>4. WorkerDies \/ UNCHANGED llmVars => UNCHANGED signals
  BY DEF WorkerDies, llmVars
<1>. QED BY <1>1, <1>2, <1>3, <1>4 DEF LlmNext

LEMMA CreatedStep ==
    /\ LlmInit => CreatedOk
    /\ RunOk /\ CreatedOk /\ [LlmNext]_llmVars => CreatedOk'
<1>1. LlmInit => CreatedOk
  BY DEF LlmInit, CreatedOk
<1>2. ASSUME CreatedOk, UNCHANGED signals PROVE CreatedOk'
  BY <1>2 DEF CreatedOk
<1>3. ASSUME RunOk, CreatedOk, Create PROVE CreatedOk'
  <2>1. signals' = Append(signals, Row)
    BY <1>3 DEF Create
  <2>2. DOMAIN Row = RowFields
    BY DEF Row, RowFields
  <2>3. Row.llm => InReach(Row.setup, Row.read, Row.range)
    <3>1. run.llm => InReach(run.setup, run.read, run.range)
      BY <1>3 DEF RunOk, Create, At
    <3>2. run.llm => /\ Row.setup = run.setup /\ Row.read = run.read
                     /\ Row.range = run.range
      BY DEF Row
    <3>3. Row.llm => run.llm
      BY DEF Row
    <3>. QED BY <3>1, <3>2, <3>3
  <2>. DEFINE row == Row
  <2>4. /\ signals' = Append(signals, row) /\ DOMAIN row = RowFields
        /\ row.llm => InReach(row.setup, row.read, row.range)
    BY <2>1, <2>2, <2>3
  <2>. HIDE DEF row
  <2>5. /\ signals' \in Seq(ToSet(signals'))
        /\ Len(signals) \in Nat /\ DOMAIN signals = 1 .. Len(signals)
        /\ DOMAIN signals' = 1 .. Len(signals) + 1
        /\ signals'[Len(signals) + 1] = row
        /\ \A i \in 1 .. Len(signals) : signals'[i] = signals[i]
    BY <1>3, <2>4, LlmAppendKeeps DEF CreatedOk
  <2>6. ASSUME NEW i \in DOMAIN signals'
        PROVE  /\ DOMAIN signals'[i] = RowFields
               /\ signals'[i].llm =>
                    InReach(signals'[i].setup, signals'[i].read, signals'[i].range)
    <3>1. CASE i = Len(signals) + 1
      BY <2>4, <2>5, <3>1
    <3>2. CASE i \in 1 .. Len(signals)
      BY <1>3, <2>5, <3>2 DEF CreatedOk
    <3>. QED BY <2>5, <3>1, <3>2
  <2>. QED BY <2>5, <2>6 DEF CreatedOk
<1>4. ASSUME CreatedOk, NEW i \in DOMAIN checks, WriteInsight(i) PROVE CreatedOk'
  <2>1. CASE UNCHANGED signals
    BY <1>2, <1>4, <2>1
  <2>2. CASE signals' # signals
    <3>. DEFINE x == [signals[i] EXCEPT !.insight = checks[i].pc,
                                        !.verified = checks[i].pc = "AGREE"]
    <3>1. signals' = [signals EXCEPT ![i].insight = checks[i].pc,
                                     ![i].verified = checks[i].pc = "AGREE"]
      BY <1>4, <2>2 DEF WriteInsight
    <3>2. /\ DOMAIN signals' = DOMAIN signals
          /\ \A k \in DOMAIN signals : k # i => signals'[k] = signals[k]
      BY <3>1
    <3>3. i \in DOMAIN signals =>
             /\ DOMAIN signals'[i] = DOMAIN signals[i]
             /\ \A f \in DOMAIN signals[i] \ {"insight", "verified"} :
                   signals'[i][f] = signals[i][f]
      BY <3>1
    <3>4. signals' \in Seq(ToSet(signals'))
      <4>1. /\ Len(signals) \in Nat
            /\ \A f : f = [k \in 1 .. Len(signals) |-> f[k]] => f \in Seq(ToSet(f))
        <5>1. Len(signals) \in Nat
          BY <1>4 DEF CreatedOk
        <5>2. ASSUME NEW n \in Nat, NEW f, f = [k \in 1 .. n |-> f[k]]
              PROVE  f \in Seq(ToSet(f))
          <6>1. \A k \in 1 .. n : f[k] \in ToSet(f)
            BY <5>2 DEF ToSet
          <6>2. \A T : (\A k \in 1 .. n : f[k] \in T) => f \in Seq(T)
            BY <5>2
          <6>. QED BY <6>1, <6>2
        <5>. QED BY <5>1, <5>2
      <4>2. signals' = [k \in 1 .. Len(signals) |-> signals'[k]]
        <5>1. DOMAIN signals = 1 .. Len(signals)
          BY <1>4 DEF CreatedOk
        <5>2. signals' = [k \in DOMAIN signals |-> signals'[k]]
          BY <3>1
        <5>. QED BY <5>1, <5>2
      <4>. QED BY <4>1, <4>2
    <3>5. ASSUME NEW k \in DOMAIN signals'
          PROVE  /\ DOMAIN signals'[k] = RowFields
                 /\ signals'[k].llm =>
                      InReach(signals'[k].setup, signals'[k].read, signals'[k].range)
      <4>1. /\ DOMAIN signals[k] = RowFields
            /\ signals[k].llm =>
                 InReach(signals[k].setup, signals[k].read, signals[k].range)
        BY <1>4, <3>2 DEF CreatedOk
      <4>2. CASE k = i
        <5>1. /\ signals'[k].setup = signals[k].setup /\ signals'[k].llm = signals[k].llm
              /\ signals'[k].read = signals[k].read
              /\ signals'[k].range = signals[k].range
              /\ DOMAIN signals'[k] = RowFields
          BY <3>2, <3>3, <4>1, <4>2 DEF RowFields
        <5>. QED BY <4>1, <5>1
      <4>3. CASE k # i
        BY <3>2, <4>1, <4>3
      <4>. QED BY <4>2, <4>3
    <3>. QED BY <3>4, <3>5 DEF CreatedOk
  <2>. QED BY <2>1, <2>2
<1>. QED BY <1>1, <1>2, <1>3, <1>4, StepCreates

\* For any market, any ticks and any answers of the models: a signal of a model
\* was within reach of the tick that was read before the first was asked.
THEOREM NearCorrect == LlmSpec => []NearTheTickRead
<1>1. CreatedOk => NearTheTickRead
  BY DEF CreatedOk, NearTheTickRead, InReach
<1>. QED BY RunTypes, CreatedStep, <1>1, PTL DEF LlmSpec

-----------------------------------------------------------------------------
\* What the models cost

SameBegun == \A j \in Jobs : Begun(j)' = Begun(j)

LEMMA BegunType ==
    ASSUME JobsOk, NEW j \in Jobs
    PROVE  /\ Budget \in Nat /\ Begun(j) \in Nat /\ Begun(j) <= Budget
           /\ jobs[j].state = "waiting" => Begun(j) + 1 <= Budget
           /\ jobs[j].state = "new" => Begun(j) = 0
<1>. DEFINE s == jobs[j].state
            a == jobs[j].attempts
            d == jobs[j].stalled
<1>1. /\ s \in {"new", "waiting", "active", "delayed", "completed", "failed"}
      /\ a \in Nat /\ d \in Nat
      /\ s = "new" => a = 0 /\ d = 0
      /\ IF s = "failed" THEN a + d <= MaxAttempts + MaxStalls
         ELSE a < MaxAttempts /\ d <= MaxStalls
  BY DEF JobsOk, JobOk, Budget
<1>2. Begun(j) = a + d + (IF s \in {"active", "completed"} THEN 1 ELSE 0)
  BY DEF Begun
<1>3. MaxAttempts \in Nat /\ MaxStalls \in Nat
  BY JobAssumption
<1>. HIDE DEF s, a, d
<1>4. Begun(j) \in Nat /\ Begun(j) <= MaxAttempts + MaxStalls
      /\ (s = "waiting" => Begun(j) + 1 <= MaxAttempts + MaxStalls)
      /\ (s = "new" => Begun(j) = 0)
  BY <1>1, <1>2, <1>3
<1>. QED BY <1>3, <1>4 DEF Budget, s

\* A job that was j becomes r.
Becomes(j, r) == /\ DOMAIN jobs' = DOMAIN jobs
                 /\ jobs'[j] = r
                 /\ \A k \in Jobs \ {j} : jobs'[k] = jobs[k]

LEMMA BecomesOk ==
    ASSUME JobsOk, NEW j \in Jobs, NEW r, Becomes(j, r),
           r \in [state : {"new", "waiting", "active", "delayed", "completed", "failed"},
                  attempts : Nat, stalled : Nat],
           r.state # "new",
           IF r.state = "failed" THEN r.attempts + r.stalled <= Budget
           ELSE r.attempts < MaxAttempts /\ r.stalled <= MaxStalls
    PROVE  JobsOk'
<1>1. DOMAIN jobs' = Jobs
  BY DEF JobsOk, Becomes
<1>2. JobOk(j)'
  BY DEF Becomes, JobOk, Budget
<1>3. ASSUME NEW k \in Jobs, k # j PROVE JobOk(k)'
  BY <1>3 DEF Becomes, JobsOk, JobOk, Budget
<1>. QED BY <1>1, <1>2, <1>3 DEF JobsOk

LEMMA MoveBecomes ==
    ASSUME JobsOk, NEW j \in Jobs, NEW state, Move(j, state)
    PROVE  Becomes(j, [state |-> state, attempts |-> jobs[j].attempts,
                       stalled |-> jobs[j].stalled])
<1>1. /\ DOMAIN jobs = Jobs
      /\ jobs[j] \in [state : {"new", "waiting", "active", "delayed", "completed", "failed"},
                      attempts : Nat, stalled : Nat]
  BY DEF JobsOk, JobOk
<1>2. jobs' = [jobs EXCEPT ![j].state = state]
  BY DEF Move
<1>. QED BY <1>1, <1>2 DEF Becomes

LEMMA BegunBecomes ==
    ASSUME JobsOk, NEW j \in Jobs, NEW r, Becomes(j, r)
    PROVE  /\ Begun(j)' = r.attempts + r.stalled
                          + (IF r.state \in {"active", "completed"} THEN 1 ELSE 0)
           /\ \A k \in Jobs \ {j} : Begun(k)' = Begun(k)
BY DEF Becomes, Begun

LEMMA TakeStep ==
    ASSUME JobsOk, NEW j \in Jobs, Take(j)
    PROVE  /\ JobsOk'
           /\ Begun(j)' = Begun(j) + 1
           /\ \A k \in Jobs \ {j} : Begun(k)' = Begun(k)
<1>. DEFINE r == [state |-> "active", attempts |-> jobs[j].attempts,
                  stalled |-> jobs[j].stalled]
<1>1. jobs[j].state = "waiting" /\ Move(j, "active")
  BY DEF Take
<1>2. Becomes(j, r)
  BY <1>1, MoveBecomes
<1>3. /\ jobs[j].attempts \in Nat /\ jobs[j].stalled \in Nat
      /\ jobs[j].attempts < MaxAttempts /\ jobs[j].stalled <= MaxStalls
  BY <1>1 DEF JobsOk, JobOk
<1>4. JobsOk'
  BY <1>2, <1>3, BecomesOk
<1>5. Begun(j) = jobs[j].attempts + jobs[j].stalled
  BY <1>1, <1>3 DEF Begun
<1>6. Begun(j)' = jobs[j].attempts + jobs[j].stalled + 1
  BY <1>2, BegunBecomes
<1>. QED BY <1>2, <1>4, <1>5, <1>6, BegunBecomes

\* A job that is moved, and not taken, has begun as many executions as before.
LEMMA OtherSteps ==
    ASSUME JobsOk,
           \/ \E j \in Jobs : Schedule(j) \/ Retry(j)
           \/ Return \/ Throw \/ WorkerDies
    PROVE  JobsOk' /\ SameBegun
<1>. DEFINE Moved(j, r) == /\ Becomes(j, r)
                           /\ r \in [state : {"new", "waiting", "active", "delayed",
                                              "completed", "failed"},
                                     attempts : Nat, stalled : Nat]
                           /\ r.state # "new"
                           /\ IF r.state = "failed"
                              THEN r.attempts + r.stalled <= Budget
                              ELSE r.attempts < MaxAttempts /\ r.stalled <= MaxStalls
                           /\ r.attempts + r.stalled
                                + (IF r.state \in {"active", "completed"} THEN 1 ELSE 0)
                              = Begun(j)
<1>1. ASSUME NEW j \in Jobs, NEW r, Moved(j, r) PROVE JobsOk' /\ SameBegun
  <2>1. JobsOk'
    BY <1>1, BecomesOk
  <2>2. Begun(j)' = Begun(j) /\ \A k \in Jobs \ {j} : Begun(k)' = Begun(k)
    BY <1>1, BegunBecomes
  <2>. QED BY <2>1, <2>2 DEF SameBegun
<1>2. ASSUME NEW j \in Jobs
      PROVE  /\ jobs[j] \in [state : {"new", "waiting", "active", "delayed", "completed",
                                      "failed"},
                             attempts : Nat, stalled : Nat]
             /\ DOMAIN jobs = Jobs
             /\ jobs[j].state # "failed" =>
                   jobs[j].attempts < MaxAttempts /\ jobs[j].stalled <= MaxStalls
  BY DEF JobsOk, JobOk
<1>3. MaxAttempts \in Nat /\ MaxStalls \in Nat
  BY JobAssumption
<1>4. ASSUME NEW j \in Jobs, Schedule(j) \/ Retry(j) PROVE \E r : Moved(j, r)
  <2>. DEFINE r == [state |-> "waiting", attempts |-> jobs[j].attempts,
                    stalled |-> jobs[j].stalled]
  <2>1. jobs[j].state \in {"new", "delayed"} /\ Move(j, "waiting")
    BY <1>4 DEF Schedule, Retry
  <2>2. Becomes(j, r)
    BY <2>1, MoveBecomes
  <2>3. Moved(j, r)
    BY <1>2, <2>1, <2>2 DEF Begun
  <2>. QED BY <2>3
<1>5. ASSUME NEW j \in Jobs, Active(j), Move(j, "completed") PROVE \E r : Moved(j, r)
  <2>. DEFINE r == [state |-> "completed", attempts |-> jobs[j].attempts,
                    stalled |-> jobs[j].stalled]
  <2>1. Becomes(j, r)
    BY <1>5, MoveBecomes
  <2>2. Moved(j, r)
    BY <1>2, <1>5, <2>1 DEF Begun, Active
  <2>. QED BY <2>2
<1>6. ASSUME NEW j \in Jobs, Active(j),
             jobs' = [jobs EXCEPT
                ![j].attempts = @ + 1,
                ![j].state = IF jobs[j].attempts + 1 < MaxAttempts
                             THEN "delayed" ELSE "failed"]
      PROVE  \E r : Moved(j, r)
  <2>. DEFINE state == IF jobs[j].attempts + 1 < MaxAttempts THEN "delayed" ELSE "failed"
              r == [state |-> state, attempts |-> jobs[j].attempts + 1,
                    stalled |-> jobs[j].stalled]
  <2>1. Becomes(j, r)
    BY <1>2, <1>6 DEF Becomes
  <2>2. Moved(j, r)
    BY <1>2, <1>3, <1>6, <2>1 DEF Begun, Active, Budget
  <2>. QED BY <2>2
<1>7. ASSUME NEW j \in Jobs, Active(j),
             jobs' = [jobs EXCEPT
                ![j].stalled = @ + 1,
                ![j].state = IF jobs[j].stalled < MaxStalls
                             THEN "waiting" ELSE "failed"]
      PROVE  \E r : Moved(j, r)
  <2>. DEFINE state == IF jobs[j].stalled < MaxStalls THEN "waiting" ELSE "failed"
              r == [state |-> state, attempts |-> jobs[j].attempts,
                    stalled |-> jobs[j].stalled + 1]
  <2>1. Becomes(j, r)
    BY <1>2, <1>7 DEF Becomes
  <2>2. Moved(j, r)
    BY <1>2, <1>3, <1>7, <2>1 DEF Begun, Active, Budget
  <2>. QED BY <2>2
<1>. HIDE DEF Moved
<1>8. \E j \in Jobs : \E r : Moved(j, r)
  BY <1>4, <1>5, <1>6, <1>7 DEF Return, Throw, WorkerDies
<1>. QED BY <1>1, <1>8

LEMMA RunStepMoves == ASSUME RunStep PROVE UNCHANGED jobs \/ Return \/ Throw
<1>1. \A x : Continue(x) => UNCHANGED jobs
  BY DEF Continue
<1>. QED BY <1>1
      DEF RunStep, SkipClosed, SkipFew, EngineFinds, EngineFindsNothing, ReadTick,
          ModelFails, ModelAnswers, ModelBabbles, ModelSaysNone, VerdictFails,
          Rejected, Incomplete, ModelFinds, SetVerdict, GateDrops, Create, Fails

\* What a step does to the jobs.
LEMMA StepMoves ==
    ASSUME [LlmNext]_llmVars
    PROVE  \/ UNCHANGED jobs
           \/ \E j \in Jobs : Take(j)
           \/ \E j \in Jobs : Schedule(j) \/ Retry(j)
           \/ Return \/ Throw \/ WorkerDies
<1>2. ASSUME NEW i, Verify(i) PROVE UNCHANGED jobs
  BY <1>2 DEF Verify, CheckFails, CheckBabbles, CheckAnswers, WriteInsight, CheckTo
<1>3. UNCHANGED llmVars => UNCHANGED jobs
  BY DEF llmVars
<1>. QED BY <1>2, <1>3, RunStepMoves DEF LlmNext

LEMMA JobTypes ==
    /\ LlmInit => JobsOk
    /\ JobsOk /\ [LlmNext]_llmVars => JobsOk'
<1>1. LlmInit => JobsOk
  BY JobAssumption DEF LlmInit, JobsOk, JobOk, NewJob
<1>2. JobsOk /\ UNCHANGED jobs => JobsOk'
  BY DEF JobsOk, JobOk
<1>. QED BY <1>1, <1>2, StepMoves, TakeStep, OtherSteps

\* The executions begun are finitely many, and taking a job begins one more.
LEMMA ExecutionsFinite ==
    ASSUME JobsOk
    PROVE  /\ IsFiniteSet(Executions) /\ Cardinality(Executions) \in Nat
           /\ IsFiniteSet({j \in Jobs : jobs[j].state # "new"})
           /\ Cardinality(Executions)
                <= Cardinality({j \in Jobs : jobs[j].state # "new"}) * Budget
<1>. DEFINE added == {j \in Jobs : jobs[j].state # "new"}
            all == added \X (1 .. Budget)
<1>1. IsFiniteSet(added) /\ Cardinality(added) \in Nat
  <2>1. added \subseteq Jobs
    OBVIOUS
  <2>. HIDE DEF added
  <2>. QED BY <2>1, JobAssumption, FS_Subset, FS_CardinalityType
<1>2. Budget \in Nat
  BY JobAssumption DEF Budget
<1>3. IsFiniteSet(1 .. Budget) /\ Cardinality(1 .. Budget) = Budget
  <2>1. 1 \in Int /\ Budget \in Int /\ (1 > Budget => Budget = 0) /\ Budget - 1 + 1 = Budget
    BY <1>2
  <2>. QED BY <2>1, FS_Interval
<1>4. Executions \subseteq all
  <2>1. ASSUME NEW x \in Executions PROVE x \in all
    <3>1. x \in Jobs \X (1 .. Budget) /\ x[2] <= Begun(x[1])
      BY DEF Executions
    <3>2. x[1] \in Jobs /\ x[2] \in 1 .. Budget /\ x = <<x[1], x[2]>>
      BY <3>1
    <3>3. Begun(x[1]) # 0
      BY <1>2, <3>1, <3>2
    <3>4. jobs[x[1]].state # "new"
      BY <3>2, <3>3, BegunType
    <3>. QED BY <3>2, <3>4
  <2>. QED BY <2>1
<1>. HIDE DEF added
<1>5. IsFiniteSet(all) /\ Cardinality(all) = Cardinality(added) * Budget
  BY <1>1, <1>3, FS_Product
<1>. HIDE DEF all
<1>6. /\ IsFiniteSet(Executions) /\ Cardinality(Executions) \in Nat
      /\ Cardinality(Executions) <= Cardinality(all)
  BY <1>4, <1>5, FS_Subset, FS_CardinalityType
<1>. QED BY <1>1, <1>5, <1>6 DEF added

LEMMA TakeBegins ==
    ASSUME JobsOk, NEW j \in Jobs, Take(j)
    PROVE  Cardinality(Executions)' = Cardinality(Executions) + 1
<1>. DEFINE k == Begun(j) + 1
<1>1. /\ k \in 1 .. Budget /\ k > Begun(j)
      /\ \A i \in Jobs : Begun(i) \in Nat
  <2>1. jobs[j].state = "waiting"
    BY DEF Take
  <2>. QED BY <2>1, BegunType
<1>2. /\ Begun(j)' = k
      /\ \A i \in Jobs \ {j} : Begun(i)' = Begun(i)
  BY TakeStep
<1>3. Begun(j) = k - 1 /\ k \in Int
  BY <1>1
<1>. HIDE DEF k
<1>4. <<j, k>> \notin Executions
  BY <1>1 DEF Executions
<1>5. Executions' = Executions \union {<<j, k>>}
  <2>1. ASSUME NEW i \in Jobs, NEW m \in 1 .. Budget
        PROVE  (m <= Begun(i)' <=> m <= Begun(i) \/ (i = j /\ m = k))
    <3>1. m \in Int /\ Begun(i) \in Int
      BY <1>1
    <3>2. CASE i = j
      BY <1>2, <1>3, <3>1, <3>2
    <3>3. CASE i # j
      BY <1>2, <3>3
    <3>. QED BY <3>2, <3>3
  <2>2. Executions' = {x \in Jobs \X (1 .. Budget) : x[2] <= Begun(x[1])'}
    BY DEF Executions, Budget
  <2>3. \A x \in Jobs \X (1 .. Budget) :
            x[1] \in Jobs /\ x[2] \in 1 .. Budget /\ x = <<x[1], x[2]>>
    OBVIOUS
  <2>4. <<j, k>> \in Jobs \X (1 .. Budget)
    BY <1>1
  <2>5. \A x \in Jobs \X (1 .. Budget) :
            x[2] <= Begun(x[1])' <=> x[2] <= Begun(x[1]) \/ x = <<j, k>>
    BY <2>1, <2>3
  <2>. QED BY <2>2, <2>4, <2>5 DEF Executions
<1>6. IsFiniteSet(Executions)
  BY ExecutionsFinite
<1>. QED BY <1>4, <1>5, <1>6, FS_AddElement

LEMMA SameExecutions == ASSUME SameBegun PROVE Executions' = Executions
<1>1. Executions' = {x \in Jobs \X (1 .. Budget) : x[2] <= Begun(x[1])'}
  BY DEF Executions, Budget
<1>2. \A x \in Jobs \X (1 .. Budget) : Begun(x[1])' = Begun(x[1])
  BY DEF SameBegun
<1>. QED BY <1>1, <1>2 DEF Executions

-----------------------------------------------------------------------------
\* The verifications

LEMMA OpenFinite ==
    ASSUME ChecksOk
    PROVE  IsFiniteSet(Open) /\ Cardinality(Open) \in Nat
<1>1. Len(checks) \in Nat /\ DOMAIN checks = 1 .. Len(checks)
  BY DEF ChecksOk
<1>2. Models \in Nat
  BY JobAssumption
<1>3. IsFiniteSet(1 .. Len(checks)) /\ IsFiniteSet(1 .. Models)
  BY <1>1, <1>2, FS_Interval
<1>4. IsFiniteSet((1 .. Len(checks)) \X (1 .. Models))
  BY <1>3, FS_Product
<1>5. Open \subseteq (1 .. Len(checks)) \X (1 .. Models)
  BY <1>1 DEF Open
<1>. QED BY <1>4, <1>5, FS_Subset, FS_CardinalityType

\* Nothing is added to what is open.
LEMMA FewerOpen ==
    ASSUME ChecksOk, Open' \subseteq Open
    PROVE  /\ Cardinality(Open)' \in Nat
           /\ Cardinality(Open)' <= Cardinality(Open)
           /\ \A x \in Open \ Open' : Cardinality(Open)' + 1 <= Cardinality(Open)
<1>1. IsFiniteSet(Open)
  BY OpenFinite
<1>2. /\ IsFiniteSet(Open') /\ Cardinality(Open') \in Nat
      /\ Cardinality(Open') <= Cardinality(Open) /\ Cardinality(Open) \in Nat
  BY <1>1, FS_Subset, FS_CardinalityType
<1>3. ASSUME NEW x \in Open \ Open' PROVE Cardinality(Open') # Cardinality(Open)
  BY <1>1, <1>3, FS_Subset
<1>. QED BY <1>2, <1>3

LEMMA CreateOpens ==
    ASSUME ChecksOk, Create
    PROVE  /\ ChecksOk'
           /\ Cardinality(Open)' \in Nat
           /\ Cardinality(Open)' <= Cardinality(Open) + Models
<1>. DEFINE n == Len(checks) + 1
            c == Check(IF Models = 0 THEN "done" ELSE "ask", 1)
            new == {n} \X (1 .. Models)
<1>1. /\ checks' = Append(checks, c) /\ signals' = Append(signals, Row)
      /\ checks \in Seq([pc : CheckPcs, model : Nat])
      /\ Models \in Nat
  BY JobAssumption DEF Create, ChecksOk
<1>2. /\ c \in [pc : CheckPcs, model : Nat]
      /\ (c.pc = "ask" => c.model \in 1 .. Models)
  BY <1>1 DEF Check, CheckPcs
<1>. HIDE DEF c
<1>3. /\ checks' \in Seq([pc : CheckPcs, model : Nat])
      /\ n \in Nat /\ DOMAIN checks = 1 .. n - 1 /\ DOMAIN checks' = 1 .. n
      /\ checks'[n] = c /\ \A i \in 1 .. n - 1 : checks'[i] = checks[i]
  BY <1>1, <1>2
<1>4. ChecksOk'
  <2>1. ASSUME NEW i \in DOMAIN checks', checks'[i].pc = "ask"
        PROVE  checks'[i].model \in 1 .. Models
    <3>1. CASE i = n
      BY <1>2, <1>3, <2>1, <3>1
    <3>2. CASE i \in 1 .. n - 1
      BY <1>3, <2>1, <3>2 DEF ChecksOk
    <3>. QED BY <1>3, <3>1, <3>2
  <2>. QED BY <1>3, <2>1 DEF ChecksOk
<1>. HIDE DEF n
<1>5. Open' \subseteq Open \union new
  <2>1. ASSUME NEW x \in Open' PROVE x \in Open \union new
    <3>1. /\ x \in (1 .. n) \X (1 .. Models)
          /\ checks'[x[1]].pc = "ask" /\ checks'[x[1]].model <= x[2]
      BY <1>3 DEF Open
    <3>2. x = <<x[1], x[2]>> /\ x[1] \in 1 .. n /\ x[2] \in 1 .. Models
      BY <3>1
    <3>3. CASE x[1] = n
      BY <3>2, <3>3
    <3>4. CASE x[1] # n
      <4>1. x[1] \in 1 .. n - 1
        BY <1>3, <3>2, <3>4
      <4>. QED BY <1>3, <3>1, <3>2, <4>1 DEF Open
    <3>. QED BY <3>3, <3>4
  <2>. QED BY <2>1
<1>6. IsFiniteSet(new) /\ Cardinality(new) = Models
  <2>1. IsFiniteSet(1 .. Models) /\ Cardinality(1 .. Models) = Models
    <3>1. 1 \in Int /\ Models \in Int /\ (1 > Models => Models = 0) /\ Models - 1 + 1 = Models
      BY <1>1
    <3>. QED BY <3>1, FS_Interval
  <2>2. IsFiniteSet({n}) /\ Cardinality({n}) = 1
    BY FS_Singleton
  <2>3. Cardinality(new) = 1 * Models /\ IsFiniteSet(new)
    BY <2>1, <2>2, FS_Product
  <2>. QED BY <1>1, <2>3
<1>. HIDE DEF new
<1>7. /\ IsFiniteSet(Open) /\ Cardinality(Open) \in Nat
  BY OpenFinite
<1>8. /\ IsFiniteSet(Open \union new)
      /\ Cardinality(Open \union new) <= Cardinality(Open) + Models
  <2>1. /\ IsFiniteSet(Open \union new) /\ IsFiniteSet(Open \cap new)
        /\ Cardinality(Open \union new)
             = Cardinality(Open) + Cardinality(new) - Cardinality(Open \cap new)
    BY <1>6, <1>7, FS_Union, FS_Intersection
  <2>2. Cardinality(Open \cap new) \in Nat
    BY <2>1, FS_CardinalityType
  <2>. QED BY <1>1, <1>6, <1>7, <2>1, <2>2
<1>9. /\ Cardinality(Open') \in Nat
      /\ Cardinality(Open') <= Cardinality(Open \union new)
      /\ Cardinality(Open \union new) \in Nat
  BY <1>5, <1>8, FS_Subset, FS_CardinalityType
<1>. QED BY <1>1, <1>4, <1>7, <1>8, <1>9

LEMMA VerifySteps ==
    ASSUME ChecksOk, NEW i \in DOMAIN checks, Verify(i)
    PROVE  /\ ChecksOk'
           /\ Open' \subseteq Open
           /\ Cardinality(Open)' \in Nat
           /\ \/ calls' = calls /\ Cardinality(Open)' <= Cardinality(Open)
              \/ calls' = calls + 1 /\ Cardinality(Open)' + 1 <= Cardinality(Open)
<1>. DEFINE CheckRow == [pc : CheckPcs, model : Nat]
<1>1. checks \in Seq(CheckRow) /\ checks[i] \in CheckRow /\ Models \in Nat
  <2>1. checks \in Seq(CheckRow) /\ Models \in Nat
    BY JobAssumption DEF ChecksOk
  <2>. HIDE DEF CheckRow
  <2>. QED BY <2>1, ElementOfSeq
<1>2. PICK c \in CheckRow :
          /\ checks' = [checks EXCEPT ![i] = c]
          /\ (c.pc = "ask" => /\ checks[i].pc = "ask" /\ c.model \in 1 .. Models
                              /\ c.model = checks[i].model + 1)
          /\ \/ calls' = calls /\ c.pc # "ask"
             \/ calls' = calls + 1 /\ checks[i].pc = "ask"
  <2>. DEFINE Good(c) ==
          /\ c \in CheckRow
          /\ (c.pc = "ask" => /\ checks[i].pc = "ask" /\ c.model \in 1 .. Models
                              /\ c.model = checks[i].model + 1)
          /\ \/ calls' = calls /\ c.pc # "ask"
             \/ calls' = calls + 1 /\ checks[i].pc = "ask"
  <2>1. ASSUME NEW pc \in CheckPcs, pc # "ask", calls' = calls \/ CheckAsks(i)
        PROVE  Good(Check(pc, 1))
    BY <2>1 DEF Check, CheckAsks
  <2>2. CASE CheckFails(i)
    <3>1. CASE NextModel(checks[i].model) <= Models
      <4>. DEFINE m == NextModel(checks[i].model)
      <4>1. checks[i].pc = "ask" /\ checks[i].model \in 1 .. Models /\ calls' = calls + 1
        BY <2>2 DEF CheckFails, CheckAsks, ChecksOk
      <4>2. m \in 1 .. Models /\ m \in Nat /\ m = checks[i].model + 1
        BY <1>1, <3>1, <4>1 DEF NextModel
      <4>. HIDE DEF m
      <4>3. Good(Check("ask", m))
        BY <4>1, <4>2 DEF Check, CheckPcs
      <4>4. checks' = [checks EXCEPT ![i] = Check("ask", m)]
        BY <2>2, <3>1 DEF CheckFails, CheckTo, m
      <4>. HIDE DEF Good
      <4>. QED BY <4>3, <4>4 DEF Good
    <3>2. CASE ~(NextModel(checks[i].model) <= Models)
      <4>1. checks' = [checks EXCEPT ![i] = Check("done", 1)] /\ CheckAsks(i)
        BY <2>2, <3>2 DEF CheckFails, CheckTo
      <4>2. Good(Check("done", 1))
        BY <2>1, <4>1 DEF CheckPcs
      <4>. QED BY <4>1, <4>2
    <3>. QED BY <3>1, <3>2
  <2>3. CASE CheckBabbles(i)
    <3>1. checks' = [checks EXCEPT ![i] = Check("done", 1)] /\ CheckAsks(i)
      BY <2>3 DEF CheckBabbles, CheckTo
    <3>2. Good(Check("done", 1))
      BY <2>1, <3>1 DEF CheckPcs
    <3>. QED BY <3>1, <3>2
  <2>4. CASE WriteInsight(i)
    <3>1. checks' = [checks EXCEPT ![i] = Check("done", 1)] /\ calls' = calls
      BY <2>4 DEF WriteInsight, CheckTo
    <3>2. Good(Check("done", 1))
      BY <2>1, <3>1 DEF CheckPcs
    <3>. QED BY <3>1, <3>2
  <2>5. ASSUME NEW v \in {"AGREE", "DISAGREE", "NEUTRAL"}, CheckAnswers(i, v)
        PROVE  checks' = [checks EXCEPT ![i] = Check(v, 1)] /\ Good(Check(v, 1))
    <3>1. checks' = [checks EXCEPT ![i] = Check(v, 1)] /\ CheckAsks(i)
      BY <2>5 DEF CheckAnswers, CheckTo
    <3>2. v \in CheckPcs /\ v # "ask"
      BY DEF CheckPcs
    <3>. QED BY <2>1, <3>1, <3>2
  <2>. HIDE DEF Good
  <2>6. \E c : Good(c) /\ checks' = [checks EXCEPT ![i] = c]
    BY <2>2, <2>3, <2>4, <2>5 DEF Verify, Good
  <2>. QED BY <2>6 DEF Good
<1>3. /\ checks' \in Seq(CheckRow) /\ DOMAIN checks' = DOMAIN checks
      /\ checks'[i] = c
      /\ \A k \in DOMAIN checks : k # i => checks'[k] = checks[k]
  BY <1>1, <1>2
<1>4. ChecksOk'
  <2>1. ASSUME NEW k \in DOMAIN checks', checks'[k].pc = "ask"
        PROVE  checks'[k].model \in 1 .. Models
    <3>1. CASE k = i
      BY <1>2, <1>3, <2>1, <3>1
    <3>2. CASE k # i
      BY <1>3, <2>1, <3>2 DEF ChecksOk
    <3>. QED BY <3>1, <3>2
  <2>. QED BY <1>3, <2>1 DEF ChecksOk
<1>5. Open' = {x \in (DOMAIN checks) \X (1 .. Models) :
                  checks'[x[1]].pc = "ask" /\ checks'[x[1]].model <= x[2]}
  BY <1>3 DEF Open
<1>6. \A x \in (DOMAIN checks) \X (1 .. Models) :
          x = <<x[1], x[2]>> /\ x[1] \in DOMAIN checks /\ x[2] \in 1 .. Models
  OBVIOUS
<1>7. Open' \subseteq Open
  <2>1. ASSUME NEW x \in Open' PROVE x \in Open
    <3>1. /\ x \in (DOMAIN checks) \X (1 .. Models)
          /\ checks'[x[1]].pc = "ask" /\ checks'[x[1]].model <= x[2]
      BY <1>5
    <3>2. CASE x[1] = i
      <4>1. checks[i].pc = "ask" /\ c.model = checks[i].model + 1 /\ c.model <= x[2]
        BY <1>2, <1>3, <3>1, <3>2
      <4>2. checks[i].model <= x[2]
        BY <1>1, <1>6, <3>1, <4>1
      <4>. QED BY <3>1, <3>2, <4>1, <4>2 DEF Open
    <3>3. CASE x[1] # i
      BY <1>3, <1>6, <3>1, <3>3 DEF Open
    <3>. QED BY <3>2, <3>3
  <2>. QED BY <2>1
<1>8. ASSUME checks[i].pc = "ask" PROVE <<i, checks[i].model>> \in Open \ Open'
  <2>. DEFINE m == checks[i].model
              x == <<i, m>>
  <2>1. m \in 1 .. Models /\ x \in (DOMAIN checks) \X (1 .. Models)
    BY <1>8 DEF ChecksOk
  <2>2. x[1] = i /\ x[2] = m /\ m <= m
    BY <2>1
  <2>3. x \in Open
    BY <1>8, <2>1, <2>2 DEF Open
  <2>4. c.pc = "ask" => ~(c.model <= m)
    BY <1>2, <2>1
  <2>5. x \notin Open'
    BY <1>3, <1>5, <2>2, <2>4
  <2>. QED BY <2>3, <2>5
<1>9. /\ Cardinality(Open)' \in Nat /\ Cardinality(Open)' <= Cardinality(Open)
      /\ \A x \in Open \ Open' : Cardinality(Open)' + 1 <= Cardinality(Open)
  BY <1>7, FewerOpen
<1>. QED BY <1>2, <1>4, <1>7, <1>8, <1>9

LlmInv == RunOk /\ CreatedOk /\ JobsOk /\ ChecksOk

\* What has been spent and may still be, and what has been paid for.
Paid == /\ calls \in Nat
        /\ calls + Left + Cardinality(Open)
              <= Models * (Len(signals) + Cardinality(Executions))

LEMMA LeftType ==
    ASSUME RunOk
    PROVE  Left \in 0 .. Models /\ (run = IdleRun => Left = 0)
BY JobAssumption DEF RunOk, Left, IdleRun

\* The requests of a run.
LEMMA RunSteps ==
    ASSUME RunOk, RunOk', RunStep
    PROVE  \/ Unasked /\ Left' <= Left
           \/ UNCHANGED <<signals, checks>> /\ calls' = calls + 1 /\ Left' + 1 <= Left
           \/ Create
<1>1. /\ Left \in 0 .. Models /\ Left' \in 0 .. Models
      /\ Models \in Nat
      /\ (run' = IdleRun => Left' = 0)
  BY LeftType, JobAssumption DEF RunOk, Left, IdleRun
<1>2. ASSUME Return \/ Throw PROVE Left' = 0
  BY <1>1, <1>2 DEF Return, Throw
<1>3. ASSUME At("ask"), run' = IdleRun \/ Left' = 0 PROVE Left' + 1 <= Left
  BY <1>1, <1>3 DEF At, Left, RunOk
<1>4. ASSUME NEW s \in Setups, EngineFinds(s) PROVE Unasked /\ Left' <= Left
  <2>1. Left' = 0
    BY <1>4 DEF EngineFinds, Continue, Left
  <2>. QED BY <1>1, <1>4, <2>1 DEF EngineFinds
<1>5. ASSUME EngineFindsNothing PROVE Unasked /\ Left' <= Left
  <2>1. Left = Models
    BY <1>5 DEF EngineFindsNothing, At, Left
  <2>. QED BY <1>1, <1>5, <2>1 DEF EngineFindsNothing
<1>6. ASSUME NEW row, ReadTick(row) PROVE Unasked /\ Left' <= Left
  <2>1. Left = Models
    BY <1>6 DEF ReadTick, At, Left
  <2>. QED BY <1>1, <1>6, <2>1 DEF ReadTick
<1>7. ASSUME ModelFails
      PROVE  UNCHANGED <<signals, checks>> /\ calls' = calls + 1 /\ Left' + 1 <= Left
  <2>1. CASE NextModel(run.model) <= Models
    <3>1. run' = [run EXCEPT !.model = NextModel(@)]
      BY <1>7, <2>1 DEF ModelFails, Continue
    <3>2. /\ run = [pc |-> "ask", model |-> run.model, read |-> run.read,
                    price |-> run.price, range |-> run.range]
          /\ run.model \in 1 .. Models /\ run.pc = "ask"
      BY <1>7 DEF RunOk, ModelFails, Asks, At
    <3>3. run'.pc = "ask" /\ run'.model = NextModel(run.model)
      BY <3>1, <3>2
    <3>4. Left = Models - run.model + 1 /\ Left' = Models - (run.model + 1) + 1
      BY <3>2, <3>3 DEF Left, NextModel
    <3>. QED BY <1>1, <1>7, <3>2, <3>4 DEF ModelFails, Asks
  <2>2. CASE ~(NextModel(run.model) <= Models)
    BY <1>2, <1>3, <1>7, <2>2 DEF ModelFails, Asks
  <2>. QED BY <2>1, <2>2
<1>8. ASSUME NEW a, ModelAnswers(a)
      PROVE  UNCHANGED <<signals, checks>> /\ calls' = calls + 1 /\ Left' + 1 <= Left
  <2>1. ASSUME NEW s, ModelFinds(s) PROVE Left' = 0
    BY <2>1 DEF ModelFinds, Continue, Left
  <2>2. Asks /\ Left' = 0
    BY <1>2, <1>8, <2>1 DEF ModelAnswers, ModelBabbles, ModelSaysNone, VerdictFails,
                            Rejected, Incomplete, ModelFinds
  <2>. QED BY <1>3, <2>2 DEF Asks
<1>9. ASSUME SetVerdict PROVE Unasked /\ Left' <= Left
  <2>1. DOMAIN run = {"pc", "setup", "llm", "read", "range"}
    BY <1>9 DEF RunOk, SetVerdict, At
  <2>2. run' = [run EXCEPT !.pc = "gate"]
    BY <1>9 DEF SetVerdict, Continue
  <2>3. run'.pc = "gate"
    BY <2>1, <2>2
  <2>4. Left' = 0
    BY <2>3 DEF Left
  <2>. QED BY <1>1, <1>9, <2>4 DEF SetVerdict
<1>10. ASSUME SkipClosed \/ SkipFew \/ GateDrops \/ Fails PROVE Unasked /\ Left' <= Left
  BY <1>1, <1>2, <1>10 DEF SkipClosed, SkipFew, GateDrops, Fails
<1>. QED BY <1>4, <1>5, <1>6, <1>7, <1>8, <1>9, <1>10 DEF RunStep

LEMMA CheckTypes ==
    /\ LlmInit => ChecksOk
    /\ ChecksOk /\ [LlmNext]_llmVars => ChecksOk'
<1>1. LlmInit => ChecksOk
  BY DEF LlmInit, ChecksOk
<1>2. ASSUME ChecksOk, UNCHANGED checks PROVE ChecksOk'
  BY <1>2 DEF ChecksOk
<1>3. ASSUME RunStep, ~Create PROVE UNCHANGED checks
  <2>1. Unasked \/ Asks => UNCHANGED checks
    BY DEF Unasked, Asks
  <2>. QED BY <1>3, <2>1
        DEF RunStep, SkipClosed, SkipFew, EngineFinds, EngineFindsNothing, ReadTick,
            ModelFails, ModelAnswers, ModelBabbles, ModelSaysNone, VerdictFails,
            Rejected, Incomplete, ModelFinds, SetVerdict, GateDrops, Fails
<1>4. ASSUME ChecksOk, WorkerDies PROVE ChecksOk'
  <2>1. checks' = [i \in DOMAIN checks |-> Check("done", 1)]
    BY <1>4 DEF WorkerDies
  <2>2. Len(checks) \in Nat /\ DOMAIN checks = 1 .. Len(checks)
    BY <1>4 DEF ChecksOk
  <2>3. Check("done", 1) \in [pc : CheckPcs, model : Nat] /\ Check("done", 1).pc # "ask"
    BY DEF Check, CheckPcs
  <2>4. /\ checks' \in [1 .. Len(checks) -> [pc : CheckPcs, model : Nat]]
        /\ \A i \in DOMAIN checks' : checks'[i].pc # "ask"
    BY <2>1, <2>2, <2>3
  <2>5. \A S : checks' \in [1 .. Len(checks) -> S] => checks' \in Seq(S)
    BY <2>2
  <2>. QED BY <2>4, <2>5 DEF ChecksOk
<1>5. ASSUME NEW j \in Jobs, Schedule(j) \/ Take(j) \/ Retry(j) PROVE UNCHANGED checks
  BY <1>5 DEF Schedule, Take, Retry
<1>6. UNCHANGED llmVars => UNCHANGED checks
  BY DEF llmVars
<1>. QED BY <1>1, <1>2, <1>3, <1>4, <1>5, <1>6, CreateOpens, VerifySteps DEF LlmNext

LEMMA LlmInvariant == LlmSpec => []LlmInv
<1>1. LlmInit => LlmInv
  BY RunTypes, CreatedStep, JobTypes, CheckTypes DEF LlmInv
<1>2. LlmInv /\ [LlmNext]_llmVars => LlmInv'
  BY RunTypes, CreatedStep, JobTypes, CheckTypes DEF LlmInv
<1>. QED BY <1>1, <1>2, PTL DEF LlmSpec

\* What is written into a signal leaves their number.
LEMMA CreatedNumber ==
    ASSUME CreatedOk
    PROVE  /\ Len(signals) \in Nat
           /\ Create => Len(signals') = Len(signals) + 1
           /\ \A i \in DOMAIN checks : WriteInsight(i) => Len(signals') = Len(signals)
<1>1. signals \in Seq(ToSet(signals)) /\ Len(signals) \in Nat
      /\ DOMAIN signals = 1 .. Len(signals)
  BY DEF CreatedOk
<1>2. ASSUME Create PROVE Len(signals') = Len(signals) + 1
  <2>1. signals' = Append(signals, Row)
    BY <1>2 DEF Create
  <2>. QED BY <1>1, <2>1, LlmAppendKeeps
<1>3. ASSUME NEW i \in DOMAIN checks, WriteInsight(i) PROVE Len(signals') = Len(signals)
  <2>1. CASE UNCHANGED signals
    BY <2>1
  <2>2. CASE signals' # signals
    <3>1. signals' = [signals EXCEPT ![i].insight = checks[i].pc,
                                     ![i].verified = checks[i].pc = "AGREE"]
      BY <1>3, <2>2 DEF WriteInsight
    <3>2. signals' = [k \in DOMAIN signals |-> signals'[k]]
      BY <3>1
    <3>3. signals' = [k \in 1 .. Len(signals) |-> signals'[k]]
      BY <1>1, <3>2
    <3>4. \A f : \A n \in Nat : f = [k \in 1 .. n |-> f[k]] => Len(f) = n
      OBVIOUS
    <3>. QED BY <1>1, <3>3, <3>4
  <2>. QED BY <2>1, <2>2
<1>. QED BY <1>1, <1>2, <1>3

\* Every step pays for what it spends, and for what it promises to spend.
LEMMA PaidStep ==
    ASSUME LlmInv, RunOk', Paid, [LlmNext]_llmVars
    PROVE  Paid'
<1>. DEFINE M == Models
            c == calls
            c1 == calls'
            l == Left
            l1 == Left'
            o == Cardinality(Open)
            o1 == Cardinality(Open)'
            n == Len(signals)
            n1 == Len(signals)'
            e == Cardinality(Executions)
            e1 == Cardinality(Executions)'
            Same == n1 = n /\ o1 = o /\ c1 = c
<1>1. /\ M \in Nat /\ c \in Nat /\ l \in 0 .. M /\ o \in Nat
      /\ n \in Nat /\ e \in Nat /\ c + l + o <= M * (n + e)
  <2>1. RunOk /\ CreatedOk /\ JobsOk /\ ChecksOk
    BY DEF LlmInv
  <2>2. M \in Nat /\ l \in 0 .. M
    BY <2>1, JobAssumption, LeftType
  <2>3. o \in Nat /\ n \in Nat /\ e \in Nat
    BY <2>1, OpenFinite, CreatedNumber, ExecutionsFinite
  <2>4. c \in Nat /\ c + l + o <= M * (n + e)
    BY DEF Paid
  <2>. QED BY <2>2, <2>3, <2>4
<1>2. RunOk /\ CreatedOk /\ JobsOk /\ ChecksOk
  BY DEF LlmInv
<1>3. l1 \in 0 .. M /\ (run' = IdleRun => l1 = 0)
  BY JobAssumption DEF RunOk, Left, IdleRun
<1>4. UNCHANGED checks => o1 = o
  BY DEF Open
<1>5. SameBegun \/ UNCHANGED jobs => e1 = e
  <2>1. UNCHANGED jobs => SameBegun
    BY DEF SameBegun, Begun
  <2>. QED BY <2>1, SameExecutions
<1>6. ASSUME NEW j \in Jobs, Take(j)
      PROVE  Same /\ e1 = e + 1
  BY <1>2, <1>4, <1>6, TakeBegins DEF Take
<1>7. ASSUME NEW j \in Jobs, Schedule(j) \/ Retry(j)
      PROVE  Same /\ l1 = l /\ e1 = e
  <2>1. SameBegun
    BY <1>2, <1>7, OtherSteps
  <2>. QED BY <1>4, <1>5, <1>7, <2>1 DEF Schedule, Retry, Left
<1>8. ASSUME RunStep
      PROVE  \/ Same /\ l1 <= l /\ e1 = e
             \/ n1 = n /\ o1 = o /\ c1 = c + 1 /\ l1 + 1 <= l /\ e1 = e
             \/ n1 = n + 1 /\ o1 \in Nat /\ o1 <= o + M /\ c1 = c /\ l1 = 0 /\ e1 = e
  <2>1. e1 = e
    <3>1. UNCHANGED jobs \/ Return \/ Throw
      BY <1>8, RunStepMoves
    <3>. QED BY <1>2, <1>5, <3>1, OtherSteps
  <2>2. CASE Create
    BY <1>2, <1>3, <2>1, <2>2, CreateOpens, CreatedNumber DEF Create, Return
  <2>3. CASE ~Create
    <3>1. \/ Unasked /\ Left' <= Left
          \/ UNCHANGED <<signals, checks>> /\ calls' = calls + 1 /\ Left' + 1 <= Left
      BY <1>2, <1>8, <2>3, RunSteps
    <3>. QED BY <1>4, <2>1, <3>1 DEF Unasked
  <2>. QED BY <2>2, <2>3
<1>9. ASSUME NEW i \in DOMAIN checks, Verify(i)
      PROVE  n1 = n /\ e1 = e /\ l1 = l /\ o1 \in Nat /\ c1 \in Nat /\ c1 + o1 <= c + o
  <2>1. UNCHANGED <<jobs, run>>
    BY <1>9 DEF Verify, CheckFails, CheckBabbles, CheckAnswers, WriteInsight, CheckTo
  <2>2. n1 = n
    BY <1>2, <1>9, CreatedNumber
       DEF Verify, CheckFails, CheckBabbles, CheckAnswers, CheckAsks
  <2>3. /\ o1 \in Nat
        /\ \/ c1 = c /\ o1 <= o
           \/ c1 = c + 1 /\ o1 + 1 <= o
    <3>1. ChecksOk
      BY <1>2
    <3>2. /\ Cardinality(Open)' \in Nat
          /\ \/ calls' = calls /\ Cardinality(Open)' <= Cardinality(Open)
             \/ calls' = calls + 1 /\ Cardinality(Open)' + 1 <= Cardinality(Open)
      BY <1>9, <3>1, VerifySteps
    <3>. QED BY <3>2
  <2>. QED BY <1>1, <1>5, <2>1, <2>2, <2>3 DEF Left
<1>10. ASSUME WorkerDies
       PROVE  n1 = n /\ o1 = 0 /\ c1 = c /\ l1 = 0 /\ e1 = e
  <2>1. e1 = e
    BY <1>2, <1>5, <1>10, OtherSteps
  <2>2. Open' = {}
    <3>1. checks' = [i \in DOMAIN checks |-> Check("done", 1)]
      BY <1>10 DEF WorkerDies
    <3>2. \A i \in DOMAIN checks' : checks'[i].pc # "ask"
      BY <3>1 DEF Check
    <3>. QED BY <3>2 DEF Open
  <2>3. o1 = 0
    BY <2>2, FS_EmptySet
  <2>. QED BY <1>3, <1>10, <2>1, <2>3 DEF WorkerDies
<1>11. UNCHANGED llmVars => Same /\ l1 = l /\ e1 = e
  BY <1>4, <1>5 DEF llmVars, Left
<1>12. \/ Same /\ e1 = e + 1
       \/ Same /\ l1 <= l /\ e1 = e
       \/ n1 = n /\ o1 = o /\ c1 = c + 1 /\ l1 + 1 <= l /\ e1 = e
       \/ n1 = n + 1 /\ o1 \in Nat /\ o1 <= o + M /\ c1 = c /\ l1 = 0 /\ e1 = e
       \/ n1 = n /\ e1 = e /\ l1 = l /\ o1 \in Nat /\ c1 \in Nat /\ c1 + o1 <= c + o
       \/ n1 = n /\ o1 = 0 /\ c1 = c /\ l1 = 0 /\ e1 = e
  <2>1. l1 = l => l1 <= l
    BY <1>1
  <2>. QED BY <1>6, <1>7, <1>8, <1>9, <1>10, <1>11, <2>1 DEF LlmNext
<1>. HIDE DEF M, c, c1, l, l1, o, o1, n, n1, e, e1
<1>13. M * (n + (e + 1)) = M * (n + e) + M /\ M * ((n + 1) + e) = M * (n + e) + M
       /\ M * (n + e) \in Nat
  <2>1. \A x, y \in Nat : x * (y + 1) = x * y + x /\ x * y \in Nat
    OBVIOUS
  <2>2. n + (e + 1) = (n + e) + 1 /\ (n + 1) + e = (n + e) + 1 /\ n + e \in Nat
    BY <1>1
  <2>. QED BY <1>1, <2>1, <2>2
<1>14. c1 \in Nat /\ c1 + l1 + o1 <= M * (n1 + e1)
  <2>. DEFINE pay == M * (n + e)
  <2>1. CASE n1 = n /\ o1 = o /\ c1 = c /\ e1 = e + 1
    <3>1. M * (n1 + e1) = pay + M
      BY <1>13, <2>1
    <3>2. pay \in Nat /\ c + l + o <= pay
      BY <1>1, <1>13
    <3>. HIDE DEF pay
    <3>. QED BY <1>1, <1>3, <2>1, <3>1, <3>2 DEF M
  <2>2. CASE n1 = n + 1 /\ o1 \in Nat /\ o1 <= o + M /\ c1 = c /\ l1 = 0 /\ e1 = e
    <3>1. M * (n1 + e1) = pay + M
      BY <1>13, <2>2
    <3>2. pay \in Nat /\ c + l + o <= pay
      BY <1>1, <1>13
    <3>. HIDE DEF pay
    <3>. QED BY <1>1, <1>3, <2>2, <3>1, <3>2
  <2>3. CASE n1 = n /\ e1 = e
    <3>1. M * (n1 + e1) = pay /\ pay \in Nat /\ c + l + o <= pay
      BY <1>1, <1>13, <2>3
    <3>. HIDE DEF pay
    <3>2. /\ \/ o1 = o /\ c1 = c /\ l1 <= l
             \/ o1 = o /\ c1 = c + 1 /\ l1 + 1 <= l
             \/ l1 = l /\ o1 \in Nat /\ c1 \in Nat /\ c1 + o1 <= c + o
             \/ o1 = 0 /\ c1 = c /\ l1 = 0
      BY <1>1, <1>12, <2>3
    <3>. QED BY <1>1, <1>3, <3>1, <3>2
  <2>. QED BY <1>12, <2>1, <2>2, <2>3
<1>. QED BY <1>14 DEF Paid, M, c1, l1, o1, n1, e1

\* For any number of jobs, models, attempts and deaths of the worker: what is
\* asked of the models is bounded by the jobs that were added and the signals
\* that were created, however the jobs end and the verifications go.
THEOREM CallsCorrect == LlmSpec => []CallsBounded
<1>1. LlmInit => Paid
  <2>. SUFFICES ASSUME LlmInit PROVE Paid
    OBVIOUS
  <2>1. Open = {} /\ Cardinality(Open) = 0 /\ Left = 0 /\ Len(signals) = 0 /\ calls = 0
    <3>1. Open = {}
      BY DEF LlmInit, Open
    <3>. QED BY <3>1, FS_EmptySet DEF LlmInit, Left, IdleRun
  <2>2. Cardinality(Executions) \in Nat
    BY JobTypes, ExecutionsFinite
  <2>3. \A x, y \in Nat : x * y \in Nat
    OBVIOUS
  <2>4. Models * (0 + Cardinality(Executions)) \in Nat
    BY <2>2, <2>3, JobAssumption
  <2>. QED BY <2>1, <2>4 DEF Paid
<1>2. LlmInv /\ LlmInv' /\ Paid /\ [LlmNext]_llmVars => Paid'
  BY PaidStep DEF LlmInv
<1>3. ASSUME LlmInv, Paid PROVE CallsBounded
  <2>. DEFINE added == {j \in Jobs : jobs[j].state # "new"}
              a == Cardinality(added) * (MaxAttempts + MaxStalls)
              e == Cardinality(Executions)
              n == Len(signals)
  <2>1. RunOk /\ CreatedOk /\ JobsOk /\ ChecksOk
    BY <1>3 DEF LlmInv
  <2>2. /\ e \in Nat /\ e <= a /\ Cardinality(added) \in Nat
        /\ n \in Nat /\ Cardinality(Open) \in Nat /\ Left \in 0 .. Models
        /\ Models \in Nat /\ calls \in Nat
        /\ calls + Left + Cardinality(Open) <= Models * (n + e)
    <3>1. e \in Nat /\ e <= a /\ Cardinality(added) \in Nat
      BY <2>1, ExecutionsFinite, FS_CardinalityType DEF Budget
    <3>2. n \in Nat /\ Cardinality(Open) \in Nat /\ Left \in 0 .. Models
      BY <2>1, CreatedNumber, OpenFinite, LeftType
    <3>. QED BY <1>3, <3>1, <3>2, JobAssumption DEF Paid
  <2>3. a \in Nat
    <3>1. \A x, y \in Nat : x * y \in Nat
      OBVIOUS
    <3>2. MaxAttempts + MaxStalls \in Nat
      BY JobAssumption
    <3>. HIDE DEF added
    <3>. QED BY <2>2, <3>1, <3>2
  <2>. HIDE DEF a, e, n
  <2>4. Models * (n + e) <= Models * (n + a) /\ Models * (n + e) \in Nat
        /\ Models * (n + a) \in Nat
    <3>1. \A x, y, z \in Nat : y <= z => x * y <= x * z /\ x * y \in Nat /\ x * z \in Nat
      OBVIOUS
    <3>2. n + e \in Nat /\ n + a \in Nat /\ n + e <= n + a
      BY <2>2, <2>3
    <3>. QED BY <2>2, <3>1, <3>2
  <2>. DEFINE p == Models * (n + e)
              q == Models * (n + a)
  <2>5. p <= q /\ p \in Nat /\ q \in Nat /\ calls + Left + Cardinality(Open) <= p
    BY <2>2, <2>4
  <2>. HIDE DEF p, q
  <2>6. calls <= q
    BY <2>2, <2>5
  <2>. QED BY <2>6 DEF CallsBounded, q, n, a
<1>4. LlmInv /\ Paid => CallsBounded
  BY <1>3
<1>. QED BY <1>1, <1>2, <1>4, LlmInvariant, PTL DEF LlmSpec

-----------------------------------------------------------------------------
\* What AnalysisEnds rests on

\* The job function runs for one job, or for none.
OneRun == /\ \A j, k \in Jobs : Active(j) /\ Active(k) => j = k
          /\ (\E j \in Jobs : Active(j)) <=> run.pc # "idle"

LEMMA RunGoesOn ==
    ASSUME RunOk, RunOk', RunStep
    PROVE  /\ run.pc # "idle" \/ Throw
           /\ \/ UNCHANGED jobs /\ run'.pc # "idle"
              \/ Return
              \/ Throw
<1>1. ASSUME NEW x, Continue(x), x.pc # "idle" PROVE UNCHANGED jobs /\ run'.pc # "idle"
  BY <1>1 DEF Continue
<1>2. ASSUME NEW s, EngineFinds(s) PROVE UNCHANGED jobs /\ run'.pc # "idle"
  BY <1>2, <1>1 DEF EngineFinds
<1>3. ASSUME EngineFindsNothing PROVE UNCHANGED jobs /\ run'.pc # "idle"
  BY <1>3, <1>1 DEF EngineFindsNothing
<1>4. ASSUME NEW row, ReadTick(row), ~Return PROVE UNCHANGED jobs /\ run'.pc # "idle"
  BY <1>4, <1>1 DEF ReadTick
<1>5. ASSUME ModelFails, ~Return PROVE UNCHANGED jobs /\ run'.pc # "idle"
  <2>1. /\ run = [pc |-> "ask", model |-> run.model, read |-> run.read,
                  price |-> run.price, range |-> run.range]
    BY <1>5 DEF RunOk, ModelFails, Asks, At
  <2>2. [run EXCEPT !.model = NextModel(@)].pc = "ask"
    BY <2>1
  <2>. QED BY <1>1, <1>5, <2>2 DEF ModelFails
<1>6. ASSUME NEW s, ModelFinds(s) PROVE UNCHANGED jobs /\ run'.pc # "idle"
  BY <1>6, <1>1 DEF ModelFinds
<1>7. ASSUME NEW a, ModelAnswers(a), ~Return, ~Throw
      PROVE  UNCHANGED jobs /\ run'.pc # "idle"
  BY <1>6, <1>7 DEF ModelAnswers, ModelBabbles, ModelSaysNone, VerdictFails, Rejected,
                    Incomplete
<1>8. ASSUME SetVerdict PROVE UNCHANGED jobs /\ run'.pc # "idle"
  <2>1. DOMAIN run = {"pc", "setup", "llm", "read", "range"}
    BY <1>8 DEF RunOk, SetVerdict, At
  <2>2. [run EXCEPT !.pc = "gate"].pc = "gate"
    BY <2>1
  <2>. QED BY <1>1, <1>8, <2>2 DEF SetVerdict
<1>9. ASSUME SkipClosed \/ SkipFew \/ GateDrops \/ Create \/ Fails PROVE Return \/ Throw
  BY <1>9 DEF SkipClosed, SkipFew, GateDrops, Create, Fails
<1>10. run.pc # "idle" \/ Throw
  BY DEF RunStep, SkipClosed, SkipFew, EngineFinds, EngineFindsNothing, ReadTick,
         ModelFails, ModelAnswers, ModelBabbles, ModelSaysNone, VerdictFails,
         Rejected, Incomplete, ModelFinds, SetVerdict, GateDrops, Create, Fails,
         Asks, At
<1>. QED BY <1>2, <1>3, <1>4, <1>5, <1>7, <1>8, <1>9, <1>10 DEF RunStep

\* Ending the active job leaves none.
LEMMA EndsRun ==
    ASSUME JobsOk, OneRun, Return \/ Throw \/ WorkerDies
    PROVE  OneRun'
<1>1. PICK j \in Jobs : /\ Active(j)
                        /\ \E r : Becomes(j, r) /\ r.state # "active"
  <2>1. DOMAIN jobs = Jobs
        /\ \A i \in Jobs : jobs[i] \in [state : {"new", "waiting", "active", "delayed",
                                                 "completed", "failed"},
                                        attempts : Nat, stalled : Nat]
    BY DEF JobsOk, JobOk
  <2>2. ASSUME NEW i \in Jobs, NEW s, s # "active", Move(i, s)
        PROVE  \E r : Becomes(i, r) /\ r.state # "active"
    <3>. DEFINE r == [state |-> s, attempts |-> jobs[i].attempts,
                      stalled |-> jobs[i].stalled]
    <3>1. Becomes(i, r)
      BY <2>2, MoveBecomes
    <3>2. r.state # "active"
      BY <2>2
    <3>. QED BY <3>1, <3>2
  <2>3. CASE Return
    BY <2>2, <2>3 DEF Return
  <2>4. CASE Throw
    <3>1. PICK i \in Jobs : /\ Active(i)
                            /\ jobs' = [jobs EXCEPT
                                  ![i].attempts = @ + 1,
                                  ![i].state = IF jobs[i].attempts + 1 < MaxAttempts
                                               THEN "delayed" ELSE "failed"]
      BY <2>4 DEF Throw
    <3>. DEFINE r == [state |-> IF jobs[i].attempts + 1 < MaxAttempts
                                THEN "delayed" ELSE "failed",
                      attempts |-> jobs[i].attempts + 1, stalled |-> jobs[i].stalled]
    <3>2. Becomes(i, r) /\ r.state # "active"
      BY <2>1, <3>1 DEF Becomes
    <3>. QED BY <3>1, <3>2
  <2>5. CASE WorkerDies
    <3>1. PICK i \in Jobs : /\ Active(i)
                            /\ jobs' = [jobs EXCEPT
                                  ![i].stalled = @ + 1,
                                  ![i].state = IF jobs[i].stalled < MaxStalls
                                               THEN "waiting" ELSE "failed"]
      BY <2>5 DEF WorkerDies
    <3>. DEFINE r == [state |-> IF jobs[i].stalled < MaxStalls
                                THEN "waiting" ELSE "failed",
                      attempts |-> jobs[i].attempts, stalled |-> jobs[i].stalled + 1]
    <3>2. Becomes(i, r) /\ r.state # "active"
      BY <2>1, <3>1 DEF Becomes
    <3>. QED BY <3>1, <3>2
  <2>. QED BY <2>3, <2>4, <2>5
<1>2. run'.pc = "idle"
  BY DEF Return, Throw, WorkerDies, IdleRun
<1>3. ASSUME NEW k \in Jobs PROVE ~Active(k)'
  <2>1. CASE k = j
    BY <1>1, <2>1 DEF Becomes, Active
  <2>2. CASE k # j
    BY <1>1, <2>2 DEF Becomes, Active, OneRun
  <2>. QED BY <2>1, <2>2
<1>. QED BY <1>2, <1>3 DEF OneRun

\* The safety part of AnalysisEnds: the function runs for the one active job and
\* for no other, so that the job's end is its own; and a job begins at most
\* MaxAttempts and MaxStalls executions, whatever is thrown and whoever dies.
THEOREM RunsAreBounded == LlmSpec => [](OneRun /\ \A j \in Jobs : Begun(j) <= Budget)
<1>1. LlmInit => OneRun
  BY DEF LlmInit, OneRun, Active, NewJob, IdleRun
<1>2. ASSUME LlmInv, LlmInv', OneRun, [LlmNext]_llmVars PROVE OneRun'
  <2>1. RunOk /\ JobsOk /\ RunOk'
    BY <1>2 DEF LlmInv
  <2>2. ASSUME UNCHANGED jobs, run.pc # "idle" <=> run'.pc # "idle" PROVE OneRun'
    BY <1>2, <2>2 DEF OneRun, Active
  <2>3. CASE RunStep
    <3>1. CASE Return \/ Throw
      BY <1>2, <2>1, <3>1, EndsRun
    <3>2. CASE UNCHANGED jobs /\ run'.pc # "idle" /\ ~Throw
      BY <2>1, <2>2, <2>3, <3>2, RunGoesOn
    <3>. QED BY <2>1, <2>3, <3>1, <3>2, RunGoesOn
  <2>4. CASE WorkerDies
    BY <1>2, <2>1, <2>4, EndsRun
  <2>5. ASSUME NEW j \in Jobs, Take(j) PROVE OneRun'
    <3>1. Move(j, "active") /\ \A k \in Jobs : ~Active(k)
      BY <2>5 DEF Take
    <3>2. /\ jobs'[j].state = "active"
          /\ \A k \in Jobs \ {j} : jobs'[k] = jobs[k]
      <4>1. Becomes(j, [state |-> "active", attempts |-> jobs[j].attempts,
                        stalled |-> jobs[j].stalled])
        BY <2>1, <3>1, MoveBecomes
      <4>. QED BY <4>1 DEF Becomes
    <3>3. \A k \in Jobs : Active(k)' <=> k = j
      BY <3>1, <3>2 DEF Active
    <3>4. run'.pc = "load"
      BY <2>5 DEF Take
    <3>. QED BY <3>3, <3>4 DEF OneRun
  <2>6. ASSUME NEW j \in Jobs, Schedule(j) \/ Retry(j) PROVE OneRun'
    <3>1. Move(j, "waiting") /\ ~Active(j) /\ UNCHANGED run
      BY <2>6 DEF Schedule, Retry, Active
    <3>2. /\ jobs'[j].state = "waiting"
          /\ \A k \in Jobs \ {j} : jobs'[k] = jobs[k]
      <4>1. Becomes(j, [state |-> "waiting", attempts |-> jobs[j].attempts,
                        stalled |-> jobs[j].stalled])
        BY <2>1, <3>1, MoveBecomes
      <4>. QED BY <4>1 DEF Becomes
    <3>3. \A k \in Jobs : Active(k)' <=> Active(k)
      BY <3>1, <3>2 DEF Active
    <3>. QED BY <1>2, <3>1, <3>3 DEF OneRun
  <2>7. ASSUME NEW i, Verify(i) PROVE UNCHANGED jobs /\ run' = run
    BY <2>7 DEF Verify, CheckFails, CheckBabbles, CheckAnswers, WriteInsight, CheckTo
  <2>8. CASE UNCHANGED llmVars
    BY <2>2, <2>8 DEF llmVars
  <2>. QED BY <1>2, <2>2, <2>3, <2>4, <2>5, <2>6, <2>7, <2>8 DEF LlmNext
<1>3. LlmInv => \A j \in Jobs : Begun(j) <= Budget
  BY BegunType DEF LlmInv
<1>4. LlmInv /\ LlmInv' /\ OneRun /\ [LlmNext]_llmVars => OneRun'
  BY <1>2
<1>. QED BY LlmInvariant, <1>1, <1>3, <1>4, PTL DEF LlmSpec

=============================================================================
