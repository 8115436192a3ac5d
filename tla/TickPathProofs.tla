--------------------------- MODULE TickPathProofs ---------------------------
(***************************************************************************)
(* First the queue alone: EaQueue implements BoundedQueue and stays small, *)
(* for every limit (0 included), every compaction threshold and every set  *)
(* of items. Then, for every batch size, number of handlers, quotes and    *)
(* faults: the steps of the tick path are steps of EaQueue or leave the    *)
(* queue alone, and so its theorems hold of the tick path. DedupeInv,      *)
(* OrderInv and LossInv of TickPath, each on top of the one before, are    *)
(* inductive: the types, the order of the announcements and the account of *)
(* the missing ticks follow.                                               *)
(***************************************************************************)
EXTENDS TickPath, SequenceTheorems, FiniteSetTheorems, TLAPS

(***************************************************************************)
(* The queue.                                                              *)
(***************************************************************************)
QInv == TypeOK /\ StorageBounded

\* Cutting a prefix off a concatenation leaves the second part alone.
LEMMA CutConcat ==
    ASSUME NEW S, NEW s \in Seq(S), NEW t \in Seq(S), NEW h \in 0 .. Len(s)
    PROVE  SubSeq(s \o t, h + 1, Len(s \o t)) = SubSeq(s, h + 1, Len(s)) \o t
<1>. DEFINE st  == s \o t
            cut == SubSeq(s, h + 1, Len(s))
            lhs == SubSeq(st, h + 1, Len(st))
<1>1. /\ st \in Seq(S) /\ Len(st) = Len(s) + Len(t)
      /\ \A i \in 1 .. Len(s) + Len(t) :
            st[i] = IF i <= Len(s) THEN s[i] ELSE t[i - Len(s)]
      /\ Len(s) \in Nat /\ Len(t) \in Nat
  BY ConcatProperties
<1>. HIDE DEF st
<1>2. /\ \A i \in h + 1 .. Len(s) : s[i] \in S
      /\ \A i \in h + 1 .. Len(st) : st[i] \in S
  <2>1. \A i \in 1 .. Len(s) : s[i] \in S
    OBVIOUS
  <2>2. \A i \in 1 .. Len(st) : st[i] \in S
    BY <1>1
  <2>. QED BY <1>1, <2>1, <2>2
<1>3. /\ cut \in Seq(S) /\ Len(cut) = Len(s) - h
      /\ \A i \in 1 .. Len(s) - h : cut[i] = s[h + i]
  <2>1. /\ SubSeq(s, h + 1, Len(s)) \in Seq(S)
        /\ Len(SubSeq(s, h + 1, Len(s))) =
              IF h + 1 <= Len(s) THEN Len(s) - (h + 1) + 1 ELSE 0
        /\ \A i \in 1 .. Len(s) - (h + 1) + 1 :
              SubSeq(s, h + 1, Len(s))[i] = s[h + 1 + i - 1]
    <3>1. h + 1 \in Int /\ Len(s) \in Int
      BY <1>1
    <3>. QED BY <1>2, <3>1, SubSeqProperties
  <2>. QED BY <1>1, <2>1
<1>4. /\ lhs \in Seq(S) /\ Len(lhs) = Len(s) + Len(t) - h
      /\ \A i \in 1 .. Len(s) + Len(t) - h : lhs[i] = st[h + i]
  <2>1. /\ SubSeq(st, h + 1, Len(st)) \in Seq(S)
        /\ Len(SubSeq(st, h + 1, Len(st))) =
              IF h + 1 <= Len(st) THEN Len(st) - (h + 1) + 1 ELSE 0
        /\ \A i \in 1 .. Len(st) - (h + 1) + 1 :
              SubSeq(st, h + 1, Len(st))[i] = st[h + 1 + i - 1]
    <3>1. h + 1 \in Int /\ Len(st) \in Int
      BY <1>1
    <3>. QED BY <1>2, <3>1, SubSeqProperties
  <2>. QED BY <1>1, <2>1
<1>. HIDE DEF cut, lhs
<1>. DEFINE rhs == cut \o t
<1>5. /\ rhs \in Seq(S) /\ Len(rhs) = Len(cut) + Len(t)
      /\ \A i \in 1 .. Len(cut) + Len(t) :
            rhs[i] = IF i <= Len(cut) THEN cut[i] ELSE t[i - Len(cut)]
  <2>1. cut \in Seq(S) /\ t \in Seq(S)
    BY <1>3
  <2>. QED BY <2>1, ConcatProperties
<1>. HIDE DEF rhs
<1>6. Len(lhs) = Len(rhs) /\ \A i \in 1 .. Len(lhs) : lhs[i] = rhs[i]
  BY <1>1, <1>3, <1>4, <1>5
<1>7. lhs = rhs
  BY <1>4, <1>5, <1>6, SeqEqual
<1>. QED BY <1>7 DEF lhs, rhs, cut, st

\* Advance drops the first live item and appends `tail`, compacted or not.
LEMMA AdvanceLive ==
    ASSUME TypeOK, Size > 0, NEW tail \in Seq(Items), Advance(head + 1, tail)
    PROVE  /\ items' \in Seq(Items) /\ head' \in 0 .. Len(items')
           /\ Live' = Tail(Live) \o tail
           /\ Len(items') - head' = Size - 1 + Len(tail)
           /\ head' > CompactAbove => head' <= Len(items') - head'
<1>. DEFINE rest == SubSeq(items, head + 2, Len(items))
<1>1. /\ items \in Seq(Items) /\ Len(items) \in Nat /\ Len(tail) \in Nat
      /\ head \in Nat /\ head + 1 \in 1 .. Len(items)
      /\ CompactAbove \in Nat
  BY QueueAssumption DEF TypeOK, Size
<1>2. Tail(Live) = rest /\ rest \in Seq(Items) /\ Len(rest) = Len(items) - head - 1
  <2>1. Tail(SubSeq(items, head + 1, Len(items))) = SubSeq(items, head + 1 + 1, Len(items))
    <3>1. Len(items) \in head + 1 .. Len(items)
      BY <1>1
    <3>. QED BY <1>1, <3>1, HeadTailOfSubSeq
  <2>2. \A i \in head + 2 .. Len(items) : items[i] \in Items
    BY <1>1
  <2>3. /\ SubSeq(items, head + 2, Len(items)) \in Seq(Items)
        /\ Len(SubSeq(items, head + 2, Len(items))) =
              IF head + 2 <= Len(items) THEN Len(items) - (head + 2) + 1 ELSE 0
    <3>1. head + 2 \in Int /\ Len(items) \in Int
      BY <1>1
    <3>. QED BY <2>2, <3>1, SubSeqProperties
  <2>4. head + 1 + 1 = head + 2
    BY <1>1
  <2>. QED BY <1>1, <2>1, <2>3, <2>4 DEF Live
<1>3. /\ SubSeq(items, head + 1 + 1, Len(items)) = rest
      /\ SubSeq(items, (head + 1) + 1, Len(items)) = rest
  <2>1. head + 1 + 1 = head + 2
    BY <1>1
  <2>. QED BY <2>1
<1>. HIDE DEF rest
<1>4. CASE MustCompact(head + 1) /\ items' = rest \o tail /\ head' = 0
  <2>1. /\ rest \o tail \in Seq(Items) /\ Len(rest \o tail) = Len(rest) + Len(tail)
    BY <1>1, <1>2, ConcatProperties
  <2>2. SubSeq(rest \o tail, 1, Len(rest \o tail)) = rest \o tail
    BY <2>1, SubSeqFull
  <2>3. Live' = rest \o tail
    BY <1>4, <2>2 DEF Live
  <2>4. /\ items' \in Seq(Items) /\ Len(items') = Len(rest) + Len(tail) /\ head' = 0
    BY <1>4, <2>1
  <2>5. Len(items') - head' = Size - 1 + Len(tail)
    BY <1>1, <1>2, <2>4 DEF Size
  <2>6. head' \in 0 .. Len(items') /\ ~(head' > CompactAbove)
    BY <1>1, <1>2, <2>4
  <2>. QED BY <1>2, <2>3, <2>4, <2>5, <2>6
<1>5. CASE ~MustCompact(head + 1) /\ items' = items \o tail /\ head' = head + 1
  <2>1. /\ items \o tail \in Seq(Items) /\ Len(items \o tail) = Len(items) + Len(tail)
    BY <1>1, ConcatProperties
  <2>2. SubSeq(items \o tail, head + 1 + 1, Len(items \o tail)) =
           SubSeq(items, head + 1 + 1, Len(items)) \o tail
    <3>1. head + 1 \in 0 .. Len(items)
      BY <1>1
    <3>. QED BY <1>1, <3>1, CutConcat
  <2>3. Live' = rest \o tail
    BY <1>3, <1>5, <2>2 DEF Live
  <2>4. /\ items' \in Seq(Items) /\ Len(items') = Len(items) + Len(tail)
        /\ head' = head + 1
    BY <1>5, <2>1
  <2>5. head + 1 > CompactAbove => 2 * (head + 1) <= Len(items)
    <3>1. head + 1 > CompactAbove => head + 1 <= Len(items) \div 2
      BY <1>1, <1>5 DEF MustCompact
    <3>. QED BY <1>1, <3>1
  <2>6. Len(items') - head' = Size - 1 + Len(tail)
    BY <1>1, <2>4 DEF Size
  <2>7. head' \in 0 .. Len(items')
    BY <1>1, <2>4
  <2>8. head' > CompactAbove => head' <= Len(items') - head'
    BY <1>1, <2>4, <2>5
  <2>. QED BY <1>2, <2>3, <2>4, <2>6, <2>7, <2>8
<1>. QED BY <1>3, <1>4, <1>5 DEF Advance

\* What the callers see of an array with one item appended.
LEMMA AppendLive ==
    ASSUME TypeOK, NEW item \in Items, items' = Append(items, item), head' = head
    PROVE  Live' = Append(Live, item)
<1>1. /\ items \in Seq(Items) /\ head \in 0 .. Len(items) /\ <<item>> \in Seq(Items)
  BY DEF TypeOK
<1>2. Append(items, item) = items \o <<item>>
  BY <1>1, AppendIsConcat
<1>3. SubSeq(items \o <<item>>, head + 1, Len(items \o <<item>>)) =
         SubSeq(items, head + 1, Len(items)) \o <<item>>
  BY <1>1, CutConcat
<1>4. Live \in Seq(Items)
  BY <1>1 DEF Live
<1>5. Append(Live, item) = Live \o <<item>>
  BY <1>4, AppendIsConcat
<1>. QED BY <1>2, <1>3, <1>5 DEF Live

LEMMA LiveFacts ==
    ASSUME TypeOK
    PROVE  /\ Live \in Seq(Items) /\ Len(Live) = Size
           /\ Size > 0 => Live # <<>> /\ Head(Live) = items[head + 1]
<1>1. /\ items \in Seq(Items) /\ Len(items) \in Nat /\ head \in 0 .. Len(items)
  BY DEF TypeOK
<1>2. \A i \in head + 1 .. Len(items) : items[i] \in Items
  BY <1>1
<1>3. /\ SubSeq(items, head + 1, Len(items)) \in Seq(Items)
      /\ Len(SubSeq(items, head + 1, Len(items))) =
            IF head + 1 <= Len(items) THEN Len(items) - (head + 1) + 1 ELSE 0
  <2>1. head + 1 \in Int /\ Len(items) \in Int
    BY <1>1
  <2>. QED BY <1>2, <2>1, SubSeqProperties
<1>4. Live \in Seq(Items) /\ Len(Live) = Size
  BY <1>1, <1>3 DEF Live, Size
<1>5. ASSUME Size > 0 PROVE Live # <<>> /\ Head(Live) = items[head + 1]
  <2>1. head + 1 \in 1 .. Len(items) /\ Len(items) \in head + 1 .. Len(items)
    BY <1>1, <1>5 DEF Size
  <2>2. Head(SubSeq(items, head + 1, Len(items))) = items[head + 1]
    BY <1>1, <2>1, HeadTailOfSubSeq
  <2>3. Live # <<>>
    BY <1>4, <1>5
  <2>. QED BY <2>2, <2>3 DEF Live
<1>. QED BY <1>4, <1>5

\* One step from a good state: the next state is good, and the step is a step
\* of the bounded queue.
LEMMA StepFifo ==
    ASSUME QInv, [Next]_vars
    PROVE  QInv' /\ [Fifo!Next]_<<Live, dropped, popped>>
<1>. USE QueueAssumption DEF QInv
<1>0. TypeOK /\ StorageBounded /\ Len(items) \in Nat /\ head \in 0 .. Len(items)
  BY DEF TypeOK
<1>1. ASSUME NEW item \in Items, Push(item)
      PROVE  QInv' /\ Fifo!Push(item)
  <2>1. Append(items, item) \in Seq(Items) /\ Len(Append(items, item)) = Len(items) + 1
    BY DEF TypeOK
  <2>2. TypeOK'
    BY <1>0, <1>1, <2>1 DEF Push, TypeOK
  <2>3. StorageBounded'
    BY <1>0, <1>1, <2>1 DEF Push, StorageBounded, Size, Overflowing
  <2>4. Live' = Append(Live, item)
    BY <1>0, <1>1, AppendLive DEF Push
  <2>5. ~Fifo!Full
    BY <1>0, <1>1, LiveFacts DEF Push, Overflowing, Fifo!Full
  <2>. QED BY <1>1, <2>2, <2>3, <2>4, <2>5 DEF Push, Fifo!Push
<1>2. ASSUME NEW item \in Items, PushDropping(item)
      PROVE  QInv' /\ Fifo!Push(item)
  <2>1. Size > 0 /\ <<item>> \in Seq(Items) /\ Len(<<item>>) = 1
    BY <1>0, <1>2 DEF PushDropping, Overflowing, Size
  <2>2. /\ items' \in Seq(Items) /\ head' \in 0 .. Len(items')
        /\ Live' = Tail(Live) \o <<item>>
        /\ Len(items') - head' = Size - 1 + Len(<<item>>)
        /\ head' > CompactAbove => head' <= Len(items') - head'
    BY <1>0, <1>2, <2>1, AdvanceLive DEF PushDropping
  <2>3. dropped' = dropped + 1 /\ dropped' \in 0 .. MaxDropped /\ popped' = popped
    BY <1>2 DEF PushDropping, TypeOK
  <2>4. TypeOK'
    BY <2>2, <2>3 DEF TypeOK
  <2>5. Size' = Size
    BY <1>0, <2>1, <2>2 DEF Size
  <2>6. StorageBounded'
    BY <1>0, <2>2, <2>5 DEF StorageBounded, Size
  <2>7. Fifo!Full
    BY <1>0, <1>2, LiveFacts DEF PushDropping, Overflowing, Fifo!Full
  <2>8. Tail(Live) \o <<item>> = Append(Tail(Live), item)
    <3>1. Tail(Live) \in Seq(Items)
      BY <1>0, <2>1, LiveFacts, HeadTailProperties
    <3>. QED BY <3>1, AppendIsConcat
  <2>. QED BY <2>2, <2>3, <2>4, <2>6, <2>7, <2>8 DEF Fifo!Push
<1>3. ASSUME Pop PROVE QInv' /\ Fifo!Pop
  <2>1. Size > 0 /\ <<>> \in Seq(Items) /\ Len(<<>>) = 0
    BY <1>3 DEF Pop
  <2>2. /\ items' \in Seq(Items) /\ head' \in 0 .. Len(items')
        /\ Live' = Tail(Live) \o <<>>
        /\ Len(items') - head' = Size - 1 + Len(<<>>)
        /\ head' > CompactAbove => head' <= Len(items') - head'
    BY <1>0, <1>3, <2>1, AdvanceLive DEF Pop
  <2>3. dropped' = dropped /\ popped' = {items[head + 1]} /\ items[head + 1] \in Items
    BY <1>0, <1>3, <2>1 DEF Pop, TypeOK, Size
  <2>4. TypeOK'
    BY <2>2, <2>3 DEF TypeOK
  <2>5. Size' = Size - 1
    BY <1>0, <2>1, <2>2 DEF Size
  <2>6. StorageBounded'
    BY <1>0, <2>2, <2>5 DEF StorageBounded, Size
  <2>7. Tail(Live) \o <<>> = Tail(Live)
    <3>1. Tail(Live) \in Seq(Items)
      BY <1>0, <2>1, LiveFacts, HeadTailProperties
    <3>. QED BY <3>1, ConcatEmptySeq
  <2>8. Live # <<>> /\ Head(Live) = items[head + 1]
    BY <1>0, <2>1, LiveFacts
  <2>. QED BY <2>2, <2>3, <2>4, <2>6, <2>7, <2>8 DEF Fifo!Pop
<1>4. ASSUME Clear PROVE QInv' /\ Fifo!Clear
  <2>1. items' = <<>> /\ head' = 0 /\ UNCHANGED <<dropped, popped>>
    BY <1>4 DEF Clear
  <2>2. QInv'
    BY <2>1 DEF TypeOK, StorageBounded, Size
  <2>3. Live' = <<>>
    BY <2>1, SubSeqEmpty DEF Live
  <2>. QED BY <2>1, <2>2, <2>3 DEF Fifo!Clear
<1>5. ASSUME Reinit PROVE QInv' /\ Fifo!Reinit
  <2>1. items' = <<>> /\ head' = 0 /\ dropped' = 0 /\ UNCHANGED popped
    BY <1>5 DEF Reinit
  <2>2. QInv'
    BY <2>1 DEF TypeOK, StorageBounded, Size
  <2>3. Live' = <<>>
    BY <2>1, SubSeqEmpty DEF Live
  <2>. QED BY <2>1, <2>2, <2>3 DEF Fifo!Reinit
<1>6. CASE UNCHANGED vars
  BY <1>6 DEF vars, TypeOK, StorageBounded, Size, Live
<1>. QED BY <1>1, <1>2, <1>3, <1>4, <1>5, <1>6 DEF Next, Fifo!Next

LEMMA InitFifo == Init => QInv /\ Fifo!Init
<1>1. ASSUME Init PROVE QInv
  BY <1>1, QueueAssumption DEF Init, QInv, TypeOK, StorageBounded, Size
<1>2. ASSUME Init PROVE Live = <<>>
  BY <1>2, SubSeqEmpty DEF Init, Live
<1>. QED BY <1>1, <1>2 DEF Init, Fifo!Init

\* The array never outgrows its limit by more than the dead prefix that
\* CompactIfNeeded tolerates (MmxmQueue.mqh 64-73).
THEOREM StorageCorrect == Spec => []StorageBounded
<1>1. QInv /\ [Next]_vars => QInv'
  BY StepFifo
<1>2. QInv => StorageBounded
  BY DEF QInv
<1>. QED BY InitFifo, <1>1, <1>2, PTL DEF Spec

\* Push, Pop and Clear on the array are those of the bounded first-in
\* first-out queue (MmxmQueue.mqh 31-61).
THEOREM FifoCorrect == Spec => ImplementsFifo
<1>1. QInv /\ [Next]_vars => QInv'
  BY StepFifo
<1>2. QInv /\ [Next]_vars => [Fifo!Next]_<<Live, dropped, popped>>
  BY StepFifo
<1>. QED BY InitFifo, <1>1, <1>2, PTL DEF Spec, ImplementsFifo, Fifo!Spec

(***************************************************************************)
(* The tick path.                                                          *)
(***************************************************************************)
\* OnTick pushes items of the queue's type.
MarketInv == market \in Items /\ market.ms <= market.n

LEMMA MarketInit == TickInit => MarketInv
BY TickAssumption DEF TickInit, MarketInv, Init

LEMMA MarketStep ==
    ASSUME MarketInv, [TickNext]_allVars
    PROVE  MarketInv'
<1>1. ASSUME NEW step \in {0, 1}, Quote(step) PROVE MarketInv'
  <2>1. /\ market.n \in 0 .. MaxQuotes /\ market.ms \in 0 .. MaxQuotes
        /\ market.ms <= market.n
    BY TickAssumption DEF MarketInv
  <2>2. market.n < MaxQuotes
        /\ market' = [n |-> market.n + 1, ms |-> market.ms + step]
    BY <1>1 DEF Quote
  <2>3. market.n + 1 \in 0 .. MaxQuotes /\ market.ms + step \in 0 .. MaxQuotes
        /\ market.ms + step <= market.n + 1
    <3>1. MaxQuotes \in Nat
      BY TickAssumption
    <3>. QED BY <2>1, <2>2, <3>1
  <2>. QED BY <2>2, <2>3, TickAssumption DEF MarketInv
<1>2. CASE market' = market
  BY <1>2 DEF MarketInv
<1>3. ASSUME NEW h \in Handlers, PostBatch(h) \/ Handle(h) \/ HandlerFails(h)
      PROVE  market' = market
  BY <1>3 DEF PostBatch, Handle, Dedupe, Insert, Announce, Reply, HandlerFails,
              SpoolBatch, terminal
<1>4. ASSUME OnTick \/ OnTimer \/ Fill \/ Refused \/ Timeout \/ Reload \/ TerminalDies
      PROVE  market' = market
  BY <1>4 DEF OnTick, OnTimer, Fill, Refused, Timeout, Reload, TerminalDies, SpoolBatch
<1>5. CASE UNCHANGED allVars
  BY <1>5, <1>2 DEF allVars
<1>. QED BY <1>1, <1>2, <1>3, <1>4, <1>5 DEF TickNext

\* What each step of the path does to the queue.
LEMMA StepOfQueue ==
    ASSUME MarketInv, [TickNext]_allVars
    PROVE  [Next]_vars
<1>1. ASSUME OnTick PROVE Next
  BY <1>1 DEF OnTick, MarketInv, Next
<1>2. ASSUME Fill PROVE Next
  BY <1>2 DEF Fill, Next
<1>3. ASSUME Reload \/ TerminalDies PROVE Next
  BY <1>3 DEF Reload, TerminalDies, Next
<1>4. ASSUME OnTimer \/ Refused \/ Timeout PROVE UNCHANGED vars
  BY <1>4 DEF OnTimer, Refused, Timeout, SpoolBatch
<1>5. ASSUME NEW step \in {0, 1}, Quote(step) PROVE UNCHANGED vars
  BY <1>5 DEF Quote
<1>6. ASSUME NEW h \in Handlers, PostBatch(h) \/ Handle(h) \/ HandlerFails(h)
      PROVE  UNCHANGED vars
  BY <1>6 DEF PostBatch, Handle, Dedupe, Insert, Announce, Reply, HandlerFails,
              SpoolBatch
<1>7. CASE UNCHANGED allVars
  BY <1>7 DEF allVars
<1>. QED BY <1>1, <1>2, <1>3, <1>4, <1>5, <1>6, <1>7 DEF TickNext

\* The tick path contains a queue that behaves as EaQueue specifies.
THEOREM TickPathHasQueue == TickSpec => Spec
<1>1. TickInit => Init
  BY DEF TickInit
<1>2. MarketInv /\ [TickNext]_allVars => MarketInv' /\ [Next]_vars
  BY MarketStep, StepOfQueue
<1>. QED BY MarketInit, <1>1, <1>2, PTL DEF TickSpec, Spec

\* Across batches, refusals, reloads and deaths of the terminal, the array
\* never outgrows its limit by more than the tolerated dead prefix.
THEOREM TickStorageCorrect == TickSpec => []StorageBounded
BY TickPathHasQueue, StorageCorrect

\* Under the same steps the terminal sees a bounded first-in first-out queue.
THEOREM TickFifoCorrect == TickSpec => ImplementsFifo
BY TickPathHasQueue, FifoCorrect
-----------------------------------------------------------------------------
(* Sequences of ticks, as sets *)

LEMMA SetOfSeq ==
    ASSUME NEW S, NEW s \in Seq(S)
    PROVE  /\ ToSet(s) = {s[i] : i \in 1 .. Len(s)} /\ ToSet(s) \subseteq S
           /\ DOMAIN s = 1 .. Len(s) /\ Len(s) \in Nat
           /\ s # <<>> => /\ Len(s) # 0 /\ s[Len(s)] \in ToSet(s)
                          /\ Last(s) = s[Len(s)]
<1>1. DOMAIN s = 1 .. Len(s) /\ Len(s) \in Nat /\ \A i \in 1 .. Len(s) : s[i] \in S
  BY LenProperties, ElementOfSeq
<1>2. s # <<>> => Len(s) # 0
  BY EmptySeq
<1>. QED BY <1>1, <1>2 DEF ToSet, Last

LEMMA SetOfEmpty == ToSet(<<>>) = {}
BY DEF ToSet

LEMMA SetOfAppend ==
    ASSUME NEW S, NEW s \in Seq(S), NEW e \in S
    PROVE  Append(s, e) \in Seq(S) /\ ToSet(Append(s, e)) = ToSet(s) \union {e}
<1>. DEFINE longer == Append(s, e)
<1>1. /\ longer \in Seq(S) /\ Len(longer) = Len(s) + 1 /\ Len(s) \in Nat
      /\ \A i \in 1 .. Len(s) : longer[i] = s[i]
      /\ longer[Len(s) + 1] = e
  BY AppendProperties
<1>. HIDE DEF longer
<1>2. ToSet(longer) = {longer[i] : i \in 1 .. Len(s) + 1} /\ ToSet(s) = {s[i] : i \in 1 .. Len(s)}
  BY <1>1, SetOfSeq
<1>3. ASSUME NEW x \in ToSet(longer) PROVE x \in ToSet(s) \union {e}
  BY <1>1, <1>2, <1>3
<1>4. ASSUME NEW x \in ToSet(s) \union {e} PROVE x \in ToSet(longer)
  BY <1>1, <1>2, <1>4
<1>5. ToSet(longer) = ToSet(s) \union {e}
  BY <1>3, <1>4
<1>. QED BY <1>1, <1>5 DEF longer

LEMMA SetOfTail ==
    ASSUME NEW S, NEW s \in Seq(S), s # <<>>
    PROVE  /\ Head(s) \in S /\ Tail(s) \in Seq(S)
           /\ ToSet(s) = {Head(s)} \union ToSet(Tail(s))
<1>1. /\ Len(s) \in Nat \ {0} /\ Head(s) = s[1] /\ Tail(s) \in Seq(S)
      /\ Len(Tail(s)) = Len(s) - 1
      /\ \A i \in 1 .. Len(Tail(s)) : Tail(s)[i] = s[i + 1]
      /\ Head(s) \in S
  BY HeadTailProperties, EmptySeq
<1>2. /\ ToSet(s) = {s[i] : i \in 1 .. Len(s)}
      /\ ToSet(Tail(s)) = {Tail(s)[i] : i \in 1 .. Len(Tail(s))}
  BY <1>1, SetOfSeq
<1>3. ASSUME NEW x \in ToSet(s) PROVE x \in {Head(s)} \union ToSet(Tail(s))
  <2>1. PICK i \in 1 .. Len(s) : x = s[i]
    BY <1>2
  <2>2. CASE i # 1
    <3>1. i - 1 \in 1 .. Len(Tail(s)) /\ (i - 1) + 1 = i
      BY <1>1, <2>2
    <3>. QED BY <1>1, <1>2, <2>1, <3>1
  <2>. QED BY <1>1, <2>1, <2>2
<1>4. ASSUME NEW i \in 1 .. Len(Tail(s)) PROVE Tail(s)[i] \in ToSet(s)
  <2>1. i + 1 \in 1 .. Len(s)
    BY <1>1
  <2>. QED BY <1>1, <1>2, <2>1
<1>5. Head(s) \in ToSet(s)
  BY <1>1, <1>2
<1>. QED BY <1>1, <1>2, <1>3, <1>4, <1>5

LEMMA IncreasingTail ==
    ASSUME NEW s \in Seq(Items), s # <<>>, Increasing(s)
    PROVE  Increasing(Tail(s)) /\ \A t \in ToSet(Tail(s)) : Head(s).n < t.n
<1>1. /\ Len(s) \in Nat \ {0} /\ Head(s) = s[1] /\ Tail(s) \in Seq(Items)
      /\ Len(Tail(s)) = Len(s) - 1
      /\ \A i \in 1 .. Len(Tail(s)) : Tail(s)[i] = s[i + 1]
  BY HeadTailProperties, EmptySeq
<1>2. /\ DOMAIN s = 1 .. Len(s) /\ DOMAIN Tail(s) = 1 .. Len(Tail(s))
      /\ ToSet(Tail(s)) = {Tail(s)[i] : i \in 1 .. Len(Tail(s))}
  BY <1>1, SetOfSeq
<1>3. ASSUME NEW i \in 1 .. Len(Tail(s)), NEW j \in 1 .. Len(Tail(s)), i < j
      PROVE  Tail(s)[i].n < Tail(s)[j].n
  <2>1. i + 1 \in DOMAIN s /\ j + 1 \in DOMAIN s /\ i + 1 < j + 1
    BY <1>1, <1>2, <1>3
  <2>. QED BY <1>1, <2>1 DEF Increasing
<1>4. ASSUME NEW i \in 1 .. Len(Tail(s)) PROVE s[1].n < Tail(s)[i].n
  <2>1. 1 \in DOMAIN s /\ i + 1 \in DOMAIN s /\ 1 < i + 1
    BY <1>1, <1>2
  <2>. QED BY <1>1, <2>1 DEF Increasing
<1>. QED BY <1>1, <1>2, <1>3, <1>4 DEF Increasing

LEMMA IncreasingAppend ==
    ASSUME NEW S, NEW s \in Seq(S), Increasing(s), NEW e \in S,
           \A t \in ToSet(s) : t.n < e.n
    PROVE  Increasing(Append(s, e))
<1>. DEFINE longer == Append(s, e)
<1>1. /\ longer \in Seq(S) /\ Len(longer) = Len(s) + 1 /\ Len(s) \in Nat
      /\ \A i \in 1 .. Len(s) : longer[i] = s[i]
      /\ longer[Len(s) + 1] = e
  BY AppendProperties
<1>. HIDE DEF longer
<1>2. /\ DOMAIN s = 1 .. Len(s) /\ DOMAIN longer = 1 .. Len(s) + 1
      /\ ToSet(s) = {s[i] : i \in 1 .. Len(s)}
  BY <1>1, SetOfSeq
<1>3. ASSUME NEW i \in 1 .. Len(s) + 1, NEW j \in 1 .. Len(s) + 1, i < j
      PROVE  longer[i].n < longer[j].n
  <2>1. i \in 1 .. Len(s) /\ (j \in 1 .. Len(s) \/ j = Len(s) + 1)
    BY <1>1, <1>3
  <2>. QED BY <1>1, <1>2, <1>3, <2>1 DEF Increasing
<1>4. Increasing(longer)
  BY <1>2, <1>3 DEF Increasing
<1>. QED BY <1>4 DEF longer

LEMMA IncreasingEmpty == Increasing(<<>>)
BY DEF Increasing

-----------------------------------------------------------------------------
(* The live items, under each operation of the queue *)

LEMMA LivePush ==
    ASSUME TypeOK, NEW item \in Items, Push(item)
    PROVE  Live \in Seq(Items) /\ Live' = Append(Live, item) /\ dropped' = dropped
BY AppendLive, LiveFacts DEF Push

LEMMA LivePushDropping ==
    ASSUME TypeOK, NEW item \in Items, PushDropping(item)
    PROVE  /\ Live \in Seq(Items) /\ Live # <<>>
           /\ Live' = Append(Tail(Live), item) /\ dropped' = dropped + 1
<1>1. Size > 0 /\ <<item>> \in Seq(Items)
  BY QueueAssumption DEF PushDropping, Overflowing, Size, TypeOK
<1>2. Live' = Tail(Live) \o <<item>>
  BY <1>1, AdvanceLive DEF PushDropping
<1>3. Live \in Seq(Items) /\ Live # <<>>
  BY <1>1, LiveFacts
<1>4. Tail(Live) \o <<item>> = Append(Tail(Live), item)
  BY <1>3, HeadTailProperties, AppendIsConcat
<1>. QED BY <1>2, <1>3, <1>4 DEF PushDropping

LEMMA LivePop ==
    ASSUME TypeOK, Pop
    PROVE  /\ Live \in Seq(Items) /\ Live # <<>> /\ Live' = Tail(Live)
           /\ items[head + 1] = Head(Live) /\ dropped' = dropped
<1>1. Size > 0 /\ <<>> \in Seq(Items)
  BY DEF Pop
<1>2. Live' = Tail(Live) \o <<>>
  BY <1>1, AdvanceLive DEF Pop
<1>3. Live \in Seq(Items) /\ Live # <<>> /\ items[head + 1] = Head(Live)
  BY <1>1, LiveFacts
<1>4. Tail(Live) \o <<>> = Tail(Live)
  BY <1>3, HeadTailProperties, ConcatEmptySeq
<1>. QED BY <1>2, <1>3, <1>4 DEF Pop

LEMMA LiveReinit == ASSUME Reinit PROVE Live' = <<>> /\ dropped' = 0
BY SubSeqEmpty DEF Reinit, Live

LEMMA LiveSame == ASSUME UNCHANGED vars PROVE Live' = Live /\ dropped' = dropped
BY DEF vars, Live

-----------------------------------------------------------------------------
(* What each step of a handler does to its request *)

LEMMA SetRequest ==
    ASSUME handlers \in [Handlers -> Request], NEW h \in Handlers, NEW r \in Request,
           handlers' = [handlers EXCEPT ![h] = r]
    PROVE  /\ handlers' \in [Handlers -> Request] /\ handlers'[h] = r
           /\ \A g \in Handlers \ {h} : handlers'[g] = handlers[g]
OBVIOUS

LEMMA NoRequestType ==
    /\ NoRequest \in Request /\ NoRequest.pc = "free"
    /\ NoRequest.todo = <<>> /\ NoRequest.fresh = <<>>
BY DEF NoRequest, Request

LEMMA PostEffect ==
    ASSUME TickTypeOK, NEW h \in Handlers, PostBatch(h)
    PROVE  /\ handlers' \in [Handlers -> Request]
           /\ \A g \in Handlers \ {h} : handlers'[g] = handlers[g]
           /\ handlers'[h].pc = "dedupe" /\ handlers'[h].todo = batch
           /\ handlers'[h].fresh = <<>>
           /\ handlers[h] = NoRequest /\ ea = "fill" /\ ea' = h
           /\ UNCHANGED <<vars, market, event, captured, batch, spool, keys, table,
                          announced, faults, abandoned>>
<1>1. [pc |-> "dedupe", todo |-> batch, fresh |-> <<>>] \in Request
  BY DEF Request, TickTypeOK
<1>2. handlers' = [handlers EXCEPT ![h] = [pc |-> "dedupe", todo |-> batch, fresh |-> <<>>]]
  BY DEF PostBatch
<1>3. /\ handlers' \in [Handlers -> Request]
      /\ handlers'[h] = [pc |-> "dedupe", todo |-> batch, fresh |-> <<>>]
      /\ \A g \in Handlers \ {h} : handlers'[g] = handlers[g]
  BY <1>1, <1>2, SetRequest DEF TickTypeOK
<1>4. /\ handlers[h] = NoRequest /\ ea = "fill" /\ ea' = h
      /\ UNCHANGED <<vars, market, event, captured, batch, spool, keys, table,
                     announced, faults, abandoned>>
  BY DEF PostBatch, Filled, Waiting, NoFault
<1>. QED BY <1>3, <1>4

LEMMA DedupeEffect ==
    ASSUME TickTypeOK, NEW h \in Handlers, Dedupe(h)
    PROVE  \E t \in Items :
              /\ handlers[h].pc = "dedupe" /\ handlers[h].todo # <<>>
              /\ t = Head(handlers[h].todo)
              /\ keys' = keys \union {t.ms}
              /\ handlers' \in [Handlers -> Request]
              /\ \A g \in Handlers \ {h} : handlers'[g] = handlers[g]
              /\ handlers'[h].pc = "dedupe"
              /\ handlers'[h].todo = Tail(handlers[h].todo)
              /\ \/ t.ms \in keys /\ handlers'[h].fresh = handlers[h].fresh
                 \/ t.ms \notin keys /\ handlers'[h].fresh = Append(handlers[h].fresh, t)
              /\ UNCHANGED <<vars, market, terminal, table, announced, faults, abandoned>>
<1>. DEFINE r == handlers[h]
            t == Head(r.todo)
            more == r.fresh \o (IF t.ms \in keys THEN <<>> ELSE <<t>>)
            new == [r EXCEPT !.todo = Tail(r.todo), !.fresh = more]
<1>1. /\ r \in Request /\ r.pc = "dedupe" /\ r.todo # <<>>
      /\ keys' = keys \union {t.ms}
      /\ handlers' = [handlers EXCEPT ![h] = new]
      /\ UNCHANGED <<vars, market, terminal, table, announced, faults, abandoned>>
  BY DEF TickTypeOK, Dedupe, Running, NoFault
<1>2. r.todo \in Seq(Items) /\ r.fresh \in Seq(Items)
  BY <1>1 DEF Request
<1>3. t \in Items /\ Tail(r.todo) \in Seq(Items)
  BY <1>1, <1>2, HeadTailProperties
<1>4. /\ more \in Seq(Items)
      /\ \/ t.ms \in keys /\ more = r.fresh
         \/ t.ms \notin keys /\ more = Append(r.fresh, t)
  <2>1. CASE t.ms \in keys
    BY <1>2, <2>1, ConcatEmptySeq
  <2>2. CASE t.ms \notin keys
    <3>1. Append(r.fresh, t) = r.fresh \o <<t>> /\ Append(r.fresh, t) \in Seq(Items)
      BY <1>2, <1>3, AppendIsConcat, AppendProperties
    <3>. QED BY <2>2, <3>1
  <2>. QED BY <2>1, <2>2
<1>. HIDE DEF more, t
<1>5. /\ new \in Request /\ new.pc = "dedupe" /\ new.todo = Tail(r.todo)
      /\ new.fresh = more
  BY <1>1, <1>3, <1>4 DEF Request
<1>. HIDE DEF new
<1>6. /\ handlers' \in [Handlers -> Request] /\ handlers'[h] = new
      /\ \A g \in Handlers \ {h} : handlers'[g] = handlers[g]
  BY <1>1, <1>5, SetRequest DEF TickTypeOK
<1>7. t = Head(handlers[h].todo)
  BY DEF t
<1>. QED BY <1>1, <1>3, <1>4, <1>5, <1>6, <1>7

LEMMA PcEffect ==
    ASSUME TickTypeOK, NEW h \in Handlers, NEW pc \in {"free", "dedupe", "announce", "reply"},
           handlers' = [handlers EXCEPT ![h].pc = pc]
    PROVE  /\ handlers' \in [Handlers -> Request]
           /\ \A g \in Handlers \ {h} : handlers'[g] = handlers[g]
           /\ handlers'[h].pc = pc /\ handlers'[h].todo = handlers[h].todo
           /\ handlers'[h].fresh = handlers[h].fresh
<1>. DEFINE new == [handlers[h] EXCEPT !.pc = pc]
<1>1. /\ new \in Request /\ new.pc = pc /\ new.todo = handlers[h].todo
      /\ new.fresh = handlers[h].fresh
  BY DEF TickTypeOK, Request
<1>2. handlers' = [handlers EXCEPT ![h] = new]
  OBVIOUS
<1>. HIDE DEF new
<1>. QED BY <1>1, <1>2, SetRequest DEF TickTypeOK

LEMMA FreeEffect ==
    ASSUME TickTypeOK, NEW h \in Handlers, handlers' = [handlers EXCEPT ![h] = NoRequest]
    PROVE  /\ handlers' \in [Handlers -> Request] /\ handlers'[h] = NoRequest
           /\ \A g \in Handlers \ {h} : handlers'[g] = handlers[g]
BY NoRequestType, SetRequest DEF TickTypeOK

-----------------------------------------------------------------------------
(* DedupeInv is inductive *)

LEMMA InitDedupe == TickInit => DedupeInv
<1>. SUFFICES ASSUME TickInit PROVE DedupeInv
  OBVIOUS
<1>1. TypeOK /\ market \in Items /\ Live = <<>>
  BY InitFifo, MarketInit, SubSeqEmpty DEF TickInit, QInv, MarketInv, Init, Live
<1>2. handlers \in [Handlers -> Request] /\ \A h \in Handlers : handlers[h] = NoRequest
  BY NoRequestType DEF TickInit
<1>3. Len(<<>>) <= MaxBatch /\ faults \in 0 .. MaxFaults /\ abandoned \in 0 .. faults
  BY TickAssumption DEF TickInit
<1>5. /\ batch \in Seq(Items) /\ Len(batch) <= MaxBatch /\ spool \in Seq(Seq(Items))
      /\ announced \in Seq(table)
  BY <1>3, EmptySeq DEF TickInit
<1>6. \A h \in Handlers : handlers[h].pc = "free"
  BY <1>2, NoRequestType
<1>7. /\ event = FALSE /\ captured = {} /\ ea = "idle" /\ batch = <<>>
      /\ keys = {} /\ table = {}
  BY DEF TickInit
<1>4. TickTypeOK
  BY <1>1, <1>2, <1>3, <1>5, <1>6, <1>7 DEF TickTypeOK
<1>. QED BY <1>1, <1>2, <1>4, NoRequestType, SetOfEmpty DEF TickInit, DedupeInv, Taken

\* A step of the terminal that leaves the API alone
LEMMA TerminalDedupe ==
    ASSUME DedupeInv, TypeOK', MarketInv', UNCHANGED api,
           event' \in BOOLEAN, captured \subseteq captured', captured' \subseteq Items,
           \A t \in captured' : t.n <= market'.n /\ (event' => t.n < market'.n),
           ea' \in {"idle", "fill"} \union Handlers, ea' = "idle" => batch' = <<>>,
           batch' \in Seq(Items), Len(batch') <= MaxBatch,
           ToSet(Live)' \union ToSet(batch)' \subseteq captured',
           spool' \in Seq(Seq(Items)),
           faults' \in 0 .. MaxFaults, abandoned' \in 0 .. faults'
    PROVE  DedupeInv'
<1>1. TickTypeOK'
  BY DEF DedupeInv, TickTypeOK, MarketInv, api
<1>. QED BY <1>1 DEF DedupeInv, MarketInv, api, Taken

LEMMA FaultStep ==
    ASSUME faults \in 0 .. MaxFaults, abandoned \in 0 .. faults, Fault
    PROVE  /\ faults' \in 0 .. MaxFaults /\ faults' # 0
           /\ abandoned \in 0 .. faults' /\ abandoned + 1 \in 0 .. faults'
<1>1. MaxFaults \in Nat
  BY TickAssumption
<1>. QED BY <1>1 DEF Fault

\* The steps of the terminal that no request is part of, and its end
LEMMA TerminalSteps ==
    ASSUME DedupeInv, TypeOK', MarketInv',
           (\E step \in {0, 1} : Quote(step)) \/ OnTick \/ OnTimer \/ Fill
              \/ Refused \/ Timeout \/ Reload \/ TerminalDies
    PROVE  DedupeInv'
<1>0. /\ TickTypeOK /\ TypeOK /\ market \in Items /\ captured \subseteq Items
      /\ ToSet(Live) \union ToSet(batch) \subseteq captured
      /\ \A t \in captured : t.n <= market.n /\ (event => t.n < market.n)
      /\ event \in BOOLEAN /\ ea \in {"idle", "fill"} \union Handlers
      /\ (ea = "idle" => batch = <<>>) /\ batch \in Seq(Items) /\ Len(batch) <= MaxBatch
      /\ spool \in Seq(Seq(Items))
      /\ faults \in 0 .. MaxFaults /\ abandoned \in 0 .. faults
      /\ \A t \in Items : t.n \in Nat /\ t.ms \in Nat
      /\ Len(<<>>) <= MaxBatch /\ <<>> \in Seq(Items)
  BY TickAssumption, EmptySeq DEF DedupeInv, TickTypeOK
<1>1. ASSUME NEW step \in {0, 1}, Quote(step) PROVE DedupeInv'
  <2>1. /\ UNCHANGED api /\ event' = TRUE /\ captured' = captured /\ ea' = ea
        /\ batch' = batch /\ spool' = spool /\ faults' = faults /\ abandoned' = abandoned
        /\ Live' = Live
    BY <1>1, LiveSame DEF Quote, NoFault
  <2>2. market'.n = market.n + 1
    BY <1>1 DEF Quote
  <2>3. \A t \in captured : t.n < market'.n
    <3>1. \A n \in Nat : n <= market.n => n < market.n + 1
      BY <1>0
    <3>. QED BY <1>0, <2>2, <3>1
  <2>4. \A t \in captured : t.n <= market'.n
    <3>1. \A n \in Nat : n <= market.n => n <= market.n + 1
      BY <1>0
    <3>. QED BY <1>0, <2>2, <3>1
  <2>. QED BY <1>0, <2>1, <2>3, <2>4, TerminalDedupe
<1>2. CASE OnTick
  <2>1. /\ UNCHANGED api /\ event' = FALSE /\ captured' = captured \union {market}
        /\ ea' = ea /\ batch' = batch /\ spool' = spool /\ market' = market
        /\ faults' = faults /\ abandoned' = abandoned
    BY <1>2 DEF OnTick, NoFault
  <2>2. \E base \in {Live, Tail(Live)} :
           Live' = Append(base, market) /\ base \in Seq(Items) /\ ToSet(base) \subseteq ToSet(Live)
    <3>1. CASE Push(market)
      BY <1>0, <3>1, LivePush
    <3>2. CASE PushDropping(market)
      BY <1>0, <3>2, LivePushDropping, SetOfTail
    <3>. QED BY <1>2, <3>1, <3>2 DEF OnTick
  <2>3. ToSet(Live)' \subseteq captured'
    <3>1. PICK base \in {Live, Tail(Live)} :
             Live' = Append(base, market) /\ base \in Seq(Items) /\ ToSet(base) \subseteq ToSet(Live)
      BY <2>2
    <3>2. ToSet(Append(base, market)) = ToSet(base) \union {market}
      BY <1>0, <3>1, SetOfAppend
    <3>3. ToSet(Live') = ToSet(base) \union {market}
      BY <3>1, <3>2
    <3>. QED BY <1>0, <2>1, <3>1, <3>3 DEF ToSet
  <2>4. \A t \in captured' : t.n <= market.n
    BY <1>0, <2>1
  <2>. QED BY <1>0, <2>1, <2>3, <2>4, TerminalDedupe
<1>3. CASE OnTimer
  <2>1. /\ UNCHANGED api /\ event' = event /\ captured' = captured /\ ea' = "fill"
        /\ batch' = batch /\ spool' = spool /\ market' = market
        /\ faults' = faults /\ abandoned' = abandoned /\ Live' = Live
    BY <1>3, LiveSame DEF OnTimer, NoFault
  <2>. QED BY <1>0, <2>1, TerminalDedupe
<1>4. CASE Fill
  <2>1. /\ UNCHANGED api /\ event' = event /\ captured' = captured /\ ea' = "fill"
        /\ batch' = Append(batch, Head(Live)) /\ spool' = spool /\ market' = market
        /\ faults' = faults /\ abandoned' = abandoned /\ Live' = Tail(Live)
        /\ Live \in Seq(Items) /\ Live # <<>> /\ Len(batch) < MaxBatch
    BY <1>0, <1>4, LivePop DEF Fill, NoFault
  <2>2. Head(Live) \in Items /\ ToSet(Live) = {Head(Live)} \union ToSet(Tail(Live))
    BY <2>1, SetOfTail
  <2>3. /\ Append(batch, Head(Live)) \in Seq(Items)
        /\ Len(Append(batch, Head(Live))) = Len(batch) + 1
        /\ ToSet(Append(batch, Head(Live))) = ToSet(batch) \union {Head(Live)}
    BY <1>0, <2>2, SetOfAppend, AppendProperties
  <2>4. Len(batch) + 1 <= MaxBatch
    <3>1. Len(batch) \in Nat /\ MaxBatch \in Nat
      BY <1>0, TickAssumption
    <3>. QED BY <2>1, <3>1
  <2>5. /\ ToSet(batch') = ToSet(batch) \union {Head(Live)}
        /\ ToSet(Live') = ToSet(Tail(Live))
    BY <2>1, <2>3
  <2>6. ToSet(Live)' \union ToSet(batch)' \subseteq captured'
    BY <1>0, <2>1, <2>2, <2>5 DEF ToSet
  <2>. QED BY <1>0, <2>1, <2>3, <2>4, <2>6, TerminalDedupe
<1>5. ASSUME SpoolBatch
      PROVE  /\ ea' = "idle" /\ batch' = <<>> /\ spool' \in Seq(Seq(Items))
             /\ event' = event /\ captured' = captured /\ market' = market /\ Live' = Live
             /\ dropped' = dropped
  <2>1. Append(spool, batch) \in Seq(Seq(Items))
    BY <1>0, AppendProperties
  <2>. QED BY <1>5, <2>1, LiveSame DEF SpoolBatch
<1>6. CASE Refused \/ Timeout
  <2>1. SpoolBatch /\ Fault /\ UNCHANGED api /\ abandoned' \in {abandoned, abandoned + 1}
    BY <1>6 DEF Refused, Timeout
  <2>2. faults' \in 0 .. MaxFaults /\ abandoned' \in 0 .. faults'
    BY <1>0, <2>1, FaultStep
  <2>. QED BY <1>0, <1>5, <2>1, <2>2, SetOfEmpty, TerminalDedupe
<1>7. CASE Reload
  <2>1. /\ UNCHANGED api /\ event' = event /\ captured' = captured /\ ea' = ea
        /\ batch' = batch /\ market' = market /\ abandoned' = abandoned
        /\ Fault /\ Live' = <<>>
        /\ spool' = spool \o [k \in DOMAIN Saved |-> <<Saved[k]>>]
    BY <1>7, LiveReinit DEF Reload
  <2>2. faults' \in 0 .. MaxFaults /\ abandoned' \in 0 .. faults'
    BY <1>0, <2>1, FaultStep
  <2>3. [k \in DOMAIN Saved |-> <<Saved[k]>>] \in Seq(Seq(Items))
    <3>1. Live \in Seq(Items) /\ Len(Live) = Size /\ Size \in Nat /\ DeinitGuard \in Nat
      BY <1>0, TickAssumption, LiveFacts DEF Size, TypeOK
    <3>2. PICK n \in Nat : n <= Size /\ Saved = SubSeq(Live, 1, n)
      BY <3>1 DEF Saved
    <3>3. \A i \in 1 .. n : Live[i] \in Items
      BY <3>1, <3>2, ElementOfSeq
    <3>4. Saved \in Seq(Items)
      BY <3>2, <3>3, SubSeqProperties
    <3>5. DOMAIN Saved = 1 .. Len(Saved) /\ Len(Saved) \in Nat
          /\ \A k \in 1 .. Len(Saved) : Saved[k] \in Items
      BY <3>4, LenProperties, ElementOfSeq
    <3>6. [k \in DOMAIN Saved |-> <<Saved[k]>>] \in [1 .. Len(Saved) -> Seq(Items)]
      BY <3>5
    <3>. QED BY <3>5, <3>6, SeqDef
  <2>4. spool' \in Seq(Seq(Items))
    BY <1>0, <2>1, <2>3, ConcatProperties
  <2>. QED BY <1>0, <2>1, <2>2, <2>4, SetOfEmpty, TerminalDedupe
<1>8. CASE TerminalDies
  <2>1. /\ UNCHANGED api /\ event' = FALSE /\ captured' = captured /\ ea' = "idle"
        /\ batch' = <<>> /\ market' = market /\ spool' = spool
        /\ Fault /\ Live' = <<>> /\ abandoned' \in {abandoned, abandoned + 1}
    BY <1>0, <1>8, LiveReinit DEF TerminalDies
  <2>2. faults' \in 0 .. MaxFaults /\ abandoned' \in 0 .. faults'
    BY <1>0, <2>1, FaultStep
  <2>. QED BY <1>0, <2>1, <2>2, SetOfEmpty, TerminalDedupe
<1>. QED BY <1>1, <1>2, <1>3, <1>4, <1>6, <1>7, <1>8

\* A step of a request: the terminal at most stops waiting for it.
LEMMA RequestDedupe ==
    ASSUME DedupeInv, TypeOK', UNCHANGED <<vars, market, event, captured>>,
           handlers' \in [Handlers -> Request],
           ea' \in {"idle", "fill"} \union Handlers, ea' = "idle" => batch' = <<>>,
           batch' \in {batch, <<>>}, spool' \in Seq(Seq(Items)),
           keys' \subseteq 0 .. MaxQuotes, table' \subseteq captured,
           announced' \in Seq(table'),
           faults' \in 0 .. MaxFaults, abandoned' \in 0 .. faults',
           \A row \in table' : row.ms \in keys',
           \A h \in Handlers :
              /\ handlers'[h].pc \in {"announce", "reply"} => handlers'[h].fresh # <<>>
              /\ handlers'[h].pc = "free" => handlers'[h] = NoRequest
              /\ handlers'[h].pc # "dedupe" => handlers'[h].todo = <<>>
              /\ ToSet(handlers'[h].todo) \union ToSet(handlers'[h].fresh) \subseteq captured
              /\ Taken(h)'
    PROVE  DedupeInv'
<1>1. Live' = Live
  BY LiveSame
<1>2. /\ batch' \in Seq(Items) /\ Len(batch') <= MaxBatch
      /\ ToSet(batch') \subseteq captured
  <2>1. Len(<<>>) <= MaxBatch /\ <<>> \in Seq(Items)
    BY TickAssumption, EmptySeq
  <2>. QED BY <2>1, SetOfEmpty DEF DedupeInv, TickTypeOK
<1>3. TickTypeOK'
  BY <1>2 DEF DedupeInv, TickTypeOK
<1>4. ToSet(Live)' \union ToSet(batch)' \subseteq captured'
  BY <1>1, <1>2 DEF DedupeInv, ToSet
<1>5. \A h \in Handlers : ToSet(handlers[h].todo)' \union ToSet(handlers[h].fresh)' \subseteq captured'
  BY DEF ToSet
<1>. QED BY <1>3, <1>4, <1>5 DEF DedupeInv

\* What there is to show of a request after a step.
LEMMA TakenBy ==
    ASSUME NEW h \in Handlers,
           \A t \in ToSet(handlers'[h].fresh) : t.ms \in keys',
           handlers'[h].pc \in {"announce", "reply"} =>
              ToSet(handlers'[h].fresh) \subseteq table',
           handlers'[h].pc \notin {"announce", "reply"} =>
              \A t \in ToSet(handlers'[h].fresh) :
                 /\ \A row \in table' : row.ms # t.ms
                 /\ \A g \in Handlers \ {h} : handlers'[g].pc = "dedupe" =>
                       \A u \in ToSet(handlers'[g].fresh) : u.ms # t.ms
    PROVE  Taken(h)'
BY DEF Taken, ToSet

LEMMA RequestSteps ==
    ASSUME DedupeInv, TypeOK', NEW h \in Handlers,
           PostBatch(h) \/ Handle(h) \/ HandlerFails(h)
    PROVE  DedupeInv'
<1>0. /\ TickTypeOK /\ captured \subseteq Items
      /\ ToSet(Live) \union ToSet(batch) \subseteq captured
      /\ ea \in {"idle", "fill"} \union Handlers
      /\ (ea = "idle" => batch = <<>>)
      /\ batch \in Seq(Items) /\ spool \in Seq(Seq(Items))
      /\ handlers \in [Handlers -> Request]
      /\ faults \in 0 .. MaxFaults /\ abandoned \in 0 .. faults
      /\ keys \subseteq 0 .. MaxQuotes /\ table \subseteq captured
      /\ announced \in Seq(table) /\ \A row \in table : row.ms \in keys
      /\ \A g \in Handlers :
            /\ handlers[g].pc \in {"announce", "reply"} => handlers[g].fresh # <<>>
            /\ handlers[g].pc = "free" => handlers[g] = NoRequest
            /\ handlers[g].pc # "dedupe" => handlers[g].todo = <<>>
            /\ ToSet(handlers[g].todo) \union ToSet(handlers[g].fresh) \subseteq captured
            /\ handlers[g].todo \in Seq(Items) /\ handlers[g].fresh \in Seq(Items)
            /\ handlers[g].pc \in {"free", "dedupe", "announce", "reply"}
            /\ Taken(g)
      /\ "idle" \notin Handlers /\ "fill" \notin Handlers
  BY TickAssumption DEF DedupeInv, TickTypeOK, Request
<1>1. CASE PostBatch(h)
  <2>1. /\ handlers' \in [Handlers -> Request]
        /\ \A g \in Handlers \ {h} : handlers'[g] = handlers[g]
        /\ handlers'[h].pc = "dedupe" /\ handlers'[h].todo = batch
        /\ handlers'[h].fresh = <<>> /\ ea = "fill" /\ ea' = h
        /\ UNCHANGED <<vars, market, event, captured, batch, spool, keys, table,
                       announced, faults, abandoned>>
    BY <1>0, <1>1, PostEffect
  <2>2. ASSUME NEW g \in Handlers PROVE Taken(g)'
    <3>1. Taken(g) /\ ToSet(handlers'[h].fresh) = {}
      BY <1>0, <2>1, SetOfEmpty
    <3>2. CASE g = h
      BY <2>1, <3>1, <3>2, TakenBy
    <3>3. CASE g # h
      BY <2>1, <3>1, <3>3, TakenBy DEF Taken
    <3>. QED BY <3>2, <3>3
  <2>. QED BY <1>0, <2>1, <2>2, SetOfEmpty, RequestDedupe
<1>2. CASE Dedupe(h)
  <2>1. PICK t \in Items :
              /\ handlers[h].pc = "dedupe" /\ handlers[h].todo # <<>>
              /\ t = Head(handlers[h].todo)
              /\ keys' = keys \union {t.ms}
              /\ handlers' \in [Handlers -> Request]
              /\ \A g \in Handlers \ {h} : handlers'[g] = handlers[g]
              /\ handlers'[h].pc = "dedupe"
              /\ handlers'[h].todo = Tail(handlers[h].todo)
              /\ \/ t.ms \in keys /\ handlers'[h].fresh = handlers[h].fresh
                 \/ t.ms \notin keys /\ handlers'[h].fresh = Append(handlers[h].fresh, t)
              /\ UNCHANGED <<vars, market, terminal, table, announced, faults, abandoned>>
    BY <1>0, <1>2, DedupeEffect
  <2>2. /\ ToSet(handlers[h].todo) = {t} \union ToSet(Tail(handlers[h].todo))
        /\ ToSet(Append(handlers[h].fresh, t)) = ToSet(handlers[h].fresh) \union {t}
    BY <1>0, <2>1, SetOfTail, SetOfAppend
  <2>3. /\ ToSet(handlers'[h].todo) \subseteq captured /\ t \in captured
        /\ \/ t.ms \in keys /\ ToSet(handlers'[h].fresh) = ToSet(handlers[h].fresh)
           \/ t.ms \notin keys /\ ToSet(handlers'[h].fresh) = ToSet(handlers[h].fresh) \union {t}
    BY <1>0, <2>1, <2>2
  <2>4. keys' \subseteq 0 .. MaxQuotes
    BY <1>0, <2>1, TickAssumption
  <2>5. ASSUME NEW g \in Handlers PROVE Taken(g)'
    <3>1. /\ Taken(g) /\ Taken(h) /\ \A row \in table : row.ms \in keys
          /\ \A k \in Handlers : \A u \in ToSet(handlers[k].fresh) : u.ms \in keys
      BY <1>0 DEF Taken
    <3>2. CASE g = h
      BY <2>1, <2>3, <3>1, <3>2, TakenBy DEF Taken
    <3>3. CASE g # h
      <4>1. /\ handlers'[g] = handlers[g]
            /\ \A k \in Handlers \ {g} : handlers'[k].pc = "dedupe" =>
                  /\ handlers[k].pc = "dedupe"
                  /\ \A u \in ToSet(handlers'[k].fresh) :
                        u \in ToSet(handlers[k].fresh) \/ u.ms \notin keys
        BY <2>1, <2>3, <3>3
      <4>. QED BY <2>1, <3>1, <4>1, TakenBy DEF Taken
    <3>. QED BY <3>2, <3>3
  <2>6. UNCHANGED <<vars, market, event, captured, ea, batch, spool, table, announced,
                    faults, abandoned>>
    BY <2>1 DEF terminal
  <2>. QED BY <1>0, <2>1, <2>3, <2>4, <2>5, <2>6, RequestDedupe
<1>3. CASE Insert(h)
  <2>1. /\ handlers[h].pc = "dedupe" /\ handlers[h].todo = <<>> /\ handlers[h].fresh # <<>>
        /\ table' = table \union
              {t \in ToSet(handlers[h].fresh) : \A row \in table : row.ms # t.ms}
        /\ handlers' = [handlers EXCEPT ![h].pc = "announce"]
        /\ UNCHANGED <<vars, market, event, captured, ea, batch, spool, keys, announced,
                       faults, abandoned>>
    BY <1>3 DEF Insert, Running, terminal, NoFault
  <2>2. /\ handlers' \in [Handlers -> Request]
        /\ \A g \in Handlers \ {h} : handlers'[g] = handlers[g]
        /\ handlers'[h].pc = "announce" /\ handlers'[h].todo = handlers[h].todo
        /\ handlers'[h].fresh = handlers[h].fresh
    BY <1>0, <2>1, PcEffect
  <2>3. table' = table \union ToSet(handlers[h].fresh)
    BY <1>0, <2>1 DEF Taken
  <2>4. table' \subseteq captured /\ announced' \in Seq(table')
        /\ \A row \in table' : row.ms \in keys'
    <3>1. table \subseteq table'
      BY <2>3
    <3>2. announced \in Seq(table')
      BY <1>0, <3>1, SeqMonotonic
    <3>. QED BY <1>0, <2>1, <2>3, <3>2 DEF Taken
  <2>5. ASSUME NEW g \in Handlers PROVE Taken(g)'
    <3>1. CASE g = h
      BY <1>0, <2>1, <2>2, <2>3, <3>1 DEF Taken
    <3>2. CASE g # h
      BY <1>0, <2>1, <2>2, <2>3, <3>2 DEF Taken
    <3>. QED BY <3>1, <3>2
  <2>. QED BY <1>0, <2>1, <2>2, <2>4, <2>5, RequestDedupe
<1>4. CASE Announce(h)
  <2>1. /\ handlers[h].pc = "announce"
        /\ announced' = Append(announced, Last(handlers[h].fresh))
        /\ handlers' = [handlers EXCEPT ![h].pc = "reply"]
        /\ UNCHANGED <<vars, market, event, captured, ea, batch, spool, keys, table,
                       faults, abandoned>>
    BY <1>4 DEF Announce, Running, terminal, NoFault
  <2>2. /\ handlers' \in [Handlers -> Request]
        /\ \A g \in Handlers \ {h} : handlers'[g] = handlers[g]
        /\ handlers'[h].pc = "reply" /\ handlers'[h].todo = handlers[h].todo
        /\ handlers'[h].fresh = handlers[h].fresh
    BY <1>0, <2>1, PcEffect
  <2>3. Last(handlers[h].fresh) \in table
    <3>1. handlers[h].fresh \in Seq(Items) /\ handlers[h].fresh # <<>> /\ Taken(h)
      BY <1>0, <2>1
    <3>2. Last(handlers[h].fresh) \in ToSet(handlers[h].fresh)
      BY <3>1, SetOfSeq
    <3>. QED BY <2>1, <3>1, <3>2 DEF Taken
  <2>4. announced' \in Seq(table')
    BY <1>0, <2>1, <2>3, AppendProperties
  <2>5. ASSUME NEW g \in Handlers PROVE Taken(g)'
    <3>0. Taken(g)
      BY <1>0
    <3>1. \A k \in Handlers :
             /\ handlers'[k].fresh = handlers[k].fresh
             /\ \/ handlers'[k].pc = handlers[k].pc
                \/ handlers[k].pc = "announce" /\ handlers'[k].pc = "reply"
      BY <2>1, <2>2
    <3>. QED BY <2>1, <3>0, <3>1, TakenBy DEF Taken
  <2>. QED BY <1>0, <2>1, <2>2, <2>4, <2>5, RequestDedupe
\* The request ends.
<1>5. ASSUME handlers' = [handlers EXCEPT ![h] = NoRequest],
             UNCHANGED <<vars, market, event, captured, keys, table, announced>>,
             ea' \in {ea, "idle"}, ea' = "idle" => batch' = <<>>, batch' \in {batch, <<>>},
             spool' \in Seq(Seq(Items)),
             faults' \in 0 .. MaxFaults, abandoned' \in 0 .. faults'
      PROVE  DedupeInv'
  <2>1. /\ handlers' \in [Handlers -> Request] /\ handlers'[h] = NoRequest
        /\ \A g \in Handlers \ {h} : handlers'[g] = handlers[g]
    BY <1>0, <1>5, FreeEffect
  <2>2. ASSUME NEW g \in Handlers PROVE Taken(g)'
    BY <1>0, <1>5, <2>1, NoRequestType, SetOfEmpty DEF Taken
  <2>. QED BY <1>0, <1>5, <2>1, <2>2, NoRequestType, SetOfEmpty, RequestDedupe
<1>6. CASE Reply(h)
  <2>1. ea' \in {ea, "idle"} /\ (ea' = "idle" => batch' = <<>>) /\ batch' \in {batch, <<>>}
    BY <1>0, <1>6 DEF Reply, Answered
  <2>2. /\ handlers' = [handlers EXCEPT ![h] = NoRequest]
        /\ UNCHANGED <<vars, market, event, captured, spool, keys, table, announced,
                       faults, abandoned>>
    BY <1>6 DEF Reply, NoFault
  <2>. QED BY <1>0, <1>5, <2>1, <2>2
<1>7. CASE HandlerFails(h)
  <2>1. /\ handlers' = [handlers EXCEPT ![h] = NoRequest] /\ Fault
        /\ UNCHANGED <<vars, market, event, captured, keys, table, announced, abandoned>>
        /\ IF ea = h THEN ea' = "idle" /\ batch' = <<>> /\ spool' = Append(spool, batch)
           ELSE UNCHANGED <<ea, batch, spool>>
    BY <1>7 DEF HandlerFails, SpoolBatch, terminal
  <2>2. Append(spool, batch) \in Seq(Seq(Items))
    BY <1>0, AppendProperties
  <2>3. faults' \in 0 .. MaxFaults /\ abandoned' \in 0 .. faults'
    BY <1>0, <2>1, FaultStep
  <2>4. /\ ea' \in {ea, "idle"} /\ (ea' = "idle" => batch' = <<>>)
        /\ batch' \in {batch, <<>>} /\ spool' \in Seq(Seq(Items))
    BY <1>0, <2>1, <2>2
  <2>. QED BY <1>5, <2>1, <2>3, <2>4
<1>. QED BY <1>1, <1>2, <1>3, <1>4, <1>6, <1>7 DEF Handle

LEMMA NextDedupe ==
    ASSUME DedupeInv, QInv, [TickNext]_allVars
    PROVE  DedupeInv' /\ QInv'
<1>1. MarketInv
  BY DEF DedupeInv, TickTypeOK, MarketInv
<1>2. MarketInv' /\ QInv' /\ TypeOK'
  BY <1>1, MarketStep, StepOfQueue, StepFifo DEF QInv
<1>3. CASE UNCHANGED allVars
  <2>1. Live' = Live /\ UNCHANGED api
    BY <1>3, LiveSame DEF allVars, api
  <2>2. /\ event' = event /\ captured' = captured /\ ea' = ea /\ batch' = batch
        /\ spool' = spool /\ faults' = faults /\ abandoned' = abandoned /\ market' = market
    BY <1>3 DEF allVars, terminal
  <2>. QED BY <1>2, <2>1, <2>2, TerminalDedupe DEF DedupeInv, TickTypeOK
<1>. QED BY <1>2, <1>3, TerminalSteps, RequestSteps DEF TickNext

\* On the whole path every queue, batch, request and row keeps its type, and
\* what is stored was captured.
THEOREM TickTypeCorrect == TickSpec => []TickTypeOK
<1>1. TickInit => DedupeInv /\ QInv
  BY InitDedupe, InitFifo DEF TickInit
<1>2. DedupeInv /\ QInv /\ [TickNext]_allVars => DedupeInv' /\ QInv'
  BY NextDedupe
<1>3. DedupeInv => TickTypeOK
  BY DEF DedupeInv
<1>. QED BY <1>1, <1>2, <1>3, PTL DEF TickSpec
-----------------------------------------------------------------------------
(* OrderInv is inductive *)

LEMMA BehindMeans ==
    /\ \A x : x \in Behind <=>
          \/ x \in ToSet(Live)
          \/ ea = "fill" /\ x \in ToSet(batch)
          \/ \E h \in Handlers : x \in ToSet(handlers[h].todo)
    /\ \A x : x \in Unannounced <=>
          \/ x \in Behind
          \/ \E h \in Handlers : handlers[h].pc # "reply" /\ x \in ToSet(handlers[h].fresh)
BY DEF Behind, Unannounced

LEMMA BehindNext ==
    /\ \A x : x \in Behind' <=>
          \/ x \in ToSet(Live')
          \/ ea' = "fill" /\ x \in ToSet(batch')
          \/ \E h \in Handlers : x \in ToSet(handlers'[h].todo)
    /\ \A x : x \in Unannounced' <=>
          \/ x \in Behind'
          \/ \E h \in Handlers : handlers'[h].pc # "reply" /\ x \in ToSet(handlers'[h].fresh)
BY DEF Behind, Unannounced, ToSet

\* What there is to show of a step that abandons nothing.
LEMMA InLineBy ==
    ASSUME Increasing(Live'), Increasing(batch'), Increasing(announced'),
           \A b \in ToSet(batch'), t \in ToSet(Live') : b.n < t.n,
           \A a \in ToSet(announced'), t \in Unannounced' : a.n < t.n,
           \A k \in keys' :
              \E x \in captured' : x.ms = k /\ \A t \in Behind' : x.n < t.n
    PROVE  InLine'
BY DEF InLine, Increasing, ToSet

LEMMA SerialBy ==
    ASSUME \A h \in Handlers :
             /\ handlers'[h] # NoRequest => ea' = h
             /\ Increasing(handlers'[h].todo)
             /\ ToSet(handlers'[h].todo) \subseteq ToSet(batch')
             /\ ToSet(handlers'[h].fresh) \subseteq ToSet(batch')
             /\ ea' = h => \A b \in ToSet(batch') :
                   \/ b \in ToSet(handlers'[h].todo)
                   \/ b \in ToSet(handlers'[h].fresh)
                   \/ ~First(b)'
    PROVE  Serial'
BY DEF Serial, Increasing, ToSet, First, NoRequest

\* A tick that is not the first of its eventId never becomes it.
LEMMA FirstStays ==
    ASSUME captured \subseteq captured', NEW t, First(t)'
    PROVE  First(t)
BY DEF First

\* If nothing new comes behind or after the news, what was in line stays so.
LEMMA LineStays ==
    ASSUME InLine, Increasing(Live'), Increasing(batch'),
           \A b \in ToSet(batch'), t \in ToSet(Live') : b.n < t.n,
           Behind' \subseteq Behind, Unannounced' \subseteq Unannounced,
           captured \subseteq captured', keys' = keys, announced' = announced
    PROVE  InLine'
<1>1. \A k \in keys' : \E x \in captured' : x.ms = k /\ \A t \in Behind' : x.n < t.n
  BY DEF InLine
<1>2. \A a \in ToSet(announced'), t \in Unannounced' : a.n < t.n
  BY DEF InLine
<1>. QED BY <1>1, <1>2, InLineBy DEF InLine

\* The terminal waits for nothing and no request is left.
LEMMA ClearedOrder ==
    ASSUME InLine, ea' = "idle", batch' = <<>>,
           \A h \in Handlers : handlers'[h] = NoRequest,
           Live' \in {Live, <<>>}, captured' = captured, keys' = keys,
           announced' = announced
    PROVE  Serial' /\ InLine'
<1>1. /\ Increasing(Live') /\ Increasing(batch') /\ ToSet(batch') = {}
      /\ ToSet(Live') \subseteq ToSet(Live)
      /\ \A h \in Handlers : /\ ToSet(handlers'[h].todo) = {}
                             /\ ToSet(handlers'[h].fresh) = {}
                             /\ Increasing(handlers'[h].todo)
  BY IncreasingEmpty, SetOfEmpty, NoRequestType DEF InLine
<1>2. Behind' \subseteq Behind /\ Unannounced' \subseteq Unannounced
  BY <1>1, BehindMeans, BehindNext
<1>3. "idle" \notin Handlers
  BY TickAssumption
<1>. QED BY <1>1, <1>2, <1>3, LineStays, SerialBy

LEMMA InitOrder == TickInit => OrderInv
<1>. SUFFICES ASSUME TickInit PROVE Serial /\ InLine
  BY InitDedupe DEF OrderInv
<1>1. /\ Live = <<>> /\ batch = <<>> /\ announced = <<>> /\ keys = {} /\ ea = "idle"
      /\ \A h \in Handlers : handlers[h] = NoRequest
  BY SubSeqEmpty DEF TickInit, Init, Live
<1>2. "idle" \notin Handlers
  BY TickAssumption
<1>. QED BY <1>1, <1>2, NoRequestType, SetOfEmpty, IncreasingEmpty DEF Serial, InLine

\* Only the request that the terminal waits for exists.
LEMMA OneRequest ==
    ASSUME DedupeInv, Serial, NEW h \in Handlers, ea # h
    PROVE  /\ handlers[h] = NoRequest
           /\ ToSet(handlers[h].todo) = {} /\ ToSet(handlers[h].fresh) = {}
BY NoRequestType, SetOfEmpty DEF Serial

LEMMA TerminalOrder ==
    ASSUME DedupeInv, Serial, InLine, abandoned = 0, abandoned' = 0,
           (\E step \in {0, 1} : Quote(step)) \/ OnTick \/ OnTimer \/ Fill
              \/ Refused \/ Timeout \/ Reload \/ TerminalDies
    PROVE  Serial' /\ InLine'
<1>0. /\ TickTypeOK /\ TypeOK /\ market \in Items /\ captured \subseteq Items
      /\ ToSet(Live) \union ToSet(batch) \subseteq captured
      /\ \A t \in captured : t.n <= market.n /\ (event => t.n < market.n)
      /\ (ea = "idle" => batch = <<>>) /\ batch \in Seq(Items)
      /\ announced \in Seq(table) /\ table \subseteq captured
      /\ \A h \in Handlers : handlers[h].todo \in Seq(Items)
      /\ "idle" \notin Handlers /\ "fill" \notin Handlers
  BY TickAssumption DEF DedupeInv, TickTypeOK, Request
<1>1. CASE \E step \in {0, 1} : Quote(step)
  <2>1. /\ UNCHANGED api /\ captured' = captured /\ ea' = ea /\ batch' = batch
        /\ Live' = Live
    BY <1>1, LiveSame DEF Quote
  <2>2. handlers' = handlers /\ keys' = keys /\ announced' = announced
    BY <2>1 DEF api
  <2>3. Behind' \subseteq Behind /\ Unannounced' \subseteq Unannounced
    BY <2>1, <2>2, BehindMeans, BehindNext
  <2>4. InLine'
    BY <2>1, <2>2, <2>3, LineStays DEF InLine
  <2>. QED BY <2>1, <2>2, <2>4, FirstStays, SerialBy DEF Serial
<1>2. CASE OnTick
  <2>1. /\ UNCHANGED api /\ captured' = captured \union {market} /\ event
        /\ ea = "idle" /\ ea' = ea /\ batch' = batch
    BY <1>2 DEF OnTick
  <2>2. handlers' = handlers /\ keys' = keys /\ announced' = announced
    BY <2>1 DEF api
  <2>3. PICK base \in {Live, Tail(Live)} :
           /\ Live' = Append(base, market) /\ base \in Seq(Items)
           /\ ToSet(base) \subseteq ToSet(Live) /\ Increasing(base)
    <3>1. CASE Push(market)
      BY <1>0, <3>1, LivePush DEF InLine
    <3>2. CASE PushDropping(market)
      BY <1>0, <3>2, LivePushDropping, SetOfTail, IncreasingTail DEF InLine
    <3>. QED BY <1>2, <3>1, <3>2 DEF OnTick
  <2>4. /\ ToSet(Append(base, market)) = ToSet(base) \union {market}
        /\ Increasing(Append(base, market))
    BY <1>0, <2>1, <2>3, SetOfAppend, IncreasingAppend
  <2>5. ToSet(Live') \subseteq ToSet(Live) \union {market} /\ Increasing(Live')
    BY <2>3, <2>4
  <2>6. batch = <<>> /\ ToSet(batch') = {}
    BY <1>0, <2>1, SetOfEmpty
  <2>7. Behind' \subseteq Behind \union {market} /\ Unannounced' \subseteq Unannounced \union {market}
    BY <2>1, <2>2, <2>5, <2>6, BehindMeans, BehindNext
  <2>8. \A a \in ToSet(announced) : a.n < market.n
    BY <1>0, <2>1, SetOfSeq
  <2>9. \A k \in keys' : \E x \in captured' : x.ms = k /\ \A t \in Behind' : x.n < t.n
    BY <1>0, <2>1, <2>2, <2>7 DEF InLine
  <2>10. \A a \in ToSet(announced'), t \in Unannounced' : a.n < t.n
    BY <2>2, <2>7, <2>8 DEF InLine
  <2>11. InLine'
    BY <2>1, <2>2, <2>5, <2>6, <2>9, <2>10, InLineBy DEF InLine
  <2>. QED BY <2>1, <2>2, <2>11, FirstStays, SerialBy DEF Serial
<1>3. CASE OnTimer
  <2>1. /\ UNCHANGED api /\ captured' = captured /\ ea = "idle" /\ ea' = "fill"
        /\ batch' = batch /\ Live' = Live
    BY <1>3, LiveSame DEF OnTimer
  <2>2. handlers' = handlers /\ keys' = keys /\ announced' = announced
    BY <2>1 DEF api
  <2>3. batch = <<>> /\ ToSet(batch') = {}
    BY <1>0, <2>1, SetOfEmpty
  <2>4. Behind' \subseteq Behind /\ Unannounced' \subseteq Unannounced
    BY <2>1, <2>2, <2>3, BehindMeans, BehindNext
  <2>5. InLine'
    BY <2>1, <2>2, <2>4, LineStays DEF InLine
  <2>. QED BY <1>0, <2>1, <2>2, <2>5, SerialBy DEF Serial
<1>4. CASE Fill
  <2>1. /\ UNCHANGED api /\ captured' = captured /\ ea = "fill" /\ ea' = "fill"
        /\ batch' = Append(batch, Head(Live)) /\ Live' = Tail(Live)
        /\ Live \in Seq(Items) /\ Live # <<>>
    BY <1>0, <1>4, LivePop DEF Fill
  <2>2. handlers' = handlers /\ keys' = keys /\ announced' = announced
    BY <2>1 DEF api
  <2>3. /\ Head(Live) \in Items /\ ToSet(Live) = {Head(Live)} \union ToSet(Tail(Live))
        /\ Increasing(Tail(Live)) /\ \A t \in ToSet(Tail(Live)) : Head(Live).n < t.n
    BY <2>1, SetOfTail, IncreasingTail DEF InLine
  <2>4. \A b \in ToSet(batch) : b.n < Head(Live).n
    BY <2>3 DEF InLine
  <2>5. /\ ToSet(Append(batch, Head(Live))) = ToSet(batch) \union {Head(Live)}
        /\ Increasing(Append(batch, Head(Live)))
    BY <1>0, <2>3, <2>4, SetOfAppend, IncreasingAppend DEF InLine
  <2>6. /\ ToSet(batch') = ToSet(batch) \union {Head(Live)} /\ Increasing(batch')
        /\ ToSet(Live') = ToSet(Tail(Live)) /\ Increasing(Live')
    BY <2>1, <2>3, <2>5
  <2>7. \A b \in ToSet(batch'), t \in ToSet(Live') : b.n < t.n
    BY <2>3, <2>6 DEF InLine
  <2>8. Behind' \subseteq Behind /\ Unannounced' \subseteq Unannounced
    BY <2>1, <2>2, <2>3, <2>6, BehindMeans, BehindNext
  <2>9. InLine'
    BY <2>1, <2>2, <2>6, <2>7, <2>8, LineStays
  <2>. QED BY <1>0, <2>1, <2>2, <2>6, <2>9, SerialBy DEF Serial
<1>5. CASE Refused
  <2>1. /\ ea = "fill" /\ UNCHANGED api /\ captured' = captured /\ Live' = Live
        /\ ea' = "idle" /\ batch' = <<>>
    BY <1>5, LiveSame DEF Refused, Filled, SpoolBatch
  <2>2. \A h \in Handlers : handlers'[h] = NoRequest
    BY <1>0, <2>1, OneRequest DEF api
  <2>. QED BY <2>1, <2>2, ClearedOrder DEF api
<1>6. CASE Timeout
  BY <1>6 DEF Timeout
<1>7. CASE Reload
  <2>1. /\ ea = "idle" /\ UNCHANGED api /\ captured' = captured /\ Live' = <<>>
        /\ ea' = "idle" /\ batch' = <<>>
    BY <1>0, <1>7, LiveReinit DEF Reload
  <2>2. \A h \in Handlers : handlers'[h] = NoRequest
    BY <1>0, <2>1, OneRequest DEF api
  <2>. QED BY <2>1, <2>2, ClearedOrder DEF api
<1>8. CASE TerminalDies
  <2>1. /\ ea \notin Handlers /\ UNCHANGED api /\ captured' = captured /\ Live' = <<>>
        /\ ea' = "idle" /\ batch' = <<>>
    BY <1>8, LiveReinit DEF TerminalDies
  <2>2. \A h \in Handlers : handlers'[h] = NoRequest
    BY <1>0, <2>1, OneRequest DEF api
  <2>. QED BY <2>1, <2>2, ClearedOrder DEF api
<1>. QED BY <1>1, <1>2, <1>3, <1>4, <1>5, <1>6, <1>7, <1>8

LEMMA RequestOrder ==
    ASSUME DedupeInv, Serial, InLine, abandoned = 0, abandoned' = 0, NEW h \in Handlers,
           PostBatch(h) \/ Handle(h) \/ HandlerFails(h)
    PROVE  Serial' /\ InLine'
<1>0. /\ TickTypeOK /\ TypeOK /\ captured \subseteq Items
      /\ ToSet(Live) \union ToSet(batch) \subseteq captured
      /\ batch \in Seq(Items) /\ announced \in Seq(Items)
      /\ \A g \in Handlers :
            /\ handlers[g].todo \in Seq(Items) /\ handlers[g].fresh \in Seq(Items)
            /\ handlers[g].pc \in {"announce", "reply"} =>
                  handlers[g].fresh # <<>> /\ handlers[g].todo = <<>>
      /\ "idle" \notin Handlers /\ "fill" \notin Handlers
  <2>1. announced \in Seq(Items)
    BY SeqMonotonic DEF DedupeInv, TickTypeOK
  <2>. QED BY <2>1, TickAssumption DEF DedupeInv, TickTypeOK, Request
<1>1. CASE PostBatch(h)
  <2>1. /\ \A g \in Handlers \ {h} : handlers'[g] = handlers[g]
        /\ handlers'[h].todo = batch /\ handlers'[h].fresh = <<>>
        /\ ea = "fill" /\ ea' = h
        /\ UNCHANGED <<vars, captured, batch, keys, announced>>
    BY <1>0, <1>1, PostEffect
  <2>2. Live' = Live
    BY <2>1, LiveSame
  <2>3. \A g \in Handlers \ {h} :
           /\ handlers'[g] = NoRequest /\ Increasing(handlers'[g].todo)
           /\ ToSet(handlers'[g].todo) = {} /\ ToSet(handlers'[g].fresh) = {}
    BY <1>0, <2>1, OneRequest DEF Serial
  <2>4. Behind' \subseteq Behind /\ Unannounced' \subseteq Unannounced
    BY <2>1, <2>2, <2>3, SetOfEmpty, BehindMeans, BehindNext
  <2>5. InLine'
    BY <2>1, <2>2, <2>4, LineStays DEF InLine
  <2>6. Serial'
    BY <2>1, <2>3, SetOfEmpty, SerialBy DEF InLine
  <2>. QED BY <2>5, <2>6
<1>2. CASE Dedupe(h)
  <2>1. PICK t \in Items :
              /\ handlers[h].pc = "dedupe" /\ handlers[h].todo # <<>>
              /\ t = Head(handlers[h].todo)
              /\ keys' = keys \union {t.ms}
              /\ \A g \in Handlers \ {h} : handlers'[g] = handlers[g]
              /\ handlers'[h].pc = "dedupe"
              /\ handlers'[h].todo = Tail(handlers[h].todo)
              /\ \/ t.ms \in keys /\ handlers'[h].fresh = handlers[h].fresh
                 \/ t.ms \notin keys /\ handlers'[h].fresh = Append(handlers[h].fresh, t)
              /\ UNCHANGED <<vars, terminal, announced>>
    BY <1>0, <1>2, DedupeEffect
  <2>2. /\ Live' = Live /\ captured' = captured /\ ea' = ea /\ batch' = batch
        /\ announced' = announced
    BY <2>1, LiveSame DEF terminal
  <2>3. ea = h
    BY <2>1, NoRequestType DEF Serial
  <2>4. /\ ToSet(handlers[h].todo) = {t} \union ToSet(handlers'[h].todo)
        /\ Increasing(handlers'[h].todo)
        /\ \A u \in ToSet(handlers'[h].todo) : t.n < u.n
        /\ ToSet(Append(handlers[h].fresh, t)) = ToSet(handlers[h].fresh) \union {t}
    BY <1>0, <2>1, SetOfTail, IncreasingTail, SetOfAppend DEF Serial
  <2>5. /\ ToSet(handlers[h].fresh) \subseteq ToSet(handlers'[h].fresh)
        /\ ToSet(handlers'[h].fresh) \subseteq ToSet(handlers[h].fresh) \union {t}
        /\ t.ms \in keys \/ t \in ToSet(handlers'[h].fresh)
    BY <2>1, <2>4
  <2>6. \A g \in Handlers \ {h} :
           /\ handlers'[g] = NoRequest /\ Increasing(handlers'[g].todo)
           /\ ToSet(handlers'[g].todo) = {} /\ ToSet(handlers'[g].fresh) = {}
    BY <2>1, <2>3, OneRequest DEF Serial
  <2>7. t \in ToSet(batch) /\ t \in captured /\ t \in Behind
    BY <1>0, <2>4, BehindMeans DEF Serial
  <2>8. Behind' \subseteq Behind /\ Unannounced' \subseteq Unannounced
    <3>1. \A x \in Behind' : x \in ToSet(Live) \/ x \in ToSet(handlers'[h].todo)
      BY <1>0, <2>2, <2>3, <2>6, BehindNext
    <3>2. Behind' \subseteq Behind
      BY <2>4, <3>1, BehindMeans
    <3>3. \A x \in Unannounced' : x \in Behind' \/ x \in ToSet(handlers'[h].fresh)
      BY <2>6, BehindNext
    <3>. QED BY <2>1, <2>5, <2>7, <3>2, <3>3, BehindMeans
  <2>9. \A u \in Behind' : t.n < u.n
    <3>1. \A x \in Behind' : x \in ToSet(Live) \/ x \in ToSet(handlers'[h].todo)
      BY <1>0, <2>2, <2>3, <2>6, BehindNext
    <3>. QED BY <2>4, <2>7, <3>1 DEF InLine
  <2>10. \A k \in keys' : \E x \in captured' : x.ms = k /\ \A u \in Behind' : x.n < u.n
    BY <2>1, <2>2, <2>7, <2>8, <2>9 DEF InLine
  <2>11. InLine'
    BY <2>2, <2>8, <2>10, InLineBy DEF InLine
  <2>12. t.ms \in keys => ~First(t)
    <3>1. SUFFICES ASSUME t.ms \in keys PROVE ~First(t)
      OBVIOUS
    <3>2. PICK x \in captured : x.ms = t.ms /\ x.n < t.n
      BY <2>7, <3>1 DEF InLine
    <3>3. x.n \in Nat /\ t.n \in Nat /\ \A i, j \in Nat : i < j => ~(i >= j)
      BY <1>0, TickAssumption
    <3>. QED BY <3>2, <3>3 DEF First
  <2>13. \A b \in ToSet(batch') :
            \/ b \in ToSet(handlers'[h].todo) \/ b \in ToSet(handlers'[h].fresh)
            \/ ~First(b)'
    BY <2>2, <2>3, <2>4, <2>5, <2>12, FirstStays DEF Serial
  <2>14. /\ ToSet(handlers'[h].todo) \subseteq ToSet(batch')
         /\ ToSet(handlers'[h].fresh) \subseteq ToSet(batch')
    BY <2>2, <2>4, <2>5, <2>7 DEF Serial
  <2>15. Serial'
    BY <2>2, <2>3, <2>4, <2>6, <2>13, <2>14, SerialBy
  <2>. QED BY <2>11, <2>15
<1>3. CASE Insert(h)
  <2>1. /\ handlers[h].pc = "dedupe"
        /\ handlers' = [handlers EXCEPT ![h].pc = "announce"]
        /\ UNCHANGED <<vars, terminal, keys, announced>>
    BY <1>3 DEF Insert, Running
  <2>2. /\ Live' = Live /\ captured' = captured /\ ea' = ea /\ batch' = batch
        /\ announced' = announced /\ keys' = keys
    BY <2>1, LiveSame DEF terminal
  <2>3. /\ \A g \in Handlers \ {h} : handlers'[g] = handlers[g]
        /\ handlers'[h].pc = "announce" /\ handlers'[h].todo = handlers[h].todo
        /\ handlers'[h].fresh = handlers[h].fresh
    BY <1>0, <2>1, PcEffect
  <2>4. Behind' \subseteq Behind /\ Unannounced' \subseteq Unannounced
    BY <2>1, <2>2, <2>3, BehindMeans, BehindNext
  <2>5. InLine'
    BY <2>2, <2>4, LineStays DEF InLine
  <2>6. ea = h
    BY <2>1, NoRequestType DEF Serial
  <2>7. Serial'
    BY <2>2, <2>3, <2>6, FirstStays, SerialBy DEF Serial
  <2>. QED BY <2>5, <2>7
<1>4. CASE Announce(h)
  <2>1. /\ handlers[h].pc = "announce"
        /\ announced' = Append(announced, Last(handlers[h].fresh))
        /\ handlers' = [handlers EXCEPT ![h].pc = "reply"]
        /\ UNCHANGED <<vars, terminal, keys>>
    BY <1>4 DEF Announce, Running
  <2>2. /\ Live' = Live /\ captured' = captured /\ ea' = ea /\ batch' = batch
        /\ keys' = keys
    BY <2>1, LiveSame DEF terminal
  <2>3. /\ \A g \in Handlers \ {h} : handlers'[g] = handlers[g]
        /\ handlers'[h].pc = "reply" /\ handlers'[h].todo = handlers[h].todo
        /\ handlers'[h].fresh = handlers[h].fresh
    BY <1>0, <2>1, PcEffect
  <2>4. Behind' \subseteq Behind /\ Unannounced' \subseteq Unannounced
    BY <2>1, <2>2, <2>3, BehindMeans, BehindNext
  <2>5. ea = h
    BY <2>1, NoRequestType DEF Serial
  <2>6. PICK a \in Items : a = Last(handlers[h].fresh) /\ a \in ToSet(handlers[h].fresh)
    <3>1. handlers[h].fresh \in Seq(Items) /\ handlers[h].fresh # <<>>
      BY <1>0, <2>1
    <3>2. /\ Last(handlers[h].fresh) \in ToSet(handlers[h].fresh)
          /\ ToSet(handlers[h].fresh) \subseteq Items
      BY <3>1, SetOfSeq
    <3>. QED BY <3>2
  <2>7. a \in Unannounced /\ a \in ToSet(batch)
    BY <2>1, <2>6, BehindMeans DEF Serial
  <2>8. \A t \in Unannounced' : a.n < t.n
    <3>1. \A g \in Handlers : ToSet(handlers'[g].todo) = {}
      BY <1>0, <2>1, <2>3, <2>5, OneRequest, SetOfEmpty
    <3>2. \A g \in Handlers : handlers'[g].pc = "reply" \/ ToSet(handlers'[g].fresh) = {}
      BY <2>3, <2>5, OneRequest
    <3>3. \A t \in Unannounced' : t \in ToSet(Live)
      BY <1>0, <2>2, <2>5, <3>1, <3>2, BehindNext
    <3>. QED BY <2>7, <3>3 DEF InLine
  <2>9. /\ ToSet(Append(announced, a)) = ToSet(announced) \union {a}
        /\ Increasing(Append(announced, a))
    <3>1. \A t \in ToSet(announced) : t.n < a.n
      BY <2>7 DEF InLine
    <3>. QED BY <1>0, <3>1, SetOfAppend, IncreasingAppend DEF InLine
  <2>10. \A x \in ToSet(announced'), t \in Unannounced' : x.n < t.n
    BY <2>1, <2>4, <2>6, <2>8, <2>9 DEF InLine
  <2>11. \A k \in keys' : \E x \in captured' : x.ms = k /\ \A t \in Behind' : x.n < t.n
    BY <2>2, <2>4 DEF InLine
  <2>12. InLine'
    BY <2>1, <2>2, <2>6, <2>9, <2>10, <2>11, InLineBy DEF InLine
  <2>13. Serial'
    BY <2>2, <2>3, <2>5, FirstStays, SerialBy DEF Serial
  <2>. QED BY <2>12, <2>13
<1>5. CASE Reply(h) \/ HandlerFails(h)
  <2>1. /\ handlers' = [handlers EXCEPT ![h] = NoRequest]
        /\ captured' = captured /\ keys' = keys /\ announced' = announced /\ UNCHANGED vars
        /\ handlers[h] # NoRequest
        /\ ea = h => ea' = "idle" /\ batch' = <<>>
    <3>1. CASE Reply(h)
      BY <3>1, NoRequestType DEF Reply, Running, Answered
    <3>2. CASE HandlerFails(h)
      BY <3>2 DEF HandlerFails, SpoolBatch, terminal
    <3>. QED BY <1>5, <3>1, <3>2
  <2>2. ea = h /\ Live' = Live
    BY <2>1, LiveSame DEF Serial
  <2>3. \A g \in Handlers : handlers'[g] = NoRequest
    BY <1>0, <2>1, <2>2, FreeEffect, OneRequest
  <2>. QED BY <2>1, <2>2, <2>3, ClearedOrder
<1>. QED BY <1>1, <1>2, <1>3, <1>4, <1>5 DEF Handle

LEMMA NextOrder ==
    ASSUME OrderInv, QInv, [TickNext]_allVars
    PROVE  OrderInv' /\ QInv'
<1>1. DedupeInv' /\ QInv'
  BY NextDedupe DEF OrderInv
<1>. SUFFICES ASSUME abandoned' = 0 PROVE Serial' /\ InLine'
  BY <1>1 DEF OrderInv
<1>2. abandoned = 0
  <2>1. abandoned \in Nat
    BY TickAssumption DEF OrderInv, DedupeInv, TickTypeOK
  <2>2. CASE Timeout \/ TerminalDies
    BY <2>1, <2>2 DEF Timeout, TerminalDies
  <2>3. ASSUME NEW h \in Handlers, PostBatch(h) \/ Handle(h) \/ HandlerFails(h)
        PROVE  abandoned' = abandoned
    BY <2>3 DEF PostBatch, Handle, Dedupe, Insert, Announce, Reply, HandlerFails, NoFault
  <2>4. CASE \E step \in {0, 1} : Quote(step)
    BY <2>4 DEF Quote, NoFault
  <2>5. CASE OnTick \/ OnTimer \/ Fill \/ Refused \/ Reload \/ UNCHANGED allVars
    BY <2>5 DEF OnTick, OnTimer, Fill, Refused, Reload, NoFault, allVars
  <2>. QED BY <2>2, <2>3, <2>4, <2>5 DEF TickNext
<1>3. CASE UNCHANGED allVars
  <2>1. /\ Live' = Live /\ captured' = captured /\ ea' = ea /\ batch' = batch
        /\ handlers' = handlers /\ keys' = keys /\ announced' = announced
    BY <1>3, LiveSame DEF allVars, terminal, api
  <2>2. Behind' \subseteq Behind /\ Unannounced' \subseteq Unannounced
    BY <2>1, BehindMeans, BehindNext
  <2>. QED BY <1>2, <2>1, <2>2, LineStays, FirstStays, SerialBy DEF OrderInv, InLine, Serial
<1>4. CASE \E h \in Handlers : PostBatch(h) \/ Handle(h) \/ HandlerFails(h)
  BY <1>2, <1>4, RequestOrder DEF OrderInv
<1>5. CASE (\E step \in {0, 1} : Quote(step)) \/ OnTick \/ OnTimer \/ Fill
              \/ Refused \/ Timeout \/ Reload \/ TerminalDies
  BY <1>2, <1>5, TerminalOrder DEF OrderInv
<1>. QED BY <1>3, <1>4, <1>5 DEF TickNext

\* The live price that the dashboard and the tracker follow never goes back in
\* time, however many batches, duplicates, refusals and reloads there are, as
\* long as no request outlives its terminal.
THEOREM OrderCorrect == TickSpec => []AnnouncedInOrder
<1>1. TickInit => OrderInv /\ QInv
  BY InitOrder, InitFifo DEF TickInit
<1>2. OrderInv /\ QInv /\ [TickNext]_allVars => OrderInv' /\ QInv'
  BY NextOrder
<1>3. OrderInv => AnnouncedInOrder
  BY DEF OrderInv, InLine, Increasing, AnnouncedInOrder
<1>. QED BY <1>1, <1>2, <1>3, PTL DEF TickSpec
-----------------------------------------------------------------------------
(* What goes missing *)

LEMMA NothingMore ==
    ASSUME IsFiniteSet(captured), captured' = captured, MissingOnlyDropped,
           faults = 0, dropped \in Nat, dropped' = dropped, Missing' \subseteq Missing
    PROVE  MissingOnlyDropped'
<1>1. IsFiniteSet(Missing)
  BY FS_Subset DEF Missing
<1>2. /\ Cardinality(Missing') <= Cardinality(Missing)
      /\ Cardinality(Missing') \in Nat /\ Cardinality(Missing) \in Nat
  BY <1>1, FS_Subset, FS_CardinalityType
<1>3. \A c, m, d \in Nat : m <= d /\ c <= m => c <= d
  OBVIOUS
<1>. QED BY <1>2, <1>3 DEF MissingOnlyDropped

LEMMA OneMore ==
    ASSUME IsFiniteSet(captured), MissingOnlyDropped, faults = 0, dropped \in Nat,
           NEW t, Missing' \subseteq Missing \union {t}, dropped' = dropped + 1
    PROVE  MissingOnlyDropped'
<1>1. IsFiniteSet(Missing)
  BY FS_Subset DEF Missing
<1>2. /\ IsFiniteSet(Missing \union {t})
      /\ Cardinality(Missing \union {t}) \in {Cardinality(Missing), Cardinality(Missing) + 1}
  BY <1>1, FS_AddElement
<1>3. /\ Cardinality(Missing') <= Cardinality(Missing \union {t})
      /\ Cardinality(Missing') \in Nat /\ Cardinality(Missing) \in Nat
  BY <1>1, <1>2, FS_Subset, FS_CardinalityType
<1>4. Cardinality(Missing) <= dropped
  BY DEF MissingOnlyDropped
<1>5. \A c, m, d \in Nat : m <= d /\ (c <= m \/ c <= m + 1) => c <= d + 1
  OBVIOUS
<1>. QED BY <1>2, <1>3, <1>4, <1>5 DEF MissingOnlyDropped

LEMMA OnTheWayMeans ==
    \A x : x \in OnTheWay <=>
       \/ x \in ToSet(Live) \/ x \in ToSet(batch)
       \/ \E h \in Handlers : x \in ToSet(handlers[h].todo) \/ x \in ToSet(handlers[h].fresh)
BY DEF OnTheWay

LEMMA OnTheWayNext ==
    \A x : x \in OnTheWay' <=>
       \/ x \in ToSet(Live') \/ x \in ToSet(batch')
       \/ \E h \in Handlers : x \in ToSet(handlers'[h].todo) \/ x \in ToSet(handlers'[h].fresh)
BY DEF OnTheWay, ToSet

\* Who is missing after a step, and was not before
LEMMA MissingBy ==
    ASSUME captured \subseteq captured', table \subseteq table', NEW S,
           \A x \in captured' \ captured : x \in OnTheWay',
           \A x \in OnTheWay : First(x) => x \in OnTheWay' \/ x \in table' \/ x \in S
    PROVE  Missing' \subseteq Missing \union S
<1>1. ASSUME NEW x \in Missing', x \notin S PROVE x \in Missing
  <2>1. x \in captured' /\ x \notin OnTheWay' /\ x \notin table' /\ First(x)'
    BY DEF Missing
  <2>2. First(x)
    BY <2>1, FirstStays
  <2>. QED BY <1>1, <2>1, <2>2 DEF Missing
<1>. QED BY <1>1

LEMMA TerminalLoss ==
    ASSUME OrderInv, IsFiniteSet(captured), MissingOnlyDropped,
           (\E step \in {0, 1} : Quote(step)) \/ OnTick \/ OnTimer \/ Fill
              \/ Refused \/ Timeout \/ Reload \/ TerminalDies
    PROVE  IsFiniteSet(captured)' /\ MissingOnlyDropped'
<1>0. /\ TypeOK /\ market \in Items /\ batch \in Seq(Items) /\ dropped \in Nat
      /\ faults \in Nat
  BY TickAssumption DEF OrderInv, DedupeInv, TickTypeOK, TypeOK
<1>1. CASE (\E step \in {0, 1} : Quote(step)) \/ OnTimer
  <2>1. /\ UNCHANGED api /\ captured' = captured /\ batch' = batch
        /\ Live' = Live /\ dropped' = dropped /\ faults' = faults
    BY <1>1, LiveSame DEF Quote, OnTimer, NoFault
  <2>2. handlers' = handlers /\ table' = table
    BY <2>1 DEF api
  <2>3. \A x \in OnTheWay : x \in OnTheWay'
    BY <2>1, <2>2, OnTheWayMeans, OnTheWayNext
  <2>4. Missing' \subseteq Missing \union {}
    BY <2>1, <2>2, <2>3, MissingBy
  <2>5. Missing' \subseteq Missing
    BY <2>4
  <2>. QED BY <2>1, <1>0, <2>5, NothingMore DEF MissingOnlyDropped
<1>2. CASE OnTick
  <2>1. /\ UNCHANGED api /\ captured' = captured \union {market}
        /\ batch' = batch /\ faults' = faults
    BY <1>2 DEF OnTick, NoFault
  <2>2. handlers' = handlers /\ table' = table
    BY <2>1 DEF api
  <2>3. IsFiniteSet(captured')
    BY <2>1, FS_AddElement
  <2>4. CASE Push(market)
    <3>1. /\ Live' = Append(Live, market) /\ Live \in Seq(Items) /\ dropped' = dropped
          /\ ToSet(Append(Live, market)) = ToSet(Live) \union {market}
      BY <1>0, <2>4, LivePush, SetOfAppend
    <3>2. ToSet(Live') = ToSet(Live) \union {market}
      BY <3>1
    <3>3. (\A x \in OnTheWay : x \in OnTheWay') /\ market \in OnTheWay'
      BY <2>1, <2>2, <3>2, OnTheWayMeans, OnTheWayNext
    <3>4. Missing' \subseteq Missing \union {}
      BY <2>1, <2>2, <3>3, MissingBy
    <3>5. Missing' \subseteq Missing
      BY <3>4
    <3>6. IsFiniteSet(Missing)
      BY FS_Subset DEF Missing
    <3>7. /\ Cardinality(Missing') <= Cardinality(Missing)
          /\ Cardinality(Missing') \in Nat /\ Cardinality(Missing) \in Nat
      BY <3>5, <3>6, FS_Subset, FS_CardinalityType
    <3>. QED BY <1>0, <2>1, <2>3, <3>1, <3>7 DEF MissingOnlyDropped
  <2>5. CASE PushDropping(market)
    <3>1. /\ Live' = Append(Tail(Live), market) /\ Live \in Seq(Items) /\ Live # <<>>
          /\ dropped' = dropped + 1
      BY <1>0, <2>5, LivePushDropping
    <3>2. /\ ToSet(Live) = {Head(Live)} \union ToSet(Tail(Live))
          /\ ToSet(Append(Tail(Live), market)) = ToSet(Tail(Live)) \union {market}
      <4>1. Tail(Live) \in Seq(Items) /\ ToSet(Live) = {Head(Live)} \union ToSet(Tail(Live))
        BY <3>1, SetOfTail
      <4>2. \A s \in Seq(Items) : ToSet(Append(s, market)) = ToSet(s) \union {market}
        BY <1>0, SetOfAppend
      <4>. QED BY <4>1, <4>2
    <3>3. ToSet(Live') = ToSet(Tail(Live)) \union {market}
      BY <3>1, <3>2
    <3>4. /\ \A x \in OnTheWay : x \in OnTheWay' \/ x \in {Head(Live)}
          /\ market \in OnTheWay'
      BY <2>1, <2>2, <3>2, <3>3, OnTheWayMeans, OnTheWayNext
    <3>5. Missing' \subseteq Missing \union {Head(Live)}
      BY <2>1, <2>2, <3>4, MissingBy
    <3>6. CASE faults = 0
      BY <1>0, <2>3, <3>1, <3>5, <3>6, OneMore
    <3>. QED BY <2>1, <2>3, <3>6 DEF MissingOnlyDropped
  <2>. QED BY <1>2, <2>4, <2>5 DEF OnTick
<1>3. CASE Fill
  <2>1. /\ UNCHANGED api /\ captured' = captured /\ faults' = faults
        /\ batch' = Append(batch, Head(Live)) /\ Live' = Tail(Live)
        /\ Live \in Seq(Items) /\ Live # <<>> /\ dropped' = dropped
    BY <1>0, <1>3, LivePop DEF Fill, NoFault
  <2>2. handlers' = handlers /\ table' = table
    BY <2>1 DEF api
  <2>3. /\ Head(Live) \in Items /\ ToSet(Live) = {Head(Live)} \union ToSet(Tail(Live))
    BY <2>1, SetOfTail
  <2>4. ToSet(Append(batch, Head(Live))) = ToSet(batch) \union {Head(Live)}
    BY <1>0, <2>3, SetOfAppend
  <2>5. ToSet(batch') = ToSet(batch) \union {Head(Live)} /\ ToSet(Live') = ToSet(Tail(Live))
    BY <2>1, <2>4
  <2>6. \A x \in OnTheWay : x \in OnTheWay'
    BY <2>2, <2>3, <2>5, OnTheWayMeans, OnTheWayNext
  <2>7. Missing' \subseteq Missing \union {}
    BY <2>1, <2>2, <2>6, MissingBy
  <2>8. Missing' \subseteq Missing
    BY <2>7
  <2>. QED BY <2>1, <1>0, <2>8, NothingMore DEF MissingOnlyDropped
<1>4. CASE Refused \/ Timeout \/ Reload \/ TerminalDies
  <2>1. Fault /\ captured' = captured
    BY <1>4 DEF Refused, Timeout, Reload, TerminalDies, SpoolBatch
  <2>2. faults' # 0
    BY <1>0, <2>1 DEF Fault
  <2>. QED BY <2>1, <2>2 DEF MissingOnlyDropped
<1>. QED BY <1>1, <1>2, <1>3, <1>4

LEMMA RequestLoss ==
    ASSUME OrderInv, IsFiniteSet(captured), MissingOnlyDropped, NEW h \in Handlers,
           PostBatch(h) \/ Handle(h) \/ HandlerFails(h)
    PROVE  IsFiniteSet(captured)' /\ MissingOnlyDropped'
<1>1. captured' = captured
  BY DEF PostBatch, Handle, Dedupe, Insert, Announce, Reply, HandlerFails, SpoolBatch, terminal
<1>. SUFFICES ASSUME faults' = 0 PROVE MissingOnlyDropped'
  BY <1>1 DEF MissingOnlyDropped
<1>0. TickTypeOK /\ faults \in Nat /\ abandoned \in 0 .. faults /\ dropped \in Nat
  BY TickAssumption DEF OrderInv, DedupeInv, TickTypeOK, TypeOK
<1>2. CASE HandlerFails(h)
  BY <1>0, <1>2 DEF HandlerFails, Fault
<1>3. CASE PostBatch(h) \/ Handle(h)
  <2>1. faults = 0 /\ dropped' = dropped /\ Live' = Live /\ UNCHANGED vars
    BY <1>3, LiveSame
    DEF PostBatch, Handle, Dedupe, Insert, Announce, Reply, NoFault
  <2>2. Serial
    BY <1>0, <2>1 DEF OrderInv, TickTypeOK
  <2>. SUFFICES \A x \in OnTheWay : First(x) => x \in OnTheWay' \/ x \in table'
    <3>1. table \subseteq table'
      BY <1>3 DEF PostBatch, Handle, Dedupe, Insert, Announce, Reply
    <3>2. Missing' \subseteq Missing \union {}
      BY <1>1, <3>1, MissingBy
    <3>3. Missing' \subseteq Missing
      BY <3>2
    <3>. QED BY <1>0, <1>1, <2>1, <3>3, NothingMore
  <2>3. \A x \in OnTheWay : x \in ToSet(Live) \/ x \in ToSet(batch)
    BY <2>2, OnTheWayMeans DEF Serial
  <2>4. CASE PostBatch(h) \/ Dedupe(h) \/ Insert(h) \/ Announce(h)
    <3>1. batch' = batch
      BY <2>4 DEF PostBatch, Waiting, Dedupe, Insert, Announce, terminal
    <3>. QED BY <2>1, <2>3, <3>1, OnTheWayNext
  <2>5. CASE Reply(h)
    <3>1. /\ handlers[h] # NoRequest /\ table' = table
          /\ \/ handlers[h].pc = "reply"
             \/ handlers[h].todo = <<>> /\ handlers[h].fresh = <<>>
      BY <2>5, NoRequestType DEF Reply, Running
    <3>2. ea = h
      BY <2>2, <3>1 DEF Serial
    <3>3. \A b \in ToSet(batch) :
             b \in ToSet(handlers[h].todo) \/ b \in ToSet(handlers[h].fresh) \/ ~First(b)
      BY <2>2, <3>2 DEF Serial
    <3>4. ToSet(handlers[h].todo) = {} /\ ToSet(handlers[h].fresh) \subseteq table
      <4>1. CASE handlers[h].pc = "reply"
        BY <4>1, SetOfEmpty DEF OrderInv, DedupeInv, Taken
      <4>2. CASE handlers[h].todo = <<>> /\ handlers[h].fresh = <<>>
        BY <4>2, SetOfEmpty
      <4>. QED BY <3>1, <4>1, <4>2
    <3>. QED BY <2>1, <2>3, <3>1, <3>3, <3>4, OnTheWayNext
  <2>. QED BY <1>3, <2>4, <2>5 DEF Handle
<1>. QED BY <1>2, <1>3

\* Without a fault every captured tick is on its way or stored, but for those
\* that share an eventId with an earlier one and those that the queue has
\* dropped and counted: what is missing is never more than its counter says.
THEOREM MissingCorrect == TickSpec => []MissingOnlyDropped
<1>1. TickInit => LossInv /\ QInv
  <2>. SUFFICES ASSUME TickInit PROVE IsFiniteSet(captured) /\ MissingOnlyDropped
    BY InitOrder, InitFifo DEF LossInv, TickInit
  <2>2. captured = {} /\ dropped = 0
    BY DEF TickInit, Init
  <2>3. Missing = {}
    BY <2>2 DEF Missing
  <2>. QED BY <2>2, <2>3, FS_EmptySet DEF MissingOnlyDropped
<1>2. LossInv /\ QInv /\ [TickNext]_allVars => LossInv' /\ QInv'
  <2>. SUFFICES ASSUME LossInv, QInv, [TickNext]_allVars
                PROVE  IsFiniteSet(captured)' /\ MissingOnlyDropped'
    BY NextOrder DEF LossInv
  <2>1. CASE UNCHANGED allVars
    <3>1. /\ Live' = Live /\ captured' = captured /\ batch' = batch /\ dropped' = dropped
          /\ handlers' = handlers /\ table' = table /\ faults' = faults
      BY <2>1, LiveSame DEF allVars, terminal, api
    <3>2. \A x \in OnTheWay : x \in OnTheWay'
      BY <3>1, OnTheWayMeans, OnTheWayNext
    <3>3. Missing' \subseteq Missing \union {}
      BY <3>1, <3>2, MissingBy
    <3>4. Missing' \subseteq Missing
      BY <3>3
    <3>5. dropped \in Nat
      BY DEF LossInv, OrderInv, DedupeInv, TickTypeOK, TypeOK
    <3>. QED BY <3>1, <3>4, <3>5, NothingMore DEF LossInv, MissingOnlyDropped
  <2>. QED BY <2>1, TerminalLoss, RequestLoss DEF TickNext, LossInv
<1>3. LossInv => MissingOnlyDropped
  BY DEF LossInv
<1>. QED BY <1>1, <1>2, <1>3, PTL DEF TickSpec
=============================================================================
