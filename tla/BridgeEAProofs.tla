--------------------------- MODULE BridgeEAProofs ---------------------------
(***************************************************************************)
(* Type correctness of BridgeEA and that it loses a closed bar only for    *)
(* the reasons LossesExplained names, for every number of bars, batch      *)
(* size, queue limit and number of faults.                                 *)
(***************************************************************************)
EXTENDS BridgeEA, SequenceTheorems, TLAPS

(* The lines of a queue or a spool file, as sets *)

LEMMA RangeOfAppend ==
    ASSUME NEW s \in Seq(Bar), NEW b \in Bar
    PROVE  Append(s, b) \in Seq(Bar) /\ Range(Append(s, b)) = Range(s) \union {b}
<1>1. Append(s, b) = s \o <<b>> /\ <<b>> \in Seq(Bar)
  BY AppendIsConcat
<1>2. Range(<<b>>) = {b}
  BY DEF Range
<1>3. Range(s \o <<b>>) = Range(s) \union Range(<<b>>)
  BY <1>1, RangeConcatenation
<1>4. Append(s, b) \in Seq(Bar)
  BY AppendProperties
<1>. QED BY <1>1, <1>2, <1>3, <1>4

LEMMA RangeOfHeadTail ==
    ASSUME NEW s \in Seq(Bar), s # <<>>
    PROVE  /\ Head(s) \in Bar /\ Tail(s) \in Seq(Bar) /\ Len(Tail(s)) = Len(s) - 1
           /\ Range(s) = {Head(s)} \union Range(Tail(s))
<1>1. /\ Len(s) \in Nat \ {0} /\ Head(s) = s[1] /\ Tail(s) \in Seq(Bar)
      /\ Len(Tail(s)) = Len(s) - 1
      /\ \A i \in 1 .. Len(Tail(s)) : Tail(s)[i] = s[i + 1]
      /\ Head(s) \in Bar
  BY HeadTailProperties, EmptySeq
<1>2. /\ Range(s) = {s[i] : i \in 1 .. Len(s)}
      /\ Range(Tail(s)) = {Tail(s)[i] : i \in 1 .. Len(Tail(s))}
  BY <1>1, RangeEquality
<1>3. ASSUME NEW x \in Range(s) PROVE x \in {Head(s)} \union Range(Tail(s))
  <2>1. PICK i \in 1 .. Len(s) : x = s[i]
    BY <1>2
  <2>2. CASE i # 1
    <3>1. i - 1 \in 1 .. Len(Tail(s)) /\ (i - 1) + 1 = i
      BY <1>1, <2>2
    <3>. QED BY <1>1, <1>2, <2>1, <3>1
  <2>. QED BY <1>1, <2>1, <2>2
<1>4. ASSUME NEW x \in {Head(s)} \union Range(Tail(s)) PROVE x \in Range(s)
  <2>1. CASE x = Head(s)
    BY <1>1, <1>2, <2>1
  <2>2. ASSUME NEW i \in 1 .. Len(Tail(s)), x = Tail(s)[i] PROVE x \in Range(s)
    <3>1. i + 1 \in 1 .. Len(s)
      BY <1>1
    <3>. QED BY <1>1, <1>2, <2>2, <3>1
  <2>. QED BY <1>2, <2>1, <2>2
<1>. QED BY <1>1, <1>3, <1>4

LEMMA EmptyLines == <<>> \in Seq(Bar) /\ Range(<<>>) = {} /\ Len(<<>>) = 0
BY DEF Range

\* What a failed line adds to the lines to write back
LEMMA PartOfLines ==
    ASSUME NEW s \in Seq(Bar), NEW m \in Nat, NEW n \in 0 .. Len(s)
    PROVE  SubSeq(s, m + 1, n) \in Seq(Bar)
<1>1. \A i \in m + 1 .. n : s[i] \in Bar
  BY ElementOfSeq
<1>. QED BY <1>1, SubSeqProperties

-----------------------------------------------------------------------------
(* The locals of a handler *)

LEMMA JobShapes ==
    ASSUME job \in JobType
    PROVE  /\ job.pc = "down" => job = Down
           /\ job.pc = "idle" => job = Idle
           /\ job.pc = "handshake" => job.init \in BOOLEAN
           /\ job.pc = "history" => job.init \in BOOLEAN /\ job.lines \in Seq(Bar)
           /\ job.pc = "closed" => job.sent \in 0 .. MaximumBatchSize
           /\ job.pc \in {"resend", "rewrite"} =>
                 /\ job.lines \in Seq(Bar) /\ job.remaining \in Seq(Bar)
                 /\ job.i \in Nat \ {0} /\ job.flushed \in 0 .. MaximumBatchSize
BY DEF JobType, Down, Idle

LEMMA Constants ==
    /\ MaximumBatchSize \in Nat /\ MaximumBatchSize > 0 /\ MaxQueue \in Nat /\ MaxQueue > 0
    /\ FirstBars \in Nat /\ MaxBars \in Nat /\ FirstBars <= MaxBars
    /\ HistoryBars \in Nat /\ MaxFaults \in Nat
BY BridgeAssumption

LEMMA PlainJobs == Down \in JobType /\ Idle \in JobType /\ [pc |-> "load"] \in JobType
BY DEF JobType

\* Push never leaves more than MaxQueue items.
LEMMA NewestType ==
    ASSUME NEW q \in Seq(Bar)
    PROVE  /\ Newest(q) \in Seq(Bar) /\ Len(Newest(q)) <= MaxQueue
           /\ Len(q) <= MaxQueue => Newest(q) = q
<1>1. CASE Len(q) > MaxQueue
  <2>. DEFINE m == Len(q) - MaxQueue
  <2>1. m \in Nat /\ Len(q) \in Nat /\ m + 1 <= Len(q) /\ MaxQueue \in Nat
    BY <1>1, Constants
  <2>2. \A k \in m + 1 .. Len(q) : q[k] \in Bar
    BY <2>1, ElementOfSeq
  <2>3. /\ SubSeq(q, m + 1, Len(q)) \in Seq(Bar)
        /\ Len(SubSeq(q, m + 1, Len(q))) = Len(q) - (m + 1) + 1
    <3>1. m + 1 \in Int /\ Len(q) \in Int
      BY <2>1
    <3>2. /\ SubSeq(q, m + 1, Len(q)) \in Seq(Bar)
          /\ Len(SubSeq(q, m + 1, Len(q))) =
                IF m + 1 <= Len(q) THEN Len(q) - (m + 1) + 1 ELSE 0
      BY <2>2, <3>1, SubSeqProperties
    <3>. QED BY <2>1, <3>2
  <2>4. Newest(q) = SubSeq(q, m + 1, Len(q))
    BY <1>1 DEF Newest
  <2>. HIDE DEF m
  <2>5. m = Len(q) - MaxQueue
    BY DEF m
  <2>. QED BY <1>1, <2>1, <2>3, <2>4, <2>5
<1>2. CASE ~(Len(q) > MaxQueue)
  <2>1. Len(q) \in Nat /\ Newest(q) = q
    BY <1>2 DEF Newest
  <2>. QED BY <1>2, <2>1, Constants
<1>. QED BY <1>1, <1>2

LEMMA ClosedBarsType ==
    ASSUME baseline \in 1 .. bars + 1, bars \in 0 .. MaxBars
    PROVE  /\ ClosedBars \in Seq(Bar) /\ Range(ClosedBars) = baseline .. bars
           /\ Len(ClosedBars) = bars + 1 - baseline
<1>. DEFINE n == bars + 1 - baseline
<1>1. n \in Nat /\ MaxBars \in Nat
  BY Constants
<1>2. ClosedBars = [k \in 1 .. n |-> baseline + k - 1]
  BY DEF ClosedBars
<1>3. \A k \in 1 .. n : baseline + k - 1 \in Bar
  BY <1>1 DEF Bar
<1>4. ClosedBars \in [1 .. n -> Bar]
  BY <1>2, <1>3
<1>5. ClosedBars \in Seq(Bar) /\ Len(ClosedBars) = n
  BY <1>1, <1>4
<1>6. Range(ClosedBars) = {baseline + k - 1 : k \in 1 .. n}
  BY <1>2 DEF Range
<1>7. ASSUME NEW b \in baseline .. bars PROVE \E k \in 1 .. n : b = baseline + k - 1
  <2>1. b - baseline + 1 \in 1 .. n /\ b = baseline + (b - baseline + 1) - 1
    BY <1>1
  <2>. QED BY <2>1
<1>8. \A k \in 1 .. n : baseline + k - 1 \in baseline .. bars
  BY <1>1
<1>. QED BY <1>5, <1>6, <1>7, <1>8

LEMMA HistoryType ==
    ASSUME bars \in 0 .. MaxBars
    PROVE  History \in Seq(Bar)
<1>. DEFINE n == IF bars < HistoryBars THEN bars ELSE HistoryBars
<1>1. n \in Nat /\ n <= MaxBars /\ MaxBars \in Nat
  BY Constants
<1>2. History = [k \in 1 .. n |-> k]
  BY DEF History
<1>3. History \in [1 .. n -> Bar]
  BY <1>1, <1>2 DEF Bar
<1>. QED BY <1>1, <1>3

LEMMA BatchType ==
    ASSUME job.lines \in Seq(Bar)
    PROVE  /\ Batch \in 0 .. Len(job.lines)
           /\ \A n \in 0 .. Batch : Range(SubSeq(job.lines, 1, n)) \subseteq Bar
           /\ SubSeq(job.lines, Batch + 1, Len(job.lines)) \in Seq(Bar)
<1>1. Batch \in 0 .. Len(job.lines) /\ Len(job.lines) \in Nat
  BY Constants DEF Batch
<1>2. ASSUME NEW n \in 0 .. Batch PROVE Range(SubSeq(job.lines, 1, n)) \subseteq Bar
  <2>1. n \in 0 .. Len(job.lines)
    BY <1>1
  <2>2. SubSeq(job.lines, 1, n) \in Seq(Bar)
    <3>1. \A i \in 1 .. n : job.lines[i] \in Bar
      BY <2>1, ElementOfSeq
    <3>. QED BY <2>1, <3>1, SubSeqProperties
  <2>. QED BY <2>2, RangeOfSeq
<1>3. SubSeq(job.lines, Batch + 1, Len(job.lines)) \in Seq(Bar)
  <2>1. Batch \in Nat /\ Len(job.lines) \in 0 .. Len(job.lines)
    BY <1>1
  <2>. QED BY <2>1, PartOfLines
<1>. QED BY <1>1, <1>2, <1>3

-----------------------------------------------------------------------------
(* FlushInv is inductive *)

LEMMA InitFlush == Init => FlushInv
<1>. SUFFICES ASSUME Init PROVE FlushInv
  OBVIOUS
<1>1. TypeOK
  <2>1. bars \in 0 .. MaxBars /\ baseline \in 0 .. MaxBars + 1 /\ faults \in 0 .. MaxFaults
    BY Constants DEF Init
  <2>2. queue \in Seq(Bar) /\ Len(queue) <= MaxQueue /\ spool \in Seq(Bar)
    BY Constants, EmptyLines DEF Init
  <2>3. job \in JobType
    BY PlainJobs DEF Init
  <2>. QED BY <2>1, <2>2, <2>3 DEF Init, TypeOK
<1>2. Down.pc = "down"
  BY DEF Down
<1>. QED BY <1>1, <1>2, Constants DEF Init, FlushInv

\* What the shape of `job` says of the job before a step
LEMMA PlainPc == Down.pc = "down" /\ Idle.pc = "idle" /\ Down # Idle
BY DEF Down, Idle

\* A step that leaves the rest of the state well typed and ends in a job
\* without locals
LEMMA PlainFlush ==
    ASSUME FlushInv,
           bars' = bars, baseline' \in 0 .. bars + 1,
           queue' \in Seq(Bar), Len(queue') <= MaxQueue, spool' \in Seq(Bar),
           online' \in BOOLEAN, synced' \in BOOLEAN,
           stored' \subseteq Bar, noticed' \subseteq Bar, faults' \in 0 .. MaxFaults,
           \/ job' = Down /\ queue' = <<>>
           \/ job' \in {Idle, [pc |-> "load"]} /\ baseline' # 0
    PROVE  FlushInv'
<1>1. TypeOK'
  <2>1. bars' \in 0 .. MaxBars /\ baseline' \in 0 .. MaxBars + 1
    BY Constants DEF FlushInv, TypeOK
  <2>2. job' \in JobType
    BY PlainJobs
  <2>. QED BY <2>1, <2>2 DEF TypeOK
<1>2. /\ job'.pc \in {"down", "idle", "load"}
      /\ job' # Down => baseline' # 0
      /\ job' = Down => queue' = <<>>
  BY PlainPc
<1>. QED BY <1>1, <1>2 DEF FlushInv

LEMMA FaultType == ASSUME faults \in 0 .. MaxFaults, Fault PROVE faults' \in 0 .. MaxFaults
BY Constants DEF Fault

\* OnInit, the handshake and the history
LEMMA StartFlush ==
    ASSUME FlushInv,
           OnInit \/ HandshakeOk \/ HandshakeFails \/ BatchOk \/ BatchFails
              \/ HistoryDone \/ RetryHandshake
    PROVE  FlushInv'
<1>. USE PlainPc
<1>0. /\ TypeOK /\ job \in JobType /\ baseline \in 0 .. bars + 1 /\ bars \in 0 .. MaxBars
      /\ job # Down /\ baseline = 0 => job.pc \in {"handshake", "history"} /\ job.init
  BY DEF FlushInv, TypeOK
<1>1. \A b \in BOOLEAN : [pc |-> "handshake", init |-> b] \in JobType
  BY DEF JobType
<1>2. \A b \in BOOLEAN, l \in Seq(Bar) : [pc |-> "history", init |-> b, lines |-> l] \in JobType
  BY DEF JobType
<1>3. CASE OnInit
  <2>1. TypeOK'
    <3>1. queue' \in Seq(Bar) /\ Len(queue') <= MaxQueue
      BY <1>3, EmptyLines, Constants DEF OnInit
    <3>2. job' \in JobType
      BY <1>1, <1>3 DEF OnInit
    <3>. QED BY <1>0, <1>3, <3>1, <3>2 DEF OnInit, globals, TypeOK
  <2>2. job'.pc = "handshake" /\ job'.init /\ bars' = bars /\ baseline' = baseline
        /\ queue' = <<>>
    BY <1>3 DEF OnInit
  <2>. QED BY <1>0, <2>1, <2>2 DEF FlushInv
<1>4. CASE RetryHandshake
  <2>1. TypeOK'
    BY <1>0, <1>1, <1>4 DEF RetryHandshake, globals, TypeOK
  <2>2. /\ job'.pc = "handshake" /\ bars' = bars /\ baseline' = baseline
        /\ baseline # 0
    BY <1>0, <1>4 DEF RetryHandshake
  <2>. QED BY <1>0, <2>1, <2>2 DEF FlushInv
\* The handler ends: the baseline is reset if it was OnInit.
<1>5. ASSUME job.pc \in {"handshake", "history"}, HandshakeDone
      PROVE  job' = Idle /\ baseline' \in 1 .. bars + 1
  BY <1>0, <1>5 DEF HandshakeDone
<1>6. CASE HandshakeFails
  <2>1. job' = Idle /\ baseline' \in 1 .. bars + 1
    BY <1>5, <1>6 DEF HandshakeFails
  <2>. QED BY <1>0, <1>6, <2>1, PlainFlush, FaultType DEF HandshakeFails, globals, TypeOK
<1>7. CASE HistoryDone
  <2>1. job' = Idle /\ baseline' \in 1 .. bars + 1
    BY <1>5, <1>7 DEF HistoryDone
  <2>. QED BY <1>0, <1>7, <2>1, PlainFlush DEF HistoryDone, TypeOK
<1>8. CASE HandshakeOk
  <2>1. CASE synced /\ HandshakeDone
    <3>1. job' = Idle /\ baseline' \in 1 .. bars + 1
      BY <1>5, <1>8, <2>1 DEF HandshakeOk
    <3>. QED BY <1>0, <1>8, <3>1, PlainFlush DEF HandshakeOk, TypeOK
  <2>2. CASE job' = [pc |-> "history", init |-> job.init, lines |-> History]
             /\ UNCHANGED baseline
    <3>1. job.pc = "handshake" /\ job.init \in BOOLEAN /\ History \in Seq(Bar)
      BY <1>0, <1>8, JobShapes, HistoryType DEF HandshakeOk
    <3>2. job' \in JobType /\ job'.pc = "history" /\ job'.init = job.init
      BY <1>2, <2>2, <3>1
    <3>3. TypeOK'
      BY <1>0, <1>8, <2>2, <3>2 DEF HandshakeOk, TypeOK
    <3>. QED BY <1>0, <1>8, <2>2, <3>1, <3>2, <3>3 DEF HandshakeOk, FlushInv
  <2>. QED BY <1>8, <2>1, <2>2 DEF HandshakeOk
<1>9. CASE BatchOk \/ BatchFails
  <2>1. job.pc = "history" /\ job.init \in BOOLEAN /\ job.lines \in Seq(Bar)
    BY <1>0, <1>9, JobShapes DEF BatchOk, BatchFails
  <2>2. job' = [job EXCEPT !.lines = SubSeq(job.lines, Batch + 1, Len(job.lines))]
    BY <1>9 DEF BatchOk, BatchFails, NextBatch
  <2>3. job \in [pc : {"history"}, init : BOOLEAN, lines : Seq(Bar)]
    BY <1>0, <2>1 DEF JobType, Down, Idle
  <2>4. /\ job' \in [pc : {"history"}, init : BOOLEAN, lines : Seq(Bar)]
        /\ job'.init = job.init
    BY <2>1, <2>2, <2>3, BatchType
  <2>5. job' \in JobType /\ job'.pc = "history"
    BY <2>4 DEF JobType
  <2>6. stored' \subseteq Bar
    <3>1. \E n \in 0 .. Batch : stored' = stored \union Range(SubSeq(job.lines, 1, n))
      <4>1. Batch \in 0 .. Batch
        BY <2>1, BatchType
      <4>. QED BY <1>9, <4>1 DEF BatchOk, BatchFails
    <3>. QED BY <1>0, <2>1, <3>1, BatchType DEF TypeOK
  <2>7. faults' \in 0 .. MaxFaults
    BY <1>0, <1>9, FaultType DEF BatchOk, BatchFails, TypeOK
  <2>8. UNCHANGED <<bars, baseline, queue, spool, online, synced, noticed>>
    BY <1>9 DEF BatchOk, BatchFails, globals
  <2>9. TypeOK'
    BY <1>0, <2>5, <2>6, <2>7, <2>8 DEF TypeOK
  <2>. QED BY <1>0, <2>1, <2>4, <2>5, <2>8, <2>9 DEF FlushInv
<1>. QED BY <1>3, <1>4, <1>6, <1>7, <1>8, <1>9

\* OnTick, OnTimer and the closed queue
LEMMA QueueFlush ==
    ASSUME FlushInv, OnTick \/ OnTimer \/ SendClosedOk \/ SendClosedFails \/ QueueDone
    PROVE  FlushInv'
<1>. USE PlainPc
<1>0. /\ TypeOK /\ job \in JobType /\ baseline \in 0 .. bars + 1 /\ bars \in 0 .. MaxBars
      /\ job # Down /\ baseline = 0 => job.pc \in {"handshake", "history"} /\ job.init
      /\ queue \in Seq(Bar) /\ Len(queue) <= MaxQueue /\ spool \in Seq(Bar)
  BY DEF FlushInv, TypeOK
<1>1. CASE OnTick
  <2>1. baseline \in 1 .. bars + 1
    BY <1>0, <1>1 DEF OnTick
  <2>2. /\ ClosedBars \in Seq(Bar) /\ Range(ClosedBars) = baseline .. bars
    BY <1>0, <2>1, ClosedBarsType
  <2>3. queue \o ClosedBars \in Seq(Bar)
    BY <1>0, <2>2, ConcatProperties
  <2>4. queue' \in Seq(Bar) /\ Len(queue') <= MaxQueue
    BY <1>1, <2>3, NewestType DEF OnTick
  <2>5. noticed' \subseteq Bar
    <3>1. baseline .. bars \subseteq Bar
      BY <2>2, RangeOfSeq
    <3>. QED BY <1>0, <1>1, <3>1 DEF OnTick, TypeOK
  <2>6. baseline' \in 0 .. bars + 1 /\ baseline' # 0 /\ job' = Idle
    BY <1>0, <1>1 DEF OnTick
  <2>. QED BY <1>0, <1>1, <2>4, <2>5, <2>6, PlainFlush DEF OnTick, globals, TypeOK
<1>2. \A n \in 0 .. MaximumBatchSize : [pc |-> "closed", sent |-> n] \in JobType
  BY DEF JobType
<1>3. CASE OnTimer
  <2>1. job' = [pc |-> "closed", sent |-> 0] /\ 0 \in 0 .. MaximumBatchSize /\ job.pc = "idle"
    BY <1>3, Constants DEF OnTimer
  <2>2. job' \in JobType /\ job'.pc = "closed"
    BY <1>2, <2>1
  <2>3. UNCHANGED <<bars, baseline, queue, spool, online, synced, stored, noticed, faults>>
    BY <1>3 DEF OnTimer, globals
  <2>4. TypeOK'
    BY <1>0, <2>2, <2>3 DEF TypeOK
  <2>5. baseline # 0
    BY <1>0, <1>3, <2>1 DEF OnTimer
  <2>. QED BY <1>0, <2>2, <2>3, <2>4, <2>5 DEF FlushInv
<1>4. CASE SendClosedOk
  <2>1. /\ job.pc = "closed" /\ job.sent \in 0 .. MaximumBatchSize
        /\ job.sent < MaximumBatchSize /\ queue # <<>>
    BY <1>0, <1>4, JobShapes DEF SendClosedOk, Sending
  <2>2. job \in [pc : {"closed"}, sent : 0 .. MaximumBatchSize]
    BY <1>0, <2>1 DEF JobType, Down, Idle
  <2>3. job' = [job EXCEPT !.sent = job.sent + 1] /\ job.sent + 1 \in 0 .. MaximumBatchSize
    BY <1>4, <2>1, Constants DEF SendClosedOk
  <2>4. job' \in [pc : {"closed"}, sent : 0 .. MaximumBatchSize]
    BY <2>2, <2>3
  <2>5. job' \in JobType /\ job'.pc = "closed"
    BY <2>4 DEF JobType
  <2>6. /\ Head(queue) \in Bar /\ Tail(queue) \in Seq(Bar) /\ Len(Tail(queue)) = Len(queue) - 1
    BY <1>0, <2>1, RangeOfHeadTail
  <2>7. /\ queue' \in Seq(Bar) /\ Len(queue') <= MaxQueue /\ stored' \subseteq Bar
    <3>1. Len(queue) \in Nat
      BY <1>0
    <3>. QED BY <1>0, <1>4, <2>6, <3>1, Constants DEF SendClosedOk, TypeOK
  <2>8. UNCHANGED <<bars, baseline, spool, online, synced, noticed, faults>>
    BY <1>4 DEF SendClosedOk, globals
  <2>9. TypeOK'
    BY <1>0, <2>5, <2>7, <2>8 DEF TypeOK
  <2>10. baseline # 0
    BY <1>0, <2>1
  <2>. QED BY <1>0, <2>5, <2>8, <2>9, <2>10 DEF FlushInv
<1>5. CASE SendClosedFails
  <2>1. job.pc = "closed" /\ queue # <<>> /\ job' = [pc |-> "load"] /\ baseline # 0
    BY <1>0, <1>5 DEF SendClosedFails, Sending, ToSpool
  <2>2. /\ Head(queue) \in Bar /\ Tail(queue) \in Seq(Bar) /\ Len(Tail(queue)) = Len(queue) - 1
    BY <1>0, <2>1, RangeOfHeadTail
  <2>3. /\ queue' \in Seq(Bar) /\ Len(queue') <= MaxQueue
    <3>1. Len(Append(Tail(queue), Head(queue))) = Len(queue) - 1 + 1
      BY <2>2, AppendProperties
    <3>2. Len(queue) \in Nat
      BY <1>0
    <3>. QED BY <1>0, <1>5, <2>2, <3>1, <3>2, RangeOfAppend DEF SendClosedFails
  <2>4. spool' \in Seq(Bar) /\ stored' \subseteq Bar
    BY <1>0, <1>5, <2>2, RangeOfAppend DEF SendClosedFails, TypeOK
  <2>5. UNCHANGED <<bars, baseline, online, synced, noticed>> /\ faults' \in 0 .. MaxFaults
    BY <1>0, <1>5, FaultType DEF SendClosedFails, globals, TypeOK
  <2>. QED BY <1>0, <2>1, <2>3, <2>4, <2>5, PlainFlush DEF TypeOK
<1>6. CASE QueueDone
  <2>1. job' = [pc |-> "load"] /\ baseline # 0
    BY <1>0, <1>6 DEF QueueDone, ToSpool
  <2>. QED BY <1>0, <1>6, <2>1, PlainFlush DEF QueueDone, globals, TypeOK
<1>. QED BY <1>1, <1>3, <1>4, <1>5, <1>6

\* FlushSpool
LEMMA SpoolFlush ==
    ASSUME FlushInv, LoadAll \/ ResendOk \/ ResendFails \/ DeleteSpool \/ Rewrite
    PROVE  FlushInv'
<1>. USE PlainPc
<1>. DEFINE Flushing == [pc : {"resend", "rewrite"}, lines : Seq(Bar), i : Nat \ {0},
                         flushed : 0 .. MaximumBatchSize, remaining : Seq(Bar)]
<1>0. /\ TypeOK /\ job \in JobType /\ baseline \in 0 .. bars + 1 /\ bars \in 0 .. MaxBars
      /\ job # Down /\ baseline = 0 => job.pc \in {"handshake", "history"} /\ job.init
      /\ spool \in Seq(Bar) /\ Len(spool) \in Nat
  BY DEF FlushInv, TypeOK
<1>1. Flushing \subseteq JobType
  BY DEF JobType
<1>2. job.pc \in {"resend", "rewrite"} => job \in Flushing
  BY <1>0 DEF JobType, Down, Idle
<1>. HIDE DEF Flushing
<1>3. CASE LoadAll
  <2>1. /\ job.pc = "load" /\ baseline # 0
        /\ UNCHANGED <<bars, baseline, queue, spool, online, synced, stored, noticed, faults>>
    BY <1>0, <1>3 DEF LoadAll, globals
  <2>2. CASE spool = <<>>
    BY <1>0, <1>3, <2>1, <2>2, PlainFlush DEF LoadAll, TypeOK
  <2>3. CASE spool # <<>>
    <3>1. job' = [pc |-> "resend", lines |-> spool, i |-> 1, flushed |-> 0, remaining |-> <<>>]
      BY <1>3, <2>3 DEF LoadAll
    <3>2. job' \in Flushing
      BY <1>0, <3>1, Constants, EmptyLines DEF Flushing
    <3>3. TypeOK'
      BY <1>0, <1>1, <2>1, <3>2 DEF TypeOK
    <3>4. /\ job'.pc = "resend" /\ job'.lines = spool /\ job'.i = 1 /\ job'.flushed = 0
          /\ 1 <= Len(spool) + 1
      BY <1>0, <3>1
    <3>. QED BY <1>0, <2>1, <3>3, <3>4 DEF FlushInv
  <2>. QED BY <2>2, <2>3
<1>4. ASSUME Resending
      PROVE  /\ job \in Flushing /\ job.pc = "resend" /\ Line \in Bar
             /\ job.i \in 1 .. Len(spool) /\ Line = spool[job.i] /\ baseline # 0
             /\ job.lines = spool /\ job.flushed < job.i
             /\ job.i + 1 \in Nat \ {0} /\ job.flushed + 1 \in 0 .. MaximumBatchSize
             /\ job.flushed + 1 < job.i + 1 /\ job.flushed < job.i + 1
             /\ job.i + 1 <= Len(spool) + 1
             /\ \A k \in 1 .. job.i - 1 : spool[k] \in stored \union Range(job.remaining)
  <2>1. job.pc = "resend" /\ job \in Flushing
    BY <1>2, <1>4 DEF Resending
  <2>2. /\ job.i \in Nat \ {0} /\ job.i <= Len(spool) /\ job.flushed < MaximumBatchSize
        /\ job.flushed \in 0 .. MaximumBatchSize /\ job.lines = spool
        /\ job.flushed < job.i
        /\ \A k \in 1 .. job.i - 1 : spool[k] \in stored \union Range(job.remaining)
    BY <1>4, <2>1 DEF Flushing, Resending, FlushInv
  <2>3. job.i \in 1 .. Len(spool) /\ Line = spool[job.i]
    BY <1>0, <2>2 DEF Line
  <2>4. Line \in Bar
    BY <1>0, <2>3, ElementOfSeq
  <2>5. /\ job.i + 1 \in Nat \ {0} /\ job.flushed + 1 \in 0 .. MaximumBatchSize
        /\ job.flushed + 1 < job.i + 1 /\ job.flushed < job.i + 1
        /\ job.i + 1 <= Len(spool) + 1
    <3>1. ASSUME NEW n \in Nat \ {0}, n <= Len(spool), NEW m \in 0 .. MaximumBatchSize,
                 m < MaximumBatchSize, m < n
          PROVE  /\ n + 1 \in Nat \ {0} /\ m + 1 \in 0 .. MaximumBatchSize
                 /\ m + 1 < n + 1 /\ m < n + 1 /\ n + 1 <= Len(spool) + 1
      BY <1>0, <3>1, Constants
    <3>. QED BY <2>2, <3>1
  <2>6. baseline # 0
    BY <1>0, <2>1
  <2>. QED BY <2>1, <2>2, <2>3, <2>4, <2>5, <2>6
<1>5. CASE ResendOk
  <2>1. Resending /\ job' = [job EXCEPT !.i = job.i + 1, !.flushed = job.flushed + 1]
        /\ stored' = stored \union {Line}
        /\ UNCHANGED <<bars, baseline, queue, spool, online, synced, noticed, faults>>
    BY <1>5 DEF ResendOk, globals
  <2>2. /\ job' \in Flushing /\ job'.pc = "resend" /\ job'.i = job.i + 1
        /\ job'.flushed = job.flushed + 1 /\ job'.lines = spool
        /\ job'.remaining = job.remaining
    BY <1>4, <2>1 DEF Flushing
  <2>3. TypeOK'
    BY <1>0, <1>1, <1>4, <2>1, <2>2 DEF TypeOK
  <2>4. job'.flushed < job'.i /\ job'.i <= Len(spool) + 1
    BY <1>4, <2>1, <2>2
  <2>5. \A k \in 1 .. job'.i - 1 : spool[k] \in stored' \union Range(job'.remaining)
    <3>1. ASSUME NEW k \in 1 .. job'.i - 1
          PROVE  k \in 1 .. job.i - 1 \/ k = job.i
      BY <1>0, <1>4, <2>1, <2>2
    <3>. QED BY <1>4, <2>1, <2>2, <3>1
  <2>. QED BY <1>0, <1>4, <2>1, <2>2, <2>3, <2>4, <2>5 DEF FlushInv
<1>6. CASE ResendFails
  <2>1. /\ Resending
        /\ job' = [job EXCEPT !.i = job.i + 1, !.remaining = Append(job.remaining, Line)]
        /\ stored' \in {stored, stored \union {Line}} /\ faults' \in 0 .. MaxFaults
        /\ UNCHANGED <<bars, baseline, queue, spool, online, synced, noticed>>
    BY <1>0, <1>6, FaultType DEF ResendFails, globals, TypeOK
  <2>2. /\ Append(job.remaining, Line) \in Seq(Bar)
        /\ Range(Append(job.remaining, Line)) = Range(job.remaining) \union {Line}
    <3>1. job.remaining \in Seq(Bar) /\ Line \in Bar
      BY <1>4, <2>1 DEF Flushing
    <3>. QED BY <3>1, RangeOfAppend
  <2>3. /\ job' \in Flushing /\ job'.pc = "resend" /\ job'.i = job.i + 1
        /\ job'.flushed = job.flushed /\ job'.lines = spool
        /\ job'.remaining = Append(job.remaining, Line)
    BY <1>4, <2>1, <2>2 DEF Flushing
  <2>4. TypeOK'
    BY <1>0, <1>1, <1>4, <2>1, <2>3 DEF TypeOK
  <2>5. job'.flushed < job'.i /\ job'.i <= Len(spool) + 1
    BY <1>4, <2>1, <2>3
  <2>6. \A k \in 1 .. job'.i - 1 : spool[k] \in stored' \union Range(job'.remaining)
    <3>1. ASSUME NEW k \in 1 .. job'.i - 1
          PROVE  k \in 1 .. job.i - 1 \/ k = job.i
      BY <1>0, <1>4, <2>1, <2>3
    <3>. QED BY <1>4, <2>1, <2>2, <2>3, <3>1
  <2>. QED BY <1>0, <1>4, <2>1, <2>3, <2>4, <2>5, <2>6 DEF FlushInv
<1>7. CASE DeleteSpool
  <2>1. /\ job.pc = "resend" /\ job' = [job EXCEPT !.pc = "rewrite"] /\ spool' = <<>>
        /\ UNCHANGED <<bars, baseline, queue, online, synced, stored, noticed, faults>>
    BY <1>7 DEF DeleteSpool, globals
  <2>2. job' \in Flushing /\ job'.pc = "rewrite" /\ baseline # 0
    BY <1>0, <1>2, <2>1 DEF Flushing
  <2>3. TypeOK'
    BY <1>0, <1>1, <2>1, <2>2, EmptyLines DEF TypeOK
  <2>. QED BY <1>0, <2>1, <2>2, <2>3 DEF FlushInv
<1>8. CASE Rewrite
  <2>1. job.pc = "rewrite" /\ job' = Idle /\ spool' = job.remaining /\ baseline # 0
    BY <1>0, <1>8 DEF Rewrite
  <2>2. spool' \in Seq(Bar)
    BY <1>2, <2>1 DEF Flushing
  <2>. QED BY <1>0, <1>8, <2>1, <2>2, PlainFlush DEF Rewrite, globals, TypeOK
<1>. QED BY <1>3, <1>5, <1>6, <1>7, <1>8

LEMMA NextFlush == FlushInv /\ [Next]_vars => FlushInv'
<1>. SUFFICES ASSUME FlushInv, [Next]_vars PROVE FlushInv'
  OBVIOUS
<1>0. /\ TypeOK /\ baseline \in 0 .. bars + 1 /\ bars \in 0 .. MaxBars
  BY DEF FlushInv, TypeOK
<1>1. CASE NewBar
  <2>1. /\ bars' = bars + 1 /\ bars' \in 0 .. MaxBars
        /\ UNCHANGED <<baseline, queue, spool, online, synced, stored, noticed, faults, job>>
    BY <1>0, <1>1, Constants DEF NewBar, globals
  <2>2. TypeOK'
    BY <1>0, <2>1 DEF TypeOK
  <2>3. baseline' <= bars' + 1
    BY <1>0, <2>1
  <2>. QED BY <2>1, <2>2, <2>3 DEF FlushInv
<1>2. CASE Crash
  <2>1. /\ bars' = bars /\ baseline' = baseline /\ queue' = <<>> /\ spool' = spool
        /\ online' = FALSE /\ synced' = FALSE /\ job' = Down
        /\ stored' = stored /\ noticed' = noticed /\ faults' \in 0 .. MaxFaults
    BY <1>0, <1>2, FaultType DEF Crash, TypeOK
  <2>2. <<>> \in Seq(Bar) /\ Len(<<>>) <= MaxQueue
    BY EmptyLines, Constants
  <2>. QED BY <1>0, <2>1, <2>2, PlainFlush DEF TypeOK
<1>3. ASSUME NEW kept \in BOOLEAN, OnDeinit(kept) PROVE FlushInv'
  <2>1. spool' \in Seq(Bar)
    BY <1>0, <1>3, ConcatProperties DEF OnDeinit, TypeOK
  <2>2. faults' \in 0 .. MaxFaults /\ online' \in BOOLEAN /\ synced' \in BOOLEAN
    BY <1>0, <1>3, FaultType DEF OnDeinit, TypeOK
  <2>. QED BY <1>0, <1>3, <2>1, <2>2, PlainFlush, EmptyLines, Constants DEF OnDeinit, TypeOK
<1>4. CASE UNCHANGED vars
  <2>1. TypeOK'
    BY <1>0, <1>4 DEF vars, globals, TypeOK
  <2>. QED BY <1>4, <2>1 DEF vars, globals, FlushInv
<1>. QED BY <1>1, <1>2, <1>3, <1>4, StartFlush, QueueFlush, SpoolFlush DEF Next, Handle

\* The queue, the spool file and the locals of every handler keep their types.
THEOREM BridgeTypeCorrect == Spec => []TypeOK
<1>1. FlushInv => TypeOK
  BY DEF FlushInv
<1>. QED BY <1>1, InitFlush, NextFlush, PTL DEF Spec
-----------------------------------------------------------------------------
(* LossesExplained *)

\* Where a bar is safe
Kept == stored \union Range(queue) \union Range(spool) \union InHand

LEMMA NoHand == job.pc \notin {"resend", "rewrite"} => InHand = {}
BY DEF InHand

LEMMA StepLosses ==
    ASSUME FlushInv, [Next]_vars, ~Crash, ~SpoolTooLong, ~Overflow
    PROVE  Lost' \subseteq Lost
<1>. USE PlainPc
<1>0. /\ FlushInv' /\ job \in JobType
      /\ queue \in Seq(Bar) /\ spool \in Seq(Bar) /\ bars \in 0 .. MaxBars
  BY NextFlush DEF FlushInv, TypeOK
<1>1. Lost = noticed \ Kept
  BY DEF Lost, Kept
<1>2. ASSUME noticed' = noticed, Kept \subseteq Kept' PROVE Lost' \subseteq Lost
  BY <1>2 DEF Lost, Kept
<1>3. ASSUME noticed' = noticed, stored \subseteq stored', InHand = {},
             Range(queue) \union Range(spool) \subseteq
                stored' \union Range(queue') \union Range(spool')
      PROVE  Lost' \subseteq Lost
  BY <1>2, <1>3 DEF Kept
<1>4. CASE NewBar \/ UNCHANGED vars
  BY <1>2, <1>4 DEF NewBar, vars, globals, Kept, InHand
<1>5. CASE OnTick
  <2>1. baseline \in 1 .. bars + 1
    BY <1>5 DEF OnTick, FlushInv, TypeOK
  <2>2. /\ ClosedBars \in Seq(Bar) /\ Range(ClosedBars) = baseline .. bars
        /\ Len(queue \o ClosedBars) = Len(queue) + Len(ClosedBars)
        /\ queue \o ClosedBars \in Seq(Bar)
        /\ Range(queue \o ClosedBars) = Range(queue) \union Range(ClosedBars)
    BY <1>0, <2>1, ClosedBarsType, ConcatProperties, RangeConcatenation
  <2>3. Len(queue \o ClosedBars) <= MaxQueue
    <3>1. Len(queue) \in Nat /\ Len(ClosedBars) \in Nat /\ MaxQueue \in Nat
      BY <1>0, <2>2, Constants
    <3>. QED BY <1>5, <2>2, <3>1 DEF Overflow
  <2>4. queue' = queue \o ClosedBars
    BY <1>5, <2>2, <2>3, NewestType DEF OnTick
  <2>5. Range(queue') = Range(queue) \union (baseline .. bars)
    BY <2>2, <2>4
  <2>6. /\ noticed' = noticed \union (baseline .. bars)
        /\ UNCHANGED <<spool, stored, job>>
    BY <1>5 DEF OnTick
  <2>. QED BY <2>5, <2>6 DEF Lost, InHand
\* Only the queue is emptied, and it was empty while the EA was down.
<1>6. CASE OnInit
  BY <1>3, <1>6, EmptyLines, NoHand DEF OnInit, FlushInv
<1>7. CASE HandshakeOk \/ HandshakeFails \/ BatchOk \/ BatchFails \/ HistoryDone
           \/ RetryHandshake \/ OnTimer \/ QueueDone \/ LoadAll
  <2>1. /\ job.pc \notin {"resend", "rewrite"} /\ noticed' = noticed
        /\ queue' = queue /\ spool' = spool
    BY <1>7 DEF HandshakeOk, HandshakeFails, BatchOk, BatchFails, HistoryDone,
                RetryHandshake, OnTimer, QueueDone, LoadAll
  <2>2. stored \subseteq stored'
    BY <1>7 DEF HandshakeOk, HandshakeFails, BatchOk, BatchFails, HistoryDone,
                RetryHandshake, OnTimer, QueueDone, LoadAll
  <2>. QED BY <1>3, <2>1, <2>2, NoHand
<1>8. CASE SendClosedOk
  <2>1. /\ job.pc = "closed" /\ queue # <<>> /\ queue' = Tail(queue)
        /\ stored' = stored \union {Head(queue)} /\ noticed' = noticed /\ spool' = spool
    BY <1>8 DEF SendClosedOk, Sending
  <2>2. Range(queue) = {Head(queue)} \union Range(Tail(queue))
    BY <1>0, <2>1, RangeOfHeadTail
  <2>. QED BY <1>3, <2>1, <2>2, NoHand
<1>9. CASE SendClosedFails
  <2>1. /\ job.pc = "closed" /\ queue # <<>> /\ noticed' = noticed
        /\ queue' = Append(Tail(queue), Head(queue))
        /\ spool' = Append(spool, Head(queue)) /\ stored \subseteq stored'
    BY <1>9 DEF SendClosedFails, Sending
  <2>2. /\ Range(queue) = {Head(queue)} \union Range(Tail(queue))
        /\ Head(queue) \in Bar /\ Tail(queue) \in Seq(Bar)
    BY <1>0, <2>1, RangeOfHeadTail
  <2>3. /\ Range(queue') = Range(Tail(queue)) \union {Head(queue)}
        /\ Range(spool') = Range(spool) \union {Head(queue)}
    BY <1>0, <2>1, <2>2, RangeOfAppend
  <2>. QED BY <1>3, <2>1, <2>2, <2>3, NoHand
<1>10. CASE ResendOk
  <2>1. /\ job.pc = "resend" /\ noticed' = noticed /\ queue' = queue /\ spool' = spool
        /\ job' = [job EXCEPT !.i = job.i + 1, !.flushed = job.flushed + 1]
        /\ stored \subseteq stored'
    BY <1>10 DEF ResendOk, Resending
  <2>2. job'.pc = job.pc /\ job'.remaining = job.remaining
    BY <1>0, <2>1 DEF JobType, Down, Idle
  <2>. QED BY <1>2, <2>1, <2>2 DEF Kept, InHand
<1>11. CASE ResendFails
  <2>1. /\ job.pc = "resend" /\ noticed' = noticed /\ queue' = queue /\ spool' = spool
        /\ job' = [job EXCEPT !.i = job.i + 1, !.remaining = Append(job.remaining, Line)]
        /\ stored \subseteq stored' /\ job.i <= Len(job.lines)
    BY <1>11 DEF ResendFails, Resending
  <2>2. job.remaining \in Seq(Bar) /\ Line \in Bar
    <3>1. job.lines \in Seq(Bar) /\ job.remaining \in Seq(Bar) /\ job.i \in Nat \ {0}
      BY <1>0, <2>1, JobShapes
    <3>2. job.i \in 1 .. Len(job.lines)
      BY <2>1, <3>1
    <3>. QED BY <3>1, <3>2, ElementOfSeq DEF Line
  <2>3. job'.pc = job.pc /\ job'.remaining = Append(job.remaining, Line)
    BY <1>0, <2>1 DEF JobType, Down, Idle
  <2>4. Range(job.remaining) \subseteq Range(job'.remaining)
    BY <2>2, <2>3, RangeOfAppend
  <2>. QED BY <1>2, <2>1, <2>3, <2>4 DEF Kept, InHand
\* Every line of the file has been sent or is to be written back.
<1>12. CASE DeleteSpool
  <2>1. /\ job.pc = "resend" /\ ~Resending /\ noticed' = noticed /\ queue' = queue
        /\ spool' = <<>> /\ stored' = stored /\ job' = [job EXCEPT !.pc = "rewrite"]
    BY <1>12 DEF DeleteSpool
  <2>2. job'.pc = "rewrite" /\ job'.remaining = job.remaining
    BY <1>0, <2>1 DEF JobType, Down, Idle
  <2>3. /\ job.lines = spool /\ job.flushed < job.i
        /\ \A k \in 1 .. job.i - 1 : spool[k] \in stored \union Range(job.remaining)
    BY <2>1 DEF FlushInv
  <2>4. job.i \in Nat \ {0} /\ job.flushed \in 0 .. MaximumBatchSize
    BY <1>0, <2>1, JobShapes
  <2>5. ~(Len(spool) > MaximumBatchSize) /\ ~(job.i <= Len(spool) /\ job.flushed < MaximumBatchSize)
    BY <1>12, <2>1, <2>3 DEF SpoolTooLong, Resending
  <2>6. \A k \in 1 .. Len(spool) : k \in 1 .. job.i - 1
    <3>1. ASSUME NEW n \in Nat \ {0}, NEW m \in 0 .. MaximumBatchSize, m < n,
                 ~(n <= Len(spool) /\ m < MaximumBatchSize)
          PROVE  n > Len(spool)
      BY <1>0, <2>5, <3>1, Constants
    <3>2. job.i > Len(spool)
      BY <2>3, <2>4, <2>5, <3>1
    <3>. QED BY <1>0, <2>4, <3>2
  <2>7. Range(spool) \subseteq stored \union Range(job.remaining)
    <3>1. Range(spool) = {spool[k] : k \in 1 .. Len(spool)}
      BY <1>0, RangeEquality
    <3>. QED BY <2>3, <2>6, <3>1
  <2>. QED BY <1>2, <2>1, <2>2, <2>7 DEF Kept, InHand
<1>13. CASE Rewrite
  <2>1. /\ job.pc = "rewrite" /\ noticed' = noticed /\ queue' = queue
        /\ spool' = job.remaining /\ stored' = stored /\ job' = Idle
    BY <1>13 DEF Rewrite
  <2>2. spool = <<>>
    BY <2>1 DEF FlushInv
  <2>. QED BY <1>2, <2>1, <2>2, EmptyLines DEF Kept, InHand
<1>14. ASSUME NEW kept \in BOOLEAN, OnDeinit(kept) PROVE Lost' \subseteq Lost
  <2>1. /\ job = Idle /\ noticed' = noticed /\ queue' = <<>> /\ spool' = spool \o queue
        /\ stored' = stored
    BY <1>14 DEF OnDeinit
  <2>2. Range(spool') = Range(spool) \union Range(queue)
    BY <1>0, <2>1, RangeConcatenation
  <2>. QED BY <1>3, <2>1, <2>2, NoHand
<1>. QED BY <1>4, <1>5, <1>6, <1>7, <1>8, <1>9, <1>10, <1>11, <1>12, <1>13, <1>14
         DEF Next, Handle

\* A closed bar that OnTick has noticed stays with the EA until the API has it,
\* whatever fails, except for the reasons LossesExplained names
\* (MMXMBridgeEA.mq5 285-515).
THEOREM LossesCorrect == Spec => LossesExplained
<1>. DEFINE Explained == Lost' \subseteq Lost \/ Crash \/ SpoolTooLong \/ Overflow
<1>1. FlushInv /\ [Next]_vars => [Explained]_vars
  BY StepLosses
<1>. QED BY <1>1, InitFlush, NextFlush, PTL DEF Spec, LossesExplained
=============================================================================
