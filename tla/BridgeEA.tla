------------------------------ MODULE BridgeEA ------------------------------
(***************************************************************************)
(* MMXMBridgeEA (mql5/Experts/MMXMBridgeEA.mq5): how a bar that closes at  *)
(* the broker gets to the API. OnTick notices closed bars and queues them, *)
(* OnTimer sends the queue and then the spool file, OnInit shakes hands    *)
(* and sends the history, OnDeinit saves the queue to the spool.           *)
(*                                                                         *)
(* The terminal runs one handler of an EA at a time, but WebRequest blocks *)
(* and bars go on closing meanwhile, so a handler is a sequence of steps,  *)
(* one for each request. One timeframe is modelled; its bars are numbered  *)
(* by openTime. The queue is the bounded FIFO of BoundedQueue; `stored` is *)
(* what IngestionService has accepted (CandleIngestion). Ticks, snapshots  *)
(* of the forming bar and heartbeats touch none of this state.             *)
(***************************************************************************)
EXTENDS Integers, Sequences, SequencesExt

CONSTANTS
    FirstBars,        \* bars at the broker before the EA is first started
    MaxBars,          \* bound: the last bar that closes
    MaximumBatchSize,
    MaxQueue,         \* MaxCandleSpoolSize: the limit of the queue
    HistoryBars,      \* InitialM1Bars and the like
    MaxFaults         \* bound: failed requests, reloads and crashes

ASSUME BridgeAssumption ==
    /\ MaximumBatchSize \in Nat \ {0} /\ MaxQueue \in Nat \ {0}
    /\ FirstBars \in Nat /\ MaxBars \in Nat /\ FirstBars <= MaxBars
    /\ HistoryBars \in Nat /\ MaxFaults \in Nat

VARIABLES
    bars,      \* bars 1 .. bars have closed, bars + 1 is forming
    baseline,  \* m_lastBarTime: the forming bar when the EA last looked
    queue,     \* g_closedCandleQueue
    spool,     \* the lines of the candle spool file
    online,    \* g_connectionId # ""
    synced,    \* g_historySyncDone
    stored,    \* the closed candles the API has stored
    noticed,   \* the bars OnTick has queued so far (ghost)
    faults,
    job        \* the handler that is running, and its locals

globals == <<online, synced>>
vars == <<bars, baseline, queue, spool, online, synced, stored, noticed,
          faults, job>>

Bar  == 1 .. MaxBars
Down == [pc |-> "down"]
Idle == [pc |-> "idle"]

Init == /\ bars = FirstBars
        /\ baseline = 0
        /\ queue = <<>> /\ spool = <<>>
        /\ online = FALSE /\ synced = FALSE
        /\ stored = {} /\ noticed = {}
        /\ faults = 0
        /\ job = Down

-----------------------------------------------------------------------------

NewBar == /\ bars < MaxBars
          /\ bars' = bars + 1
          /\ UNCHANGED <<baseline, queue, spool, globals, stored, noticed,
                         faults, job>>

Fault == faults < MaxFaults /\ faults' = faults + 1

KeepAll(q) == q                                                   \* mutant
\* Push drops the oldest items of a full queue.
Newest(q) == IF Len(q) > MaxQueue THEN SubSeq(q, Len(q) - MaxQueue + 1, Len(q))
                                  ELSE q

\* DetectClosedBars walks every bar from the old baseline on.
ClosedBars == [i \in 1 .. bars + 1 - baseline |-> baseline + i - 1]

OnTick == /\ job = Idle
          /\ baseline <= bars
          /\ queue' = Newest(queue \o ClosedBars)
          /\ noticed' = noticed \union (baseline .. bars)
          /\ baseline' = bars + 1
          /\ UNCHANGED <<bars, spool, globals, stored, faults, job>>

-----------------------------------------------------------------------------
(* OnInit, the handshake and the history *)

\* The queues are initialised; the spool file is what it was.
OnInit == /\ job = Down
          /\ queue' = <<>>
          /\ job' = [pc |-> "handshake", init |-> TRUE]
          /\ UNCHANGED <<bars, baseline, spool, globals, stored, noticed, faults>>

\* The end of OnInit (ResetBaseline), or of an OnTimer that shook hands
HandshakeDone == /\ job' = Idle
                 /\ baseline' = IF job.init THEN bars + 1 ELSE baseline

\* CopyClosedHistory: the oldest bars, none of them the forming one
History == [i \in 1 .. (IF bars < HistoryBars THEN bars ELSE HistoryBars) |-> i]

HandshakeOk ==
    /\ job.pc = "handshake"
    /\ online' = TRUE
    /\ \/ /\ ~synced
          /\ job' = [pc |-> "history", init |-> job.init, lines |-> History]
          /\ UNCHANGED baseline
       \/ synced /\ HandshakeDone
    /\ UNCHANGED <<bars, queue, spool, synced, stored, noticed, faults>>

HandshakeFails ==
    /\ job.pc = "handshake"
    /\ Fault
    /\ HandshakeDone
    /\ UNCHANGED <<bars, queue, spool, globals, stored, noticed>>

Batch == IF Len(job.lines) < MaximumBatchSize
         THEN Len(job.lines) ELSE MaximumBatchSize
NextBatch == job' = [job EXCEPT !.lines = SubSeq(@, Batch + 1, Len(@))]

\* historyBatch stores one bar after another.
BatchOk == /\ job.pc = "history"
           /\ job.lines # <<>>
           /\ stored' = stored \union Range(SubSeq(job.lines, 1, Batch))
           /\ NextBatch
           /\ UNCHANGED <<bars, baseline, queue, spool, globals, noticed, faults>>

\* A failed batch is logged and not sent again.
BatchFails ==
    /\ job.pc = "history"
    /\ job.lines # <<>>
    /\ Fault
    /\ \E n \in 0 .. Batch :
          stored' = stored \union Range(SubSeq(job.lines, 1, n))
    /\ NextBatch
    /\ UNCHANGED <<bars, baseline, queue, spool, globals, noticed>>

HistoryDone == /\ job.pc = "history"
               /\ job.lines = <<>>
               /\ synced' = TRUE
               /\ HandshakeDone
               /\ UNCHANGED <<bars, queue, spool, online, stored, noticed, faults>>

-----------------------------------------------------------------------------
(* OnTimer *)

RetryHandshake ==
    /\ job = Idle
    /\ ~online
    /\ job' = [pc |-> "handshake", init |-> FALSE]
    /\ UNCHANGED <<bars, baseline, queue, spool, globals, stored, noticed, faults>>

OnTimer ==
    /\ job = Idle
    /\ online
    /\ job' = [pc |-> "closed", sent |-> 0]
    /\ UNCHANGED <<bars, baseline, queue, spool, globals, stored, noticed, faults>>

Sending == job.pc = "closed" /\ job.sent < MaximumBatchSize /\ queue # <<>>
ToSpool == job' = [pc |-> "load"]

\* 200 or 409
SendClosedOk ==
    /\ Sending
    /\ stored' = stored \union {Head(queue)}
    /\ queue' = Tail(queue)
    /\ job' = [job EXCEPT !.sent = @ + 1]
    /\ UNCHANGED <<bars, baseline, spool, globals, noticed, faults>>

\* Requeued and spooled, and no more sent. A late request is stored all the
\* same, although the EA has given up on the answer.
SendClosedFails ==
    /\ Sending
    /\ Fault
    /\ stored' \in {stored, stored \union {Head(queue)}}
    /\ queue' = Append(Tail(queue), Head(queue))
    /\ spool' = Append(spool, Head(queue))
    /\ ToSpool
    /\ UNCHANGED <<bars, baseline, globals, noticed>>

QueueDone ==
    /\ job.pc = "closed"
    /\ ~Sending
    /\ ToSpool
    /\ UNCHANGED <<bars, baseline, queue, spool, globals, stored, noticed, faults>>

(* FlushSpool *)

NeverResend ==                                                    \* mutant
    /\ job.pc = "load"
    /\ job' = Idle
    /\ UNCHANGED <<bars, baseline, queue, spool, globals, stored, noticed, faults>>

LoadAll ==
    /\ job.pc = "load"
    /\ job' = IF spool = <<>> THEN Idle
              ELSE [pc |-> "resend", lines |-> spool, i |-> 1, flushed |-> 0,
                    remaining |-> <<>>]
    /\ UNCHANGED <<bars, baseline, queue, spool, globals, stored, noticed, faults>>

Resending == /\ job.pc = "resend"
             /\ job.i <= Len(job.lines)
             /\ job.flushed < MaximumBatchSize
Line == job.lines[job.i]

ResendOk ==
    /\ Resending
    /\ stored' = stored \union {Line}
    /\ job' = [job EXCEPT !.i = @ + 1, !.flushed = @ + 1]
    /\ UNCHANGED <<bars, baseline, queue, spool, globals, noticed, faults>>

ForgetFailed ==                                                   \* mutant
    /\ Resending
    /\ Fault
    /\ stored' \in {stored, stored \union {Line}}
    /\ job' = [job EXCEPT !.i = @ + 1]
    /\ UNCHANGED <<bars, baseline, queue, spool, globals, noticed>>

ResendFails ==
    /\ Resending
    /\ Fault
    /\ stored' \in {stored, stored \union {Line}}
    /\ job' = [job EXCEPT !.i = @ + 1, !.remaining = Append(@, Line)]
    /\ UNCHANGED <<bars, baseline, queue, spool, globals, noticed>>

\* Rewrite deletes the file and then writes the failed lines to a new one; the
\* loop before it ("keep unflushed") adds none.
DeleteSpool ==
    /\ job.pc = "resend"
    /\ ~Resending
    /\ spool' = <<>>
    /\ job' = [job EXCEPT !.pc = "rewrite"]
    /\ UNCHANGED <<bars, baseline, queue, globals, stored, noticed, faults>>

Rewrite ==
    /\ job.pc = "rewrite"
    /\ spool' = job.remaining
    /\ job' = Idle
    /\ UNCHANGED <<bars, baseline, queue, globals, stored, noticed, faults>>

-----------------------------------------------------------------------------
(* The end of the EA *)

\* Globals survive a change of the chart, not a removal.
OnDeinit(kept) ==
    /\ job = Idle
    /\ Fault
    /\ spool' = spool \o queue
    /\ queue' = <<>>
    /\ online' = (online /\ kept) /\ synced' = (synced /\ kept)
    /\ job' = Down
    /\ UNCHANGED <<bars, baseline, stored, noticed>>

\* The terminal dies at any moment: only the spool file is left.
Crash ==
    /\ job # Down
    /\ Fault
    /\ queue' = <<>>
    /\ online' = FALSE /\ synced' = FALSE
    /\ job' = Down
    /\ UNCHANGED <<bars, baseline, spool, stored, noticed>>

Handle == \/ OnTick \/ OnInit
          \/ HandshakeOk \/ HandshakeFails \/ BatchOk \/ BatchFails \/ HistoryDone
          \/ RetryHandshake \/ OnTimer
          \/ SendClosedOk \/ SendClosedFails \/ QueueDone
          \/ LoadAll \/ ResendOk \/ ResendFails \/ DeleteSpool \/ Rewrite

Next == NewBar \/ Handle \/ Crash \/ \E kept \in BOOLEAN : OnDeinit(kept)

Spec == Init /\ [][Next]_vars

\* The terminal goes on calling the handlers, and OnTick comes between two
\* timer events; with MaxFaults the network is up in the end.
FairSpec == Spec /\ WF_vars(Handle) /\ SF_vars(OnTick)

-----------------------------------------------------------------------------
(* Properties *)

JobType ==
    {Down, Idle, [pc |-> "load"]}
    \union [pc : {"handshake"}, init : BOOLEAN]
    \union [pc : {"history"}, init : BOOLEAN, lines : Seq(Bar)]
    \union [pc : {"closed"}, sent : 0 .. MaximumBatchSize]
    \union [pc : {"resend", "rewrite"}, lines : Seq(Bar), i : Nat \ {0},
            flushed : 0 .. MaximumBatchSize, remaining : Seq(Bar)]

TypeOK ==
    /\ bars \in 0 .. MaxBars
    /\ baseline \in 0 .. MaxBars + 1
    /\ queue \in Seq(Bar) /\ Len(queue) <= MaxQueue
    /\ spool \in Seq(Bar)
    /\ online \in BOOLEAN /\ synced \in BOOLEAN
    /\ stored \subseteq Bar /\ noticed \subseteq Bar
    /\ faults \in 0 .. MaxFaults
    /\ job \in JobType

\* What FlushSpool has in memory and will write back
InHand == IF job.pc \in {"resend", "rewrite"} THEN Range(job.remaining) ELSE {}
Lost == noticed \ (stored \union Range(queue) \union Range(spool) \union InHand)

SpoolTooLong == DeleteSpool /\ Len(job.lines) > MaximumBatchSize
Overflow == OnTick /\ Len(queue) + Len(ClosedBars) > MaxQueue

\* Whatever fails or is answered too late, and however often the EA is
\* reloaded, a bar that OnTick has noticed stays with the EA until the API has
\* it. It is lost only by a crash of the terminal, by the limit of the queue,
\* or when the spool file holds more lines than one flush sends.
LossesExplained ==
    [][Lost' \subseteq Lost \/ Crash \/ SpoolTooLong \/ Overflow]_vars

\* Why it holds: OnTick runs only once a baseline is set, no bar waits in the
\* queue of an EA that is down, and FlushSpool alone touches the spool file
\* while it runs: every line it has passed is stored or will be written back.
FlushInv ==
    /\ TypeOK
    /\ baseline <= bars + 1
    /\ baseline = 0 => \/ job = Down
                       \/ job.pc \in {"handshake", "history"} /\ job.init
    /\ job = Down => queue = <<>>
    /\ job.pc = "resend" =>
          /\ job.lines = spool /\ job.flushed < job.i /\ job.i <= Len(spool) + 1
          /\ \A k \in 1 .. job.i - 1 : spool[k] \in stored \union Range(job.remaining)
    /\ job.pc = "rewrite" => spool = <<>>

\* The EA answers for a bar it has noticed, and for one that has closed since
\* it last looked while it is up.
Owed(b) == \/ b \in noticed
           \/ b \in baseline .. bars /\ job = Idle

\* Every such bar gets to the API in the end, if it is not lost as above, or
\* the EA ended before it noticed the bar.
Delivered ==
    \A b \in Bar : Owed(b) ~> (b \in stored \/ b \in Lost \/ job = Down)
=============================================================================
