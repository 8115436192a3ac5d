------------------------------ MODULE Backtest ------------------------------
(***************************************************************************)
(* A backtest: the row that the API creates (backtest.controller.ts), the  *)
(* BullMQ job it adds, and the worker that replays the stored candles      *)
(* through the engine (backtest-runner.ts, candles.ts).                    *)
(*                                                                         *)
(* Time counts M5 bars. The engine is a nondeterministic choice: besides   *)
(* the candles it reads the wall clock, so another run of one backtest may *)
(* find other signals. DB and worker may fail or die at any step.          *)
(***************************************************************************)
EXTENDS Integers, Sequences, SequencesExt, FiniteSets, FiniteSetsExt

CONSTANTS
    Histories,     \* candle tables: sets of rows [terminal, tf, t, revision,
                   \* closed, h, l]
    Length,        \* [tf |-> length of a bar]
    From, To,      \* fromTs and toTs
    MinM15,        \* 50: fewer M15 bars are refused
    Warmup,        \* 60: the M15 bars before the first that is replayed
    Setups,        \* what the engine may answer: [direction, entry, sl, tp]
    MaxStalls,     \* maxStalledCount, BullMQ's default of 1
    MaxFaults      \* bound: crashes and failed requests to Postgres

ASSUME BacktestAssumption ==
    /\ MaxStalls \in Nat /\ MaxFaults \in Nat /\ Warmup \in Nat
    /\ "M15" \in DOMAIN Length /\ \A tf \in DOMAIN Length : Length[tf] \in Nat
    /\ \A h \in Histories :
          IsFiniteSet(h) /\ \A r \in h : r.t \in Int /\ r.revision \in Int

VARIABLES
    rows,          \* table Candle
    bt,            \* the Backtest row; status "NONE" before it exists
    job,           \* the BullMQ job: its state and how often it has stalled
    pc,            \* where the job function is; "off" without an execution
    i,             \* position of the M15 bar that is being replayed
    seen,          \* the candles handed to the engine for that bar
    signals,       \* the local list of signals
    faults

run == <<pc, i, seen, signals>>
vars == <<rows, bt, job, run, faults>>

Timeframes == DOMAIN Length

-----------------------------------------------------------------------------
\* candles.ts

InRange(tf, from, to) ==
    {r \in rows : r.tf = tf /\ r.closed /\ r.t >= from /\ r.t <= to}

Better(r, s) == r.revision > s.revision
\* Closed rows opening in the range; per openTime the latest revision, and of
\* equal ones (of several terminals) the first that the database returns.
LoadCandleRange(tf, from, to) ==
    LET inRange == InRange(tf, from, to)
        At(t) == {r \in inRange : r.t = t}
        Latest(t) == CHOOSE r \in At(t) : \A s \in At(t) : ~Better(s, r)
    IN  {Latest(r.t) : r \in inRange}

\* By openTime, of which there is one candle each.
Before(c, candles) == {d \in candles : d.t < c.t}
InOrder(candles) ==
    [k \in 1 .. Cardinality(candles) |->
        CHOOSE c \in candles : Cardinality(Before(c, candles)) = k - 1]

\* The higher timeframes are loaded from before the range on.
Load(tf) == LoadCandleRange(tf, IF Length[tf] > Length["M15"] THEN 0 ELSE From, To)

M15 == InOrder(Load("M15"))

-----------------------------------------------------------------------------
\* backtest-runner.ts

ClosesAt(c) == c.t + Length[c.tf]

SliceToClose(candles, cut) == {c \in candles : c.t <= cut + Length["M15"]} \* mutant
Slice(candles, cut) == {c \in candles : c.t <= cut}

\* The cut is the opening of the replayed M15 bar.
Seen(k) == LET cut == M15[k].t
           IN  ToSet(SubSeq(M15, 1, k))
               \union UNION {Slice(Load(tf), cut) : tf \in Timeframes \ {"M15"}}

Future(cut) == {c \in Slice(Load("M5"), cut) : c.t > cut}

SlHit(s, c) == IF s.direction = "LONG" THEN c.l <= s.sl ELSE c.h >= s.sl
TpHit(s, c) == IF s.direction = "LONG" THEN c.h >= s.tp ELSE c.l <= s.tp

\* The first bar that touches either decides, for the stop if it touches both.
Outcome(s, bars) ==
    LET touching == {c \in bars : SlHit(s, c) \/ TpHit(s, c)}
        first == CHOOSE c \in touching : \A x \in touching : c.t <= x.t
    IN  IF touching = {} THEN "NONE"
        ELSE IF SlHit(s, first) THEN "LOSS" ELSE "WIN"

Trade(s, cut) == [setup |-> s, at |-> cut, outcome |-> Outcome(s, Future(cut))]

\* direction, preferredEntry and stopLoss, to a tenth
Key(s) == <<s.direction, s.entry, s.sl>>
AnySignal(s) == TRUE                                              \* mutant
NewSignal(s) == \A t \in ToSet(signals) : Key(t.setup) # Key(s)

Idle == pc = "off" /\ i = 0 /\ seen = {} /\ signals = <<>>

Init == /\ rows \in Histories
        /\ bt = [status |-> "NONE", trades |-> <<>>, total |-> 0]
        /\ job = [state |-> "none", stalled |-> 0]
        /\ Idle
        /\ faults = 0

-----------------------------------------------------------------------------
\* backtest.controller.ts: two steps, and the API may die in between

CreateRow == /\ bt.status = "NONE"
             /\ bt' = [bt EXCEPT !.status = "QUEUED"]
             /\ UNCHANGED <<rows, job, run, faults>>

AddJob == /\ bt.status # "NONE" /\ job.state = "none"
          /\ job' = [job EXCEPT !.state = "waiting"]
          /\ UNCHANGED <<rows, bt, run, faults>>

Fault == faults < MaxFaults /\ faults' = faults + 1

ApiDies == /\ Fault
           /\ bt.status = "QUEUED" /\ job.state = "none"
           /\ job' = [job EXCEPT !.state = "never added"]
           /\ UNCHANGED <<rows, bt, run>>

-----------------------------------------------------------------------------
\* The job

Take == /\ job.state = "waiting" /\ pc = "off"
        /\ job' = [job EXCEPT !.state = "active"]
        /\ pc' = "start"
        /\ UNCHANGED <<rows, bt, i, seen, signals, faults>>

\* The function ends. BullMQ refuses the end of a job whose lock was lost.
End(state) ==
    /\ job' = [job EXCEPT !.state = IF @ = "active" THEN state ELSE @]
    /\ pc' = "off" /\ i' = 0 /\ seen' = {} /\ signals' = <<>>
    /\ UNCHANGED <<rows, bt>>

\* findUnique and the first update are outside the try block.
StartFails == pc = "start" /\ Fault /\ End("failed")

Start == /\ pc = "start"
         /\ bt' = [bt EXCEPT !.status = "RUNNING"]
         /\ pc' = "loading"
         /\ UNCHANGED <<rows, job, i, seen, signals, faults>>

GoTo(label) == pc' = label /\ UNCHANGED <<rows, bt, job, i, seen, signals>>

LoadFails == pc = "loading" /\ Fault /\ GoTo("catch")

Insufficient == /\ pc = "loading" /\ Len(M15) < MinM15
                /\ GoTo("catch") /\ UNCHANGED faults

Loaded == /\ pc = "loading" /\ Len(M15) >= MinM15
          /\ pc' = "replay" /\ i' = Warmup + 1
          /\ UNCHANGED <<rows, bt, job, seen, signals, faults>>

\* One round of the loop; the engine answers with at most one signal.
Replay(answer) ==
    /\ pc = "replay" /\ i <= Len(M15)
    /\ seen' = Seen(i)
    /\ signals' = signals \o
          SetToSeq({Trade(s, M15[i].t) : s \in {x \in answer : NewSignal(x)}})
    /\ i' = i + 1
    /\ UNCHANGED <<rows, bt, job, pc, faults>>

\* Status, summary and trades are one nested write.
Complete == /\ pc = "replay" /\ i > Len(M15)
            /\ bt' = [status |-> "COMPLETED", trades |-> bt.trades \o signals,
                      total |-> Len(signals)]
            /\ pc' = "return"
            /\ UNCHANGED <<rows, job, i, seen, signals, faults>>

CompleteFails == pc = "replay" /\ i > Len(M15) /\ Fault /\ GoTo("catch")

Return == pc = "return" /\ End("completed") /\ UNCHANGED faults

\* The error is thrown again; there is one attempt.
CatchSilently == pc = "catch" /\ GoTo("throw") /\ UNCHANGED faults  \* mutant
Catch == /\ pc = "catch"
         /\ bt' = [bt EXCEPT !.status = "FAILED"]
         /\ pc' = "throw"
         /\ UNCHANGED <<rows, job, i, seen, signals, faults>>

Throw == pc = "throw" /\ End("failed") /\ UNCHANGED faults

CatchFails == pc = "catch" /\ Fault /\ End("failed")

\* The lock on the job has expired: it waits once more, unless it has stalled
\* too often.
Stalled == [state   |-> IF job.stalled < MaxStalls THEN "waiting" ELSE "failed",
            stalled |-> job.stalled + 1]

\* The worker dies and starts again.
WorkerDies ==
    /\ Fault /\ pc # "off"
    /\ job' = IF job.state = "active" THEN Stalled ELSE job
    /\ pc' = "off" /\ i' = 0 /\ seen' = {} /\ signals' = <<>>
    /\ UNCHANGED <<rows, bt>>

\* The worker lives, but the loop never awaits, and so kept it from renewing the
\* lock; what is left of the function runs on.
LockLost ==
    /\ Fault /\ job.state = "active" /\ seen # {} /\ i > Len(M15)
    /\ job' = Stalled
    /\ UNCHANGED <<rows, bt, run>>

Answers == {{}} \union {{s} : s \in Setups}

RunSteps == \/ Take \/ Start \/ Insufficient \/ Loaded \/ Complete
            \/ Return \/ Catch \/ Throw
            \/ \E answer \in Answers : Replay(answer)

Faulty == \/ ApiDies \/ StartFails \/ LoadFails \/ CompleteFails \/ CatchFails
          \/ WorkerDies \/ LockLost

Next == CreateRow \/ AddJob \/ RunSteps \/ Faulty

\* A request that the API has taken runs on, and a job that waits is taken.
Spec == Init /\ [][Next]_vars /\ WF_vars(AddJob) /\ WF_vars(RunSteps)

-----------------------------------------------------------------------------
Final == {"COMPLETED", "FAILED"}

\* What the engine is given for a bar (backtest-runner.ts 44-57): nothing
\* opens after the bar does, and all of M5 and M15 has closed when it closes.
OnlyHigherBarsForming ==
    seen # {} =>
        LET bar == M15[i - 1]
        IN  \A c \in seen :
              /\ c.t <= bar.t
              /\ ClosesAt(c) <= ClosesAt(bar) \/ Length[c.tf] > Length["M15"]

\* "at each M15 close, the engine only sees candles closed at or before that
\* time" (backtest-runner.ts 9-10, README.md 66).
NoLookahead ==
    seen # {} => \A c \in seen : ClosesAt(c) <= ClosesAt(M15[i - 1])

\* The trades of a setup, to a tenth.
Copies(trades, key) == {a \in DOMAIN trades : Key(trades[a].setup) = key}

\* Every execution of the job may append its trades to the row, those included
\* that lost the lock and run on: a setup is listed once more for each stall and
\* no oftener. Without one there are as many trades as the summary counts, and
\* none before the row is completed.
TradesPerExecution ==
    /\ \A a \in DOMAIN bt.trades :
          Cardinality(Copies(bt.trades, Key(bt.trades[a].setup))) <= job.stalled + 1
    /\ job.stalled = 0 =>
          /\ Len(bt.trades) = bt.total
          /\ bt.trades # <<>> => bt.status = "COMPLETED"

\* What keeps them. A list is one of whatever it holds.
Statuses == {"NONE", "QUEUED", "RUNNING"} \union Final
JobStates == {"none", "never added", "waiting", "active", "completed", "failed"}
Labels == {"off", "start", "loading", "replay", "return", "catch", "throw"}

TypeOK ==
    /\ rows \in Histories
    /\ bt \in [status : Statuses, trades : Seq(ToSet(bt.trades)), total : Nat]
    /\ job \in [state : JobStates, stalled : Nat]
    /\ pc \in Labels
    /\ i \in Nat
    /\ signals \in Seq(ToSet(signals))

Distinct(trades) ==
    \A a, b \in DOMAIN trades :
        Key(trades[a].setup) = Key(trades[b].setup) => a = b

\* There is an execution while the job is active; one that has lost the lock in
\* its loop may be left after a stall.
Executing == /\ job.state = "active" => pc # "off"
             /\ job.state = "completed" => pc = "off"
             /\ pc # "off" /\ (job.stalled = 0 \/ pc \in {"start", "loading"}) =>
                   job.state = "active"
\* Before the loop nothing is shown, and it starts behind the warm-up.
Unshown == {"off", "start", "loading"}
PastWarmup == /\ pc \in Unshown => seen = {}
              /\ pc = "replay" => i > Warmup
\* Without a stall the row is completed by the last statement of the only
\* execution, and has no trades before.
CompletedLast ==
    job.stalled = 0 =>
        /\ bt.status = "COMPLETED" => pc = "return" \/ job.state = "completed"
        /\ bt.status # "COMPLETED" => bt.trades = <<>> /\ bt.total = 0
        /\ Len(bt.trades) = bt.total
\* How often a setup may be listed by now, compared with the stalls: once more
\* after the write of an execution that has its lock, and once less before that
\* of one that has lost it.
Ahead == IF job.state = "completed" \/ (pc = "return" /\ job.state = "active") THEN 1
         ELSE IF pc = "replay" /\ job.state # "active" THEN -1 ELSE 0
WrittenByNow ==
    \A a \in DOMAIN bt.trades :
        Cardinality(Copies(bt.trades, Key(bt.trades[a].setup))) <= job.stalled + Ahead

BacktestInv == /\ TypeOK /\ Executing /\ PastWarmup /\ Distinct(signals)
               /\ CompletedLast /\ WrittenByNow /\ OnlyHigherBarsForming

\* A backtest ends as COMPLETED or FAILED. Only a fault keeps it from that: the
\* death of the API before the job is added, or one that makes BullMQ give the
\* job up; no retry and no clean-up ever looks at such a row again.
Settles ==
    bt.status = "QUEUED" ~>
        \/ bt.status \in Final
        \/ faults > 0 /\ job.state \in {"never added", "failed"}
=============================================================================
