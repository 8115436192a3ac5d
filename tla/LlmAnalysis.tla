---------------------------- MODULE LlmAnalysis ----------------------------
(***************************************************************************)
(* The analysis job around the engine and the gate (runAnalysis of         *)
(* apps/worker/src/analyzer.ts 38-196 and 333-364, candles.ts, deepseek.ts,*)
(* the queue of main.ts): when the engine finds nothing, the models are    *)
(* asked one after the other for a setup, and a signal that was created is *)
(* put before them once more by a task nobody waits for.                   *)
(*                                                                         *)
(* What the engine finds is SignalEngine and what the gate lets through is *)
(* SignalAdmission; both are a choice here. getNewsForLLM (news.js) is not *)
(* in the repository: like any other await it may throw.                   *)
(***************************************************************************)
EXTENDS TradingCore

CONSTANTS
    Markets,         \* what a job may find in table Candle, and when:
                     \* [rows, now], of rows [tf, t, revision, h, l, c]
    Lookback, Limit, \* of each timeframe: the age and number of rows loaded
    MinCandles,      \* 30 of M15 and 50 of M5
    StaleAfter,      \* 60 minutes
    Recent,          \* 15: the candles of the mean true range
    Ticks,           \* what it may find in table Tick: [last, bid]
    Setups,          \* what the engine may find: [direction, entry, stop]
    Answers,         \* what a model may say, [kind, setup]: a setup, complete
                     \* or not, "NONE", or something that is no JSON
    Models,          \* how many models are asked; 0 without DEEPSEEK_ENABLED
    Jobs,            \* bound: the jobs that are scheduled
    MaxAttempts,     \* 2
    MaxStalls        \* maxStalledCount, BullMQ's default of 1

ASSUME JobAssumption == /\ IsFiniteSet(Jobs)
                        /\ Models \in Nat /\ MaxStalls \in Nat
                        /\ MaxAttempts \in Nat \ {0}

VARIABLES
    jobs,            \* the BullMQ jobs of mmxm-analysis
    run,             \* runAnalysis for the active job
    verdict,         \* mmxm:llm:last-verdict in Redis
    signals,         \* the created rows, with aiInsight and aiVerified
    checks,          \* the verification of each of them
    calls            \* history: requests to the gateway of the models

llmVars == <<jobs, run, verdict, signals, checks, calls>>

NoTick  == [last |-> 0, bid |-> 0]
IdleRun == [pc |-> "idle"]
NewJob  == [state |-> "new", attempts |-> 0, stalled |-> 0]

LlmInit == /\ jobs = [j \in Jobs |-> NewJob]
           /\ run = IdleRun
           /\ verdict = [direction |-> "none"]
           /\ signals = <<>> /\ checks = <<>>
           /\ calls = 0

-----------------------------------------------------------------------------
(* What the job reads *)

\* The newest rows of table m, of all terminals and revisions.
Taken(m, tf) ==
    LET rows == SetToSortSeq({r \in m.rows :
                    r.tf = tf /\ r.t >= m.now - Lookback[tf]},
                    LAMBDA x, y : x.t > y.t)
    IN  ToSet(SubSeq(rows, 1, Min({Limit[tf], Len(rows)})))

\* Of the rows that were taken the latest revision per openTime, in order.
LoadCandles(m, tf) ==
    LET taken == Taken(m, tf)
        Latest(t) == CHOOSE r \in taken :
            r.t = t /\ \A s \in taken : s.t = t => s.revision <= r.revision
    IN  SetToSortSeq({Latest(r.t) : r \in taken}, LAMBDA x, y : x.t < y.t)

Loaded == [m \in Markets |-> [tf \in DOMAIN MinCandles |-> LoadCandles(m, tf)]]

MarketClosed(m) ==
    LET m15 == Loaded[m].M15
    IN  m15 = <<>> \/ m.now - Last(m15).t > StaleAfter
Sufficient(m) == \A tf \in DOMAIN MinCandles : Len(Loaded[m][tf]) >= MinCandles[tf]

\* The mean true range of the last candles, 5 where there is none.
MeanRange(candles) ==
    LET c   == SubSeq(candles, Max({1, Len(candles) - Recent + 1}), Len(candles))
        sum == MapThenSumSet(LAMBDA i : TrueRange(c[i], c[i - 1]), 2 .. Len(c))
    IN  IF sum = 0 THEN [num |-> 5, den |-> 1]
        ELSE [num |-> sum, den |-> Len(c) - 1]

Quote(row) == IF row.last > 0 THEN row.last ELSE row.bid
LastClose(row, m15) == Last(m15).c                                \* mutant
LivePrice(row, m15) == IF row = NoTick THEN Last(m15).c ELSE Quote(row)

\* "entry > 1.5xATR15" of the price that was read; not asked of a setup whose
\* entry is its stop, nor without a price.
OutOfReach(setup, price, range) ==
    /\ price > 0 /\ setup.entry # setup.stop
    /\ Exceeds(Abs(setup.entry - price), Share(150, range))

-----------------------------------------------------------------------------
(* The queue *)

Move(j, state) == jobs' = [jobs EXCEPT ![j].state = state]
Active(j) == jobs[j].state = "active"

Schedule(j) == /\ jobs[j].state = "new"
               /\ Move(j, "waiting")
               /\ UNCHANGED <<run, verdict, signals, checks, calls>>

\* concurrency 1. The candles it will load are what the table holds by then.
Take(j) == /\ jobs[j].state = "waiting" /\ \A k \in Jobs : ~Active(k)
           /\ Move(j, "active")
           /\ \E m \in Markets : run' = [pc |-> "load", market |-> m]
           /\ UNCHANGED <<verdict, signals, checks, calls>>

\* The back-off is over.
Retry(j) == /\ jobs[j].state = "delayed"
            /\ Move(j, "waiting")
            /\ UNCHANGED <<run, verdict, signals, checks, calls>>

Continue(new) == run' = new /\ UNCHANGED jobs

StillRunning == run' = IdleRun /\ UNCHANGED jobs                 \* mutant
\* return null, or the signal
Return == /\ \E j \in Jobs : Active(j) /\ Move(j, "completed")
          /\ run' = IdleRun

Throw == /\ \E j \in Jobs :
              /\ Active(j)
              /\ jobs' = [jobs EXCEPT
                    ![j].attempts = @ + 1,
                    ![j].state = IF jobs[j].attempts + 1 < MaxAttempts
                                 THEN "delayed" ELSE "failed"]
         /\ run' = IdleRun

-----------------------------------------------------------------------------
(* runAnalysis *)

At(pc) == run.pc = pc
Unasked == UNCHANGED <<signals, checks, calls>>

SayNone == verdict' = [direction |-> "NONE"]

\* The last M15 candle is more than an hour old.
SkipClosed == At("load") /\ MarketClosed(run.market) /\ SayNone /\ Return /\ Unasked

SkipFew == /\ At("load") /\ ~MarketClosed(run.market) /\ ~Sufficient(run.market)
           /\ Return /\ Unasked /\ UNCHANGED verdict

EngineFinds(s) == /\ At("load") /\ ~MarketClosed(run.market) /\ Sufficient(run.market)
                  /\ Continue([pc |-> "gate", setup |-> s, llm |-> FALSE])
                  /\ Unasked /\ UNCHANGED verdict

EngineFindsNothing == /\ At("load") /\ ~MarketClosed(run.market) /\ Sufficient(run.market)
                      /\ Continue([pc |-> "tick", m15 |-> Loaded[run.market].M15])
                      /\ Unasked /\ UNCHANGED verdict

\* The price is read before any model is asked; row is the newest tick.
ReadTick(row) ==
    /\ At("tick")
    /\ IF Models = 0 THEN Return
       ELSE Continue([pc |-> "ask", model |-> 1, read |-> row,
                      price |-> LivePrice(row, run.m15),
                      range |-> MeanRange(run.m15)])
    /\ Unasked /\ UNCHANGED verdict

Asks == At("ask") /\ calls' = calls + 1 /\ UNCHANGED <<signals, checks>>

OneMore(model) == IF model < Models THEN model + 1 ELSE 1          \* mutant
NextModel(model) == model + 1

\* Another status than 200, a timeout, an empty answer: the next model, if any.
ModelFails ==
    /\ Asks /\ UNCHANGED verdict
    /\ IF NextModel(run.model) <= Models
       THEN Continue([run EXCEPT !.model = NextModel(@)])
       ELSE Return

\* An answer that is no JSON ends the analysis without another model.
ModelBabbles == Asks /\ Return /\ UNCHANGED verdict

ModelSaysNone == Asks /\ SayNone /\ Return

\* Redis refuses the NONE.
VerdictFails == Asks /\ Throw /\ UNCHANGED verdict

Rejected(s) == /\ Asks /\ OutOfReach(s, run.price, run.range)
               /\ Return /\ UNCHANGED verdict

\* No takeProfits or no reasons: building the signal throws.
Incomplete(s) == /\ Asks /\ ~OutOfReach(s, run.price, run.range)
                 /\ Throw /\ UNCHANGED verdict

ModelFinds(s) == /\ Asks /\ ~OutOfReach(s, run.price, run.range)
                 /\ Continue([pc |-> "verdict", setup |-> s, llm |-> TRUE,
                              read |-> run.read, range |-> run.range])
                 /\ UNCHANGED verdict

ModelAnswers(a) ==
    \/ a.kind = "no JSON" /\ ModelBabbles
    \/ a.kind = "NONE" /\ (ModelSaysNone \/ VerdictFails)
    \/ a.kind \in {"setup", "incomplete"} /\ Rejected(a.setup)
    \/ a.kind = "incomplete" /\ Incomplete(a.setup)
    \/ a.kind = "setup" /\ ModelFinds(a.setup)

\* The dashboard shows it before the gate has seen it.
SetVerdict == /\ At("verdict")
              /\ verdict' = run.setup
              /\ Continue([run EXCEPT !.pc = "gate"])
              /\ Unasked

GateDrops == At("gate") /\ Return /\ Unasked /\ UNCHANGED verdict

\* What the model has found counts as verified from the start.
Row == [setup    |-> run.setup, llm |-> run.llm,
        read     |-> IF run.llm THEN run.read ELSE NoTick,
        range    |-> IF run.llm THEN run.range ELSE [num |-> 0, den |-> 1],
        insight  |-> IF run.llm THEN "AGREE" ELSE "none",
        verified |-> run.llm]

Check(pc, model) == [pc |-> pc, model |-> model]

\* Nothing is awaited between the create and the return, which are one step: a
\* death in between, after which the job runs again, is left to SignalAdmission,
\* whose gate is asked any number of times.
Create == /\ At("gate")
          /\ signals' = Append(signals, Row)
          /\ checks' = Append(checks, Check(IF Models = 0 THEN "done" ELSE "ask", 1))
          /\ Return
          /\ UNCHANGED <<verdict, calls>>

\* A read or write of Postgres or Redis fails, or, before any model is asked,
\* the news do; a request to a model never throws.
Fails == /\ run # IdleRun
         /\ At("ask") => run.model = 1
         /\ Throw /\ Unasked /\ UNCHANGED verdict

-----------------------------------------------------------------------------
(* The verification of signal i *)

CheckTo(i, new) == /\ checks' = [checks EXCEPT ![i] = new]
                   /\ UNCHANGED <<jobs, run, verdict>>

CheckAsks(i) == /\ checks[i].pc = "ask"
                /\ calls' = calls + 1 /\ UNCHANGED signals

CheckFails(i) ==
    /\ CheckAsks(i)
    /\ CheckTo(i, IF NextModel(checks[i].model) <= Models
                  THEN Check("ask", NextModel(checks[i].model))
                  ELSE Check("done", 1))

CheckBabbles(i) == CheckAsks(i) /\ CheckTo(i, Check("done", 1))

CheckAnswers(i, v) == CheckAsks(i) /\ CheckTo(i, Check(v, 1))

\* aiInsight and aiVerified are written, or the update fails and is forgotten.
WriteInsight(i) ==
    /\ checks[i].pc \in {"AGREE", "DISAGREE", "NEUTRAL"}
    /\ \/ signals' = [signals EXCEPT ![i].insight = checks[i].pc,
                                     ![i].verified = checks[i].pc = "AGREE"]
       \/ UNCHANGED signals
    /\ CheckTo(i, Check("done", 1))
    /\ UNCHANGED calls

Verify(i) == \/ CheckFails(i) \/ CheckBabbles(i) \/ WriteInsight(i)
             \/ \E v \in {"AGREE", "DISAGREE", "NEUTRAL"} : CheckAnswers(i, v)

-----------------------------------------------------------------------------
(* The rest of the world *)

\* The worker dies: the job that was active waits once more, unless it has
\* stalled before; verifications are gone.
WorkerDies ==
    /\ \E j \in Jobs :
          /\ Active(j)
          /\ jobs' = [jobs EXCEPT
                ![j].stalled = @ + 1,
                ![j].state = IF jobs[j].stalled < MaxStalls
                             THEN "waiting" ELSE "failed"]
    /\ run' = IdleRun
    /\ checks' = [i \in DOMAIN checks |-> Check("done", 1)]
    /\ UNCHANGED <<verdict, signals, calls>>

RunStep == \/ SkipClosed \/ SkipFew
           \/ (\E s \in Setups : EngineFinds(s)) \/ EngineFindsNothing
           \/ \E row \in Ticks \union {NoTick} : ReadTick(row)
           \/ ModelFails \/ (\E a \in Answers : ModelAnswers(a))
           \/ SetVerdict
           \/ GateDrops \/ Create
           \/ Fails

LlmNext == \/ \E j \in Jobs : Schedule(j) \/ Take(j) \/ Retry(j)
           \/ RunStep
           \/ \E i \in DOMAIN checks : Verify(i)
           \/ WorkerDies

\* The consumer takes jobs, every request to a model is aborted or ends, and
\* the event loop goes on. Nothing is assumed about the market or the timer.
Fairness == /\ \A j \in Jobs : WF_llmVars(Take(j)) /\ WF_llmVars(Retry(j))
            /\ WF_llmVars(RunStep)
            /\ \A i \in 1 .. Cardinality(Jobs) :
                  WF_llmVars(i \in DOMAIN checks /\ Verify(i))

LlmSpec == LlmInit /\ [][LlmNext]_llmVars /\ Fairness

-----------------------------------------------------------------------------
(* Properties *)

\* A signal of a model was within reach of the newest tick there was before the
\* first model was asked, whatever the last candle said. A tick without a price
\* and a setup whose entry is its stop are not compared at all (analyzer.ts
\* 89-96 and 122-139).
NearTheTickRead ==
    \A i \in DOMAIN signals :
        LET s == signals[i] IN
        s.llm /\ Quote(s.read) > 0 /\ s.setup.entry # s.setup.stop =>
            ~Exceeds(Abs(s.setup.entry - Quote(s.read)), Share(150, s.range))

\* A job costs at most every model once per execution, of which there are
\* MaxAttempts and one more for each death of the worker; and every model once
\* for each signal (main.ts 65-69, deepseek.ts 64-107 and 172-216).
CallsBounded ==
    LET added == {j \in Jobs : jobs[j].state # "new"}
    IN  calls <= Models * (Len(signals)
                           + Cardinality(added) * (MaxAttempts + MaxStalls))

\* "Never blocks the analysis loop" (deepseek.ts 8, 27): whatever the models
\* and the databases do, every job that was added ends, and so does every
\* verification.
AnalysisEnds ==
    /\ \A j \in Jobs : jobs[j].state = "waiting"
                          ~> jobs[j].state \in {"completed", "failed"}
    /\ \A i \in 1 .. Cardinality(Jobs) :
          i \in DOMAIN checks ~> i \in DOMAIN checks /\ checks[i].pc = "done"
=============================================================================
