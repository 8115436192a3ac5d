# TLA+ models of the MMXM signal system

The repository is a signal-only trading system for XAUUSD. A MetaTrader expert
advisor (EA) sends ticks and candles to an API, a worker looks for setups in the
candles and publishes signals, and a tracker in the same worker follows each signal
against the latest tick until it is closed. This directory models the parts whose
correctness depends on order, failure, concurrency or boundary arithmetic, checks
them with TLC and proves some of the results with TLAPS.

## Inventory

| Component | Code | State | Operations | Hard because |
|---|---|---|---|---|
| Bridge EA | `mql5/Experts/MMXMBridgeEA.mq5`, `MmxmCandleSync.mqh`, `MmxmHttpClient.mqh` | three queues, two spool files, baseline of the last bar per timeframe, connection id | OnInit, OnTick, OnTimer, OnDeinit | blocking requests, late answers, reloads, crashes of the terminal |
| EA queue | `mql5/Include/MmxmQueue.mqh` | array, index of the first live item, drop counter | Init, Push, Pop, Clear, compaction | boundary arithmetic at the limit |
| Candle and tick ingestion | `apps/api/.../ingestion.service.ts`, `mql5-gateway.controller.ts` | candles, candle_revisions, ticks, dedupe keys, Redis streams | ingestCandle, ingestTicks | handlers overlap between their awaits, are retried and may die |
| Trading core | `packages/trading-core/src` | none | pivots, structure, liquidity, zones, ATR, analyze | boundary comparisons, order of scanning, candles that grow and change |
| LLM analysis | `analyzer.ts` 40-196 and 333-364, `candles.ts`, `deepseek.ts`, the analysis queue of `main.ts` | jobs, last verdict, aiInsight | load, ask, parse, reject, verify | an external service, retries, stalls, values read before an await |
| Signal admission | `analyzer.ts` 196-319 | signals | the gate: dedupe, cooldown, same direction, opposite direction, create | reads in separate queries while the tracker moves signals |
| Signal tracker | `track.ts`, `main.ts` 77-79 | status and managedStop of each signal, its events | one pass a second | passes overlap, decide from stale rows, die half way |
| Telegram bot, notifications | `telegram-bot.ts`, `notify.ts`, `analyzer.ts` 321-331 | subscribers, poll offset | poll, /start, /stop, broadcast | overlapping polls, a broadcast nobody waits for |
| Backtest | `backtest-runner.ts`, `candles.ts`, `backtest.controller.ts` | backtests and their trades, the job | create, run | job retries, failing writes, look-ahead |
| Authentication | `mql5-signature.guard.ts`, `MmxmSignature.mqh` | nonces | sign, verify | cryptography |
| Read-only API, WebSocket, web pages | `signal.controller.ts`, `market-data.controller.ts`, `events.gateway.ts`, `apps/web` | none | queries, forwarding, rendering | - |

Interactions: the EA calls the API over HTTP and waits for each answer (at most
`RequestTimeoutMs`); the API writes PostgreSQL and Redis; a timer of the worker adds an
analysis job, which reads candles and the newest tick, may ask up to three models, and
creates a signal; analysis and tracker share the `signals` table and nothing else; a
created signal starts two tasks nobody waits for, its broadcast to the subscribers and
its verification by the models. The worker publishes events that the gateway would
forward, but it publishes to `mmxm:ws` (`main.ts` 20) while the gateway subscribes to
`mmxm:pub:*`.

What makes each part correct: the EA loses no bar without a reason and delivers the
others; the queue is a bounded FIFO; an acknowledged closed candle is stored, immutable
and streamed once; a pivot never repaints and live candles are no evidence; a signal's
stop, zone and targets fit together; every analysis job ends, after a bounded number of
requests; no two open signals have one direction; a signal climbs its ladder in order,
never comes back from a closed status, and has its stop at break-even after the first
target; a signal reaches every subscriber; a backtest sees no future and settles.

## Modules

| Module | Models | Uses |
|---|---|---|
| `SignalTypes` | the statuses and the ladder of targets | |
| `SignalLifecycle` | abstract: how a signal may move | `SignalTypes` |
| `SignalTracker` | `trackSignalOutcomes`, step by step | `SignalTypes`; implements `SignalLifecycle` |
| `SignalAdmission` | the gate of `runAnalysis`, composed with the lifecycle of the existing signals | `SignalTypes`, `SignalLifecycle` |
| `CandleIngestion` | `ingestCandle` and the terminal that calls it | |
| `BoundedQueue` | abstract: what the EA's queue promises | |
| `EaQueue` | `CMmxmQueue` with its index and compaction | implements `BoundedQueue` |
| `TickPath` | a tick's way through OnTick, the queue, the batch, `ingestTicks`, with the queue composed in | `EaQueue` |
| `BridgeEA` | a closed bar's way through OnTick, OnTimer, OnInit, OnDeinit and the spool file | |
| `TradingCore` | the detectors of the trading core, as operators on candle sequences | |
| `SignalEngine` | `analyze()` over the candle tables, which grow and change as the bridge stores them | `TradingCore` |
| `LlmAnalysis` | `runAnalysis` around engine and gate: job queue, candle loading, models, verification | `TradingCore` |
| `SignalAlerts` | the broadcast of a signal and the bot that decides who gets it | |
| `Backtest` | the backtest's row, job and replay | |
| `MC...` | values of the constants | |
| `...Proofs` | theorems | each EXTENDS its module; `TickPathProofs` has those of `EaQueue` too, `AnalysisProofs` those of `SignalEngine`, `LlmAnalysis` and the operators of `TradingCore` |

State and actions. A database row or a global of the code is a variable of the same
name. A handler is a record of its locals with a `pc`; each awaited call (or each
request of the EA) is one action, since other handlers run between two of them.
Definitions marked `\* mutant` are plausible mistakes in the definition after them;
no specification uses them, and PROJECT.json pairs each with the property it breaks.

- `SignalTracker`: `pass[p]` holds what pass `p` has read: `seen` and `seenStop` are
  the rows of `findMany`, `price` the tick, `due` the signals expired at `now`, `todo`
  the rest of the loop, `at` and `level` the place in the target loop. Begin and
  ReadTick are the two queries; Expire, Activate, Invalidate, Fail and StopOut are the
  branches that `continue`; Climb, EmitTp and FinishTps are the target loop and the
  auto-BE write. An update goes by id: it never looks at the current status.
- `SignalAdmission`: `run` is the one analysis job (concurrency 1). Each of its
  four queries is a pair of actions, one that lets the candidate pass and one that gives
  up; Create writes the row. `history` orders signals by detectedAt, `recent` holds those
  younger than the cooldown. The tracker's steps are those of the lifecycle, that is, of
  passes that do not overlap; a signal that overlapping passes reopen is left out.
- `CandleIngestion`: `handler[h]` is a request in the API. `waiting` is the request
  the terminal waits for: two handlers overlap only after a timeout. Prices are a number.
- `BridgeEA`: `job` is the running handler of the EA. Bars keep closing (`NewBar`)
  while it blocks. A failed request may have been stored all the same.
- `TickPath`: `ea` says whether the terminal is idle, fills a batch or waits for a
  handler; a timeout leaves the handler running (`abandoned` counts these). `Dedupe` is
  one SET NX, `Insert` the createMany, `Announce` the xadd and publish. A tick is its
  number and its millisecond; its eventId is the millisecond.
- `TradingCore`: positions count from 1, prices are integers, an ATR and every share of
  it is an exact fraction; comparisons keep their strictness. Loops that scan in order
  are quantifiers over positions, or recursive functions of the position where a round
  depends on the one before (ATR, the leaders of equal levels, the list of pivots).
- `SignalEngine`: `m5` and `m15` are the rows of the table; `Live5` and `Live15`
  rewrite the last row, `Close5` and `Close15` close it; M15 is stored by requests of
  its own and may be behind. `analysis` is what `analyze` answers for the rows of the moment.
- `LlmAnalysis`: `jobs` are the BullMQ jobs with attempts and stalls, `run` is the job
  function with what it has read, `checks[i]` the verification of signal `i`. A table of
  candles, a tick and a model's answer are chosen when they are read. The engine's
  answer and the gate's are choices, as `SignalEngine` and `SignalAdmission` model them.
  The create and the return are one step: the code awaits nothing between them. A death in
  between lets the job run again, as any second run of the gate in `SignalAdmission`.
- `SignalAlerts`: `confirmed` is what Telegram has dropped, `offset` the bot's; `poll[p]`
  is a poll on its way, `running[i]` counts the handlers at work on update `i`. `owed` and
  `since` are history: who was subscribed all the time, and who at some time.
- `Backtest`: `pc` follows the job function, `seen` is what the engine was given for the
  bar of round `i`, time counts M5 bars. The engine's answer is a choice, because
  it also reads the wall clock: two runs of one backtest may differ. A job stalls when
  the worker dies (`WorkerDies`) or when the loop, which never awaits, has kept a living
  worker from renewing the lock (`LockLost`); then the job waits once more while the
  function runs on to its write, and BullMQ refuses the end it reports (`End`).

## Runs

| Run | States | Shows |
|---|---|---|
| `tracker` | 147,000 | one pass at a time, a LONG and a SHORT, one crash: LadderOrder, EventChain, BreakEvenUnlessCrash, the refinement of SignalLifecycle, and the two liveness properties ExpiryEnforced and StopEnforced |
| `tracker_resurrect` (violation) | | two overlapping passes: a closed signal is opened again |
| `admission` | 2,138,000 | OneOpenPerDirection, LaterIsStronger and ChecksStillHold (what the four queries have found holds together at the create) with the tracker moving signals between any two queries |
| `candle_ingestion` | 135,000 | acknowledged means stored, streamed at most once, corrections audited, closed candles stored in the end |
| `candle_reopened` (violation) | | a late snapshot request reopens a closed candle |
| `bridge_ea` | 105,000 | a noticed bar is lost only by a crash, the queue limit or a too long spool file, and delivered otherwise |
| `tick_path` | 1,080,000 | the tick queue is a bounded FIFO with a small array; the live price goes back only after an abandoned request; without faults only counted drops and repeated milliseconds are missing |
| `engine` | 48,000 | pivots never repaint, live rows change nothing, breaks come after confirmation, equal levels cover, plans hang together, confidence is 90 or 100 |
| `backtest` | 3,500 | only higher timeframes are seen while forming, a setup is listed once and once more at most for each stall, the row settles unless a fault prevents it |
| `backtest_lookahead` (violation) | | the engine is given a higher-timeframe bar that has not closed |
| `alerts` | 343,000 | a signal is sent to everyone subscribed throughout and to nobody who never was; every command is taken |
| `llm` | 242,000 | an accepted setup of a model is near the tick that was read; requests are bounded; jobs and verifications end |

### Bounds

- Tracker: 2 signals and 5 prices put a price on every stop, zone, gap and target of both
  geometries, and jump over one or several targets. `MaxCrashes` is 1. For
  `tracker_resurrect` one signal is enough, as passes share nothing else; two passes are
  the least that overlap.
- Admission: three candidates of one direction and one of the other cover a near
  duplicate, equal and high confidence, a predecessor within and past its cooldown.
  `l1` and `l2` differ in nothing, hence the symmetry; no liveness is checked there. A
  candidate is used once, so the run ends (`CHECK_DEADLOCK FALSE`).
- Candles: candles have separate rows and `ingestCandle` reads one, so one candle is
  enough. Three handlers, two snapshots, two corrections, two faults: a stale write can be
  behind by two others.
- Bridge: bars 2 to 5 close while the EA exists, batches of 2, queue limit 3, 4 faults:
  the queue overflows, the spool file outgrows a batch, and a bar is failed, reloaded
  and failed again.
- Ticks: 4 ticks, queue limit 3, compaction above a dead prefix of 1 (1024 in the code),
  2 drops, batches of 2, two handlers, two faults: the array compacts on Pop and on a
  dropping Push, two requests overlap, and two ticks share a millisecond.
- Engine: six histories of 15 M5 and 5 M15 bars (a range with a swept low, its mirror, a
  rise that leaves levels behind, a low swept twice and its mirror, and the range with a
  contrary H1) and every continuation by up to 3 more M5 bars of 6 shapes, live or closed,
  reach signals of both directions from gaps and order blocks, with and without opposing
  liquidity, of either confidence, and the reasons `no_model`, `failed_checks` and
  `rr_too_low`. `stale_entry_zone` needs longer continuations (a simulation of up to 27 bars
  reaches it; the run does not), the engine's own weights rule out `confidence_low`,
  and there are always enough candles. Pivot windows are 1 bar wide.
- Backtest: 4 M15 bars, the loop from the third on (a warm-up of 2, 60 in the code),
  minimum 2; two histories have fewer bars than the minimum or than the loop's start; one
  has a corrected row of another terminal. Two faults, deaths and lost locks among them, and
  `maxStalledCount` 1: a job can be repeated, also beside an execution that lost its
  lock, and given up.
- Alerts: 2 chats, of which one sends commands (the other can only be subscribed or not,
  as from the start); 2 polls, 2 updates, 1 signal, 1 fault. With two updates an old answer
  can lack the newer one.
- LLM: 2 models, 2 jobs, 2 attempts, 1 stall: one job can be repeated three times, and a
  verification overlaps the next job. Three tables of candles: one with a corrected bar,
  the same an hour later (market closed), one with too few bars; a tick within and one out
  of reach.

The runs with `CHECK_DEADLOCK FALSE` really stop: no more jobs (`llm`), candidates
(`admission`) or quotes (`tick_path`), or a settled backtest.

### Fairness

- Tracker: each pass goes on (`WF` on its steps): the interval timer keeps firing and
  every query is answered. Ticks, expiry and crashes are not fair.
- Candles: handlers go on (`WF`), candles close (`WF`); sending a closed, unacknowledged
  candle has `SF`, as OnTimer sends closed candles before anything else whenever it is free.
- Bridge: the terminal goes on calling handlers (`WF`); OnTick has `SF` since it is
  queued between two timer events while the market is open. Faults are bounded, so the
  network is up in the end.
- Backtest: a request that the API has taken runs on (`WF(AddJob)`), a waiting job is taken
  and its function runs on (`WF(RunSteps)`). No fault is fair and none has to stop.
- Alerts: the timer starts polls and Telegram answers them (`WF` of each poll), getMe is
  answered, the event loop runs the handlers. Users and broadcasts are not fair.
- LLM: the consumer takes waiting and delayed jobs; every request to a model ends, since the
  fetch is aborted after a minute (the body of an answer is awaited without a limit; that
  it arrives is assumed). Each verification goes on by itself.

The liveness properties of the tracker speak of conditions that last: a price that comes
and goes between two passes is not seen (track.ts reads the newest tick only).

## Proofs

All theorems hold for every value of the constants under the named assumptions of the
module: setups with at most three targets; natural bounds and limits; in the engine's first
rows bars that close between their low and their high, an ATR period of at least one bar
and a natural stop buffer; finitely many analysis jobs, each with at least one attempt; in
`Backtest` finitely many rows per history and a length for every timeframe; in `TickPath`
handlers that are named neither `idle` nor `fill`. Three theorems of the tracker assume `OnePass` besides (below).
Each invariant rests on an inductive one that TLC has checked on the run's instance.

Tracker (`SignalTrackerProofs`)
- `TypeCorrect`, `LadderCorrect`: `LadderOrder` is not inductive, as a pass writes from
  what it read earlier. `LadderInv` adds `SnapshotsReached`: a status in a row or in any
  snapshot, and the rung a climbing pass stands on, are in the signal's events already,
  and a managed stop that was seen is still set. Events only grow, so each write finds its
  predecessor. This holds for any number of overlapping passes and crashes.
- `BreakEvenCorrect`, also for overlapping passes: `BreakEvenInv` says that a signal with
  a TP1 event has its stop moved or a pass that saw it ACTIVE is still in its target
  loop and will move it. Only a crash can end such a pass, and the property exempts crashes.
- `EventChainCorrect`, `LifecycleCorrect`, `MonotonicAlone` assume `OnePass`: passes do not
  overlap. It is a statement about the constant `Passes`, true in the run `tracker` and false
  in `tracker_resurrect`, where the last two fail: nothing in `main.ts` 77-79 keeps
  passes apart but that they take less than their interval. `FreshInv` is the reason:
  for every signal a pass has still to do, `seen` and `seenStop` are what the row says, and
  for the one it is climbing with the row is at the rung below. Hence each write is a step
  of `SignalLifecycle` from the row's own status.

Admission (`SignalAdmissionProofs`)
- `AdmissionTypeCorrect`, `OneOpenCorrect`, `StrongerCorrect`: `AdmissionInv` adds
  `HistoryOnce` (a created signal is in the history exactly once) and `GatePassed`: once
  the job is past the same-direction query, no open signal has its candidate's
  direction. It stays true while the job waits, because the lifecycle opens nothing
  (`TrackFacts`). The opposite-direction query asks for the latest signal only; that is
  enough as `OneOpenPerDirection` leaves no other (`TheOpposite`).
- `ChecksCorrect`: `GatePassed` has two of the three answers; `CooldownPassed` keeps that of
  the cooldown query true up to the create. Nothing is created meanwhile, `recent` only
  shrinks, and the four statuses that end a cooldown are final.

Candles (`CandleIngestionProofs`)
- `CandleTypeCorrect`, `ToldIsStoredCorrect`, `StreamedOnceCorrect`: `CandleInv` adds
  `RowsKept` (a row that a handler has found is still there, and if it was closed then the
  candle has been closed) and `OneAnnouncer` (the handler that created a row is the only one
  that will announce it, and nothing was announced before). Both survive overlap since rows
  are never deleted and the unique key refuses a second create.
- `ImmutableCorrect`: `Alone` says that before the first fault only the handler the terminal
  waits for runs, and that the row it has found is the row of the table.

Bridge (`BridgeEAProofs`)
- `BridgeTypeCorrect`, `LossesCorrect`: `FlushInv` adds that while FlushSpool sends, the lines
  it holds are those of the file and each line it has passed is stored or is among the
  `remaining` ones; while it rewrites, the file is empty and `remaining` is all there is. It
  also needs that an EA that is down has an empty queue, and that OnTick runs only with
  a baseline. The proof takes every action of every handler: most move a bar from one place to
  another, and the exceptions are the three reasons of `LossesExplained`.

Queue and tick path (`TickPathProofs`)
- `StorageCorrect`, `FifoCorrect` (the queue alone): the live part of the array is the
  abstract queue; compaction leaves it unchanged, and every other step maps to the step of the
  same name. The proof rests on lemmas about `SubSeq`.
- `TickPathHasQueue`, `TickStorageCorrect`, `TickFifoCorrect`: `MarketInv` (what OnTick
  pushes is an item of the queue's type) makes every step of the path, reloads and deaths of
  the terminal included, a step of `EaQueue` or one that leaves the queue alone; so
  `TickSpec` implies the queue's `Spec`, and its theorems carry over.
- `TickTypeCorrect`: `DedupeInv` holds whatever fails. What moves was captured, and a tick whose
  eventId a request has taken with SET NX (`Taken`) is in no other request.
- `OrderCorrect`: `OrderInv` adds, until a request is abandoned, `Serial` (the one request
  under way is the one the terminal waits for; what it has left is part of the
  batch, and what it has not is a duplicate) and `InLine`: queue, batch and announcements
  are each in the order of the market, the batch is before the queue, what was
  announced is before all that is still to be.
- `MissingCorrect`: `LossInv` adds the property itself. Without a fault only a push
  into a full queue adds a missing tick, and it raises the counter by one; a tick
  that SET NX refuses has a predecessor with its millisecond, by `InLine`.

Engine (`AnalysisProofs`), for any bar shapes, sessions and configuration
- `EngineTypeCorrect`: the tables stay in order with live rows only at their ends. `EngineInv`
  adds that each timeframe has a closed candle, from which the next bar starts.
- `NoRepaintCorrect`: a step leaves the closed candles alone or appends one
  (`StepGrows`); all pivots of the shorter sequence keep their windows (`HighPivotStays`,
  `LowPivotStays`), and a new one must have the appended candle as the last of its window.
- `LiveCorrect`: `Analysed` says that the analysis is the one for the rows of the moment.
  What `analyze` keeps of the rows is the closed ones (`ClosedIsSettled`: of a table whose
  last row alone may be live, they are the table without it), and a live write leaves those alone.
- `NeverThrottledCorrect`: the five checks that block weigh 90 together, the zone's side
  and the MSS bonus 10 each, capped at 100, so 90 and 100 are the only confidences left.
- `BreaksComeAfterConfirmation`: a close beyond a high (low) pivot within its window would
  contradict the pivot, because no close exceeds its candle's high (low); hence the break
  comes after the last bar of the window.
- `BreakCorrect` carries it to what `detectStructure` returns: `FindPivots` lists exactly the
  pivots (`FindPivotsMembers`), and every event has a pivot and a candle that breaks it
  (`StructureEventsMembers`).
- `EqualLevelsCorrect`: a pivot leads exactly if no earlier leader is near it (`LeadersAre`).
  A group is a leader with what it is near and no earlier leader is, so groups of
  different leaders are apart (`GroupsApart`). Of two pivots near each other the earlier one
  leads, and then the later one is taken by it or by a leader before it; or it does
  not lead, and then an earlier leader has it (`NearOnesGrouped`).
- `PlanCorrect`: the ATR is a fraction >= 0 (`AtrType`), so the stop is not inside the zone
  (`RoomType`); the zone is a gap the last bar has not entered (`GapsOpen`) or the range
  of an order block's bar (`BlocksAreBars`), in both cases with low <= high and the entry between;
  targets are the nearest opposing levels in order, or one end of the range (`NearestIs`,
  `TargetsHold`), with parts that sum to at most 100 (`PartsSum`). `FoundHangsTogether` puts the
  branches of `analyze` together, and `Analysed` says it is the analysis of the present rows.

Recursive functions are reasoned about without an induction theorem that takes a property
as its parameter: `LeastNat` derives the least element of a set of numbers from the
well-foundedness of strict subsets, `NatSet` is induction over a set, and `StepByStep` shows
that a function defined step by step exists and satisfies its equations. Lemmas about
ATR, pivots, leaders and sums apply them to the set of the numbers that have the property.

Models and jobs (`AnalysisProofs`), for any candles, ticks and answers and any worker deaths
- `NearCorrect`: `RunOk` says what a run has read at each `pc`: while models are asked its
  price is that of the tick it has read, if that has one, and from an accepted answer to the
  gate the setup is within reach of it. `CreatedOk` keeps this for the signals.
- `CallsCorrect`: the inductive invariant is `Paid`. The requests made, those the run
  may still make (`Left`) and those of the open verifications (`Open`, pairs of a
  verification and a model) are at most one per model for each signal and each execution
  begun (`Executions`, pairs of a job and its turn). Taking a job adds an execution, creating
  a signal opens a verification, and every request takes at least one away from
  `Left` or `Open`. Sets of pairs replace a sum over the jobs, for which there would be no induction.
- `RunsAreBounded`: `JobsOk` says that a job that is not failed has attempts left and has not
  stalled too often, hence no job begins more than MaxAttempts + MaxStalls executions; `OneRun`
  says that the function runs for the one active job and no other. It is the safety
  part of `AnalysisEnds`.

Backtest (`BacktestProofs`)
- `HigherBarsCorrect`: the loaded rows have one candle for each opening time (the latest
  revision) and `InOrder` lists them by it, so the bar of round `i` is after those
  of the rounds before; the slices are cut at its openTime.
- `TradesCorrect`: `BacktestInv` adds `WrittenByNow`. How often a setup may be listed is
  compared with the stalls and with where the job is (`Ahead`): once more when an execution
  that has its lock has written, once less while one that has lost it has still to write, because
  the stall that cost it the lock has been counted already. A write adds at most one copy of a
  setup (`CopiesAppended`), since the signals of one execution are distinct: each is
  added for a setup not listed yet. `Executing` says which executions have their lock,
  and `CompletedLast` that without a stall the write is the last statement of the only one.

Bot and broadcast (`SignalAlertsProofs`)
- `BroadcastCorrect`: `BroadcastInv` says that during a broadcast those who are owed it are
  subscribed, and all who were or will be sent it have been since the creation.
- `CommandsKept`: an update that Telegram has dropped has a handler at work on it, done with it
  or cut short by a crash of the worker. `OffsetsInv` says the same of the bot's
  offset, of the offset of every poll on its way, and of each update below the least one of an
  answer: an old answer moves the offset back, which repeats commands but skips none.
  This is the safety part of `EveryCommandTaken`.

Only model-checked, and why
- Liveness (`ExpiryEnforced`, `StopEnforced`, `ClosedIsStored`, `Delivered`, `Settles`,
  `EveryCommandTaken`, `AnalysisEnds`): fairness and ENABLED are out of the prover's reach.
- Every invariant and every action property of the runs that is not of this kind is stated
  by a theorem. Three of the tracker's assume `OnePass` (above).

## Where the code and its documents differ

Three differences have a run: `tracker_resurrect`, `candle_reopened` and
`backtest_lookahead` (see "findings" in PROJECT.json). The others were met while modelling;
the models do what the code does, and no property asserts it where the documents say
otherwise.

Tracker and gate
- The status of TP1 and the managed stop are two writes (`track.ts` 118, 121); a crash in
  between leaves the signal without break-even stop. `BreakEvenUnlessCrash` makes this exception.
- FAILED is missing from the closed statuses of the cooldown (`analyzer.ts` 224), while the
  comment at 225 says "closed signal → next one allowed immediately" and the tracker
  publishes a failed signal as closed (`track.ts` 91-92). `ChecksStillHold` holds with
  FAILED in the list and without.

Engine
- Targets without opposing liquidity are the end of the dealing range, which may lie behind
  the entry (`engine.ts` 223-225, comment 209-210): with a LONG entry of 1017 the model
  reaches a target of 1012.
- `find` takes the oldest matching zone where the comment speaks of the freshest (185-188).
- A sweep may be older than the level's pivot; `mitigated` of an order block is never set;
  previous-day and session levels use the wall clock also in a backtest.
- With one or two targets the allocations sum to 25 or 50 percent.

LLM analysis
- The price is read before the models are asked (94) and compared after up to three minutes;
  the comment at 122-124 speaks of the real-time price.
- A setup whose entry and stop are missing (or equal) has risk 0 and skips that comparison;
  `NearTheTickRead` exempts it. In the run's instance such a setup lacks its targets too, and
  building the signal throws.
- An unparsable answer ends the search: only failed requests go on to the next model.
- The verdict on the dashboard is stored before the gate decides, and for models only.
- A SHORT zone of a model extends to `sl + risk/2`, beyond the stop (148-149).

Ticks and candles
- A candle that was stored as a snapshot first is never streamed when it closes
  (`ingestion.service.ts` 123, `architecture.md` 66).
- Two ticks of one millisecond share an eventId (`MMXMBridgeEA.mq5` 295).
- Dedupe keys are set before the insert (37): if that fails, a repeated request would find
  them all.
- The tick spool file is written and never read (445); OnDeinit pops its 1001st tick and
  loses it (525) and keeps the oldest where the comment says they are dropped.
- FlushSpool forgets the lines it has not attempted (472, 479, 482).

Backtest and bot
- A backtest of 50 to 60 M15 bars is COMPLETED with nothing replayed (37, 43).
- `future` (70) is always empty: it takes the candles after the signal from a slice that ends
  at the signal. No outcome is ever resolved, against `README.md` 66 and the comment at 66.
- A job repeated after the worker's death or a lost lock lists its trades twice; a failed update in the catch
  block leaves the row RUNNING.
- Updates are handled twice by overlapping polls, and /start and /stop may change places;
  a failed getMe switches the bot off until the worker restarts.
- The broadcast goes to all subscribers where the comment (`analyzer.ts` 323) speaks of a
  filter; a worker that dies after the create loses the alert.

## Not modelled

Message texts, formatting, rendering, prompts, signatures and clocks of the guard,
heartbeats and handshake records, the WebSocket forwarder, read-only queries, the export
script. `news.js`, which `deepseek.ts` imports, is not in the repository: its call may
fail like any other. `sim.ts` is arithmetic over closed signals without state (its line 46
credits TP2 to a stopped signal with two or more targets, against the comment at line 5).
No hostile client is modelled: the terminal sends what the EA's code sends, and corrections
as the contract describes them. `Owed` in `BridgeEA` leaves out bars that close during
OnInit after their timeframe was copied: the code does not claim to send them.
Prices are whole numbers everywhere; rounding of decimals and floating point is abstracted.

## Plan

1. (done) tracker and lifecycle; EA queue; candle ingestion; admission; bridge.
2. (done) tick path; trading core and engine; LLM analysis; alerts and bot; backtest.
3. (done) theorems about every component: see Proofs.
4. Left: that the gate composed with the tracker's own steps, not only with its lifecycle,
   keeps `OneOpenPerDirection`; a bound on the stalls of the backtest's job, as
   `RunsAreBounded` has for the analysis; what a sweep or a zone promises by itself, beyond
   its part in a plan.
