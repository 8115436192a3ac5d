-------------------------- MODULE SignalAdmission --------------------------
(***************************************************************************)
(* The gate of runAnalysis (apps/worker/src/analyzer.ts 196-319): a        *)
(* candidate signal of the engine or of the LLM passes four database       *)
(* reads, each awaited on its own, before it is created. The tracker moves *)
(* the existing signals between any two of them; here it is the lifecycle  *)
(* that SignalTracker implements while its passes do not overlap.          *)
(*                                                                         *)
(* The analysis queue has one consumer with concurrency 1 (main.ts 36-44), *)
(* so there is one run at a time; a run that dies with the worker is       *)
(* retried as a new run, whose candidate may be another one.               *)
(***************************************************************************)
EXTENDS SignalTypes, FiniteSets

CONSTANTS
    Signals,      \* the candidates the analysis may come up with
    Long,         \* those of them whose direction is LONG
    Confidence,   \* confidenceScore of each
    Near(_, _)    \* preferredEntry and stopLoss both within 0.5

ASSUME LongAssumption == Long \subseteq Signals
ASSUME ConfidenceAssumption == Confidence \in [Signals -> 0 .. 100]

VARIABLES
    status, managedStop,   \* the Signal rows
    history,               \* the created signals by detectedAt
    recent,                \* those detected less than cooldownMs ago
    run                    \* the analysis job: its step and its candidate

rows == <<status, managedStop>>
vars == <<status, managedStop, history, recent, run>>

Tracker == INSTANCE SignalLifecycle

IdleRun == [pc |-> "idle"]

Init == /\ Tracker!Init
        /\ history = <<>>
        /\ recent = {}
        /\ run = IdleRun

-----------------------------------------------------------------------------

OPEN == PRE_ENTRY \union {"ACTIVE"}
SameDirection(r, s) == (r \in Long) = (s \in Long)
OpenSignals == {r \in Signals : status[r] \in OPEN}

OpenSameDirPreEntry(s) ==                                         \* mutant
    {r \in Signals : status[r] \in PRE_ENTRY /\ SameDirection(r, s)}
OpenSameDir(s)  == {r \in OpenSignals : SameDirection(r, s)}
OpenOpposite(s) == {r \in OpenSignals : ~SameDirection(r, s)}

\* findFirst, orderBy detectedAt desc
Latest(S) == CHOOSE r \in S : \E i \in DOMAIN history :
                /\ history[i] = r
                /\ \A j \in i + 1 .. Len(history) : history[j] \notin S
Created == {history[i] : i \in DOMAIN history}
CreatedSameDir(s) == {r \in Created : SameDirection(r, s)}

GoTo(pc) == run' = [run EXCEPT !.pc = pc] /\ UNCHANGED <<rows, history, recent>>
GiveUp   == run' = IdleRun /\ UNCHANGED <<rows, history, recent>>
At(pc)   == run.pc = pc

\* The analysis ends with a candidate; runs that end without one (stale or
\* missing candles, no setup, rejected by distance) change no signal.
Start(s) == /\ run = IdleRun
            /\ status[s] = "NONE"
            /\ run' = [pc |-> "dedupe", sig |-> s]
            /\ UNCHANGED <<rows, history, recent>>

Duplicate == /\ At("dedupe")
             /\ \E r \in OpenSameDir(run.sig) : Near(r, run.sig)
             /\ GiveUp

NotDuplicate == /\ At("dedupe")
                /\ \A r \in OpenSameDir(run.sig) : ~Near(r, run.sig)
                /\ GoTo("cooldown")

HighConfidence(s) == Confidence[s] >= 90

\* isClosed; FAILED is not in the list
NoCooldownAfter(r) ==
    status[r] \in {"STOPPED", "COMPLETED", "INVALIDATED", "EXPIRED"}

Throttled(s) == /\ CreatedSameDir(s) # {}
                /\ ~NoCooldownAfter(Latest(CreatedSameDir(s)))
                /\ Latest(CreatedSameDir(s)) \in recent
                /\ ~HighConfidence(s)

Throttle    == At("cooldown") /\ Throttled(run.sig) /\ GiveUp
Unthrottled  == At("cooldown") /\ GoTo("sameDir")                 \* mutant
NotThrottled == At("cooldown") /\ ~Throttled(run.sig) /\ GoTo("sameDir")

SameDirOpen == At("sameDir") /\ OpenSameDir(run.sig) # {} /\ GiveUp
NoSameDirOpen == At("sameDir") /\ OpenSameDir(run.sig) = {} /\ GoTo("opposite")

WeakerThan(s, r) == Confidence[s] < Confidence[r]                 \* mutant
NotConvincing(s, r) == Confidence[s] <= Confidence[r]

OppositeStronger ==
    /\ At("opposite")
    /\ OpenOpposite(run.sig) # {}
    /\ NotConvincing(run.sig, Latest(OpenOpposite(run.sig)))
    /\ GiveUp

\* The open opposite signal, if there is one, is left open.
OppositeWeaker ==
    /\ At("opposite")
    /\ OpenOpposite(run.sig) # {} =>
          ~NotConvincing(run.sig, Latest(OpenOpposite(run.sig)))
    /\ GoTo("create")

Create == /\ At("create")
          /\ Tracker!Publish(run.sig)
          /\ history' = Append(history, run.sig)
          /\ recent' = recent \union {run.sig}
          /\ run' = IdleRun

AbortKeepsCandidate == /\ run # IdleRun                           \* mutant
                       /\ run' = [run EXCEPT !.pc = "idle"]
                       /\ UNCHANGED <<rows, history, recent>>

\* The worker dies or a read fails, and the job starts anew; or there is no
\* active strategy version.
Abort == run # IdleRun /\ GiveUp

Analyze == \/ \E s \in Signals : Start(s)
           \/ Duplicate \/ NotDuplicate
           \/ Throttle \/ NotThrottled
           \/ SameDirOpen \/ NoSameDirOpen
           \/ OppositeStronger \/ OppositeWeaker
           \/ Create
           \/ Abort

\* cooldownMs have passed since detectedAt.
CoolDown(s) == /\ s \in recent
               /\ recent' = recent \ {s}
               /\ UNCHANGED <<rows, history, run>>

Track(s) == /\ \/ Tracker!Enter(s) \/ Tracker!Drop(s) \/ Tracker!Lose(s)
               \/ Tracker!TakeProfit(s) \/ Tracker!StopOut(s)
               \/ Tracker!Protect(s)
            /\ UNCHANGED <<history, recent, run>>

Next == \/ Analyze
        \/ \E s \in Signals : CoolDown(s) \/ Track(s)

Spec == Init /\ [][Next]_vars

-----------------------------------------------------------------------------
(* Properties *)

TypeOK ==
    /\ status \in [Signals -> Statuses]
    /\ managedStop \in [Signals -> BOOLEAN]
    /\ history \in Seq(Signals)
    /\ recent \subseteq Signals
    /\ run \in {IdleRun} \union
          [pc : {"dedupe", "cooldown", "sameDir", "opposite", "create"},
           sig : Signals]

\* Although the check and the create are separate database calls and the
\* tracker runs in between, two open signals never have the same direction
\* (analyzer.ts 238-252).
OneOpenPerDirection ==
    \A r, s \in OpenSignals : SameDirection(r, s) => r = s

\* When a LONG and a SHORT are open together, the later one was published
\* with the higher confidence (analyzer.ts 254-269).
LaterIsStronger ==
    \A i, j \in DOMAIN history :
        i < j /\ {history[i], history[j]} \subseteq OpenSignals =>
            Confidence[history[i]] < Confidence[history[j]]

\* Why the two hold: every signal is created once, and a run that has passed
\* the last checks keeps what they saw, since the tracker opens nothing.
HistoryOnce ==
    /\ \A i, j \in DOMAIN history : history[i] = history[j] => i = j
    /\ \A r \in Signals : status[r] # "NONE" <=> r \in Created

GatePassed ==
    /\ run.pc \in {"opposite", "create"} => OpenSameDir(run.sig) = {}
    /\ At("create") => \A r \in OpenOpposite(run.sig) :
                          Confidence[r] < Confidence[run.sig]

AdmissionInv == /\ TypeOK /\ HistoryOnce /\ GatePassed
                /\ OneOpenPerDirection /\ LaterIsStronger

\* What the gate has read in four queries still holds together at its create,
\* whatever the tracker and the clock have done in between: there is still
\* nothing open in the candidate's direction, the cooldown still allows it, and
\* what is open in the other direction is still weaker (analyzer.ts 196-269).
ChecksStillHold ==
    At("create") => /\ OpenSameDir(run.sig) = {}
                    /\ ~Throttled(run.sig)
                    /\ \A r \in OpenOpposite(run.sig) :
                          Confidence[r] < Confidence[run.sig]

\* Why the cooldown still allows it: while a run goes on nothing is created and
\* `recent` only shrinks, and no closed signal ever moves.
CooldownPassed ==
    run.pc \in {"sameDir", "opposite", "create"} => ~Throttled(run.sig)
=============================================================================
