--------------------------- MODULE SignalTracker ---------------------------
(***************************************************************************)
(* trackSignalOutcomes (apps/worker/src/track.ts): a pass over the open    *)
(* signals that main.ts starts every second without waiting for the one    *)
(* before it. A pass reads the open signals, then the latest tick, and     *)
(* then decides every signal from that snapshot, one awaited write after   *)
(* another. `Passes` is the set of passes that may be under way at once.   *)
(*                                                                         *)
(* A signal's prices are integers; its setup never changes once created.   *)
(* The analyzer that creates signals is one action here (Publish) and is   *)
(* modelled in SignalAdmission. A rejected database call is an unhandled   *)
(* rejection, which ends the worker process, so both are Crash.            *)
(***************************************************************************)
EXTENDS SignalTypes, FiniteSets

CONSTANTS
    Signals,      \* the signals the analyzer may create
    Passes,       \* the tracker passes that may overlap
    Prices,       \* the prices a tick may carry
    NoTick,       \* the tick table is empty
    Setup,        \* the immutable columns of each signal
    MaxCrashes    \* how often the worker may die

ASSUME SetupAssumption ==
    Setup \in [Signals -> [long : BOOLEAN, sl : Int, lo : Int, hi : Int,
                           entry : Int, tps : Seq(Int)]]
ASSUME SignalsAssumption == Signals # {}
ASSUME LevelsAssumption == \A s \in Signals : Len(Setup[s].tps) <= 3
ASSUME CrashesAssumption == MaxCrashes \in Nat
ASSUME TickAssumption == Prices \subseteq Int /\ NoTick \notin Prices

VARIABLES
    status, managedStop, events,   \* the Signal rows and their SignalEvents
    expired,                       \* signals whose expiresAt has passed
    tick,                          \* the newest row of the tick table
    crashes,
    pass                           \* the locals of each pass

rows  == <<status, managedStop, events>>
world == <<expired, tick, crashes>>
vars  == <<status, managedStop, events, expired, tick, crashes, pass>>

\* seen, seenStop: the rows as read; todo: signals the loop has not come to;
\* price, due: the price and the expired signals it decides from; at, level:
\* the signal on the target ladder and the next level to write
IdlePass == [pc |-> "idle",
             seen |-> [s \in Signals |-> "NONE"],
             seenStop |-> [s \in Signals |-> FALSE],
             todo |-> {}, price |-> NoTick, due |-> {},
             at |-> CHOOSE s \in Signals : TRUE, level |-> 1]

Init ==
    /\ status = [s \in Signals |-> "NONE"]
    /\ managedStop = [s \in Signals |-> FALSE]
    /\ events = [s \in Signals |-> <<>>]
    /\ expired = {}
    /\ tick = NoTick
    /\ crashes = 0
    /\ pass = [p \in Passes |-> IdlePass]

-----------------------------------------------------------------------------
(* Price tests *)

InEntryZone(s, q) == Setup[s].lo <= q /\ q <= Setup[s].hi

EffSl(s, managed) == IF managed THEN Setup[s].entry ELSE Setup[s].sl

SlCrossed(s, managed, q) == IF Setup[s].long THEN q < EffSl(s, managed)
                                             ELSE q > EffSl(s, managed) \* mutant

SlHit(s, managed, q) == IF Setup[s].long THEN q <= EffSl(s, managed)
                                         ELSE q >= EffSl(s, managed)

TpHits(s, q) == {i \in DOMAIN Setup[s].tps :
                    IF Setup[s].long THEN q >= Setup[s].tps[i]
                                     ELSE q <= Setup[s].tps[i]}

\* l <= maxLevel, the highest target level the price has reached
Reaches(s, q, l) == \E i \in TpHits(s, q) : l <= i

-----------------------------------------------------------------------------
(* The world around the tracker *)

\* runAnalysis creates a signal CONFIRMED, with its two first events.
Publish(s) ==
    /\ status[s] = "NONE"
    /\ status' = [status EXCEPT ![s] = "CONFIRMED"]
    /\ events' = [events EXCEPT ![s] =
                    <<[from |-> "NONE", to |-> "PRELIMINARY"],
                      [from |-> "PRELIMINARY", to |-> "CONFIRMED"]>>]
    /\ UNCHANGED <<managedStop, world, pass>>

Tick(q) == /\ tick # q
           /\ tick' = q
           /\ UNCHANGED <<rows, expired, crashes, pass>>

Expires(s) == /\ status[s] # "NONE"
              /\ s \notin expired
              /\ expired' = expired \union {s}
              /\ UNCHANGED <<rows, tick, crashes, pass>>

\* The process dies; every pass is lost, the rows stay as they are.
Crash == /\ crashes < MaxCrashes
         /\ \E p \in Passes : pass[p].pc # "idle"
         /\ crashes' = crashes + 1
         /\ pass' = [p \in Passes |-> IdlePass]
         /\ UNCHANGED <<rows, expired, tick>>

-----------------------------------------------------------------------------
(* One pass *)

EnteredSignals == {s \in Signals : status[s] \in TRACKED \ PRE_ENTRY} \* mutant
OpenSignals == {s \in Signals : status[s] \in TRACKED}

\* findMany of the open signals; nothing happens when there are none
Begin(p) ==
    /\ pass[p].pc = "idle"
    /\ OpenSignals # {}
    /\ pass' = [pass EXCEPT ![p] =
                  [@ EXCEPT !.pc = "tick", !.seen = status,
                            !.seenStop = managedStop,
                            !.todo = OpenSignals]]
    /\ UNCHANGED <<rows, world>>

\* findFirst of the tick table, then the clock
ReadTick(p) ==
    /\ pass[p].pc = "tick"
    /\ pass' = [pass EXCEPT ![p] =
                  IF tick = NoTick
                  THEN IdlePass
                  ELSE [@ EXCEPT !.pc = "loop", !.price = tick,
                                 !.due = expired \intersect pass[p].todo]]
    /\ UNCHANGED <<rows, world>>

\* The loop has come to s (findMany asks for no order).
Deciding(p, s) == pass[p].pc = "loop" /\ s \in pass[p].todo
NextSignal(p, s) == pass' = [pass EXCEPT ![p].todo = @ \ {s}]

\* The update is by id alone: it does not look at the row's status.
Transition(s, from, to) ==
    /\ status' = [status EXCEPT ![s] = to]
    /\ events' = [events EXCEPT ![s] = Append(@, [from |-> from, to |-> to])]

\* transition() followed by continue
Settle(p, s, to) == /\ Transition(s, pass[p].seen[s], to)
                    /\ NextSignal(p, s)
                    /\ UNCHANGED <<managedStop, world>>

Waiting(p, s) == Deciding(p, s) /\ pass[p].seen[s] \in PRE_ENTRY
StopHit(p, s) == SlHit(s, pass[p].seenStop[s], pass[p].price)

Expire(p, s) ==
    /\ Waiting(p, s)
    /\ s \in pass[p].due
    /\ Settle(p, s, "EXPIRED")

Activate(p, s) ==
    /\ Waiting(p, s)
    /\ s \notin pass[p].due
    /\ InEntryZone(s, pass[p].price)
    /\ Settle(p, s, "ACTIVE")

Invalidate(p, s) ==
    /\ Waiting(p, s)
    /\ s \notin pass[p].due
    /\ ~InEntryZone(s, pass[p].price)
    /\ StopHit(p, s)
    /\ Settle(p, s, "INVALIDATED")

\* No condition holds: the signal waits for a later pass.
Leave(p, s) ==
    /\ Waiting(p, s)
    /\ s \notin pass[p].due
    /\ ~InEntryZone(s, pass[p].price)
    /\ ~StopHit(p, s)
    /\ NextSignal(p, s)
    /\ UNCHANGED <<rows, world>>

\* Any stop ends an ACTIVE signal; after a target only a moved one does.
StopCounts(p, s) == \/ pass[p].seen[s] = "ACTIVE"
                    \/ pass[p].seen[s] \in TP_HIT /\ pass[p].seenStop[s]

Fail(p, s) ==
    /\ Deciding(p, s)
    /\ pass[p].seen[s] = "ACTIVE"
    /\ StopHit(p, s)
    /\ Settle(p, s, "FAILED")

StopOutUnmoved(p, s) ==                                           \* mutant
    /\ Deciding(p, s)
    /\ pass[p].seen[s] \in TP_HIT
    /\ StopHit(p, s)
    /\ Settle(p, s, "STOPPED")

StopOut(p, s) ==
    /\ Deciding(p, s)
    /\ pass[p].seen[s] \in TP_HIT
    /\ pass[p].seenStop[s]
    /\ StopHit(p, s)
    /\ Settle(p, s, "STOPPED")

\* currentLevel + 1
SkippedLevel(from) == IF from = "ACTIVE" THEN 1 ELSE 3            \* mutant
FirstLevel(from) == CHOOSE l \in 1 .. 3 : RungBelow(l) = from

\* On to the targets above the level of the snapshot.
Climb(p, s) ==
    /\ Deciding(p, s)
    /\ pass[p].seen[s] \in {"ACTIVE"} \union TP_HIT
    /\ ~(StopCounts(p, s) /\ StopHit(p, s))
    /\ pass' = [pass EXCEPT ![p] =
                  [@ EXCEPT !.pc = "climb",
                            !.todo = pass[p].todo \ {s}, !.at = s,
                            !.level = FirstLevel(pass[p].seen[s])]]
    /\ UNCHANGED <<rows, world>>

\* curStatus moves with the writes of the pass.
SnapshotStatus(p) == pass[p].seen[pass[p].at]                     \* mutant
CurStatus(p) == RungBelow(pass[p].level)

\* Every level up to the highest one reached gets a write of its own.
EmitTp(p) ==
    LET s == pass[p].at
        l == pass[p].level
    IN  /\ pass[p].pc = "climb"
        /\ Reaches(s, pass[p].price, l)
        /\ Transition(s, CurStatus(p), Rung[l])
        /\ pass' = [pass EXCEPT ![p].level = l + 1]
        /\ UNCHANGED <<managedStop, world>>

BeDueAtTp1Only(p) ==                                              \* mutant
    LET s == pass[p].at
    IN  /\ pass[p].seen[s] = "ACTIVE"
        /\ Reaches(s, pass[p].price, 1) /\ ~Reaches(s, pass[p].price, 2)
        /\ ~pass[p].seenStop[s]

\* Auto-BE is due when this pass took the signal from ACTIVE to a target.
BeDue(p) == LET s == pass[p].at
            IN  /\ pass[p].seen[s] = "ACTIVE"
                /\ Reaches(s, pass[p].price, 1)
                /\ ~pass[p].seenStop[s]

\* After the last level: the second write, if it is due.
FinishTps(p) ==
    /\ pass[p].pc = "climb"
    /\ ~Reaches(pass[p].at, pass[p].price, pass[p].level)
    /\ managedStop' = [managedStop EXCEPT ![pass[p].at] = @ \/ BeDue(p)]
    /\ pass' = [pass EXCEPT ![p].pc = "loop"]
    /\ UNCHANGED <<status, events, world>>

End(p) == /\ pass[p].pc = "loop"
          /\ pass[p].todo = {}
          /\ pass' = [pass EXCEPT ![p] = IdlePass]
          /\ UNCHANGED <<rows, world>>

PassStep(p) ==
    \/ Begin(p) \/ ReadTick(p) \/ EmitTp(p) \/ FinishTps(p) \/ End(p)
    \/ \E s \in Signals : \/ Expire(p, s) \/ Activate(p, s)
                          \/ Invalidate(p, s) \/ Leave(p, s)
                          \/ Fail(p, s) \/ StopOut(p, s) \/ Climb(p, s)

Next == \/ \E s \in Signals : Publish(s) \/ Expires(s)
        \/ \E q \in Prices : Tick(q)
        \/ Crash
        \/ \E p \in Passes : PassStep(p)

Spec == Init /\ [][Next]_vars

\* The timer keeps firing and every database call is answered.
FairSpec == Spec /\ \A p \in Passes : WF_vars(PassStep(p))
-----------------------------------------------------------------------------
(* Properties *)

Event == [from : Statuses, to : Statuses]

PassType ==
    [pc : {"idle", "tick", "loop", "climb"},
     seen : [Signals -> Statuses], seenStop : [Signals -> BOOLEAN],
     todo : SUBSET Signals, price : Prices \union {NoTick},
     due : SUBSET Signals, at : Signals, level : 1 .. 4]

TypeOK ==
    /\ status \in [Signals -> Statuses]
    /\ managedStop \in [Signals -> BOOLEAN]
    /\ events \in [Signals -> Seq(Event)]
    /\ expired \subseteq Signals
    /\ tick \in Prices \union {NoTick}
    /\ crashes \in 0 .. MaxCrashes
    /\ pass \in [Passes -> PassType]

\* The statuses a signal has been through, by its event rows
Targets(history) == {history[i].to : i \in DOMAIN history}
Reached(s) == Targets(events[s])

\* However many passes overlap and wherever the worker dies, no step of the
\* ladder is written before the step under it: no target without an entry, no
\* TP2 before TP1, no COMPLETED before TP2, no managed stop before TP1, and no
\* STOPPED without the managed stop it is the hit of (track.ts 89-130).
LadderOrder ==
    \A s \in Signals :
        /\ \A l \in 1 .. 3 : Rung[l] \in Reached(s) =>
                                RungBelow(l) \in Reached(s)
        /\ "FAILED" \in Reached(s) => "ACTIVE" \in Reached(s)
        /\ managedStop[s] => "TP1_HIT" \in Reached(s)
        /\ "STOPPED" \in Reached(s) => managedStop[s]

\* Why LadderOrder holds: what a row shows, what a pass has read and where it
\* stands on the ladder are all in the events already.
SnapshotsReached ==
    /\ \A s \in Signals : IF status[s] = "NONE" THEN Reached(s) = {}
                                              ELSE status[s] \in Reached(s)
    /\ \A p \in Passes, s \in Signals :
          /\ pass[p].seen[s] # "NONE" => pass[p].seen[s] \in Reached(s)
          /\ pass[p].seenStop[s] => managedStop[s]
    /\ \A p \in Passes : pass[p].pc = "climb" =>
                             RungBelow(pass[p].level) \in Reached(pass[p].at)

LadderInv == TypeOK /\ LadderOrder /\ SnapshotsReached

\* While passes do not overlap, the event rows of a signal are a path: each
\* one starts from the status the one before it ended in, and the last one
\* ends in the status of the row (curStatus, track.ts 46-63).
EventChain ==
    \A s \in Signals :
        /\ \A i \in 2 .. Len(events[s]) : events[s][i].from = events[s][i - 1].to
        /\ events[s] # <<>> => events[s][Len(events[s])].to = status[s]

\* Some pass is between a signal's target writes and its stop write.
Climbing(s) == \E p \in Passes : pass[p].pc = "climb" /\ pass[p].at = s

Protected(s) == status[s] \in TP_HIT => managedStop[s] \/ Climbing(s)

\* Once TP1 is hit the stop is at the entry or on its way there ("geser SL ke
\* entry", track.ts:118), as long as the worker does not die between the two
\* writes (115 and 121): such a signal is never protected again.
BreakEvenUnlessCrash == crashes = 0 => \A s \in Signals : Protected(s)

\* A pass on the target ladder stands at or above the level it began with.
OnLadder(p) ==
    pass[p].pc = "climb" =>
        /\ pass[p].seen[pass[p].at] \in {"ACTIVE"} \union TP_HIT
        /\ pass[p].level >= FirstLevel(pass[p].seen[pass[p].at])

\* The pass that will move the stop of s when it leaves the ladder
WillProtect(p, s) == /\ pass[p].pc = "climb" /\ pass[p].at = s
                     /\ pass[p].seen[s] = "ACTIVE"
                     /\ Reaches(s, pass[p].price, 1)

\* Why BreakEvenUnlessCrash holds, however many passes overlap: only a pass
\* that has seen the signal ACTIVE writes its TP1.
BreakEvenInv ==
    /\ LadderInv
    /\ \A p \in Passes : OnLadder(p)
    /\ crashes = 0 => \A s \in Signals :
          "TP1_HIT" \in Reached(s) =>
              managedStop[s] \/ \E p \in Passes : WillProtect(p, s)

\* While passes do not overlap, the rows that a pass has still to write are as
\* it has read or left them: nobody else moves an open signal.
OnePass == \A p, q \in Passes : p = q

Fresh(p) ==
    /\ \A s \in pass[p].todo :
          /\ pass[p].seen[s] = status[s] /\ status[s] \in TRACKED
          /\ pass[p].seenStop[s] = managedStop[s]
    /\ pass[p].pc = "climb" =>
          /\ pass[p].at \notin pass[p].todo
          /\ status[pass[p].at] = RungBelow(pass[p].level)
          /\ pass[p].seenStop[pass[p].at] = managedStop[pass[p].at]

Unpublished == \A s \in Signals : status[s] = "NONE" => events[s] = <<>>

FreshInv == /\ TypeOK /\ EventChain /\ Unpublished
            /\ \A p \in Passes : Fresh(p) /\ OnLadder(p)

\* "Signal lifecycle (monotonic)" (track.ts:13): a closed signal is never
\* open again.
Monotonic ==
    [][\A s \in Signals : status[s] \in CLOSED => status'[s] \in CLOSED]_vars

\* While passes do not overlap, the tracker implements the lifecycle: the
\* snapshot a write is decided from is still what the row says.
Lifecycle == INSTANCE SignalLifecycle
ImplementsLifecycle == Lifecycle!Spec

\* Once there is a tick, a signal past its expiry does not stay pre-entry
\* (track.ts 66-70), however often the worker dies.
ExpiryEnforced ==
    \A s \in Signals :
        (status[s] \in PRE_ENTRY /\ s \in expired /\ tick # NoTick)
            ~> status[s] \notin PRE_ENTRY

\* The latest price has come back to the stop of the signal, or past it.
AtStop(s) == /\ tick # NoTick
             /\ \/ Setup[s].long /\ Setup[s].sl - tick >= 0
                \/ ~Setup[s].long /\ tick - Setup[s].sl >= 0

\* An ACTIVE signal fails if the price stays at or beyond its stop (91-94).
StopEnforced ==
    \A s \in Signals :
        (status[s] = "ACTIVE" /\ AtStop(s))
            ~> (status[s] # "ACTIVE" \/ ~AtStop(s))
=============================================================================
