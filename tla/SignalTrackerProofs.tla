------------------------ MODULE SignalTrackerProofs ------------------------
(***************************************************************************)
(* What SignalTracker guarantees for every set of signals, every set-up    *)
(* and any number of crashes: for any number of overlapping passes, types, *)
(* LadderOrder and BreakEvenUnlessCrash; when passes do not overlap        *)
(* (OnePass), EventChain and that the tracker implements SignalLifecycle.  *)
(***************************************************************************)
EXTENDS SignalTracker, TLAPS

LEMMA StatusFacts ==
    /\ \A l \in 1 .. 3 : Rung[l] \in Statuses
    /\ \A l \in 1 .. 4 : RungBelow(l) \in Statuses
    /\ \A from \in {"ACTIVE"} \union TP_HIT :
          FirstLevel(from) \in 1 .. 3 /\ RungBelow(FirstLevel(from)) = from
<1>1. /\ \A l \in 1 .. 3 : Rung[l] \in Statuses
      /\ \A l \in 1 .. 4 : RungBelow(l) \in Statuses
  BY DEF Rung, RungBelow, Statuses, TRACKED, CLOSED, TP_HIT, PRE_ENTRY
<1>2. ASSUME NEW from \in {"ACTIVE"} \union TP_HIT
      PROVE  \E l \in 1 .. 3 : RungBelow(l) = from
  <2>1. RungBelow(1) = "ACTIVE" /\ RungBelow(2) = "TP1_HIT" /\ RungBelow(3) = "TP2_HIT"
    BY DEF Rung, RungBelow
  <2>. QED BY <2>1 DEF TP_HIT
<1>3. ASSUME NEW from \in {"ACTIVE"} \union TP_HIT
      PROVE  FirstLevel(from) \in 1 .. 3 /\ RungBelow(FirstLevel(from)) = from
  BY <1>2 DEF FirstLevel
<1>. QED BY <1>1, <1>3

\* The last target level a price can reach is 3.
LEMMA ReachedLevels ==
    ASSUME NEW s \in Signals, NEW q, NEW l \in 1 .. 4, Reaches(s, q, l)
    PROVE  l \in 1 .. 3
<1>1. /\ Setup[s].tps \in Seq(Int)
      /\ Len(Setup[s].tps) \in Nat /\ Len(Setup[s].tps) <= 3
      /\ DOMAIN Setup[s].tps = 1 .. Len(Setup[s].tps)
  BY SetupAssumption, LevelsAssumption
<1>. QED BY <1>1 DEF Reaches, TpHits

LEMMA IdleType == IdlePass \in PassType
  BY SignalsAssumption DEF IdlePass, PassType, Statuses

LEMMA InitType == Init => TypeOK
<1>. SUFFICES ASSUME Init PROVE TypeOK
  OBVIOUS
<1>1. pass \in [Passes -> PassType]
  BY IdleType DEF Init
<1>2. events \in [Signals -> Seq(Event)]
  BY DEF Init
<1>. QED BY <1>1, <1>2, CrashesAssumption DEF Init, TypeOK, Statuses

\* A write of a status and its event keeps the rows well typed.
LEMMA TransitionType ==
    ASSUME TypeOK, NEW s \in Signals, NEW from \in Statuses, NEW to \in Statuses,
           Transition(s, from, to)
    PROVE  /\ status' \in [Signals -> Statuses]
           /\ events' \in [Signals -> Seq(Event)]
<1>1. [from |-> from, to |-> to] \in Event
  BY DEF Event
<1>2. Append(events[s], [from |-> from, to |-> to]) \in Seq(Event)
  BY <1>1 DEF TypeOK
<1>. QED BY <1>2 DEF TypeOK, Transition

LEMMA SettleType ==
    ASSUME TypeOK, NEW p \in Passes, NEW s \in Signals, NEW to \in Statuses,
           Settle(p, s, to)
    PROVE  TypeOK'
<1>1. pass[p] \in PassType
  BY DEF TypeOK
<1>2. /\ status' \in [Signals -> Statuses]
      /\ events' \in [Signals -> Seq(Event)]
  BY <1>1, TransitionType DEF Settle, PassType
<1>3. pass' \in [Passes -> PassType]
  BY <1>1 DEF TypeOK, Settle, NextSignal, PassType
<1>. QED BY <1>2, <1>3 DEF TypeOK, Settle, world

LEMMA NextType == TypeOK /\ [Next]_vars => TypeOK'
<1>. SUFFICES ASSUME TypeOK, [Next]_vars PROVE TypeOK'
  OBVIOUS
<1>. USE DEF TypeOK
<1>1. ASSUME NEW s \in Signals, Publish(s) PROVE TypeOK'
  <2>1. <<[from |-> "NONE", to |-> "PRELIMINARY"],
          [from |-> "PRELIMINARY", to |-> "CONFIRMED"]>> \in Seq(Event)
    BY DEF Event, Statuses, TRACKED, PRE_ENTRY
  <2>2. "CONFIRMED" \in Statuses
    BY DEF Statuses, TRACKED, PRE_ENTRY
  <2>. QED BY <1>1, <2>1, <2>2 DEF Publish, world
<1>2. ASSUME NEW s \in Signals, Expires(s) PROVE TypeOK'
  BY <1>2 DEF Expires, rows
<1>3. ASSUME NEW q \in Prices, Tick(q) PROVE TypeOK'
  BY <1>3 DEF Tick, rows
<1>4. CASE Crash
  BY <1>4, IdleType, CrashesAssumption DEF Crash, rows
<1>5. ASSUME NEW p \in Passes, PassStep(p) PROVE TypeOK'
  <2>0. pass[p] \in PassType
    OBVIOUS
  <2>1. CASE Begin(p)
    <3>. DEFINE read == [pass[p] EXCEPT !.pc = "tick", !.seen = status,
                                        !.seenStop = managedStop,
                                        !.todo = OpenSignals]
    <3>1. read \in PassType
      BY <2>0 DEF PassType, OpenSignals
    <3>2. pass' = [pass EXCEPT ![p] = read]
      BY <2>1 DEF Begin
    <3>3. pass' \in [Passes -> PassType]
      BY <3>1, <3>2
    <3>. QED BY <2>1, <3>3 DEF Begin, rows, world
  <2>2. CASE ReadTick(p)
    BY <2>0, <2>2, IdleType DEF ReadTick, rows, world, PassType
  <2>3. CASE EmitTp(p)
    <3>1. pass[p].level \in 1 .. 3 /\ pass[p].at \in Signals
      BY <2>0, <2>3, ReachedLevels DEF EmitTp, PassType
    <3>2. CurStatus(p) \in Statuses /\ Rung[pass[p].level] \in Statuses
      BY <3>1, StatusFacts DEF CurStatus
    <3>3. /\ status' \in [Signals -> Statuses]
          /\ events' \in [Signals -> Seq(Event)]
      BY <2>3, <3>1, <3>2, TransitionType DEF EmitTp
    <3>4. pass[p].level + 1 \in 1 .. 4
      BY <3>1
    <3>5. [pass[p] EXCEPT !.level = pass[p].level + 1] \in PassType
      BY <2>0, <3>4 DEF PassType
    <3>6. pass' = [pass EXCEPT ![p] = [pass[p] EXCEPT !.level = pass[p].level + 1]]
      BY <2>3 DEF EmitTp
    <3>7. pass' \in [Passes -> PassType]
      BY <3>5, <3>6
    <3>8. UNCHANGED <<managedStop, world>>
      BY <2>3 DEF EmitTp
    <3>. QED BY <3>3, <3>7, <3>8 DEF world
  <2>4. CASE FinishTps(p)
    <3>1. pass' \in [Passes -> PassType]
      BY <2>0, <2>4 DEF FinishTps, PassType
    <3>2. managedStop' \in [Signals -> BOOLEAN]
      BY <2>4 DEF FinishTps
    <3>. QED BY <2>4, <3>1, <3>2 DEF FinishTps, world
  <2>5. CASE End(p)
    BY <2>5, IdleType DEF End, rows, world
  <2>6. ASSUME NEW s \in Signals, Expire(p, s) \/ Activate(p, s) \/ Invalidate(p, s)
                                  \/ Fail(p, s) \/ StopOut(p, s)
        PROVE  TypeOK'
    <3>1. {"EXPIRED", "ACTIVE", "INVALIDATED", "FAILED", "STOPPED"} \subseteq Statuses
      BY DEF Statuses, TRACKED, CLOSED
    <3>. QED BY <2>6, <3>1, SettleType
             DEF Expire, Activate, Invalidate, Fail, StopOut
  <2>7. ASSUME NEW s \in Signals, Leave(p, s) PROVE TypeOK'
    BY <2>0, <2>7 DEF Leave, NextSignal, rows, world, PassType
  <2>8. ASSUME NEW s \in Signals, Climb(p, s) PROVE TypeOK'
    <3>1. FirstLevel(pass[p].seen[s]) \in 1 .. 4
      BY <2>8, StatusFacts DEF Climb
    <3>. DEFINE climbing == [pass[p] EXCEPT !.pc = "climb", !.todo = pass[p].todo \ {s}, !.at = s,
                                            !.level = FirstLevel(pass[p].seen[s])]
    <3>2. climbing \in PassType
      BY <2>0, <3>1 DEF PassType
    <3>3. pass' = [pass EXCEPT ![p] = climbing]
      BY <2>8 DEF Climb
    <3>. HIDE DEF climbing
    <3>4. pass' \in [Passes -> PassType]
      BY <3>2, <3>3
    <3>5. UNCHANGED <<rows, world>>
      BY <2>8 DEF Climb
    <3>. QED BY <3>4, <3>5 DEF rows, world
  <2>. QED BY <1>5, <2>1, <2>2, <2>3, <2>4, <2>5, <2>6, <2>7, <2>8 DEF PassStep
<1>6. CASE UNCHANGED vars
  BY <1>6 DEF vars
<1>. QED BY <1>1, <1>2, <1>3, <1>4, <1>5, <1>6 DEF Next

\* The rows, the clock and every pass keep their types (track.ts).
THEOREM TypeCorrect == Spec => []TypeOK
<1>. QED BY InitType, NextType, PTL DEF Spec
-----------------------------------------------------------------------------
(* LadderOrder *)

LEMMA RungFacts ==
    /\ Rung[1] = "TP1_HIT" /\ Rung[2] = "TP2_HIT" /\ Rung[3] = "COMPLETED"
    /\ RungBelow(1) = "ACTIVE" /\ RungBelow(2) = "TP1_HIT"
    /\ RungBelow(3) = "TP2_HIT" /\ RungBelow(4) = "COMPLETED"
BY DEF Rung, RungBelow

LEMMA TargetsOfAppend ==
    ASSUME NEW history \in Seq(Event), NEW e \in Event
    PROVE  Targets(Append(history, e)) = Targets(history) \union {e.to}
<1>. DEFINE longer == Append(history, e)
<1>1. /\ DOMAIN history = 1 .. Len(history)
      /\ DOMAIN longer = 1 .. Len(history) + 1
      /\ Len(history) \in Nat
      /\ \A i \in 1 .. Len(history) : longer[i] = history[i]
      /\ longer[Len(history) + 1] = e
  OBVIOUS
<1>. HIDE DEF longer
<1>2. ASSUME NEW x \in Targets(longer) PROVE x \in Targets(history) \union {e.to}
  BY <1>1, <1>2 DEF Targets
<1>3. ASSUME NEW x \in Targets(history) \union {e.to} PROVE x \in Targets(longer)
  BY <1>1, <1>3 DEF Targets
<1>4. Targets(longer) = Targets(history) \union {e.to}
  BY <1>2, <1>3
<1>. QED BY <1>4 DEF longer

\* A write adds the status it writes to the history of its signal only.
LEMMA TransitionReached ==
    ASSUME TypeOK, NEW s \in Signals, NEW from \in Statuses, NEW to \in Statuses,
           Transition(s, from, to)
    PROVE  /\ \A r \in Signals \ {s} : Reached(r)' = Reached(r) /\ status'[r] = status[r]
           /\ Reached(s)' = Reached(s) \union {to}
           /\ status'[s] = to
<1>. DEFINE e == [from |-> from, to |-> to]
<1>1. e \in Event /\ e.to = to
  BY DEF Event
<1>. HIDE DEF e
<1>2. Targets(Append(events[s], e)) = Targets(events[s]) \union {to}
  BY <1>1, TargetsOfAppend DEF TypeOK
<1>3. events' = [events EXCEPT ![s] = Append(events[s], e)]
  BY DEF Transition, e
<1>4. /\ events'[s] = Append(events[s], e)
      /\ \A r \in Signals \ {s} : events'[r] = events[r]
  BY <1>3 DEF TypeOK
<1>5. /\ status'[s] = to
      /\ \A r \in Signals \ {s} : status'[r] = status[r]
  BY DEF TypeOK, Transition
<1>. QED BY <1>2, <1>4, <1>5 DEF Reached

\* transition() keeps the invariant when the rung under it has been reached.
LEMMA SettleLadder ==
    ASSUME LadderInv, NEW p \in Passes, NEW s \in Signals, NEW to \in Statuses,
           Settle(p, s, to),
           to \in {"EXPIRED", "INVALIDATED", "ACTIVE", "FAILED", "STOPPED"},
           to = "FAILED" => "ACTIVE" \in Reached(s),
           to = "STOPPED" => managedStop[s]
    PROVE  LadderInv'
<1>0. TypeOK' /\ pass[p] \in PassType
  BY SettleType DEF LadderInv, TypeOK
<1>1. /\ \A r \in Signals \ {s} : Reached(r)' = Reached(r) /\ status'[r] = status[r]
      /\ Reached(s)' = Reached(s) \union {to}
      /\ status'[s] = to
  BY <1>0, TransitionReached DEF Settle, LadderInv, PassType
<1>2. managedStop' = managedStop
  BY DEF Settle
<1>3. /\ \A q \in Passes : /\ pass'[q].pc = pass[q].pc /\ pass'[q].at = pass[q].at
                           /\ pass'[q].seen = pass[q].seen
                           /\ pass'[q].seenStop = pass[q].seenStop
                           /\ pass'[q].level = pass[q].level
  BY <1>0 DEF Settle, NextSignal, LadderInv, TypeOK, PassType
<1>4. LadderOrder'
  BY <1>1, <1>2, RungFacts DEF LadderInv, LadderOrder
<1>5. \A q \in Passes : pass[q].at \in Signals
  BY DEF LadderInv, TypeOK, PassType
<1>6. SnapshotsReached'
  BY <1>1, <1>2, <1>3, <1>5 DEF LadderInv, SnapshotsReached
<1>. QED BY <1>0, <1>4, <1>6 DEF LadderInv

LEMMA InitLadder == Init => LadderInv
<1>. SUFFICES ASSUME Init PROVE LadderInv
  OBVIOUS
<1>1. \A s \in Signals : Reached(s) = {}
  BY DEF Init, Reached, Targets
<1>2. LadderOrder
  BY <1>1 DEF Init, LadderOrder
<1>3. SnapshotsReached
  BY <1>1 DEF Init, SnapshotsReached, IdlePass
<1>. QED BY <1>2, <1>3, InitType DEF LadderInv

\* A step that leaves the rows alone keeps the invariant if every pass stays
\* where it was, starts from the rows, or is lost.
LEMMA PassOnlyLadder ==
    ASSUME LadderInv, TypeOK', UNCHANGED rows,
           \A q \in Passes :
              \/ /\ pass'[q].seen = pass[q].seen /\ pass'[q].seenStop = pass[q].seenStop
                 /\ pass'[q].pc = "climb" => pass[q].pc = "climb"
                                             /\ pass'[q].at = pass[q].at
                                             /\ pass'[q].level = pass[q].level
              \/ /\ pass'[q].seen = status /\ pass'[q].seenStop = managedStop
                 /\ pass'[q].pc = "tick"
              \/ pass'[q] = IdlePass
    PROVE  LadderInv'
<1>1. \A r \in Signals : Reached(r)' = Reached(r)
  BY DEF rows, Reached
<1>2. LadderOrder'
  BY <1>1 DEF rows, LadderInv, LadderOrder
<1>3. IdlePass.pc # "climb" /\ \A s \in Signals : IdlePass.seen[s] = "NONE"
                                                  /\ ~IdlePass.seenStop[s]
  BY DEF IdlePass
<1>4. \A q \in Passes : pass[q].at \in Signals
  BY DEF LadderInv, TypeOK, PassType
<1>5. ASSUME NEW q \in Passes, NEW s \in Signals
      PROVE  /\ pass'[q].seen[s] # "NONE" => pass'[q].seen[s] \in Reached(s)
             /\ pass'[q].seenStop[s] => managedStop[s]
  BY <1>3 DEF LadderInv, SnapshotsReached
<1>6. ASSUME NEW q \in Passes, pass'[q].pc = "climb"
      PROVE  RungBelow(pass'[q].level) \in Reached(pass'[q].at)
  BY <1>3, <1>6 DEF LadderInv, SnapshotsReached
<1>7. \A q \in Passes : pass'[q].at \in Signals
  BY DEF TypeOK, PassType
<1>8. SnapshotsReached'
  BY <1>1, <1>5, <1>6, <1>7 DEF rows, LadderInv, SnapshotsReached
<1>. QED BY <1>2, <1>8 DEF LadderInv
LEMMA NextLadder == LadderInv /\ [Next]_vars => LadderInv'
<1>. SUFFICES ASSUME LadderInv, [Next]_vars PROVE LadderInv'
  OBVIOUS
<1>0. TypeOK /\ TypeOK'
  BY NextType DEF LadderInv
<1>1. ASSUME NEW s \in Signals, Publish(s) PROVE LadderInv'
  <2>1. /\ \A r \in Signals \ {s} : Reached(r)' = Reached(r) /\ status'[r] = status[r]
        /\ status'[s] = "CONFIRMED"
        /\ Reached(s) = {}
    BY <1>0, <1>1 DEF Publish, LadderInv, SnapshotsReached, Reached, TypeOK
  <2>2. Reached(s)' = {"PRELIMINARY", "CONFIRMED"}
    <3>. DEFINE born == <<[from |-> "NONE", to |-> "PRELIMINARY"],
                          [from |-> "PRELIMINARY", to |-> "CONFIRMED"]>>
    <3>1. events'[s] = born
      BY <1>0, <1>1 DEF Publish, TypeOK
    <3>2. Targets(born) = {"PRELIMINARY", "CONFIRMED"}
      <4>1. DOMAIN born = 1 .. 2 /\ born[1].to = "PRELIMINARY" /\ born[2].to = "CONFIRMED"
        OBVIOUS
      <4>. QED BY <4>1 DEF Targets
    <3>. QED BY <3>1, <3>2 DEF Reached
  <2>3. pass' = pass /\ managedStop' = managedStop
    BY <1>1 DEF Publish
  <2>4. LadderOrder'
    BY <2>1, <2>2, <2>3, RungFacts DEF LadderInv, LadderOrder
  <2>5. \A q \in Passes : pass[q].at \in Signals
    BY <1>0 DEF TypeOK, PassType
  <2>6. SnapshotsReached'
    BY <2>1, <2>2, <2>3, <2>5 DEF LadderInv, SnapshotsReached
  <2>. QED BY <1>0, <2>4, <2>6 DEF LadderInv
<1>2. ASSUME NEW s \in Signals, Expires(s) PROVE LadderInv'
  BY <1>0, <1>2, PassOnlyLadder DEF Expires
<1>3. ASSUME NEW q \in Prices, Tick(q) PROVE LadderInv'
  BY <1>0, <1>3, PassOnlyLadder DEF Tick
<1>4. CASE Crash
  BY <1>0, <1>4, PassOnlyLadder DEF Crash
<1>5. ASSUME NEW p \in Passes, PassStep(p) PROVE LadderInv'
  <2>0. pass[p] \in PassType /\ pass \in [Passes -> PassType]
    BY <1>0 DEF TypeOK
  <2>1. CASE Begin(p)
    <3>1. /\ pass'[p].seen = status /\ pass'[p].seenStop = managedStop
          /\ pass'[p].pc = "tick"
          /\ \A q \in Passes \ {p} : pass'[q] = pass[q]
      BY <2>0, <2>1 DEF Begin, PassType
    <3>2. UNCHANGED rows
      BY <2>1 DEF Begin
    <3>. QED BY <1>0, <3>1, <3>2, PassOnlyLadder
  <2>2. CASE ReadTick(p)
    <3>1. /\ \/ pass'[p] = IdlePass
             \/ /\ pass'[p].seen = pass[p].seen /\ pass'[p].seenStop = pass[p].seenStop
                /\ pass'[p].pc = "loop"
          /\ \A q \in Passes \ {p} : pass'[q] = pass[q]
      BY <2>0, <2>2 DEF ReadTick, PassType
    <3>2. UNCHANGED rows
      BY <2>2 DEF ReadTick
    <3>. QED BY <1>0, <3>1, <3>2, PassOnlyLadder
  <2>3. CASE End(p)
    <3>1. pass'[p] = IdlePass /\ \A q \in Passes \ {p} : pass'[q] = pass[q]
      BY <2>0, <2>3 DEF End
    <3>2. UNCHANGED rows
      BY <2>3 DEF End
    <3>. QED BY <1>0, <3>1, <3>2, PassOnlyLadder
  <2>4. ASSUME NEW s \in Signals, Leave(p, s) PROVE LadderInv'
    <3>1. /\ pass'[p].seen = pass[p].seen /\ pass'[p].seenStop = pass[p].seenStop
          /\ pass'[p].pc = pass[p].pc /\ pass'[p].at = pass[p].at
          /\ pass'[p].level = pass[p].level
          /\ \A q \in Passes \ {p} : pass'[q] = pass[q]
      BY <2>0, <2>4 DEF Leave, NextSignal, PassType
    <3>2. UNCHANGED rows
      BY <2>4 DEF Leave
    <3>. QED BY <1>0, <3>1, <3>2, PassOnlyLadder
  <2>5. ASSUME NEW s \in Signals, Expire(p, s) \/ Activate(p, s) \/ Invalidate(p, s)
        PROVE  LadderInv'
    <3>1. {"EXPIRED", "ACTIVE", "INVALIDATED"} \subseteq Statuses
      BY DEF Statuses, TRACKED, CLOSED
    <3>. QED BY <2>5, <3>1, SettleLadder DEF Expire, Activate, Invalidate
  <2>6. ASSUME NEW s \in Signals, Fail(p, s) PROVE LadderInv'
    <3>1. "ACTIVE" \in Reached(s) /\ "FAILED" \in Statuses
      BY <2>6 DEF Fail, LadderInv, SnapshotsReached, Statuses, CLOSED
    <3>. QED BY <2>6, <3>1, SettleLadder DEF Fail
  <2>7. ASSUME NEW s \in Signals, StopOut(p, s) PROVE LadderInv'
    <3>1. managedStop[s] /\ "STOPPED" \in Statuses
      BY <2>7 DEF StopOut, LadderInv, SnapshotsReached, Statuses, CLOSED
    <3>. QED BY <2>7, <3>1, SettleLadder DEF StopOut
  <2>8. ASSUME NEW s \in Signals, Climb(p, s) PROVE LadderInv'
    <3>1. /\ pass'[p].seen = pass[p].seen /\ pass'[p].seenStop = pass[p].seenStop
          /\ pass'[p].pc = "climb" /\ pass'[p].at = s
          /\ pass'[p].level = FirstLevel(pass[p].seen[s])
          /\ \A q \in Passes \ {p} : pass'[q] = pass[q]
      BY <2>0, <2>8 DEF Climb, PassType
    <3>2. UNCHANGED rows
      BY <2>8 DEF Climb
    <3>3. RungBelow(pass'[p].level) \in Reached(s)
      <4>1. pass[p].seen[s] \in {"ACTIVE"} \union TP_HIT
        BY <2>8 DEF Climb
      <4>2. pass[p].seen[s] \in Reached(s)
        BY <4>1 DEF LadderInv, SnapshotsReached, TP_HIT
      <4>. QED BY <3>1, <4>1, <4>2, StatusFacts
    <3>4. \A r \in Signals : Reached(r)' = Reached(r)
      BY <3>2 DEF rows, Reached
    <3>5. LadderOrder'
      BY <3>2, <3>4 DEF rows, LadderInv, LadderOrder
    <3>6. \A q \in Passes : pass'[q].at \in Signals
      BY <1>0 DEF TypeOK, PassType
    <3>7. SnapshotsReached'
      BY <3>1, <3>2, <3>3, <3>4, <3>6 DEF rows, LadderInv, SnapshotsReached
    <3>. QED BY <1>0, <3>5, <3>7 DEF LadderInv
  <2>9. CASE EmitTp(p)
    <3>0. pass[p].level \in 1 .. 3 /\ pass[p].at \in Signals
      BY <2>0, <2>9, ReachedLevels DEF EmitTp, PassType
    <3>1. PICK s \in Signals, l \in 1 .. 3 : s = pass[p].at /\ l = pass[p].level
      BY <3>0
    <3>2. CurStatus(p) \in Statuses /\ Rung[l] \in Statuses
      BY <3>1, StatusFacts DEF CurStatus
    <3>3. /\ \A r \in Signals \ {s} : Reached(r)' = Reached(r) /\ status'[r] = status[r]
          /\ Reached(s)' = Reached(s) \union {Rung[l]}
          /\ status'[s] = Rung[l]
      BY <1>0, <2>9, <3>1, <3>2, TransitionReached DEF EmitTp
    <3>4. /\ managedStop' = managedStop
          /\ pass' = [pass EXCEPT ![p] = [pass[p] EXCEPT !.level = l + 1]]
      BY <2>9, <3>1 DEF EmitTp
    <3>5. /\ \A q \in Passes : /\ pass'[q].pc = pass[q].pc /\ pass'[q].at = pass[q].at
                               /\ pass'[q].seen = pass[q].seen
                               /\ pass'[q].seenStop = pass[q].seenStop
                               /\ q # p => pass'[q].level = pass[q].level
          /\ pass'[p].level = l + 1
      BY <2>0, <3>4 DEF PassType
    <3>6. RungBelow(l) \in Reached(s)
      BY <2>9, <3>1 DEF EmitTp, LadderInv, SnapshotsReached
    <3>7. RungBelow(l + 1) = Rung[l] /\ Rung[l] # "FAILED" /\ Rung[l] # "STOPPED"
          /\ Rung[l] # "NONE"
      BY <3>1, RungFacts
    <3>8. \A k \in 1 .. 3 : Rung[k] = Rung[l] => k = l
      BY <3>1, RungFacts
    <3>9. LadderOrder'
      BY <3>1, <3>3, <3>4, <3>6, <3>7, <3>8 DEF LadderInv, LadderOrder
    <3>10. \A q \in Passes : pass[q].at \in Signals
      BY <1>0 DEF TypeOK, PassType
    <3>11. SnapshotsReached'
      <4>1. ASSUME NEW q \in Passes, pass'[q].pc = "climb"
            PROVE  RungBelow(pass'[q].level) \in (Reached(pass[q].at))'
        <5>1. CASE q = p
          <6>1. pass'[q].at = s /\ pass'[q].level = l + 1
            BY <3>1, <3>5, <5>1
          <6>. QED BY <3>3, <3>7, <6>1
        <5>2. CASE q # p
          <6>1. RungBelow(pass[q].level) \in Reached(pass[q].at)
            BY <3>5, <4>1 DEF LadderInv, SnapshotsReached
          <6>2. \A r \in Signals : Reached(r) \subseteq Reached(r)'
            BY <3>3
          <6>3. PICK r \in Signals : r = pass[q].at
            BY <3>10
          <6>. QED BY <3>5, <5>2, <6>1, <6>2, <6>3
        <5>. QED BY <5>1, <5>2
      <4>2. \A r \in Signals : IF status'[r] = "NONE" THEN Reached(r)' = {}
                                                      ELSE status'[r] \in Reached(r)'
        BY <3>3, <3>7 DEF LadderInv, SnapshotsReached
      <4>3. \A q \in Passes, r \in Signals :
               /\ pass'[q].seen[r] # "NONE" => pass'[q].seen[r] \in Reached(r)'
               /\ pass'[q].seenStop[r] => managedStop'[r]
        BY <3>3, <3>4, <3>5 DEF LadderInv, SnapshotsReached
      <4>. QED BY <4>1, <4>2, <4>3 DEF SnapshotsReached
    <3>. QED BY <1>0, <3>9, <3>11 DEF LadderInv
  <2>10. CASE FinishTps(p)
    <3>. DEFINE s == pass[p].at
    <3>1. s \in Signals /\ pass[p].level \in 1 .. 4
      BY <2>0 DEF PassType
    <3>2. /\ UNCHANGED <<status, events>>
          /\ managedStop' = [managedStop EXCEPT ![s] = managedStop[s] \/ BeDue(p)]
          /\ pass' = [pass EXCEPT ![p].pc = "loop"]
      BY <2>10 DEF FinishTps
    <3>3. \A r \in Signals : Reached(r)' = Reached(r)
      BY <3>2 DEF Reached
    <3>4. BeDue(p) => "TP1_HIT" \in Reached(s)
      <4>1. ASSUME BeDue(p) PROVE pass[p].level # 1
        BY <2>10, <4>1 DEF FinishTps, BeDue
      <4>2. RungBelow(pass[p].level) \in Reached(s)
        BY <2>10 DEF FinishTps, LadderInv, SnapshotsReached
      <4>3. \A k \in 1 .. 3 : Rung[k] \in Reached(s) => RungBelow(k) \in Reached(s)
        BY <3>1 DEF LadderInv, LadderOrder
      <4>. QED BY <3>1, <4>1, <4>2, <4>3, RungFacts
    <3>5. \A r \in Signals : /\ managedStop[r] => managedStop'[r]
                             /\ managedStop'[r] => managedStop[r] \/ (r = s /\ BeDue(p))
      BY <1>0, <3>2 DEF TypeOK
    <3>6. LadderOrder'
      BY <3>2, <3>3, <3>4, <3>5 DEF LadderInv, LadderOrder
    <3>7. /\ \A q \in Passes : /\ pass'[q].at = pass[q].at
                               /\ pass'[q].level = pass[q].level
                               /\ pass'[q].seen = pass[q].seen
                               /\ pass'[q].seenStop = pass[q].seenStop
                               /\ pass'[q].pc = "climb" => pass[q].pc = "climb"
                               /\ pass[q].at \in Signals
      BY <2>0, <3>2 DEF PassType
    <3>8. SnapshotsReached'
      BY <3>2, <3>3, <3>5, <3>7 DEF LadderInv, SnapshotsReached
    <3>. QED BY <1>0, <3>6, <3>8 DEF LadderInv
  <2>. QED BY <1>5, <2>1, <2>2, <2>3, <2>4, <2>5, <2>6, <2>7, <2>8, <2>9, <2>10
           DEF PassStep
<1>6. CASE UNCHANGED vars
  BY <1>0, <1>6, PassOnlyLadder DEF vars, rows
<1>. QED BY <1>1, <1>2, <1>3, <1>4, <1>5, <1>6 DEF Next

\* Whatever passes overlap and wherever the worker dies, the events of a
\* signal climb the ladder in order, and STOPPED follows a moved stop
\* (track.ts 89-130).
THEOREM LadderCorrect == Spec => []LadderOrder
<1>1. Spec => []LadderInv
  BY InitLadder, NextLadder, PTL DEF Spec
<1>2. LadderInv => LadderOrder
  BY DEF LadderInv
<1>. QED BY <1>1, <1>2, PTL
-----------------------------------------------------------------------------
(* BreakEvenUnlessCrash *)

\* A target above one that is reached has been passed as well.
LEMMA ReachesBelow ==
    ASSUME NEW s \in Signals, NEW q, NEW l \in 1 .. 4, Reaches(s, q, l)
    PROVE  Reaches(s, q, 1)
<1>1. /\ Setup[s].tps \in Seq(Int)
      /\ DOMAIN Setup[s].tps = 1 .. Len(Setup[s].tps)
  BY SetupAssumption
<1>2. PICK i \in TpHits(s, q) : l <= i
  BY DEF Reaches
<1>3. i \in DOMAIN Setup[s].tps
  BY <1>2 DEF TpHits
<1>4. 1 <= i
  BY <1>1, <1>3
<1>. QED BY <1>2, <1>4 DEF Reaches

LEMMA FirstLevels ==
    /\ FirstLevel("ACTIVE") = 1
    /\ \A from \in TP_HIT : FirstLevel(from) \in 2 .. 3
<1>1. \A from \in {"ACTIVE"} \union TP_HIT :
          FirstLevel(from) \in 1 .. 3 /\ RungBelow(FirstLevel(from)) = from
  BY StatusFacts
<1>. QED BY <1>1, RungFacts DEF TP_HIT

\* A pass keeps its locals to itself.
LEMMA OtherPasses ==
    ASSUME TypeOK, NEW p \in Passes, NEW q \in Passes \ {p}, PassStep(p)
    PROVE  pass'[q] = pass[q]
<1>0. pass \in [Passes -> PassType]
  BY DEF TypeOK
<1>1. CASE Begin(p) \/ ReadTick(p) \/ EmitTp(p) \/ FinishTps(p) \/ End(p)
  BY <1>0, <1>1 DEF Begin, ReadTick, EmitTp, FinishTps, End
<1>2. ASSUME NEW s \in Signals,
             \/ Expire(p, s) \/ Activate(p, s) \/ Invalidate(p, s) \/ Leave(p, s)
             \/ Fail(p, s) \/ StopOut(p, s)
      PROVE  pass'[q] = pass[q]
  <2>1. NextSignal(p, s)
    BY <1>2 DEF Expire, Activate, Invalidate, Leave, Fail, StopOut, Settle
  <2>. QED BY <1>0, <2>1 DEF NextSignal
<1>3. ASSUME NEW s \in Signals, Climb(p, s) PROVE pass'[q] = pass[q]
  BY <1>0, <1>3 DEF Climb
<1>. QED BY <1>1, <1>2, <1>3 DEF PassStep

\* What a step does to the passes on the ladder, whatever else it does.
LEMMA OnLadderStep ==
    ASSUME TypeOK, [Next]_vars, \A p \in Passes : OnLadder(p),
           NEW q \in Passes
    PROVE  OnLadder(q)'
<1>0. pass \in [Passes -> PassType] /\ pass[q] \in PassType
  BY DEF TypeOK
<1>1. CASE pass' = pass
  BY <1>1 DEF OnLadder
<1>2. CASE Crash
  BY <1>2 DEF Crash, OnLadder, IdlePass
<1>3. ASSUME NEW p \in Passes, PassStep(p) PROVE OnLadder(q)'
  <2>1. CASE q # p
    <3>1. pass'[q] = pass[q]
      BY <1>3, <2>1, OtherPasses
    <3>. QED BY <3>1 DEF OnLadder
  <2>2. CASE q = p
    <3>1. CASE Begin(p) \/ ReadTick(p) \/ FinishTps(p) \/ End(p)
      <4>0. IdlePass.pc = "idle"
        BY DEF IdlePass
      <4>1. CASE Begin(p)
        BY <1>0, <2>2, <4>1 DEF Begin, PassType, OnLadder
      <4>2. CASE ReadTick(p)
        BY <1>0, <2>2, <4>0, <4>2 DEF ReadTick, PassType, OnLadder
      <4>3. CASE FinishTps(p)
        BY <1>0, <2>2, <4>3 DEF FinishTps, PassType, OnLadder
      <4>4. CASE End(p)
        BY <1>0, <2>2, <4>0, <4>4 DEF End, OnLadder
      <4>. QED BY <3>1, <4>1, <4>2, <4>3, <4>4
    <3>2. CASE EmitTp(p)
      <4>1. /\ pass'[p].pc = "climb" /\ pass[p].pc = "climb"
            /\ pass'[p].at = pass[p].at /\ pass'[p].seen = pass[p].seen
            /\ pass'[p].level = pass[p].level + 1
        BY <1>0, <2>2, <3>2 DEF EmitTp, PassType
      <4>2. pass[p].level \in 1 .. 4 /\ FirstLevel(pass[p].seen[pass[p].at]) \in 1 .. 3
        BY <1>0, <2>2, <4>1, StatusFacts DEF PassType, OnLadder
      <4>. QED BY <2>2, <4>1, <4>2 DEF OnLadder
    <3>3. ASSUME NEW s \in Signals, Climb(p, s) PROVE OnLadder(q)'
      <4>1. /\ pass'[p].at = s /\ pass'[p].seen = pass[p].seen
            /\ pass'[p].level = FirstLevel(pass[p].seen[s])
            /\ pass[p].seen[s] \in {"ACTIVE"} \union TP_HIT
        BY <1>0, <2>2, <3>3 DEF Climb, PassType
      <4>2. FirstLevel(pass[p].seen[s]) \in 1 .. 3
        BY <4>1, StatusFacts
      <4>. QED BY <2>2, <4>1, <4>2 DEF OnLadder
    <3>4. ASSUME NEW s \in Signals,
                 Expire(p, s) \/ Activate(p, s) \/ Invalidate(p, s) \/ Leave(p, s)
                    \/ Fail(p, s) \/ StopOut(p, s)
          PROVE  OnLadder(q)'
      <4>1. /\ pass[p].pc = "loop"
            /\ pass' = [pass EXCEPT ![p].todo = @ \ {s}]
        BY <3>4 DEF Expire, Activate, Invalidate, Leave, Fail, StopOut, Waiting,
                    Deciding, Settle, NextSignal
      <4>2. pass'[p].pc # "climb"
        BY <1>0, <2>2, <4>1 DEF PassType
      <4>. QED BY <2>2, <4>2 DEF OnLadder
    <3>. QED BY <1>3, <3>1, <3>2, <3>3, <3>4 DEF PassStep
  <2>. QED BY <2>1, <2>2
<1>. QED BY <1>1, <1>2, <1>3 DEF Next, Publish, Expires, Tick, vars

\* The pass that is to move a stop leaves the ladder only by FinishTps.
LEMMA WillProtectStep ==
    ASSUME TypeOK, NEW p \in Passes, PassStep(p),
           NEW q \in Passes, NEW s \in Signals, WillProtect(q, s)
    PROVE  WillProtect(q, s)' \/ (q = p /\ FinishTps(p))
<1>0. pass \in [Passes -> PassType] /\ pass[q] \in PassType
  BY DEF TypeOK
<1>1. CASE q # p
  BY <1>1, OtherPasses DEF WillProtect
<1>2. CASE q = p
  <2>1. CASE Begin(p) \/ ReadTick(p) \/ End(p)
    BY <1>2, <2>1 DEF Begin, ReadTick, End, WillProtect
  <2>2. CASE EmitTp(p)
    <3>1. /\ pass'[p].pc = pass[p].pc /\ pass'[p].at = pass[p].at
          /\ pass'[p].seen = pass[p].seen /\ pass'[p].price = pass[p].price
      BY <1>0, <1>2, <2>2 DEF EmitTp, PassType
    <3>. QED BY <1>2, <3>1 DEF WillProtect
  <2>3. ASSUME NEW r \in Signals,
               \/ Expire(p, r) \/ Activate(p, r) \/ Invalidate(p, r) \/ Leave(p, r)
               \/ Fail(p, r) \/ StopOut(p, r) \/ Climb(p, r)
        PROVE  FALSE
    <3>1. pass[p].pc = "loop"
      BY <2>3 DEF Expire, Activate, Invalidate, Leave, Fail, StopOut, Climb,
                  Waiting, Deciding
    <3>. QED BY <1>2, <3>1 DEF WillProtect
  <2>. QED BY <1>2, <2>1, <2>2, <2>3 DEF PassStep
<1>. QED BY <1>1, <1>2

\* Only a pass on the ladder, at its first level, writes the first target.
LEMMA Tp1Step ==
    ASSUME TypeOK, NEW p \in Passes, PassStep(p), NEW s \in Signals,
           "TP1_HIT" \in Reached(s)', "TP1_HIT" \notin Reached(s)
    PROVE  EmitTp(p) /\ pass[p].at = s /\ pass[p].level = 1
<1>0. pass[p] \in PassType
  BY DEF TypeOK
<1>1. ~UNCHANGED events
  BY DEF Reached
<1>2. ~(Begin(p) \/ ReadTick(p) \/ FinishTps(p) \/ End(p))
  BY <1>1 DEF Begin, ReadTick, FinishTps, End, rows
<1>3. ASSUME NEW r \in Signals, NEW to \in Statuses \ {"TP1_HIT"}, Settle(p, r, to)
      PROVE  FALSE
  <2>1. pass[p].seen[r] \in Statuses /\ Transition(r, pass[p].seen[r], to)
    BY <1>0, <1>3 DEF Settle, PassType
  <2>2. /\ \A t \in Signals \ {r} : Reached(t)' = Reached(t)
        /\ Reached(r)' = Reached(r) \union {to}
    BY <2>1, TransitionReached
  <2>. QED BY <2>2
<1>4. {"EXPIRED", "ACTIVE", "INVALIDATED", "FAILED", "STOPPED"} \subseteq Statuses \ {"TP1_HIT"}
  BY DEF Statuses, TRACKED, CLOSED
<1>5. ASSUME NEW r \in Signals,
             \/ Expire(p, r) \/ Activate(p, r) \/ Invalidate(p, r)
             \/ Fail(p, r) \/ StopOut(p, r)
      PROVE  FALSE
  BY <1>3, <1>4, <1>5 DEF Expire, Activate, Invalidate, Fail, StopOut
<1>6. ASSUME NEW r \in Signals, Leave(p, r) \/ Climb(p, r) PROVE FALSE
  BY <1>1, <1>6 DEF Leave, Climb, rows
<1>7. CASE EmitTp(p)
  <2>1. pass[p].level \in 1 .. 3 /\ pass[p].at \in Signals
    BY <1>0, <1>7, ReachedLevels DEF EmitTp, PassType
  <2>2. PICK r \in Signals, l \in 1 .. 3 : r = pass[p].at /\ l = pass[p].level
    BY <2>1
  <2>3. CurStatus(p) \in Statuses /\ Rung[l] \in Statuses
    BY <2>2, StatusFacts DEF CurStatus
  <2>4. Transition(r, CurStatus(p), Rung[l])
    BY <1>7, <2>2 DEF EmitTp
  <2>5. /\ \A t \in Signals \ {r} : Reached(t)' = Reached(t)
        /\ Reached(r)' = Reached(r) \union {Rung[l]}
    BY <2>3, <2>4, TransitionReached
  <2>6. r = s /\ Rung[l] = "TP1_HIT"
    BY <2>5
  <2>. QED BY <1>7, <2>2, <2>6, RungFacts
<1>. QED BY <1>2, <1>5, <1>6, <1>7 DEF PassStep

\* A stop that is moved stays moved.
LEMMA StopStep ==
    ASSUME TypeOK, NEW p \in Passes, PassStep(p), NEW s \in Signals, managedStop[s]
    PROVE  managedStop'[s]
<1>1. CASE FinishTps(p)
  BY <1>1 DEF FinishTps, TypeOK
<1>2. CASE Begin(p) \/ ReadTick(p) \/ EmitTp(p) \/ End(p)
  BY <1>2 DEF Begin, ReadTick, EmitTp, End, rows
<1>3. ASSUME NEW r \in Signals,
             \/ Expire(p, r) \/ Activate(p, r) \/ Invalidate(p, r) \/ Leave(p, r)
             \/ Fail(p, r) \/ StopOut(p, r) \/ Climb(p, r)
      PROVE  managedStop' = managedStop
  BY <1>3 DEF Expire, Activate, Invalidate, Leave, Fail, StopOut, Climb, Settle, rows
<1>. QED BY <1>1, <1>2, <1>3 DEF PassStep

LEMMA InitBreakEven == Init => BreakEvenInv
<1>. SUFFICES ASSUME Init PROVE BreakEvenInv
  OBVIOUS
<1>1. \A p \in Passes : OnLadder(p)
  BY DEF Init, OnLadder, IdlePass
<1>2. \A s \in Signals : Reached(s) = {}
  BY DEF Init, Reached, Targets
<1>. QED BY <1>1, <1>2, InitLadder DEF BreakEvenInv

LEMMA NextBreakEven == BreakEvenInv /\ [Next]_vars => BreakEvenInv'
<1>. SUFFICES ASSUME BreakEvenInv, [Next]_vars PROVE BreakEvenInv'
  OBVIOUS
<1>0. TypeOK /\ LadderInv' /\ \A p \in Passes : OnLadder(p)'
  BY NextLadder, OnLadderStep DEF BreakEvenInv, LadderInv
<1>. DEFINE Guarded(s) == managedStop[s] \/ \E p \in Passes : WillProtect(p, s)
<1>1. ASSUME crashes' = 0, NEW s \in Signals, "TP1_HIT" \in Reached(s)'
      PROVE  Guarded(s)'
  <2>1. ASSUME UNCHANGED <<managedStop, pass, crashes>>, "TP1_HIT" \in Reached(s)
        PROVE  Guarded(s)'
    BY <1>1, <2>1 DEF BreakEvenInv, WillProtect
  <2>2. ASSUME NEW r \in Signals, Publish(r) PROVE Guarded(s)'
    <3>1. /\ UNCHANGED <<managedStop, pass, crashes>>
          /\ events'[s] = IF s = r
                          THEN <<[from |-> "NONE", to |-> "PRELIMINARY"],
                                 [from |-> "PRELIMINARY", to |-> "CONFIRMED"]>>
                          ELSE events[s]
      BY <1>0, <2>2 DEF Publish, world, TypeOK
    <3>2. CASE s = r
      <4>. DEFINE born == <<[from |-> "NONE", to |-> "PRELIMINARY"],
                            [from |-> "PRELIMINARY", to |-> "CONFIRMED"]>>
      <4>1. DOMAIN born = 1 .. 2 /\ born[1].to = "PRELIMINARY" /\ born[2].to = "CONFIRMED"
        OBVIOUS
      <4>2. "TP1_HIT" \notin Targets(born)
        BY <4>1 DEF Targets
      <4>. QED BY <1>1, <3>1, <3>2, <4>2 DEF Reached
    <3>3. CASE s # r
      BY <1>1, <2>1, <3>1, <3>3 DEF Reached
    <3>. QED BY <3>2, <3>3
  <2>3. ASSUME NEW r \in Signals, Expires(r) PROVE Guarded(s)'
    BY <1>1, <2>1, <2>3 DEF Expires, rows, Reached
  <2>4. ASSUME NEW q \in Prices, Tick(q) PROVE Guarded(s)'
    BY <1>1, <2>1, <2>4 DEF Tick, rows, Reached
  <2>5. CASE Crash
    BY <1>0, <1>1, <2>5 DEF Crash, TypeOK
  <2>6. CASE UNCHANGED vars
    BY <1>1, <2>1, <2>6 DEF vars, Reached
  <2>7. ASSUME NEW p \in Passes, PassStep(p) PROVE Guarded(s)'
    <3>1. crashes = 0
      BY <1>1, <2>7 DEF PassStep, Begin, ReadTick, EmitTp, FinishTps, End, Expire,
           Activate, Invalidate, Leave, Fail, StopOut, Climb, Settle, world
    <3>2. CASE "TP1_HIT" \notin Reached(s)
      <4>1. EmitTp(p) /\ pass[p].at = s /\ pass[p].level = 1
        BY <1>0, <1>1, <2>7, <3>2, Tp1Step
      <4>2. pass[p].seen[s] \in {"ACTIVE"} \union TP_HIT /\ 1 >= FirstLevel(pass[p].seen[s])
        BY <4>1 DEF EmitTp, BreakEvenInv, OnLadder
      <4>3. pass[p].seen[s] = "ACTIVE"
        BY <4>2, FirstLevels
      <4>4. WillProtect(p, s)
        BY <4>1, <4>3 DEF EmitTp, WillProtect
      <4>5. ~FinishTps(p)
        BY <4>1 DEF EmitTp, FinishTps
      <4>. QED BY <1>0, <2>7, <4>4, <4>5, WillProtectStep
    <3>3. CASE "TP1_HIT" \in Reached(s) /\ managedStop[s]
      BY <1>0, <2>7, <3>3, StopStep
    <3>4. ASSUME NEW q \in Passes, WillProtect(q, s) PROVE Guarded(s)'
      <4>1. CASE WillProtect(q, s)'
        BY <4>1
      <4>2. CASE q = p /\ FinishTps(p)
        <5>1. pass[p].at = s /\ pass[p].seen[s] = "ACTIVE" /\ Reaches(s, pass[p].price, 1)
          BY <3>4, <4>2 DEF WillProtect
        <5>2. managedStop'[s] = (managedStop[s] \/ BeDue(p))
          BY <1>0, <4>2, <5>1 DEF FinishTps, TypeOK
        <5>3. pass[p].seenStop[s] => managedStop[s]
          BY DEF BreakEvenInv, LadderInv, SnapshotsReached
        <5>4. BeDue(p) \/ pass[p].seenStop[s]
          BY <5>1 DEF BeDue
        <5>. QED BY <5>2, <5>3, <5>4
      <4>. QED BY <1>0, <2>7, <3>4, <4>1, <4>2, WillProtectStep
    <3>5. "TP1_HIT" \in Reached(s) => Guarded(s)
      BY <3>1 DEF BreakEvenInv
    <3>. QED BY <3>2, <3>3, <3>4, <3>5
  <2>. QED BY <2>2, <2>3, <2>4, <2>5, <2>6, <2>7 DEF Next
<1>. QED BY <1>0, <1>1 DEF BreakEvenInv

\* Whatever passes overlap: while the worker has not died, a signal at TP1 or
\* TP2 has its stop at the entry, or a pass is about to move it (track.ts
\* 115-129).
THEOREM BreakEvenCorrect == Spec => []BreakEvenUnlessCrash
<1>1. Spec => []BreakEvenInv
  BY InitBreakEven, NextBreakEven, PTL DEF Spec
<1>2. ASSUME BreakEvenInv PROVE BreakEvenUnlessCrash
  <2>1. ASSUME crashes = 0, NEW s \in Signals, status[s] \in TP_HIT PROVE managedStop[s] \/ Climbing(s)
    <3>1. status[s] \in Reached(s)
      BY <1>2, <2>1 DEF BreakEvenInv, LadderInv, SnapshotsReached, TP_HIT
    <3>2. "TP2_HIT" \in Reached(s) => "TP1_HIT" \in Reached(s)
      BY <1>2, RungFacts DEF BreakEvenInv, LadderInv, LadderOrder
    <3>3. "TP1_HIT" \in Reached(s)
      BY <2>1, <3>1, <3>2 DEF TP_HIT
    <3>. QED BY <1>2, <2>1, <3>3 DEF BreakEvenInv, WillProtect, Climbing
  <2>. QED BY <2>1 DEF BreakEvenUnlessCrash, Protected
<1>. QED BY <1>1, <1>2, PTL
-----------------------------------------------------------------------------
(* EventChain and the lifecycle, while passes do not overlap *)

\* One more event keeps a history a path when it starts where that ends.
LEMMA ChainOfAppend ==
    ASSUME NEW history \in Seq(Event), NEW e \in Event,
           \A i \in 2 .. Len(history) : history[i].from = history[i - 1].to,
           history # <<>> => history[Len(history)].to = e.from
    PROVE  /\ \A i \in 2 .. Len(Append(history, e)) :
                 Append(history, e)[i].from = Append(history, e)[i - 1].to
           /\ Append(history, e)[Len(Append(history, e))].to = e.to
<1>. DEFINE longer == Append(history, e)
<1>1. /\ Len(longer) = Len(history) + 1
      /\ Len(history) \in Nat
      /\ \A i \in 1 .. Len(history) : longer[i] = history[i]
      /\ longer[Len(history) + 1] = e
      /\ Len(history) # 0 => history # <<>>
  OBVIOUS
<1>. HIDE DEF longer
<1>2. ASSUME NEW i \in 2 .. Len(longer) PROVE longer[i].from = longer[i - 1].to
  <2>1. CASE i \in 2 .. Len(history)
    <3>1. i \in 1 .. Len(history) /\ i - 1 \in 1 .. Len(history)
      BY <1>1, <2>1
    <3>. QED BY <1>1, <2>1, <3>1
  <2>2. CASE i = Len(history) + 1
    <3>1. i - 1 = Len(history) /\ Len(history) # 0 /\ i - 1 \in 1 .. Len(history)
      BY <1>1, <1>2, <2>2
    <3>. QED BY <1>1, <2>2, <3>1
  <2>. QED BY <1>1, <1>2, <2>1, <2>2
<1>3. longer[Len(longer)].to = e.to
  BY <1>1
<1>. QED BY <1>2, <1>3 DEF longer

\* A write from the status the row has keeps every history a path.
LEMMA TransitionChain ==
    ASSUME TypeOK, EventChain, Unpublished, NEW s \in Signals,
           NEW from \in Statuses, NEW to \in Statuses \ {"NONE"},
           status[s] = from, Transition(s, from, to)
    PROVE  EventChain' /\ Unpublished'
<1>. DEFINE e == [from |-> from, to |-> to]
<1>1. e \in Event /\ e.from = from /\ e.to = to
  BY DEF Event
<1>2. /\ events' = [events EXCEPT ![s] = Append(events[s], e)]
      /\ status' = [status EXCEPT ![s] = to]
  BY DEF Transition
<1>. HIDE DEF e
<1>3. /\ events'[s] = Append(events[s], e) /\ status'[s] = to
      /\ \A r \in Signals \ {s} : events'[r] = events[r] /\ status'[r] = status[r]
      /\ events[s] \in Seq(Event)
  BY <1>2 DEF TypeOK
<1>4. /\ \A i \in 2 .. Len(events'[s]) : events'[s][i].from = events'[s][i - 1].to
      /\ events'[s][Len(events'[s])].to = to
  BY <1>1, <1>3, ChainOfAppend DEF EventChain
<1>5. ASSUME NEW r \in Signals
      PROVE  /\ \A i \in 2 .. Len(events'[r]) : events'[r][i].from = events'[r][i - 1].to
             /\ events'[r] # <<>> => events'[r][Len(events'[r])].to = status'[r]
  <2>1. CASE r = s
    BY <1>3, <1>4, <2>1
  <2>2. CASE r # s
    <3>1. events'[r] = events[r] /\ status'[r] = status[r]
      BY <1>3, <2>2
    <3>2. /\ \A i \in 2 .. Len(events[r]) : events[r][i].from = events[r][i - 1].to
          /\ events[r] # <<>> => events[r][Len(events[r])].to = status[r]
      BY DEF EventChain
    <3>. QED BY <3>1, <3>2
  <2>. QED BY <2>1, <2>2
<1>7. EventChain'
  BY <1>5 DEF EventChain
<1>6. Unpublished'
  BY <1>3 DEF Unpublished
<1>. QED BY <1>6, <1>7

LEMMA InitFresh == Init => FreshInv
<1>. SUFFICES ASSUME Init PROVE FreshInv
  OBVIOUS
<1>1. TypeOK
  BY InitType
<1>2. EventChain /\ Unpublished
  BY DEF Init, EventChain, Unpublished
<1>3. \A p \in Passes : Fresh(p) /\ OnLadder(p)
  BY DEF Init, Fresh, OnLadder, IdlePass
<1>. QED BY <1>1, <1>2, <1>3 DEF FreshInv

\* transition() of a signal that is as the pass has read it
LEMMA SettleFresh ==
    ASSUME FreshInv, NEW p \in Passes, NEW s \in Signals, NEW to \in Statuses \ {"NONE"},
           Deciding(p, s), Settle(p, s, to)
    PROVE  EventChain' /\ Unpublished' /\ Fresh(p)'
<1>0. TypeOK /\ pass[p] \in PassType
  BY DEF FreshInv, TypeOK
<1>1. pass[p].seen[s] = status[s] /\ pass[p].seen[s] \in Statuses
  BY <1>0 DEF FreshInv, Fresh, Deciding, PassType
<1>2. EventChain' /\ Unpublished'
  BY <1>0, <1>1, TransitionChain DEF FreshInv, Settle
<1>3. /\ \A r \in Signals \ {s} : status'[r] = status[r]
      /\ managedStop' = managedStop
  BY <1>0 DEF Settle, Transition, TypeOK
<1>4. /\ pass'[p].todo = pass[p].todo \ {s} /\ pass'[p].pc = "loop"
      /\ pass'[p].seen = pass[p].seen /\ pass'[p].seenStop = pass[p].seenStop
  BY <1>0 DEF Settle, NextSignal, Deciding, TypeOK, PassType
<1>5. pass[p].todo \subseteq Signals
  BY <1>0 DEF PassType
<1>6. Fresh(p)'
  BY <1>3, <1>4, <1>5 DEF FreshInv, Fresh
<1>. QED BY <1>2, <1>6

LEMMA NextFresh ==
    ASSUME OnePass, FreshInv, [Next]_vars
    PROVE  FreshInv'
<1>0. /\ TypeOK /\ TypeOK' /\ EventChain /\ Unpublished
      /\ \A p \in Passes : Fresh(p) /\ OnLadder(p)'
  BY NextType, OnLadderStep DEF FreshInv
<1>1. SUFFICES EventChain' /\ Unpublished' /\ \A p \in Passes : Fresh(p)'
  BY <1>0 DEF FreshInv
<1>2. ASSUME NEW s \in Signals, Publish(s)
      PROVE  EventChain' /\ Unpublished' /\ \A p \in Passes : Fresh(p)'
  <2>. DEFINE born == <<[from |-> "NONE", to |-> "PRELIMINARY"],
                        [from |-> "PRELIMINARY", to |-> "CONFIRMED"]>>
  <2>1. /\ events'[s] = born /\ status'[s] = "CONFIRMED" /\ status[s] = "NONE"
        /\ \A r \in Signals \ {s} : events'[r] = events[r] /\ status'[r] = status[r]
        /\ managedStop' = managedStop /\ pass' = pass
    BY <1>0, <1>2 DEF Publish, TypeOK
  <2>2. /\ Len(born) = 2 /\ born[2].from = born[1].to
        /\ born[2].to = "CONFIRMED"
    OBVIOUS
  <2>. HIDE DEF born
  <2>3. \A i \in 2 .. Len(born) : i = 2 /\ i - 1 = 1
    BY <2>2
  <2>4. EventChain'
    BY <1>0, <2>1, <2>2, <2>3 DEF EventChain
  <2>5. Unpublished'
    BY <1>0, <2>1 DEF Unpublished
  <2>6. ASSUME NEW p \in Passes PROVE Fresh(p)'
    <3>1. pass[p].todo \subseteq Signals /\ pass[p].at \in Signals /\ pass[p].level \in 1 .. 4
      BY <1>0 DEF TypeOK, PassType
    <3>2. s \notin pass[p].todo
      BY <1>0, <2>1 DEF Fresh, TRACKED, PRE_ENTRY, TP_HIT
    <3>3. pass[p].pc = "climb" => pass[p].at # s
      BY <1>0, <2>1, <3>1, RungFacts DEF Fresh
    <3>. QED BY <1>0, <2>1, <3>1, <3>2, <3>3 DEF Fresh
  <2>. QED BY <2>4, <2>5, <2>6
<1>3. ASSUME UNCHANGED rows PROVE EventChain' /\ Unpublished'
  BY <1>0, <1>3 DEF rows, EventChain, Unpublished
<1>4. ASSUME UNCHANGED <<rows, pass>> PROVE \A p \in Passes : Fresh(p)'
  BY <1>0, <1>4 DEF rows, Fresh
<1>5. ASSUME NEW p \in Passes, pass'[p] = IdlePass PROVE Fresh(p)'
  BY <1>5 DEF IdlePass, Fresh
<1>6. CASE Crash
  <2>1. UNCHANGED rows /\ \A p \in Passes : pass'[p] = IdlePass
    BY <1>6 DEF Crash
  <2>. QED BY <1>3, <1>5, <2>1
<1>7. ASSUME NEW p \in Passes, PassStep(p)
      PROVE  EventChain' /\ Unpublished' /\ Fresh(p)'
  <2>0. pass[p] \in PassType /\ pass \in [Passes -> PassType]
    BY <1>0 DEF TypeOK
  <2>1. CASE Begin(p)
    <3>1. /\ pass'[p].pc = "tick" /\ pass'[p].seen = status
          /\ pass'[p].seenStop = managedStop /\ pass'[p].todo = OpenSignals
      BY <2>0, <2>1 DEF Begin, PassType
    <3>2. UNCHANGED rows
      BY <2>1 DEF Begin
    <3>3. Fresh(p)'
      BY <3>1, <3>2 DEF rows, Fresh, OpenSignals
    <3>. QED BY <1>3, <3>2, <3>3
  <2>2. CASE ReadTick(p)
    <3>1. \/ pass'[p] = IdlePass
          \/ /\ pass'[p].pc = "loop" /\ pass'[p].seen = pass[p].seen
             /\ pass'[p].seenStop = pass[p].seenStop /\ pass'[p].todo = pass[p].todo
      BY <2>0, <2>2 DEF ReadTick, PassType
    <3>2. UNCHANGED rows
      BY <2>2 DEF ReadTick
    <3>3. Fresh(p)'
      BY <1>0, <1>5, <3>1, <3>2 DEF rows, Fresh
    <3>. QED BY <1>3, <3>2, <3>3
  <2>3. CASE End(p)
    <3>1. pass'[p] = IdlePass /\ UNCHANGED rows
      BY <2>0, <2>3 DEF End
    <3>. QED BY <1>3, <1>5, <3>1
  <2>4. CASE EmitTp(p)
    <3>1. pass[p].level \in 1 .. 3 /\ pass[p].at \in Signals
      BY <2>0, <2>4, ReachedLevels DEF EmitTp, PassType
    <3>2. PICK s \in Signals, l \in 1 .. 3 : s = pass[p].at /\ l = pass[p].level
      BY <3>1
    <3>3. /\ status[s] = RungBelow(l) /\ s \notin pass[p].todo
          /\ pass[p].seenStop[s] = managedStop[s] /\ pass[p].pc = "climb"
      BY <1>0, <2>4, <3>2 DEF EmitTp, Fresh
    <3>4. Transition(s, RungBelow(l), Rung[l]) /\ managedStop' = managedStop
      BY <2>4, <3>2 DEF EmitTp, CurStatus
    <3>5. RungBelow(l) \in Statuses /\ Rung[l] \in Statuses \ {"NONE"}
          /\ RungBelow(l + 1) = Rung[l]
      BY StatusFacts, RungFacts
    <3>6. EventChain' /\ Unpublished'
      BY <1>0, <3>3, <3>4, <3>5, TransitionChain
    <3>7. /\ status'[s] = Rung[l]
          /\ \A r \in Signals \ {s} : status'[r] = status[r]
      BY <1>0, <3>4 DEF Transition, TypeOK
    <3>8. /\ pass'[p].pc = "climb" /\ pass'[p].at = s /\ pass'[p].level = l + 1
          /\ pass'[p].seen = pass[p].seen /\ pass'[p].seenStop = pass[p].seenStop
          /\ pass'[p].todo = pass[p].todo
      BY <2>0, <2>4, <3>2, <3>3 DEF EmitTp, PassType
    <3>9. pass[p].todo \subseteq Signals
      BY <2>0 DEF PassType
    <3>10. Fresh(p)'
      BY <1>0, <3>3, <3>4, <3>5, <3>7, <3>8, <3>9 DEF Fresh
    <3>. QED BY <3>6, <3>10
  <2>5. CASE FinishTps(p)
    <3>1. UNCHANGED <<status, events>>
      BY <2>5 DEF FinishTps
    <3>2. EventChain' /\ Unpublished'
      BY <1>0, <3>1 DEF EventChain, Unpublished
    <3>3. /\ pass'[p].pc = "loop" /\ pass'[p].todo = pass[p].todo
          /\ pass'[p].seen = pass[p].seen /\ pass'[p].seenStop = pass[p].seenStop
      BY <2>0, <2>5 DEF FinishTps, PassType
    <3>4. pass[p].at \notin pass[p].todo /\ pass[p].todo \subseteq Signals
      BY <1>0, <2>0, <2>5 DEF FinishTps, Fresh, PassType
    <3>5. \A r \in Signals : r # pass[p].at => managedStop'[r] = managedStop[r]
      BY <1>0, <2>5 DEF FinishTps, TypeOK
    <3>6. Fresh(p)'
      BY <1>0, <3>1, <3>3, <3>4, <3>5 DEF Fresh
    <3>. QED BY <3>2, <3>6
  <2>6. ASSUME NEW s \in Signals,
               \/ Expire(p, s) \/ Activate(p, s) \/ Invalidate(p, s)
               \/ Fail(p, s) \/ StopOut(p, s)
        PROVE  EventChain' /\ Unpublished' /\ Fresh(p)'
    <3>1. {"EXPIRED", "ACTIVE", "INVALIDATED", "FAILED", "STOPPED"} \subseteq Statuses \ {"NONE"}
      BY DEF Statuses, TRACKED, CLOSED
    <3>2. Deciding(p, s)
      BY <2>6 DEF Expire, Activate, Invalidate, Fail, StopOut, Waiting
    <3>3. \E to \in Statuses \ {"NONE"} : Settle(p, s, to)
      BY <2>6, <3>1 DEF Expire, Activate, Invalidate, Fail, StopOut
    <3>. QED BY <3>2, <3>3, SettleFresh
  <2>7. ASSUME NEW s \in Signals, Leave(p, s) PROVE EventChain' /\ Unpublished' /\ Fresh(p)'
    <3>1. /\ pass'[p].pc = "loop" /\ pass'[p].todo = pass[p].todo \ {s}
          /\ pass'[p].seen = pass[p].seen /\ pass'[p].seenStop = pass[p].seenStop
      BY <2>0, <2>7 DEF Leave, Waiting, Deciding, NextSignal, PassType
    <3>2. UNCHANGED rows
      BY <2>7 DEF Leave
    <3>3. Fresh(p)'
      BY <1>0, <3>1, <3>2 DEF rows, Fresh
    <3>. QED BY <1>3, <3>2, <3>3
  <2>8. ASSUME NEW s \in Signals, Climb(p, s) PROVE EventChain' /\ Unpublished' /\ Fresh(p)'
    <3>1. /\ pass'[p].pc = "climb" /\ pass'[p].todo = pass[p].todo \ {s}
          /\ pass'[p].at = s /\ pass'[p].level = FirstLevel(pass[p].seen[s])
          /\ pass'[p].seen = pass[p].seen /\ pass'[p].seenStop = pass[p].seenStop
      BY <2>0, <2>8 DEF Climb, PassType
    <3>2. UNCHANGED rows
      BY <2>8 DEF Climb
    <3>3. /\ pass[p].seen[s] = status[s] /\ pass[p].seenStop[s] = managedStop[s]
          /\ pass[p].seen[s] \in {"ACTIVE"} \union TP_HIT
      BY <1>0, <2>8 DEF Climb, Deciding, Fresh
    <3>4. status[s] = RungBelow(pass'[p].level)
      BY <3>1, <3>3, StatusFacts
    <3>5. Fresh(p)'
      BY <1>0, <3>1, <3>2, <3>3, <3>4 DEF rows, Fresh
    <3>. QED BY <1>3, <3>2, <3>5
  <2>. QED BY <1>7, <2>1, <2>2, <2>3, <2>4, <2>5, <2>6, <2>7, <2>8 DEF PassStep
<1>8. ASSUME NEW p \in Passes, PassStep(p)
      PROVE  EventChain' /\ Unpublished' /\ \A q \in Passes : Fresh(q)'
  <2>1. \A q \in Passes : q = p
    BY DEF OnePass
  <2>. QED BY <1>7, <1>8, <2>1
<1>. QED BY <1>2, <1>3, <1>4, <1>6, <1>8 DEF Next, Expires, Tick, vars, rows

\* While passes do not overlap, the events of a signal are a path that ends in
\* the status of its row, wherever the worker dies (track.ts 46-63).
THEOREM EventChainCorrect == ASSUME OnePass PROVE Spec => []EventChain
<1>1. FreshInv /\ [Next]_vars => FreshInv'
  BY NextFresh
<1>2. FreshInv => EventChain
  BY DEF FreshInv
<1>. QED BY <1>1, <1>2, InitFresh, PTL DEF Spec
-----------------------------------------------------------------------------
(* The refinement: a pass decides from rows that are still what they were *)

LEMMA LifecycleVocabulary ==
    /\ Lifecycle!PRE_ENTRY = PRE_ENTRY /\ Lifecycle!TP_HIT = TP_HIT
    /\ \A l \in 1 .. 3 : Lifecycle!RungBelow(l) = RungBelow(l)
    /\ Lifecycle!Rung = Rung
BY DEF PRE_ENTRY, TP_HIT, RungBelow, Rung, Lifecycle!PRE_ENTRY, Lifecycle!TP_HIT,
       Lifecycle!RungBelow, Lifecycle!Rung

LEMMA PassImplements ==
    ASSUME FreshInv, NEW p \in Passes, PassStep(p)
    PROVE  [Lifecycle!Next]_<<status, managedStop>>
<1>0. /\ TypeOK /\ Fresh(p) /\ OnLadder(p) /\ pass[p] \in PassType
  BY DEF FreshInv, TypeOK
<1>1. CASE Begin(p) \/ ReadTick(p) \/ End(p)
  BY <1>1 DEF Begin, ReadTick, End, rows
<1>2. ASSUME NEW s \in Signals, Leave(p, s) \/ Climb(p, s)
      PROVE  UNCHANGED <<status, managedStop>>
  BY <1>2 DEF Leave, Climb, rows
<1>3. ASSUME NEW s \in Signals, NEW to, Deciding(p, s), Settle(p, s, to)
      PROVE  Lifecycle!Move(s, status[s], to) /\ pass[p].seen[s] = status[s]
             /\ pass[p].seenStop[s] = managedStop[s]
  BY <1>0, <1>3 DEF Fresh, Deciding, Settle, Transition, Lifecycle!Move
<1>4. ASSUME NEW s \in Signals, Activate(p, s) PROVE Lifecycle!Enter(s)
  <2>1. Deciding(p, s) /\ Settle(p, s, "ACTIVE") /\ pass[p].seen[s] \in PRE_ENTRY
    BY <1>4 DEF Activate, Waiting
  <2>. QED BY <1>3, <2>1, LifecycleVocabulary DEF Lifecycle!Enter
<1>5. ASSUME NEW s \in Signals, Expire(p, s) \/ Invalidate(p, s) PROVE Lifecycle!Drop(s)
  <2>1. /\ Deciding(p, s) /\ pass[p].seen[s] \in PRE_ENTRY
        /\ \E to \in {"EXPIRED", "INVALIDATED"} : Settle(p, s, to)
    BY <1>5 DEF Expire, Invalidate, Waiting
  <2>. QED BY <1>3, <2>1, LifecycleVocabulary DEF Lifecycle!Drop
<1>6. ASSUME NEW s \in Signals, Fail(p, s) PROVE Lifecycle!Lose(s)
  <2>1. Deciding(p, s) /\ Settle(p, s, "FAILED") /\ pass[p].seen[s] = "ACTIVE"
    BY <1>6 DEF Fail
  <2>. QED BY <1>3, <2>1 DEF Lifecycle!Lose
<1>7. ASSUME NEW s \in Signals, StopOut(p, s) PROVE Lifecycle!StopOut(s)
  <2>1. /\ Deciding(p, s) /\ Settle(p, s, "STOPPED")
        /\ pass[p].seen[s] \in TP_HIT /\ pass[p].seenStop[s]
    BY <1>7 DEF StopOut
  <2>. QED BY <1>3, <2>1, LifecycleVocabulary DEF Lifecycle!StopOut
<1>8. CASE EmitTp(p)
  <2>1. pass[p].level \in 1 .. 3 /\ pass[p].at \in Signals
    BY <1>0, <1>8, ReachedLevels DEF EmitTp, PassType
  <2>2. PICK s \in Signals, l \in 1 .. 3 : s = pass[p].at /\ l = pass[p].level
    BY <2>1
  <2>3. /\ status[s] = RungBelow(l) /\ Transition(s, RungBelow(l), Rung[l])
        /\ UNCHANGED managedStop
    BY <1>0, <1>8, <2>2 DEF EmitTp, Fresh, CurStatus
  <2>6. Lifecycle!Move(s, RungBelow(l), Rung[l])
    BY <2>3 DEF Lifecycle!Move, Transition
  <2>4. Lifecycle!Move(s, Lifecycle!RungBelow(l), Lifecycle!Rung[l])
    BY <2>6, LifecycleVocabulary
  <2>5. Lifecycle!TakeProfit(s)
    BY <2>4 DEF Lifecycle!TakeProfit
  <2>. QED BY <2>5 DEF Lifecycle!Next
<1>9. CASE FinishTps(p)
  <2>1. PICK s \in Signals, l \in 1 .. 4 : s = pass[p].at /\ l = pass[p].level
    BY <1>0 DEF PassType
  <2>2. /\ status[s] = RungBelow(l) /\ pass[p].seenStop[s] = managedStop[s]
        /\ ~Reaches(s, pass[p].price, l) /\ UNCHANGED status
        /\ managedStop' = [managedStop EXCEPT ![s] = managedStop[s] \/ BeDue(p)]
    BY <1>0, <1>9, <2>1 DEF FinishTps, Fresh
  <2>3. CASE BeDue(p)
    <3>1. ~managedStop[s] /\ l # 1
      BY <2>1, <2>2, <2>3 DEF BeDue
    <3>2. status[s] \in TP_HIT \union {"COMPLETED"}
      BY <2>2, <3>1, RungFacts DEF TP_HIT
    <3>3. managedStop' = [managedStop EXCEPT ![s] = TRUE]
      BY <2>2, <2>3
    <3>4. Lifecycle!Protect(s)
      BY <2>2, <3>1, <3>2, <3>3, LifecycleVocabulary DEF Lifecycle!Protect
    <3>. QED BY <3>4 DEF Lifecycle!Next
  <2>4. CASE ~BeDue(p)
    <3>1. (managedStop[s] \/ BeDue(p)) = managedStop[s]
      BY <1>0, <2>4 DEF TypeOK
    <3>2. managedStop' = managedStop
      BY <1>0, <2>2, <3>1 DEF TypeOK
    <3>. QED BY <2>2, <3>2
  <2>. QED BY <2>3, <2>4
<1>. QED BY <1>1, <1>2, <1>4, <1>5, <1>6, <1>7, <1>8, <1>9 DEF PassStep, Lifecycle!Next

\* While passes do not overlap, every write of the tracker is a step of the
\* lifecycle that the row still allows (track.ts:13, 60-130).
THEOREM LifecycleCorrect == ASSUME OnePass PROVE Spec => ImplementsLifecycle
<1>1. Init => Lifecycle!Init
  BY DEF Init, Lifecycle!Init
<1>2. FreshInv /\ [Next]_vars => FreshInv'
  BY NextFresh
<1>3. FreshInv /\ [Next]_vars => [Lifecycle!Next]_<<status, managedStop>>
  <2>. SUFFICES ASSUME FreshInv, [Next]_vars
                PROVE  [Lifecycle!Next]_<<status, managedStop>>
    OBVIOUS
  <2>1. ASSUME NEW s \in Signals, Publish(s) PROVE Lifecycle!Publish(s)
    BY <2>1 DEF Publish, Lifecycle!Publish, Lifecycle!Move
  <2>2. ASSUME NEW s \in Signals, Expires(s) PROVE UNCHANGED <<status, managedStop>>
    BY <2>2 DEF Expires, rows
  <2>3. ASSUME NEW q \in Prices, Tick(q) PROVE UNCHANGED <<status, managedStop>>
    BY <2>3 DEF Tick, rows
  <2>4. CASE Crash
    BY <2>4 DEF Crash, rows
  <2>5. CASE UNCHANGED vars
    BY <2>5 DEF vars
  <2>. QED BY <2>1, <2>2, <2>3, <2>4, <2>5, PassImplements DEF Next, Lifecycle!Next
<1>. QED BY <1>1, <1>2, <1>3, InitFresh, PTL
         DEF Spec, ImplementsLifecycle, Lifecycle!Spec, Lifecycle!vars

\* While passes do not overlap, a closed signal is never open again
\* (track.ts:13).
THEOREM MonotonicAlone == ASSUME OnePass PROVE Spec => Monotonic
<1>. DEFINE Closes == \A s \in Signals : status[s] \in CLOSED => status'[s] \in CLOSED
<1>1. ASSUME TypeOK, [Lifecycle!Next]_<<status, managedStop>> PROVE Closes
  <2>1. ASSUME NEW s \in Signals, NEW from, from \notin CLOSED, NEW to,
               Lifecycle!Move(s, from, to)
        PROVE  Closes
    BY <1>1, <2>1 DEF Lifecycle!Move, TypeOK
  <2>2. /\ "NONE" \notin CLOSED /\ "ACTIVE" \notin CLOSED
        /\ PRE_ENTRY \intersect CLOSED = {} /\ TP_HIT \intersect CLOSED = {}
        /\ \A l \in 1 .. 3 : RungBelow(l) \notin CLOSED
    BY RungFacts DEF CLOSED, PRE_ENTRY, TP_HIT
  <2>3. ASSUME NEW s \in Signals,
               \/ Lifecycle!Publish(s) \/ Lifecycle!Enter(s) \/ Lifecycle!Drop(s)
               \/ Lifecycle!Lose(s) \/ Lifecycle!TakeProfit(s) \/ Lifecycle!StopOut(s)
        PROVE  Closes
    <3>1. \E from, to : from \notin CLOSED /\ Lifecycle!Move(s, from, to)
      BY <2>2, <2>3, LifecycleVocabulary
         DEF Lifecycle!Publish, Lifecycle!Enter, Lifecycle!Drop, Lifecycle!Lose,
             Lifecycle!TakeProfit, Lifecycle!StopOut
    <3>. QED BY <2>1, <3>1
  <2>4. ASSUME NEW s \in Signals, Lifecycle!Protect(s) PROVE Closes
    BY <2>4 DEF Lifecycle!Protect
  <2>. QED BY <1>1, <2>3, <2>4 DEF Lifecycle!Next
<1>2. [Lifecycle!Next]_<<status, managedStop>> /\ TypeOK => [Closes]_vars
  BY <1>1
<1>3. Spec => [][Lifecycle!Next]_<<status, managedStop>>
  BY LifecycleCorrect, PTL DEF ImplementsLifecycle, Lifecycle!Spec, Lifecycle!vars
<1>. QED BY <1>2, <1>3, TypeCorrect, PTL DEF Monotonic
=============================================================================
