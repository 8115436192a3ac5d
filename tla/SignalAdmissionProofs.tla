----------------------- MODULE SignalAdmissionProofs -----------------------
(***************************************************************************)
(* OneOpenPerDirection, LaterIsStronger and ChecksStillHold of             *)
(* SignalAdmission, for every set of candidates, any directions and        *)
(* confidences, and any order of the gate's reads and the tracker's steps. *)
(***************************************************************************)
EXTENDS SignalAdmission, TLAPS

LEMMA OpenIsStatus == OPEN \subseteq Statuses /\ "NONE" \notin OPEN
BY DEF OPEN, Statuses, TRACKED, PRE_ENTRY

LEMMA RungIsStatus ==
    \A level \in 1 .. 3 : /\ Rung[level] \in Statuses \ (OPEN \union {"NONE"})
                          /\ RungBelow(level) # "NONE"
BY DEF Rung, RungBelow, Statuses, TRACKED, CLOSED, OPEN, PRE_ENTRY, TP_HIT

LEMMA InitInv == Init => AdmissionInv
<1>. SUFFICES ASSUME Init PROVE AdmissionInv
  OBVIOUS
<1>1. TypeOK
  BY DEF Init, TypeOK, Tracker!Init, IdleRun, Statuses
<1>2. OpenSignals = {}
  BY OpenIsStatus DEF Init, Tracker!Init, OpenSignals
<1>3. HistoryOnce
  BY DEF Init, Tracker!Init, HistoryOnce, Created
<1>4. GatePassed
  BY DEF Init, IdleRun, GatePassed, At
<1>5. OneOpenPerDirection /\ LaterIsStronger
  BY <1>2 DEF OneOpenPerDirection, LaterIsStronger
<1>. QED BY <1>1, <1>3, <1>4, <1>5 DEF AdmissionInv

\* The tracker opens nothing, and neither creates nor forgets a signal.
LEMMA TrackFacts ==
    ASSUME TypeOK, NEW s \in Signals, Track(s)
    PROVE  /\ status' \in [Signals -> Statuses]
           /\ managedStop' \in [Signals -> BOOLEAN]
           /\ OpenSignals' \subseteq OpenSignals
           /\ \A r \in Signals : status'[r] = "NONE" <=> status[r] = "NONE"
<1>. DEFINE Moves(from, to) == /\ status[s] = from
                               /\ status' = [status EXCEPT ![s] = to]
                               /\ UNCHANGED managedStop
<1>1. ASSUME NEW from, NEW to \in Statuses \ {"NONE"}, from # "NONE",
             to \in OPEN => from \in OPEN,
             Moves(from, to)
      PROVE  /\ status' \in [Signals -> Statuses]
             /\ managedStop' \in [Signals -> BOOLEAN]
             /\ OpenSignals' \subseteq OpenSignals
             /\ \A r \in Signals : status'[r] = "NONE" <=> status[r] = "NONE"
  BY <1>1 DEF TypeOK, OpenSignals
<1>2. CASE Tracker!Enter(s)
  <2>1. PICK from \in PRE_ENTRY : Moves(from, "ACTIVE")
    BY <1>2 DEF Tracker!Enter, Tracker!Move, Tracker!PRE_ENTRY, PRE_ENTRY
  <2>2. from # "NONE" /\ from \in OPEN /\ "ACTIVE" \in Statuses \ {"NONE"}
    BY DEF PRE_ENTRY, OPEN, Statuses, TRACKED
  <2>. HIDE DEF Moves
  <2>. QED BY <1>1, <2>1, <2>2
<1>3. CASE Tracker!Drop(s)
  <2>1. PICK from \in PRE_ENTRY, to \in {"EXPIRED", "INVALIDATED"} : Moves(from, to)
    BY <1>3 DEF Tracker!Drop, Tracker!Move, Tracker!PRE_ENTRY, PRE_ENTRY
  <2>2. from # "NONE" /\ to \in Statuses \ {"NONE"} /\ to \notin OPEN
    BY DEF PRE_ENTRY, OPEN, Statuses, CLOSED
  <2>. HIDE DEF Moves
  <2>. QED BY <1>1, <2>1, <2>2
<1>4. CASE Tracker!Lose(s)
  <2>1. Moves("ACTIVE", "FAILED")
    BY <1>4 DEF Tracker!Lose, Tracker!Move
  <2>2. "FAILED" \in Statuses \ {"NONE"} /\ "FAILED" \notin OPEN
    BY DEF PRE_ENTRY, OPEN, Statuses, CLOSED
  <2>. HIDE DEF Moves
  <2>. QED BY <1>1, <2>1, <2>2
<1>5. CASE Tracker!TakeProfit(s)
  <2>1. PICK level \in 1 .. 3 : Moves(RungBelow(level), Rung[level])
    BY <1>5 DEF Tracker!TakeProfit, Tracker!Move, Tracker!RungBelow,
                   Tracker!Rung, RungBelow, Rung
  <2>2. /\ Rung[level] \in Statuses \ {"NONE"} /\ Rung[level] \notin OPEN
        /\ RungBelow(level) # "NONE"
    BY RungIsStatus
  <2>. HIDE DEF Moves
  <2>. QED BY <1>1, <2>1, <2>2
<1>6. CASE Tracker!StopOut(s)
  <2>1. PICK from \in TP_HIT : Moves(from, "STOPPED")
    BY <1>6 DEF Tracker!StopOut, Tracker!Move, Tracker!TP_HIT, TP_HIT
  <2>2. "STOPPED" \in Statuses \ {"NONE"} /\ "STOPPED" \notin OPEN /\ from # "NONE"
    BY DEF PRE_ENTRY, OPEN, Statuses, CLOSED, TP_HIT
  <2>. HIDE DEF Moves
  <2>. QED BY <1>1, <2>1, <2>2
<1>7. CASE Tracker!Protect(s)
  <2>1. status' = status /\ managedStop' = [managedStop EXCEPT ![s] = TRUE]
    BY <1>7 DEF Tracker!Protect
  <2>2. managedStop' \in [Signals -> BOOLEAN]
    BY <2>1 DEF TypeOK
  <2>. QED BY <2>1, <2>2 DEF TypeOK, OpenSignals
<1>. QED BY <1>2, <1>3, <1>4, <1>5, <1>6, <1>7 DEF Track

\* While nothing is created or opened, both properties stay true.
LEMMA NothingOpened ==
    ASSUME AdmissionInv, UNCHANGED history,
           OpenSignals' \subseteq OpenSignals,
           \A r \in Signals : status'[r] = "NONE" <=> status[r] = "NONE"
    PROVE  HistoryOnce' /\ OneOpenPerDirection' /\ LaterIsStronger'
<1>1. HistoryOnce'
  BY DEF AdmissionInv, HistoryOnce, Created
<1>2. OneOpenPerDirection'
  BY DEF AdmissionInv, OneOpenPerDirection, SameDirection
<1>3. LaterIsStronger'
  BY DEF AdmissionInv, LaterIsStronger
<1>. QED BY <1>1, <1>2, <1>3

\* The opposite signal the query finds is the only one that is open.
LEMMA TheOpposite ==
    ASSUME AdmissionInv, NEW s \in Signals, NEW r \in OpenOpposite(s)
    PROVE  Latest(OpenOpposite(s)) = r
<1>1. OpenOpposite(s) = {r}
  BY DEF AdmissionInv, OneOpenPerDirection, OpenOpposite, SameDirection, OpenSignals
<1>2. r \in Signals /\ status[r] # "NONE"
  BY OpenIsStatus DEF OpenOpposite, OpenSignals
<1>3. PICK i \in DOMAIN history : history[i] = r
  BY <1>2 DEF AdmissionInv, HistoryOnce, Created
<1>4. history \in Seq(Signals)
  BY DEF AdmissionInv, TypeOK
<1>5. \A j \in i + 1 .. Len(history) : j \in DOMAIN history /\ j # i
  BY <1>3, <1>4
<1>6. \A j \in i + 1 .. Len(history) : history[j] \notin {r}
  BY <1>3, <1>5 DEF AdmissionInv, HistoryOnce
<1>. QED BY <1>1, <1>3, <1>6 DEF Latest

RunType == {IdleRun} \union
              [pc : {"dedupe", "cooldown", "sameDir", "opposite", "create"},
               sig : Signals]

\* A step of the run that only moves it on, or gives up.
LEMMA RunMoves ==
    ASSUME AdmissionInv, UNCHANGED <<rows, history>>, recent' \subseteq Signals,
           run' \in RunType, GatePassed'
    PROVE  AdmissionInv'
<1>0. UNCHANGED <<status, managedStop, history>>
  BY DEF rows
<1>1. TypeOK'
  BY <1>0 DEF AdmissionInv, TypeOK, RunType
<1>2. HistoryOnce' /\ OneOpenPerDirection' /\ LaterIsStronger'
  BY <1>0 DEF AdmissionInv, HistoryOnce, Created, OneOpenPerDirection,
              LaterIsStronger, OpenSignals, SameDirection
<1>. QED BY <1>1, <1>2 DEF AdmissionInv

LEMMA GivesUp ==
    ASSUME AdmissionInv, GiveUp PROVE AdmissionInv'
<1>1. run' = IdleRun /\ UNCHANGED <<rows, history, recent>>
  BY DEF GiveUp
<1>2. GatePassed'
  BY <1>1 DEF GatePassed, At, IdleRun
<1>3. recent' \subseteq Signals /\ run' \in RunType
  BY <1>1 DEF AdmissionInv, TypeOK, RunType
<1>. QED BY <1>1, <1>2, <1>3, RunMoves

\* At a step of the gate the run has a candidate.
LEMMA HasCandidate ==
    ASSUME TypeOK,
           run.pc \in {"dedupe", "cooldown", "sameDir", "opposite", "create"}
    PROVE  /\ run \in [pc : {"dedupe", "cooldown", "sameDir", "opposite", "create"},
                       sig : Signals]
           /\ run.sig \in Signals
<1>1. run # IdleRun
  BY DEF IdleRun
<1>. QED BY <1>1 DEF TypeOK

LEMMA GoesTo ==
    ASSUME AdmissionInv,
           NEW pc \in {"cooldown", "sameDir", "opposite", "create"},
           run.pc \in {"dedupe", "cooldown", "sameDir", "opposite", "create"},
           GoTo(pc),
           pc \in {"opposite", "create"} => OpenSameDir(run.sig) = {},
           pc = "create" => \A r \in OpenOpposite(run.sig) :
                               Confidence[r] < Confidence[run.sig]
    PROVE  AdmissionInv'
<1>1. run' = [run EXCEPT !.pc = pc] /\ UNCHANGED <<rows, history, recent>>
  BY DEF GoTo
<1>2. /\ run \in [pc : {"dedupe", "cooldown", "sameDir", "opposite", "create"},
                  sig : Signals]
      /\ run.sig \in Signals
  BY HasCandidate DEF AdmissionInv
<1>3. run'.pc = pc /\ run'.sig = run.sig /\ run' \in RunType
  BY <1>1, <1>2 DEF RunType
<1>4. UNCHANGED status
  BY <1>1 DEF rows
<1>5. GatePassed'
  BY <1>3, <1>4 DEF GatePassed, At, OpenSameDir, OpenOpposite, OpenSignals, SameDirection
<1>6. recent' \subseteq Signals
  BY <1>1 DEF AdmissionInv, TypeOK
<1>. QED BY <1>1, <1>3, <1>5, <1>6, RunMoves

LEMMA CreateInv ==
    ASSUME AdmissionInv, Create PROVE AdmissionInv'
<1>. DEFINE s == run.sig
<1>1. /\ status[s] = "NONE"
      /\ status' = [status EXCEPT ![s] = "CONFIRMED"]
      /\ UNCHANGED managedStop
      /\ history' = Append(history, s)
      /\ recent' = recent \union {s}
      /\ run' = IdleRun
  BY DEF Create, Tracker!Publish, Tracker!Move
<1>2. s \in Signals
  BY HasCandidate DEF AdmissionInv, Create, At
<1>3. /\ OpenSameDir(s) = {}
      /\ \A r \in OpenOpposite(s) : Confidence[r] < Confidence[s]
  BY DEF AdmissionInv, GatePassed, Create, At
<1>. HIDE DEF s
<1>4. history \in Seq(Signals) /\ status \in [Signals -> Statuses]
  BY DEF AdmissionInv, TypeOK
<1>5. /\ DOMAIN history = 1 .. Len(history) /\ Len(history) \in Nat
      /\ DOMAIN history' = 1 .. Len(history) + 1
      /\ \A i \in 1 .. Len(history) : history'[i] = history[i]
      /\ history'[Len(history) + 1] = s
  BY <1>1, <1>2, <1>4
<1>6. "CONFIRMED" \in Statuses /\ "CONFIRMED" # "NONE" /\ "CONFIRMED" \in OPEN
  BY DEF Statuses, TRACKED, PRE_ENTRY, OPEN
<1>7. TypeOK'
  <2>1. status' \in [Signals -> Statuses]
    BY <1>1, <1>2, <1>4, <1>6
  <2>2. history' \in Seq(Signals)
    BY <1>1, <1>2, <1>4
  <2>. QED BY <1>1, <1>2, <2>1, <2>2 DEF AdmissionInv, TypeOK
<1>8. /\ \A r \in Signals : r # s => status'[r] = status[r]
      /\ status'[s] = "CONFIRMED"
  BY <1>1, <1>2, <1>4
<1>9. s \notin Created /\ Created' = Created \union {s}
  <2>1. s \notin Created
    BY <1>1, <1>2 DEF AdmissionInv, HistoryOnce
  <2>2. Created' = Created \union {s}
    BY <1>5 DEF Created
  <2>. QED BY <2>1, <2>2
<1>10. HistoryOnce'
  <2>1. \A r \in Signals : status'[r] # "NONE" <=> r \in Created'
    BY <1>6, <1>8, <1>9 DEF AdmissionInv, HistoryOnce
  <2>2. \A i \in 1 .. Len(history) : history[i] # s
    BY <1>5, <1>9 DEF Created
  <2>3. \A i, j \in DOMAIN history' : history'[i] = history'[j] => i = j
    BY <1>5, <2>2 DEF AdmissionInv, HistoryOnce
  <2>. QED BY <2>1, <2>3 DEF HistoryOnce
<1>11. OpenSignals' = OpenSignals \union {s} /\ s \notin OpenSignals
  BY <1>1, <1>2, <1>6, <1>8, OpenIsStatus DEF OpenSignals
<1>12. \A r \in OpenSignals : ~SameDirection(r, s) /\ ~SameDirection(s, r)
  BY <1>3 DEF OpenSameDir, SameDirection
<1>13. OneOpenPerDirection'
  <2>1. ASSUME NEW a \in OpenSignals', NEW b \in OpenSignals', SameDirection(a, b)
        PROVE  a = b
    BY <1>11, <1>12, <2>1 DEF AdmissionInv, OneOpenPerDirection
  <2>. QED BY <2>1 DEF OneOpenPerDirection, SameDirection
<1>14. \A r \in OpenSignals : Confidence[r] < Confidence[s]
  BY <1>3, <1>12 DEF OpenOpposite
<1>15. LaterIsStronger'
  <2>1. ASSUME NEW i \in DOMAIN history', NEW j \in DOMAIN history', i < j,
               {history'[i], history'[j]} \subseteq OpenSignals'
        PROVE  Confidence[history'[i]] < Confidence[history'[j]]
    <3>1. i \in 1 .. Len(history) /\ history'[i] = history[i]
      BY <1>5, <2>1
    <3>2. history[i] # s /\ history[i] \in OpenSignals
      BY <1>5, <1>9, <1>11, <2>1, <3>1 DEF Created
    <3>3. CASE j = Len(history) + 1
      BY <1>5, <1>14, <3>1, <3>2, <3>3
    <3>4. CASE j \in 1 .. Len(history)
      <4>1. history'[j] = history[j] /\ history[j] \in OpenSignals
        BY <1>5, <1>9, <1>11, <2>1, <3>4 DEF Created
      <4>. QED BY <1>5, <2>1, <3>1, <3>2, <3>4, <4>1 DEF AdmissionInv, LaterIsStronger
    <3>. QED BY <1>5, <3>3, <3>4
  <2>. QED BY <2>1 DEF LaterIsStronger
<1>16. GatePassed'
  BY <1>1 DEF GatePassed, At, IdleRun
<1>. QED BY <1>7, <1>10, <1>13, <1>15, <1>16 DEF AdmissionInv

LEMMA AnalyzeInv ==
    ASSUME AdmissionInv, Analyze PROVE AdmissionInv'
<1>1. ASSUME NEW s \in Signals, Start(s) PROVE AdmissionInv'
  <2>1. run' = [pc |-> "dedupe", sig |-> s] /\ UNCHANGED <<rows, history, recent>>
    BY <1>1 DEF Start
  <2>2. run' \in RunType /\ run'.pc = "dedupe"
    BY <2>1 DEF RunType
  <2>3. GatePassed'
    BY <2>2 DEF GatePassed, At
  <2>4. recent' \subseteq Signals
    BY <2>1 DEF AdmissionInv, TypeOK
  <2>. QED BY <2>1, <2>2, <2>3, <2>4, RunMoves
<1>2. ASSUME Duplicate \/ Throttle \/ SameDirOpen \/ OppositeStronger \/ Abort
      PROVE  AdmissionInv'
  <2>1. GiveUp
    BY <1>2 DEF Duplicate, Throttle, SameDirOpen, OppositeStronger, Abort
  <2>. QED BY <2>1, GivesUp
<1>3. ASSUME NotDuplicate PROVE AdmissionInv'
  <2>1. run.pc = "dedupe" /\ GoTo("cooldown")
    BY <1>3 DEF NotDuplicate, At
  <2>. QED BY <2>1, GoesTo
<1>4. ASSUME NotThrottled PROVE AdmissionInv'
  <2>1. run.pc = "cooldown" /\ GoTo("sameDir")
    BY <1>4 DEF NotThrottled, At
  <2>. QED BY <2>1, GoesTo
<1>5. ASSUME NoSameDirOpen PROVE AdmissionInv'
  <2>1. run.pc = "sameDir" /\ OpenSameDir(run.sig) = {} /\ GoTo("opposite")
    BY <1>5 DEF NoSameDirOpen, At
  <2>. QED BY <2>1, GoesTo
<1>6. ASSUME OppositeWeaker PROVE AdmissionInv'
  <2>1. /\ run.pc = "opposite" /\ GoTo("create")
        /\ OpenOpposite(run.sig) # {} =>
              ~NotConvincing(run.sig, Latest(OpenOpposite(run.sig)))
    BY <1>6 DEF OppositeWeaker, At
  <2>2. run.sig \in Signals
    BY <2>1, HasCandidate DEF AdmissionInv
  <2>3. OpenSameDir(run.sig) = {}
    BY <2>1 DEF AdmissionInv, GatePassed
  <2>4. ASSUME NEW r \in OpenOpposite(run.sig)
        PROVE  Confidence[r] < Confidence[run.sig]
    <3>1. ~NotConvincing(run.sig, r)
      BY <2>1, <2>2, TheOpposite
    <3>2. r \in Signals
      BY DEF OpenOpposite, OpenSignals
    <3>3. Confidence[r] \in Int /\ Confidence[run.sig] \in Int
      BY <2>2, <3>2, ConfidenceAssumption
    <3>. QED BY <3>1, <3>3 DEF NotConvincing
  <2>. QED BY <2>1, <2>3, <2>4, GoesTo
<1>. QED BY <1>1, <1>2, <1>3, <1>4, <1>5, <1>6, CreateInv DEF Analyze

LEMMA NextInv == AdmissionInv /\ [Next]_vars => AdmissionInv'
<1>. SUFFICES ASSUME AdmissionInv, [Next]_vars PROVE AdmissionInv'
  OBVIOUS
<1>1. CASE Analyze
  BY <1>1, AnalyzeInv
<1>2. ASSUME NEW s \in Signals, CoolDown(s) PROVE AdmissionInv'
  <2>1. recent' = recent \ {s} /\ UNCHANGED <<rows, history, run>>
    BY <1>2 DEF CoolDown
  <2>2. recent' \subseteq Signals /\ run' \in RunType
    BY <2>1 DEF AdmissionInv, TypeOK, RunType
  <2>3. GatePassed'
    BY <2>1 DEF AdmissionInv, GatePassed, At, OpenSameDir, OpenOpposite,
                OpenSignals, SameDirection, rows
  <2>. QED BY <2>1, <2>2, <2>3, RunMoves
<1>3. ASSUME NEW s \in Signals, Track(s) PROVE AdmissionInv'
  <2>1. UNCHANGED <<history, recent, run>>
    BY <1>3 DEF Track
  <2>2. /\ status' \in [Signals -> Statuses]
        /\ managedStop' \in [Signals -> BOOLEAN]
        /\ OpenSignals' \subseteq OpenSignals
        /\ \A r \in Signals : status'[r] = "NONE" <=> status[r] = "NONE"
    BY <1>3, TrackFacts DEF AdmissionInv
  <2>3. TypeOK'
    BY <2>1, <2>2 DEF AdmissionInv, TypeOK
  <2>4. HistoryOnce' /\ OneOpenPerDirection' /\ LaterIsStronger'
    BY <2>1, <2>2, NothingOpened
  <2>5. GatePassed'
    <3>1. CASE run.pc \in {"opposite", "create"}
      <4>1. run.sig \in Signals
        BY <3>1, HasCandidate DEF AdmissionInv
      <4>2. /\ OpenSameDir(run.sig)' \subseteq OpenSameDir(run.sig)
            /\ OpenOpposite(run.sig)' \subseteq OpenOpposite(run.sig)
        BY <2>1, <2>2 DEF OpenSameDir, OpenOpposite, SameDirection
      <4>. QED BY <2>1, <4>2 DEF AdmissionInv, GatePassed, At
    <3>2. CASE run.pc \notin {"opposite", "create"}
      BY <2>1, <3>2 DEF GatePassed, At
    <3>. QED BY <3>1, <3>2
  <2>. QED BY <2>3, <2>4, <2>5 DEF AdmissionInv
<1>4. CASE UNCHANGED vars
  <2>1. UNCHANGED <<rows, history, recent, run>>
    BY <1>4 DEF vars, rows
  <2>2. recent' \subseteq Signals /\ run' \in RunType
    BY <2>1 DEF AdmissionInv, TypeOK, RunType
  <2>3. GatePassed'
    BY <2>1 DEF AdmissionInv, GatePassed, At, OpenSameDir, OpenOpposite,
                OpenSignals, SameDirection, rows
  <2>. QED BY <2>1, <2>2, <2>3, RunMoves
<1>. QED BY <1>1, <1>2, <1>3, <1>4 DEF Next

LEMMA AlwaysInv == Spec => []AdmissionInv
<1>. QED BY InitInv, NextInv, PTL DEF Spec

\* The rows, the history and the analysis job keep their types.
THEOREM AdmissionTypeCorrect == Spec => []TypeOK
<1>1. AdmissionInv => TypeOK
  BY DEF AdmissionInv
<1>. QED BY AlwaysInv, <1>1, PTL

\* No two open signals have one direction, although check and create are
\* separate database calls (analyzer.ts 238-252).
THEOREM OneOpenCorrect == Spec => []OneOpenPerDirection
<1>1. AdmissionInv => OneOpenPerDirection
  BY DEF AdmissionInv
<1>. QED BY AlwaysInv, <1>1, PTL

\* Of two signals open in opposite directions the later one is the more
\* confident (analyzer.ts 254-269).
THEOREM StrongerCorrect == Spec => []LaterIsStronger
<1>1. AdmissionInv => LaterIsStronger
  BY DEF AdmissionInv
<1>. QED BY AlwaysInv, <1>1, PTL

-----------------------------------------------------------------------------
(* The cooldown *)

Settled == {"STOPPED", "COMPLETED", "INVALIDATED", "EXPIRED"}

LEMMA SettledStays ==
    ASSUME TypeOK, NEW s \in Signals, Track(s), NEW r \in Signals, status[r] \in Settled
    PROVE  status'[r] \in Settled
<1>1. ASSUME NEW from, NEW to, from \notin Settled, status[s] = from,
             status' = [status EXCEPT ![s] = to]
      PROVE  status'[r] \in Settled
  BY <1>1 DEF TypeOK
<1>2. CASE Tracker!Enter(s) \/ Tracker!Drop(s) \/ Tracker!Lose(s)
  BY <1>1, <1>2 DEF Tracker!Enter, Tracker!Drop, Tracker!Lose, Tracker!Move,
                    Tracker!PRE_ENTRY, Settled
<1>3. CASE Tracker!TakeProfit(s)
  BY <1>1, <1>3 DEF Tracker!TakeProfit, Tracker!Move, Tracker!RungBelow, Tracker!Rung, Settled
<1>4. CASE Tracker!StopOut(s)
  BY <1>1, <1>4 DEF Tracker!StopOut, Tracker!Move, Tracker!TP_HIT, Settled
<1>5. CASE Tracker!Protect(s)
  BY <1>5 DEF Tracker!Protect
<1>. QED BY <1>2, <1>3, <1>4, <1>5 DEF Track

\* A run that is not throttled does not become so by waiting.
LEMMA NotThrottledStays ==
    ASSUME NEW s, history' = history, recent' \subseteq recent, recent \subseteq Signals,
           \A r \in Signals : status[r] \in Settled => status'[r] \in Settled,
           Throttled(s)'
    PROVE  Throttled(s)
<1>1. /\ CreatedSameDir(s)' = CreatedSameDir(s)
      /\ Latest(CreatedSameDir(s))' = Latest(CreatedSameDir(s))
  BY DEF CreatedSameDir, Created, SameDirection, Latest
<1>2. /\ CreatedSameDir(s) # {} /\ Latest(CreatedSameDir(s)) \in recent'
      /\ status'[Latest(CreatedSameDir(s))] \notin Settled /\ ~HighConfidence(s)
  BY <1>1 DEF Throttled, NoCooldownAfter, Settled, HighConfidence
<1>3. status[Latest(CreatedSameDir(s))] \notin Settled
  BY <1>2
<1>. QED BY <1>2, <1>3 DEF Throttled, NoCooldownAfter, Settled

LEMMA CooldownStep ==
    ASSUME TypeOK, CooldownPassed, [Next]_vars
    PROVE  CooldownPassed'
<1>. DEFINE Late == {"sameDir", "opposite", "create"}
<1>1. ASSUME run' = IdleRun PROVE CooldownPassed'
  BY <1>1 DEF IdleRun, CooldownPassed
<1>2. ASSUME run'.pc \in Late => run.pc \in Late /\ run'.sig = run.sig,
             history' = history, recent' \subseteq recent,
             \A r \in Signals : status[r] \in Settled => status'[r] \in Settled
      PROVE  CooldownPassed'
  <2>1. SUFFICES ASSUME run'.pc \in Late, Throttled(run.sig)' PROVE FALSE
    BY DEF CooldownPassed
  <2>2. Throttled(run'.sig) <=> Throttled(run.sig)
    BY <1>2, <2>1
  <2>. QED BY <1>2, <2>1, <2>2, NotThrottledStays DEF CooldownPassed, TypeOK
<1>3. CASE UNCHANGED vars
  BY <1>2, <1>3 DEF vars, rows
<1>4. ASSUME NEW s \in Signals, CoolDown(s) PROVE CooldownPassed'
  BY <1>2, <1>4 DEF CoolDown, rows
<1>5. ASSUME NEW s \in Signals, Track(s) PROVE CooldownPassed'
  <2>1. UNCHANGED <<history, recent, run>>
    BY <1>5 DEF Track
  <2>. QED BY <1>2, <1>5, <2>1, SettledStays
<1>6. ASSUME NEW s \in Signals, Start(s) PROVE CooldownPassed'
  BY <1>2, <1>6 DEF Start, rows
<1>7. CASE Duplicate \/ Throttle \/ SameDirOpen \/ OppositeStronger \/ Create \/ Abort
  BY <1>1, <1>7 DEF Duplicate, Throttle, SameDirOpen, OppositeStronger, Create, Abort, GiveUp
<1>8. ASSUME NEW pc \in {"cooldown", "sameDir", "opposite", "create"}, GoTo(pc),
             run.pc \in {"dedupe", "cooldown", "sameDir", "opposite", "create"}
      PROVE  /\ run'.pc = pc /\ run'.sig = run.sig
             /\ history' = history /\ recent' = recent /\ status' = status
  BY <1>8, HasCandidate DEF GoTo, rows
<1>9. CASE NotDuplicate \/ NoSameDirOpen \/ OppositeWeaker
  BY <1>2, <1>8, <1>9 DEF NotDuplicate, NoSameDirOpen, OppositeWeaker, At
<1>10. CASE NotThrottled
  <2>1. ~Throttled(run.sig) /\ GoTo("sameDir") /\ run.pc = "cooldown"
    BY <1>10 DEF NotThrottled, At
  <2>2. /\ run'.sig = run.sig /\ history' = history /\ recent' = recent
        /\ status' = status
    BY <1>8, <2>1
  <2>. QED BY <2>1, <2>2, NotThrottledStays DEF CooldownPassed, TypeOK
<1>. QED BY <1>3, <1>4, <1>5, <1>6, <1>7, <1>9, <1>10 DEF Next, Analyze

\* However the awaits of the gate and the tracker's passes interleave, none of
\* the gate's answers is out of date when the signal is created (analyzer.ts
\* 196-269).
THEOREM ChecksCorrect == Spec => []ChecksStillHold
<1>1. Init => AdmissionInv /\ CooldownPassed
  BY InitInv DEF Init, IdleRun, CooldownPassed
<1>2. AdmissionInv /\ CooldownPassed /\ [Next]_vars => (AdmissionInv /\ CooldownPassed)'
  BY NextInv, CooldownStep DEF AdmissionInv
<1>3. AdmissionInv /\ CooldownPassed => ChecksStillHold
  BY DEF AdmissionInv, GatePassed, CooldownPassed, ChecksStillHold, At
<1>. QED BY <1>1, <1>2, <1>3, PTL DEF Spec
=============================================================================
