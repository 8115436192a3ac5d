----------------------- MODULE CandleIngestionProofs -----------------------
(***************************************************************************)
(* ToldIsStored, StreamedOnce and ImmutableUnlessLate of CandleIngestion,  *)
(* for any number of candles, of overlapping handlers, of timeouts and of  *)
(* API restarts.                                                           *)
(***************************************************************************)
EXTENDS CandleIngestion, TLAPS

ReadingType == [pc : {"read"}, req : Payload]
FoundType   == [pc : {"write", "announce"}, req : Payload,
                found : RowType \union {NoRow}]

\* The locals a handler has at each place.
LEMMA HandlerAt ==
    ASSUME TypeOK, NEW h \in Handlers
    PROVE  /\ handler[h].pc = "read" => handler[h] \in ReadingType
           /\ handler[h].pc \in {"write", "announce"} =>
                 /\ handler[h] \in FoundType
                 /\ Req(h) \in Payload
                 /\ Found(h) \in RowType \union {NoRow}
<1>1. handler[h] \in HandlerType
  BY DEF TypeOK
<1>2. Idle.pc = "idle"
  BY DEF Idle
<1>3. \A x \in ReadingType : x.pc = "read"
  BY DEF ReadingType
<1>4. \A x \in FoundType : /\ x.pc \in {"write", "announce"}
                           /\ x.req \in Payload
                           /\ x.found \in RowType \union {NoRow}
  BY DEF FoundType
<1>5. handler[h] \in {Idle} \union ReadingType \union FoundType
  BY <1>1 DEF HandlerType, ReadingType, FoundType
<1>. QED BY <1>2, <1>3, <1>4, <1>5 DEF Req, Found

LEMMA InitInv == Init => CandleInv
<1>. SUFFICES ASSUME Init PROVE CandleInv
  OBVIOUS
<1>1. Idle.pc = "idle"
  BY DEF Idle
<1>2. TypeOK
  BY BoundsAssumption DEF Init, TypeOK, HandlerType
<1>3. RowsKept /\ OneAnnouncer
  BY <1>1 DEF Init, RowsKept, OneAnnouncer, IsClosed, Writing, Announcing
<1>4. ToldIsStored /\ StreamedOnce
  BY DEF Init, ToldIsStored, StreamedOnce
<1>. QED BY <1>2, <1>3, <1>4 DEF CandleInv

-----------------------------------------------------------------------------
(* Steps that touch no table *)

\* What stays true while handlers come and go: a handler that is at "write" or
\* at "announce" now was there, with the same locals, before.
LEMMA HandlersLeave ==
    ASSUME CandleInv, UNCHANGED <<tables, stream>>,
           \A h \in Handlers : handler'[h].pc \in {"write", "announce"}
                                  => handler'[h] = handler[h]
    PROVE  RowsKept' /\ OneAnnouncer' /\ StreamedOnce'
<1>1. UNCHANGED <<row, revisions, onceClosed, stream>>
  BY DEF tables
<1>2. \A h \in Handlers : handler'[h].pc = "write" =>
         Writing(h) /\ Found(h)' = Found(h) /\ Req(h)' = Req(h)
  BY DEF Writing, Found, Req
<1>3. \A h \in Handlers : handler'[h].pc = "announce" =>
         Announcing(h) /\ Req(h)' = Req(h)
  BY DEF Announcing, Req
<1>4. RowsKept'
  BY <1>1, <1>2 DEF CandleInv, RowsKept, IsClosed, Writing
<1>5. OneAnnouncer'
  <2>. SUFFICES ASSUME NEW h \in Handlers, Announcing(h)'
                PROVE  /\ row'[Req(h)'.candle] # NoRow
                       /\ Req(h)'.closed => Req(h)'.candle \in onceClosed'
                       /\ stream'[Req(h)'.candle] = 0
                       /\ \A g \in Handlers :
                             Announcing(g)' /\ Req(g)'.candle = Req(h)'.candle
                                => g = h
    BY DEF OneAnnouncer
  <2>1. Announcing(h) /\ Req(h)' = Req(h)
    BY <1>3 DEF Announcing
  <2>2. \A g \in Handlers : Announcing(g)' => Announcing(g) /\ Req(g)' = Req(g)
    BY <1>3 DEF Announcing
  <2>. QED BY <1>1, <2>1, <2>2 DEF CandleInv, OneAnnouncer
<1>6. StreamedOnce'
  BY <1>1 DEF CandleInv, StreamedOnce
<1>. QED BY <1>4, <1>5, <1>6

LEMMA Sends ==
    ASSUME CandleInv, NEW h \in Handlers, NEW payload \in Payload,
           Send(h, payload), UNCHANGED phase,
           snapshots' \in [Candles -> 0 .. MaxSnapshots]
    PROVE  CandleInv'
<1>1. /\ handler' = [handler EXCEPT ![h] = [pc |-> "read", req |-> payload]]
      /\ waiting' = h
      /\ UNCHANGED <<faults, tables, stream>>
  BY DEF Send
<1>2. [pc |-> "read", req |-> payload] \in HandlerType
  BY DEF HandlerType
<1>3. TypeOK'
  BY <1>1, <1>2 DEF CandleInv, TypeOK, tables
<1>4. \A g \in Handlers : handler'[g].pc \in {"write", "announce"}
                             => handler'[g] = handler[g]
  BY <1>1 DEF CandleInv, TypeOK
<1>5. RowsKept' /\ OneAnnouncer' /\ StreamedOnce'
  BY <1>1, <1>4, HandlersLeave
<1>6. ToldIsStored'
  BY <1>1 DEF CandleInv, ToldIsStored, tables
<1>. QED BY <1>3, <1>5, <1>6 DEF CandleInv

LEMMA TerminalSteps ==
    ASSUME CandleInv, NEW c \in Candles,
           \/ CloseBar(c)
           \/ \E h \in Handlers : SendCurrent(h, c) \/ SendClosed(h, c)
           \/ \E h \in Handlers, r \in 1 .. MaxRevision : SendCorrection(h, c, r)
    PROVE  CandleInv'
<1>1. CASE CloseBar(c)
  <2>1. /\ phase' = [phase EXCEPT ![c] = "closed"]
        /\ UNCHANGED <<snapshots, waiting, faults, tables, stream, handler>>
    BY <1>1 DEF CloseBar
  <2>2. TypeOK'
    BY <2>1 DEF CandleInv, TypeOK, tables
  <2>3. RowsKept' /\ OneAnnouncer' /\ StreamedOnce'
    BY <2>1, HandlersLeave
  <2>4. ToldIsStored'
    BY <2>1 DEF CandleInv, TypeOK, ToldIsStored, tables
  <2>. QED BY <2>2, <2>3, <2>4 DEF CandleInv
<1>2. ASSUME NEW h \in Handlers, SendCurrent(h, c) PROVE CandleInv'
  <2>. DEFINE p == [candle |-> c, closed |-> FALSE, revision |-> 0,
                    ohlc |-> snapshots[c] + 1]
  <2>1. snapshots[c] \in 0 .. MaxSnapshots /\ snapshots[c] < MaxSnapshots
    BY <1>2 DEF SendCurrent, CandleInv, TypeOK
  <2>2. p \in Payload
    BY <2>1, BoundsAssumption DEF Payload, Final
  <2>3. snapshots' \in [Candles -> 0 .. MaxSnapshots]
    BY <1>2, <2>1, BoundsAssumption DEF SendCurrent, CandleInv, TypeOK
  <2>4. Send(h, p) /\ UNCHANGED phase
    BY <1>2 DEF SendCurrent
  <2>. QED BY <2>2, <2>3, <2>4, Sends
<1>3. ASSUME NEW h \in Handlers, SendClosed(h, c) PROVE CandleInv'
  <2>. DEFINE p == [candle |-> c, closed |-> TRUE, revision |-> 0, ohlc |-> Final]
  <2>1. p \in Payload
    BY BoundsAssumption DEF Payload, Final
  <2>2. Send(h, p) /\ UNCHANGED phase /\ snapshots' = snapshots
    BY <1>3 DEF SendClosed, terminal
  <2>. QED BY <2>1, <2>2, Sends DEF CandleInv, TypeOK
<1>4. ASSUME NEW h \in Handlers, NEW r \in 1 .. MaxRevision,
             SendCorrection(h, c, r)
      PROVE  CandleInv'
  <2>. DEFINE p == [candle |-> c, closed |-> TRUE, revision |-> r,
                    ohlc |-> Final + r]
  <2>1. p \in Payload
    BY BoundsAssumption DEF Payload, Final
  <2>2. Send(h, p) /\ UNCHANGED phase /\ snapshots' = snapshots
    BY <1>4 DEF SendCorrection, terminal
  <2>. QED BY <2>1, <2>2, Sends DEF CandleInv, TypeOK
<1>. QED BY <1>1, <1>2, <1>3, <1>4

LEMMA FaultSteps == CandleInv /\ (Timeout \/ ApiRestart) => CandleInv'
<1>. SUFFICES ASSUME CandleInv, Timeout \/ ApiRestart PROVE CandleInv'
  OBVIOUS
<1>1. /\ waiting' = NoOne
      /\ faults < MaxFaults /\ faults' = faults + 1
      /\ UNCHANGED <<phase, snapshots, tables, stream>>
      /\ handler' = handler \/ handler' = [h \in Handlers |-> Idle]
  BY DEF Timeout, ApiRestart, terminal
<1>2. TypeOK'
  BY <1>1, BoundsAssumption DEF CandleInv, TypeOK, tables, HandlerType
<1>3. \A h \in Handlers : handler'[h].pc \in {"write", "announce"}
                             => handler'[h] = handler[h]
  BY <1>1 DEF Idle
<1>4. RowsKept' /\ OneAnnouncer' /\ StreamedOnce'
  BY <1>1, <1>3, HandlersLeave
<1>5. ToldIsStored'
  BY <1>1 DEF CandleInv, ToldIsStored, tables
<1>. QED BY <1>2, <1>4, <1>5 DEF CandleInv
-----------------------------------------------------------------------------
(* Steps of a handler *)

LEMMA ReadStep == ASSUME CandleInv, NEW h \in Handlers, Read(h) PROVE CandleInv'
<1>. DEFINE new == [pc |-> "write", req |-> Req(h), found |-> row[Req(h).candle]]
<1>1. /\ handler[h].pc = "read"
      /\ handler' = [handler EXCEPT ![h] = new]
      /\ UNCHANGED <<phase, snapshots, waiting, faults, tables, stream>>
  BY DEF Read, Req, terminal
<1>2. UNCHANGED <<row, revisions, onceClosed>>
  BY <1>1 DEF tables
<1>3. Req(h) \in Payload
  BY <1>1, HandlerAt DEF CandleInv, ReadingType, Req
<1>4. row[Req(h).candle] \in RowType \union {NoRow}
  BY <1>3 DEF CandleInv, TypeOK, Payload
<1>5. new \in HandlerType
  BY <1>3, <1>4 DEF HandlerType
<1>6. /\ handler' \in [Handlers -> HandlerType]
      /\ handler'[h] = new
      /\ \A g \in Handlers \ {h} : handler'[g] = handler[g]
  BY <1>1, <1>5 DEF CandleInv, TypeOK
<1>. HIDE DEF new
<1>7. TypeOK'
  BY <1>1, <1>2, <1>6 DEF CandleInv, TypeOK
<1>8. RowsKept'
  <2>1. ASSUME NEW g \in Handlers \ {h}, Writing(g)', Found(g)' # NoRow
        PROVE  /\ row'[Req(g)'.candle] # NoRow
               /\ Found(g)'.closed => Req(g)'.candle \in onceClosed'
    BY <1>2, <1>6, <2>1 DEF CandleInv, RowsKept, Writing, Found, Req
  <2>2. /\ Req(h)' = Req(h)
        /\ Found(h)' = row[Req(h).candle]
    BY <1>6 DEF Req, Found, new
  <2>3. Req(h).candle \in Candles
    BY <1>3 DEF Payload
  <2>4. ASSUME Found(h)' # NoRow
        PROVE  /\ row'[Req(h)'.candle] # NoRow
               /\ Found(h)'.closed => Req(h)'.candle \in onceClosed'
    BY <1>2, <2>2, <2>3, <2>4 DEF CandleInv, RowsKept, IsClosed
  <2>. QED BY <1>1, <1>2, <2>1, <2>4 DEF CandleInv, RowsKept, IsClosed
<1>9. OneAnnouncer'
  <2>1. ~Announcing(h)'
    BY <1>6 DEF Announcing, new
  <2>2. \A g \in Handlers : Announcing(g)' => Announcing(g) /\ Req(g)' = Req(g)
    BY <1>6, <2>1 DEF Announcing, Req
  <2>. SUFFICES ASSUME NEW g \in Handlers, Announcing(g)'
                PROVE  /\ row'[Req(g)'.candle] # NoRow
                       /\ Req(g)'.closed => Req(g)'.candle \in onceClosed'
                       /\ stream'[Req(g)'.candle] = 0
                       /\ \A f \in Handlers :
                             Announcing(f)' /\ Req(f)'.candle = Req(g)'.candle
                                => f = g
    BY DEF OneAnnouncer
  <2>. QED BY <1>1, <1>2, <2>2 DEF CandleInv, OneAnnouncer
<1>10. ToldIsStored' /\ StreamedOnce'
  BY <1>1, <1>2 DEF CandleInv, ToldIsStored, StreamedOnce
<1>. QED BY <1>7, <1>8, <1>9, <1>10 DEF CandleInv

\* The answer ends the handler; a 200 for a closed candle needs a row that has
\* been closed, before or by this step.
LEMMA Answers ==
    ASSUME CandleInv, NEW h \in Handlers, NEW ok \in BOOLEAN, Answer(h, ok),
           Req(h) \in Payload,
           onceClosed \subseteq onceClosed',
           ok /\ Req(h).closed => Req(h).candle \in onceClosed'
    PROVE  /\ handler' = [handler EXCEPT ![h] = Idle]
           /\ handler' \in [Handlers -> HandlerType]
           /\ waiting' \in Handlers \union {NoOne}
           /\ phase' \in [Candles -> {"forming", "closed", "told"}]
           /\ UNCHANGED <<snapshots, faults>>
           /\ ToldIsStored'
<1>1. handler' = [handler EXCEPT ![h] = Idle] /\ UNCHANGED <<snapshots, faults>>
  BY DEF Answer
<1>2. handler' \in [Handlers -> HandlerType]
  BY <1>1 DEF CandleInv, TypeOK, HandlerType
<1>3. waiting' \in Handlers \union {NoOne}
  BY DEF Answer, CandleInv, TypeOK
<1>4. \/ phase' = phase
      \/ ok /\ Req(h).closed /\ phase' = [phase EXCEPT ![Req(h).candle] = "told"]
  BY DEF Answer
<1>5. Req(h).candle \in Candles
  BY DEF Payload
<1>6. phase' \in [Candles -> {"forming", "closed", "told"}]
  BY <1>4, <1>5 DEF CandleInv, TypeOK
<1>7. ToldIsStored'
  BY <1>4, <1>5 DEF CandleInv, TypeOK, ToldIsStored
<1>. QED BY <1>1, <1>2, <1>3, <1>6, <1>7

LEMMA OnlyAnswers ==
    ASSUME CandleInv, NEW h \in Handlers, NEW ok \in BOOLEAN, Writing(h),
           Answer(h, ok), UNCHANGED <<tables, stream>>,
           ok /\ Req(h).closed => Req(h).candle \in onceClosed
    PROVE  CandleInv'
<1>1. UNCHANGED <<row, revisions, onceClosed>>
  BY DEF tables
<1>2. Req(h) \in Payload
  BY HandlerAt DEF CandleInv, Writing
<1>3. /\ handler' = [handler EXCEPT ![h] = Idle]
      /\ handler' \in [Handlers -> HandlerType]
      /\ waiting' \in Handlers \union {NoOne}
      /\ phase' \in [Candles -> {"forming", "closed", "told"}]
      /\ UNCHANGED <<snapshots, faults>>
      /\ ToldIsStored'
  BY <1>1, <1>2, Answers
<1>4. TypeOK'
  BY <1>1, <1>3 DEF CandleInv, TypeOK
<1>5. Idle.pc = "idle"
  BY DEF Idle
<1>6. \A g \in Handlers : handler'[g].pc \in {"write", "announce"}
                             => handler'[g] = handler[g]
  BY <1>3, <1>5 DEF CandleInv, TypeOK
<1>7. RowsKept' /\ OneAnnouncer' /\ StreamedOnce'
  BY <1>6, HandlersLeave
<1>. QED BY <1>3, <1>4, <1>7 DEF CandleInv
\* Update and Revise: a new value for a row that is there.
LEMMA Overwrites ==
    ASSUME CandleInv, NEW h \in Handlers, Writing(h), Found(h) # NoRow,
           NEW new \in RowType,
           row' = [row EXCEPT ![Req(h).candle] = new],
           onceClosed' = IF new.closed THEN onceClosed \union {Req(h).candle}
                                       ELSE onceClosed,
           Req(h).closed => Req(h).candle \in onceClosed',
           revisions' \subseteq [candle : Candles, revision : 1 .. MaxRevision,
                                 old : 1 .. Final + MaxRevision,
                                 new : 1 .. Final + MaxRevision],
           UNCHANGED stream, Answer(h, TRUE)
    PROVE  CandleInv'
<1>1. Req(h) \in Payload
  BY HandlerAt DEF CandleInv, Writing
<1>2. Req(h).candle \in Candles
  BY <1>1 DEF Payload
<1>3. onceClosed \subseteq onceClosed' /\ onceClosed' \subseteq Candles
  BY <1>2 DEF CandleInv, TypeOK
<1>4. /\ handler' = [handler EXCEPT ![h] = Idle]
      /\ handler' \in [Handlers -> HandlerType]
      /\ waiting' \in Handlers \union {NoOne}
      /\ phase' \in [Candles -> {"forming", "closed", "told"}]
      /\ UNCHANGED <<snapshots, faults>>
      /\ ToldIsStored'
  BY <1>1, <1>3, Answers
<1>5. row' \in [Candles -> RowType \union {NoRow}]
  BY <1>2 DEF CandleInv, TypeOK
<1>6. TypeOK'
  BY <1>3, <1>4, <1>5 DEF CandleInv, TypeOK
<1>7. /\ row'[Req(h).candle] = new /\ new # NoRow
      /\ \A c \in Candles : c # Req(h).candle => row'[c] = row[c]
  BY <1>2, NoRowAssumption DEF CandleInv, TypeOK
<1>8. \A c \in Candles : row[c] # NoRow => row'[c] # NoRow
  BY <1>7
<1>9. \A c \in Candles : IsClosed(c)' => c \in onceClosed'
  BY <1>3, <1>7 DEF CandleInv, RowsKept, IsClosed
<1>10. \A g \in Handlers : handler'[g].pc \in {"write", "announce"} =>
          /\ handler'[g] = handler[g]
          /\ Req(g) \in Payload
  BY <1>4, HandlerAt DEF CandleInv, TypeOK, Idle
<1>11. RowsKept'
  <2>1. \A g \in Handlers : Writing(g)' /\ Found(g)' # NoRow =>
           /\ row'[Req(g)'.candle] # NoRow
           /\ Found(g)'.closed => Req(g)'.candle \in onceClosed'
    BY <1>3, <1>8, <1>10 DEF CandleInv, RowsKept, Writing, Found, Req, Payload
  <2>. QED BY <1>8, <1>9, <2>1 DEF CandleInv, RowsKept
<1>12. OneAnnouncer'
  <2>. SUFFICES ASSUME NEW g \in Handlers, Announcing(g)'
                PROVE  /\ row'[Req(g)'.candle] # NoRow
                       /\ Req(g)'.closed => Req(g)'.candle \in onceClosed'
                       /\ stream'[Req(g)'.candle] = 0
                       /\ \A f \in Handlers :
                             Announcing(f)' /\ Req(f)'.candle = Req(g)'.candle
                                => f = g
    BY DEF OneAnnouncer
  <2>1. \A f \in Handlers : Announcing(f)' =>
           Announcing(f) /\ Req(f)' = Req(f) /\ Req(f).candle \in Candles
    BY <1>10 DEF Announcing, Req, Payload
  <2>. QED BY <1>3, <1>8, <2>1 DEF CandleInv, OneAnnouncer
<1>13. StreamedOnce'
  BY DEF CandleInv, StreamedOnce
<1>. QED BY <1>4, <1>6, <1>11, <1>12, <1>13 DEF CandleInv

LEMMA UpdateStep == ASSUME CandleInv, NEW h \in Handlers, Update(h) PROVE CandleInv'
<1>. DEFINE new == [closed |-> Req(h).closed,
                    revision |-> row[Req(h).candle].revision,
                    ohlc |-> Req(h).ohlc]
<1>1. /\ Writing(h) /\ Found(h) # NoRow
      /\ row' = [row EXCEPT ![Req(h).candle] = new]
      /\ onceClosed' = IF new.closed THEN onceClosed \union {Req(h).candle}
                                     ELSE onceClosed
      /\ Answer(h, TRUE) /\ UNCHANGED <<revisions, stream>>
  BY DEF Update, Store
<1>2. Req(h) \in Payload
  BY <1>1, HandlerAt DEF CandleInv, Writing
<1>3. row[Req(h).candle] \in RowType
  BY <1>1, <1>2 DEF CandleInv, TypeOK, RowsKept, Payload
<1>4. new \in RowType
  BY <1>2, <1>3, BoundsAssumption DEF RowType, Payload, Final
<1>5. Req(h).closed => Req(h).candle \in onceClosed'
  BY <1>1
<1>. HIDE DEF new
<1>. QED BY <1>1, <1>4, <1>5, Overwrites DEF CandleInv, TypeOK

LEMMA ReviseStep == ASSUME CandleInv, NEW h \in Handlers, Revise(h) PROVE CandleInv'
<1>. DEFINE new == [closed |-> row[Req(h).candle].closed,
                    revision |-> Req(h).revision, ohlc |-> Req(h).ohlc]
            audit == [candle |-> Req(h).candle, revision |-> Req(h).revision,
                      old |-> Found(h).ohlc, new |-> Req(h).ohlc]
<1>1. /\ Writing(h) /\ Found(h) # NoRow /\ Found(h).closed
      /\ Req(h).revision > Found(h).revision
      /\ revisions' = revisions \union {audit}
      /\ row' = [row EXCEPT ![Req(h).candle] = new]
      /\ onceClosed' = IF new.closed THEN onceClosed \union {Req(h).candle}
                                     ELSE onceClosed
      /\ Answer(h, TRUE) /\ UNCHANGED stream
  BY DEF Revise, Store
<1>2. Req(h) \in Payload /\ Found(h) \in RowType
  BY <1>1, HandlerAt DEF CandleInv, Writing
<1>3. row[Req(h).candle] \in RowType
  BY <1>1, <1>2 DEF CandleInv, TypeOK, RowsKept, Payload
<1>4. new \in RowType
  BY <1>2, <1>3, BoundsAssumption DEF RowType, Payload, Final
<1>5. audit \in [candle : Candles, revision : 1 .. MaxRevision,
                 old : 1 .. Final + MaxRevision, new : 1 .. Final + MaxRevision]
  BY <1>1, <1>2, BoundsAssumption DEF RowType, Payload, Final
<1>6. Req(h).candle \in onceClosed'
  BY <1>1 DEF CandleInv, RowsKept
<1>. HIDE DEF new, audit
<1>7. revisions' \subseteq [candle : Candles, revision : 1 .. MaxRevision,
                            old : 1 .. Final + MaxRevision,
                            new : 1 .. Final + MaxRevision]
  BY <1>1, <1>5 DEF CandleInv, TypeOK
<1>. QED BY <1>1, <1>4, <1>6, <1>7, Overwrites
LEMMA CreateStep == ASSUME CandleInv, NEW h \in Handlers, Create(h) PROVE CandleInv'
<1>. DEFINE c == Req(h).candle
            new == [closed |-> Req(h).closed, revision |-> Req(h).revision,
                    ohlc |-> Req(h).ohlc]
            moved == [handler[h] EXCEPT !.pc = "announce"]
<1>1. /\ Writing(h) /\ row[c] = NoRow
      /\ row' = [row EXCEPT ![c] = new]
      /\ onceClosed' = IF Req(h).closed THEN onceClosed \union {c} ELSE onceClosed
      /\ handler' = [handler EXCEPT ![h] = moved]
      /\ UNCHANGED <<phase, snapshots, waiting, faults, revisions, stream>>
  BY DEF Create, Store, terminal
<1>2. handler[h] \in FoundType /\ Req(h) \in Payload
  BY <1>1, HandlerAt DEF CandleInv, Writing
<1>3. c \in Candles /\ new \in RowType
  BY <1>2, BoundsAssumption DEF Payload, RowType, Final
<1>4. /\ moved \in HandlerType
      /\ moved.pc = "announce" /\ moved.req = Req(h)
  BY <1>2 DEF FoundType, HandlerType, Req
<1>5. onceClosed \subseteq onceClosed' /\ onceClosed' \subseteq Candles
  BY <1>1, <1>3 DEF CandleInv, TypeOK
<1>. HIDE DEF new, moved
<1>6. /\ handler' \in [Handlers -> HandlerType]
      /\ handler'[h] = moved
      /\ \A g \in Handlers \ {h} : handler'[g] = handler[g]
  BY <1>1, <1>4 DEF CandleInv, TypeOK
<1>7. TypeOK'
  BY <1>1, <1>3, <1>5, <1>6 DEF CandleInv, TypeOK
<1>8. /\ row'[c] = new /\ new # NoRow
      /\ \A d \in Candles : d # c => row'[d] = row[d]
  BY <1>1, <1>3, NoRowAssumption DEF CandleInv, TypeOK
<1>9. \A d \in Candles : row[d] # NoRow => row'[d] # NoRow
  BY <1>8
<1>10. stream[c] = 0
  BY <1>1, <1>3 DEF CandleInv, TypeOK, RowsKept
<1>11. RowsKept'
  <2>1. \A d \in Candles : IsClosed(d)' => d \in onceClosed'
    BY <1>1, <1>5, <1>8 DEF CandleInv, RowsKept, IsClosed, new
  <2>2. \A g \in Handlers : Writing(g)' =>
           /\ Writing(g) /\ Found(g)' = Found(g) /\ Req(g)' = Req(g)
           /\ Req(g).candle \in Candles
    BY <1>4, <1>6, HandlerAt DEF CandleInv, Writing, Found, Req, Payload
  <2>. QED BY <1>1, <1>5, <1>9, <2>1, <2>2 DEF CandleInv, RowsKept
<1>12. OneAnnouncer'
  <2>1. /\ Req(h)' = Req(h) /\ row'[c] # NoRow /\ stream'[c] = 0
        /\ Req(h).closed => c \in onceClosed'
    BY <1>1, <1>4, <1>6, <1>8, <1>10 DEF Req
  <2>2. \A g \in Handlers \ {h} : Announcing(g)' =>
           /\ Announcing(g) /\ Req(g)' = Req(g)
           /\ Req(g).candle \in Candles
           /\ Req(g).candle # c
    BY <1>1, <1>6, HandlerAt DEF CandleInv, OneAnnouncer, Announcing, Req, Payload
  <2>3. ASSUME NEW g \in Handlers, Announcing(g)'
        PROVE  /\ row'[Req(g)'.candle] # NoRow
               /\ Req(g)'.closed => Req(g)'.candle \in onceClosed'
               /\ stream'[Req(g)'.candle] = 0
    <3>1. CASE g = h
      BY <3>1, <2>1
    <3>2. CASE g # h
      BY <3>2, <2>2, <2>3, <1>1, <1>5, <1>9 DEF CandleInv, OneAnnouncer
    <3>. QED BY <3>1, <3>2
  <2>4. ASSUME NEW g \in Handlers, NEW f \in Handlers, Announcing(g)',
               Announcing(f)', Req(f)'.candle = Req(g)'.candle
        PROVE  f = g
    <3>1. CASE g # h /\ f # h
      BY <3>1, <2>2, <2>4 DEF CandleInv, OneAnnouncer
    <3>2. CASE g = h \/ f = h
      BY <3>2, <2>1, <2>2, <2>4
    <3>. QED BY <3>1, <3>2
  <2>. QED BY <2>3, <2>4 DEF OneAnnouncer
<1>13. ToldIsStored' /\ StreamedOnce'
  BY <1>1, <1>5 DEF CandleInv, ToldIsStored, StreamedOnce
<1>. QED BY <1>7, <1>11, <1>12, <1>13 DEF CandleInv

LEMMA AnnounceStep ==
    ASSUME CandleInv, NEW h \in Handlers, Announce(h) PROVE CandleInv'
<1>. DEFINE c == Req(h).candle
<1>1. /\ Announcing(h)
      /\ stream' = IF Req(h).closed THEN [stream EXCEPT ![c] = @ + 1] ELSE stream
      /\ Answer(h, TRUE)
      /\ UNCHANGED <<row, revisions, onceClosed>>
  BY DEF Announce, Announcing, tables
<1>2. Req(h) \in Payload /\ c \in Candles
  BY <1>1, HandlerAt DEF CandleInv, Announcing, Payload
<1>3. /\ row[c] # NoRow /\ stream[c] = 0
      /\ Req(h).closed => c \in onceClosed
  BY <1>1 DEF CandleInv, OneAnnouncer
<1>4. /\ handler' = [handler EXCEPT ![h] = Idle]
      /\ handler' \in [Handlers -> HandlerType]
      /\ waiting' \in Handlers \union {NoOne}
      /\ phase' \in [Candles -> {"forming", "closed", "told"}]
      /\ UNCHANGED <<snapshots, faults>>
      /\ ToldIsStored'
  BY <1>1, <1>2, <1>3, Answers
<1>5. /\ stream' \in [Candles -> Nat]
      /\ stream'[c] \in {0, 1}
      /\ \A d \in Candles : d # c => stream'[d] = stream[d]
  BY <1>1, <1>2, <1>3 DEF CandleInv, TypeOK
<1>6. TypeOK'
  BY <1>1, <1>4, <1>5 DEF CandleInv, TypeOK
<1>7. \A g \in Handlers : handler'[g].pc \in {"write", "announce"} =>
         /\ g # h
         /\ handler'[g] = handler[g]
  BY <1>4 DEF CandleInv, TypeOK, Idle
<1>8. RowsKept'
  <2>1. \A g \in Handlers : Writing(g)' =>
           Writing(g) /\ Found(g)' = Found(g) /\ Req(g)' = Req(g)
    BY <1>7 DEF Writing, Found, Req
  <2>2. \A d \in Candles : stream'[d] > 0 => row'[d] # NoRow
    BY <1>1, <1>3, <1>5 DEF CandleInv, RowsKept
  <2>. QED BY <1>1, <2>1, <2>2 DEF CandleInv, RowsKept, IsClosed
<1>9. OneAnnouncer'
  <2>1. \A g \in Handlers : Announcing(g)' =>
           /\ Announcing(g) /\ Req(g)' = Req(g)
           /\ Req(g).candle \in Candles /\ Req(g).candle # c
    BY <1>1, <1>7, HandlerAt DEF CandleInv, OneAnnouncer, Announcing, Req, Payload
  <2>. SUFFICES ASSUME NEW g \in Handlers, Announcing(g)'
                PROVE  /\ row'[Req(g)'.candle] # NoRow
                       /\ Req(g)'.closed => Req(g)'.candle \in onceClosed'
                       /\ stream'[Req(g)'.candle] = 0
                       /\ \A f \in Handlers :
                             Announcing(f)' /\ Req(f)'.candle = Req(g)'.candle
                                => f = g
    BY DEF OneAnnouncer
  <2>. QED BY <1>1, <1>5, <2>1 DEF CandleInv, OneAnnouncer
<1>10. StreamedOnce'
  BY <1>5 DEF CandleInv, StreamedOnce
<1>. QED BY <1>4, <1>6, <1>8, <1>9, <1>10 DEF CandleInv

LEMMA ServeStep == ASSUME CandleInv, NEW h \in Handlers, Serve(h) PROVE CandleInv'
<1>1. CASE Read(h)
  BY <1>1, ReadStep
<1>2. CASE Duplicate(h)
  BY <1>2, OnlyAnswers DEF Duplicate, CandleInv, RowsKept
<1>3. CASE Revise(h)
  BY <1>3, ReviseStep
<1>4. CASE Update(h)
  BY <1>4, UpdateStep
<1>5. CASE Create(h)
  BY <1>5, CreateStep
<1>6. CASE CreateConflict(h)
  BY <1>6, OnlyAnswers DEF CreateConflict
<1>7. CASE Announce(h)
  BY <1>7, AnnounceStep
<1>. QED BY <1>1, <1>2, <1>3, <1>4, <1>5, <1>6, <1>7 DEF Serve

LEMMA StepInv == CandleInv /\ [Next]_vars => CandleInv'
<1>. SUFFICES ASSUME CandleInv, [Next]_vars PROVE CandleInv'
  OBVIOUS
<1>1. CASE \/ \E c \in Candles : CloseBar(c)
           \/ \E h \in Handlers, c \in Candles :
                 \/ SendCurrent(h, c)
                 \/ SendClosed(h, c)
                 \/ \E r \in 1 .. MaxRevision : SendCorrection(h, c, r)
  BY <1>1, TerminalSteps
<1>2. CASE Timeout \/ ApiRestart
  BY <1>2, FaultSteps
<1>3. CASE \E h \in Handlers : Serve(h)
  BY <1>3, ServeStep
<1>4. CASE UNCHANGED vars
  <2>1. UNCHANGED <<phase, snapshots, waiting, faults, row, revisions, stream,
                    onceClosed, handler>>
    BY <1>4 DEF vars
  <2>2. TypeOK'
    BY <2>1 DEF CandleInv, TypeOK
  <2>3. RowsKept' /\ OneAnnouncer' /\ StreamedOnce'
    BY <2>1, HandlersLeave DEF tables
  <2>4. ToldIsStored'
    BY <2>1 DEF CandleInv, ToldIsStored
  <2>. QED BY <2>2, <2>3, <2>4 DEF CandleInv
<1>. QED BY <1>1, <1>2, <1>3, <1>4 DEF Next

-----------------------------------------------------------------------------
\* The inductive invariant of the module.
THEOREM CandleInvariant == Spec => []CandleInv
<1>. QED BY InitInv, StepInv, PTL DEF Spec

\* Every row, request and audit record has the shape ingestCandle gives it.
THEOREM CandleTypeCorrect == Spec => []TypeOK
<1>1. CandleInv => TypeOK
  BY DEF CandleInv
<1>. QED BY <1>1, CandleInvariant, PTL

\* The terminal stops sending a closed candle only after its row was closed,
\* whatever overlaps, times out or restarts (ingestion.service.ts 88-152).
THEOREM ToldIsStoredCorrect == Spec => []ToldIsStored
<1>1. CandleInv => ToldIsStored
  BY DEF CandleInv
<1>. QED BY <1>1, CandleInvariant, PTL

\* However many requests for a candle overlap, at most one adds it to the
\* stream (ingestion.service.ts 128-148).
THEOREM StreamedOnceCorrect == Spec => []StreamedOnce
<1>1. CandleInv => StreamedOnce
  BY DEF CandleInv
<1>. QED BY <1>1, CandleInvariant, PTL

-----------------------------------------------------------------------------
(* Nothing overlaps before the first fault *)

\* At most one handler, and nobody else touches its candle.
LEMMA OnlyOne ==
    ASSUME Alone, faults = 0, NEW h \in Handlers, handler[h] # Idle
    PROVE  waiting = h /\ \A g \in Handlers \ {h} : handler[g] = Idle
BY DEF Alone

LEMMA AloneStep ==
    ASSUME CandleInv, Alone, [Next]_vars
    PROVE  Alone'
<1>. SUFFICES ASSUME faults' = 0
              PROVE  \A h \in Handlers :
                        /\ handler'[h] # Idle => waiting' = h
                        /\ handler'[h].pc = "write" =>
                              handler'[h].found = row'[handler'[h].req.candle]
  BY DEF Alone, Writing, Found, Req
<1>0. /\ Idle.pc = "idle" /\ faults \in Nat
      /\ handler = [h \in Handlers |-> handler[h]]
      /\ \A h \in Handlers : h # NoOne
  BY NullAssumption, BoundsAssumption DEF Idle, CandleInv, TypeOK
<1>1. ASSUME NEW h \in Handlers, NEW payload, Send(h, payload)
      PROVE  \A g \in Handlers :
                /\ handler'[g] # Idle => waiting' = g
                /\ handler'[g].pc # "write"
  <2>1. /\ waiting = NoOne /\ waiting' = h /\ faults = 0
        /\ handler' = [handler EXCEPT ![h] = [pc |-> "read", req |-> payload]]
    BY <1>1 DEF Send
  <2>2. \A g \in Handlers : handler[g] = Idle
    BY <1>0, <2>1 DEF Alone
  <2>3. handler'[h].pc = "read" /\ \A g \in Handlers \ {h} : handler'[g] = Idle
    BY <1>0, <2>1, <2>2
  <2>. QED BY <1>0, <2>1, <2>3
<1>2. CASE \/ UNCHANGED vars \/ \E c \in Candles : CloseBar(c)
  <2>1. UNCHANGED <<waiting, faults, row, handler>>
    BY <1>2 DEF CloseBar, tables, vars
  <2>. QED BY <2>1 DEF Alone, Writing, Found, Req
<1>3. CASE Timeout \/ ApiRestart
  BY <1>0, <1>3 DEF Timeout, ApiRestart
\* A handler steps: it is the only one.
<1>4. ASSUME NEW h \in Handlers, Serve(h)
      PROVE  /\ faults = 0 /\ handler[h] # Idle
             /\ waiting = h /\ \A g \in Handlers \ {h} : handler[g] = Idle
  <2>1. faults' = faults
    BY <1>4 DEF Serve, Read, Duplicate, Revise, Update, Create, CreateConflict, Announce, Answer
  <2>2. handler[h] # Idle
    BY <1>0, <1>4
    DEF Serve, Read, Duplicate, Revise, Update, Create, CreateConflict, Announce, Writing
  <2>. QED BY <2>1, <2>2, OnlyOne
<1>5. ASSUME NEW h \in Handlers, Read(h)
      PROVE  \A g \in Handlers :
                /\ handler'[g] # Idle => waiting' = g
                /\ handler'[g].pc = "write" =>
                      handler'[g].found = row'[handler'[g].req.candle]
  <2>1. /\ waiting' = waiting /\ row' = row
        /\ handler' = [handler EXCEPT ![h] =
              [pc |-> "write", req |-> handler[h].req, found |-> row[handler[h].req.candle]]]
    BY <1>5 DEF Read, tables
  <2>2. /\ handler'[h].req = handler[h].req
        /\ handler'[h].found = row[handler[h].req.candle]
        /\ \A g \in Handlers \ {h} : handler'[g] = Idle
    BY <1>0, <1>4, <1>5, <2>1 DEF Serve
  <2>. QED BY <1>0, <1>4, <1>5, <2>1, <2>2 DEF Serve
<1>6. ASSUME NEW h \in Handlers, Create(h)
      PROVE  \A g \in Handlers :
                handler'[g] # Idle => waiting' = g /\ handler'[g].pc # "write"
  <2>1. /\ waiting' = waiting
        /\ handler' = [handler EXCEPT ![h] = [handler[h] EXCEPT !.pc = "announce"]]
        /\ handler[h] \in FoundType
    BY <1>6, HandlerAt DEF Create, CandleInv, Writing
  <2>2. handler'[h].pc = "announce" /\ \A g \in Handlers \ {h} : handler'[g] = Idle
    BY <1>0, <1>4, <1>6, <2>1 DEF Serve, FoundType
  <2>. QED BY <1>4, <1>6, <2>1, <2>2 DEF Serve
<1>7. ASSUME NEW h \in Handlers, NEW ok, Serve(h), Answer(h, ok)
      PROVE  \A g \in Handlers : handler'[g] = Idle
  BY <1>0, <1>4, <1>7 DEF Answer
<1>8. CASE \E h \in Handlers : Serve(h)
  <2>1. PICK h \in Handlers : Serve(h)
    BY <1>8
  <2>2. CASE Read(h)
    BY <1>5, <2>2
  <2>3. CASE Create(h)
    BY <1>0, <1>6, <2>3
  <2>4. CASE Duplicate(h) \/ Revise(h) \/ Update(h) \/ CreateConflict(h) \/ Announce(h)
    <3>1. Answer(h, TRUE) \/ Answer(h, FALSE)
      BY <2>4 DEF Duplicate, Revise, Update, CreateConflict, Announce
    <3>. QED BY <1>0, <1>7, <2>1, <3>1
  <2>. QED BY <2>1, <2>2, <2>3, <2>4 DEF Serve
<1>9. CASE \E h \in Handlers, c \in Candles :
              SendCurrent(h, c) \/ SendClosed(h, c)
                 \/ \E r \in 1 .. MaxRevision : SendCorrection(h, c, r)
  BY <1>1, <1>9 DEF SendCurrent, SendClosed, SendCorrection
<1>. QED BY <1>2, <1>3, <1>8, <1>9 DEF Next

LEMMA KeptStep ==
    ASSUME CandleInv, Alone, [Next]_vars, faults = 0, NEW c \in Candles
    PROVE  Kept(c)
<1>. SUFFICES ASSUME row[c] # NoRow, row[c].closed, row' # row
              PROVE  /\ row'[c].closed
                     /\ row'[c] # row[c] =>
                           /\ row'[c].revision > row[c].revision
                           /\ \E a \in revisions' :
                                 /\ a.candle = c /\ a.revision = row'[c].revision
                                 /\ a.old = row[c].ohlc /\ a.new = row'[c].ohlc
  BY DEF Kept, IsClosed
<1>1. PICK h \in Handlers : Revise(h) \/ Update(h) \/ Create(h)
  BY DEF Next, Serve, CloseBar, SendCurrent, SendClosed, SendCorrection, Send, Timeout,
         ApiRestart, Read, Duplicate, CreateConflict, Announce, tables, vars
<1>2. /\ Writing(h) /\ Found(h) = row[Req(h).candle]
      /\ Req(h) \in Payload /\ Req(h).candle \in Candles
  <2>1. Writing(h)
    BY <1>1 DEF Revise, Update, Create
  <2>. QED BY <2>1, HandlerAt DEF Alone, CandleInv, Writing, Payload
<1>. DEFINE d == Req(h).candle
<1>3. CASE Revise(h)
  <2>. DEFINE new == [closed |-> row[d].closed, revision |-> Req(h).revision,
                      ohlc |-> Req(h).ohlc]
              audit == [candle |-> d, revision |-> Req(h).revision,
                        old |-> Found(h).ohlc, new |-> Req(h).ohlc]
  <2>1. /\ row' = [row EXCEPT ![d] = new] /\ audit \in revisions'
        /\ Req(h).revision > Found(h).revision
    BY <1>3 DEF Revise, Store
  <2>2. new.closed = row[d].closed /\ new.revision = Req(h).revision /\ new.ohlc = Req(h).ohlc
    OBVIOUS
  <2>3. /\ audit.candle = d /\ audit.revision = Req(h).revision
        /\ audit.old = row[d].ohlc /\ audit.new = Req(h).ohlc
    BY <1>2
  <2>. HIDE DEF new, audit
  <2>4. row'[d] = new /\ \A x \in Candles \ {d} : row'[x] = row[x]
    BY <1>2, <2>1 DEF CandleInv, TypeOK
  <2>5. CASE c = d
    BY <1>2, <2>1, <2>2, <2>3, <2>4, <2>5
  <2>6. CASE c # d
    BY <2>4, <2>6
  <2>. QED BY <2>5, <2>6
<1>4. CASE Update(h) \/ Create(h)
  <2>1. c # d
    BY <1>2, <1>4 DEF Update, Create
  <2>2. row'[c] = row[c]
    BY <1>2, <1>4, <2>1 DEF Update, Create, Store, CandleInv, TypeOK
  <2>. QED BY <2>2
<1>. QED BY <1>1, <1>3, <1>4

\* A closed candle is immutable but for audited corrections with a higher
\* revision as long as no request has outlived the terminal's patience: what
\* ingestCandle (ingestion.service.ts 88-152) has read is then still there.
THEOREM ImmutableCorrect == Spec => ImmutableUnlessLate
<1>1. Init => CandleInv /\ Alone
  <2>1. ASSUME Init PROVE Alone
    BY <2>1 DEF Init, Alone, Writing, Idle
  <2>. QED BY <2>1, InitInv
<1>2. CandleInv /\ Alone /\ [Next]_vars => CandleInv' /\ Alone'
  BY StepInv, AloneStep
<1>. DEFINE Step == faults = 0 => \A c \in Candles : Kept(c)
<1>3. CandleInv /\ Alone /\ [Next]_vars => [Step]_vars
  BY KeptStep
<1>. HIDE DEF Step
<1>4. Spec => [][Step]_vars
  BY <1>1, <1>2, <1>3, PTL DEF Spec
<1>. QED BY <1>4 DEF Step, ImmutableUnlessLate
=============================================================================
