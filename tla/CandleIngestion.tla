-------------------------- MODULE CandleIngestion --------------------------
(***************************************************************************)
(* IngestionService.ingestCandle (apps/api, ingestion.service.ts) and the  *)
(* terminal that calls it through /mql5/candles/current and .../closed.    *)
(* A handler reads the candle's row, decides from what it has read, writes *)
(* and then announces; other handlers run between any two of these steps.  *)
(*                                                                         *)
(* The terminal waits for the answer to one request before it sends the    *)
(* next, but WebRequest gives up after RequestTimeoutMs while the handler  *)
(* it called still runs: only then do two handlers overlap. A row and a    *)
(* payload are a number for the prices (`ohlc`, the moment they were       *)
(* taken), the closed flag and the revision.                               *)
(***************************************************************************)
EXTENDS Integers, FiniteSets

CONSTANTS
    Candles,        \* the unique keys (terminal, symbol, timeframe, openTime)
    Handlers,       \* requests the API may be serving at once
    NoRow, NoOne,
    MaxSnapshots,   \* bound: snapshots of a forming candle
    MaxRevision,    \* bound: corrections of a closed candle
    MaxFaults       \* bound: timeouts and API restarts

ASSUME BoundsAssumption == /\ MaxSnapshots \in Nat /\ MaxRevision \in Nat
                           /\ MaxFaults \in Nat
ASSUME NullAssumption == NoOne \notin Handlers

\* A row of the table: the final prices and the corrections come after the
\* MaxSnapshots prices of the forming candle.
RowType == [closed : BOOLEAN, revision : 0 .. MaxRevision,
            ohlc : 1 .. MaxSnapshots + 1 + MaxRevision]

ASSUME NoRowAssumption == NoRow \notin RowType

VARIABLES
    phase,      \* the candle at the broker: forming, closed, or told (the
                \* terminal has a 200 for the closed candle)
    snapshots,  \* how many snapshots of it the terminal has taken
    waiting,    \* the handler the terminal waits for
    faults,
    row,        \* table candles
    revisions,  \* table candle_revisions
    stream,     \* how often the closed candle was added to the stream
    onceClosed, \* candles whose row has been closed (ghost)
    handler     \* the locals of each handler

vars == <<phase, snapshots, waiting, faults, row, revisions, stream,
          onceClosed, handler>>
terminal == <<phase, snapshots>>
tables   == <<row, revisions, onceClosed>>

\* Snapshots are numbered 1, 2, ..; the final prices come after them, and
\* correction r after those.
Final == MaxSnapshots + 1
Payload == [candle : Candles, closed : BOOLEAN, revision : 0 .. MaxRevision,
            ohlc : 1 .. Final + MaxRevision]

Idle == [pc |-> "idle"]

Init ==
    /\ phase = [c \in Candles |-> "forming"]
    /\ snapshots = [c \in Candles |-> 0]
    /\ waiting = NoOne
    /\ faults = 0
    /\ row = [c \in Candles |-> NoRow]
    /\ revisions = {}
    /\ stream = [c \in Candles |-> 0]
    /\ onceClosed = {}
    /\ handler = [h \in Handlers |-> Idle]

-----------------------------------------------------------------------------
(* The terminal (mql5/Experts/MMXMBridgeEA.mq5) *)

\* Post: one request at a time
Send(h, payload) ==
    /\ waiting = NoOne
    /\ handler[h] = Idle
    /\ handler' = [handler EXCEPT ![h] = [pc |-> "read", req |-> payload]]
    /\ waiting' = h
    /\ UNCHANGED <<faults, tables, stream>>

SendCurrent(h, c) ==
    /\ phase[c] = "forming"
    /\ snapshots[c] < MaxSnapshots
    /\ snapshots' = [snapshots EXCEPT ![c] = @ + 1]
    /\ Send(h, [candle |-> c, closed |-> FALSE, revision |-> 0,
                ohlc |-> snapshots[c] + 1])
    /\ UNCHANGED phase

CloseBar(c) ==
    /\ phase[c] = "forming"
    /\ phase' = [phase EXCEPT ![c] = "closed"]
    /\ UNCHANGED <<snapshots, waiting, faults, tables, stream, handler>>

\* A failed item is pushed back and spooled as well, so the terminal sends a
\* closed candle until it is accepted and sometimes once more.
SendClosed(h, c) ==
    /\ phase[c] \in {"closed", "told"}
    /\ Send(h, [candle |-> c, closed |-> TRUE, revision |-> 0, ohlc |-> Final])
    /\ UNCHANGED terminal

\* "corrections arrive with revision+1" (docs/mql5-contract.md:45)
SendCorrection(h, c, r) ==
    /\ phase[c] = "told"
    /\ Send(h, [candle |-> c, closed |-> TRUE, revision |-> r,
                ohlc |-> Final + r])
    /\ UNCHANGED terminal

\* The terminal stops waiting; the request goes on.
Timeout ==
    /\ waiting # NoOne
    /\ faults < MaxFaults
    /\ faults' = faults + 1
    /\ waiting' = NoOne
    /\ UNCHANGED <<terminal, tables, stream, handler>>

ApiRestart ==
    /\ faults < MaxFaults
    /\ \E h \in Handlers : handler[h] # Idle
    /\ faults' = faults + 1
    /\ waiting' = NoOne
    /\ handler' = [h \in Handlers |-> Idle]
    /\ UNCHANGED <<terminal, tables, stream>>

-----------------------------------------------------------------------------
(* ingestCandle *)

\* findUnique
Read(h) ==
    /\ handler[h].pc = "read"
    /\ handler' = [handler EXCEPT ![h] =
                     [pc |-> "write", req |-> @.req,
                      found |-> row[@.req.candle]]]
    /\ UNCHANGED <<terminal, waiting, faults, tables, stream>>

Req(h)   == handler[h].req
Found(h) == handler[h].found

\* The handler is done. The terminal hears of it if it still waits: a 200 for
\* a closed candle is the end of its retries.
Answer(h, ok) ==
    /\ handler' = [handler EXCEPT ![h] = Idle]
    /\ waiting' = IF waiting = h THEN NoOne ELSE waiting
    /\ phase' = IF waiting = h /\ ok /\ Req(h).closed
                THEN [phase EXCEPT ![Req(h).candle] = "told"]
                ELSE phase
    /\ UNCHANGED <<snapshots, faults>>

Store(c, closed, revision, ohlc) ==
    /\ row' = [row EXCEPT ![c] = [closed |-> closed, revision |-> revision,
                                  ohlc |-> ohlc]]
    /\ onceClosed' = IF closed THEN onceClosed \union {c} ELSE onceClosed

Writing(h) == handler[h].pc = "write"

\* Already closed, and nothing newer
DuplicateAnyRow(h) ==                                             \* mutant
    /\ Writing(h)
    /\ Found(h) # NoRow
    /\ Req(h).closed => Req(h).revision <= Found(h).revision
    /\ Answer(h, TRUE)
    /\ UNCHANGED <<tables, stream>>

Duplicate(h) ==
    /\ Writing(h)
    /\ Found(h) # NoRow
    /\ Found(h).closed
    /\ Req(h).closed => Req(h).revision <= Found(h).revision
    /\ Answer(h, TRUE)
    /\ UNCHANGED <<tables, stream>>

\* A correction: audit row and candle in one transaction
ReviseUnaudited(h) ==                                             \* mutant
    /\ Writing(h)
    /\ Found(h) # NoRow
    /\ Found(h).closed /\ Req(h).closed
    /\ Req(h).revision > Found(h).revision
    /\ Store(Req(h).candle, row[Req(h).candle].closed, Req(h).revision,
             Req(h).ohlc)
    /\ Answer(h, TRUE)
    /\ UNCHANGED <<revisions, stream>>

ReviseSameRevision(h) ==                                          \* mutant
    /\ Writing(h)
    /\ Found(h) # NoRow
    /\ Found(h).closed /\ Req(h).closed
    /\ Req(h).revision >= Found(h).revision
    /\ revisions' = revisions \union
          {[candle |-> Req(h).candle, revision |-> Req(h).revision,
            old |-> Found(h).ohlc, new |-> Req(h).ohlc]}
    /\ Store(Req(h).candle, row[Req(h).candle].closed, Req(h).revision,
             Req(h).ohlc)
    /\ Answer(h, TRUE)
    /\ UNCHANGED stream

Revise(h) ==
    /\ Writing(h)
    /\ Found(h) # NoRow
    /\ Found(h).closed /\ Req(h).closed
    /\ Req(h).revision > Found(h).revision
    /\ revisions' = revisions \union
          {[candle |-> Req(h).candle, revision |-> Req(h).revision,
            old |-> Found(h).ohlc, new |-> Req(h).ohlc]}
    /\ Store(Req(h).candle, row[Req(h).candle].closed, Req(h).revision,
             Req(h).ohlc)
    /\ Answer(h, TRUE)
    /\ UNCHANGED stream

UpdatePricesOnly(h) ==                                            \* mutant
    /\ Writing(h)
    /\ Found(h) # NoRow
    /\ ~Found(h).closed
    /\ Store(Req(h).candle, row[Req(h).candle].closed,
             row[Req(h).candle].revision, Req(h).ohlc)
    /\ Answer(h, TRUE)
    /\ UNCHANGED <<revisions, stream>>

\* The row was open when it was read; the update is by id, and the revision
\* column is left alone.
Update(h) ==
    /\ Writing(h)
    /\ Found(h) # NoRow
    /\ ~Found(h).closed
    /\ Store(Req(h).candle, Req(h).closed, row[Req(h).candle].revision,
             Req(h).ohlc)
    /\ Answer(h, TRUE)
    /\ UNCHANGED <<revisions, stream>>

\* No row was found: the unique key refuses a second one.
CreateOrReplace(h) ==                                             \* mutant
    /\ Writing(h)
    /\ Found(h) = NoRow
    /\ Store(Req(h).candle, Req(h).closed, Req(h).revision, Req(h).ohlc)
    /\ handler' = [handler EXCEPT ![h].pc = "announce"]
    /\ UNCHANGED <<terminal, waiting, faults, revisions, stream>>

Create(h) ==
    /\ Writing(h)
    /\ Found(h) = NoRow
    /\ row[Req(h).candle] = NoRow
    /\ Store(Req(h).candle, Req(h).closed, Req(h).revision, Req(h).ohlc)
    /\ handler' = [handler EXCEPT ![h].pc = "announce"]
    /\ UNCHANGED <<terminal, waiting, faults, revisions, stream>>

CreateConflict(h) ==
    /\ Writing(h)
    /\ Found(h) = NoRow
    /\ row[Req(h).candle] # NoRow
    /\ Answer(h, FALSE)
    /\ UNCHANGED <<tables, stream>>

\* After a create: a closed candle goes to the stream, an open one to pub/sub.
Announce(h) ==
    /\ handler[h].pc = "announce"
    /\ stream' = IF Req(h).closed THEN [stream EXCEPT ![Req(h).candle] = @ + 1]
                                  ELSE stream
    /\ Answer(h, TRUE)
    /\ UNCHANGED tables

Serve(h) == \/ Read(h) \/ Duplicate(h) \/ Revise(h) \/ Update(h)
            \/ Create(h) \/ CreateConflict(h) \/ Announce(h)

Next ==
    \/ \E c \in Candles : CloseBar(c)
    \/ \E h \in Handlers, c \in Candles :
          \/ SendCurrent(h, c)
          \/ SendClosed(h, c)
          \/ \E r \in 1 .. MaxRevision : SendCorrection(h, c, r)
    \/ Timeout
    \/ ApiRestart
    \/ \E h \in Handlers : Serve(h)

Spec == Init /\ [][Next]_vars

\* Every handler runs on, every candle closes, and the timer of the terminal
\* sends a closed candle that has not been accepted whenever it can. Closed
\* candles are sent before snapshots and corrections (OnTimer), hence SF.
FairSpec ==
    /\ Spec
    /\ \A h \in Handlers : WF_vars(Serve(h))
    /\ \A c \in Candles :
          /\ WF_vars(CloseBar(c))
          /\ SF_vars(\E h \in Handlers :
                        phase[c] = "closed" /\ SendClosed(h, c))

-----------------------------------------------------------------------------
(* Properties *)

HandlerType ==
    {Idle} \union [pc : {"read"}, req : Payload]
           \union [pc : {"write", "announce"}, req : Payload,
                   found : RowType \union {NoRow}]

TypeOK ==
    /\ phase \in [Candles -> {"forming", "closed", "told"}]
    /\ snapshots \in [Candles -> 0 .. MaxSnapshots]
    /\ waiting \in Handlers \union {NoOne}
    /\ faults \in 0 .. MaxFaults
    /\ row \in [Candles -> RowType \union {NoRow}]
    /\ revisions \subseteq [candle : Candles, revision : 1 .. MaxRevision,
                            old : 1 .. Final + MaxRevision,
                            new : 1 .. Final + MaxRevision]
    /\ stream \in [Candles -> Nat]
    /\ onceClosed \subseteq Candles
    /\ handler \in [Handlers -> HandlerType]

IsClosed(c) == row[c] # NoRow /\ row[c].closed

\* A closed candle stays closed, and its prices change only together with a
\* higher revision and an audit row for it.
Kept(c) ==
    IsClosed(c) =>
        /\ row'[c].closed
        /\ row'[c] # row[c] =>
              /\ row'[c].revision > row[c].revision
              /\ \E a \in revisions' :
                    /\ a.candle = c /\ a.revision = row'[c].revision
                    /\ a.old = row[c].ohlc /\ a.new = row'[c].ohlc

\* "Closed candle immutable; corrections arrive with revision+1 and create
\* candle_revisions row" (docs/mql5-contract.md:45).
ClosedImmutable == [][\A c \in Candles : Kept(c)]_vars

\* It is true as long as no request outlives the terminal's patience.
ImmutableUnlessLate == [][faults = 0 => \A c \in Candles : Kept(c)]_vars

\* Whatever overlaps, times out or restarts: when the terminal has its 200 for
\* a closed candle and stops sending it, the row has been closed at some time
\* (ingestion.service.ts 88-152).
ToldIsStored == \A c \in Candles : phase[c] = "told" => c \in onceClosed

\* A candle is added to the stream at most once, however often it is sent: only
\* the one handler that creates the row adds it (128-148).
StreamedOnce == \A c \in Candles : stream[c] <= 1

\* Why the two hold: rows never disappear, what a handler has found is still
\* there, and the handler that created a row is the only one to announce it.
RowsKept ==
    /\ \A c \in Candles : IsClosed(c) => c \in onceClosed
    /\ \A c \in Candles : stream[c] > 0 => row[c] # NoRow
    /\ \A h \in Handlers : Writing(h) /\ Found(h) # NoRow =>
          /\ row[Req(h).candle] # NoRow
          /\ Found(h).closed => Req(h).candle \in onceClosed

Announcing(h) == handler[h].pc = "announce"
OneAnnouncer ==
    \A h \in Handlers : Announcing(h) =>
        /\ row[Req(h).candle] # NoRow
        /\ Req(h).closed => Req(h).candle \in onceClosed
        /\ stream[Req(h).candle] = 0
        /\ \A g \in Handlers : Announcing(g) /\ Req(g).candle = Req(h).candle => g = h

CandleInv == TypeOK /\ RowsKept /\ OneAnnouncer /\ ToldIsStored /\ StreamedOnce

\* Before the first fault only the handler the terminal waits for runs, and what
\* it has read is still what the table holds.
Alone ==
    faults = 0 => \A h \in Handlers :
        /\ handler[h] # Idle => waiting = h
        /\ Writing(h) => Found(h) = row[Req(h).candle]

\* Every candle that closes is stored as closed in the end: a lost answer or a
\* refused create is followed by another attempt.
ClosedIsStored == \A c \in Candles : phase[c] = "closed" ~> c \in onceClosed
=============================================================================
