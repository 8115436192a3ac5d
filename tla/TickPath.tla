------------------------------ MODULE TickPath ------------------------------
(***************************************************************************)
(* The way of a tick: OnTick pushes it on the queue of EaQueue, a timer    *)
(* event takes a batch off it and waits for the API (FlushTickBatch of the *)
(* EA), and ingestTicks deduplicates by eventId, stores the rows and       *)
(* announces the newest tick. A request may outlive the terminal's timeout *)
(* and then runs beside the next one.                                      *)
(*                                                                         *)
(* A tick is [n, ms]: n numbers the ticks in the order of the market. Its  *)
(* eventId has its millisecond twice (once modulo 100000) and nothing else *)
(* that varies, so it is ms here.                                          *)
(***************************************************************************)
EXTENDS EaQueue, SequencesExt, FiniteSets

CONSTANTS
    Handlers,      \* requests for ticks that the API works on at once
    MaxBatch,      \* MaximumBatchSize
    DeinitGuard,   \* 1000: what OnDeinit saves of the queue
    MaxQuotes, MaxFaults   \* bounds

ASSUME TickAssumption == /\ MaxBatch \in Nat \ {0}
                         /\ {DeinitGuard, MaxQuotes, MaxFaults} \subseteq Nat
                         /\ Items = [n : 0 .. MaxQuotes, ms : 0 .. MaxQuotes]
                         /\ "idle" \notin Handlers /\ "fill" \notin Handlers

VARIABLES
    market,        \* the newest tick at the broker
    event,         \* an OnTick event waits for it; ticks meanwhile are skipped
    captured,      \* the ticks that OnTick has pushed
    ea,            \* "idle", "fill" (the batch) or the handler it waits for
    batch,         \* the ticks of the batch
    spool,         \* the tick spool file; nothing reads it
    handlers,      \* [Handlers -> a request, or NoRequest]
    keys,          \* mmxm:dedupe:* in Redis
    table,         \* table Tick
    announced,     \* what was published on mmxm:pub:tick, in order
    faults,
    abandoned      \* requests that run on although no terminal waits for them

api == <<handlers, keys, table, announced>>
terminal == <<event, captured, ea, batch, spool>>
allVars == <<vars, market, terminal, api, faults, abandoned>>

NoRequest == [pc |-> "free", todo |-> <<>>, fresh |-> <<>>]

TickInit ==
    /\ Init
    /\ market = [n |-> 0, ms |-> 0] /\ event = FALSE /\ captured = {}
    /\ ea = "idle" /\ batch = <<>> /\ spool = <<>>
    /\ handlers = [h \in Handlers |-> NoRequest]
    /\ keys = {} /\ table = {} /\ announced = <<>>
    /\ faults = 0 /\ abandoned = 0

Fault == faults < MaxFaults /\ faults' = faults + 1
NoFault == UNCHANGED <<faults, abandoned>>

-----------------------------------------------------------------------------
\* The terminal

\* A tick of the same millisecond or of the next.
Quote(step) ==
    /\ market.n < MaxQuotes
    /\ market' = [n |-> market.n + 1, ms |-> market.ms + step]
    /\ event' = TRUE
    /\ UNCHANGED <<vars, captured, ea, batch, spool, api>> /\ NoFault

OnTick ==
    /\ ea = "idle" /\ event
    /\ event' = FALSE
    /\ captured' = captured \union {market}
    /\ Push(market) \/ PushDropping(market)
    /\ UNCHANGED <<market, ea, batch, spool, api>> /\ NoFault

OnTimer ==
    /\ ea = "idle" /\ Size > 0
    /\ ea' = "fill"
    /\ UNCHANGED <<vars, market, event, captured, batch, spool, api>> /\ NoFault

PopThenTest ==                                                    \* mutant
    /\ ea = "fill" /\ Pop
    /\ IF Len(batch) < MaxBatch
       THEN batch' = Append(batch, items[head + 1]) /\ UNCHANGED ea
       ELSE UNCHANGED <<batch, ea>>
    /\ UNCHANGED <<market, event, captured, spool, api>> /\ NoFault
Fill ==
    /\ ea = "fill" /\ Len(batch) < MaxBatch
    /\ Pop
    /\ batch' = Append(batch, items[head + 1])
    /\ UNCHANGED <<market, event, captured, ea, spool, api>> /\ NoFault

Filled == ea = "fill" /\ (Len(batch) >= MaxBatch \/ Size = 0)

NotWaiting(h) == ea' = "idle" /\ batch' = <<>>                 \* mutant
Waiting(h) == ea' = h /\ UNCHANGED batch

\* The guard lets the request pass and a handler starts on it.
PostBatch(h) ==
    /\ Filled /\ handlers[h] = NoRequest
    /\ handlers' = [handlers EXCEPT ![h] =
                      [pc |-> "dedupe", todo |-> batch, fresh |-> <<>>]]
    /\ Waiting(h)
    /\ UNCHANGED <<vars, market, event, captured, spool, keys, table, announced>>
    /\ NoFault

\* Another status than 200: the batch becomes a line of the spool file.
SpoolBatch == /\ ea' = "idle" /\ batch' = <<>>
              /\ spool' = Append(spool, batch)
              /\ UNCHANGED <<vars, market, event, captured>>

\* No connection, or the guard refuses: skew, nonce, signature, terminal.
Refused == /\ Filled /\ Fault
           /\ SpoolBatch
           /\ UNCHANGED <<api, abandoned>>

\* WebRequest gives up while the handler goes on.
Timeout == /\ ea \in Handlers /\ Fault
           /\ abandoned' = abandoned + 1
           /\ SpoolBatch
           /\ UNCHANGED api

\* The queue's first items go to the spool file, the one after them is popped
\* and forgotten, and the rest ends with the EA. OnInit starts afresh.
Saved == SubSeq(Live, 1, IF Size < DeinitGuard THEN Size ELSE DeinitGuard)
Reload == /\ ea = "idle" /\ Fault
          /\ Reinit
          /\ spool' = spool \o [k \in DOMAIN Saved |-> <<Saved[k]>>]
          /\ UNCHANGED <<market, event, captured, ea, batch, api, abandoned>>

\* The terminal's process dies; requests on their way are still handled.
TerminalDies ==
    /\ Fault
    /\ Reinit
    /\ event' = FALSE /\ ea' = "idle" /\ batch' = <<>>
    /\ abandoned' = abandoned + (IF ea \in Handlers THEN 1 ELSE 0)
    /\ UNCHANGED <<market, captured, spool, api>>

-----------------------------------------------------------------------------
\* ingestTicks, for the request of handler h

Running(h, pc) == handlers[h].pc = pc

\* SET NX, one tick after the other
Dedupe(h) ==
    LET r == handlers[h]
        t == Head(r.todo)
    IN  /\ Running(h, "dedupe") /\ r.todo # <<>>
        /\ keys' = keys \union {t.ms}
        /\ handlers' = [handlers EXCEPT ![h] =
              [r EXCEPT !.todo = Tail(@),
                        !.fresh = @ \o (IF t.ms \in keys THEN <<>> ELSE <<t>>)]]
        /\ UNCHANGED <<vars, market, terminal, table, announced>> /\ NoFault

\* createMany with skipDuplicates: eventId is the key of the table.
Insert(h) ==
    LET r == handlers[h]
    IN  /\ Running(h, "dedupe") /\ r.todo = <<>> /\ r.fresh # <<>>
        /\ table' = table \union
              {t \in ToSet(r.fresh) : \A row \in table : row.ms # t.ms}
        /\ handlers' = [handlers EXCEPT ![h].pc = "announce"]
        /\ UNCHANGED <<vars, market, terminal, keys, announced>> /\ NoFault

Announce(h) ==
    /\ Running(h, "announce")
    /\ announced' = Append(announced, Last(handlers[h].fresh))
    /\ handlers' = [handlers EXCEPT ![h].pc = "reply"]
    /\ UNCHANGED <<vars, market, terminal, keys, table>> /\ NoFault

Keeping == ea' = "idle" /\ UNCHANGED batch                        \* mutant
Answered == ea' = "idle" /\ batch' = <<>>
\* 200, if the terminal still waits for it
Reply(h) ==
    /\ \/ Running(h, "reply")
       \/ Running(h, "dedupe") /\ handlers[h].todo = <<>> /\ handlers[h].fresh = <<>>
    /\ handlers' = [handlers EXCEPT ![h] = NoRequest]
    /\ IF ea = h THEN Answered ELSE UNCHANGED <<ea, batch>>
    /\ UNCHANGED <<vars, market, event, captured, spool, keys, table, announced>>
    /\ NoFault

\* Redis or Postgres refuses a step, or the process dies: 500 or no answer.
HandlerFails(h) ==
    /\ handlers[h] # NoRequest /\ Fault
    /\ handlers' = [handlers EXCEPT ![h] = NoRequest]
    /\ IF ea = h THEN SpoolBatch
       ELSE UNCHANGED <<vars, market, terminal>>
    /\ UNCHANGED <<keys, table, announced, abandoned>>

Handle(h) == Dedupe(h) \/ Insert(h) \/ Announce(h) \/ Reply(h)

TickNext ==
    \/ \E step \in {0, 1} : Quote(step)
    \/ OnTick \/ OnTimer \/ Fill \/ Refused \/ Timeout \/ Reload \/ TerminalDies
    \/ \E h \in Handlers : PostBatch(h) \/ Handle(h) \/ HandlerFails(h)

TickSpec == TickInit /\ [][TickNext]_allVars

-----------------------------------------------------------------------------
\* The ticks on their way, those of abandoned requests included
OnTheWay == ToSet(Live) \union ToSet(batch)
            \union UNION {ToSet(handlers[h].todo) \union ToSet(handlers[h].fresh) :
                             h \in Handlers}

Request == [pc : {"free", "dedupe", "announce", "reply"},
            todo : Seq(Items), fresh : Seq(Items)]

\* The invariant of the types, with that of the queue.
TickTypeOK ==
    /\ TypeOK
    /\ market \in Items /\ event \in BOOLEAN /\ captured \subseteq Items
    /\ ea \in {"idle", "fill"} \union Handlers
    /\ batch \in Seq(Items) /\ Len(batch) <= MaxBatch
    /\ ea = "idle" => batch = <<>>
    /\ spool \in Seq(Seq(Items))
    /\ handlers \in [Handlers -> Request]
    /\ \A h \in Handlers :
         handlers[h].pc \in {"announce", "reply"} => handlers[h].fresh # <<>>
    /\ keys \subseteq 0 .. MaxQuotes /\ table \subseteq captured
    /\ announced \in Seq(table)
    /\ faults \in 0 .. MaxFaults /\ abandoned \in 0 .. faults

\* The live price goes back in time only after a request that has outlived
\* the timeout or the life of the terminal: it waits for one answer at a time.
AnnouncedInOrder ==
    abandoned = 0 =>
        \A i, j \in DOMAIN announced : i < j => announced[i].n < announced[j].n

\* The first tick captured under its eventId
First(t) == \A x \in captured : x.ms = t.ms => x.n >= t.n

\* Without a fault no captured tick goes missing but those that the queue has
\* dropped and counted, and those that share the eventId of an earlier one.
Missing == {t \in captured \ (OnTheWay \union table) : First(t)}
MissingOnlyDropped == faults = 0 => Cardinality(Missing) <= dropped

-----------------------------------------------------------------------------
(* Why these hold *)

\* An eventId that a request has taken with SET NX is nobody else's.
Taken(h) ==
    \A t \in ToSet(handlers[h].fresh) :
        /\ t.ms \in keys
        /\ IF handlers[h].pc \in {"announce", "reply"} THEN t \in table
           ELSE /\ \A row \in table : row.ms # t.ms
                /\ \A g \in Handlers \ {h} :
                      handlers[g].pc = "dedupe" =>
                         \A u \in ToSet(handlers[g].fresh) : u.ms # t.ms

\* Whatever is abandoned or fails: what moves was captured, and the market is
\* ahead of it.
DedupeInv ==
    /\ TickTypeOK
    /\ market.ms <= market.n
    /\ ToSet(Live) \union ToSet(batch) \subseteq captured
    /\ \A t \in captured : t.n <= market.n /\ (event => t.n < market.n)
    /\ \A row \in table : row.ms \in keys
    /\ \A h \in Handlers :
         /\ handlers[h].pc = "free" => handlers[h] = NoRequest
         /\ handlers[h].pc # "dedupe" => handlers[h].todo = <<>>
         /\ ToSet(handlers[h].todo) \union ToSet(handlers[h].fresh) \subseteq captured
         /\ Taken(h)

\* The ticks that SET NX has still to see
Behind == ToSet(Live) \union (IF ea = "fill" THEN ToSet(batch) ELSE {})
          \union UNION {ToSet(handlers[h].todo) : h \in Handlers}

Unannounced ==
    Behind \union UNION {ToSet(handlers[h].fresh) :
                            h \in {g \in Handlers : handlers[g].pc # "reply"}}

Increasing(s) == \A i, j \in DOMAIN s : i < j => s[i].n < s[j].n

\* The terminal waits for the one request under way. A tick of its batch that
\* the request no longer has is a duplicate.
Serial ==
    \A h \in Handlers :
        LET left == ToSet(handlers[h].todo) \union ToSet(handlers[h].fresh)
        IN  /\ handlers[h] # NoRequest => ea = h
            /\ Increasing(handlers[h].todo)
            /\ left \subseteq ToSet(batch)
            /\ ea = h => \A b \in ToSet(batch) : b \in left \/ ~First(b)

\* The ticks pass every station in the order of the market.
InLine ==
    /\ Increasing(Live) /\ Increasing(batch) /\ Increasing(announced)
    /\ \A b \in ToSet(batch), t \in ToSet(Live) : b.n < t.n
    /\ \A a \in ToSet(announced), t \in Unannounced : a.n < t.n
    /\ \A k \in keys :
          \E x \in captured : x.ms = k /\ \A t \in Behind : x.n < t.n

OrderInv == DedupeInv /\ (abandoned = 0 => Serial /\ InLine)

LossInv == OrderInv /\ IsFiniteSet(captured) /\ MissingOnlyDropped
=============================================================================
