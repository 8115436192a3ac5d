---------------------------- MODULE SignalAlerts ----------------------------
(***************************************************************************)
(* What follows the creation of a signal without anybody waiting for it:   *)
(* the broadcast to the subscribers (apps/worker/src/analyzer.ts 323-331,  *)
(* notify.ts). Who subscribes is decided by the Telegram bot of the same   *)
(* process (telegram-bot.ts), whose polls overlap: a timer starts one      *)
(* every 3 seconds, and an idle one lasts 25. The gate that creates the    *)
(* signals is SignalAdmission; here a signal is created at any time.       *)
(*                                                                         *)
(* The messages to TELEGRAM_CHAT_ID and the replies of the bot change      *)
(* nothing the worker reads and are left out.                              *)
(***************************************************************************)
EXTENDS Integers, Sequences, FiniteSets, FiniteSetsExt

CONSTANTS
    Chats, Polls,
    Signals,      \* the signals whose broadcasts overlap
    Users,        \* bound: the chats that send commands
    MaxUpdates,   \* bound: commands the users send
    MaxFaults     \* bound: crashes, failed polls

ASSUME UsersAssumption == Users \subseteq Chats
ASSUME BoundsAssumption == MaxUpdates \in Nat \ {0}

VARIABLES
    sent, confirmed,         \* Telegram: the updates, those it has dropped
    bot, offset, poll,       \* runTelegramBot
    running,                 \* handlers at work on each update
    subscribers,             \* table telegram_subscribers
    alert,                   \* the broadcast of each signal
    faults,
    taken, cut,              \* history: updates handled, and cut short
    owed, since              \* history: during a broadcast, the chats subscribed
                             \*   ever since the creation, and at some time since

botVars  == <<bot, offset, poll, running>>
chatVars == <<sent, confirmed, botVars, taken, cut>>
vars == <<sent, confirmed, botVars, subscribers, alert, faults,
          taken, cut, owed, since>>

IdlePoll == [pc |-> "idle"]
Quiet    == [pc |-> "idle"]

Init == /\ sent = <<>> /\ confirmed = 0
        /\ bot = "boot" /\ offset = 0
        /\ poll = [p \in Polls |-> IdlePoll]
        /\ running = [i \in 1 .. MaxUpdates |-> 0]
        /\ subscribers \in SUBSET Chats
        /\ alert = [s \in Signals |-> Quiet]
        /\ faults = 0 /\ taken = {} /\ cut = {}
        /\ owed = [s \in Signals |-> {}]
        /\ since = [s \in Signals |-> {}]

-----------------------------------------------------------------------------
(* The bot *)

\* A user sends /start, or /stop or its button. (/status and /menu change
\* nothing.)
Command(c, cmd) == /\ Len(sent) < MaxUpdates
                   /\ sent' = Append(sent, [chat |-> c, cmd |-> cmd])
                   /\ UNCHANGED <<confirmed, botVars, subscribers, alert,
                         faults, taken, cut, owed, since>>

\* getMe; when it fails the bot stays off until the worker restarts.
Boot == /\ bot = "boot"
        /\ bot' \in {"on", "off"}
        /\ UNCHANGED <<sent, confirmed, offset, poll, running, subscribers,
              alert, faults, taken, cut, owed, since>>

SetPoll(p, new) ==
    /\ poll' = [poll EXCEPT ![p] = new]
    /\ UNCHANGED <<sent, bot, subscribers, alert, taken, cut, owed,
          since>>

\* The timer waits for no earlier poll.
StartPoll(p) == /\ bot = "on"
                /\ poll[p] = IdlePoll
                /\ SetPoll(p, [pc |-> "asked", from |-> offset])
                /\ UNCHANGED <<confirmed, offset, running, faults>>

\* Telegram drops what lies below the offset and answers with the rest.
Serve(p) == /\ poll[p].pc = "asked"
            /\ confirmed' = Max({confirmed, poll[p].from - 1})
            /\ SetPoll(p, [pc |-> "answered",
                           ids |-> confirmed' + 1 .. Len(sent)])
            /\ UNCHANGED <<offset, running, faults>>

\* Every update moves the offset and starts a handler nobody waits for.
OffsetOfNewest(ids) == IF ids = {} THEN offset ELSE Len(sent) + 1      \* mutant
NextOffset(ids) == Max({offset} \union {i + 1 : i \in ids})
Receive(p) == /\ poll[p].pc = "answered"
              /\ offset' = NextOffset(poll[p].ids)
              /\ running' = [i \in DOMAIN running |->
                    running[i] + (IF i \in poll[p].ids THEN 1 ELSE 0)]
              /\ SetPoll(p, IdlePoll)
              /\ UNCHANGED <<confirmed, faults>>

PollFails(p) == /\ poll[p] # IdlePoll
                /\ faults < MaxFaults
                /\ faults' = faults + 1
                /\ SetPoll(p, IdlePoll)
                /\ UNCHANGED <<confirmed, offset, running>>

\* handleMessage, handleCallback: one statement, then the reply. A statement
\* that fails is an unhandled rejection, which ends the process: see Crash.
Subscribed(u) == IF u.cmd = "start" THEN subscribers \union {u.chat}
                 ELSE subscribers \ {u.chat}

Handle(i) == /\ running[i] > 0
             /\ running' = [running EXCEPT ![i] = @ - 1]
             /\ subscribers' = Subscribed(sent[i])
             /\ owed' = [s \in Signals |-> owed[s] \intersect subscribers']
             /\ since' = [s \in Signals |-> IF alert[s] = Quiet THEN {}
                                            ELSE since[s] \union subscribers']
             /\ taken' = taken \union {i}
             /\ UNCHANGED <<sent, confirmed, bot, offset, poll, alert,
                   faults, cut>>

-----------------------------------------------------------------------------
(* After the gate *)

Create(s) == /\ alert[s] = Quiet
             /\ alert' = [alert EXCEPT ![s] = [pc |-> "list"]]
             /\ owed' = [owed EXCEPT ![s] = subscribers]
             /\ since' = [since EXCEPT ![s] = subscribers]
             /\ UNCHANGED <<chatVars, subscribers, faults>>

Alert(s, new) == /\ alert' = [alert EXCEPT ![s] = new]
                 /\ UNCHANGED <<chatVars, subscribers, faults>>

Sending(left, tried) == [pc |-> "send", left |-> left, tried |-> tried]

ListSubscribers(s) == /\ alert[s].pc = "list"
                      /\ Alert(s, Sending(subscribers, {}))
                      /\ UNCHANGED <<owed, since>>

\* All messages are started at once; each ends well or not on its own.
AllOrNothing(a, c, ok) ==                                              \* mutant
    Sending(IF ok THEN a.left \ {c} ELSE {}, a.tried \union {c})
AfterSend(a, c, ok) == Sending(a.left \ {c}, a.tried \union {c})

Send(s, c) == /\ alert[s].pc = "send"
              /\ c \in alert[s].left
              /\ \E ok \in BOOLEAN : Alert(s, AfterSend(alert[s], c, ok))
              /\ UNCHANGED <<owed, since>>

\* All are settled, or the query of the subscribers fails.
EndAlert(s) == /\ \/ alert[s].pc = "list"
                  \/ alert[s].pc = "send" /\ alert[s].left = {}
               /\ Alert(s, Quiet)
               /\ owed' = [owed EXCEPT ![s] = {}]
               /\ since' = [since EXCEPT ![s] = {}]

-----------------------------------------------------------------------------

\* The worker dies. The database, Redis and Telegram keep what they have; the
\* offset is gone, and so is whatever nobody was waiting for.
Crash == /\ faults < MaxFaults
         /\ faults' = faults + 1
         /\ bot' = "boot" /\ offset' = 0
         /\ poll' = [p \in Polls |-> IdlePoll]
         /\ running' = [i \in 1 .. MaxUpdates |-> 0]
         /\ cut' = cut \union {i \in 1 .. MaxUpdates : running[i] > 0}
         /\ alert' = [s \in Signals |-> Quiet]
         /\ owed' = [s \in Signals |-> {}]
         /\ since' = [s \in Signals |-> {}]
         /\ UNCHANGED <<sent, confirmed, subscribers, taken>>

Poll(p) == StartPoll(p) \/ Serve(p) \/ Receive(p)

Broadcast(s) == \/ Create(s) \/ ListSubscribers(s) \/ EndAlert(s)
                \/ \E c \in Chats : Send(s, c)

Next == \/ \E c \in Users, cmd \in {"start", "stop"} : Command(c, cmd)
        \/ Boot
        \/ \E p \in Polls : Poll(p) \/ PollFails(p)
        \/ \E i \in 1 .. MaxUpdates : Handle(i)
        \/ \E s \in Signals : Broadcast(s)
        \/ Crash

\* The timer starts polls, Telegram answers them, the event loop runs the
\* handlers. Nothing is assumed of the users and the broadcasts.
Fairness == /\ WF_vars(Boot)
            /\ \A p \in Polls : WF_vars(Poll(p))
            /\ \A i \in 1 .. MaxUpdates : WF_vars(Handle(i))

Spec == Init /\ [][Next]_vars /\ Fairness

-----------------------------------------------------------------------------
(* Properties *)

\* The bot acknowledges an update by the offset of a later poll, while older
\* polls with smaller offsets are still on their way and after failed ones:
\* every command is handled all the same, unless the worker dies with its
\* handler running or the bot could not be started (telegram-bot.ts 125-158).
EveryCommandTaken ==
    \A i \in 1 .. MaxUpdates :
        Len(sent) >= i ~> (i \in taken \union cut \/ bot = "off")

\* Whoever is subscribed from the creation of a signal to the end of its
\* broadcast is sent the signal, whatever becomes of the other messages, and
\* nobody is who was not subscribed at some time since (analyzer.ts 324-331,
\* notify.ts 69-71).
BroadcastReaches ==
    \A s \in Signals : alert[s].pc = "send" =>
        /\ owed[s] \subseteq alert[s].left \union alert[s].tried
        /\ alert[s].tried \subseteq since[s]

\* What Telegram has dropped some handler has taken up: is at work on it, has
\* done it or was cut short by the death of the worker. This is what remains
\* of EveryCommandTaken without fairness.
Handed(i) == running[i] > 0 \/ i \in taken \union cut
DroppedWasHanded == \A i \in 1 .. confirmed : Handed(i)

\* Why these two hold. Polls and offset never run ahead of the updates.
Updates == 1 .. Len(sent)
TypeOK ==
    /\ sent \in Seq([chat : Users, cmd : {"start", "stop"}])
    /\ Len(sent) <= MaxUpdates
    /\ confirmed \in 0 .. Len(sent) /\ offset \in 0 .. Len(sent) + 1
    /\ poll \in [Polls -> {IdlePoll}
                         \union [pc : {"asked"}, from : 0 .. Len(sent) + 1]
                         \union [pc : {"answered"}, ids : SUBSET Updates]]
    /\ running \in [1 .. MaxUpdates -> Nat]
    /\ \A i \in 1 .. MaxUpdates : running[i] > 0 => i \in Updates
    /\ subscribers \subseteq Chats
    /\ alert \in [Signals -> {Quiet, [pc |-> "list"]}
            \union [pc : {"send"}, left : SUBSET Chats, tried : SUBSET Chats]]
    /\ owed \in [Signals -> SUBSET Chats] /\ since \in [Signals -> SUBSET Chats]

\* What an offset acknowledges has been handed on, whether it is the bot's own
\* or on its way to Telegram; an answer leaves out only what has been.
OffsetsInv ==
    /\ DroppedWasHanded
    /\ \A i \in Updates : i < offset => Handed(i)
    /\ \A p \in Polls, i \in Updates :
          /\ poll[p].pc = "asked" /\ i < poll[p].from => Handed(i)
          /\ poll[p].pc = "answered" /\ (\E j \in poll[p].ids : i < j)
                => i \in poll[p].ids \/ Handed(i)

\* During a broadcast whoever is owed the signal is subscribed, and whoever is
\* or will be sent it has been since the creation.
BroadcastInv ==
    \A s \in Signals : alert[s] # Quiet =>
        /\ owed[s] \subseteq subscribers /\ subscribers \subseteq since[s]
        /\ alert[s].pc = "send" =>
              /\ owed[s] \subseteq alert[s].left \union alert[s].tried
              /\ alert[s].left \union alert[s].tried \subseteq since[s]

AlertsInv == TypeOK /\ OffsetsInv /\ BroadcastInv
=============================================================================
