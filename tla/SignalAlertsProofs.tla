------------------------- MODULE SignalAlertsProofs -------------------------
(***************************************************************************)
(* For every number of chats, overlapping polls, broadcasts, commands and  *)
(* faults: a broadcast reaches whoever is subscribed throughout it and     *)
(* nobody else, and Telegram never drops a command that no handler has     *)
(* taken up. AlertsInv of SignalAlerts is the inductive invariant.         *)
(***************************************************************************)
EXTENDS SignalAlerts, FiniteSetTheorems, TLAPS

-----------------------------------------------------------------------------
(* Numbers *)

LEMMA MaxOfFinite ==
    ASSUME NEW S \in SUBSET Int, IsFiniteSet(S), S # {}
    PROVE  Max(S) \in S /\ \A x \in S : x <= Max(S)
<1> DEFINE Above(x) == {y \in S : y > x}
           family == {Above(x) : x \in S}
<1>1. family \subseteq FiniteSubsetsOf(S) /\ family # {}
  <2>1. \A T \in family : T \in SUBSET S
        OBVIOUS
  <2>2. family # {}
        OBVIOUS
  <2> HIDE DEF family
  <2> QED BY <2>1, <2>2, FS_FiniteSubsetsOfFinite
<1>2. PICK A \in family : \A B \in family : ~(<<B, A>> \in StrictSubsetOrdering(S))
      BY <1>1, FS_StrictSubsetOrderingWellFounded, WFMin
<1>3. PICK x \in S : A = Above(x)
      OBVIOUS
<1>4. ASSUME NEW y \in S, y > x
      PROVE  FALSE
  <2>1. x \in Int /\ y \in Int /\ \A z \in S : z \in Int
        OBVIOUS
  <2>2. ~(y > y) /\ \A z \in S : z > y => z > x
        BY <1>4, <2>1
  <2>3. Above(y) \subseteq Above(x) /\ y \in Above(x) /\ y \notin Above(y)
        BY <1>4, <2>2
  <2>4. Above(y) \in SUBSET S /\ Above(x) \in SUBSET S /\ Above(y) \in family
        OBVIOUS
  <2> HIDE DEF Above, family
  <2>5. <<Above(y), Above(x)>> \in StrictSubsetOrdering(S)
        BY <2>3, <2>4 DEF StrictSubsetOrdering
  <2> QED BY <1>2, <1>3, <2>4, <2>5
<1>5. \E z \in S : \A y \in S : z >= y
      BY <1>4
<1> QED BY <1>5 DEF Max

LEMMA MaxOfTwo ==
    ASSUME NEW a \in Int, NEW b \in Int
    PROVE  Max({a, b}) \in {a, b} /\ a <= Max({a, b}) /\ b <= Max({a, b})
<1>1. \E z \in {a, b} : \A y \in {a, b} : z >= y
      OBVIOUS
<1> QED BY <1>1 DEF Max

LEMMA ElementOf ==
    ASSUME NEW S, NEW s \in Seq(S), NEW k \in 1 .. Len(s)
    PROVE  s[k] \in S
OBVIOUS

\* The next offset is the old one or follows an update that was received, and
\* it lies behind all of them.
LEMMA NextOffsetIs ==
    ASSUME TypeOK, NEW ids \in SUBSET Updates
    PROVE  /\ NextOffset(ids) \in 0 .. Len(sent) + 1
           /\ \A n \in Updates :
                 n < NextOffset(ids) => n < offset \/ \E k \in ids : n <= k
<1> DEFINE S == {offset} \union {k + 1 : k \in ids}
<1>1. Len(sent) \in Nat /\ offset \in 0 .. Len(sent) + 1
      BY DEF TypeOK
<1>2. S \in SUBSET (0 .. Len(sent) + 1) /\ S # {}
      BY <1>1 DEF Updates
<1>3. IsFiniteSet(0 .. Len(sent) + 1)
      BY <1>1, FS_Interval
<1>4. IsFiniteSet(S)
      BY <1>2, <1>3, FS_Subset
<1>5. Max(S) \in S
  <2>1. S \in SUBSET Int
        BY <1>1, <1>2
  <2> HIDE DEF S
  <2> QED BY <1>2, <1>4, <2>1, MaxOfFinite
<1> DEFINE m == Max(S)
<1>6. m = NextOffset(ids)
      BY DEF NextOffset
<1>7. m = offset \/ \E k \in ids : m = k + 1
      BY <1>5
<1>8. m \in 0 .. Len(sent) + 1
      BY <1>2, <1>5
<1> HIDE DEF m, S
<1>9. \A n \in Updates : n < m => n < offset \/ \E k \in ids : n <= k
      BY <1>1, <1>7 DEF Updates
<1> QED BY <1>6, <1>8, <1>9

-----------------------------------------------------------------------------
(* The parts of the invariant that a step leaves alone *)

\* The bot's part.
Bot == <<sent, confirmed, bot, offset, poll, running, taken, cut>>

\* The broadcasts keep their part when none of its variables changes.
LEMMA BroadcastSame ==
    ASSUME BroadcastInv, UNCHANGED <<subscribers, alert, owed, since>>
    PROVE  BroadcastInv'
BY DEF BroadcastInv

LEMMA OffsetsSame ==
    ASSUME OffsetsInv, UNCHANGED Bot
    PROVE  OffsetsInv'
BY DEF OffsetsInv, DroppedWasHanded, Handed, Updates, Bot

LEMMA InitInv == Init => AlertsInv
<1> SUFFICES ASSUME Init PROVE AlertsInv
    OBVIOUS
<1>1. TypeOK
      BY BoundsAssumption DEF Init, TypeOK, Updates, IdlePoll, Quiet
<1>2. OffsetsInv
      BY DEF Init, OffsetsInv, DroppedWasHanded, Updates
<1>3. BroadcastInv
      BY DEF Init, BroadcastInv
<1> QED BY <1>1, <1>2, <1>3 DEF AlertsInv

-----------------------------------------------------------------------------
(* The bot *)

LEMMA CommandKeeps ==
    ASSUME AlertsInv, NEW c \in Users, NEW cmd \in {"start", "stop"},
           Command(c, cmd)
    PROVE  AlertsInv'
<1> USE DEF AlertsInv, Command, botVars
<1>1. /\ Len(sent) \in Nat /\ Len(sent') = Len(sent) + 1
      /\ sent' \in Seq([chat : Users, cmd : {"start", "stop"}])
      /\ Updates' = 1 .. Len(sent) + 1 /\ Updates = 1 .. Len(sent)
      BY DEF TypeOK, Updates
<1>2. Updates \subseteq Updates' /\ Len(sent') <= MaxUpdates
      BY <1>1, BoundsAssumption DEF TypeOK
<1>3. TypeOK'
  <2>1. confirmed' \in 0 .. Len(sent') /\ offset' \in 0 .. Len(sent') + 1
        BY <1>1 DEF TypeOK
  <2>2. 0 .. Len(sent) + 1 \subseteq 0 .. Len(sent') + 1
        BY <1>1
  <2>3. poll' \in [Polls -> {IdlePoll}
                     \union [pc : {"asked"}, from : 0 .. Len(sent') + 1]
                     \union [pc : {"answered"}, ids : SUBSET Updates']]
    <3>1. \A p \in Polls :
            poll[p] \in {IdlePoll}
                     \union [pc : {"asked"}, from : 0 .. Len(sent') + 1]
                     \union [pc : {"answered"}, ids : SUBSET Updates']
          BY <1>2, <2>2 DEF TypeOK
    <3> QED BY <3>1 DEF TypeOK
  <2>4. \A n \in 1 .. MaxUpdates : running'[n] > 0 => n \in Updates'
        BY <1>2 DEF TypeOK
  <2> QED BY <1>1, <1>2, <2>1, <2>3, <2>4 DEF TypeOK
<1>4. OffsetsInv'
  <2> DEFINE new == Len(sent) + 1
  <2>1. Updates' = Updates \union {new} /\ new \notin Updates
        BY <1>1
  <2>2. ~(new < offset) /\ confirmed' = confirmed
        BY <1>1 DEF TypeOK
  <2>3. \A p \in Polls :
           /\ poll[p].pc = "asked" => ~(new < poll[p].from)
           /\ poll[p].pc = "answered" => ~(\E k \in poll[p].ids : new < k)
        BY <1>1 DEF TypeOK, IdlePoll
  <2> HIDE DEF new
  <2> QED BY <2>1, <2>2, <2>3 DEF OffsetsInv, DroppedWasHanded, Handed
<1>5. BroadcastInv'
      BY BroadcastSame
<1> QED BY <1>3, <1>4, <1>5

LEMMA BootKeeps == ASSUME AlertsInv, Boot PROVE AlertsInv'
<1>1. TypeOK'
      BY DEF AlertsInv, Boot, TypeOK, Updates
<1>2. OffsetsInv'
      BY DEF AlertsInv, Boot, OffsetsInv, DroppedWasHanded, Handed, Updates
<1>3. BroadcastInv'
      BY BroadcastSame DEF AlertsInv, Boot
<1> QED BY <1>1, <1>2, <1>3 DEF AlertsInv

LEMMA StartPollKeeps ==
    ASSUME AlertsInv, NEW p \in Polls, StartPoll(p)
    PROVE  AlertsInv'
<1> USE DEF AlertsInv, StartPoll, SetPoll
<1>1. poll' = [poll EXCEPT ![p] = [pc |-> "asked", from |-> offset]]
      /\ poll \in [Polls -> {IdlePoll}
                     \union [pc : {"asked"}, from : 0 .. Len(sent) + 1]
                     \union [pc : {"answered"}, ids : SUBSET Updates]]
      BY DEF TypeOK
<1>2. TypeOK'
      BY <1>1 DEF TypeOK, Updates
<1>3. OffsetsInv'
  <2>1. \A q \in Polls : q = p \/ poll'[q] = poll[q]
        BY <1>1
  <2>2. poll'[p].pc = "asked" /\ poll'[p].from = offset
        BY <1>1
  <2> QED BY <2>1, <2>2 DEF OffsetsInv, DroppedWasHanded, Handed, Updates
<1>4. BroadcastInv'
      BY BroadcastSame
<1> QED BY <1>2, <1>3, <1>4

LEMMA ServeKeeps ==
    ASSUME AlertsInv, NEW p \in Polls, Serve(p)
    PROVE  AlertsInv'
<1> USE DEF AlertsInv, Serve, SetPoll
<1> DEFINE from == poll[p].from
           ids  == confirmed' + 1 .. Len(sent)
<1>1. /\ Len(sent) \in Nat /\ confirmed \in 0 .. Len(sent)
      /\ from \in 0 .. Len(sent) + 1
      BY DEF TypeOK, IdlePoll
<1>2. confirmed' = Max({confirmed, from - 1})
      OBVIOUS
<1>3. confirmed' \in 0 .. Len(sent) /\ confirmed' \in {confirmed, from - 1}
  <2> HIDE DEF from
  <2>1. confirmed \in Int /\ from - 1 \in Int
        BY <1>1
  <2>2. confirmed' \in {confirmed, from - 1} /\ confirmed <= confirmed'
        BY <1>2, <2>1, MaxOfTwo
  <2> QED BY <1>1, <2>2
<1>4. poll' = [poll EXCEPT ![p] = [pc |-> "answered", ids |-> ids]]
      /\ ids \in SUBSET Updates
      BY <1>1, <1>3 DEF Updates
<1>5. TypeOK'
  <2> HIDE DEF ids, from
  <2>1. poll' \in [Polls -> {IdlePoll}
                     \union [pc : {"asked"}, from : 0 .. Len(sent) + 1]
                     \union [pc : {"answered"}, ids : SUBSET Updates]]
    <3>1. poll \in [Polls -> {IdlePoll}
                     \union [pc : {"asked"}, from : 0 .. Len(sent) + 1]
                     \union [pc : {"answered"}, ids : SUBSET Updates]]
          BY DEF TypeOK
    <3> QED BY ONLY <1>4, <3>1
  <2> QED BY <1>3, <2>1 DEF TypeOK, Updates
<1>6. \A n \in 1 .. confirmed' : Handed(n)
  <2>1. \A n \in 1 .. confirmed : Handed(n)
        BY DEF OffsetsInv, DroppedWasHanded
  <2>2. \A n \in Updates : n < from => Handed(n)
        BY DEF OffsetsInv
  <2> HIDE DEF from
  <2> QED BY <1>1, <1>3, <2>1, <2>2 DEF Updates
<1>7. OffsetsInv'
  <2>1. \A q \in Polls : q = p \/ poll'[q] = poll[q]
        BY <1>4
  <2>2. poll'[p].pc = "answered" /\ poll'[p].ids = ids
        BY <1>4 DEF TypeOK
  <2>3. \A n \in Updates : n \in ids \/ Handed(n)
    <3>1. \A n \in Updates : n \in 1 .. confirmed' \/ n \in ids
          BY <1>1, <1>3 DEF Updates
    <3> QED BY <1>6, <3>1
  <2> HIDE DEF ids
  <2> QED BY <1>6, <2>1, <2>2, <2>3 DEF OffsetsInv, DroppedWasHanded, Handed, Updates
<1>8. BroadcastInv'
      BY BroadcastSame
<1> QED BY <1>5, <1>7, <1>8

\* A handler starts for every update of the answer.
LEMMA ReceiveKeeps ==
    ASSUME AlertsInv, NEW p \in Polls, Receive(p)
    PROVE  AlertsInv'
<1> USE DEF AlertsInv, Receive, SetPoll
<1> DEFINE ids == poll[p].ids
<1>1. ids \in SUBSET Updates /\ Len(sent) \in Nat
      BY DEF TypeOK, IdlePoll
<1>2. /\ offset' = NextOffset(ids) /\ poll' = [poll EXCEPT ![p] = IdlePoll]
      /\ UNCHANGED <<sent, confirmed, taken, cut>>
      OBVIOUS
<1>3. running \in [1 .. MaxUpdates -> Nat] /\ Updates \subseteq 1 .. MaxUpdates
      BY BoundsAssumption DEF TypeOK, Updates
<1>4. /\ running' \in [1 .. MaxUpdates -> Nat]
      /\ \A n \in 1 .. MaxUpdates :
            running'[n] = running[n] + (IF n \in ids THEN 1 ELSE 0)
      BY <1>3
<1> HIDE DEF ids
<1>5. TypeOK'
  <2>1. offset' \in 0 .. Len(sent) + 1
        BY <1>1, <1>2, NextOffsetIs
  <2>2. poll' \in [Polls -> {IdlePoll}
                     \union [pc : {"asked"}, from : 0 .. Len(sent) + 1]
                     \union [pc : {"answered"}, ids : SUBSET Updates]]
        BY <1>2 DEF TypeOK
  <2>3. \A n \in 1 .. MaxUpdates : running'[n] > 0 => n \in Updates
        BY <1>1, <1>3, <1>4 DEF TypeOK
  <2> QED BY <1>4, <2>1, <2>2, <2>3 DEF TypeOK, Updates
<1>6. \A n \in Updates : (n \in ids => Handed(n)') /\ (Handed(n) => Handed(n)')
  <2> TAKE n \in Updates
  <2>1. running[n] \in Nat /\ running'[n] = running[n] + (IF n \in ids THEN 1 ELSE 0)
        BY <1>3, <1>4
  <2>2. (n \in ids => running'[n] > 0) /\ (running[n] > 0 => running'[n] > 0)
        BY <2>1
  <2> QED BY <1>2, <2>2 DEF Handed
<1>7. OffsetsInv'
  <2>1. \A q \in Polls : poll'[q] = IdlePoll \/ poll'[q] = poll[q]
        BY <1>2 DEF TypeOK
  <2>2. \A n \in Updates : (\E k \in ids : n <= k) => n \in ids \/ Handed(n)
    <3>1. \A n \in Updates : (\E k \in ids : n < k) => n \in ids \/ Handed(n)
          BY DEF OffsetsInv, ids
    <3> QED BY <1>1, <3>1 DEF Updates
  <2>3. \A n \in Updates : n < offset' => Handed(n)'
    <3> SUFFICES ASSUME NEW n \in Updates, n < offset'
                PROVE  Handed(n)'
                OBVIOUS
    <3>1. n < offset \/ \E k \in ids : n <= k
          BY <1>1, <1>2, NextOffsetIs
    <3> QED BY <1>6, <2>2, <3>1 DEF OffsetsInv
  <2>4. \A n \in 1 .. confirmed : n \in Updates
        BY DEF TypeOK, Updates
  <2>5. DroppedWasHanded'
        BY <1>2, <1>6, <2>4 DEF OffsetsInv, DroppedWasHanded
  <2>6. \A q \in Polls, n \in Updates :
          /\ poll'[q].pc = "asked" /\ n < poll'[q].from => Handed(n)'
          /\ poll'[q].pc = "answered" /\ (\E k \in poll'[q].ids : n < k)
                => n \in poll'[q].ids \/ Handed(n)'
        BY <1>6, <2>1 DEF OffsetsInv, IdlePoll
  <2>7. Updates' = Updates
        BY <1>2 DEF Updates
  <2> QED BY <2>3, <2>5, <2>6, <2>7 DEF OffsetsInv
<1>8. BroadcastInv'
      BY BroadcastSame
<1> QED BY <1>5, <1>7, <1>8

LEMMA PollFailsKeeps ==
    ASSUME AlertsInv, NEW p \in Polls, PollFails(p)
    PROVE  AlertsInv'
<1> USE DEF AlertsInv, PollFails, SetPoll
<1>1. poll' = [poll EXCEPT ![p] = IdlePoll]
      OBVIOUS
<1>2. TypeOK'
      BY <1>1 DEF TypeOK, Updates
<1>3. OffsetsInv'
  <2>1. \A q \in Polls : poll'[q] = IdlePoll \/ poll'[q] = poll[q]
        BY <1>1 DEF TypeOK
  <2> QED BY <2>1 DEF OffsetsInv, DroppedWasHanded, Handed, Updates, IdlePoll
<1>4. BroadcastInv'
      BY BroadcastSame
<1> QED BY <1>2, <1>3, <1>4

\* A command is carried out, while signals are being sent.
LEMMA HandleKeeps ==
    ASSUME AlertsInv, NEW n \in 1 .. MaxUpdates, Handle(n)
    PROVE  AlertsInv'
<1> USE DEF AlertsInv, Handle
<1>1. /\ n \in Updates /\ sent[n] \in [chat : Users, cmd : {"start", "stop"}]
      /\ running[n] \in Nat /\ running[n] > 0
  <2>1. n \in Updates /\ running[n] \in Nat /\ running[n] > 0
        BY DEF TypeOK
  <2>2. \A k \in Updates : sent[k] \in [chat : Users, cmd : {"start", "stop"}]
        BY ElementOf DEF TypeOK, Updates
  <2> QED BY <2>1, <2>2
<1>2. subscribers' \subseteq Chats
      BY <1>1, UsersAssumption DEF Subscribed, TypeOK
<1>3. /\ running' \in [1 .. MaxUpdates -> Nat]
      /\ \A k \in 1 .. MaxUpdates :
            k # n => running'[k] = running[k]
  <2>1. \A m \in Nat : m > 0 => m - 1 \in Nat
        OBVIOUS
  <2>2. running[n] - 1 \in Nat
        BY <1>1, <2>1
  <2> QED BY <2>2 DEF TypeOK
<1>4. TypeOK'
  <2>1. \A k \in 1 .. MaxUpdates : running'[k] > 0 => k \in Updates
        BY <1>1, <1>3 DEF TypeOK
  <2>2. owed' \in [Signals -> SUBSET Chats] /\ since' \in [Signals -> SUBSET Chats]
        BY <1>2 DEF TypeOK
  <2> QED BY <1>2, <1>3, <2>1, <2>2 DEF TypeOK, Updates
<1>5. OffsetsInv'
  <2>1. \A k \in 1 .. MaxUpdates : Handed(k) => Handed(k)'
        BY <1>3 DEF Handed
  <2>2. Updates \subseteq 1 .. MaxUpdates /\ 1 .. confirmed \subseteq Updates
        BY BoundsAssumption DEF TypeOK, Updates
  <2>3. Updates' = Updates
        BY DEF Updates
  <2> QED BY <2>1, <2>2, <2>3 DEF OffsetsInv, DroppedWasHanded
<1>6. BroadcastInv'
  <2> SUFFICES ASSUME NEW s \in Signals, alert[s] # Quiet
              PROVE  /\ owed'[s] \subseteq subscribers' /\ subscribers' \subseteq since'[s]
                     /\ alert[s].pc = "send" =>
                        /\ owed'[s] \subseteq alert[s].left \union alert[s].tried
                        /\ alert[s].left \union alert[s].tried \subseteq since'[s]
              BY DEF BroadcastInv
  <2>1. owed'[s] = owed[s] \intersect subscribers'
        /\ since'[s] = since[s] \union subscribers'
        OBVIOUS
  <2> QED BY <2>1 DEF BroadcastInv
<1> QED BY <1>4, <1>5, <1>6

-----------------------------------------------------------------------------
(* The broadcasts *)

\* Only the broadcast of s and its part of the history change.
LEMMA BroadcastStep ==
    ASSUME AlertsInv, NEW s \in Signals, UNCHANGED <<Bot, subscribers>>,
           NEW a, NEW o \in SUBSET Chats, NEW h \in SUBSET Chats,
           a \in {Quiet, [pc |-> "list"]}
              \union [pc : {"send"}, left : SUBSET Chats, tried : SUBSET Chats],
           alert' = [alert EXCEPT ![s] = a],
           owed' = [owed EXCEPT ![s] = o], since' = [since EXCEPT ![s] = h],
           a # Quiet =>
              /\ o \subseteq subscribers /\ subscribers \subseteq h
              /\ a.pc = "send" =>
                    /\ o \subseteq a.left \union a.tried
                    /\ a.left \union a.tried \subseteq h
    PROVE  AlertsInv'
<1>1. TypeOK'
      BY DEF AlertsInv, TypeOK, Updates, Bot
<1>2. OffsetsInv'
      BY OffsetsSame DEF AlertsInv
<1>3. BroadcastInv'
  <2>1. alert'[s] = a /\ owed'[s] = o /\ since'[s] = h
        BY DEF AlertsInv, TypeOK
  <2>2. \A r \in Signals : r = s \/ (/\ alert'[r] = alert[r] /\ owed'[r] = owed[r]
                                     /\ since'[r] = since[r])
        BY DEF AlertsInv, TypeOK
  <2> QED BY <2>1, <2>2 DEF AlertsInv, BroadcastInv
<1> QED BY <1>1, <1>2, <1>3 DEF AlertsInv

LEMMA BroadcastKeeps ==
    ASSUME AlertsInv, NEW s \in Signals, Broadcast(s)
    PROVE  AlertsInv'
<1>1. /\ subscribers \in SUBSET Chats
      /\ alert[s] \in {Quiet, [pc |-> "list"]}
            \union [pc : {"send"}, left : SUBSET Chats, tried : SUBSET Chats]
      /\ owed[s] \in SUBSET Chats /\ since[s] \in SUBSET Chats
      /\ owed = [owed EXCEPT ![s] = owed[s]] /\ since = [since EXCEPT ![s] = since[s]]
      BY DEF AlertsInv, TypeOK
<1>2. alert[s] # Quiet =>
        /\ owed[s] \subseteq subscribers /\ subscribers \subseteq since[s]
        /\ alert[s].pc = "send" =>
              /\ owed[s] \subseteq alert[s].left \union alert[s].tried
              /\ alert[s].left \union alert[s].tried \subseteq since[s]
      BY DEF AlertsInv, BroadcastInv
<1>3. CASE Create(s)
  <2>1. UNCHANGED <<Bot, subscribers>>
        BY <1>3 DEF Create, Bot, chatVars, botVars
  <2> QED BY <1>1, <1>3, <2>1, BroadcastStep DEF Create, Quiet
<1>4. CASE ListSubscribers(s)
  <2> DEFINE a == Sending(subscribers, {})
  <2>1. UNCHANGED <<Bot, subscribers>> /\ alert' = [alert EXCEPT ![s] = a]
        /\ UNCHANGED <<owed, since>>
        BY <1>4 DEF ListSubscribers, Alert, Bot, chatVars, botVars
  <2>2. /\ a \in [pc : {"send"}, left : SUBSET Chats, tried : SUBSET Chats]
        /\ a.pc = "send" /\ a.left = subscribers /\ a.tried = {}
        BY <1>1 DEF Sending
  <2>3. alert[s] # Quiet
        BY <1>4 DEF ListSubscribers, Quiet
  <2> HIDE DEF a
  <2> QED BY <1>1, <1>2, <2>1, <2>2, <2>3, BroadcastStep
<1>5. ASSUME NEW c \in Chats, Send(s, c)
      PROVE  AlertsInv'
  <2>1. PICK ok \in BOOLEAN : Alert(s, AfterSend(alert[s], c, ok))
        BY <1>5 DEF Send
  <2> DEFINE a == AfterSend(alert[s], c, ok)
  <2>2. UNCHANGED <<Bot, subscribers>> /\ alert' = [alert EXCEPT ![s] = a]
        /\ UNCHANGED <<owed, since>>
        BY <1>5, <2>1 DEF Send, Alert, Bot, chatVars, botVars
  <2>3. alert[s] # Quiet /\ alert[s].pc = "send" /\ c \in alert[s].left
        BY <1>5 DEF Send, Quiet
  <2>4. /\ a.pc = "send" /\ a.left = alert[s].left \ {c}
        /\ a.tried = alert[s].tried \union {c}
        BY DEF AfterSend, Sending
  <2>5. a \in [pc : {"send"}, left : SUBSET Chats, tried : SUBSET Chats]
    <3>1. alert[s].left \in SUBSET Chats /\ alert[s].tried \in SUBSET Chats
          BY <1>1, <2>3 DEF Quiet
    <3> QED BY <3>1 DEF AfterSend, Sending
  <2> HIDE DEF a
  <2>6. a.left \union a.tried = alert[s].left \union alert[s].tried
        BY <2>3, <2>4
  <2> QED BY <1>1, <1>2, <2>2, <2>3, <2>4, <2>5, <2>6, BroadcastStep
<1>6. CASE EndAlert(s)
  <2>1. /\ UNCHANGED <<Bot, subscribers>> /\ alert' = [alert EXCEPT ![s] = Quiet]
        /\ owed' = [owed EXCEPT ![s] = {}] /\ since' = [since EXCEPT ![s] = {}]
        BY <1>6 DEF EndAlert, Alert, Bot, chatVars, botVars
  <2> QED BY <2>1, BroadcastStep
<1> QED BY <1>3, <1>4, <1>5, <1>6, Broadcast(s) DEF Broadcast

-----------------------------------------------------------------------------
(* The death of the worker *)

LEMMA CrashKeeps == ASSUME AlertsInv, Crash PROVE AlertsInv'
<1> USE DEF AlertsInv, Crash
<1>1. TypeOK'
      BY DEF TypeOK, Updates, IdlePoll, Quiet
<1>2. \A n \in 1 .. MaxUpdates : Handed(n) => Handed(n)'
      BY DEF Handed
<1>3. OffsetsInv'
  <2>1. 1 .. confirmed \subseteq 1 .. MaxUpdates /\ Updates' = 1 .. Len(sent)
        BY BoundsAssumption DEF TypeOK, Updates
  <2>2. \A p \in Polls : poll'[p].pc = "idle"
        BY DEF IdlePoll
  <2>3. \A n \in 1 .. Len(sent) : ~(n < offset')
        BY DEF TypeOK
  <2> QED BY <1>2, <2>1, <2>2, <2>3 DEF OffsetsInv, DroppedWasHanded
<1>4. BroadcastInv'
      BY DEF BroadcastInv
<1> QED BY <1>1, <1>3, <1>4

LEMMA NextInv == AlertsInv /\ [Next]_vars => AlertsInv'
<1> SUFFICES ASSUME AlertsInv, [Next]_vars
            PROVE  AlertsInv'
            OBVIOUS
<1>1. CASE \E c \in Users, cmd \in {"start", "stop"} : Command(c, cmd)
      BY <1>1, CommandKeeps
<1>2. CASE Boot
      BY <1>2, BootKeeps
<1>3. CASE \E p \in Polls : Poll(p) \/ PollFails(p)
      BY <1>3, StartPollKeeps, ServeKeeps, ReceiveKeeps, PollFailsKeeps DEF Poll
<1>4. CASE \E n \in 1 .. MaxUpdates : Handle(n)
      BY <1>4, HandleKeeps
<1>5. CASE \E s \in Signals : Broadcast(s)
      BY <1>5, BroadcastKeeps
<1>6. CASE Crash
      BY <1>6, CrashKeeps
<1>7. CASE UNCHANGED vars
  <2>1. UNCHANGED Bot /\ UNCHANGED <<subscribers, alert, owed, since>>
        BY <1>7 DEF vars, botVars, Bot
  <2>2. TypeOK'
        BY <2>1 DEF AlertsInv, TypeOK, Updates, Bot
  <2> QED BY <2>1, <2>2, OffsetsSame, BroadcastSame DEF AlertsInv
<1> QED BY <1>1, <1>2, <1>3, <1>4, <1>5, <1>6, <1>7 DEF Next

LEMMA Invariant == Spec => []AlertsInv
<1> QED BY InitInv, NextInv, PTL DEF Spec

-----------------------------------------------------------------------------
(* Results *)

\* However commands, polls, broadcasts and deaths of the worker interleave:
\* whoever is subscribed throughout a broadcast is sent the signal, and nobody
\* who was not subscribed at some time since its creation.
THEOREM BroadcastCorrect == Spec => []BroadcastReaches
<1>1. AlertsInv => BroadcastReaches
      BY DEF AlertsInv, BroadcastInv, BroadcastReaches, Quiet
<1> QED BY <1>1, Invariant, PTL

\* The bot keeps its offset in memory, its polls overlap, fail and may be
\* answered out of turn: no update is acknowledged to Telegram before a handler
\* has taken it up (telegram-bot.ts 125-158).
THEOREM CommandsKept == Spec => []DroppedWasHanded
<1>1. AlertsInv => DroppedWasHanded
      BY DEF AlertsInv, OffsetsInv
<1> QED BY <1>1, Invariant, PTL
=============================================================================
