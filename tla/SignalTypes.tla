---------------------------- MODULE SignalTypes ----------------------------
(***************************************************************************)
(* The vocabulary the signal modules share: the values of SignalStatus     *)
(* that the worker reads or writes, and the ladder of target levels.       *)
(* "NONE" is a signal that has not been created.                           *)
(***************************************************************************)
EXTENDS Integers, Sequences

PRE_ENTRY == {"WATCHING", "PRELIMINARY", "CONFIRMED"}
TP_HIT    == {"TP1_HIT", "TP2_HIT"}
TRACKED   == PRE_ENTRY \union {"ACTIVE"} \union TP_HIT
CLOSED    == {"COMPLETED", "STOPPED", "FAILED", "INVALIDATED", "EXPIRED"}
Statuses  == {"NONE"} \union TRACKED \union CLOSED

\* The status written for target level 1, 2, 3, and the one it follows.
RungUncapped == <<"TP1_HIT", "TP2_HIT", "TP3_HIT">>   \* mutant: no cap at 3
Rung == <<"TP1_HIT", "TP2_HIT", "COMPLETED">>
RungBelow(level) == IF level = 1 THEN "ACTIVE" ELSE Rung[level - 1]

=============================================================================
