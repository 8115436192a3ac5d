-------------------------- MODULE SignalLifecycle --------------------------
(***************************************************************************)
(* What the worker promises about the life of a trading signal, without    *)
(* passes, snapshots or ticks: the status moves forward only, and the stop *)
(* is moved to the entry price once, after the first target.               *)
(***************************************************************************)
EXTENDS SignalTypes

CONSTANT Signals

VARIABLES
    status,       \* Signal.status
    managedStop   \* Signal.managedStop # null: the stop is at preferredEntry

vars == <<status, managedStop>>

Init == /\ status = [s \in Signals |-> "NONE"]
        /\ managedStop = [s \in Signals |-> FALSE]

Move(s, from, to) == /\ status[s] = from
                     /\ status' = [status EXCEPT ![s] = to]
                     /\ UNCHANGED managedStop

Publish(s)    == Move(s, "NONE", "CONFIRMED")
Enter(s)      == \E from \in PRE_ENTRY : Move(s, from, "ACTIVE")
Drop(s)       == \E from \in PRE_ENTRY, to \in {"EXPIRED", "INVALIDATED"} :
                    Move(s, from, to)
Lose(s)       == Move(s, "ACTIVE", "FAILED")
TakeProfit(s) == \E level \in 1 .. 3 : Move(s, RungBelow(level), Rung[level])
StopOut(s)    == managedStop[s] /\ \E from \in TP_HIT : Move(s, from, "STOPPED")

Protect(s) == /\ ~managedStop[s]
              /\ status[s] \in TP_HIT \union {"COMPLETED"}
              /\ managedStop' = [managedStop EXCEPT ![s] = TRUE]
              /\ UNCHANGED status

Next == \E s \in Signals : \/ Publish(s) \/ Enter(s) \/ Drop(s) \/ Lose(s)
                           \/ TakeProfit(s) \/ StopOut(s) \/ Protect(s)

Spec == Init /\ [][Next]_vars
=============================================================================
