---------------------------- MODULE BoundedQueue ----------------------------
(***************************************************************************)
(* What CMmxmQueue promises its callers: a first-in first-out queue of at  *)
(* most MaxSize items (0 = no limit) that makes room for a new item by     *)
(* dropping the oldest, and counts what it drops.                          *)
(***************************************************************************)
EXTENDS Integers, Sequences

CONSTANTS Items, MaxSize

VARIABLES
    queue,     \* the live items, oldest first
    dropped,   \* how many were dropped
    popped     \* the item of the last Pop

Full == MaxSize > 0 /\ Len(queue) >= MaxSize

Init == queue = <<>> /\ dropped = 0 /\ popped = {}

Push(item) ==
    /\ queue' = Append(IF Full THEN Tail(queue) ELSE queue, item)
    /\ dropped' = IF Full THEN dropped + 1 ELSE dropped
    /\ UNCHANGED popped

Pop == /\ queue # <<>>
       /\ popped' = {Head(queue)}
       /\ queue' = Tail(queue)
       /\ UNCHANGED dropped

Clear == queue' = <<>> /\ UNCHANGED <<dropped, popped>>

Reinit == queue' = <<>> /\ dropped' = 0 /\ UNCHANGED popped

Next == (\E item \in Items : Push(item)) \/ Pop \/ Clear \/ Reinit

Spec == Init /\ [][Next]_<<queue, dropped, popped>>
=============================================================================
