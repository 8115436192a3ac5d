------------------------------ MODULE EaQueue ------------------------------
(***************************************************************************)
(* CMmxmQueue (mql5/Include/MmxmQueue.mqh): the queue of serialized        *)
(* payloads inside the terminal. It is an array that grows at the end and  *)
(* an index of the first live item; the dead prefix is cut off only when   *)
(* it is longer than CompactAbove and than half of the array.              *)
(***************************************************************************)
EXTENDS Integers, Sequences

CONSTANTS
    Items,
    MaxSize,        \* m_maxSize; 0 is "unlimited"
    CompactAbove,   \* 1024 in the code
    MaxDropped      \* bound on m_dropped

ASSUME QueueAssumption == /\ MaxSize \in Nat
                          /\ CompactAbove \in Nat
                          /\ MaxDropped \in Nat

VARIABLES
    items,     \* m_items
    head,      \* m_head, counted from 0 as in the code
    dropped,   \* m_dropped
    popped     \* the item the last Pop returned, as a set: empty before it

vars == <<items, head, dropped, popped>>

Init == items = <<>> /\ head = 0 /\ dropped = 0 /\ popped = {}

Size == Len(items) - head

MustCompact(h) == h > CompactAbove /\ h > Len(items) \div 2

\* Move the index to h, then CompactIfNeeded; `tail` is what Push appends.
NoIndexReset(h, tail) ==                                          \* mutant
    /\ items' = (IF MustCompact(h) THEN SubSeq(items, h + 1, Len(items))
                                   ELSE items) \o tail
    /\ head' = h
NeverCompact(h, tail) == items' = items \o tail /\ head' = h      \* mutant
Advance(h, tail) ==
    \/ /\ MustCompact(h)
       /\ items' = SubSeq(items, h + 1, Len(items)) \o tail
       /\ head' = 0
    \/ /\ ~MustCompact(h)
       /\ items' = items \o tail
       /\ head' = h

Overflowing == MaxSize > 0 /\ Size >= MaxSize

Push(item) == /\ ~Overflowing
              /\ items' = Append(items, item)
              /\ UNCHANGED <<head, dropped, popped>>

PushDropping(item) == /\ Overflowing
                      /\ dropped < MaxDropped
                      /\ Advance(head + 1, <<item>>)
                      /\ dropped' = dropped + 1
                      /\ UNCHANGED popped

\* Pop on an empty queue returns false and changes nothing.
Pop == /\ Size > 0
       /\ popped' = {items[head + 1]}
       /\ Advance(head + 1, <<>>)
       /\ UNCHANGED dropped

Clear == /\ items' = <<>>
         /\ head' = 0
         /\ UNCHANGED <<dropped, popped>>

\* The method Init, called again when the EA starts again.
Reinit == /\ items' = <<>>
          /\ head' = 0
          /\ dropped' = 0
          /\ UNCHANGED popped

Next == \/ \E item \in Items : Push(item) \/ PushDropping(item)
        \/ Pop
        \/ Clear
        \/ Reinit

Spec == Init /\ [][Next]_vars

-----------------------------------------------------------------------------
(* Properties *)

TypeOK == /\ items \in Seq(Items)
          /\ head \in 0 .. Len(items)
          /\ dropped \in 0 .. MaxDropped
          /\ popped \in SUBSET Items

\* The array stays within reach of the limit: a dead prefix longer than
\* CompactAbove is never longer than the live part, so at most
\* MaxSize + Max(CompactAbove, MaxSize) strings are held (MmxmQueue.mqh 64-73).
StorageBounded ==
    /\ head > CompactAbove => head <= Size
    /\ MaxSize > 0 => Size <= MaxSize

\* Whatever the index and the compaction do, callers see a bounded queue that
\* drops the oldest item first and pops in order (MmxmQueue.mqh 31-59).
Live == SubSeq(items, head + 1, Len(items))
Fifo == INSTANCE BoundedQueue WITH queue <- Live
ImplementsFifo == Fifo!Spec
=============================================================================
