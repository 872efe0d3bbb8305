------------------------------ MODULE AbsDeque -------------------------------
(***************************************************************************)
(* What a task deque promises: its owner works at one end, thieves take from *)
(* the other, it never holds more than its capacity, and nothing else moves. *)
(***************************************************************************)
EXTENDS Integers, Sequences

CONSTANTS Tasks, Takers, NoTask
VARIABLES
    items,      \* the tasks in the deque, oldest first
    capacity,   \* how many it may hold
    got         \* the task each taker took last

Init == items = <<>> /\ got = [p \in Takers |-> NoTask]

Push == \E x \in Tasks : items' = Append(items, x) /\ Len(items) < capacity' /\ UNCHANGED got
TakeLast(p) ==
    /\ items # <<>>
    /\ items' = SubSeq(items, 1, Len(items) - 1)
    /\ got' = [got EXCEPT ![p] = items[Len(items)]]
TakeFirst(p) ==
    /\ items # <<>>
    /\ items' = Tail(items)
    /\ got' = [got EXCEPT ![p] = Head(items)]

Next == Push \/ \E p \in Takers : TakeLast(p) \/ TakeFirst(p)
Spec == Init /\ [][Next]_<<items, got>>
=============================================================================
