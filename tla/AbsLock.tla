------------------------------- MODULE AbsLock -------------------------------
(***************************************************************************)
(* What a fair lock of kmp_lock.cpp promises: one owner at a time, threads   *)
(* that found the lock taken are served in the order in which they queued,   *)
(* and a queued thread is served in the end.  Nobody may take the lock past  *)
(* the queue, not even through omp_test_lock.                                *)
(***************************************************************************)
EXTENDS Integers, Sequences

CONSTANTS Threads, Free
VARIABLES
    owner,  \* the thread the lock belongs to, or Free
    queue   \* the threads that wait for it, in order

vars == <<owner, queue>>
Waiting == {queue[i] : i \in 1..Len(queue)}

Init == owner = Free /\ queue = <<>>

\* Acquire or test finds the lock free.
Grab(t) ==
    /\ owner = Free
    /\ owner' = t
    /\ UNCHANGED queue

Enqueue(t) ==
    /\ owner \notin {Free, t} /\ t \notin Waiting
    /\ queue' = Append(queue, t)
    /\ UNCHANGED owner

\* The owner gives the lock to the first in the queue.
Release(t) ==
    /\ owner = t
    /\ \/ queue = <<>> /\ owner' = Free /\ UNCHANGED queue
       \/ queue # <<>> /\ owner' = Head(queue) /\ queue' = Tail(queue)

Next == \E t \in Threads : Grab(t) \/ Enqueue(t) \/ Release(t)
Safety == Init /\ [][Next]_vars
Spec == Safety /\ \A t \in Threads : WF_vars(Release(t))
=============================================================================
