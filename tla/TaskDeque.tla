------------------------------ MODULE TaskDeque ------------------------------
(***************************************************************************)
(* One thread's task deque in kmp_tasking.cpp: a ring that its owner pushes   *)
(* and pops at the tail and thieves take from at the head.  Everybody tests   *)
(* td_deque_ntasks without the lock first and again under it; whatever else   *)
(* happens between acquiring and releasing td_deque_lock is seen only by      *)
(* others that hold the lock, so a critical section is one step.              *)
(***************************************************************************)
EXTENDS Integers, Sequences, FiniteSets

CONSTANTS
    Owner, Thieves,
    InitialSize,    \* INITIAL_TASK_DEQUE_SIZE
    MaxTasks        \* bound on the tasks created

ASSUME SizeAssumption == InitialSize \in Nat \ {0} /\ MaxTasks \in Nat

Takers == Thieves \union {Owner}
NoTask == 0
Tasks == 1..MaxTasks

VARIABLES
    deque, size,    \* td_deque, td_deque_size
    head, tail,     \* td_deque_head, td_deque_tail
    ntasks,         \* td_deque_ntasks
    point,          \* control point of each thread
    created,        \* tasks created so far
    pushing,        \* the task its owner is pushing
    inline,         \* tasks that found the deque full and were executed at once
    got, taken      \* the last task each thread took; how often each task was taken

ring == <<deque, size, head, tail, ntasks>>
dequeVars == <<ring, point, created, pushing, inline, got, taken>>

DequeInit ==
    /\ size = InitialSize
    /\ deque = [i \in 0..(InitialSize - 1) |-> NoTask]
    /\ head = 0 /\ tail = 0 /\ ntasks = 0
    /\ point = [p \in Takers |-> "idle"]
    /\ created = 0 /\ pushing = NoTask /\ inline = {}
    /\ got = [p \in Takers |-> NoTask] /\ taken = [x \in Tasks |-> 0]

Wrap(i) == i % size     \* & TASK_DEQUE_MASK
At(p, where) == point[p] = where
Goto(p, where) == point' = [point EXCEPT ![p] = where]
Took(p, x) == got' = [got EXCEPT ![p] = x] /\ taken' = [taken EXCEPT ![x] = @ + 1]

----------------------------------------------------------------------------
\* __kmp_push_task: with the deque full, the task is not pushed but executed.
PushCheck ==
    /\ At(Owner, "idle") /\ created < MaxTasks
    /\ created' = created + 1
    /\ IF ntasks >= size
       THEN inline' = inline \union {created'} /\ UNCHANGED <<point, pushing>>
       ELSE pushing' = created' /\ Goto(Owner, "push") /\ UNCHANGED inline
    /\ UNCHANGED <<ring, got, taken>>

PutAtTail(x) ==
    /\ deque' = [deque EXCEPT ![tail] = x]
    /\ tail' = Wrap(tail + 1)
    /\ ntasks' = ntasks + 1
    /\ UNCHANGED <<size, head>>

Push ==
    /\ At(Owner, "push")
    /\ IF ntasks >= size THEN inline' = inline \union {pushing} /\ UNCHANGED ring
                         ELSE PutAtTail(pushing) /\ UNCHANGED inline
    /\ pushing' = NoTask
    /\ Goto(Owner, "idle")
    /\ UNCHANGED <<created, got, taken>>

----------------------------------------------------------------------------
\* __kmp_remove_my_task and __kmp_steal_task: the test without the lock.
Look(p) ==
    /\ At(p, "idle") /\ ntasks # 0
    /\ Goto(p, "take")
    /\ UNCHANGED <<ring, created, pushing, inline, got, taken>>

\* Somebody was faster, or the task breaks the scheduling constraint.
TakeNothing(p) ==
    /\ At(p, "take")
    /\ Goto(p, "idle")
    /\ UNCHANGED <<ring, created, pushing, inline, got, taken>>

PopUnchecked ==
    /\ At(Owner, "take")
    /\ tail' = Wrap(tail - 1) /\ Took(Owner, deque[tail'])
    /\ ntasks' = ntasks - 1
    /\ Goto(Owner, "idle")
    /\ UNCHANGED <<deque, size, head, created, pushing, inline>>
Pop ==
    /\ At(Owner, "take") /\ ntasks # 0
    /\ tail' = Wrap(tail - 1) /\ Took(Owner, deque[tail'])
    /\ ntasks' = ntasks - 1
    /\ Goto(Owner, "idle")
    /\ UNCHANGED <<deque, size, head, created, pushing, inline>>

StealNoWrap(p) ==
    /\ At(p, "take") /\ ntasks # 0
    /\ head' = head + 1 /\ Took(p, deque[head])
    /\ ntasks' = ntasks - 1
    /\ Goto(p, "idle")
    /\ UNCHANGED <<deque, size, tail, created, pushing, inline>>
Steal(p) ==
    /\ At(p, "take") /\ ntasks # 0
    /\ head' = Wrap(head + 1) /\ Took(p, deque[head])
    /\ ntasks' = ntasks - 1
    /\ Goto(p, "idle")
    /\ UNCHANGED <<deque, size, tail, created, pushing, inline>>

DequeNext ==
    \/ PushCheck \/ Push \/ Pop
    \/ \E p \in Takers : Look(p) \/ TakeNothing(p)
    \/ \E p \in Thieves : Steal(p)
DequeSpec == DequeInit /\ [][DequeNext]_dequeVars
----------------------------------------------------------------------------
DequeTypeOK ==
    /\ size \in Nat \ {0} /\ head \in 0..(size - 1) /\ tail \in 0..(size - 1)
    /\ ntasks \in 0..size
    /\ deque \in [0..(size - 1) -> Tasks \union {NoTask}]
    /\ point \in [Takers -> {"idle", "push", "take"}]
    /\ created \in 0..MaxTasks /\ pushing \in Tasks \union {NoTask} /\ inline \subseteq Tasks
    /\ got \in [Takers -> Tasks \union {NoTask}] /\ taken \in [Tasks -> Nat]

Items == [i \in 1..ntasks |-> deque[Wrap(head + i - 1)]]

Abs == INSTANCE AbsDeque WITH items <- Items, capacity <- size

\* The ring, its unlocked tests and its wrapped indices behave as a bounded deque.
Implements == Abs!Spec
=============================================================================
