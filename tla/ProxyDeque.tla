----------------------------- MODULE ProxyDeque ------------------------------
(***************************************************************************)
(* A thread outside the team gives the bottom half of a finished proxy task   *)
(* to a deque of the team (__kmp_give_task), doubling the ring when it is     *)
(* full.  The owner and the thieves go on as in TaskDeque.                    *)
(***************************************************************************)
EXTENDS TaskDeque

VARIABLES
    pass,       \* the giver's pass over the deques of the team; 0 when it gives nothing
    gift,       \* the task it gives
    sawFull     \* what its test without the lock found

giver == <<pass, gift, sawFull>>

ProxyInit == DequeInit /\ pass = 0 /\ gift = NoTask /\ sawFull = FALSE

TooBig == size \div InitialSize >= pass

GiveStart ==
    /\ pass = 0 /\ created < MaxTasks
    /\ created' = created + 1 /\ gift' = created'
    /\ pass' = 1 /\ sawFull' = FALSE
    /\ UNCHANGED <<ring, point, pushing, inline, got, taken>>

\* The test without the lock.  A full deque that has grown enough for this pass is
\* left alone; the next pass over the team allows it to grow further.
GiveLook ==
    /\ pass > 0 /\ ~sawFull
    /\ ntasks >= size
    /\ IF TooBig THEN pass' = pass * 2 /\ UNCHANGED sawFull
                 ELSE sawFull' = TRUE /\ UNCHANGED pass
    /\ UNCHANGED <<gift, dequeVars>>

\* __kmp_realloc_task_deque copies every slot from the head on, and sets the tail
\* behind the last one.
PutInGrown(x) ==
    /\ size' = 2 * size
    /\ head' = 0 /\ tail' = (size + 1) % (2 * size)
    /\ deque' = [i \in 0..(2 * size - 1) |->
                   IF i < size THEN deque[Wrap(head + i)] ELSE IF i = size THEN x ELSE NoTask]
    /\ ntasks' = ntasks + 1

\* Under the lock.  The branch that saw the deque full grows it without looking again.
Give ==
    /\ pass > 0
    /\ \/ sawFull /\ PutInGrown(gift)
       \/ ~sawFull /\ ntasks >= size /\ ~TooBig /\ PutInGrown(gift)
       \/ ~sawFull /\ ntasks < size /\ PutAtTail(gift)
    /\ pass' = 0 /\ gift' = NoTask /\ sawFull' = FALSE
    /\ UNCHANGED <<point, created, pushing, inline, got, taken>>

ProxyNext == (DequeNext /\ UNCHANGED giver) \/ GiveStart \/ GiveLook \/ Give
ProxySpec == ProxyInit /\ [][ProxyNext]_<<dequeVars, giver>>
----------------------------------------------------------------------------
\* A deque that grows keeps its content: a task is executed in place, waits in the
\* deque, is on its way in, or has been taken, once.
GivenOnce == \A x \in 1..created :
    taken[x] + Cardinality({i \in 1..ntasks : Items[i] = x})
             + (IF x \in inline \union {pushing, gift} THEN 1 ELSE 0) = 1
=============================================================================
