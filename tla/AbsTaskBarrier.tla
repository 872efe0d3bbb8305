---------------------------- MODULE AbsTaskBarrier ----------------------------
(***************************************************************************)
(* What a barrier promises when the team has explicit tasks: it opens only   *)
(* when everybody has entered it and every task is complete, each task runs  *)
(* once, all tasks complete when everybody has entered, and everybody leaves *)
(* an open barrier.                                                          *)
(***************************************************************************)
EXTENDS Naturals

CONSTANTS Threads, Tasks
VARIABLES
    entered, left,  \* barriers each thread has entered, and left
    opened,         \* barriers that have opened
    pending, done   \* tasks created and not complete; tasks complete

vars == <<entered, left, opened, pending, done>>

Init ==
    /\ entered = [t \in Threads |-> 0] /\ left = [t \in Threads |-> 0]
    /\ opened = 0
    /\ pending = {} /\ done = {}

\* By a thread in its region, or by a task that is running.
Create(x) ==
    /\ x \notin pending \union done
    /\ pending # {} \/ \E t \in Threads : entered[t] = left[t]
    /\ pending' = pending \union {x}
    /\ UNCHANGED <<entered, left, opened, done>>

Complete(x) ==
    /\ x \in pending
    /\ pending' = pending \ {x} /\ done' = done \union {x}
    /\ UNCHANGED <<entered, left, opened>>

Enter(t) ==
    /\ entered[t] = left[t]
    /\ entered' = [entered EXCEPT ![t] = @ + 1]
    /\ UNCHANGED <<left, opened, pending, done>>

AllEntered == \A t \in Threads : entered[t] = opened + 1

Open ==
    /\ AllEntered
    /\ pending = {}
    /\ opened' = opened + 1
    /\ UNCHANGED <<entered, left, pending, done>>

Leave(t) ==
    /\ left[t] < entered[t] /\ entered[t] <= opened
    /\ left' = [left EXCEPT ![t] = @ + 1]
    /\ UNCHANGED <<entered, opened, pending, done>>

Next ==
    \/ \E x \in Tasks : Create(x) \/ Complete(x)
    \/ \E t \in Threads : Enter(t) \/ Leave(t)
    \/ Open
Safety == Init /\ [][Next]_vars
Spec ==
    /\ Safety
    /\ WF_vars(Open)
    /\ \A t \in Threads : WF_vars(Leave(t))
    /\ \A x \in Tasks : WF_vars(AllEntered /\ Complete(x))
=============================================================================
