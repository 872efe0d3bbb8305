----------------------------- MODULE AbsTaskGraph -----------------------------
(***************************************************************************)
(* What the tasking constructs promise to a program: a task starts once, and  *)
(* only when every earlier sibling it conflicts with is done; a task that is   *)
(* not deferred is done before its parent goes on; taskwait waits for the      *)
(* children created so far, the end of a taskgroup for all descendants created *)
(* in the group.  Threads, queues and counters do not appear.                  *)
(***************************************************************************)
EXTENDS Integers, Sequences, FiniteSets

CONSTANTS
    Implicit,   \* the implicit tasks of the team
    Tasks,      \* the explicit tasks
    Programs    \* the body of each task, its dependences and its kind
VARIABLES
    prog,       \* the program that runs
    ip,         \* next construct in the body of each task
    phase       \* of each explicit task

vars == <<prog, ip, phase>>

Init ==
    /\ prog \in Programs
    /\ ip = [d \in Implicit \union Tasks |-> 1]
    /\ phase = [t \in Tasks |-> "new"]

Body(d) == prog.body[d]
Executes(d) == d \in Implicit \/ phase[d] = "running"
CreatedBy(d, i, j) == {t \in Tasks : \E k \in i..j : Body(d)[k] = <<"task", t>>}
Done(T) == \A t \in T : phase[t] = "done"

\* The tasks in T and their descendants.
Family(T) ==
    LET grow[n \in Nat] ==
          IF n = 0 THEN T
          ELSE LET S == grow[n - 1]
               IN  S \union UNION {CreatedBy(d, 1, Len(Body(d))) : d \in S}
    IN  grow[4]     \* no program nests its tasks deeper

\* The construct that opened the taskgroup which construct i of d ends.
Opening(d, i) ==
    LET Ops(op, j) == Cardinality({k \in j..i-1 : Body(d)[k] = <<op>>})
        Open(j) == Body(d)[j] = <<"taskgroup">> /\ Ops("taskgroup", j) = Ops("end", j) + 1
    IN  CHOOSE j \in 1..i-1 : Open(j) /\ \A k \in j+1..i-1 : ~Open(k)

Conflict(s, t) ==
    \E i \in 1..Len(prog.deps[s]), j \in 1..Len(prog.deps[t]) :
        /\ prog.deps[s][i].addr = prog.deps[t][j].addr
        /\ prog.deps[s][i].out \/ prog.deps[t][j].out
Before(t) ==
    {s \in Tasks : Conflict(s, t) /\
        \E d \in Implicit \union Tasks : \E j \in 1..Len(Body(d)) : \E i \in 1..j-1 :
            Body(d)[i] = <<"task", s>> /\ Body(d)[j] = <<"task", t>>}

\* d goes on only when the tasks it executes undeferred are done.
Undeferred(d) == {t \in CreatedBy(d, 1, ip[d] - 1) : prog.kind[t] = "if0"}
Advance(d, op) ==
    /\ ip[d] <= Len(Body(d)) /\ Body(d)[ip[d]][1] = op
    /\ ip' = [ip EXCEPT ![d] = @ + 1]
    /\ Executes(d) /\ Done(Undeferred(d))
    /\ UNCHANGED prog

Create(d) ==
    /\ Advance(d, "task")
    /\ phase' = [phase EXCEPT ![Body(d)[ip[d]][2]] = "created"]

Pass(d) ==
    /\ \/ Advance(d, "taskwait") /\ Done(CreatedBy(d, 1, ip[d] - 1))
       \/ Advance(d, "end") /\ Done(Family(CreatedBy(d, Opening(d, ip[d]), ip[d] - 1)))
       \/ Advance(d, "taskgroup")
       \/ Advance(d, "taskyield")
    /\ UNCHANGED phase

Start(t) ==
    /\ phase[t] = "created"
    /\ phase' = [phase EXCEPT ![t] = "running"]
    /\ Done(Before(t))
    /\ UNCHANGED <<prog, ip>>

Finish(t) ==
    /\ phase[t] = "running" /\ phase' = [phase EXCEPT ![t] = "done"]
    /\ ip[t] = Len(Body(t)) + 1 /\ Done(Undeferred(t))
    /\ UNCHANGED <<prog, ip>>

Next ==
    \/ \E d \in Implicit \union Tasks : Create(d) \/ Pass(d)
    \/ \E t \in Tasks : Start(t) \/ Finish(t)

Spec == Init /\ [][Next]_vars
=============================================================================
