------------------------------- MODULE TaskTeam -------------------------------
(***************************************************************************)
(* How a barrier finds out that all explicit tasks are done: kmp_tasking.cpp  *)
(* with the wait loop of kmp_wait_release.h and the calls of __kmp_barrier.   *)
(* Threads that wait execute tasks from their own deque, then steal; a thread *)
(* that finds none in its last wait counts itself out of unfinished_threads,  *)
(* and counts itself in again before the task it then steals can be missed.   *)
(* The team keeps two task teams and alternates between them, because slow    *)
(* workers may still look into the old one.                                   *)
(*   A deque is a sequence here: TaskDeque shows that it behaves as one.      *)
(***************************************************************************)
EXTENDS Integers, Sequences, FiniteSets

CONSTANTS
    Master, Workers, Nobody,
    Gathers,    \* the children each thread gathers, a spanning tree
    DequeSize,  \* capacity of a deque
    MaxTasks,   \* bound on the tasks created
    MaxRounds   \* bound on the barriers executed

Threads == Workers \union {Master}
Tasks == 1..MaxTasks
N == Cardinality(Threads)

ASSUME TeamAssumption ==
    IsFiniteSet(Workers) /\ Master \notin Workers /\ Nobody \notin Workers \union {Master}
ASSUME GathersAssumption == Gathers \in [Threads -> SUBSET Workers]
\* Every worker is gathered, by the master or by one that is.
ASSUME SpanAssumption ==
    \A S \in SUBSET Threads : Master \in S /\ (\A t \in S : Gathers[t] \subseteq S) => S = Threads
ASSUME BoundAssumption == {DequeSize, MaxTasks, MaxRounds} \subseteq Nat

None == 2           \* a NULL th_task_team; 0 and 1 are the task teams of the team
NoTask == 0

VARIABLES
    taskTeam,       \* the team's two task teams: tt_active, tt_found_tasks, tt_unfinished_threads
    deque,          \* deque[s][t]: thread t's deque in task team s
    state, teamOf,  \* th_task_state and th_task_team of each thread
    incomplete,     \* td_incomplete_child_tasks of each thread's implicit task
    round, arrived, \* barriers each thread has left; the flags its parent waits for
    go,             \* release flag of each worker
    pc,             \* where each thread is in the barrier
    mode,           \* where it is in the wait loop
    finished,       \* its tasks_completed: it has counted itself out
    stack, fresh,   \* the explicit tasks it is executing, innermost last; the one it is creating
    created,        \* tasks created so far
    creator,        \* the thread whose implicit task created a task, if one did
    runs            \* history: how often each task has been executed

barrier == <<round, arrived, go, pc>>
tasks   == <<incomplete, stack, fresh, created, creator, runs>>
vars    == <<taskTeam, deque, state, teamOf, barrier, mode, finished, tasks>>

Fresh == [active |-> TRUE, found |-> FALSE, unfinished |-> N]

Init ==
    /\ taskTeam = [s \in 0..1 |-> Fresh]
    /\ deque = [s \in 0..1 |-> [t \in Threads |-> <<>>]]
    /\ state = [t \in Threads |-> 0] /\ teamOf = [t \in Threads |-> 0]
    /\ incomplete = [t \in Threads |-> 0]
    /\ round = [t \in Threads |-> 0] /\ arrived = [t \in Threads |-> 0]
    /\ go = [t \in Workers |-> FALSE]
    /\ pc = [t \in Threads |-> "region"]
    /\ mode = [t \in Threads |-> "loop"]
    /\ finished = [t \in Threads |-> FALSE]
    /\ stack = [t \in Threads |-> <<>>] /\ fresh = [t \in Threads |-> NoTask]
    /\ created = 0 /\ creator = [x \in Tasks |-> Nobody]
    /\ runs = [x \in Tasks |-> 0]

Goto(t, where) == pc' = [pc EXCEPT ![t] = where]
Turn(t, m) == mode' = [mode EXCEPT ![t] = m]
Running(t) == stack[t] # <<>> \/ pc[t] = "region"       \* executes user code
Waiting(t) == stack[t] = <<>> /\ pc[t] \in {"gather", "drain", "final"}
Final(t) == pc[t] \in {"drain", "final"}                \* final_spin

\* The condition each wait is for.
FlagDone(t) ==
    CASE pc[t] = "gather" -> \A u \in Gathers[t] : arrived[u] = round[t] + 1
      [] pc[t] = "final"  -> go[t]
      [] pc[t] = "drain"  -> taskTeam[state[t]].unfinished = 0
      [] OTHER            -> FALSE
----------------------------------------------------------------------------
(* Creating tasks. *)

\* The task is allocated and counted with its parent; the first thread to push enables tasking.
Create(t) ==
    /\ Running(t) /\ fresh[t] = NoTask /\ created < MaxTasks
    /\ created' = created + 1
    /\ fresh' = [fresh EXCEPT ![t] = created']
    /\ IF stack[t] = <<>>
       THEN /\ incomplete' = [incomplete EXCEPT ![t] = @ + 1]
            /\ creator' = [creator EXCEPT ![created'] = t]
       ELSE UNCHANGED incomplete /\ creator' = [creator EXCEPT ![created'] = Nobody]
    /\ taskTeam' = [taskTeam EXCEPT ![teamOf[t]].found = TRUE]
    /\ UNCHANGED <<deque, state, teamOf, barrier, mode, finished, stack, runs>>

\* A task that finds the deque full is executed at once.
Push(t) ==
    /\ fresh[t] # NoTask
    /\ IF Len(deque[teamOf[t]][t]) < DequeSize
       THEN deque' = [deque EXCEPT ![teamOf[t]][t] = Append(@, fresh[t])] /\ UNCHANGED stack
       ELSE stack' = [stack EXCEPT ![t] = Append(@, fresh[t])] /\ UNCHANGED deque
    /\ fresh' = [fresh EXCEPT ![t] = NoTask]
    /\ UNCHANGED <<taskTeam, state, teamOf, barrier, mode, finished, incomplete, created,
                   creator, runs>>

\* Where the search goes on after the outermost task: back to the wait if that is over,
\* back to the own deque if the task left some there.
AfterTask(t) ==
    IF pc[t] = "region" \/ Len(stack[t]) > 1 THEN mode[t]
    ELSE IF ~Final(t) /\ FlagDone(t) THEN "loop"
    ELSE IF teamOf[t] = None THEN "count"
    ELSE IF deque[teamOf[t]][t] # <<>> THEN "own" ELSE mode[t]

Finish(t) ==
    /\ stack[t] # <<>> /\ fresh[t] = NoTask
    /\ LET x == stack[t][Len(stack[t])] IN
         /\ runs' = [runs EXCEPT ![x] = @ + 1]
         /\ incomplete' = IF creator[x] = Nobody THEN incomplete
                          ELSE [incomplete EXCEPT ![creator[x]] = @ - 1]
    /\ stack' = [stack EXCEPT ![t] = SubSeq(@, 1, Len(@) - 1)]
    /\ Turn(t, AfterTask(t))
    /\ UNCHANGED <<taskTeam, deque, state, teamOf, barrier, finished, fresh, created, creator>>
----------------------------------------------------------------------------
(* The wait loop and __kmp_execute_tasks_template. *)

\* A worker drops a task team that the master has deactivated.
Look(t) ==
    /\ Waiting(t) /\ mode[t] = "loop" /\ ~FlagDone(t) /\ teamOf[t] # None
    /\ IF taskTeam[teamOf[t]].active
       THEN taskTeam[teamOf[t]].found /\ Turn(t, "own") /\ UNCHANGED teamOf
       ELSE teamOf' = [teamOf EXCEPT ![t] = None] /\ UNCHANGED mode
    /\ UNCHANGED <<taskTeam, deque, state, barrier, finished, tasks>>

Start(t, x) == stack' = [stack EXCEPT ![t] = <<x>>]

Own(t) ==
    /\ Waiting(t) /\ mode[t] = "own"
    /\ LET mine == deque[teamOf[t]][t] IN
         IF mine = <<>>
         THEN Turn(t, "steal") /\ UNCHANGED <<deque, stack>>
         ELSE /\ Start(t, mine[Len(mine)])
              /\ deque' = [deque EXCEPT ![teamOf[t]][t] = SubSeq(@, 1, Len(@) - 1)]
              /\ UNCHANGED mode
    /\ UNCHANGED <<taskTeam, state, teamOf, barrier, finished, incomplete, fresh, created,
                   creator, runs>>

StealUncounted(t) ==
    /\ Waiting(t) /\ mode[t] = "steal"
    /\ \E v \in Threads \ {t} : LET s == teamOf[t] IN
         /\ deque[s][v] # <<>> /\ teamOf[v] = s
         /\ Start(t, Head(deque[s][v]))
         /\ deque' = [deque EXCEPT ![s][v] = Tail(@)]
         /\ finished' = [finished EXCEPT ![t] = FALSE]
    /\ UNCHANGED <<taskTeam, state, teamOf, barrier, mode, incomplete, fresh, created, creator,
                   runs>>
\* With the deque's lock held: a thread that had counted itself out counts itself in.
Steal(t) ==
    /\ Waiting(t) /\ mode[t] = "steal"
    /\ \E v \in Threads \ {t} : LET s == teamOf[t] IN
         /\ deque[s][v] # <<>> /\ teamOf[v] = s
         /\ Start(t, Head(deque[s][v]))
         /\ deque' = [deque EXCEPT ![s][v] = Tail(@)]
         /\ IF finished[t]
            THEN taskTeam' = [taskTeam EXCEPT ![s].unfinished = @ + 1]
            ELSE UNCHANGED taskTeam
         /\ finished' = [finished EXCEPT ![t] = FALSE]
    /\ UNCHANGED <<state, teamOf, barrier, mode, incomplete, fresh, created, creator, runs>>

\* The victim it tried had nothing.
StealNothing(t) ==
    /\ Waiting(t) /\ mode[t] = "steal"
    /\ \E v \in Threads \ {t} : deque[teamOf[t]][v] = <<>> \/ teamOf[v] # teamOf[t]
    /\ Turn(t, "count")
    /\ UNCHANGED <<taskTeam, deque, state, teamOf, barrier, finished, tasks>>

CountTwice(t) ==
    /\ Waiting(t) /\ mode[t] = "count"
    /\ IF Final(t) /\ incomplete[t] = 0 /\ teamOf[t] # None
       THEN /\ taskTeam' = [taskTeam EXCEPT ![teamOf[t]].unfinished = @ - 1]
            /\ finished' = [finished EXCEPT ![t] = TRUE]
       ELSE UNCHANGED <<taskTeam, finished>>
    /\ Turn(t, "loop")
    /\ UNCHANGED <<deque, state, teamOf, barrier, tasks>>
\* Only in the last wait of the barrier, and not while children of its implicit task run.
Count(t) ==
    /\ Waiting(t) /\ mode[t] = "count"
    /\ IF Final(t) /\ incomplete[t] = 0 /\ ~finished[t]
       THEN /\ taskTeam' = [taskTeam EXCEPT ![teamOf[t]].unfinished = @ - 1]
            /\ finished' = [finished EXCEPT ![t] = TRUE]
       ELSE UNCHANGED <<taskTeam, finished>>
    /\ Turn(t, "loop")
    /\ UNCHANGED <<deque, state, teamOf, barrier, tasks>>
----------------------------------------------------------------------------
(* The barrier. *)

\* __kmp_task_team_setup: the master readies the task team of the next region.
NoSetup == UNCHANGED taskTeam
Setup ==
    LET other == 1 - state[Master] IN
    IF taskTeam[other].active THEN UNCHANGED taskTeam
                              ELSE taskTeam' = [taskTeam EXCEPT ![other] = Fresh]

\* Every wait starts with a tasks_completed of its own; only the last one sets it.
Enter(t) ==
    /\ pc[t] = "region" /\ stack[t] = <<>> /\ fresh[t] = NoTask /\ round[t] < MaxRounds
    /\ Goto(t, "gather") /\ Turn(t, "loop")
    /\ finished' = [finished EXCEPT ![t] = FALSE]
    /\ IF t = Master THEN Setup ELSE UNCHANGED taskTeam
    /\ UNCHANGED <<deque, state, teamOf, round, arrived, go, tasks>>

Ready(t, where) == Waiting(t) /\ pc[t] = where /\ mode[t] = "loop" /\ FlagDone(t)

\* A worker signals its parent and starts its last wait.
Arrive(t) ==
    /\ t # Master /\ Ready(t, "gather")
    /\ arrived' = [arrived EXCEPT ![t] = round[t] + 1]
    /\ Goto(t, "final")
    /\ UNCHANGED <<taskTeam, deque, state, teamOf, round, go, mode, finished, tasks>>

\* __kmp_task_team_wait: the master waits for the count only if tasks were found.
Gathered ==
    /\ Ready(Master, "gather")
    /\ Goto(Master, IF taskTeam[state[Master]].found THEN "drain" ELSE "release")
    /\ UNCHANGED <<taskTeam, deque, state, teamOf, round, arrived, go, mode, finished, tasks>>

DrainedButActive ==
    /\ Ready(Master, "drain")
    /\ teamOf' = [teamOf EXCEPT ![Master] = None]
    /\ Goto(Master, "release")
    /\ UNCHANGED <<taskTeam, deque, state, round, arrived, go, mode, finished, tasks>>
Drained ==
    /\ Ready(Master, "drain")
    /\ taskTeam' = [taskTeam EXCEPT ![state[Master]].active = FALSE]
    /\ teamOf' = [teamOf EXCEPT ![Master] = None]
    /\ Goto(Master, "release")
    /\ UNCHANGED <<deque, state, round, arrived, go, mode, finished, tasks>>

SeeGo(t) ==
    /\ t # Master /\ Ready(t, "final")
    /\ go' = [go EXCEPT ![t] = FALSE]
    /\ Goto(t, "release")
    /\ UNCHANGED <<taskTeam, deque, state, teamOf, round, arrived, mode, finished, tasks>>

\* Children are released one by one, then the thread turns to the other task team.
ReleaseChild(t, u) ==
    /\ pc[t] = "release" /\ u \in Gathers[t] /\ ~go[u] /\ pc[u] = "final" /\ round[u] = round[t]
    /\ go' = [go EXCEPT ![u] = TRUE]
    /\ UNCHANGED <<taskTeam, deque, state, teamOf, round, arrived, pc, mode, finished, tasks>>

Leave(t) ==
    /\ pc[t] = "release"
    /\ \A u \in Gathers[t] : go[u] \/ pc[u] # "final" \/ round[u] # round[t]
    /\ state' = [state EXCEPT ![t] = 1 - @]
    /\ teamOf' = [teamOf EXCEPT ![t] = 1 - state[t]]
    /\ round' = [round EXCEPT ![t] = @ + 1]
    /\ Goto(t, "region")
    /\ UNCHANGED <<taskTeam, deque, arrived, go, mode, finished, tasks>>

Step(t) ==
    \/ Push(t) \/ Finish(t)
    \/ Look(t) \/ Own(t) \/ Steal(t) \/ StealNothing(t) \/ Count(t)
    \/ Arrive(t) \/ SeeGo(t) \/ Leave(t) \/ \E u \in Gathers[t] : ReleaseChild(t, u)
    \/ t = Master /\ (Gathered \/ Drained)

\* The bound on rounds stops the system.
Stopped ==
    /\ \A t \in Threads : round[t] = MaxRounds /\ ~ENABLED Step(t)
    /\ UNCHANGED vars
Next == Stopped \/ \E t \in Threads : Create(t) \/ Enter(t) \/ Step(t)

Spec == Init /\ [][Next]_vars
\* Threads run, and tasks end.
FairSpec == Spec /\ \A t \in Threads : WF_vars(Step(t))
----------------------------------------------------------------------------
TypeOK ==
    /\ taskTeam \in [0..1 -> [active : BOOLEAN, found : BOOLEAN, unfinished : 0..N]]
    /\ \A s \in 0..1 : \A t \in Threads :
         deque[s][t] \in Seq(Tasks) /\ Len(deque[s][t]) <= DequeSize
    /\ state \in [Threads -> 0..1] /\ teamOf \in [Threads -> 0..2]
    /\ incomplete \in [Threads -> 0..MaxTasks]
    /\ round \in [Threads -> 0..MaxRounds] /\ arrived \in [Threads -> 0..MaxRounds]
    /\ go \in [Workers -> BOOLEAN]
    /\ pc \in [Threads -> {"region", "gather", "drain", "final", "release"}]
    /\ mode \in [Threads -> {"loop", "own", "steal", "count"}]
    /\ finished \in [Threads -> BOOLEAN]
    /\ fresh \in [Threads -> Tasks \union {NoTask}]

\* Until the master has seen it at zero, unfinished_threads is the number of threads that
\* have not counted themselves out of this barrier.
CountedOut(t) == Final(t) /\ finished[t] /\ round[t] = round[Master]
UnfinishedExact ==
    pc[Master] # "release" =>
        taskTeam[state[Master]].unfinished = N - Cardinality({t \in Threads : CountedOut(t)})

\* The two task teams do not mix: a thread in its region uses the task team of its parity,
\* which is active; no task is left in a deque of the other; and a thread that has counted
\* itself out has no task, neither queued nor running.
HasTask(s, t) == deque[s][t] # <<>> \/ stack[t] # <<>> \/ fresh[t] # NoTask
TeamsApart == \A t \in Threads :
    /\ pc[t] \in {"region", "gather"} => teamOf[t] = state[t] /\ taskTeam[state[t]].active
    /\ deque[1 - state[t]][t] = <<>>
    /\ Final(t) /\ finished[t] => ~HasTask(state[t], t)

Abs == INSTANCE AbsTaskBarrier WITH
    entered <- [t \in Threads |-> IF pc[t] = "region" THEN round[t] ELSE round[t] + 1],
    left    <- round,
    opened  <- IF pc[Master] = "release" THEN round[Master] + 1 ELSE round[Master],
    pending <- {x \in 1..created : runs[x] = 0},
    done    <- {x \in Tasks : runs[x] = 1}

\* The barrier opens when all tasks, those created by other tasks included, are done; each
\* is executed once; and with the threads running, tasks end and barriers open.
Implements == Abs!Spec
=============================================================================
