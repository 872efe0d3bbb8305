------------------------------- MODULE Barrier -------------------------------
(***************************************************************************)
(* The flat barriers of kmp_barrier.cpp (linear, tree and hyper gather, with *)
(* any of them as release): __kmp_barrier, __kmp_end_split_barrier and the   *)
(* __kmp_join_barrier / __kmp_fork_barrier pair that closes one parallel     *)
(* region and opens the next.  A wait is a test of the flag word; WaitRelease *)
(* shows that a released word is noticed.                                    *)
(***************************************************************************)
EXTENDS Integers, Sequences

CONSTANTS
    N,          \* th_team_nproc
    Topologies, \* records: gather[t] and release[t] list a thread's children in
                \* the order of its loop, sub[t] the threads below t in the gather,
                \* push is the pattern that propagates the ICVs
    Kinds,      \* "plain" barriers, "forkjoin" barriers
    Icvs,       \* values of the internal control variables
    MaxRounds   \* bound on the barriers each thread enters

Threads == 0..(N - 1)
Workers == 1..(N - 1)
Master == 0

\* The gather is a tree: below a thread are itself and, each once, the threads below its
\* children; the master's spans the team.  The release has one parent per worker.
ASSUME NAssumption == N \in Nat \ {0} /\ MaxRounds \in Nat
ASSUME KindsAssumption == Kinds \subseteq {"plain", "forkjoin"}
ASSUME TopologyAssumption == \A p \in Topologies :
    /\ p.push \in {"linear", "tree", "hyper"}
    /\ p.gather \in [Threads -> Seq(Workers)] /\ p.release \in [Threads -> Seq(Workers)]
    /\ p.sub \in [Threads -> SUBSET Threads] /\ p.sub[Master] = Threads
    /\ \A t \in Threads : \A u \in Threads : u \in p.sub[t] <=>
          u = t \/ \E i \in 1..Len(p.gather[t]) : u \in p.sub[p.gather[t][i]]
    /\ \A t \in Threads : \A i, j \in 1..Len(p.gather[t]) :
          /\ t \notin p.sub[p.gather[t][i]]
          /\ i # j => p.sub[p.gather[t][i]] \cap p.sub[p.gather[t][j]] = {}
    /\ \A t, u \in Threads : \A i \in 1..Len(p.release[t]), j \in 1..Len(p.release[u]) :
          p.release[t][i] = p.release[u][j] => t = u /\ i = j

VARIABLES
    topo, kind, \* the patterns and the barrier type: fixed at initialization
    pc,         \* control point of each thread
    pos,        \* index into the children of the loop a thread is in
    newState,   \* the local new_state of a gathering thread
    bArrived,   \* th_bar[bt].bb.b_arrived, in units of STATE_BUMP
    bGo,        \* th_bar[bt].bb.b_go, in units of STATE_BUMP
    teamArrived,\* team->t.t_bar[bt].b_arrived
    round,      \* barriers each thread has entered
    reduced,    \* reduced[t][u]: how often u's value is in th_local.reduce_data of t
    icv, fixed, \* ICVs of each implicit task; th_fixed_icvs of each thread
    forkIcv     \* the ICVs the region was forked with

flags == <<bArrived, bGo, teamArrived>>
icvs  == <<icv, fixed, forkIcv>>
vars  == <<topo, kind, pc, pos, newState, flags, round, reduced, icvs>>

OnlyOwn(t) == [u \in Threads |-> IF u = t THEN 1 ELSE 0]

Init ==
    /\ topo \in Topologies /\ kind \in Kinds
    /\ pc = [t \in Threads |-> "region"]
    /\ pos = [t \in Threads |-> 1]
    /\ newState = [t \in Threads |-> 0]
    /\ bArrived = [t \in Threads |-> 0] /\ bGo = [t \in Threads |-> 0]
    /\ teamArrived = 0
    /\ round = [t \in Threads |-> 0]
    /\ reduced = [t \in Threads |-> OnlyOwn(t)]
    /\ forkIcv \in Icvs
    /\ icv = [t \in Threads |-> forkIcv] /\ fixed = [t \in Threads |-> forkIcv]

Goto(t, from, to) == pc[t] = from /\ pc' = [pc EXCEPT ![t] = to]
ResetToZero(t) == pos' = [pos EXCEPT ![t] = 0]
Reset(t) == pos' = [pos EXCEPT ![t] = 1]
Advance(t) == pos' = [pos EXCEPT ![t] = @ + 1]

----------------------------------------------------------------------------
\* A thread sets its own ICVs inside the region (omp_set_num_threads and the like).
SetIcv(t) ==
    /\ pc[t] = "region" /\ kind = "forkjoin"
    /\ \E v \in Icvs : icv' = [icv EXCEPT ![t] = v]
    /\ UNCHANGED <<topo, kind, pc, pos, newState, flags, round, reduced, fixed, forkIcv>>

EnterKeepsData(t) ==
    /\ round[t] < MaxRounds
    /\ Goto(t, "region", "gather") /\ Reset(t)
    /\ round' = [round EXCEPT ![t] = @ + 1]
    /\ newState' = [newState EXCEPT ![t] = teamArrived + 1]
    /\ UNCHANGED <<topo, kind, flags, reduced, icvs>>
\* A thread reaches the barrier with its own value to reduce; new_state is computed
\* before the first wait.
Enter(t) ==
    /\ round[t] < MaxRounds
    /\ Goto(t, "region", "gather") /\ Reset(t)
    /\ round' = [round EXCEPT ![t] = @ + 1]
    /\ newState' = [newState EXCEPT ![t] = teamArrived + 1]
    /\ reduced' = [reduced EXCEPT ![t] = OnlyOwn(t)]
    /\ UNCHANGED <<topo, kind, flags, icvs>>

\* flag.wait on the next child, an exact comparison; then reduce its data.  A join
\* barrier reduces nothing.
GatherChild(t) ==
    /\ pc[t] = "gather" /\ pos[t] <= Len(topo.gather[t])
    /\ LET k == topo.gather[t][pos[t]] IN
         /\ bArrived[k] = newState[t]
         /\ reduced' = IF kind = "forkjoin" THEN reduced
                       ELSE [reduced EXCEPT ![t] = [u \in Threads |-> @[u] + reduced[k][u]]]
    /\ Advance(t)
    /\ UNCHANGED <<topo, kind, pc, newState, flags, round, icvs>>

\* A worker whose children have all arrived bumps its own b_arrived.
Arrive(t) ==
    /\ t # Master /\ pos[t] > Len(topo.gather[t])
    /\ Goto(t, "gather", "wait")
    /\ bArrived' = [bArrived EXCEPT ![t] = @ + 1]
    /\ UNCHANGED <<topo, kind, pos, newState, bGo, teamArrived, round, reduced, icvs>>

GatheredButLast ==
    /\ pos[Master] >= Len(topo.gather[Master])
    /\ \/ kind = "plain" /\ Goto(Master, "gather", "push")
       \/ Goto(Master, "gather", "serial")
    /\ teamArrived' = newState[Master]
    /\ UNCHANGED <<topo, kind, pos, newState, bArrived, bGo, round, reduced, icvs>>
\* The master sets the team's b_arrived.  It releases at once, or later (a split
\* barrier returns first; after a join barrier the master runs serial code).
Gathered ==
    /\ pos[Master] > Len(topo.gather[Master])
    /\ \/ kind = "plain" /\ Goto(Master, "gather", "push")
       \/ Goto(Master, "gather", "serial")
    /\ teamArrived' = newState[Master]
    /\ UNCHANGED <<topo, kind, pos, newState, bArrived, bGo, round, reduced, icvs>>

\* __kmp_end_split_barrier, or the next __kmp_fork_call, which gives the master's
\* implicit task the ICVs of the new region.
EndSerial ==
    /\ Goto(Master, "serial", "push")
    /\ IF kind = "plain" THEN UNCHANGED icvs
       ELSE /\ forkIcv' \in Icvs
            /\ icv' = [icv EXCEPT ![Master] = forkIcv']
            /\ UNCHANGED fixed
    /\ UNCHANGED <<topo, kind, pos, newState, flags, round, reduced>>

PushLinearOnly ==
    /\ Goto(Master, "push", "release") /\ Reset(Master)
    /\ icv' = IF kind = "forkjoin" /\ topo.push = "linear"
              THEN [t \in Threads |-> icv[Master]] ELSE icv
    /\ UNCHANGED <<topo, kind, newState, flags, round, reduced, fixed, forkIcv>>
\* The release's prologue in the master: a linear release stores the ICVs into every
\* implicit task, a hyper release puts them in its own th_fixed_icvs.
PushIcvs ==
    /\ Goto(Master, "push", "release") /\ Reset(Master)
    /\ icv' = IF kind = "forkjoin" /\ topo.push = "linear"
              THEN [t \in Threads |-> icv[Master]] ELSE icv
    /\ fixed' = IF kind = "forkjoin" /\ topo.push = "hyper"
                THEN [fixed EXCEPT ![Master] = icv[Master]] ELSE fixed
    /\ UNCHANGED <<topo, kind, newState, flags, round, reduced, forkIcv>>

\* A worker sees its b_go word released, then stores KMP_INIT_BARRIER_STATE.
SeeGo(t) ==
    /\ bGo[t] = 1 /\ Goto(t, "wait", "woken")
    /\ UNCHANGED <<topo, kind, pos, newState, flags, round, reduced, icvs>>

ResetGoLate(t) ==
    /\ Goto(t, "woken", "release") /\ Reset(t)
    /\ UNCHANGED <<topo, kind, newState, flags, round, reduced, icvs>>
ResetGo(t) ==
    /\ Goto(t, "woken", "release") /\ Reset(t)
    /\ bGo' = [bGo EXCEPT ![t] = 0]
    /\ UNCHANGED <<topo, kind, newState, bArrived, teamArrived, round, reduced, icvs>>

\* Release the next child.  The hyper pattern hands it the parent's fixed ICVs, the
\* tree pattern those the master's implicit task has at this moment.
ReleaseChild(t) ==
    /\ pc[t] = "release" /\ pos[t] <= Len(topo.release[t])
    /\ LET k == topo.release[t][pos[t]] IN
         /\ bGo' = [bGo EXCEPT ![k] = @ + 1]
         /\ icv' = IF kind = "forkjoin" /\ topo.push = "tree"
                   THEN [icv EXCEPT ![k] = icv[Master]] ELSE icv
         /\ fixed' = IF kind = "forkjoin" /\ topo.push = "hyper"
                     THEN [fixed EXCEPT ![k] = fixed[t]] ELSE fixed
    /\ Advance(t)
    /\ UNCHANGED <<topo, kind, pc, newState, bArrived, teamArrived, round, reduced, forkIcv>>

\* All children are on their way; a hyper worker takes its ICVs last.
Leave(t) ==
    /\ Goto(t, "release", "region") /\ pos[t] > Len(topo.release[t])
    /\ icv' = IF kind = "forkjoin" /\ topo.push = "hyper" /\ t # Master
              THEN [icv EXCEPT ![t] = fixed[t]] ELSE icv
    /\ UNCHANGED <<topo, kind, pos, newState, flags, round, reduced, fixed, forkIcv>>

Terminated ==
    /\ \A t \in Threads : pc[t] = "region" /\ round[t] = MaxRounds
    /\ UNCHANGED vars

BarrierStep(t) ==
    \/ GatherChild(t) \/ Arrive(t) \/ SeeGo(t) \/ ResetGo(t) \/ ReleaseChild(t) \/ Leave(t)
    \/ t = Master /\ (Gathered \/ EndSerial \/ PushIcvs)

Next == (\E t \in Threads : SetIcv(t) \/ Enter(t) \/ BarrierStep(t)) \/ Terminated

Spec == Init /\ [][Next]_vars
\* A thread inside the runtime keeps running, and the master ends its serial part.
FairSpec == Spec /\ \A t \in Threads : WF_vars(BarrierStep(t))

----------------------------------------------------------------------------
PC == {"region", "gather", "wait", "serial", "push", "woken", "release"}

TypeOK ==
    /\ topo \in Topologies /\ kind \in Kinds
    /\ pc \in [Threads -> PC] /\ pos \in [Threads -> Nat \ {0}]
    /\ newState \in [Threads -> Nat] /\ bArrived \in [Threads -> Nat]
    /\ bGo \in [Threads -> Nat] /\ teamArrived \in Nat /\ round \in [Threads -> Nat]
    /\ reduced \in [Threads -> [Threads -> Nat]]
    /\ icv \in [Threads -> Icvs] /\ fixed \in [Threads -> Icvs] /\ forkIcv \in Icvs

\* The barrier implements the abstract one: a thread has left its n-th barrier once it
\* has seen its go word (the master, once it has gathered the team and goes on).
Left(t) == IF pc[t] \in {"region", "woken", "release", "push", "serial"} THEN round[t]
           ELSE round[t] - 1
Abs == INSTANCE AbsBarrier WITH entered <- round, left <- [t \in Threads |-> Left(t)]
Implements == Abs!Spec

\* When the master has gathered the team, every b_arrived word equals the team's (the
\* next barrier compares them exactly) and every worker's go word is clear.
FlagsInStep ==
    pc[Master] \in {"serial", "push"} =>
        \A t \in Workers : bArrived[t] = teamArrived /\ bGo[t] = 0

\* The master's reduce_data then holds every thread's value exactly once, whatever the
\* tree it came through.
ReductionComplete ==
    kind = "plain" /\ pc[Master] \in {"serial", "push"} =>
        \A u \in Threads : reduced[Master][u] = 1

\* A worker starts the region with the ICVs the region was forked with, although the
\* master may already run the region and set its own.  (Linear and hyper release.)
IcvInherited == [][ \A t \in Workers :
    pc[t] = "release" /\ pc'[t] = "region" => icv'[t] = forkIcv ]_vars
IcvInheritedFixed == [][ topo.push # "tree" => \A t \in Workers :
    pc[t] = "release" /\ pc'[t] = "region" => icv'[t] = forkIcv ]_vars
=============================================================================
