------------------------------ MODULE TaskGraph ------------------------------
(***************************************************************************)
(* Explicit tasks: kmp_tasking.cpp (allocation, start, finish, taskwait,      *)
(* taskgroup, taskyield, proxy tasks) with kmp_taskdeps.cpp (dependences).    *)
(* A thread executes a stack of tasks: it may run other tasks while one of    *)
(* them waits, and a task that a finishing one releases may run before the    *)
(* finish is over.  Each counter and each reference is dropped in a step of   *)
(* its own; whoever drops the last one frees the descriptor or the node.      *)
(*   Deques are sequences (see TaskDeque), the end of the region is a state   *)
(* (see TaskTeam).  The team is parallel, tasks are tied unless proxies.      *)
(***************************************************************************)
EXTENDS Integers, Sequences, FiniteSets, SequencesExt

CONSTANTS
    Threads, Tasks, Addrs,
    Programs,   \* bodies, dependences, kinds: "task", "if0" (undeferred) or "proxy"
    QueueSize,  \* capacity of a deque
    Races       \* the windows that are open: "wait_deps", "proxy" (see Unpinned, Signal)

ASSUME QueueAssumption == QueueSize \in Nat

\* A thread stands for its implicit task too.
Descriptors == Threads \union Tasks
None == "none"  \* no task
Null == <<>>    \* no group, no hash

ASSUME NamesAssumption ==
    /\ Threads \intersect Tasks = {} /\ None \notin Descriptors
    /\ IsFiniteSet(Tasks) /\ IsFiniteSet(Addrs)

\* What a compiler emits: one task per task construct, taskgroups that nest.  What a proxy
\* task does is not a body: its routine only starts it.
Constructs == {<<op>> : op \in {"taskwait", "taskgroup", "end", "taskyield"}} \union ({"task"} \X Tasks)
Ops(body, op, i) == {k \in 1..i : body[k][1] = op}
Nested(body) ==
    LET depth(i) == Cardinality(Ops(body, "taskgroup", i)) - Cardinality(Ops(body, "end", i))
    IN  depth(Len(body)) = 0 /\ \A i \in 1..Len(body) : depth(i) >= 0
WellFormed(p) ==
    /\ p \in [body : [Descriptors -> Seq(Constructs)],
               deps : [Tasks -> Seq([addr : Addrs, out : BOOLEAN])],
               kind : [Tasks -> {"task", "if0", "proxy"}]]
    /\ \A d, e \in Descriptors : \A i \in 1..Len(p.body[d]), j \in 1..Len(p.body[e]) :
          p.body[d][i] = p.body[e][j] /\ p.body[d][i][1] = "task" => d = e /\ i = j
    /\ \A d \in Descriptors : Nested(p.body[d])
    /\ \A t \in Tasks : p.kind[t] = "proxy" => p.body[t] = <<>>

ASSUME ProgramsAssumption == \A p \in Programs : WellFormed(p)

VARIABLES
    prog,   \* the program that runs
    stack,  \* the tasks each thread executes, innermost last
    deque,  \* tasks queued by each thread
    td,     \* kmp_taskdata_t
    groups, \* kmp_taskgroup_t, of the groups that exist
    hash,   \* td_dephash: last_out and last_ins of each address
    node,   \* kmp_depnode_t of each task
    proxy   \* how far the completion of each proxy task has come

vars == <<prog, stack, deque, td, groups, hash, node, proxy>>

\* A task in execution: the task, the next construct in its body, where it is in the runtime;
\* then the runtime's locals: the descriptor it works on, the dependence and the nodes that
\* are left, npredecessors.
Frame(t, pc) == [task |-> t, ip |-> 1, pc |-> pc, x |-> t, dep |-> 1, todo |-> <<>>, n |-> 0]

Taskdata(parent, group) ==
    [state |-> "live", parent |-> parent, inc |-> 0, kids |-> 1, group |-> group,
     started |-> FALSE, executing |-> FALSE, complete |-> FALSE, node |-> FALSE]
Absent == [Taskdata(None, Null) EXCEPT !.state = "absent"]
Depnode(state) == [state |-> state, task |-> FALSE, npred |-> 0, nrefs |-> 1, succ |-> <<>>]
NoEntry == [out |-> None, ins |-> <<>>]
NoHash == [a \in Addrs |-> NoEntry]

Init ==
    /\ prog \in Programs
    /\ stack = [th \in Threads |-> <<Frame(th, IF prog.body[th] = <<>> THEN "barrier" ELSE "body")>>]
    /\ deque = [th \in Threads |-> <<>>]
    /\ td = [d \in Descriptors |->
               IF d \in Threads THEN [Taskdata(None, Null) EXCEPT !.executing = TRUE] ELSE Absent]
    /\ groups = <<>>
    /\ hash = [d \in Descriptors |-> Null]
    /\ node = [t \in Tasks |-> Depnode("absent")]
    /\ proxy = [t \in Tasks |-> "idle"]

Top(th) == Last(stack[th])
SetTop(th, f) == stack' = [stack EXCEPT ![th] = Append(Front(@), f)]
Goto(th, pc) == SetTop(th, [Top(th) EXCEPT !.pc = pc])
At(th, pc) == Top(th).pc = pc
Kind(t) == prog.kind[t]
Op(f) == IF f.pc = "body" /\ f.ip <= Len(prog.body[f.task]) THEN prog.body[f.task][f.ip] ELSE <<"none">>
InBody(th, op) == Op(Top(th))[1] = op

\* th_current_task: a proxy task is never current.
Current(frames) == Last(SelectSeq(frames, LAMBDA f : f.task \in Threads \/ Kind(f.task) # "proxy")).task

\* __kmp_check_deps: later entries for the same address are folded into the first and skipped.
Kept(t) == {i \in 1..Len(prog.deps[t]) : \A j \in 1..i-1 : prog.deps[t][j].addr # prog.deps[t][i].addr}
Dep(t, i) ==
    LET deps == prog.deps[t]
    IN  [addr |-> deps[i].addr,
         out |-> \E j \in 1..Len(deps) : deps[j].addr = deps[i].addr /\ deps[j].out]

\* Dropping k references: the last one frees the node.
Deref(n, k) ==
    [n EXCEPT !.nrefs = @ - k, !.state = IF k > 0 /\ n.nrefs = k THEN "freed" ELSE @]
\* References that the entry of an address holds to node t: as the last writer, as readers.
Uses(entry, t) ==
    {i \in 0..Len(entry.ins) : t = IF i = 0 THEN entry.out ELSE entry.ins[i]}
HashUses(h, t) == UNION {{a} \X Uses(h[a], t) : a \in Addrs}
\* Mutant: the references of the readers are forgotten.
FreeHashOutOnly(h) ==
    IF h = Null THEN node
    ELSE [t \in Tasks |-> Deref(node[t], Cardinality({a \in Addrs : h[a].out = t}))]
\* __kmp_dephash_free
FreeHash(h) ==
    IF h = Null THEN node
    ELSE [t \in Tasks |-> Deref(node[t], Cardinality(HashUses(h, t)))]
----------------------------------------------------------------------------
(* Creating a task. *)

\* Mutant: a writer waits for the last writer only.
CandidatesOut(h, d) ==
    IF h[d.addr].out # None THEN <<h[d.addr].out>> ELSE <<>>

\* The nodes a dependence must wait for: the readers since the last writer if it writes and
\* there are any, else that writer.
Candidates(h, d) ==
    IF d.out /\ h[d.addr].ins # <<>> THEN h[d.addr].ins
    ELSE IF h[d.addr].out # None THEN <<h[d.addr].out>> ELSE <<>>

\* __kmp_task_alloc, and the start of __kmpc_omp_task_with_deps or of __kmpc_omp_wait_deps,
\* which does nothing when no dependence has been tracked yet.  Nobody else knows the task.
Create(th) ==
    LET f == Top(th)
        d == f.task
        t == Op(f)[2]
        tracked == prog.deps[t] # <<>> /\ (Kind(t) = "if0" => hash[d] # Null)
        h == IF hash[d] = Null THEN NoHash ELSE hash[d]
    IN
    /\ InBody(th, "task")
    /\ td' = [td EXCEPT ![t] = [Taskdata(d, td[d].group) EXCEPT !.node = tracked /\ Kind(t) # "if0"],
                        ![d].inc = @ + 1,
                        ![d].kids = IF d \in Tasks THEN @ + 1 ELSE @]
    /\ groups' = IF td[d].group = Null THEN groups
                 ELSE [groups EXCEPT ![td[d].group].count = @ + 1]
    /\ IF tracked
       THEN /\ hash' = [hash EXCEPT ![d] = h]
            /\ node' = [node EXCEPT ![t] = [Depnode("live") EXCEPT !.npred = -1]]
            /\ SetTop(th, [f EXCEPT !.ip = @ + 1, !.pc = "link", !.x = t, !.n = 0, !.dep = 1,
                                    !.todo = Candidates(h, Dep(t, 1))])
       ELSE /\ SetTop(th, [f EXCEPT !.ip = @ + 1, !.x = t,
                                    !.pc = IF Kind(t) = "if0" THEN "begin" ELSE "submit"])
            /\ UNCHANGED <<hash, node>>
    /\ UNCHANGED <<prog, deque, proxy>>

\* Mutant: the finished predecessors are counted too.
LinkFinished(th) ==
    LET f == Top(th)
        p == Head(f.todo)
    IN
    /\ At(th, "link") /\ f.todo # <<>>
    /\ node' = [node EXCEPT ![p].succ = <<f.x>> \o @, ![f.x].nrefs = @ + 1]
    /\ SetTop(th, [f EXCEPT !.todo = Tail(@), !.n = @ + 1])
    /\ UNCHANGED <<prog, deque, td, groups, hash, proxy>>

\* __kmp_process_deps, one node: under its lock it either is finished or gets a successor.
\* The test before the lock is only a shortcut, as a finished node stays finished.
Link(th) ==
    LET f == Top(th)
        p == Head(f.todo)
    IN
    /\ At(th, "link") /\ f.todo # <<>>
    /\ IF node[p].task
       THEN /\ node' = [node EXCEPT ![p].succ = <<f.x>> \o @, ![f.x].nrefs = @ + 1]
            /\ SetTop(th, [f EXCEPT !.todo = Tail(@), !.n = @ + 1])
       ELSE SetTop(th, [f EXCEPT !.todo = Tail(@)]) /\ UNCHANGED node
    /\ UNCHANGED <<prog, deque, td, groups, hash, proxy>>

\* The entry after a dependence of t has been processed; wait_deps leaves no trace of itself.
Entered(entry, d, t) ==
    LET ins == IF d.out THEN <<>> ELSE entry.ins
    IN  IF Kind(t) = "if0" THEN [out |-> None, ins |-> ins]
        ELSE IF d.out THEN [out |-> t, ins |-> ins]
        ELSE [out |-> entry.out, ins |-> <<t>> \o ins]

\* __kmp_process_deps, end of a dependence: references move from the old entry to the new.
Enter(th) ==
    LET f == Top(th)
        h == hash[f.task]
        d == Dep(f.x, f.dep)
        new == Entered(h[d.addr], d, f.x)
        rest == {i \in Kept(f.x) : i > f.dep}
    IN
    /\ At(th, "link") /\ f.todo = <<>>
    /\ hash' = [hash EXCEPT ![f.task][d.addr] = new]
    /\ node' = [t \in Tasks |-> Deref(node[t], Cardinality(Uses(h[d.addr], t)) - Cardinality(Uses(new, t)))]
    /\ \/ rest = {} /\ Goto(th, "count")
       \/ \E i \in rest :
            /\ \A j \in rest : i <= j
            /\ SetTop(th, [f EXCEPT !.dep = i, !.todo = Candidates(hash'[f.task], Dep(f.x, i))])
    /\ UNCHANGED <<prog, deque, td, groups, proxy>>

\* __kmp_check_deps, the end: the task is named, then the predecessors are counted at once.
\* The initial -1 is taken back.  A blocked task is left to its releasers.
Count(th) ==
    LET f == Top(th)
        t == f.x
        blocked == node[t].npred + f.n + 1 > 0
        if0 == Kind(t) = "if0"
    IN
    /\ At(th, "count")
    /\ node' = [node EXCEPT ![t].npred = @ + f.n + 1, ![t].task = ~if0]
    /\ Goto(th, IF if0 THEN "depwait" ELSE IF blocked THEN "body" ELSE "submit")
    /\ UNCHANGED <<prog, deque, td, groups, hash, proxy>>

\* __kmpc_omp_wait_deps returns and its node, a local variable, is gone.  Unless the window
\* is open, only after the last releaser has let go of the node.
Unpinned(t) == "wait_deps" \in Races \/ node[t].nrefs = 1
DepsMet(th) ==
    LET t == Top(th).x IN
    /\ At(th, "depwait") /\ node[t].npred <= 0 /\ Unpinned(t)
    /\ node' = [node EXCEPT ![t].state = "freed"]
    /\ Goto(th, "begin")
    /\ UNCHANGED <<prog, deque, td, groups, hash, proxy>>
----------------------------------------------------------------------------
(* Queueing and starting a task. *)

\* __kmp_task_start
Started(current, t) ==
    [td EXCEPT ![current].executing = FALSE, ![t].started = TRUE, ![t].executing = TRUE]

\* __kmp_omp_task: queue t, or invoke it here if it is a proxy or the deque is full; the
\* thread goes on with frame f.
Submit(th, t, f) ==
    IF Kind(t) # "proxy" /\ Len(deque[th]) < QueueSize
    THEN /\ deque' = [deque EXCEPT ![th] = Append(@, t)]
         /\ SetTop(th, f)
         /\ UNCHANGED td
    ELSE /\ stack' = [stack EXCEPT ![th] =
                        Front(@) \o <<f, Frame(t, IF Kind(t) = "proxy" THEN "launch" ELSE "body")>>]
         /\ td' = IF Kind(t) = "proxy" THEN td ELSE Started(Current(stack[th]), t)
         /\ UNCHANGED deque

SubmitNew(th) ==
    /\ At(th, "submit")
    /\ Submit(th, Top(th).x, [Top(th) EXCEPT !.pc = "body"])
    /\ UNCHANGED <<prog, groups, hash, node, proxy>>

\* __kmpc_omp_task_begin_if0
Begin(th) ==
    LET f == Top(th) IN
    /\ At(th, "begin")
    /\ stack' = [stack EXCEPT ![th] = Front(@) \o <<[f EXCEPT !.pc = "body"], Frame(f.x, "body")>>]
    /\ td' = Started(f.task, f.x)
    /\ UNCHANGED <<prog, deque, groups, hash, node, proxy>>

\* Where a thread executes other tasks: in taskwait, at the end of a taskgroup, in taskyield,
\* in wait_deps, in a barrier.
Waits(th) ==
    LET f == Top(th) IN
    \/ InBody(th, "taskwait") /\ td[f.task].inc # 0
    \/ InBody(th, "end") /\ groups[td[f.task].group].count # 0
    \/ At(th, "yield")
    \/ At(th, "depwait") /\ node[f.x].npred > 0
    \/ At(th, "barrier")

\* The task scheduling constraint holds everywhere but in a barrier.
Descends(t, d) ==
    LET below[s \in Tasks] ==
          td[s].parent = d \/ (td[s].parent \in Tasks /\ below[td[s].parent])
    IN  below[t]
Allowed(th, t) == At(th, "barrier") \/ Descends(t, Top(th).task)

\* __kmp_remove_my_task looks at the tail of the own deque only, __kmp_steal_task at the
\* head of a victim's; an untied task, that is a proxy, is held back by the second only.
Own(th) ==
    IF deque[th] # <<>> /\ (Kind(Last(deque[th])) = "proxy" \/ Allowed(th, Last(deque[th])))
    THEN {Last(deque[th])} ELSE {}
Steal(th, v) ==
    IF v # th /\ deque[v] # <<>> /\ Allowed(th, Head(deque[v])) THEN {Head(deque[v])} ELSE {}

\* __kmp_invoke_task for a task from a deque: a completed proxy gets its bottom half.
\* taskyield executes one task and returns.
Invoke(th, t) ==
    LET f == IF At(th, "yield") THEN [Top(th) EXCEPT !.pc = "body"] ELSE Top(th)
        bottom == Kind(t) = "proxy"
    IN
    /\ stack' = [stack EXCEPT ![th] = Front(@) \o <<f, Frame(t, IF bottom THEN "bottom" ELSE "body")>>]
    /\ td' = IF bottom THEN td ELSE Started(f.task, t)
    /\ UNCHANGED <<prog, groups, hash, node, proxy>>

\* __kmp_execute_tasks_template: the own deque first.
TakeOwn(th) ==
    /\ Waits(th)
    /\ \E t \in Own(th) : Invoke(th, t)
    /\ deque' = [deque EXCEPT ![th] = Front(@)]

StealFrom(th, v) ==
    /\ Waits(th) /\ Own(th) = {}
    /\ \E t \in Steal(th, v) : Invoke(th, t)
    /\ deque' = [deque EXCEPT ![v] = Tail(@)]
----------------------------------------------------------------------------
(* The other constructs of a body. *)

\* A taskyield that finds nothing to execute: not at the tail of its own deque, nor at the
\* head of the one victim's that it tries, any other thread of the team.
Unlucky(th) ==
    /\ Own(th) = {}
    /\ Threads = {th} \/ \E v \in Threads \ {th} : Steal(th, v) = {}

\* taskwait is over; taskyield begins, and ends if it finds no task.
Pass(th) ==
    /\ \/ /\ InBody(th, "taskwait") /\ td[Top(th).task].inc = 0
          /\ SetTop(th, [Top(th) EXCEPT !.ip = @ + 1])
       \/ /\ InBody(th, "taskyield")
          /\ SetTop(th, [Top(th) EXCEPT !.ip = @ + 1, !.pc = "yield"])
       \/ /\ At(th, "yield") /\ Unlucky(th)
          /\ Goto(th, "body")
    /\ UNCHANGED <<prog, deque, td, groups, hash, node, proxy>>

Taskgroup(th) ==
    LET f == Top(th)
        g == <<f.task, f.ip>>
    IN
    /\ InBody(th, "taskgroup")
    /\ groups' = [h \in DOMAIN groups \union {g} |->
                    IF h = g THEN [count |-> 0, outer |-> td[f.task].group] ELSE groups[h]]
    /\ td' = [td EXCEPT ![f.task].group = g]
    /\ SetTop(th, [f EXCEPT !.ip = @ + 1])
    /\ UNCHANGED <<prog, deque, hash, node, proxy>>

\* The group is freed.
EndTaskgroup(th) ==
    LET f == Top(th)
        g == td[f.task].group
    IN
    /\ InBody(th, "end") /\ groups[g].count = 0
    /\ td' = [td EXCEPT ![f.task].group = groups[g].outer]
    /\ groups' = [h \in DOMAIN groups \ {g} |-> groups[h]]
    /\ SetTop(th, [f EXCEPT !.ip = @ + 1])
    /\ UNCHANGED <<prog, deque, hash, node, proxy>>
----------------------------------------------------------------------------
(* Finishing a task. *)

Ended(th) == At(th, "body") /\ Top(th).ip > Len(prog.body[Top(th).task])

\* An implicit task drops the references of its dependence hash and goes to the barrier.
EndImplicit(th) ==
    LET d == Top(th).task IN
    /\ Ended(th) /\ d \in Threads
    /\ node' = FreeHash(hash[d])
    /\ hash' = [hash EXCEPT ![d] = Null]
    /\ Goto(th, "barrier")
    /\ UNCHANGED <<prog, deque, td, groups, proxy>>

\* __kmp_task_finish: complete, and the parent has one child less to wait for.
Complete(th) ==
    LET t == Top(th).task IN
    /\ Ended(th) /\ t \in Tasks
    /\ td' = [td EXCEPT ![t].complete = TRUE, ![td[t].parent].inc = @ - 1]
    /\ Goto(th, "group")
    /\ UNCHANGED <<prog, deque, groups, hash, node, proxy>>

LeaveGroup(th) ==
    LET g == td[Top(th).task].group IN
    /\ At(th, "group")
    /\ groups' = IF g = Null THEN groups ELSE [groups EXCEPT ![g].count = @ - 1]
    /\ Goto(th, "release")
    /\ UNCHANGED <<prog, deque, td, hash, node, proxy>>

\* __kmp_release_deps: the hash goes; from here on, under the lock, nobody becomes a successor.
Release(th) ==
    LET f == Top(th)
        freed == FreeHash(hash[f.task])
    IN
    /\ At(th, "release")
    /\ hash' = [hash EXCEPT ![f.task] = Null]
    /\ node' = IF td[f.task].node THEN [freed EXCEPT ![f.task].task = FALSE] ELSE freed
    /\ SetTop(th, [f EXCEPT !.pc = "succ", !.todo = IF td[f.task].node THEN node[f.task].succ ELSE <<>>])
    /\ UNCHANGED <<prog, deque, td, groups, proxy>>

\* One predecessor less; the last one must submit the successor.
Notify(th) ==
    LET f == Top(th)
        s == Head(f.todo)
    IN
    /\ At(th, "succ") /\ f.todo # <<>>
    /\ node' = [node EXCEPT ![s].npred = @ - 1]
    /\ Goto(th, IF node[s].npred = 1 THEN "push" ELSE "drop")
    /\ UNCHANGED <<prog, deque, td, groups, hash, proxy>>

\* The node of a wait_deps names no task.
SubmitReleased(th) ==
    LET s == Head(Top(th).todo) IN
    /\ At(th, "push")
    /\ IF node[s].task THEN Submit(th, s, [Top(th) EXCEPT !.pc = "drop"])
                       ELSE Goto(th, "drop") /\ UNCHANGED <<deque, td>>
    /\ UNCHANGED <<prog, groups, hash, node, proxy>>

Drop(th) ==
    LET f == Top(th) IN
    /\ At(th, "drop")
    /\ node' = [node EXCEPT ![Head(f.todo)] = Deref(@, 1)]
    /\ SetTop(th, [f EXCEPT !.pc = "succ", !.todo = Tail(@)])
    /\ UNCHANGED <<prog, deque, td, groups, hash, proxy>>

\* The end of __kmp_release_deps; only now is the task marked as not executing, for a
\* successor executed at once has set the mark again.
Released(th) ==
    LET f == Top(th) IN
    /\ At(th, "succ") /\ f.todo = <<>>
    /\ node' = IF td[f.task].node THEN [node EXCEPT ![f.task] = Deref(@, 1)] ELSE node
    /\ td' = [td EXCEPT ![f.task].executing = FALSE]
    /\ SetTop(th, [f EXCEPT !.pc = "free", !.x = f.task])
    /\ UNCHANGED <<prog, deque, groups, hash, proxy>>

\* __kmp_free_task_and_ancestors, one descriptor: the last of a task and its children to
\* let go frees it and goes on with its parent, unless that is implicit.
Free(th) ==
    LET f == Top(th)
        last == td[f.x].kids = 1
        parent == td[f.x].parent
        freed == [td EXCEPT ![f.x].kids = @ - 1, ![f.x].state = IF last THEN "freed" ELSE @]
    IN
    /\ At(th, "free")
    /\ IF last /\ parent \in Tasks
       THEN SetTop(th, [f EXCEPT !.x = parent]) /\ td' = freed
       ELSE /\ stack' = [stack EXCEPT ![th] = Front(@)]
            /\ td' = IF Kind(f.task) = "proxy" THEN freed
                     ELSE [freed EXCEPT ![Current(Front(stack[th]))].executing = TRUE]
    /\ UNCHANGED <<prog, deque, groups, hash, node, proxy>>
----------------------------------------------------------------------------
(* Proxy tasks: the routine starts something outside the team, which signals its end. *)

Advance(t, stage) == proxy' = [proxy EXCEPT ![t] = stage]

Launch(th) ==
    /\ At(th, "launch")
    /\ Advance(Top(th).task, "run")
    /\ Goto(th, "returned")
    /\ UNCHANGED <<prog, deque, td, groups, hash, node>>

\* The thread that launched it returns to __kmp_invoke_task, which looks at the descriptor.
Returned(th) ==
    /\ At(th, "returned")
    /\ stack' = [stack EXCEPT ![th] = Front(@)]
    /\ UNCHANGED <<prog, deque, td, groups, hash, node, proxy>>

\* __kmpc_proxy_task_completed_ooo: __kmp_first_top_half_finish_proxy, in steps.  Unless the
\* window is open, not before the launching thread has looked.
Signal(t) ==
    /\ proxy[t] = "run"
    /\ "proxy" \in Races \/ \A th \in Threads : \A i \in 1..Len(stack[th]) : stack[th][i].task # t
    /\ td' = [td EXCEPT ![t].complete = TRUE]
    /\ Advance(t, "group")
    /\ UNCHANGED <<prog, stack, deque, groups, hash, node>>

\* Mutant: no imaginary child.
ImagineNothing(t) ==
    LET g == td[t].group IN
    /\ proxy[t] = "group"
    /\ groups' = IF g = Null THEN groups ELSE [groups EXCEPT ![g].count = @ - 1]
    /\ Advance(t, "give")
    /\ UNCHANGED <<prog, stack, deque, td, hash, node>>

\* The imaginary child keeps the bottom half from freeing the task.
Imagine(t) ==
    LET g == td[t].group IN
    /\ proxy[t] = "group"
    /\ groups' = IF g = Null THEN groups ELSE [groups EXCEPT ![g].count = @ - 1]
    /\ td' = [td EXCEPT ![t].inc = @ + 1]
    /\ Advance(t, "give")
    /\ UNCHANGED <<prog, stack, deque, hash, node>>

\* __kmp_give_task, to a thread that has room (see ProxyDeque for a deque that grows).
Give(t) ==
    /\ proxy[t] = "give"
    /\ \E th \in Threads :
         Len(deque[th]) < QueueSize /\ deque' = [deque EXCEPT ![th] = Append(@, t)]
    /\ Advance(t, "parent")
    /\ UNCHANGED <<prog, stack, td, groups, hash, node>>

\* __kmp_second_top_half_finish_proxy
LeaveParent(t) ==
    /\ proxy[t] = "parent"
    /\ td' = [td EXCEPT ![td[t].parent].inc = @ - 1]
    /\ Advance(t, "child")
    /\ UNCHANGED <<prog, stack, deque, groups, hash, node>>

Forget(t) ==
    /\ proxy[t] = "child"
    /\ td' = [td EXCEPT ![t].inc = @ - 1]
    /\ Advance(t, "done")
    /\ UNCHANGED <<prog, stack, deque, groups, hash, node>>

\* Mutant: the bottom half does not wait for the top half.
BottomHalfAtOnce(th) ==
    /\ At(th, "bottom")
    /\ Goto(th, "release")
    /\ UNCHANGED <<prog, deque, td, groups, hash, node, proxy>>

\* __kmp_bottom_half_finish_proxy waits for the top half, then releases and frees.
BottomHalf(th) ==
    /\ At(th, "bottom") /\ td[Top(th).task].inc = 0
    /\ Goto(th, "release")
    /\ UNCHANGED <<prog, deque, td, groups, hash, node, proxy>>
----------------------------------------------------------------------------
Step(th) ==
    \/ Create(th) \/ Link(th) \/ Enter(th) \/ Count(th) \/ DepsMet(th)
    \/ SubmitNew(th) \/ Begin(th) \/ TakeOwn(th) \/ \E v \in Threads : StealFrom(th, v)
    \/ Pass(th) \/ Taskgroup(th) \/ EndTaskgroup(th)
    \/ EndImplicit(th) \/ Complete(th) \/ LeaveGroup(th)
    \/ Release(th) \/ Notify(th) \/ SubmitReleased(th) \/ Drop(th) \/ Released(th) \/ Free(th)
    \/ Launch(th) \/ Returned(th) \/ BottomHalf(th)
Outside(t) == Signal(t) \/ Imagine(t) \/ Give(t) \/ LeaveParent(t) \/ Forget(t)

\* The implicit tasks have ended and there is nothing left to do.  Here the system stops.
RegionOver ==
    /\ \A th \in Threads : Len(stack[th]) = 1 /\ At(th, "barrier") /\ deque[th] = <<>>
    /\ \A t \in Tasks : proxy[t] \in {"idle", "done"}

Next == (\E th \in Threads : Step(th)) \/ \E t \in Tasks : Outside(t)

Spec == Init /\ [][Next]_vars
\* The system does not stop while somebody can take a step: bodies end, and what a proxy
\* task started is completed.  A wait takes no step, so this is all the fairness needed.
FairSpec == Spec /\ WF_vars(Next)
----------------------------------------------------------------------------
TypeOK ==
    /\ \A th \in Threads :
         /\ \A i \in 1..Len(stack[th]) : stack[th][i].todo \in Seq(Tasks)
         /\ deque[th] \in Seq(Tasks) /\ Len(deque[th]) <= QueueSize
    /\ \A d \in Descriptors :
         /\ td[d].inc \in Nat /\ td[d].kids \in Nat
         /\ td[d].group \in DOMAIN groups \union {Null} \/ td[d].complete
    /\ \A g \in DOMAIN groups : groups[g].count \in Nat
    /\ \A t \in Tasks : node[t].nrefs \in Nat /\ node[t].npred \in Int

\* No descriptor, node or group is used after it has been freed: by a thread on its stack,
\* from a deque, by the completion of a proxy, as a parent, from the lists and hashes of the
\* dependences, or as the group that a task has yet to leave.
Live(t) == t \in Threads \/ td[t].state = "live"
Frames == UNION {ToSet(stack[th]) : th \in Threads}
FrameIntact(f) ==
    /\ Live(IF f.pc = "free" THEN f.x ELSE f.task)
    /\ f.pc \in {"link", "count", "submit", "depwait", "begin"} => Live(f.x)
    /\ f.pc \in {"link", "count", "depwait"} => node[f.x].state = "live"
    /\ \A i \in 1..Len(f.todo) : node[f.todo[i]].state = "live"
    /\ f.pc = "push" /\ node[Head(f.todo)].task => Live(Head(f.todo))
NodeIntact(t) ==
    /\ td[t].node /\ td[t].state = "live" /\ ~td[t].complete => node[t].state = "live"
    /\ node[t].task => \A i \in 1..Len(node[t].succ) : node[node[t].succ[i]].state = "live"
HashIntact(h) == \A a \in Addrs : \A t \in {h[a].out} \union ToSet(h[a].ins) :
    t # None => node[t].state = "live"
InGroup(t) ==
    \/ td[t].state = "live" /\ ~td[t].complete
    \/ proxy[t] = "group" \/ \E f \in Frames : f.task = t /\ f.pc = "group"
NothingDangles ==
    /\ \A f \in Frames : FrameIntact(f)
    /\ \A th \in Threads : \A t \in ToSet(deque[th]) : Live(t)
    /\ \A d \in Descriptors : hash[d] # Null => HashIntact(hash[d])
    /\ \A t \in Tasks :
         /\ proxy[t] \notin {"idle", "done"} => Live(t)
         /\ td[t].state = "live" => Live(td[t].parent)
         /\ InGroup(t) => td[t].group \in DOMAIN groups \union {Null}
         /\ NodeIntact(t)

\* When the region is over, every task has been freed, every node, and every group.
NothingLeaks ==
    RegionOver =>
        /\ \A t \in Tasks : td[t].state \in {"freed", "absent"} /\ node[t].state \in {"freed", "absent"}
        /\ groups = <<>>
        /\ \A th \in Threads : td[th].inc = 0

\* The next construct of d.
NextOf(d) ==
    IF d \in Threads THEN stack[d][1].ip
    ELSE IF td[d].complete THEN Len(prog.body[d]) + 1
    ELSE IF ~td[d].started THEN 1
    ELSE (CHOOSE f \in Frames : f.task = d).ip
Abs == INSTANCE AbsTaskGraph WITH
    Implicit <- Threads,
    ip <- [d \in Descriptors |-> NextOf(d)],
    phase <- [t \in Tasks |->
                IF td[t].state = "absent" THEN "new"
                ELSE IF td[t].complete THEN "done"
                ELSE IF td[t].started \/ proxy[t] # "idle" THEN "running" ELSE "created"]

\* Tasks start once, after the tasks they depend on, and the waiting constructs wait for
\* what they name.
Implements == Abs!Spec

\* Every program comes to its end: no task is left behind, nobody waits for ever.
Terminates == <>RegionOver
=============================================================================
