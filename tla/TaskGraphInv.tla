---------------------------- MODULE TaskGraphInv ----------------------------
(***************************************************************************)
(* The inductive invariant of TaskGraph.  It says where every task is, what   *)
(* each counter of the runtime counts, and who holds a reference to what.     *)
(* The counters of kmp_tasking.cpp and kmp_taskdeps.cpp summarise facts that  *)
(* the program does not keep; seven witnesses spell them out:                 *)
(*   W[t]  the place of a task between its creation and its end               *)
(*   K[t]  the ancestor that a freed task is on its way to free, or None      *)
(*   R[t]  the successors that t has yet to tell, first linked first          *)
(*   H[t]  the taskgroup in which t was created                               *)
(*   O[d]  the positions in the body of d of the taskgroups open in it        *)
(*   B[t]  the order of creation, and C the next number                       *)
(***************************************************************************)
EXTENDS TaskGraph

----------------------------------------------------------------------------
(* Types.  The control points of a frame: creating a task, in a body, running *)
(* a proxy, finishing a task.                                                 *)
Creating == {"link", "count", "depwait", "submit", "begin"}
Bodily == {"body", "yield"} \union Creating
Proxying == {"launch", "returned", "bottom"}
Finishing == {"group", "release", "succ", "push", "drop", "free"}
Pcs == Bodily \union Proxying \union Finishing \union {"barrier"}
Stages == {"idle", "run", "group", "give", "parent", "child", "done"}

FrameRecords == [task : Descriptors, ip : Nat, pc : Pcs, x : Descriptors, dep : Nat,
                 todo : Seq(Tasks), n : Nat]
GroupNames == Descriptors \X Nat
States == {"absent", "live", "freed"}
TaskdataRecords == [state : States, parent : Descriptors \union {None}, inc : Int, kids : Int,
                    group : GroupNames \union {Null}, started : BOOLEAN, executing : BOOLEAN,
                    complete : BOOLEAN, node : BOOLEAN]
DepnodeRecords == [state : States, task : BOOLEAN, npred : Int, nrefs : Int, succ : Seq(Tasks)]
GroupRecords == [count : Int, outer : GroupNames \union {Null}]
Entries == [out : Tasks \union {None}, ins : Seq(Tasks)]

DataTypes ==
    /\ prog \in Programs
    /\ deque \in [Threads -> Seq(Tasks)]
    /\ \A th \in Threads : Len(deque[th]) <= QueueSize
    /\ td \in [Descriptors -> TaskdataRecords]
    /\ DOMAIN groups \subseteq GroupNames
    /\ groups \in [DOMAIN groups -> GroupRecords]
    /\ hash \in [Descriptors -> [Addrs -> Entries] \union {Null}]
    /\ node \in [Tasks -> DepnodeRecords]
    /\ proxy \in [Tasks -> Stages]
Types == stack \in [Threads -> Seq(FrameRecords)] /\ DataTypes

----------------------------------------------------------------------------
(* Shape: where the tasks are.  A task is held by one frame, or is in one     *)
(* deque, or waits for predecessors, or is outside the team, or is gone.      *)

\* What a frame says by itself: an implicit task is in its body or in the barrier, an
\* explicit one finishes after its body, a proxy has no body on this thread.
LocalOK(f) ==
    /\ f.task \in Threads => f.pc \in Bodily \union {"barrier"}
    /\ f.task \in Tasks => /\ f.pc # "barrier"
                           /\ f.pc \in Bodily => Kind(f.task) # "proxy"
                           /\ f.pc \in Proxying => Kind(f.task) = "proxy"
                           /\ f.pc = "group" => Kind(f.task) # "proxy"
    /\ f.pc \in Creating \union {"free"} => f.x \in Tasks
    /\ f.pc \in {"depwait", "begin"} => Kind(f.x) = "if0"
    /\ f.pc = "submit" => Kind(f.x) # "if0"
    /\ f.pc = "link" => f.dep \in Kept(f.x)
    /\ f.pc \in {"push", "drop"} => f.todo # <<>>
    /\ f.pc \notin {"link", "succ", "push", "drop"} => f.todo = <<>>
    /\ f.ip \in 1..Len(prog.body[f.task]) + 1
    /\ f.pc \notin Bodily => f.ip = Len(prog.body[f.task]) + 1


\* The places of a task, those before it runs, and those after it has left its group.
Places == {"absent", "linking", "depwait", "ready", "blocked", "push", "queue", "outside",
           "body", "launch", "bottom", "group", "release", "succ", "told", "free", "gone"}
Young == {"absent", "linking", "depwait", "ready", "blocked", "push", "queue"}
Late == {"release", "succ", "told", "free", "gone"}

\* The place of the task of a frame, and of the task that a frame creates.
Place(pc) ==
    IF pc \in Bodily THEN "body" ELSE IF pc = "returned" THEN "launch"
    ELSE IF pc \in {"push", "drop"} THEN "told" ELSE pc
Making(pc) ==
    IF pc \in {"link", "count"} THEN "linking" ELSE IF pc = "depwait" THEN "depwait" ELSE "ready"


\* A frame holds its task, the task it creates and the successor it pushes.
Makes(f, t) == f.pc \in Creating /\ f.x = t
Pushes(f, t) == f.pc = "push" /\ Head(f.todo) = t /\ Kind(t) # "if0"
Holds(f, t) == f.task = t \/ Makes(f, t) \/ Pushes(f, t)

\* A frame agrees with the places of what it holds.
FrameOK(f, W, K) ==
    /\ f.task \in Tasks => W[f.task] = Place(f.pc) \/ (f.pc = "free" /\ W[f.task] = "gone")
    /\ f.pc \in Creating => W[f.x] = Making(f.pc) /\ td[f.x].parent = f.task
    /\ \A t \in Tasks : Pushes(f, t) => W[t] = "push"
    /\ f.pc = "free" => IF W[f.task] = "gone" THEN K[f.task] = f.x ELSE f.x = f.task
    /\ f.pc = "launch" => proxy[f.task] = "idle"
    /\ f.pc = "returned" => proxy[f.task] = "run"

\* Every stack stands on the implicit task of its thread.
Stacks ==
    \A th \in Threads :
        /\ stack[th] # <<>> /\ stack[th][1].task = th
        /\ \A i \in 1..Len(stack[th]) : (i = 1 \/ stack[th][i].task \in Tasks) /\ LocalOK(stack[th][i])

\* No two frames hold a task.
Unique ==
    \A th, u \in Threads : \A i \in 1..Len(stack[th]), j \in 1..Len(stack[u]) : \A t \in Tasks :
        Holds(stack[th][i], t) /\ Holds(stack[u][j], t) => th = u /\ i = j

\* No task is in two deques, or twice in one.
Queued(W) ==
    \A th \in Threads : \A i \in 1..Len(deque[th]) :
        /\ W[deque[th][i]] = "queue"
        /\ \A u \in Threads : \A j \in 1..Len(deque[u]) : deque[u][j] = deque[th][i] => u = th /\ j = i

\* The stages of a proxy agree with its place: its bottom half ends after its top half.
ProxyOK(t, w) ==
    /\ Kind(t) # "proxy" => proxy[t] = "idle" /\ w \notin {"outside", "launch", "bottom"}
    /\ Kind(t) = "proxy" =>
        /\ w \in Young \ {"queue"} => proxy[t] = "idle"
        /\ w = "launch" => proxy[t] \in {"idle", "run"}
        /\ w = "outside" => proxy[t] \in {"run", "group", "give"}
        /\ w \in {"queue", "bottom"} => proxy[t] \in {"parent", "child", "done"}
        /\ w \in Late => proxy[t] = "done"
        /\ w \notin {"body", "group"}

\* The descriptor and the node of a task agree with its place.
TaskOK(t, w) ==
    /\ td[t].state = "absent" <=> w = "absent"
    /\ td[t].complete <=> IF Kind(t) = "proxy" THEN proxy[t] \notin {"idle", "run"} ELSE w \in Late \union {"group"}
    /\ w = "absent" => td[t].group = Null /\ td[t].inc = 0 /\ td[t].kids = 1 /\ node[t].state = "absent"
    /\ td[t].node <=> node[t].state # "absent" /\ Kind(t) # "if0"
    /\ node[t].task => td[t].node /\ w \notin {"absent", "linking", "depwait", "succ", "told", "free", "gone"}
    /\ ~td[t].node => node[t].succ = <<>>
    /\ w \in {"linking", "depwait", "blocked", "push"} => node[t].state # "absent"
    /\ w \in {"blocked", "push"} => node[t].task
    /\ w = "depwait" => Kind(t) = "if0"

\* The parent of a task has run past the construct that creates it.
ChildOK(t, W) ==
    W[t] # "absent" =>
        LET d == td[t].parent IN
        /\ d \in Descriptors /\ d # t
        /\ d \in Tasks => W[d] \notin Young
        /\ \E j \in 1..Len(prog.body[d]) :
             /\ prog.body[d][j] = <<"task", t>>
             /\ \A th \in Threads : \A i \in 1..Len(stack[th]) : stack[th][i].task = d => j < stack[th][i].ip

FramesOK(W, K) == \A th \in Threads : \A i \in 1..Len(stack[th]) : FrameOK(stack[th][i], W, K)
\* Who climbs is gone itself and climbs to a task that exists.
ClimbOK(W, K) == \A c \in Tasks : K[c] # None => W[c] = "gone" /\ W[K[c]] # "absent"
Shape(W, K) ==
    /\ W \in [Tasks -> Places] /\ K \in [Tasks -> Tasks \union {None}]
    /\ Types /\ Stacks /\ Unique /\ Queued(W) /\ FramesOK(W, K)
    /\ \A t \in Tasks : ProxyOK(t, W[t]) /\ TaskOK(t, W[t]) /\ ChildOK(t, W)
    /\ ClimbOK(W, K)


----------------------------------------------------------------------------
(* Predecessors: npred counts the lists that name a task and have not told it *)
(* yet.  While the dependences of a new task are linked, the frame's count n  *)
(* is taken off in advance, as npred starts at -1 and is settled at the end.  *)
Mirror(s, r) == Len(s) = Len(r) /\ \A i \in 1..Len(s) : s[i] = r[Len(s) + 1 - i]
SuccUses(R, t) == {r \in UNION {{p} \X (1..Len(R[p])) : p \in Tasks} : R[r[1]][r[2]] = t}
\* The uses of t in the lists whose owners have not told it.
Untold(W, R, t) == {r \in SuccUses(R, t) : W[r[1]] = "told" => r[2] # Len(R[r[1]])}
\* npred of t is settled.
Tracked(W, t) == node[t].state # "absent" /\ W[t] # "linking"
PredsF(f, W, R) ==
    /\ f.pc \in {"succ", "push", "drop"} => Mirror(f.todo, R[f.task])
    /\ f.pc \in {"link", "count"} =>
        /\ node[f.x].npred = Cardinality(Untold(W, R, f.x)) - 1 - f.n
        /\ Cardinality(Untold(W, R, f.x)) <= f.n
PredsT(t, W, R) ==
    /\ W[t] \notin {"succ", "told", "free", "gone"} => Mirror(node[t].succ, R[t])
    /\ W[t] \in {"free", "gone"} => R[t] = <<>>
    /\ IsFiniteSet(SuccUses(R, t))
    /\ Tracked(W, t) => node[t].npred = Cardinality(Untold(W, R, t))
    /\ Untold(W, R, t) # {} => W[t] \in {"linking", "depwait", "blocked"}
    /\ W[t] = "blocked" => Untold(W, R, t) # {}
Preds(W, R) ==
    /\ R \in [Tasks -> Seq(Tasks)]
    /\ \A t \in Tasks : PredsT(t, W, R)
    /\ \A f \in Frames : PredsF(f, W, R)


----------------------------------------------------------------------------
(* Descriptors: td_allocated_child_tasks counts the task itself until it is   *)
(* gone, its children that are not freed and the tasks that climb to it;      *)
(* td_incomplete_child_tasks counts the children that a taskwait waits for,   *)
(* and the imaginary child of a proxy.                                        *)
Children(d) == {c \in Tasks : td[c].state = "live" /\ td[c].parent = d}
Climbers(K, d) == {c \in Tasks : K[c] = d}
Kids(W, K) ==
    /\ \A d \in Tasks : W[d] # "absent" =>
        /\ td[d].kids = (IF W[d] = "gone" THEN 0 ELSE 1) + Cardinality(Children(d)) + Cardinality(Climbers(K, d))
        /\ td[d].state = IF td[d].kids = 0 THEN "freed" ELSE "live"
    /\ \A th \in Threads : td[th].kids = 1 /\ td[th].state = "live"
Waited(c, w) ==
    w # "absent" /\ IF Kind(c) = "proxy" THEN proxy[c] \notin {"child", "done"} ELSE w \notin Late \union {"group"}
Pending(W, d) == {c \in Tasks : Waited(c, W[c]) /\ td[c].parent = d}
Image(d) == IF d \in Tasks /\ proxy[d] \in {"give", "parent", "child"} THEN 1 ELSE 0
Incs(W) ==
    \A d \in Descriptors : d \in Threads \/ W[d] # "absent" =>
        td[d].inc = Cardinality(Pending(W, d)) + Image(d)


----------------------------------------------------------------------------
(* Taskgroups: a group counts the tasks created in it that have not left it,  *)
(* and the groups open in a task lie one in the other.                        *)
Belongs(t, w) ==
    w # "absent" /\ IF Kind(t) = "proxy" THEN proxy[t] \in {"idle", "run", "group"} ELSE w \notin Late
Members(W, H, g) == {t \in Tasks : Belongs(t, W[t]) /\ H[t] = g}
Home(H, d) == IF d \in Tasks THEN H[d] ELSE Null
Depth(d, i) == Cardinality(Ops(prog.body[d], "taskgroup", i)) - Cardinality(Ops(prog.body[d], "end", i))
GroupsF(f, O) ==
    /\ Len(O[f.task]) = Depth(f.task, f.ip - 1)
    /\ \A k \in 1..Len(O[f.task]) : O[f.task][k] < f.ip
GroupsD(d, W, H, O) ==
    /\ \A j, k \in 1..Len(O[d]) : j < k => O[d][j] < O[d][k]
    /\ \A k \in 1..Len(O[d]) :
        /\ <<d, O[d][k]>> \in DOMAIN groups
        /\ groups[<<d, O[d][k]>>].outer = IF k = 1 THEN Home(H, d) ELSE <<d, O[d][k-1]>>
    /\ d \in Threads \/ W[d] # "absent" =>
         td[d].group = IF O[d] = <<>> THEN Home(H, d) ELSE <<d, O[d][Len(O[d])]>>
GroupsG(g, W, H, O) ==
    /\ groups[g].count = Cardinality(Members(W, H, g))
    /\ \E k \in 1..Len(O[g[1]]) : O[g[1]][k] = g[2]
Groups(W, H, O) ==
    /\ H \in [Tasks -> GroupNames \union {Null}] /\ O \in [Descriptors -> Seq(Nat)]
    /\ \A g \in DOMAIN groups : GroupsG(g, W, H, O)
    /\ \A t \in Tasks : Belongs(t, W[t]) => H[t] \in DOMAIN groups \union {Null}
    /\ \A t \in Tasks : W[t] # "body" => O[t] = <<>>
    /\ \A d \in Descriptors : GroupsD(d, W, H, O)
    /\ \A f \in Frames : GroupsF(f, O)


----------------------------------------------------------------------------
(* Nodes: nrefs counts the task itself, the lists and the hash entries that   *)
(* name the node.  The node of an if0 task is on its creator's stack: it is   *)
(* live while the creator waits.                                              *)
ParentUses(t) == IF hash[td[t].parent] = Null THEN {} ELSE HashUses(hash[td[t].parent], t)
SelfUse(W, t) == IF Kind(t) = "if0" \/ W[t] \notin {"free", "gone"} THEN 1 ELSE 0
Names(entry, t) == t = entry.out \/ \E i \in 1..Len(entry.ins) : t = entry.ins[i]
NodesT(t, W, R) ==
    /\ node[t].state = "absent" => SuccUses(R, t) = {} /\ node[t].nrefs = 1
    /\ node[t].state # "absent" =>
        /\ node[t].nrefs = SelfUse(W, t) + Cardinality(SuccUses(R, t)) + Cardinality(ParentUses(t))
        /\ Kind(t) # "if0" => node[t].state = IF node[t].nrefs = 0 THEN "freed" ELSE "live"
        /\ Kind(t) = "if0" =>
             /\ node[t].state = IF W[t] \in {"linking", "depwait"} THEN "live" ELSE "freed"
             /\ node[t].state = "freed" => SuccUses(R, t) = {}
NodesD(d) ==
    hash[d] # Null =>
        \A a \in Addrs : \A t \in Tasks : Names(hash[d][a], t) => td[t].parent = d /\ td[t].node
NodesF(f) ==
    f.pc = "link" =>
        /\ hash[f.task] # Null
        /\ \A k \in 1..Len(f.todo) : Names(hash[f.task][Dep(f.x, f.dep).addr], f.todo[k])
Nodes(W, R) ==
    /\ \A t \in Tasks : NodesT(t, W, R)
    /\ \A d \in Descriptors : NodesD(d)
    /\ \A f \in Frames : NodesF(f)


----------------------------------------------------------------------------
(* Presence and order: a task that is under way is held by a frame or is in a *)
(* deque; a task is created after its parent and its predecessors.            *)
Running == {"body", "launch", "bottom", "group", "release", "succ", "told", "free"}
HeldBy(F, t, w, k) ==
    /\ w \in {"linking", "depwait", "ready"} => \E f \in F : Makes(f, t)
    /\ w = "push" => \E f \in F : Pushes(f, t)
    /\ w \in Running \/ k # None => \E f \in F : f.task = t
InDeque(t) == \E th \in Threads : \E i \in 1..Len(deque[th]) : deque[th][i] = t
Present(W, K) == \A t \in Tasks : HeldBy(Frames, t, W[t], K[t]) /\ (W[t] = "queue" => InDeque(t))
OrderF(f, W, B) ==
    f.pc = "link" => \A t \in Tasks : W[t] # "absent" /\ td[t].parent = f.task /\ t # f.x => B[t] < B[f.x]
Order(W, R, B, C) ==
    /\ B \in [Tasks -> Nat] /\ C \in Nat
    /\ \A t \in Tasks : W[t] # "absent" => B[t] < C /\ (td[t].parent \in Tasks => B[td[t].parent] < B[t])
    /\ \A p \in Tasks : \A k \in 1..Len(R[p]) : B[p] < B[R[p][k]]
    /\ \A f \in Frames : OrderF(f, W, B)

\* A hash belongs to a task in its body, or not yet past its release.
HashOwners(W) ==
    \A d \in Descriptors : hash[d] # Null =>
        IF d \in Threads THEN \A f \in Frames : f.task = d => f.pc # "barrier"
        ELSE W[d] \in {"body", "group", "release"}


----------------------------------------------------------------------------
Inv(W, K, R, H, O, B, C) ==
    /\ Shape(W, K) /\ Kids(W, K) /\ Incs(W) /\ Groups(W, H, O)
    /\ Preds(W, R) /\ Nodes(W, R) /\ Present(W, K) /\ Order(W, R, B, C) /\ HashOwners(W)

\* The inductive invariant: there are such witnesses.
IInv == \E W, K, R, H, O, B, C : Inv(W, K, R, H, O, B, C)
=============================================================================
