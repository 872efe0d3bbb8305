# A verification project for the OpenMP runtime in this tree

The repository is the source of LLVM 4.0.0 with the OpenMP 4.0.0 runtime and two small
LLVM passes of its own. Almost all of it is the upstream compiler. What this project
verifies is the part whose correctness depends on interleavings: `libomp`, the runtime
library in `openmp-4.0.0.src/runtime/src` (paths below are relative to that directory
unless they start with `src/`). It is modelled as its default Linux build on x86-64
compiles it: `OMP_45_ENABLED`, futex and x86 primitives, no Windows, no MIC, OMPT and ITT
observing only.

The TLA+ modules are read next to the C++: `PROJECT.json` maps every definition to the
lines it stands for.

## 1. The system

### 1.1 Threads and how they meet

A parallel region runs on a *team*: a master (tid 0) and workers taken from a pool. Each
thread has a `kmp_info_t`, each team a `kmp_team_t`. The parts interact as follows.

    compiler entry points (kmp_csupport)
       |            |             |                 |
     locks       worksharing    tasking          barriers  <--- fork/join
    (kmp_lock)  (kmp_dispatch,  (kmp_tasking) <--> (kmp_barrier)
       |         kmp_sched)        |     ^            |
       |                           |     |            |  release / wait
       +----- __kmp_yield          |   execute_tasks  v
                                   +---------- flag wait (kmp_wait_release)
                                                      |
                                             suspend / resume (z_Linux_util)

* A **barrier** is a gather over a tree of `b_arrived` words followed by a release over a
  tree of `b_go` words. All waiting goes through **flags**.
* A **flag wait** spins, executes tasks, and in the end suspends on a condition variable;
  a release stores the new state and wakes the sleeper, if the word says there is one.
* **Tasking** is called from the wait loop. The barrier in turn waits for the task team:
  it may not open before all tasks are done, and only the threads waiting in it run them.
* **Fork/join** is a barrier cut in two: the join barrier is a gather, the fork barrier a
  release that carries the ICVs of the next region.
* **Locks** are used by the program directly, and by the runtime for its own lists.

### 1.2 Inventory

For each component: its state, its operations, what is hard about it, what makes it
correct. "Model" is the module, or why there is none.

**Flag wait, suspend, resume, release** (`kmp_wait_release.h`, `z_Linux_util.cpp`)
* State: the flag words with a SLEEP bit in the word itself; per thread `th_sleep_loc`,
  `th_suspend_mx`/`_cv`, `th_active`, `th_in_pool`, `th_active_in_pool`; globally
  `__kmp_thread_pool_active_nth` and `__kmp_global.g.g_done`.
* Operations: wait, release, suspend, resume, resume through `th_sleep_loc`, reaping.
* Hard: the release between the last test and the sleep; a sleep bit left in the word;
  `th_sleep_loc` pointing at a flag on a stack that is gone; a master taking a thread out
  of the pool while it sleeps.
* Correct if: no wake-up is lost, words are clean outside a suspend, pointers do not
  dangle, the pool's count is exact, every release is seen, a reaped worker leaves.
* Model: `WaitRelease`.

**Flat barriers** (`kmp_barrier.cpp`: linear, tree, hyper; plain, split, fork/join)
* State: per thread `b_arrived`, `b_go`, reduce data, implicit task's ICVs,
  `th_fixed_icvs`; per team `t_bar[].b_arrived`.
* Operations: `__kmp_barrier`, `__kmp_end_split_barrier`, `__kmp_join_barrier`,
  `__kmp_fork_barrier`, gather and release of each pattern.
* Hard: words compared for equality and reset by another thread than writes them; slow
  threads of one barrier beside fast threads of the next; index arithmetic at the ragged
  edge of a tree; data that travels with the flags.
* Correct if: nobody leaves before all have entered, everybody leaves, every value is
  reduced once, every worker starts with the ICVs the region was forked with.
* Model: `AbsBarrier` (what a barrier promises), `Topology` (index arithmetic), `Barrier`.

**Hierarchical barrier** (`kmp_barrier.cpp:740-1058`, `kmp_affinity.h`): packs the
arrivals of the threads of a core into bytes of one word. Not modelled (section 6).

**Locks** (`kmp_lock.cpp`, `kmp_lock.h`)
* State: queuing: a 64-bit pair `head_id`/`tail_id`, `owner_id`, `depth_locked`, and per
  thread `th_next_waiting`, `th_spin_here`. DRDPA: tickets, a polling area that is
  replaced while it is polled. Ticket, test-and-set, futex, adaptive (RTM); lock tables
  for the user locks.
* Operations: acquire, test, release, nested forms, checked forms, init, destroy.
* Hard: queue half linked while it is being released; state of a waiter written after it
  was dequeued; unsynchronized reads of `owner_id`; freeing memory that others poll.
* Correct if: one holder, first come first served, everyone served, memory valid.
* Model: `AbsLock`, `QueuingLock` (the default kind), `DrdpaLock`.

**Explicit tasking** (`kmp_tasking.cpp`)
* State: per thread a deque under a lock; two task teams per team with `tt_active`,
  `tt_found_tasks`, `tt_unfinished_threads`; per thread `th_task_team`,
  `th_task_state`; per task counters of children and a taskgroup.
* Operations: push, pop, steal, execute, task team setup/sync/wait, taskwait, taskgroup,
  taskyield, taskloop, proxy tasks.
* Hard: deciding that no task is left while threads steal from each other; two
  generations of task teams alive at once; unlocked tests of the deque's size; freeing a
  descriptor that both parent and last child want to free.
* Correct if: each task runs once, the barrier opens only with all done, it does open;
  taskwait, taskgroup and undeferred tasks wait for what they name; no descriptor is used
  after it was freed, and none is left.
* Model: `AbsDeque`, `TaskDeque`, `ProxyDeque` (the queue of one thread),
  `AbsTaskBarrier`, `TaskTeam` (termination), `AbsTaskGraph`, `TaskGraph` (the rest).

**Task dependences** (`kmp_taskdeps.cpp`)
* State: per parent a hash of addresses with the last writer and the readers since; per
  task a node with `npredecessors`, `successors`, `nrefs` and a lock.
* Operations: `__kmpc_omp_task_with_deps`, `__kmpc_omp_wait_deps`, release at the finish.
* Hard: a predecessor finishing while an edge to it is added; whoever brings the count of
  predecessors to zero queues the task, and that may be its creator or its last
  predecessor; the last reference frees the node, the hash holding some of them.
* Correct if: a task starts once, and after every earlier sibling it conflicts with.
* Model: `TaskGraph`, together with the tasks.

**Dynamic worksharing** (`kmp_dispatch.cpp`)
* State: per team a ring of shared buffers with `iteration`, `num_done`,
  `ordered_iteration`, `buffer_index`; per thread a ring of private ones and
  `th_disp_index`.
* Operations: `__kmp_dispatch_init`, `_next`, `_finish`, `_finish_chunk`, `_deo`, `_dxo`.
* Hard: a thread that is loops ahead of the team; the guided share computed from an old
  remainder; stealing from a range that its owner shrinks; ordered turns that nobody takes.
* Correct if: each iteration is handed out once, sections follow the iterations, a
  buffer never serves two loops, every loop ends.
* Model: `AbsLoops`, `Dispatch`.

**Static worksharing** (`kmp_sched.cpp`): no state; arithmetic in the width of the loop
variable, which must divide the iterations however bounds and increments lie, and name the
one thread that executes the last. Model: `StaticLoops`, run by `Dispatch`.

**Cancellation** (`kmp_cancel.cpp`): flags read at cancellation points and cancellation
barriers; not modelled (section 6).

**Fork/join, pool, hot teams** (`kmp_runtime.cpp`): allocation and resizing of teams. The
pool's count, shutdown and the barrier words a team starts with are in `WaitRelease` and
`Barrier`; the rest is not modelled: it is sequential code under `__kmp_forkjoin_lock`.

**No protocol of their own** and not modelled: compiler and Fortran entry points,
atomics (each a single atomic update), the deprecated workqueue, threadprivate tables,
affinity, settings and messages, nesting checks, instrumentation, the stub library, the
test suites. The allocator's cross-thread free list (`kmp_alloc.cpp`) and the Windows
suspend/resume would be worth a module and have none. The offload library moves data
over COI, which is not in the repository. **LLVM 4.0.0** itself (6.8 million lines) is
vendored, sequential, and out of scope. The repository's own passes,
`src/pass/LoopSchedule` and `src/pass/CloneLoop`, are sequential rewritings of
IR.

## 2. Modules

    AbsBarrier <--refines-- Barrier <--instantiates-- MCBarrier --uses--> Topology
                               ^
                          BarrierProofs
    WaitRelease <-- MCWaitRelease, PrimitiveProofs
    AbsLock <--refines-- QueuingLock <-- QueuingLockProofs
    AbsLock <--refines-- DrdpaLock <-- DrdpaLockProofs
    AbsDeque <--refines-- TaskDeque <--extends-- ProxyDeque
                              ^
                        PrimitiveProofs
    AbsTaskBarrier <--refines-- TaskTeam <-- MCTaskTeam, TaskTeamProofs
    AbsTaskGraph <--refines-- TaskGraph <-- MCTaskGraph
                                  ^
              TaskGraphInv <-- TaskGraphSteps <-- TaskGraphProofs
    AbsLoops <--refines-- Dispatch --extends--> StaticLoops
                             ^
                        MCDispatch, DispatchProofs

The layers justify each other's abstractions. `Barrier`, `TaskTeam`, `TaskGraph` and
`Dispatch` treat a wait as a test of the word, because `WaitRelease` shows that a released
word is noticed whether the waiter spins, sleeps or is being nudged. `TaskTeam` and
`TaskGraph` treat a deque as a sequence, because `TaskDeque` refines `AbsDeque`. `Barrier`
leaves the task team out because `TaskTeam` has the calls the barrier makes; `TaskGraph`
ends with the tasks and leaves the termination of the region to `TaskTeam`, and
`Dispatch` takes the barrier at the end of a loop from `AbsBarrier`.

Conventions: one action per access to shared memory where others can see the order, and
one action per critical section where they cannot. x86 stores are seen in program order
and the flag updates are locked instructions; the models are sequentially consistent.
Definitions that differ from the code on purpose (`SetSleepNoRecheck`, `GrabBlindly`,
`PopUnchecked`, ...) stand before the definition they change and are not used by the
specification: they are the wrong programs that the properties must tell from the right
one, and `PROJECT.json` lists them as mutants.

`PrimitiveProofs` has the proofs of the two modules that the rest stands on, `WaitRelease`
and `TaskDeque`; that is why the definitions of `TaskDeque` that both would call `Init`,
`Next`, `Spec`, `TypeOK`, `vars` and `pc` are called `DequeInit`, `DequeNext`, `DequeSpec`,
`DequeTypeOK`, `dequeVars` and `point`. The proofs of the task graph are three modules: the
inductive invariant, the steps that change counters of children and groups, and the steps
of dependences with the theorems.

### 2.1 WaitRelease

One thread and everything that happens to it while it waits. It waits round after round
on the flags of an inner thread of a barrier: its children's `b_arrived` (flag32, or
whatever width), then its own `b_go` (flag64).

| TLA+ | code |
| --- | --- |
| `Check`, `GDone` | the loop of `__kmp_wait_template`, kmp_wait_release.h |
| `Return`, `EarlyExit` | what the barrier does after the wait: reset `b_go`, or leave at once when `g_done` is set |
| `Pool` | the update of `th_active_in_pool` in that loop |
| `Lock`, `SetSleep`, `FalseAlarm`, `SetLoc`, `Block`, `SpuriousWake`, `Reactivate`, `Unlock` | `__kmp_suspend_template` |
| `Release`, `AnySleeping` | `__kmp_release_template` |
| `ResumeLock` ... `ResumeUnlock` | `__kmp_resume_template`, one step per access |
| `NudgeRead`, `NudgeType` | `__kmp_null_resume_wrapper`, called by task stealers |
| `EnterPool`, `LeavePool`, `Shutdown`, `Reap` | the pool's insertion and removal, `__kmp_internal_end`, the end of `__kmp_reap_thread` |

Whether the waiter suspends at all, and when, is nondeterministic: it covers every
blocktime and every `__kmp_yield`. `MayRelease` is what the barrier guarantees the flags:
one release per round, a child's after the round before has ended for it, the parent's
after the waiter has arrived. `Barrier` shows that the barrier keeps to it.

### 2.2 AbsBarrier, Topology, Barrier

`AbsBarrier` is a counter per thread for entering and one for leaving; a thread leaves
round *r* only when all have entered it. `Topology` translates the index arithmetic of
the three patterns (who is gathered by whom, who names whom as its waiter, which children
are released in which order). `Barrier` takes *any* topology record with the properties
of `TopologyAssumption`: that is what lets the proofs hold for every pattern and team.
`MCBarrier` builds the records from `Topology`.

| TLA+ | code (kmp_barrier.cpp) |
| --- | --- |
| `Enter` | head of `__kmp_barrier` / `__kmp_join_barrier`, own reduce data |
| `GatherChild`, `Arrive`, `Gathered` | `__kmp_{linear,tree,hyper}_barrier_gather` |
| `PushIcvs`, `ReleaseChild` | `__kmp_*_barrier_release`, `copy_icvs`, `ngo_load/store` |
| `SeeGo`, `ResetGo`, `Leave` | a worker's wait and reset in the release |
| `EndSerial`, `kind` | split barrier and fork/join: the master returns and releases later |
| `SetIcv` | a thread in the region changes an ICV (`omp_set_num_threads`) |

### 2.3 AbsLock, QueuingLock, DrdpaLock

`AbsLock` has a queue of threads that are waiting and a holder; a thread is granted the
lock only from the head of the queue, or when nobody waits. `QueuingLock` has one
step per access to a shared word; the history variable `queue` records the order in which
the swaps of `tail_id` put threads on the queue. In `DrdpaLock` a waiter's read of the
mask, of the pointer and of the poll word are three steps, an area is memory that may be
freed, and reading outside an area returns *anything*. The owner field and the nested
interface of the DRDPA lock are left out.

### 2.4 AbsDeque, TaskDeque, ProxyDeque

The ring of one thread. Every operation tests `td_deque_ntasks` without the lock (`Look`,
`PushCheck`) and, if it goes on, again under it (`Push`, `Pop`, `Steal`). A critical
section is one step because the only shared word read outside the lock is
`td_deque_ntasks`, which each of them writes last. `ProxyDeque` adds `__kmp_give_task`
and the doubling of the ring.

### 2.5 AbsTaskBarrier, TaskTeam

`AbsTaskBarrier` lets tasks be created and run between barriers and opens a barrier only
when all threads have entered it and no task is left. `TaskTeam` models
`__kmp_execute_tasks_template` inside the wait (`Own`, `Steal`, `StealNothing`,
`Count`), `__kmp_push_task`, the start and end of a task with the counter of incomplete
children, `__kmp_task_team_setup`/`_sync`/`_wait` (`Setup`, `Leave`,
`Drained`) where `__kmp_barrier` calls them. The victim of a steal is any thread, which
covers every random choice and the retry of the last victim. A task runs from `Start` to
`Finish`. In between it may create tasks, and run one at once when its deque is full; its
other scheduling points are in `TaskGraph`. `runs` counts executions, so that a task
executed twice, or never, breaks the refinement.

### 2.6 AbsTaskGraph, TaskGraph

`AbsTaskGraph` takes a program: the body of each task (create a task, taskwait, taskgroup,
its end, taskyield), its dependences and its kind. Its state is the next construct of
each task and whether a task is new, created, running or done; `Before` says from the
program alone which siblings must be done before a task may start. `TaskGraph` runs the
same programs on a team. `ProgramsAssumption` says what a compiler makes of a task graph:
each task is created by one construct, taskgroups nest in a body (clang emits the two
calls around a statement), and a proxy task has no body, its routine only starts it. A
task that the source creates in a loop is as many constructs as it has iterations. A thread has a stack of frames, one for each task that it has
begun and not ended, each with its place in the body and in the runtime.

| TLA+ | code |
| --- | --- |
| `Create` | `__kmp_task_alloc`: descriptor, parent's counters, taskgroup |
| `Link`, `Enter`, `Count` | `__kmp_process_deps`, `__kmp_check_deps`, one step per edge, per entry of the hash, and for the final addition to `npredecessors` |
| `DepsMet`, `Begin` | `__kmpc_omp_wait_deps` and the undeferred task after it |
| `SubmitNew`, `Submit` | `__kmp_omp_task`: queue it, or run it at once if the deque is full |
| `TakeOwn`, `StealFrom`, `Descends` | `__kmp_execute_tasks_template`, with the task scheduling constraint |
| `Pass`, `Taskgroup`, `EndTaskgroup` | taskwait, taskyield, taskgroup; `Unlucky`: a taskyield tries its own tail and one victim |
| `Complete` ... `Released` | `__kmp_task_finish`, in steps: complete, leave the group, count down the parent, release the dependences |
| `Release`, `Notify`, `SubmitReleased`, `Drop` | `__kmp_release_deps`, one step per successor |
| `Free` | `__kmp_free_task_and_ancestors`, one step per generation |
| `Launch` ... `BottomHalf` | proxy tasks: the two top halves in the thread that calls `__kmpc_proxy_task_completed_ooo`, the bottom half in the team |

Two windows are closed in the runs by a condition named after the constant `Races`, and
section 3.1 says what happens in them.

### 2.7 AbsLoops, StaticLoops, Dispatch

`AbsLoops` takes a program too: a sequence of loops with trip counts, ordered or not,
with or without nowait. A thread takes any range of iterations that nobody has taken; the
ordered section of an iteration comes after those of all earlier ones; a loop is left only
when no iteration is left. `StaticLoops` translates `__kmp_for_static_init` in integers
of `Bits` bits, signed or not, and the loop that clang makes around the call. `Dispatch`
extends it with the state of the dynamic schedules.

| TLA+ | code (kmp_dispatch.cpp) |
| --- | --- |
| `Enter`, `Attach`, `Ready`, `Prepared` | `__kmp_dispatch_init`, with the wait for the buffer |
| `NextBalanced`, `NextChunked`, `NextDynamic`, `NextTrapezoidal`, `ZeroTrip` | the cases of `__kmp_dispatch_next` |
| `GuidedRead`, `GuidedAdd`, `GuidedSwap` | the guided case: read, add or compare and swap |
| `NextSteal`, `Attempt`, `Look`, `ReadVictim`, `SwapVictim`, `Store` | the stealing case, one step per access to a range |
| `Deo`, `Turn`, `Dxo`, `Finish`, `FinishChunk` | ordered sections and the turns of iterations without one |
| `Done`, `Reset`, `Recycle`, `Detach` | the end of the loop: the last thread resets the buffer |
| `EnterStatic`, `Round`, `NoRound`, `Leave` | a static loop: `__kmp_for_static_init` and clang's loop |

## 3. What the runs check

A property is listed with the question it answers. Every property has a mutant: a change
of the modelled code, of the kind a plausible bug would make, that violates it.

**wait_release** -- `NoLostWakeup`: a waiter blocked in `pthread_cond_wait` has its sleep
bit set, or a resumer holds a signal for it. `SleepBitOnlyInSuspend`, `SleepLocInSuspend`:
nothing stale stays behind in the word or in `th_sleep_loc`. `PoolCount`: the pool's
active count is exact. `ReleaseSeen`: no release is slept through. `ReapedWorkerLeaves`:
after `g_done` a worker ends, asleep or not, and no longer counts. *Bounds*: two flags
of different width (the type check of the nudge matters only then), one nudger (two
resumers beside the releaser of the other flag), two rounds (a resume meant for one round
may arrive in the next).

**barrier** -- four threads, the smallest team in which branch factor 2 gives an inner
thread with a child of its own; all nine pairs of patterns; plain, split and fork/join;
two rounds, so that slow threads of one meet fast ones of the next, and the reset of a go
word meets the next release. `FlagsInStep`, `ReductionComplete`, `IcvInheritedFixed` (the
ICVs, for the release patterns that hand on fixed ones), `Implements` (`AbsBarrier!Spec`
with its liveness). Two properties of the patterns are evaluated in the initial states, for
all teams up to 20 threads and branching 2, 4 and 8 (20 is a full level and a ragged edge
for each): `ArrivalWakesItsWaiter`: the thread a worker names as its waiter is the thread
that gathers it; `ReleaseReachesEveryone`: each worker is released once.

**queuing_lock** -- three threads (holder, head and tail of the queue all different),
nesting depth two. `OwnerNamesHolder` justifies the unsynchronized read of `owner_id`;
`QueueLinked` gives the shape of the queue, half linked included; `Implements`: a fair
lock with one holder (the mapped owner counts a granted thread that has not run yet, and
two holders have no counterpart in `AbsLock`); `Served`.

**drdpa_lock** -- three threads, six tickets, so the area doubles while old tickets still
poll, and is freed. `PollsInBounds`, `HolderUpToDate` (the holder reconfigures from what it
read while polling: that is the lock's current shape), `Implements`, `Served`. Three
threads that all test and acquire do not fill the area beyond a tester, so `omp_test_lock`
is harmless in this run; a fourth thread shows that it is not (`drdpa_test`).

**task_deque** -- a ring of four, seven tasks: the indices wrap, the ring fills and
empties; two thieves, so a stale test can be stale because of a third party. The tasks are
bounded and so the system ends: deadlock is not checked. `Implements` includes that a
task is taken once.

**task_team** -- a chain of three threads (master gathers *a*, *a* gathers *b*: with an
inner thread that executes tasks in a non-final wait), deque capacity one (a second task
runs at once), two tasks of which one may create the other, three barriers (the first
task team is reused in the third). `UnfinishedExact`: `tt_unfinished_threads` is the number
of threads that have not counted themselves out, of the team's current task team.
`TeamsApart`: no thread looks for tasks in a task team of the wrong generation.
`Implements`: `AbsTaskBarrier!Spec` with its liveness.

**task_graph** -- three threads, deques of one slot (so that a task may be queued, stolen
or run at once), eight programs of up to four tasks and two addresses (`MCTaskGraph` says
what each is for: a fan of readers between writers, a predecessor counted twice, a child
that outlives its parent, tasks held back by the scheduling constraint, an undeferred
task between two writers, proxies that others wait for). Four tasks are enough for a
chain of three generations with a sibling, and for a node with two predecessors and a
successor. `NothingDangles`: what a frame, a deque, a node, a hash or a completion in
progress refers to has not been freed. `NothingLeaks`: when a program is over,
everything has been. `Implements`: `AbsTaskGraph!Spec`. `Terminates`. The programs end, so
deadlock is not checked; `Terminates` says that they end in the right place.

**dispatch** -- three threads, a ring of two buffers, indices of two bits, variables of
five. One program has five loops without a barrier between them: more than buffers, and
than indices. Another has a static loop between loops that use buffers: it counts no
index. The others give each schedule a loop with a remainder and one with less to
do than threads, ordered sections after iterations and after chunks, and stealing with a
barrier after it. About 330 static loops run through the same states: each kind, signed and
unsigned, up and down, by 1 to 3, at both ends of the range. `BuffersApart`: a buffer bears
the index of the loop of whoever uses it. `LastIterationKnown`: the lastprivate flag.
`Implements`: `AbsLoops!Spec`. `LoopsEnd`. The programs end: deadlock is not checked.
What is not asked of static loops: a trip count of 2^Bits, which has no representation,
and chunked and greedy loops whose last chunk would pass the end of the type (`HasRoom`),
where the code wraps and makes no promise. In 5 bits N*N may be 16 at most or the
product of the greedy schedule wraps; with 32 bits the same holds to 46340 threads.

### 3.1 Findings: runs that end in a violation

| run | what |
| --- | --- |
| drdpa_test | `__kmp_test_drdpa_lock` reads the pointer before the mask (kmp_lock.cpp:2713), against the rule written in the acquire, and has no ticket that would keep the area from being freed. |
| task_deque_grow | `__kmp_give_task` grows a deque on the word of a test it made before it took the lock (kmp_tasking.cpp:2771); the copy assumes a full ring. |
| dispatch_steal | A thief recognizes a victim in the same loop by a counter (kmp_dispatch.cpp:1250) that each buffer of the ring has for itself, so two threads in different loops may agree; the assertions at 1755 and 1801 fail, and chunks of one loop are executed in the other. Needs `nowait`. |
| simd_static | `schedule(simd:static,c)` gets one chunk per thread and no stride (kmp_sched.cpp:328), and clang's loop goes on by the stride that it initialized to 1. |

Four more disagreements have no run of their own; each is seen by changing one constant
or the property of a run:

* With the tree release an inner thread copies ICVs from the *master's* implicit task when
  it releases its child; the master may run the region by then and have changed them
  (kmp_barrier.cpp:400). Check `IcvInherited` instead of `IcvInheritedFixed` in
  `MCBarrier.cfg`, with `Topologies <- TreeTopology`.
* When oversubscribed, a DRDPA lock contracts its area to one word with the order of
  writes that protects only a growing area (kmp_lock.cpp:2603). Set `Oversubscribed =
  {FALSE, TRUE}` in `MCDrdpaLock.cfg`.
* The node of `__kmpc_omp_wait_deps` is a local variable (kmp_taskdeps.cpp:570); the last
  releaser dereferences it after it has counted it down to zero (407), when the waiter may
  have returned. `Races = {"wait_deps"}` in `MCTaskGraph.cfg`.
* The thread that started a proxy task reads its flags when the routine returns
  (kmp_tasking.cpp:1315); the task may be complete by then, its bottom half done and its
  descriptor freed. `Races = {"proxy"}`.

These properties are therefore restricted in the passing runs, as said there:
`IcvInheritedFixed` leaves out the tree release, `drdpa_lock` runs without
oversubscription, `task_deque` has no giver from outside, `task_graph` keeps the two
windows closed, no stealing loop of `dispatch` meets another without a barrier between
them, and simd:static is left out.

### 3.2 Fairness

* **WaitRelease**: weak fairness of each thread's steps: a thread inside the runtime keeps
  running. Strong fairness of `Lock` and `ResumeLock`: a mutex everyone else releases does
  not starve one thread, which pthread mutexes give in practice and the model needs
  because the contenders are finitely many. Nothing forces a releaser to release, save
  that after `g_done` the reaper does, and finishes once the worker has ended.
* **Barrier**: weak fairness of each thread while in the runtime; entering a barrier is
  the program's business and not fair, so `AbsBarrier` promises only that a barrier all
  have entered is left by all.
* **Locks**: weak fairness of the steps inside acquire and release. The holder is assumed
  to unset a lock it holds, once per acquire; strong fairness of the last unset only,
  because a holder may nest and unnest for ever.
* **TaskTeam**: weak fairness of each thread's step; tasks end. Entering a barrier is not
  assumed.
* **Deques**: none; only safety is claimed.
* **TaskGraph, Dispatch**: weak fairness of the next-state relation as a whole. A wait is
  a step that is not enabled, so this is the weakest assumption there is: something that
  can run, runs. `Terminates` and `LoopsEnd` then say that no set of threads ends up waiting
  for each other, and that no thread is needed to run for ever.

## 4. What is proved

TLC checks the instances above. `tlapm` proves for *every* value of the constants:

* **PrimitiveProofs, on WaitRelease** -- any set of flags, any widths, any set of nudgers,
  from `FlagAssumption` only. `TypeCorrect`; `WakeUpsNotLost`, `SleepBitsCleared`,
  `SleepLocCleared`, from the inductive invariant `ProtocolInv`; `PoolCounted`, from
  `PoolInv`. `NoLostWakeup` alone is not inductive: the argument needs who owns the mutex
  at which control point (`MutexInv`: the waiter from `Lock` to `Block` and a resumer from
  `ResumeLock` to `ResumeUnlock` exclude each other), that while a released word has a
  sleep bit its releaser has yet to look at it (`ReleaserPending`), that a resumer that
  cleared the bit of a blocked waiter will signal (`SignalPending`), and that one that
  cleared it clears `th_sleep_loc` too (`LocPending`). The pool's count needs the meaning
  of the local `deactivated` (`DeactInv`).
* **BarrierProofs** -- any number of threads and any topologies that satisfy
  `TopologyAssumption`, any ICVs and any number of rounds. `TypeCorrect`;
  `FlagsStayInStep`; `BarrierHolds`: the barrier implements the safety part of
  `AbsBarrier`, step by step; `ReductionDone`; `IcvReachesWorkers`. The inductive invariant `IInv` joins `Phase` (a thread's
  control point against its round and its words), `GatherInv` (a thread that arrived has
  everything below it arrived), `GoInv` (a go word is set only for a worker that waits in
  this round) and `ReleaseInv` (the releases a child has received are those its only
  releasing parent has made). `FlagsInStep` alone is not inductive: it speaks of the
  master's return from the gather only, and what is true then depends on every thread
  below it. `ReductionDone` adds what each thread has collected so far, its own value and
  those of the subtrees it has waited for (`ReducedInv`): the subtrees of its children are
  disjoint, so that no value comes twice, and a child that has arrived has its whole
  subtree and keeps it until it is released. `IcvReachesWorkers` adds where the ICVs of the
  region are on their way (`IcvInv`): with a linear release in the implicit task of each
  worker that has not left, with the hyper release in `th_fixed_icvs` of each thread whose
  go word is set. It says nothing of the tree release, where the ICVs may be wrong
  (section 3.1).
  That the three patterns satisfy `TopologyAssumption` and `KindsAssumption` is checked by TLC
  for the teams of the runs (it is an `ASSUME` of the module the run instantiates), and
  its tree property for teams to 20 in **barrier**.
* **QueuingLockProofs** -- any number of threads, any depth of nesting. `TypeCorrect`;
  `MutualExclusion`; `OwnerCorrect`; `QueueCorrect`; `FirstComeFirstServed`: the lock
  implements the safety part of `AbsLock`. The inductive invariant `IInv` says of each
  control point whether its thread holds, is on the queue or neither (`Places`), that the
  queue has no thread twice and exactly the threads that wait (`Members`), that the two ids
  are 0, -1 or its ends (`Ends`), which links are written and which are still the business
  of a thread between its swap and its store (`Linking`, `Links`, `Unlinked`), who spins
  (`Spinning`), and that the one thread taken off the queue and not yet running is the one
  being handed the lock (`HandOver`). Mutual exclusion alone is not inductive, because the
  release decides from `head_id` and a link, not from who holds.
* **PrimitiveProofs, on TaskDeque** -- a ring of any size, any tasks, any number of
  thieves. `DequeTypeCorrect`; `RingIsDeque`: it implements `AbsDeque`. The inductive invariant joins
  `Level` (the tail is the head plus the number of tasks, modulo the size) and the owner's
  right to write the slot of the tail although it tested the number of tasks without
  the lock (`PushingTask`: others only take).
* **DispatchProofs, on StaticLoops** -- any number of iterations and threads. `SharesPartition`: the
  balanced static schedule, which is also the first division of the stealing schedule,
  gives each iteration to one thread, and shares differ by one at most. The proof goes
  through the shares' boundaries being consecutive; that the code computes these numbers in
  the width of the variable is what **dispatch** checks.
* **TaskTeamProofs** -- any team and any tree that gathers it (`SpanAssumption`: a set of
  threads that contains the master and the children of each of its members is the team),
  any deques, tasks and rounds. `TypeCorrect`; `UnfinishedCounted`; `TeamsStayApart`;
  `BarrierWaitsForTasks`: it implements the safety part of `AbsTaskBarrier`, that is, the
  barrier opens only when everybody has entered and no task is left, and each task is
  executed once. None of the three invariants is inductive. `IInv` adds: every thread is
  past all open barriers or about to leave the last one (`Phases`), has arrived only after
  those it gathers (`Arrivals`); the task team not in use is inactive or as new (`Teams`);
  only current threads have tasks, in the deques of the current task team (`Apart`); where
  a thread can be in its search when its deque must be empty, and that one that has
  counted itself out has no task (`Searches`); the count is exact (`Counts`); until the
  first task is created nobody searches (`Idle`), which is why the master may skip the last
  wait when none was found; `incomplete` is the number of children not executed
  (`Children`); and each task not executed is in exactly one place of one deque or hand
  (`Located`), which four lemmas about moving an element between sequences preserve.
* **DrdpaLockProofs** -- any number of threads, any number of tickets, any sequence of
  reallocations. `TypeCorrect`; `NoWildPolls` (`PollsInBounds`); `HolderIsUpToDate`;
  `MutualExclusion`; `FirstComeFirstServed`: the lock implements the safety part of
  `AbsLock`. Two hypotheses exclude what the code gets wrong (section 3.1), and neither is
  about anything else: `TRUE \notin Oversubscribed`, no holder contracts the area; and
  `[]TestsInBounds`, no `omp_test_lock` reads outside an area, a hypothesis on the
  execution. `SafeWithoutTests` has no hypothesis of the second kind: in a program that does
  not test, the rest follows.
  The argument: there is a ticket `g` that is being served, and `IInv` says that there is
  one such that all tickets from `g` on are out with one thread each (`Tickets`,
  `Accounted`), that no word of any area ever allocated lets a later one pass, and that the
  current area has a word that lets `g` pass (`Words`); that mask, pointer and size agree
  but between the stores of a holder that replaces them (`Layout`); and that a thread that
  carries an old mask or an old pointer is `Stale`, that is, has a ticket before the one
  that may free the old area, while its mask is not larger than its pointer allows, because
  masks grow and the mask is read first (`Readers`). That is what the comment at
  kmp_lock.cpp:2551 asks for, and the test does not do. Mutual exclusion alone says nothing
  of words and areas; it is preserved only because no word runs ahead of `g`.
* **DispatchProofs, on Dispatch** -- any number of threads, any ring, any set of programs, static loops
  and loops without barriers included. `RingKeepsLoopsApart` (`BuffersApart`). Its
  hypothesis `IndicesSuffice`: there are more indices than buffers, and either the ring
  divides the range of the index or no program has more loops than indices. Both parts are
  needed: with as many buffers as indices, a buffer given back has the index it had before,
  and with three buffers and four indices a team hangs in its fifth loop (TLC finds both
  when `NumBuffers` and `Programs` are changed). The code has 2^32 indices and 7 buffers
  unless told otherwise (kmp.h:914), which is the second alternative: at most 2^32 loops in a
  region. Under the first there may be any number of loops and the indices wrap; the run
  has this case. `IInv` says that there is a function `G` from slots to the numbers of
  the loops they are for, with: `buffer_index` is that number as far as an index can tell
  (`Fits`); no thread is more than a ring ahead of it or behind (`Window`), which is why
  an index found in a slot identifies the loop although indices repeat (`IndexIdentifies`,
  by remainders); whoever uses a slot is in its loop (`UsesOwn`); `num_done` is the number
  of threads that have reported (`Counted`), so that the one who resets is the last and
  alone (`AloneAtEnd`); and a turn is never taken in an unordered loop (`NoTurns`), which
  is why the code need not reset it then. The provers do not know that a power of two is a
  number: `IndexAssumption` says it.
* **TaskGraphProofs** (with **TaskGraphInv**, **TaskGraphSteps**) -- any number of
  threads, tasks and addresses, any capacity of the deques, any set of programs that
  `ProgramsAssumption` admits, any interleaving. `SpecInv`; `TypeCorrect`; `NoDangling`
  (`NothingDangles`): no frame, deque, hash, successor list, child or completion of a proxy
  refers to a descriptor, a node or a group that has been freed; `NoLeak`
  (`NothingLeaks`): in the end all of them have been. The one hypothesis is `Races = {}`,
  the two windows of section 3.1 are closed: with either open, TLC finds the states in
  which something dangles.
  The runtime keeps counters where the argument needs to know *what* they count, and a
  list that a releaser walks has left its node by then. The invariant therefore says that
  there are seven witnesses (`IInv == \E W, K, R, H, O, B, C : ...`): `W`, the place of each
  task (being linked, blocked, queued, in its body, in one of the stages of its end, gone);
  `K`, for a finished task whose thread goes on freeing ancestors, the ancestor it has
  reached; `R`, the successors each task has yet to tell; `H`, the group each task
  was created in; `O`, the groups open in each body; `B` and `C`, the order of creation.
  Over them: each frame, deque and proxy agrees with the place of the tasks it holds, and no
  task is held twice (`Shape`); `td_allocated_child_tasks` counts the task itself, its
  children not freed and the climbers that have reached it (`Kids`);
  `td_incomplete_child_tasks` the children a taskwait waits for, and the imaginary child of a
  proxy (`Incs`); a group counts the tasks created in it that have not left it, and groups
  nest (`Groups`); `npredecessors` the lists that name the task and have not told it, less
  what its creator has yet to add (`Preds`); `nrefs` the task, the lists and the entries of
  the hash (`Nodes`); a task on its way is held by a frame or lies in a deque (`Present`).
  None of the counters is inductive by itself: that the last reference is the last
  depends on who still holds the task, which depends on its place, which for a blocked
  task is left only through the count of predecessors.
  `NothingDangles` follows from the counts: what is referred to is counted, so its
  count is not zero, so it is live. `NothingLeaks` takes more: with all stacks at the
  barrier and all deques empty, a task left must be blocked, hence named by a list of an
  older task (`Order`), which must be blocked too; the oldest has none. Of the rest,
  each is gone and counts only children and climbers, and the youngest has none. These are
  two uses of well-founded induction on `B`, in the form of a least element of a set of
  numbers.
  The proof changed the model in one place: the filter of duplicate addresses was a
  sequence built with `SelectSeq`; it is now the set of the entries that the second loop does
  not skip (`Kept`), which is what the code has too. And it needed the assumptions on
  programs above: with one task created by two constructs, the descriptor of the second
  would overwrite that of the first.

Only model-checked: all liveness (it needs ENABLED and fairness); the index arithmetic of
the barrier's patterns (recursion over levels); that tasks start after those they
depend on (`Implements` of `TaskGraph`); and of the loops, which iterations are handed
out, in what order, and who gets the last one (`Implements`, `LastIterationKnown`, and the
widths in `TypeOK` of `Dispatch`). `AbsTaskGraph` and the trip counts of loops involve the
program as data: what a task must wait for is read off the constructs before its own,
while the code has only the last writer and the readers since, and that these suffice goes
by induction over the constructs; the dynamic schedules compute in a width in which the
provers do not.

## 5. What is abstracted

* Memory order: sequential consistency, as argued in section 2.
* Payloads: a task is a number or a name, an ICV one of two values, reduce data the bag of
  the threads whose value it contains; an address of a dependence has an entry of the hash
  to itself (buckets do not matter to who conflicts with whom).
* Counters: barrier states count in units of `STATE_BUMP` and do not wrap (64-bit words);
  tickets and tasks are bounded by `MaxTicket`, `MaxTasks`; rounds by `MaxRounds`. Bounds
  stand in guards and are named constants.
* `KMP_BLOCKTIME`, yielding and oversubscription heuristics: nondeterministic or absent.
* Steps of the code that are one in a model. `QueuingLock`: `owner_id` and
  `depth_locked`, which only the holder writes, are written together; another thread reads
  the first only, to compare it with itself. `TaskGraph`: a thread tests what it waits for
  when it takes a task, where the code has tested it before it looked, and may execute one
  more task than in the model; the references of an entry, or of a hash that is freed, are
  dropped together, where the code drops one after the other, and nobody reads `nrefs` in
  between but to count it down. `Dispatch`: the thread writes its private buffer in the
  step in which it enters the loop (`Enter`), which a thief could tell apart only if it still
  looked at the buffer from a loop one lap of the ring before, in stealing loops without a
  barrier between them, which are left out of the runs; a thief reads the victim's counter
  once (`Look`), not twice; and a thread whose range is past the end of the loop gets
  nothing (`NextSteal`), where the code has an assertion only, in states that `dispatch_steal`
  alone reaches.
* The share of a guided chunk is an integer quotient; the code multiplies by a double
  (kmp_dispatch.cpp:1999), which rounds otherwise for numbers beyond the model's.
* Hibernation through the monitor thread, OMPT, ITT, statistics, consistency checks that
  abort the program.
* Failures of `pthread` calls abort the process and are not modelled. Nothing is
  persistent, so there is no recovery from crashes.

## 6. Not modelled

* **Hierarchical barrier**: its trees come from the machine topology, which is not
  modelled; used only when asked for by the environment.
* **Cancellation**: off unless `OMP_CANCELLATION` is set. A model needs `Barrier` with
  waits that may be abandoned, and all three of its barriers.
* **Locks**: ticket, test-and-set, futex and adaptive locks, the owner and the nested
  interface of the DRDPA lock, lock tables and indirect locks.
* **Tasking**: serialized teams and final tasks (sequential), the parts of an untied task
  (this clang generates none), `__kmpc_proxy_task_completed` called by a thread of the
  team, taskloop and the GOMP entries (loops over what is modelled).
* **Dynamic loops**: the analytical guided schedule (x87 floating point), stealing under
  a lock for 8-byte variables, serialized teams, the mapping of numbers to values,
  `p_last`, doacross. **Static loops**: the entry points for `distribute`, which this
  clang does not call.
* **Fork/join**: allocation, resizing and reuse of teams, under `__kmp_forkjoin_lock`.
* **The passes** of the repository are sequential rewritings of LLVM IR whose results
  depend on LLVM's own data structures; the rest of LLVM and clang is vendored.

Numeric edges met while reading, too large for a run in small integers: guided loops of
2^31 iterations or more in an unsigned 32-bit variable; a loop index that wraps at 2^32
with a ring of 7 buffers, which does not divide it
(section 4, `IndicesSuffice`); static loops without headroom, as said
in section 3. The overwritten pointer to the lock of a stealing loop (kmp_dispatch.cpp:878)
concerns 8-byte variables.

## 7. Plan

Done: flag waits and flat barriers, the queuing and the DRDPA lock, all of tasking but
what section 6 names, dynamic and static worksharing; proofs for flag waits, barriers,
both locks, deques, the task team, the task graph, static shares and the ring of buffers.

Next, in this order: a barrier that may be cancelled; ticket and test-and-set locks over
an unfair `AbsLock`; the hierarchical barrier over `AbsBarrier`; teams that are resized
between regions. For the proofs: that tasks start after those they depend on (`Implements`
of `TaskGraph`), from the invariant of section 4; the lastprivate flag of static loops
(`LastIterationKnown`).
