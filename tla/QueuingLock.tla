----------------------------- MODULE QueuingLock -----------------------------
(***************************************************************************)
(* The queuing lock of kmp_lock.cpp, the runtime's default: acquire, test and *)
(* release, and the simple and nestable interfaces around them.  A thread is *)
(* its gtid + 1.  Every access to head_id, tail_id, spin_here and            *)
(* next_waiting is a step of its own; owner_id and depth_locked, which only  *)
(* the holder writes, are written in one.                                    *)
(***************************************************************************)
EXTENDS Integers, Sequences, FiniteSets

CONSTANTS
    N,          \* threads
    Nestable,   \* omp_nest_lock_t or omp_lock_t
    MaxDepth    \* bound on the depth of nesting

ASSUME NAssumption == N \in Nat
ASSUME NestAssumption == Nestable \in BOOLEAN /\ MaxDepth \in Nat \ {0}

Threads == 1..N
Nobody == 0
Held == -1      \* head_id of a lock that is held with an empty queue

VARIABLES
    headId, tailId, \* lk.head_id and lk.tail_id, two halves of one 64-bit word
    ownerId, depth, \* lk.owner_id and lk.depth_locked
    spinHere,       \* th_spin_here of each thread
    nextWaiting,    \* th_next_waiting of each thread
    pc, head, tail, \* each thread's control point and locals
    queue           \* history: the order in which threads entered the queue

words  == <<headId, tailId>>
nest   == <<ownerId, depth>>
locals == <<head, tail>>
vars   == <<words, nest, spinHere, nextWaiting, pc, locals, queue>>

Init ==
    /\ headId = 0 /\ tailId = 0
    /\ ownerId = Nobody /\ depth = 0
    /\ spinHere = [t \in Threads |-> FALSE]
    /\ nextWaiting = [t \in Threads |-> Nobody]
    /\ pc = [t \in Threads |-> "out"]
    /\ head = [t \in Threads |-> 0] /\ tail = [t \in Threads |-> 0]
    /\ queue = <<>>

At(t, where) == pc[t] = where
Goto(t, where) == pc' = [pc EXCEPT ![t] = where]

----------------------------------------------------------------------------
(* Acquire. *)

\* omp_set_lock of a thread that does not own the lock.  spin_here is set before
\* the thread can be seen on the queue.
Acquire(t) ==
    /\ At(t, "out") /\ ownerId # t
    /\ spinHere' = [spinHere EXCEPT ![t] = TRUE]
    /\ Goto(t, "read")
    /\ UNCHANGED <<words, nest, nextWaiting, locals, queue>>

\* omp_set_nest_lock or omp_test_nest_lock of a thread that finds itself the owner.
Deepen(t) ==
    /\ pc[t] \in {"out", "cs"} /\ Nestable /\ ownerId = t
    /\ depth < MaxDepth
    /\ depth' = depth + 1
    /\ Goto(t, "cs")
    /\ UNCHANGED <<words, ownerId, spinHere, nextWaiting, locals, queue>>

ReadHead(t) ==
    /\ At(t, "read")
    /\ head' = [head EXCEPT ![t] = headId]
    /\ Goto(t, CASE headId = 0 -> "grab" [] headId = Held -> "enqueueFirst"
                 [] OTHER -> "readTail")
    /\ UNCHANGED <<words, nest, spinHere, nextWaiting, tail, queue>>

\* (0,0) -> (-1,0): the lock was free.
Grab(t) ==
    /\ At(t, "grab")
    /\ IF headId = 0 THEN headId' = Held /\ Goto(t, "unspin")
                     ELSE UNCHANGED headId /\ Goto(t, "read")
    /\ UNCHANGED <<tailId, nest, spinHere, nextWaiting, locals, queue>>

Unspin(t) ==
    /\ At(t, "unspin")
    /\ spinHere' = [spinHere EXCEPT ![t] = FALSE]
    /\ Goto(t, "setOwner")
    /\ UNCHANGED <<words, nest, nextWaiting, locals, queue>>

\* (-1,0) -> (t,t), one 64-bit compare-and-swap.
EnqueueFirst(t) ==
    /\ At(t, "enqueueFirst")
    /\ tail' = [tail EXCEPT ![t] = 0]
    /\ IF headId = Held /\ tailId = 0
       THEN headId' = t /\ tailId' = t /\ queue' = Append(queue, t) /\ Goto(t, "spin")
       ELSE UNCHANGED <<words, queue>> /\ Goto(t, "read")
    /\ UNCHANGED <<nest, spinHere, nextWaiting, head>>

ReadTail(t) ==
    /\ At(t, "readTail")
    /\ tail' = [tail EXCEPT ![t] = tailId]
    /\ Goto(t, IF tailId = 0 THEN "read" ELSE "enqueueLast")
    /\ UNCHANGED <<words, nest, spinHere, nextWaiting, head, queue>>

EnqueueUnchecked(t) ==
    /\ At(t, "enqueueLast")
    /\ tailId' = t /\ queue' = Append(queue, t) /\ Goto(t, "link")
    /\ UNCHANGED <<headId, nest, spinHere, nextWaiting, locals>>
\* (h,u) -> (h,t).
EnqueueLast(t) ==
    /\ At(t, "enqueueLast")
    /\ IF tailId = tail[t]
       THEN tailId' = t /\ queue' = Append(queue, t) /\ Goto(t, "link")
       ELSE UNCHANGED <<tailId, queue>> /\ Goto(t, "read")
    /\ UNCHANGED <<headId, nest, spinHere, nextWaiting, locals>>

Link(t) ==
    /\ At(t, "link")
    /\ nextWaiting' = [nextWaiting EXCEPT ![tail[t]] = t]
    /\ Goto(t, "spin")
    /\ UNCHANGED <<words, nest, spinHere, locals, queue>>

Spin(t) ==
    /\ At(t, "spin") /\ ~spinHere[t]
    /\ Goto(t, "setOwner")
    /\ UNCHANGED <<words, nest, spinHere, nextWaiting, locals, queue>>

\* The new holder sets the depth, then owner_id.
SetOwner(t) ==
    /\ At(t, "setOwner")
    /\ depth' = 1 /\ ownerId' = t
    /\ Goto(t, "cs")
    /\ UNCHANGED <<words, spinHere, nextWaiting, locals, queue>>

----------------------------------------------------------------------------
(* Test. *)

Test(t) ==
    /\ At(t, "out") /\ ownerId # t
    /\ head' = [head EXCEPT ![t] = headId]
    /\ Goto(t, IF headId = 0 THEN "tryGrab" ELSE "out")
    /\ UNCHANGED <<words, nest, spinHere, nextWaiting, tail, queue>>

TryGrab(t) ==
    /\ At(t, "tryGrab")
    /\ IF headId = 0 THEN headId' = Held /\ Goto(t, "setOwner")
                     ELSE UNCHANGED headId /\ Goto(t, "out")
    /\ UNCHANGED <<tailId, nest, spinHere, nextWaiting, locals, queue>>

----------------------------------------------------------------------------
(* Release. *)

UnsetKeepsOwner(t) ==
    /\ At(t, "cs")
    /\ depth' = depth - 1
    /\ Goto(t, IF depth = 1 THEN "relRead" ELSE "cs")
    /\ UNCHANGED <<words, ownerId, spinHere, nextWaiting, locals, queue>>
UnsetOneTooMany(t) ==
    /\ At(t, "cs")
    /\ depth' = depth - 1
    /\ IF depth = 0 THEN ownerId' = Nobody /\ Goto(t, "relRead")
                    ELSE UNCHANGED <<ownerId, pc>>
    /\ UNCHANGED <<words, spinHere, nextWaiting, locals, queue>>
\* omp_unset_lock, omp_unset_nest_lock: the last one clears owner_id, then releases.
Unset(t) ==
    /\ At(t, "cs")
    /\ depth' = depth - 1
    /\ IF depth = 1 THEN ownerId' = Nobody /\ Goto(t, "relRead")
                    ELSE UNCHANGED <<ownerId, pc>>
    /\ UNCHANGED <<words, spinHere, nextWaiting, locals, queue>>

RelRead(t) ==
    /\ At(t, "relRead")
    /\ head' = [head EXCEPT ![t] = headId]
    /\ Goto(t, IF headId = Held THEN "relFree" ELSE "relTail")
    /\ UNCHANGED <<words, nest, spinHere, nextWaiting, tail, queue>>

\* (-1,0) -> (0,0): nobody waits.
RelFree(t) ==
    /\ At(t, "relFree")
    /\ IF headId = Held THEN headId' = 0 /\ Goto(t, "out")
                        ELSE UNCHANGED headId /\ Goto(t, "relRead")
    /\ UNCHANGED <<tailId, nest, spinHere, nextWaiting, locals, queue>>

RelTail(t) ==
    /\ At(t, "relTail")
    /\ tail' = [tail EXCEPT ![t] = tailId]
    /\ Goto(t, IF head[t] = tailId THEN "relLast" ELSE "relNext")
    /\ UNCHANGED <<words, nest, spinHere, nextWaiting, head, queue>>

\* (h,h) -> (-1,0): the one waiter leaves the queue.
RelLast(t) ==
    /\ At(t, "relLast")
    /\ IF headId = head[t] /\ tailId = head[t]
       THEN headId' = Held /\ tailId' = 0 /\ queue' = Tail(queue) /\ Goto(t, "clear")
       ELSE UNCHANGED <<words, queue>> /\ Goto(t, "relRead")
    /\ UNCHANGED <<nest, spinHere, nextWaiting, locals>>

RelNextUnlinked(t) ==
    /\ At(t, "relNext")
    /\ headId' = nextWaiting[head[t]]
    /\ queue' = Tail(queue)
    /\ Goto(t, "clear")
    /\ UNCHANGED <<tailId, nest, spinHere, nextWaiting, locals>>
\* (h,u) -> (h',u): wait until the second in the queue has linked itself.  (The word
\* waited for does not change again before this thread clears it.)
RelNext(t) ==
    /\ At(t, "relNext") /\ nextWaiting[head[t]] # Nobody
    /\ headId' = nextWaiting[head[t]]
    /\ queue' = Tail(queue)
    /\ Goto(t, "clear")
    /\ UNCHANGED <<tailId, nest, spinHere, nextWaiting, locals>>

Clear(t) ==
    /\ At(t, "clear")
    /\ nextWaiting' = [nextWaiting EXCEPT ![head[t]] = Nobody]
    /\ Goto(t, "wake")
    /\ UNCHANGED <<words, nest, spinHere, locals, queue>>

WakeHead(t) ==
    /\ At(t, "wake")
    /\ spinHere' = [spinHere EXCEPT ![headId] = FALSE]
    /\ Goto(t, "out")
    /\ UNCHANGED <<words, nest, nextWaiting, locals, queue>>

Wake(t) ==
    /\ At(t, "wake")
    /\ spinHere' = [spinHere EXCEPT ![head[t]] = FALSE]
    /\ Goto(t, "out")
    /\ UNCHANGED <<words, nest, nextWaiting, locals, queue>>

Inside(t) ==
    \/ ReadHead(t) \/ Grab(t) \/ Unspin(t) \/ EnqueueFirst(t) \/ ReadTail(t)
    \/ EnqueueLast(t) \/ Link(t) \/ Spin(t) \/ SetOwner(t) \/ TryGrab(t)
    \/ RelRead(t) \/ RelFree(t) \/ RelTail(t) \/ RelLast(t) \/ RelNext(t)
    \/ Clear(t) \/ Wake(t)
Next == \E t \in Threads : Acquire(t) \/ Deepen(t) \/ Test(t) \/ Unset(t) \/ Inside(t)

Spec == Init /\ [][Next]_vars
\* A thread inside a lock routine keeps running, and a program that holds the lock
\* gives it back rather than nest and unnest for ever.
FairSpec == Spec /\ \A t \in Threads :
    WF_vars(Inside(t)) /\ WF_vars(Unset(t)) /\ SF_vars(depth = 1 /\ Unset(t))

----------------------------------------------------------------------------
TypeOK ==
    /\ headId \in {Held, 0} \union Threads /\ tailId \in {0} \union Threads
    /\ ownerId \in {Nobody} \union Threads /\ depth \in 0..MaxDepth
    /\ spinHere \in [Threads -> BOOLEAN]
    /\ nextWaiting \in [Threads -> {Nobody} \union Threads]
    /\ pc \in [Threads -> {"out", "read", "grab", "unspin", "enqueueFirst", "readTail",
                            "enqueueLast", "link", "spin", "setOwner", "cs", "tryGrab",
                            "relRead", "relFree", "relTail", "relLast", "relNext",
                            "clear", "wake"}]
    /\ head \in [Threads -> {Held, 0} \union Threads]
    /\ tail \in [Threads -> {0} \union Threads]
    /\ queue \in Seq(Threads)

\* u has taken t off the queue and is about to wake it.
Dequeuing(u, t) == pc[u] \in {"clear", "wake"} /\ head[u] = t
Granted(t) == At(t, "spin") /\ (~spinHere[t] \/ \E u \in Threads : Dequeuing(u, t))
Holds(t) == Granted(t) \/ pc[t] \in {"unspin", "setOwner", "cs", "relRead", "relFree",
                                     "relTail", "relLast", "relNext"}

\* The racy test of owner_id in acquire and test is right: it names a thread exactly
\* while that thread is between its first acquire and its last release.
OwnerNamesHolder == \A t \in Threads : ownerId = t <=> At(t, "cs")

\* head_id, tail_id and the next_waiting links spell the queue of the waiting threads
\* in the order of their arrival; a link may be missing only while the thread it leads
\* to is about to write it, and a thread off the queue keeps no link.
QueueLinked ==
    /\ queue = <<>> => headId \in {0, Held} /\ tailId = 0
    /\ queue # <<>> => headId = queue[1] /\ tailId = queue[Len(queue)]
    /\ \A i \in 1..Len(queue) :
         /\ At(queue[i], "spin") \/ At(queue[i], "link")
         /\ \A j \in 1..Len(queue) : queue[i] = queue[j] => i = j
    /\ \A i \in 1..(Len(queue) - 1) : LET t == queue[i] u == queue[i + 1] IN
         \/ nextWaiting[t] = u /\ At(u, "spin")
         \/ nextWaiting[t] = Nobody /\ At(u, "link") /\ tail[u] = t
    /\ \A t \in Threads : (\A i \in 1..(Len(queue) - 1) : queue[i] # t) =>
         nextWaiting[t] = Nobody \/ \E u \in Threads : At(u, "clear") /\ head[u] = t

\* The holder, counting the hand-over: from the moment a release has dequeued a thread, that
\* thread is the holder, though it may not know yet.  Two holders have no place in AbsLock.
Holders == {t \in Threads : Holds(t)}
Owner == IF Holders = {} THEN Nobody ELSE IF Cardinality(Holders) > 1 THEN Held
         ELSE CHOOSE t \in Threads : Holds(t)
Abs == INSTANCE AbsLock WITH Free <- Nobody, owner <- Owner

\* First come, first served, and everyone who queues is served in the end.
Implements == Abs!Spec

\* A thread that is on the queue comes to hold the lock.
Served == \A t \in Threads : pc[t] \in {"link", "spin"} ~> At(t, "cs")
=============================================================================
