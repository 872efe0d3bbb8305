------------------------------- MODULE Dispatch -------------------------------
(***************************************************************************)
(* Dynamically scheduled loops: kmp_dispatch.cpp.  A team shares a short ring *)
(* of buffers, one per loop; each thread prepares a private buffer, waits for *)
(* the shared one, then takes chunks until none is left.  The last thread to  *)
(* find none resets the shared buffer for the loop that uses it next.         *)
(*   Iterations are named by their number, as the code computes them before   *)
(* it maps them to values of the loop variable (see StaticLoops for bounds     *)
(* and trip counts).  Induction variables have 4 bytes and are unsigned.      *)
(***************************************************************************)
EXTENDS StaticLoops, FiniteSets, Sequences, Bags

CONSTANTS
    NumBuffers, \* __kmp_dispatch_num_buffers
    IndexBits,  \* width of th_disp_index and buffer_index
    Programs    \* sequences of loops: schedule, trip count, chunk, ordered, nowait

ASSUME RingAssumption == NumBuffers \in Nat \ {0} /\ IndexBits \in Nat

VARIABLES
    prog,   \* the program that runs
    at,     \* loops each thread has entered
    pc,
    pr,     \* th_disp_buffer: the private buffers
    cur,    \* th_dispatch_pr_current and th_dispatch_sh_current
    buf,    \* t_disp_buffer: the shared buffers
    loc,    \* locals of __kmp_dispatch_next; mine: of the compiler's static loop
    hand,   \* iterations of an ordered loop in hand
    sect,   \* the ordered section of the first of them: none (yet), due, being executed, done
    given   \* history: the bag of iterations handed out, of each loop

vars == <<prog, at, pc, pr, cur, buf, loc, hand, sect, given>>

Threads == 0..N-1
Slots == 0..NumBuffers-1
NoSlot == NumBuffers
Loop(t) == prog[at[t]]

IndexWidth == 2^IndexBits
\* What the power is, for the provers, which do not know.
ASSUME IndexAssumption == IndexWidth \in Nat \ {0}

\* th_disp_index counts the loops that use a buffer; a thread in one of them has the index
\* and the buffers that the count was for before.
Dynamic(n) == {l \in 1..n : prog[l].sched # "static"}
DispIndex(t) == Cardinality(Dynamic(at[t]))
MyIndex(t) == (DispIndex(t) - 1) % IndexWidth
Slot(t) == MyIndex(t) % NumBuffers

NoPair == [count |-> 0, ub |-> 0]
EmptyPrivate ==
    [sched |-> "none", tc |-> 0, pair |-> NoPair, parm1 |-> 0, parm2 |-> 0, parm3 |-> 0, parm4 |-> 0,
     counter |-> 0, lower |-> 1, upper |-> 0, bumped |-> 0]
NoLocals == [init |-> 0, attempt |-> 1, old |-> 0, victim |-> 0, slot |-> NoSlot, pair |-> NoPair,
             mine |-> Bounds(0, 0, 0, FALSE)]

Init ==
    /\ prog \in Programs
    /\ at = [t \in Threads |-> 0]
    /\ pc = [t \in Threads |-> "out"]
    /\ pr = [t \in Threads |-> [s \in Slots |-> EmptyPrivate]]
    /\ cur = [t \in Threads |-> NoSlot]
    /\ buf = [s \in Slots |-> [iteration |-> 0, numDone |-> 0, ordered |-> 0, index |-> s]]
    /\ loc = [t \in Threads |-> NoLocals]
    /\ hand = [t \in Threads |-> {}]
    /\ sect = [t \in Threads |-> "no"]
    /\ given = [l \in DOMAIN prog |-> EmptyBag]

Goto(t, p) == pc' = [pc EXCEPT ![t] = p]
Private(t) == pr[t][cur[t]]
Shared(t) == buf[cur[t]]
At(t, p) == pc[t] = p
----------------------------------------------------------------------------
(* __kmp_dispatch_init *)

\* One range for each thread; count = 1 means that there is nothing to do.
Balanced(p, t) ==
    LET some == p.tc >= N \/ t < p.tc
        init == IF p.tc < N THEN t ELSE ShareStart(p.tc, t)
        limit == IF p.tc < N THEN t ELSE ShareEnd(p.tc, t) - 1
    IN  IF some THEN [p EXCEPT !.sched = "balanced", !.lower = init, !.upper = limit,
                               !.parm2 = init, !.parm3 = limit]
                ELSE [p EXCEPT !.sched = "balanced", !.pair.count = 1]

\* One range of chunks for each thread, unless there are too few.
Steal(p, t) ==
    LET ntc == CeilDiv(p.tc, p.parm1) IN
    IF ntc < N THEN Balanced(p, t)
    ELSE [p EXCEPT !.sched = "steal", !.pair = [count |-> ShareStart(ntc, t), ub |-> ShareEnd(ntc, t)],
                   !.parm4 = (t + 1) % N]

Guided(p) ==
    IF (2 * p.parm1 + 1) * N >= p.tc THEN [p EXCEPT !.sched = "dynamic"]
    ELSE [p EXCEPT !.sched = "guided", !.parm2 = 2 * N * (p.parm1 + 1)]

Trapezoidal(p) ==
    LET first == AtLeast(p.tc \div (2 * N), 1)
        last == AtMost(AtLeast(p.parm1, 1), first)
        cycles == AtLeast((2 * p.tc + first + last - 1) \div (first + last), 2)
    IN  [p EXCEPT !.sched = "trapezoidal", !.parm1 = last, !.parm2 = first, !.parm3 = cycles,
                  !.parm4 = (first - last) \div (cycles - 1)]

\* The private buffer as thread t prepares it; only static_steal_counter survives.
Prepared(old, loop, t) ==
    LET p == [EmptyPrivate EXCEPT !.tc = loop.tc, !.parm1 = AtLeast(loop.chunk, 1),
                                  !.counter = old.counter]
    IN  CASE loop.sched = "balanced" -> Balanced(p, t)
          [] loop.sched = "steal" -> Steal(p, t)
          [] loop.sched = "guided" -> Guided(p)
          [] loop.sched = "trapezoidal" -> Trapezoidal(p)
          [] loop.sched = "greedy" -> [p EXCEPT !.sched = "chunked", !.parm1 = CeilDiv(p.tc, N)]
          [] loop.sched \in {"chunked", "dynamic"} -> [p EXCEPT !.sched = loop.sched]

\* The thread goes on to its next loop; it prepares its buffer before it waits.
Enter(t) ==
    LET slot == (DispIndex(t) % IndexWidth) % NumBuffers IN
    /\ At(t, "out") /\ at[t] + 1 \in DOMAIN prog /\ prog[at[t] + 1].sched # "static"
    /\ at' = [at EXCEPT ![t] = @ + 1]
    /\ pr' = [pr EXCEPT ![t][slot] = Prepared(@, prog[at[t] + 1], t)]
    /\ Goto(t, "wait")
    /\ UNCHANGED <<prog, cur, buf, loc, hand, sect, given>>

Attach(t) ==
    /\ At(t, "wait") /\ buf[Slot(t)].index = MyIndex(t)
    /\ cur' = [cur EXCEPT ![t] = Slot(t)]
    /\ Goto(t, IF pr[t][Slot(t)].sched = "steal" THEN "ready" ELSE "next")
    /\ UNCHANGED <<prog, at, pr, buf, loc, hand, sect, given>>

\* From now on other threads may steal from this one.
Ready(t) ==
    /\ At(t, "ready")
    /\ pr' = [pr EXCEPT ![t][cur[t]].counter = @ + 1]
    /\ Goto(t, "next")
    /\ UNCHANGED <<prog, at, cur, buf, loc, hand, sect, given>>
----------------------------------------------------------------------------
(* __kmp_dispatch_next: a chunk, or none. *)

\* The thread gets iterations init to limit; they stay in hand if their order matters.
Ordered(t) == Loop(t).ordered # "no"
Got(t, init, limit) ==
    /\ hand' = [hand EXCEPT ![t] = IF Ordered(t) THEN init..limit ELSE {}]
    /\ given' = [given EXCEPT ![at[t]] = @ (+) SetToBag(init..limit)]
    /\ Goto(t, IF Ordered(t) /\ init <= limit THEN "work" ELSE "next")
Bounded(t, p, init, limit) == IF Ordered(t) THEN [p EXCEPT !.lower = init, !.upper = limit] ELSE p
GotNone(t) == Goto(t, "done") /\ UNCHANGED <<hand, given>>

\* The chunk at init if it begins inside the loop, cut off at its end.
TakeChunk(t, p, init, limit, inside) ==
    LET end == AtMost(limit, UT(p.tc - 1))
        got == inside /\ init <= UT(p.tc - 1)
    IN  /\ IF got THEN Got(t, init, end) ELSE GotNone(t)
        /\ pr' = [pr EXCEPT ![t][cur[t]] = IF got THEN Bounded(t, p, init, end) ELSE p]

ZeroTrip(t) ==
    /\ At(t, "next") /\ Private(t).tc = 0
    /\ GotNone(t)
    /\ UNCHANGED <<prog, at, pr, cur, buf, loc, sect>>

InCase(t, sched) == At(t, "next") /\ Private(t).tc # 0 /\ Private(t).sched = sched

NextBalanced(t) ==
    LET p == Private(t) IN
    /\ InCase(t, "balanced")
    /\ IF p.pair.count = 0 THEN Got(t, p.parm2, p.parm3) ELSE GotNone(t)
    /\ pr' = [pr EXCEPT ![t][cur[t]].pair.count = 1]
    /\ UNCHANGED <<prog, at, cur, buf, loc, sect>>

NextChunked(t) ==
    LET p == Private(t)
        init == UT(p.parm1 * (p.pair.count + t))
        on == IF init <= UT(p.tc - 1) THEN [p EXCEPT !.pair.count = @ + N] ELSE p
    IN
    /\ InCase(t, "chunked")
    /\ TakeChunk(t, on, init, UT(p.parm1 + init - 1), TRUE)
    /\ UNCHANGED <<prog, at, cur, buf, loc, sect>>

Fetch(t, d) == buf' = [buf EXCEPT ![cur[t]].iteration = UT(@ + d)]

NextDynamic(t) ==
    LET p == Private(t)
        init == UT(p.parm1 * Shared(t).iteration)
    IN
    /\ InCase(t, "dynamic")
    /\ Fetch(t, 1)
    /\ TakeChunk(t, p, init, UT(p.parm1 + init - 1), TRUE)
    /\ UNCHANGED <<prog, at, cur, loc, sect>>

NextTrapezoidal(t) ==
    LET p == Private(t)
        index == Shared(t).iteration
        Start(i) == UT(i * (2 * p.parm2 - (i - 1) * p.parm4)) \div 2
    IN
    /\ InCase(t, "trapezoidal")
    /\ Fetch(t, 1)
    /\ TakeChunk(t, p, Start(index), UT(Start(index + 1) - 1), index < p.parm3)
    /\ UNCHANGED <<prog, at, cur, loc, sect>>

\* guided, iterative: the shared word is read, then added to or compared and swapped.
GuidedRead(t) ==
    LET p == Private(t)
        init == Shared(t).iteration
    IN
    /\ InCase(t, "guided")
    /\ IF ST(p.tc - init) <= 0 THEN GotNone(t) /\ UNCHANGED loc
       ELSE /\ loc' = [loc EXCEPT ![t].init = init]
            /\ Goto(t, "guided") /\ UNCHANGED <<hand, given>>
    /\ UNCHANGED <<prog, at, pr, cur, buf, sect>>

\* Few are left: dynamic chunks.
GuidedAdd(t) ==
    LET p == Private(t)
        init == Shared(t).iteration
        remaining == ST(p.tc - init)
        limit == init + AtMost(remaining, p.parm1) - 1
    IN
    /\ At(t, "guided") /\ ST(p.tc - loc[t].init) < p.parm2
    /\ Fetch(t, p.parm1)
    /\ IF remaining <= 0 THEN GotNone(t) /\ UNCHANGED pr
       ELSE Got(t, init, limit) /\ pr' = [pr EXCEPT ![t][cur[t]] = Bounded(t, p, init, limit)]
    /\ loc' = [loc EXCEPT ![t] = NoLocals]
    /\ UNCHANGED <<prog, at, cur, sect>>

GuidedSwapBlind(t) ==
    LET p == Private(t)
        init == loc[t].init
        share == ST(p.tc - init) \div (2 * N)
    IN
    /\ At(t, "guided") /\ ST(p.tc - init) >= p.parm2
    /\ Fetch(t, share) /\ Got(t, init, init + share - 1)
    /\ loc' = [loc EXCEPT ![t] = NoLocals]
    /\ UNCHANGED <<prog, at, pr, cur, sect>>

\* Many are left: a share of what remains, unless another thread was faster.
GuidedSwap(t) ==
    LET p == Private(t)
        init == loc[t].init
        share == ST(p.tc - init) \div (2 * N)
    IN
    /\ At(t, "guided") /\ ST(p.tc - init) >= p.parm2
    /\ IF Shared(t).iteration = init
       THEN /\ Fetch(t, share)
            /\ Got(t, init, init + share - 1)
            /\ pr' = [pr EXCEPT ![t][cur[t]] = Bounded(t, p, init, init + share - 1)]
       ELSE Goto(t, "next") /\ UNCHANGED <<buf, hand, given, pr>>
    /\ loc' = [loc EXCEPT ![t] = NoLocals]
    /\ UNCHANGED <<prog, at, cur, sect>>
----------------------------------------------------------------------------
(* Stealing: (count, ub) is one word, read and swapped as a whole.  Dead locals *)
(* are cleared.                                                               *)

\* A chunk of the own range; when it is empty the search for a victim begins.
NextSteal(t) ==
    LET p == Private(t)
        chunk == p.pair.count
        on == [p EXCEPT !.pair.count = @ + 1]
    IN
    /\ InCase(t, "steal")
    /\ IF chunk < p.pair.ub
       THEN TakeChunk(t, on, chunk * p.parm1, (chunk + 1) * p.parm1 - 1, TRUE) /\ UNCHANGED loc
       ELSE /\ pr' = [pr EXCEPT ![t][cur[t]] = on]
            /\ loc' = [loc EXCEPT ![t].attempt = 0]
            /\ Goto(t, "attempt") /\ UNCHANGED <<hand, given>>
    /\ UNCHANGED <<prog, at, cur, buf, sect>>

\* N - 1 attempts, each from the thread that parm4 names and once around.
Attempt(t) ==
    LET first == Private(t).parm4 IN
    /\ At(t, "attempt")
    /\ IF loc[t].attempt + 1 = N THEN GotNone(t) /\ loc' = [loc EXCEPT ![t] = NoLocals]
       ELSE /\ loc' = [loc EXCEPT ![t].attempt = @ + 1, ![t].victim = first,
                                  ![t].old = (first - 1) % N]
            /\ Goto(t, "look") /\ UNCHANGED <<hand, given>>
    /\ UNCHANGED <<prog, at, pr, cur, buf, sect>>

Searching(t) == [NoLocals EXCEPT !.attempt = loc[t].attempt]

\* A victim has a current buffer with the same counter.
Look(t) ==
    LET v == loc[t].victim
        found == cur[v] # NoSlot /\ pr[v][cur[v]].counter = Private(t).counter
        last == v = loc[t].old
    IN
    /\ At(t, "look")
    /\ IF found /\ (v # t \/ last)
       THEN /\ loc' = [loc EXCEPT ![t].slot = cur[v], ![t].old = 0]
            /\ pr' = [pr EXCEPT ![t][cur[t]].parm4 = v]
            /\ Goto(t, "read")
       ELSE /\ loc' = [loc EXCEPT ![t] = IF last THEN Searching(t) ELSE [@ EXCEPT !.victim = (v + 1) % N]]
            /\ Goto(t, IF last THEN "attempt" ELSE "look")
            /\ UNCHANGED pr
    /\ UNCHANGED <<prog, at, cur, buf, hand, sect, given>>

ReadVictimFar(t) ==
    LET v == loc[t].victim
        pair == pr[v][loc[t].slot].pair
        enough == pair.count + 2 <= pair.ub
    IN
    /\ At(t, "read")
    /\ loc' = [loc EXCEPT ![t] = IF enough THEN [@ EXCEPT !.pair = pair] ELSE Searching(t)]
    /\ pr' = IF enough THEN pr ELSE [pr EXCEPT ![t][cur[t]].parm4 = v + 1]
    /\ Goto(t, IF enough THEN "swap" ELSE "attempt")
    /\ UNCHANGED <<prog, at, cur, buf, hand, sect, given>>

\* A thread gives away chunks while it has two or more.
ReadVictim(t) ==
    LET v == loc[t].victim
        pair == pr[v][loc[t].slot].pair
        enough == pair.count + 2 <= pair.ub
    IN
    /\ At(t, "read")
    /\ loc' = [loc EXCEPT ![t] = IF enough THEN [@ EXCEPT !.pair = pair] ELSE Searching(t)]
    /\ pr' = IF enough THEN pr ELSE [pr EXCEPT ![t][cur[t]].parm4 = (v + 1) % N]
    /\ Goto(t, IF enough THEN "swap" ELSE "attempt")
    /\ UNCHANGED <<prog, at, cur, buf, hand, sect, given>>

\* A quarter of its chunks, or one, from the end of the range.
Quarter(pair) == AtLeast((pair.ub - pair.count) \div 4, 1)
SwapVictim(t) ==
    LET v == loc[t].victim
        pair == loc[t].pair
    IN
    /\ At(t, "swap")
    /\ IF pr[v][loc[t].slot].pair = pair
       THEN /\ pr' = [pr EXCEPT ![v][loc[t].slot].pair.ub = @ - Quarter(pair)]
            /\ Goto(t, "store")
            /\ UNCHANGED loc
       ELSE /\ Goto(t, "read") /\ UNCHANGED pr
            /\ loc' = [loc EXCEPT ![t].pair = NoPair]
    /\ UNCHANGED <<prog, at, cur, buf, hand, sect, given>>

\* What was stolen, but for its first chunk, becomes the own range.
Store(t) ==
    LET chunk == loc[t].pair.ub - Quarter(loc[t].pair)
        p == Private(t)
        on == [p EXCEPT !.pair = [count |-> chunk + 1, ub |-> loc[t].pair.ub]]
    IN
    /\ At(t, "store")
    /\ IF chunk * p.parm1 <= p.tc - 1
       THEN TakeChunk(t, on, chunk * p.parm1, (chunk + 1) * p.parm1 - 1, TRUE)
       ELSE Got(t, chunk * p.parm1, p.tc - 1) /\ pr' = [pr EXCEPT ![t][cur[t]] = on]
    /\ loc' = [loc EXCEPT ![t] = NoLocals]
    /\ UNCHANGED <<prog, at, cur, buf, sect>>
----------------------------------------------------------------------------
(* The iterations of a chunk: __kmp_dispatch_deo and _dxo around an ordered section, *)
(* __kmp_dispatch_finish after each iteration, or _finish_chunk after each chunk.    *)

First(I) == CHOOSE i \in I : \A j \in I : i <= j
\* The iteration has an ordered section: its thread waits for the turn of its chunk.
Deo(t) ==
    /\ At(t, "work") /\ sect[t] = "no"
    /\ sect' = [sect EXCEPT ![t] = "due"]
    /\ UNCHANGED <<prog, at, pc, pr, cur, buf, loc, hand, given>>

Turn(t) ==
    /\ sect[t] = "due" /\ Shared(t).ordered >= Private(t).lower
    /\ sect' = [sect EXCEPT ![t] = "in"]
    /\ UNCHANGED <<prog, at, pc, pr, cur, buf, loc, hand, given>>

Dxo(t) ==
    /\ At(t, "work") /\ sect[t] = "in"
    /\ sect' = [sect EXCEPT ![t] = "done"]
    /\ pr' = [pr EXCEPT ![t][cur[t]].bumped = @ + 1]
    /\ buf' = [buf EXCEPT ![cur[t]].ordered = @ + 1]
    /\ UNCHANGED <<prog, at, pc, cur, loc, hand, given>>

\* The first iteration in hand is over, with or without its section.
NextIteration(t, end) ==
    /\ hand' = [hand EXCEPT ![t] = @ \ {First(@)}]
    /\ sect' = [sect EXCEPT ![t] = "no"]
    /\ Goto(t, IF Cardinality(hand[t]) = 1 THEN end ELSE "work")

FinishSkipping(t) ==
    /\ At(t, "work") /\ Loop(t).ordered = "iteration" /\ sect[t] \in {"no", "done"}
    /\ pr' = [pr EXCEPT ![t][cur[t]].bumped = 0]
    /\ NextIteration(t, "next")
    /\ UNCHANGED <<prog, at, cur, buf, loc, given>>

Finish(t) ==
    /\ At(t, "work") /\ Loop(t).ordered = "iteration" /\ sect[t] \in {"no", "done"}
    /\ IF Private(t).bumped # 0
       THEN pr' = [pr EXCEPT ![t][cur[t]].bumped = 0] /\ UNCHANGED buf
       ELSE /\ Shared(t).ordered >= Private(t).lower
            /\ buf' = [buf EXCEPT ![cur[t]].ordered = @ + 1]
            /\ UNCHANGED pr
    /\ NextIteration(t, "next")
    /\ UNCHANGED <<prog, at, cur, loc, given>>

Iterate(t) ==
    /\ At(t, "work") /\ Loop(t).ordered = "chunk" /\ sect[t] \in {"no", "done"}
    /\ NextIteration(t, "finish")
    /\ UNCHANGED <<prog, at, pr, cur, buf, loc, given>>

\* The turns that the iterations of the chunk did not take are skipped at once.
FinishChunk(t) ==
    LET p == Private(t)
        inc == p.upper - p.lower + 1 - p.bumped
    IN
    /\ At(t, "finish")
    /\ inc = 0 \/ Shared(t).ordered >= p.lower
    /\ buf' = [buf EXCEPT ![cur[t]].ordered = @ + inc]
    /\ pr' = [pr EXCEPT ![t][cur[t]].bumped = 0]
    /\ Goto(t, "next")
    /\ UNCHANGED <<prog, at, cur, loc, hand, sect, given>>
----------------------------------------------------------------------------
(* A static loop uses no buffer: each thread computes its bounds and goes. *)

EnterStatic(t) ==
    LET loop == prog[at[t] + 1] IN
    /\ At(t, "out") /\ at[t] + 1 \in DOMAIN prog /\ loop.sched = "static"
    /\ at' = [at EXCEPT ![t] = @ + 1]
    /\ loc' = [loc EXCEPT ![t].mine = ForStaticInit(loop, t)]
    /\ Goto(t, "static")
    /\ UNCHANGED <<prog, pr, cur, buf, hand, sect, given>>

Round(t) ==
    LET mine == loc[t].mine
        first == Number(Loop(t), mine.lower)
        last == Number(Loop(t), RoundEnd(Loop(t), mine))
    IN
    /\ At(t, "static") /\ InRound(Loop(t), mine)
    /\ given' = [given EXCEPT ![at[t]] = @ (+) SetToBag(first..last)]
    /\ loc' = IF Repeats(Loop(t)) THEN [loc EXCEPT ![t].mine = NextRound(Loop(t), @)] ELSE loc
    /\ Goto(t, IF Repeats(Loop(t)) THEN "static" ELSE "leave")
    /\ UNCHANGED <<prog, at, pr, cur, buf, hand, sect>>

NoRound(t) ==
    /\ At(t, "static") /\ ~InRound(Loop(t), loc[t].mine)
    /\ Goto(t, "leave")
    /\ UNCHANGED <<prog, at, pr, cur, buf, loc, hand, sect, given>>

Leave(t) ==
    /\ At(t, "leave")
    /\ loc' = [loc EXCEPT ![t] = NoLocals]
    /\ Goto(t, IF Loop(t).nowait THEN "out" ELSE "barrier")
    /\ UNCHANGED <<prog, at, pr, cur, buf, hand, sect, given>>
----------------------------------------------------------------------------
(* The end of the loop. *)

Done(t) ==
    /\ At(t, "done")
    /\ buf' = [buf EXCEPT ![cur[t]].numDone = @ + 1]
    /\ Goto(t, IF Shared(t).numDone = N - 1 THEN "reset" ELSE "detach")
    /\ UNCHANGED <<prog, at, pr, cur, loc, hand, sect, given>>

ResetLate(t) ==
    /\ At(t, "reset")
    /\ buf' = [buf EXCEPT ![cur[t]].index = (@ + NumBuffers) % IndexWidth]
    /\ Goto(t, "recycle")
    /\ UNCHANGED <<prog, at, pr, cur, loc, hand, sect, given>>

\* The last thread: nobody else uses the buffer until its index is moved.
Reset(t) ==
    /\ At(t, "reset")
    /\ buf' = [buf EXCEPT ![cur[t]].numDone = 0, ![cur[t]].iteration = 0,
                          ![cur[t]].ordered = IF Ordered(t) THEN 0 ELSE @]
    /\ Goto(t, "recycle")
    /\ UNCHANGED <<prog, at, pr, cur, loc, hand, sect, given>>

Recycle(t) ==
    /\ At(t, "recycle")
    /\ buf' = [buf EXCEPT ![cur[t]].index = (@ + NumBuffers) % IndexWidth]
    /\ Goto(t, "detach")
    /\ UNCHANGED <<prog, at, pr, cur, loc, hand, sect, given>>

Detach(t) ==
    /\ At(t, "detach")
    /\ cur' = [cur EXCEPT ![t] = NoSlot]
    /\ Goto(t, IF Loop(t).nowait THEN "out" ELSE "barrier")
    /\ UNCHANGED <<prog, at, pr, buf, loc, hand, sect, given>>

\* The barrier after a loop without nowait (see Barrier).
Barrier(t) ==
    /\ At(t, "barrier")
    /\ \A u \in Threads : at[u] > at[t] \/ (at[u] = at[t] /\ pc[u] \in {"barrier", "out"})
    /\ Goto(t, "out")
    /\ UNCHANGED <<prog, at, pr, cur, buf, loc, hand, sect, given>>
----------------------------------------------------------------------------
Step(t) ==
    \/ Enter(t) \/ Attach(t) \/ Ready(t)
    \/ ZeroTrip(t) \/ NextBalanced(t) \/ NextChunked(t) \/ NextDynamic(t) \/ NextTrapezoidal(t)
    \/ GuidedRead(t) \/ GuidedAdd(t) \/ GuidedSwap(t)
    \/ NextSteal(t) \/ Attempt(t) \/ Look(t) \/ ReadVictim(t) \/ SwapVictim(t) \/ Store(t)
    \/ Deo(t) \/ Turn(t) \/ Dxo(t) \/ Finish(t) \/ Iterate(t) \/ FinishChunk(t)
    \/ EnterStatic(t) \/ Round(t) \/ NoRound(t) \/ Leave(t)
    \/ Done(t) \/ Reset(t) \/ Recycle(t) \/ Detach(t) \/ Barrier(t)

Next == \E t \in Threads : Step(t)
Spec == Init /\ [][Next]_vars

\* Somebody who can take a step does: the waits spin, and spinning changes nothing.
FairSpec == Spec /\ WF_vars(Next)
----------------------------------------------------------------------------
(* Correctness *)

Places == {"out", "wait", "ready", "next", "guided", "attempt", "look", "read", "swap", "store",
           "work", "finish", "static", "leave", "done", "reset", "recycle", "detach", "barrier"}
Schedules == {"none", "balanced", "steal", "guided", "trapezoidal", "chunked", "dynamic"}
Words == 0..(Width - 1)
Pairs == [count : Words, ub : Words]
PrivateBuffers ==
    [sched : Schedules, tc : Words, pair : Pairs, parm1 : Words, parm2 : Words, parm3 : Words,
     parm4 : Words, counter : Nat, lower : Words, upper : Words, bumped : Nat]
Locals == [init : Words, attempt : 0..N, old : Threads, victim : Threads, slot : Slots \union {NoSlot},
           pair : Pairs,
           mine : [lower : Int, upper : Int, stride : Int, last : BOOLEAN]]

\* Type correctness: of the buffers, the private ones included, in the width of the
\* induction variable; no count goes below 0 or past the number of threads.
TypeOK ==
    /\ prog \in Programs
    /\ at \in [Threads -> 0..Len(prog)]
    /\ pc \in [Threads -> Places]
    /\ pr \in [Threads -> [Slots -> PrivateBuffers]]
    /\ cur \in [Threads -> Slots \union {NoSlot}]
    /\ buf \in [Slots -> [iteration : Words, numDone : 0..N, ordered : Words, index : 0..(IndexWidth - 1)]]
    /\ loc \in [Threads -> Locals]
    /\ hand \in [Threads -> SUBSET Words]
    /\ sect \in [Threads -> {"no", "due", "in", "done"}]
    /\ DOMAIN given = DOMAIN prog
    /\ \A l \in DOMAIN prog : IsABag(given[l]) /\ BagToSet(given[l]) \subseteq Words

Inside(t) == pc[t] \notin {"out", "barrier"}
Promise == INSTANCE AbsLoops WITH inside <- [t \in Threads |-> Inside(t)],
                                 sect <- [t \in Threads |-> IF sect[t] = "due" THEN "no" ELSE sect[t]]

\* The loops keep their promise: no iteration is handed out twice or is lost, ordered sections
\* follow the order of the iterations whoever skips his, and loops do not overtake a barrier
\* (__kmp_dispatch_next, _deo, _dxo, _finish, _finish_chunk).
Implements == Promise!Spec

Attached(t) == pc[t] \in Places \ {"out", "wait", "static", "leave", "detach", "barrier"}
Users(s) == {t \in Threads : Attached(t) /\ cur[t] = s}

\* Two loops never share a buffer of the ring: whoever uses one finds it bearing the index of
\* his own loop until he reports that he is done, and one that waits for its next loop is as
\* clean as a new one (__kmp_dispatch_init waits for buffer_index, __kmp_dispatch_next resets).
BuffersApart ==
    /\ \A t \in Threads : Attached(t) => buf[cur[t]].index = MyIndex(t)
    /\ \A s \in Slots : (\A t \in Threads : ~Attached(t) \/ cur[t] # s) =>
         \/ buf[s].numDone > 0
         \/ buf[s].iteration = 0 /\ buf[s].ordered = 0

\* The flag for lastprivate: a thread about to execute the last iteration of a static loop has
\* it, one that leaves with it has seen that iteration executed, and no two have it
\* (plastiter of __kmp_for_static_init).
LastIterationKnown ==
    \A t \in Threads : LET l == Loop(t) IN
      /\ pc[t] = "static" /\ InRound(l, loc[t].mine)
           /\ Number(l, RoundEnd(l, loc[t].mine)) = l.tc - 1 => loc[t].mine.last
      /\ pc[t] = "leave" /\ loc[t].mine.last => l.tc - 1 \in BagToSet(given[at[t]])
      /\ \A u \in Threads : at[u] = at[t] /\ loc[t].mine.last /\ loc[u].mine.last => t = u

\* What the code asserts of ranges: the one a thief looks at ends inside his loop
\* ((vnew.p.ub - 1) * (UT)chunk <= trip), what he takes begins inside it (init <= trip);
\* and what it relies on unsaid: a chunk has no more turns taken than it has iterations.
AssertionsHold ==
    \A t \in Threads :
      /\ pc[t] = "read" => (pr[loc[t].victim][loc[t].slot].pair.ub - 1) * Private(t).parm1 <= Private(t).tc - 1
      /\ pc[t] = "store" => (loc[t].pair.ub - Quarter(loc[t].pair)) * Private(t).parm1 <= Private(t).tc - 1
      /\ pc[t] = "finish" => Private(t).bumped <= Private(t).upper - Private(t).lower + 1

\* Every thread gets through its loops, under the assumption that the team runs: it neither waits
\* for a buffer nobody gives back nor for the turn of an iteration nobody has.
LoopsEnd == <>(\A t \in Threads : at[t] = Len(prog) /\ pc[t] = "out")

=============================================================================
