------------------------------ MODULE MCDispatch ------------------------------
(* Small programs for Dispatch. *)
EXTENDS Dispatch, TLC

Loops(sched, tc, chunk, ordered, nowait) ==
    [sched |-> sched, tc |-> tc, chunk |-> chunk, ordered |-> ordered, nowait |-> nowait]
Free(sched, tc, chunk) == Loops(sched, tc, chunk, "no", TRUE)
Last(sched, tc, chunk) == Loops(sched, tc, chunk, "no", FALSE)

\* More loops than buffers, and than indices; nobody waits in between.
Ring == <<Free("dynamic", 2, 1), Free("dynamic", 0, 1), Free("greedy", 4, 1), Free("dynamic", 3, 2),
          Free("dynamic", 1, 1)>>
\* Shares of what is left, then chunks; too few for shares.
Shrinking == <<Free("guided", 13, 1), Free("guided", 5, 2)>>
Linear == <<Free("trapezoidal", 7, 1), Free("trapezoidal", 4, 3)>>
\* A range for each thread, once with fewer chunks than threads to steal from; chunks in turn.
Shares == <<Free("balanced", 7, 1), Free("steal", 3, 2), Free("chunked", 7, 2)>>
\* Stealing, with a barrier at the end of the loop.
Thieves == <<Last("steal", 5, 1)>>
\* Ordered sections: after each iteration, or after each chunk.
InTurn == <<Loops("dynamic", 4, 2, "iteration", TRUE), Loops("balanced", 4, 1, "iteration", TRUE),
            Loops("dynamic", 2, 1, "iteration", FALSE)>>
ByChunks == <<Loops("dynamic", 3, 2, "chunk", TRUE), Loops("chunked", 3, 1, "chunk", TRUE)>>

\* Static loops of one kind, with the number of iterations that they should have.
Static(kind, sgn, lower, upper, incr, chunk) ==
    LET l == [sched |-> "static", static |-> kind, signed |-> sgn, lower |-> lower, upper |-> upper,
              incr |-> incr, chunk |-> chunk, ordered |-> "no", nowait |-> FALSE]
        values == {v \in Lowest(l)..Highest(l) : IF incr > 0 THEN lower <= v /\ v <= upper /\ (v - lower) % incr = 0
                                                 ELSE lower >= v /\ v >= upper /\ (lower - v) % (-incr) = 0}
    IN  l @@ [tc |-> Cardinality(values)]
\* Bounds beyond the end are representable: N chunks fit between the end and the last value.
HasRoom(l) ==
    LET step == l.incr * (IF l.static = "chunked" THEN l.chunk ELSE CeilDiv(l.tc, N)) IN
    l.lower + N * step + (IF l.static = "chunked" THEN l.upper - l.lower ELSE 0) \in Lowest(l)..Highest(l)
\* As clang passes them: from 0 by 1.
Normal == {Static(kind, sgn, 0, upper, 1, 1) : kind \in {"balanced", "greedy"}, sgn \in BOOLEAN, upper \in 0..30}
Chunks == {Static("chunked", sgn, 0, upper, 1, chunk) : sgn \in BOOLEAN, upper \in {0, 4, 8, 11, 24, 28}, chunk \in 1..2}
\* As they are written: by any increment, between any bounds.
Written == {Static(kind, sgn, lower, upper, incr, chunk) :
              kind \in {"balanced", "greedy", "chunked"}, sgn \in BOOLEAN,
              lower \in {-16, -3, 9, 26}, upper \in {-12, 2, 7, 14, 29}, incr \in {1, 2, -1, -3}, chunk \in {1}}
StaticPrograms ==
    {<<l>> : l \in {m \in Normal \union Chunks \union Written :
               /\ {m.lower, m.upper} \subseteq Lowest(m)..Highest(m)
               /\ m.static = "balanced" \/ (m.static = "greedy" /\ m.lower = 0) \/ HasRoom(m)}}

\* A static loop between loops that use buffers: it uses none, and no index.
Mixed == <<Free("dynamic", 1, 1), [Static("greedy", TRUE, 0, 3, 1, 1) EXCEPT !.nowait = TRUE],
           Free("dynamic", 1, 1), Free("dynamic", 2, 1)>>

AllPrograms ==
    StaticPrograms \union {Ring, Shrinking, Linear, Shares, Thieves, InTurn, ByChunks, Mixed}

\* Two loops with stealing and no barrier between them.
WrongLoop == {<<Free("steal", 3, 1), Free("steal", 8, 1)>>}
\* The chunks of schedule(simd:static,2).
SimdLoop == {<<Static("balanced_chunked", TRUE, 0, 7, 1, 2)>>}
=============================================================================
