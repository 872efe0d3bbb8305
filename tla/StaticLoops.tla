----------------------------- MODULE StaticLoops -----------------------------
(***************************************************************************)
(* How a loop is divided among the threads of a team before it starts:       *)
(* __kmp_for_static_init in kmp_sched.cpp, whose bounds are values of the     *)
(* induction variable, computed in its width.                                *)
(***************************************************************************)
EXTENDS Integers

CONSTANTS
    N,      \* threads of the team, numbered from 0
    Bits    \* width of induction variables and trip counts

ASSUME TeamAssumption == N \in Nat \ {0, 1}
ASSUME WidthAssumption == Bits \in Nat \ {0}

\* The integers of that width: UT, ST, and T, which is one of them.
Width == 2^Bits
UT(x) == x % Width
ST(x) == IF UT(x) < Width \div 2 THEN UT(x) ELSE UT(x) - Width
T(loop, x) == IF loop.signed THEN ST(x) ELSE UT(x)
Highest(loop) == IF loop.signed THEN Width \div 2 - 1 ELSE Width - 1
Lowest(loop) == IF loop.signed THEN -(Width \div 2) ELSE 0

CeilDiv(a, b) == (a + b - 1) \div b
AtLeast(a, b) == IF a < b THEN b ELSE a
AtMost(a, b) == IF a > b THEN b ELSE a

\* Of n things in N shares that differ by one at most: the first one of share t, and the
\* one after its last.
ShareStart(n, t) == t * (n \div N) + AtMost(t, n % N)
ShareEnd(n, t) == ShareStart(n, t) + n \div N + (IF t < n % N THEN 1 ELSE 0)
----------------------------------------------------------------------------
(* A loop goes from lower to upper, which it includes, by incr.  The answer for *)
(* thread t: the bounds of its first chunk, the distance to its next one, and    *)
(* whether it has the last iteration.                                           *)

Bounds(lower, upper, stride, last) ==
    [lower |-> lower, upper |-> upper, stride |-> stride, last |-> last]

ZeroTrips(loop) == IF loop.incr > 0 THEN loop.upper < loop.lower ELSE loop.lower < loop.upper
TripCount(loop) ==
    UT(1 + (IF loop.incr > 0 THEN UT(loop.upper - loop.lower) \div loop.incr
                             ELSE UT(loop.lower - loop.upper) \div (-loop.incr)))

\* The stride is not set where there is one chunk only: clang's is 1 when it calls.
Unset == 1

ForFew(loop, t) ==
    LET tc == TripCount(loop)
        only == T(loop, loop.lower + t * loop.incr)
    IN  IF t < tc THEN Bounds(only, only, Unset, t = tc - 1)
        ELSE Bounds(T(loop, loop.upper + loop.incr), loop.upper, Unset, FALSE)

ForBalanced(loop, t) ==
    LET tc == TripCount(loop) IN
    Bounds(T(loop, loop.lower + loop.incr * ShareStart(tc, t)),
           T(loop, loop.lower + loop.incr * (ShareEnd(tc, t) - 1)), Unset, t = N - 1)

\* The last of the big chunks may end beyond the upper bound, and beyond all integers.
ForGreedy(loop, t) ==
    LET big == T(loop, CeilDiv(TripCount(loop), N) * loop.incr)
        lower == T(loop, loop.lower + t * big)
        end == T(loop, lower + big - loop.incr)
        before == T(loop, loop.upper - loop.incr)
        up == IF end < lower THEN Highest(loop) ELSE end
        down == IF end > lower THEN Lowest(loop) ELSE end
    IN  IF loop.incr > 0
        THEN Bounds(lower, AtMost(up, loop.upper), Unset, lower <= loop.upper /\ up > before)
        ELSE Bounds(lower, AtLeast(down, loop.upper), Unset, lower >= loop.upper /\ down < before)

ForChunkedOnce(loop, t) ==
    LET chunk == AtLeast(loop.chunk, 1)
        span == ST(chunk * loop.incr)
        lower == T(loop, loop.lower + span * t)
    IN  Bounds(lower, T(loop, lower + span - loop.incr), ST(span * N),
               t = (TripCount(loop) - 1) \div chunk)
ForChunked(loop, t) ==
    LET chunk == AtLeast(loop.chunk, 1)
        span == ST(chunk * loop.incr)
        lower == T(loop, loop.lower + span * t)
    IN  Bounds(lower, T(loop, lower + span - loop.incr), ST(span * N),
               t = ((TripCount(loop) - 1) \div chunk) % N)

\* A share rounded up to whole chunks, whose size is a power of two.
ForBalancedChunked(loop, t) ==
    LET chunk == CeilDiv(CeilDiv(TripCount(loop), N), loop.chunk) * loop.chunk
        span == ST(chunk * loop.incr)
        lower == T(loop, loop.lower + span * t)
        end == T(loop, lower + span - loop.incr)
    IN  Bounds(lower, IF loop.incr > 0 THEN AtMost(end, loop.upper) ELSE AtLeast(end, loop.upper),
               Unset, t = (TripCount(loop) - 1) \div chunk)

ForStaticInit(loop, t) ==
    IF ZeroTrips(loop) THEN Bounds(loop.lower, loop.upper, loop.incr, FALSE)
    ELSE CASE loop.static = "chunked" -> ForChunked(loop, t)
           [] loop.static = "balanced_chunked" -> ForBalancedChunked(loop, t)
           [] loop.static \in {"balanced", "greedy"} /\ TripCount(loop) < N -> ForFew(loop, t)
           [] loop.static = "balanced" -> ForBalanced(loop, t)
           [] loop.static = "greedy" -> ForGreedy(loop, t)
----------------------------------------------------------------------------
(* The loop that the compiler makes of it (clang, CGStmtOpenMP.cpp): the upper *)
(* bound is cut off at the loop's; chunks are repeated at the distance of the   *)
(* stride until one begins after the end.                                      *)

RoundEnd(loop, b) == IF loop.incr > 0 THEN AtMost(b.upper, loop.upper) ELSE AtLeast(b.upper, loop.upper)
InRound(loop, b) == IF loop.incr > 0 THEN b.lower <= RoundEnd(loop, b) ELSE b.lower >= RoundEnd(loop, b)
NextRound(loop, b) ==
    [b EXCEPT !.lower = T(loop, @ + b.stride), !.upper = T(loop, RoundEnd(loop, b) + b.stride)]
Repeats(loop) == loop.static \in {"chunked", "balanced_chunked"}

\* The number of the iteration that has a value.
Number(loop, v) ==
    IF loop.incr > 0 THEN UT(v - loop.lower) \div loop.incr ELSE UT(loop.lower - v) \div (-loop.incr)
=============================================================================
