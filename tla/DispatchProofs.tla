---------------------------- MODULE DispatchProofs ----------------------------
(* A balanced static schedule divides a loop among its team without a gap or an     *)
(* overlap, for any team and any trip count.  And no two loops share a buffer of the *)
(* ring, for any team, any ring, any sequence of loops, static ones among them, and  *)
(* any interleaving of threads that do not wait for each other between loops.       *)
EXTENDS Dispatch, FiniteSetTheorems, TLAPS

----------------------------------------------------------------------------
(* I. Static schedules (StaticLoops). *)

Team == 0..(N - 1)

\* The iterations that thread t of a loop of n iterations gets.
Share(n, t) == ShareStart(n, t)..(ShareEnd(n, t) - 1)

----------------------------------------------------------------------------
(* Arithmetic, with products that the provers take apart no further. *)

LEMMA Product == \A a, b \in Nat : a * b \in Nat /\ (a + 1) * b = a * b + b  OBVIOUS

LEMMA ProductGrows ==
    ASSUME NEW a \in Nat, NEW b \in Nat, NEW q \in Nat, a <= b
    PROVE  a * q <= b * q
OBVIOUS

LEMMA Remainder ==
    ASSUME NEW a \in Int, NEW b \in Int, NEW q \in Int, NEW r \in Int,
           0 <= r, r < b, a = q * b + r
    PROVE  a % b = r
OBVIOUS

LEMMA Quotient ==
    ASSUME NEW a \in Int, NEW b \in Int, b > 0, a >= 0
    PROVE  a \div b \in Nat
<1> DEFINE q == a \div b
<1>1. q \in Int /\ a < b * q + b  OBVIOUS
<1> SUFFICES q >= 0  BY <1>1
<1> HIDE DEF q
<1>2. \A x, y \in Int : x <= 0 /\ y > 0 => y * x <= 0  OBVIOUS
<1>3. b * (q + 1) = b * q + b  BY <1>1
<1> QED  BY <1>1, <1>2, <1>3

LEMMA Division ==
    ASSUME NEW a \in Int, NEW b \in Int, b > 0, a >= 0
    PROVE  /\ a \div b \in Nat /\ a % b \in Nat /\ a % b < b
           /\ a = (a \div b) * b + (a % b)
<1> DEFINE q == a \div b
           r == a - b * q
<1>1. q \in Int /\ r \in Int /\ 0 <= r /\ r < b  OBVIOUS
<1>2. q \in Nat  BY Quotient
<1>3. b * q = q * b  BY <1>1
<1>4. a = q * b + r  BY <1>1, <1>3
<1> HIDE DEF q, r
<1>5. a % b = r  BY <1>1, <1>4, Remainder
<1> QED  BY <1>1, <1>2, <1>4, <1>5 DEF q

----------------------------------------------------------------------------
LEMMA TeamFacts == N \in Nat /\ N > 0
BY TeamAssumption DEF TeamAssumption

LEMMA ShareFacts ==
    ASSUME NEW n \in Nat
    PROVE  n \div N \in Nat /\ n % N \in Nat /\ n % N < N /\ n = (n \div N) * N + (n % N)
BY TeamFacts, Division

\* One share ends where the next begins, and is one longer than another at most.
LEMMA NextShare ==
    ASSUME NEW n \in Nat, NEW t \in Nat
    PROVE  /\ ShareStart(n, t) \in Nat /\ ShareEnd(n, t) = ShareStart(n, t + 1)
           /\ ShareEnd(n, t) - ShareStart(n, t) \in {n \div N, n \div N + 1}
<1>1. PICK q \in Nat, r \in Nat : q = n \div N /\ r = n % N  BY ShareFacts
<1>2. t * q \in Nat /\ (t + 1) * q = t * q + q  BY <1>1, Product
<1>3. ShareStart(n, t) = t * q + AtMost(t, r)  BY <1>1 DEF ShareStart
<1>4. ShareStart(n, t + 1) = t * q + q + AtMost(t + 1, r)  BY <1>1, <1>2 DEF ShareStart
<1>5. ShareEnd(n, t) = t * q + AtMost(t, r) + q + (IF t < r THEN 1 ELSE 0)
  BY <1>1, <1>3 DEF ShareEnd
<1> QED  BY <1>1, <1>2, <1>3, <1>4, <1>5 DEF AtMost

\* A later share begins no earlier.
LEMMA SharesInOrder ==
    ASSUME NEW n \in Nat, NEW t \in Nat, NEW u \in Nat, t <= u
    PROVE  ShareStart(n, t) <= ShareStart(n, u)
<1>1. PICK q \in Nat, r \in Nat : q = n \div N /\ r = n % N  BY ShareFacts
<1>2. t * q <= u * q /\ t * q \in Nat /\ u * q \in Nat  BY <1>1, ProductGrows, Product
<1> QED  BY <1>1, <1>2 DEF ShareStart, AtMost

\* The first share begins with the first iteration and the last one ends with the last.
LEMMA SharesSpan == ASSUME NEW n \in Nat PROVE ShareStart(n, 0) = 0 /\ ShareStart(n, N) = n
<1>1. PICK q \in Nat, r \in Nat : q = n \div N /\ r = n % N /\ r < N /\ n = q * N + r
  BY ShareFacts
<1>2. 0 * q = 0 /\ N * q = q * N /\ N * q \in Nat  BY <1>1, TeamFacts
<1> QED  BY <1>1, <1>2, TeamFacts DEF ShareStart, AtMost

\* The thread whose share an iteration is in: one of the first n % N, which have one more, or not.
LEMMA SomeShare ==
    ASSUME NEW n \in Nat, NEW i \in 0..(n - 1)
    PROVE  \E t \in Team : i \in Share(n, t)
<1>1. PICK q \in Nat, r \in Nat : q = n \div N /\ r = n % N /\ r < N /\ n = q * N + r
  BY ShareFacts
<1> SUFFICES \E t \in Team : /\ t * q + AtMost(t, r) <= i
                             /\ i < t * q + AtMost(t, r) + q + (IF t < r THEN 1 ELSE 0)
  <2>1. PICK t \in Team : /\ t * q + AtMost(t, r) <= i
                          /\ i < t * q + AtMost(t, r) + q + (IF t < r THEN 1 ELSE 0)
    OBVIOUS
  <2>2. t \in Nat /\ t * q \in Nat  BY <1>1, TeamFacts, Product DEF Team
  <2>3. ShareStart(n, t) = t * q + AtMost(t, r)  BY <1>1 DEF ShareStart
  <2>4. ShareEnd(n, t) = t * q + AtMost(t, r) + q + (IF t < r THEN 1 ELSE 0)
    BY <1>1, <2>3 DEF ShareEnd
  <2>5. i \in Share(n, t)  BY <1>1, <2>1, <2>2, <2>3, <2>4 DEF Share, AtMost
  <2> QED  BY <2>5
<1>2. CASE i < r * q + r
  <2> DEFINE t == i \div (q + 1)
  <2>1. t \in Nat /\ t * (q + 1) <= i /\ i < t * (q + 1) + (q + 1)
    <3>1. q + 1 \in Int /\ q + 1 > 0 /\ i \in Int /\ i >= 0  BY <1>1
    <3>2. /\ t \in Nat /\ i % (q + 1) \in Nat /\ i % (q + 1) < q + 1
          /\ i = t * (q + 1) + (i % (q + 1))
      BY <3>1, Division
    <3> HIDE DEF t
    <3>3. t * (q + 1) \in Nat  BY <3>2
    <3> QED  BY <3>1, <3>2, <3>3
  <2> HIDE DEF t
  <2>2. t * (q + 1) = t * q + t /\ t * q \in Nat /\ r * q + r = r * (q + 1)
    <3>1. \A x \in Nat : x * (q + 1) = x * q + x /\ x * q \in Nat  BY <1>1
    <3> QED  BY <1>1, <2>1, <3>1
  <2>3. t < r
    <3>1. r <= t => r * (q + 1) <= t * (q + 1)  BY <1>1, <2>1, ProductGrows
    <3>2. t * (q + 1) < r * (q + 1)  BY <1>1, <1>2, <2>1, <2>2
    <3> QED  BY <1>1, <2>1, <2>2, <3>1, <3>2
  <2>4. t \in Team /\ AtMost(t, r) = t  BY <1>1, <2>1, <2>3, TeamFacts DEF Team, AtMost
  <2> QED  BY <1>1, <2>1, <2>2, <2>3, <2>4
<1>3. CASE i >= r * q + r
  <2> DEFINE k == i - r
             t == k \div q
  <2>1. r * q \in Nat /\ k \in Nat /\ k >= r * q /\ k < N * q  BY <1>1, <1>3, Product, TeamFacts
  <2>2. q > 0  BY <1>1, <2>1, TeamFacts
  <2> HIDE DEF k
  <2>3. t \in Nat /\ t * q <= k /\ k < t * q + q  BY <1>1, <2>1, <2>2, Division
  <2> HIDE DEF t
  <2>4. t * q \in Nat /\ (t + 1) * q = t * q + q  BY <1>1, <2>3, Product
  <2>5. t < N
    <3>1. N <= t => N * q <= t * q  BY <1>1, <2>3, TeamFacts, ProductGrows
    <3> QED  BY <2>1, <2>3, <2>4, <3>1, TeamFacts, <1>1
  <2>6. r <= t
    <3>1. t + 1 <= r => (t + 1) * q <= r * q  BY <1>1, <2>3, ProductGrows
    <3> QED  BY <1>1, <2>1, <2>3, <2>4, <3>1
  <2>7. t \in Team /\ AtMost(t, r) = r  BY <1>1, <2>3, <2>5, <2>6, TeamFacts DEF Team, AtMost
  <2> QED  BY <1>1, <2>1, <2>3, <2>4, <2>6, <2>7 DEF k
<1> QED  BY <1>1, <1>2, <1>3

LEMMA ShareRange ==
    ASSUME NEW n \in Nat, NEW t \in Team
    PROVE  Share(n, t) \subseteq 0..(n - 1)
<1>1. t \in Nat /\ t + 1 \in Nat /\ t + 1 <= N /\ N \in Nat  BY TeamFacts DEF Team
<1>2. ShareStart(n, t) \in Nat /\ ShareEnd(n, t) = ShareStart(n, t + 1)  BY <1>1, NextShare
<1>3. ShareStart(n, t + 1) <= n  BY <1>1, SharesInOrder, SharesSpan
<1>4. ShareStart(n, t + 1) \in Nat  BY <1>1, NextShare
<1> QED  BY <1>2, <1>3, <1>4 DEF Share

\* The shares of the balanced static schedule (kmp_sched.cpp, and the steal schedule's first
\* division in kmp_dispatch.cpp) are the iterations of the loop, each in exactly one share, and no
\* thread has two more than another.
THEOREM SharesPartition ==
    ASSUME NEW n \in Nat
    PROVE  /\ \A i \in 0..(n - 1) : \E t \in Team : i \in Share(n, t)
           /\ \A t \in Team : Share(n, t) \subseteq 0..(n - 1)
           /\ \A t, u \in Team : t # u => Share(n, t) \intersect Share(n, u) = {}
           /\ \A t \in Team : ShareEnd(n, t) - ShareStart(n, t) \in {n \div N, n \div N + 1}
<1>1. ASSUME NEW t \in Team, NEW u \in Team, t < u PROVE Share(n, t) \intersect Share(n, u) = {}
  <2>1. t \in Nat /\ u \in Nat /\ t + 1 \in Nat /\ t + 1 <= u  BY <1>1, TeamFacts DEF Team
  <2>2. ShareEnd(n, t) <= ShareStart(n, u)  BY <2>1, NextShare, SharesInOrder
  <2>3. ShareEnd(n, t) \in Nat /\ ShareStart(n, u) \in Nat  BY <2>1, NextShare
  <2> QED  BY <2>2, <2>3 DEF Share
<1>2. \A t, u \in Team : t # u => Share(n, t) \intersect Share(n, u) = {}
  <2>1. \A t, u \in Team : t # u => t < u \/ u < t  BY TeamFacts DEF Team
  <2> QED  BY <1>1, <2>1
<1>3. \A t \in Team : t \in Nat  BY TeamFacts DEF Team
<1> QED  BY <1>2, <1>3, SomeShare, ShareRange, NextShare

----------------------------------------------------------------------------
(* II. Dynamic dispatch. *)

(* An index of the ring identifies a loop: there are more indices than buffers, and *)
(* the indices either wrap at a multiple of the buffers or do not wrap.             *)
IndicesSuffice ==
    /\ NumBuffers < IndexWidth
    /\ IndexWidth % NumBuffers = 0 \/ \A p \in Programs : DOMAIN p \subseteq 1..IndexWidth

Using == {"ready", "next", "guided", "attempt", "look", "read", "swap", "store", "work", "finish", "done"}
Resetting == {"reset", "recycle"}
Away == {"out", "static", "leave", "detach", "barrier"}
Unreported == Using \union {"wait"}

\* The loops that use buffers are numbered from zero: the one that a thread is in, and how
\* many it has reported to be done.
Current(t) == DispIndex(t) - 1
Finished(t) == IF pc[t] \in Unreported THEN DispIndex(t) - 1 ELSE DispIndex(t)

Buffer(b) == [iteration : {b.iteration}, numDone : Nat, ordered : {b.ordered}, index : Nat]
Types ==
    /\ prog \in Programs
    /\ at \in [Threads -> Nat]
    /\ pc \in [Threads -> Unreported \union Resetting \union Away]
    /\ cur \in [Threads -> Slots \union {NoSlot}]
    /\ DOMAIN buf = Slots /\ \A s \in Slots : buf[s] \in Buffer(buf[s])
    /\ \A t \in Threads : at[t] = 0 \/ at[t] \in DOMAIN prog
    /\ \A t \in Threads : pc[t] \in Unreported \union Resetting => at[t] # 0 /\ Loop(t).sched # "static"
    /\ \A t \in Threads : pc[t] \in {"work", "finish"} => Ordered(t)

(* G[s] is the number of the loop that slot s is for.  *)
Fits(G) == \A s \in Slots : G[s] % NumBuffers = s /\ buf[s].index = G[s] % IndexWidth

\* Everybody has finished the loop that had the slot before, and nobody the one after.
Window(G) == \A s \in Slots : \A t \in Threads :
    Finished(t) <= G[s] + NumBuffers /\ G[s] < Finished(t) + NumBuffers

UsesOwn(G) == \A t \in Threads : pc[t] \in Using \union Resetting =>
    cur[t] \in Slots /\ G[cur[t]] = Current(t)

\* Whoever resets a buffer is alone with it.
AloneAtEnd(G) ==
    /\ \A t \in Threads : pc[t] \in Resetting => \A u \in Threads : G[cur[t]] < Finished(u)
    /\ \A t, u \in Threads : pc[t] \in Resetting /\ pc[u] \in Resetting /\ cur[t] = cur[u] => t = u

Reported(G, s) == {t \in Threads : G[s] < Finished(t)}
Counted(G) == \A s \in Slots :
    (\A t \in Threads : pc[t] = "recycle" => cur[t] # s) => buf[s].numDone = Cardinality(Reported(G, s))

IsClean(s) == buf[s].iteration = 0 /\ buf[s].ordered = 0
Untouched(s) ==
    /\ \A t \in Threads : pc[t] \in Using \union Resetting => cur[t] # s
    /\ buf[s].numDone = 0
Cleaned == \A t \in Threads : pc[t] = "recycle" => IsClean(cur[t]) /\ buf[cur[t]].numDone = 0
\* Only an ordered loop takes turns, which is why the others need not reset the turn.
NoTurns(G) == \A s \in Slots : \A n \in Nat :
    /\ prog[n].sched # "static" /\ Cardinality(Dynamic(n)) = G[s] + 1
    /\ prog[n].ordered = "no"
    => buf[s].ordered = 0

RingInv(G) ==
    /\ Fits(G) /\ Window(G) /\ UsesOwn(G) /\ AloneAtEnd(G) /\ Counted(G)
    /\ \A s \in Slots : Untouched(s) => IsClean(s)
    /\ Cleaned /\ NoTurns(G)
IInv == Types /\ \E G \in [Slots -> Nat] : RingInv(G)

----------------------------------------------------------------------------
(* Indices. *)
LEMMA RingFacts == /\ NumBuffers \in Nat /\ NumBuffers > 0 /\ IndexWidth \in Nat /\ IndexWidth > 0
BY RingAssumption, IndexAssumption DEF RingAssumption, IndexAssumption

LEMMA Distribute == \A a, b, n \in Nat : (a + b) * n = a * n + b * n
OBVIOUS

\* Remainder and Division for numbers that have a name.
LEMMA IsRemainder ==
    \A a, n, q, r \in Nat : n > 0 /\ r < n /\ a = q * n + r => a % n = r
<1> SUFFICES ASSUME NEW a \in Nat, NEW n \in Nat, NEW q \in Nat, NEW r \in Nat,
                    n > 0, r < n, a = q * n + r
             PROVE  a % n = r
  OBVIOUS
<1>1. a \in Int /\ n \in Int /\ q \in Int /\ r \in Int /\ 0 <= r
  OBVIOUS
<1>2. QED
  BY <1>1, Remainder

LEMMA HasRemainder ==
    \A a, n \in Nat : n > 0 => \E q, r \in Nat : a % n = r /\ r < n /\ a = q * n + r
<1> SUFFICES ASSUME NEW a \in Nat, NEW n \in Nat, n > 0
             PROVE  \E q, r \in Nat : a % n = r /\ r < n /\ a = q * n + r
  OBVIOUS
<1>1. /\ a \div n \in Nat /\ a % n \in Nat /\ a % n < n
      /\ a = (a \div n) * n + (a % n)
  BY Division
<1>2. PICK q, r : q = a \div n /\ r = a % n
  OBVIOUS
<1>3. q \in Nat /\ r \in Nat /\ r < n /\ a = q * n + r
  BY <1>1, <1>2
<1>4. QED
  BY <1>2, <1>3

LEMMA ModSmall == \A n, x \in Nat : x < n => x % n = x
<1> SUFFICES ASSUME NEW n \in Nat, NEW x \in Nat, x < n PROVE x % n = x
  OBVIOUS
<1>1. x = 0 * n + x /\ n > 0
  OBVIOUS
<1>2. QED
  BY <1>1, IsRemainder

LEMMA ModShift ==
    \A n, x, k \in Nat : n > 0 => ((x % n) + k) % n = (x + k) % n
<1> SUFFICES ASSUME NEW n \in Nat, NEW x \in Nat, NEW k \in Nat, n > 0
             PROVE  ((x % n) + k) % n = (x + k) % n
  OBVIOUS
<1>1. PICK q \in Nat, r \in Nat : x % n = r /\ r < n /\ x = q * n + r
  BY HasRemainder
<1>2. PICK y \in Nat : y = r + k
  OBVIOUS
<1>3. PICK p \in Nat, s \in Nat : y % n = s /\ s < n /\ y = p * n + s
  BY HasRemainder
<1>4. PICK z \in Nat, o \in Nat : z = x + k /\ o = q + p
  OBVIOUS
<1>5. q * n \in Nat /\ p * n \in Nat /\ o * n = q * n + p * n
  BY <1>4, Product, Distribute
<1>6. z = o * n + s
  BY <1>1, <1>2, <1>3, <1>4, <1>5
<1>7. z % n = s
  BY <1>3, <1>6, IsRemainder
<1>8. QED
  BY <1>1, <1>2, <1>3, <1>4, <1>7

\* Once around.
LEMMA ModOnce == \A n, x \in Nat : x < n => (x + n) % n = x
<1> SUFFICES ASSUME NEW n \in Nat, NEW x \in Nat, x < n PROVE (x + n) % n = x
  OBVIOUS
<1>1. PICK y \in Nat : y = x + n
  OBVIOUS
<1>2. y = 1 * n + x /\ n > 0
  BY <1>1
<1>3. y % n = x
  BY <1>2, IsRemainder
<1>4. QED
  BY <1>1, <1>3

LEMMA ModAround == \A n, x \in Nat : n > 0 => (x + n) % n = x % n
<1> SUFFICES ASSUME NEW n \in Nat, NEW x \in Nat, n > 0 PROVE (x + n) % n = x % n
  OBVIOUS
<1>1. PICK r \in Nat : r = x % n /\ r < n
  BY HasRemainder
<1>2. (r + n) % n = r
  BY <1>1, ModOnce
<1>3. (r + n) % n = (x + n) % n
  BY <1>1, ModShift
<1>4. QED
  BY <1>1, <1>2, <1>3

LEMMA ModDiffers ==
    \A n, k, x \in Nat : 0 < k /\ k < n => (x + k) % n # x % n
<1> SUFFICES ASSUME NEW n \in Nat, NEW k \in Nat, NEW x \in Nat, 0 < k, k < n
             PROVE  (x + k) % n # x % n
  OBVIOUS
<1>1. PICK r \in Nat : r = x % n /\ r < n
  <2>1. n > 0
    OBVIOUS
  <2>2. QED
    BY <2>1, HasRemainder
<1>2. (r + k) % n = (x + k) % n
  <2>1. n > 0
    OBVIOUS
  <2>2. QED
    BY <1>1, <2>1, ModShift
<1>3. CASE r + k < n
  <2>1. (r + k) % n = r + k
    BY <1>3, ModSmall
  <2>2. QED
    BY <1>1, <1>2, <2>1
<1>4. CASE r + k >= n
  <2>1. PICK s \in Nat : s + n = r + k /\ s < n /\ s # r
    <3>1. r + k - n \in Nat /\ (r + k - n) + n = r + k /\ r + k - n < n /\ r + k - n # r
      BY <1>1, <1>4
    <3>2. QED
      BY <3>1
  <2>2. (s + n) % n = s
    BY <2>1, ModOnce
  <2>3. QED
    BY <1>1, <1>2, <2>1, <2>2
<1>5. QED
  BY <1>1, <1>3, <1>4

LEMMA ModOfMod ==
    \A n, w, x \in Nat : n > 0 /\ w > 0 /\ w % n = 0 => (x % w) % n = x % n
<1> SUFFICES ASSUME NEW n \in Nat, NEW w \in Nat, NEW x \in Nat, n > 0, w > 0, w % n = 0
             PROVE  (x % w) % n = x % n
  OBVIOUS
<1>1. PICK m \in Nat : w = m * n
  <2>1. PICK m \in Nat, z \in Nat : w % n = z /\ w = m * n + z
    BY HasRemainder
  <2>2. m * n \in Nat
    BY Product
  <2>3. QED
    BY <2>1, <2>2
<1>2. PICK q \in Nat, r \in Nat : x % w = r /\ x = q * w + r
  BY HasRemainder
<1>3. PICK p \in Nat, s \in Nat : r % n = s /\ s < n /\ r = p * n + s
  BY HasRemainder
<1>4. PICK o \in Nat : o = q * m
  BY Product
<1>5. q * w = o * n
  BY <1>1, <1>4
<1>6. PICK z \in Nat : z = o + p
  OBVIOUS
<1>7. z * n = o * n + p * n /\ o * n \in Nat /\ p * n \in Nat
  BY <1>6, Distribute, Product
<1>8. x = z * n + s
  BY <1>2, <1>3, <1>5, <1>7
<1>9. x % n = s
  BY <1>3, <1>8, IsRemainder
<1>10. QED
  BY <1>2, <1>3, <1>9

\* Two numbers with the same remainder are a multiple apart.
LEMMA Apart ==
    \A n, a, b \in Nat : n > 0 /\ a < b /\ a % n = b % n => a + n <= b
<1> SUFFICES ASSUME NEW n \in Nat, NEW a \in Nat, NEW b \in Nat, n > 0, a < b, a % n = b % n
             PROVE  a + n <= b
  OBVIOUS
<1>1. PICK p \in Nat, r \in Nat : a % n = r /\ a = p * n + r
  BY HasRemainder
<1>2. PICK q \in Nat, s \in Nat : b % n = s /\ b = q * n + s
  BY HasRemainder
<1>3. p * n \in Nat /\ q * n \in Nat /\ (p + 1) * n = p * n + n /\ r = s
  BY <1>1, <1>2, Product
<1>4. CASE q <= p
  <2>1. q * n <= p * n
    BY <1>4, ProductGrows
  <2>2. QED
    BY <1>1, <1>2, <1>3, <2>1
<1>5. CASE p + 1 <= q
  <2>1. (p + 1) * n <= q * n
    BY <1>5, ProductGrows
  <2>2. QED
    BY <1>1, <1>2, <1>3, <2>1
<1>6. QED
  BY <1>4, <1>5

----------------------------------------------------------------------------
(* The loops that use buffers. *)
LEMMA DynamicFacts ==
    ASSUME NEW n \in Nat
    PROVE  /\ IsFiniteSet(Dynamic(n)) /\ Cardinality(Dynamic(n)) \in Nat
           /\ Cardinality(Dynamic(n)) <= n
<1>1. IsFiniteSet(1..n) /\ Cardinality(1..n) = n
  BY FS_Interval
<1>2. Dynamic(n) \in SUBSET (1..n)
  BY DEF Dynamic
<1>3. QED
  BY <1>1, <1>2, FS_Subset, FS_CardinalityType

LEMMA DynamicNext ==
    ASSUME NEW n \in Nat
    PROVE  Cardinality(Dynamic(n + 1)) =
             Cardinality(Dynamic(n)) + (IF prog[n + 1].sched = "static" THEN 0 ELSE 1)
<1>1. 1..(n + 1) = (1..n) \union {n + 1} /\ n + 1 \notin 1..n
  OBVIOUS
<1>2. CASE prog[n + 1].sched = "static"
  <2>1. Dynamic(n + 1) = Dynamic(n)
    BY <1>1, <1>2 DEF Dynamic
  <2>2. QED
    BY <1>2, <2>1, DynamicFacts
<1>3. CASE prog[n + 1].sched # "static"
  <2>1. Dynamic(n + 1) = Dynamic(n) \union {n + 1} /\ n + 1 \notin Dynamic(n)
    BY <1>1, <1>3 DEF Dynamic
  <2>2. QED
    BY <1>3, <2>1, DynamicFacts, FS_AddElement
<1>4. QED
  BY <1>2, <1>3

\* The number of such a loop is its own.
LEMMA DynamicGrows ==
    ASSUME NEW m \in Nat, NEW n \in Nat, m < n, prog[n].sched # "static"
    PROVE  Cardinality(Dynamic(m)) < Cardinality(Dynamic(n))
<1>1. PICK k \in Nat : n = k + 1 /\ m <= k
  BY DEF Dynamic
<1>2. Cardinality(Dynamic(n)) = Cardinality(Dynamic(k)) + 1
  BY <1>1, DynamicNext
<1>3. Dynamic(m) \in SUBSET Dynamic(k)
  BY <1>1 DEF Dynamic
<1>4. Cardinality(Dynamic(m)) <= Cardinality(Dynamic(k))
  BY <1>3, DynamicFacts, FS_Subset
<1>5. QED
  BY <1>2, <1>4, DynamicFacts

LEMMA DynamicUnique ==
    ASSUME NEW m \in Nat, NEW n \in Nat, prog[m].sched # "static", prog[n].sched # "static",
           Cardinality(Dynamic(m)) = Cardinality(Dynamic(n))
    PROVE  m = n
<1>1. Cardinality(Dynamic(m)) \in Nat /\ Cardinality(Dynamic(n)) \in Nat
  BY DynamicFacts
<1>2. ~(m < n) /\ ~(n < m)
  BY <1>1, DynamicGrows
<1>3. QED
  BY <1>2

----------------------------------------------------------------------------
(* Steps that leave every thread with the loops it has reported and every slot with *)
(* the loop it is for.                                                              *)
LEMMA FinishedFacts ==
    ASSUME Types, NEW t \in Threads
    PROVE  /\ DispIndex(t) \in Nat /\ Finished(t) \in Nat
           /\ pc[t] \in Unreported \union Resetting => Current(t) \in Nat
           /\ pc[t] \in Unreported => Finished(t) = Current(t)
           /\ pc[t] \notin Unreported => Finished(t) = DispIndex(t)
<1>1. DispIndex(t) \in Nat
  BY DynamicFacts DEF DispIndex, Types
<1>2. pc[t] \in Unreported \union Resetting => DispIndex(t) # 0
  <2> SUFFICES ASSUME pc[t] \in Unreported \union Resetting PROVE DispIndex(t) # 0
    OBVIOUS
  <2>1. at[t] \in Nat /\ at[t] # 0 /\ prog[at[t]].sched # "static"
    BY DEF Types, Loop
  <2>2. Cardinality(Dynamic(0)) < Cardinality(Dynamic(at[t])) /\ Cardinality(Dynamic(0)) \in Nat
    BY <2>1, DynamicGrows, DynamicFacts
  <2>3. QED
    BY <1>1, <2>2 DEF DispIndex
<1>3. QED
  BY <1>1, <1>2 DEF Finished, Current

KeepsPlace(u) ==
    /\ Finished(u)' = Finished(u)
    /\ pc'[u] \in Using \union Resetting =>
          pc[u] \in Using \union Resetting /\ at'[u] = at[u] /\ cur'[u] = cur[u]
    /\ pc[u] \in Using \union Resetting => pc'[u] \in Using \union Resetting
    /\ pc'[u] \in Resetting => pc[u] \in Resetting
    /\ pc'[u] = "recycle" <=> pc[u] = "recycle"

\* A buffer is used by a thread in its loop, and its turn by one in an ordered loop.
KeepsBuffer(s) ==
    /\ buf'[s].index = buf[s].index /\ buf'[s].numDone = buf[s].numDone
    /\ buf'[s].iteration # buf[s].iteration =>
          \E u \in Threads : pc[u] \in Using /\ cur[u] = s
    /\ buf'[s].ordered # buf[s].ordered =>
          \E u \in Threads : pc[u] \in Using /\ cur[u] = s /\ Ordered(u)

LEMMA QuietStep ==
    ASSUME IInv, Types', prog' = prog,
           \A u \in Threads : KeepsPlace(u), \A s \in Slots : KeepsBuffer(s)
    PROVE  IInv'
<1>t. Types
  BY DEF IInv
<1>1. PICK G \in [Slots -> Nat] : RingInv(G)
  BY DEF IInv
<1>2. \A n : Dynamic(n)' = Dynamic(n)
  BY DEF Dynamic
<1>3. \A u \in Threads : pc'[u] \in Using \union Resetting => Current(u)' = Current(u)
  BY <1>2 DEF KeepsPlace, Current, DispIndex
<1>4. Fits(G)' /\ Window(G)' /\ UsesOwn(G)' /\ AloneAtEnd(G)'
  <2>1. Fits(G)'
    BY <1>1 DEF RingInv, Fits, KeepsBuffer
  <2>2. Window(G)'
    BY <1>1 DEF RingInv, Window, KeepsPlace
  <2>3. UsesOwn(G)'
    BY <1>1, <1>3 DEF RingInv, UsesOwn, KeepsPlace
  <2>4. AloneAtEnd(G)'
    <3>1. \A u \in Threads : pc'[u] \in Resetting => pc[u] \in Resetting /\ cur'[u] = cur[u]
      BY DEF KeepsPlace
    <3>2. \A u \in Threads : Finished(u)' = Finished(u)
      BY DEF KeepsPlace
    <3>3. QED
      BY <1>1, <3>1, <3>2 DEF RingInv, AloneAtEnd
  <2>5. QED
    BY <2>1, <2>2, <2>3, <2>4
<1>5. \A u \in Threads : (pc'[u] = "recycle" <=> pc[u] = "recycle")
                         /\ (pc[u] = "recycle" => cur'[u] = cur[u] /\ pc[u] \in Resetting)
  BY DEF KeepsPlace, Resetting
<1>6. Counted(G)'
  <2>1. \A s \in Slots : Reported(G, s)' = Reported(G, s)
    BY DEF Reported, KeepsPlace
  <2>2. QED
    BY <1>1, <1>5, <2>1 DEF RingInv, Counted, KeepsBuffer
<1>7. \A s \in Slots : Untouched(s)' => IsClean(s)'
  <2> SUFFICES ASSUME NEW s \in Slots, Untouched(s)' PROVE IsClean(s)'
    OBVIOUS
  <2>1. \A u \in Threads : pc[u] \in Using \union Resetting => cur[u] # s
    BY DEF Untouched, KeepsPlace
  <2>2. Untouched(s)
    BY <2>1 DEF Untouched, KeepsBuffer
  <2>3. QED
    BY <1>1, <2>1, <2>2 DEF RingInv, IsClean, KeepsBuffer
<1>8. Cleaned'
  <2> SUFFICES ASSUME NEW t \in Threads, pc'[t] = "recycle"
               PROVE  (IsClean(cur[t]) /\ buf[cur[t]].numDone = 0)'
    BY DEF Cleaned
  <2>1. pc[t] = "recycle" /\ cur'[t] = cur[t] /\ pc[t] \in Resetting
    BY <1>5
  <2>2. cur[t] \in Slots /\ \A u \in Threads : G[cur[t]] < Finished(u)
    BY <1>1, <2>1 DEF RingInv, UsesOwn, AloneAtEnd
  <2>3. \A u \in Threads : pc[u] \in Using => cur[u] # cur[t]
    <3> SUFFICES ASSUME NEW u \in Threads, pc[u] \in Using, cur[u] = cur[t] PROVE FALSE
      OBVIOUS
    <3>1. G[cur[t]] = Current(u) /\ Finished(u) = Current(u) /\ Finished(u) \in Nat
      BY <1>1, <1>t, FinishedFacts DEF RingInv, UsesOwn, Unreported
    <3>2. QED
      BY <2>2, <3>1
  <2>4. IsClean(cur[t]) /\ buf[cur[t]].numDone = 0
    BY <1>1, <2>1 DEF RingInv, Cleaned
  <2>5. QED
    BY <2>1, <2>2, <2>3, <2>4 DEF IsClean, KeepsBuffer
<1>9. NoTurns(G)'
  <2> SUFFICES ASSUME NEW s \in Slots, NEW n \in Nat, prog[n].sched # "static",
                      Cardinality(Dynamic(n)) = G[s] + 1, prog[n].ordered = "no"
               PROVE  buf'[s].ordered = 0
    BY <1>2 DEF NoTurns
  <2>1. buf[s].ordered = 0
    BY <1>1 DEF RingInv, NoTurns
  <2>2. ASSUME NEW u \in Threads, pc[u] \in Using, cur[u] = s, Ordered(u) PROVE FALSE
    <3>1. G[s] = Current(u) /\ DispIndex(u) \in Nat
      BY <1>1, <1>t, <2>2, FinishedFacts DEF RingInv, UsesOwn
    <3>2. Cardinality(Dynamic(at[u])) = G[s] + 1
      BY <3>1 DEF Current, DispIndex
    <3>3. at[u] \in Nat /\ prog[at[u]].sched # "static"
      BY <1>t, <2>2 DEF Types, Loop, Unreported
    <3>4. n = at[u]
      BY <3>2, <3>3, DynamicUnique
    <3>5. QED
      BY <2>2, <3>4 DEF Ordered, Loop
  <2>3. QED
    BY <2>1, <2>2 DEF KeepsBuffer
<1>10. RingInv(G)'
  BY <1>4, <1>6, <1>7, <1>8, <1>9 DEF RingInv
<1>11. QED
  BY <1>10 DEF IInv
----------------------------------------------------------------------------
(* Steps of a thread inside its loop. *)
LEMMA BufferFields ==
    ASSUME NEW b, b \in Buffer(b), NEW x
    PROVE  /\ \A r : r = [b EXCEPT !.iteration = x] =>
                r \in Buffer(r) /\ r.numDone = b.numDone /\ r.ordered = b.ordered /\ r.index = b.index
           /\ \A r : r = [b EXCEPT !.ordered = x] =>
                r \in Buffer(r) /\ r.numDone = b.numDone /\ r.iteration = b.iteration /\ r.index = b.index
BY DEF Buffer

BuffersTyped == DOMAIN buf = Slots /\ \A s \in Slots : buf[s] \in Buffer(buf[s])

LEMMA TypesMove ==
    ASSUME Types, prog' = prog, at' = at, BuffersTyped',
           cur' \in [Threads -> Slots \union {NoSlot}],
           NEW t \in Threads, NEW w \in Unreported \union Resetting \union Away,
           w \in Away \/ pc[t] \in Unreported \union Resetting,
           w \in {"work", "finish"} => Ordered(t),
           pc' = [pc EXCEPT ![t] = w]
    PROVE  Types'
<1>1. \A u \in Threads : Loop(u)' = Loop(u) /\ (Ordered(u)' <=> Ordered(u))
  BY DEF Loop, Ordered
<1>2. pc \in [Threads -> Unreported \union Resetting \union Away]
  BY DEF Types
<1>3. pc' \in [Threads -> Unreported \union Resetting \union Away]
  BY <1>2
<1>4. pc'[t] = w /\ \A u \in Threads : u # t => pc'[u] = pc[u]
  BY <1>2
<1>5. Away \intersect (Unreported \union Resetting) = {}
  BY DEF Away, Unreported, Using, Resetting
<1>6. \A u \in Threads : pc'[u] \in Unreported \union Resetting => at'[u] # 0 /\ Loop(u)'.sched # "static"
  BY <1>1, <1>4, <1>5 DEF Types
<1>7. \A u \in Threads : pc'[u] \in {"work", "finish"} => Ordered(u)'
  BY <1>1, <1>4 DEF Types
<1>8. \A u \in Threads : at'[u] = 0 \/ at'[u] \in DOMAIN prog'
  BY DEF Types
<1>9. prog' \in Programs /\ at' \in [Threads -> Nat]
  BY DEF Types
<1>10. QED
  BY <1>3, <1>6, <1>7, <1>8, <1>9 DEF Types, BuffersTyped

Goes(t) == \E w \in Using : (w \in {"work", "finish"} => Ordered(t)) /\ pc' = [pc EXCEPT ![t] = w]
UsesBuffer(t) ==
    \/ buf' = buf
    \/ \E x : buf' = [buf EXCEPT ![cur[t]].iteration = x]
    \/ Ordered(t) /\ \E x : buf' = [buf EXCEPT ![cur[t]].ordered = x]

LEMMA UseStep ==
    ASSUME IInv, NEW t \in Threads, pc[t] \in Using, Goes(t), UsesBuffer(t),
           UNCHANGED <<prog, at, cur>>
    PROVE  IInv'
<1>t. Types
  BY DEF IInv
<1>1. PICK w \in Using : (w \in {"work", "finish"} => Ordered(t)) /\ pc' = [pc EXCEPT ![t] = w]
  BY DEF Goes
<1>2. cur[t] \in Slots
  BY DEF IInv, RingInv, UsesOwn
<1>b. DOMAIN buf = Slots /\ \A s \in Slots : buf[s] \in Buffer(buf[s])
  BY <1>t DEF Types
<1>3. BuffersTyped' /\ \A s \in Slots : KeepsBuffer(s)
  <2>1. CASE buf' = buf
    BY <1>b, <2>1 DEF BuffersTyped, KeepsBuffer
  <2>2. ASSUME NEW x, buf' = [buf EXCEPT ![cur[t]].iteration = x]
        PROVE  BuffersTyped' /\ \A s \in Slots : KeepsBuffer(s)
    <3>1. PICK b : b = buf[cur[t]]
      OBVIOUS
    <3>2. PICK r : r = [b EXCEPT !.iteration = x]
      OBVIOUS
    <3>3. r \in Buffer(r) /\ r.numDone = b.numDone /\ r.ordered = b.ordered /\ r.index = b.index
      <4>1. b \in Buffer(b)
        BY <1>2, <1>b, <3>1
      <4>2. QED
        BY <3>2, <4>1, BufferFields
    <3>4. buf' = [buf EXCEPT ![cur[t]] = r]
      BY <2>2, <3>1, <3>2
    <3>5. DOMAIN buf' = Slots /\ buf'[cur[t]] = r /\ \A s \in Slots : s # cur[t] => buf'[s] = buf[s]
      BY <1>2, <1>b, <3>4
    <3>6. QED
      BY <1>2, <1>b, <3>1, <3>3, <3>5 DEF BuffersTyped, KeepsBuffer
  <2>3. ASSUME NEW x, Ordered(t), buf' = [buf EXCEPT ![cur[t]].ordered = x]
        PROVE  BuffersTyped' /\ \A s \in Slots : KeepsBuffer(s)
    <3>1. PICK b : b = buf[cur[t]]
      OBVIOUS
    <3>2. PICK r : r = [b EXCEPT !.ordered = x]
      OBVIOUS
    <3>3. r \in Buffer(r) /\ r.numDone = b.numDone /\ r.iteration = b.iteration /\ r.index = b.index
      <4>1. b \in Buffer(b)
        BY <1>2, <1>b, <3>1
      <4>2. QED
        BY <3>2, <4>1, BufferFields
    <3>4. buf' = [buf EXCEPT ![cur[t]] = r]
      BY <2>3, <3>1, <3>2
    <3>5. DOMAIN buf' = Slots /\ buf'[cur[t]] = r /\ \A s \in Slots : s # cur[t] => buf'[s] = buf[s]
      BY <1>2, <1>b, <3>4
    <3>6. QED
      BY <1>2, <1>b, <2>3, <3>1, <3>3, <3>5 DEF BuffersTyped, KeepsBuffer
  <2>4. QED
    BY <2>1, <2>2, <2>3 DEF UsesBuffer
<1>4. Types'
  <2>1. cur' \in [Threads -> Slots \union {NoSlot}]
    BY <1>t DEF Types
  <2>2. w \in Unreported \union Resetting \union Away /\ pc[t] \in Unreported \union Resetting
    BY DEF Unreported
  <2>3. QED
    BY <1>t, <1>1, <1>3, <2>1, <2>2, TypesMove
<1>5. pc'[t] = w /\ \A u \in Threads : u # t => pc'[u] = pc[u]
  BY <1>t, <1>1 DEF Types
<1>6. \A u \in Threads : KeepsPlace(u)
  <2> SUFFICES ASSUME NEW u \in Threads PROVE KeepsPlace(u)
    OBVIOUS
  <2>1. DispIndex(u)' = DispIndex(u)
    BY DEF DispIndex, Dynamic
  <2>2. CASE u # t
    BY <1>5, <2>1, <2>2 DEF KeepsPlace, Finished
  <2>3. CASE u = t
    <3>1. pc[u] \in Using /\ pc'[u] \in Using
      BY <1>5, <2>3
    <3>2. pc'[u] \notin Resetting /\ pc[u] # "recycle" /\ pc'[u] # "recycle"
      BY <3>1 DEF Using, Resetting
    <3>3. Finished(u)' = Finished(u)
      BY <2>1, <3>1 DEF Finished, Unreported
    <3>4. QED
      BY <3>1, <3>2, <3>3 DEF KeepsPlace
  <2>4. QED
    BY <2>2, <2>3
<1>7. QED
  BY <1>3, <1>4, <1>6, QuietStep

LEMMA StillStep ==
    ASSUME IInv, UNCHANGED <<prog, at, pc, cur, buf>>
    PROVE  IInv'
<1>1. Types'
  <2>1. Types
    BY DEF IInv
  <2>2. \A u \in Threads : Loop(u)' = Loop(u) /\ (Ordered(u)' <=> Ordered(u))
    BY DEF Loop, Ordered
  <2>3. QED
    BY <2>1, <2>2 DEF Types
<1>2. \A u \in Threads : KeepsPlace(u)
  <2>1. \A u \in Threads : DispIndex(u)' = DispIndex(u)
    BY DEF DispIndex, Dynamic
  <2>2. QED
    BY <2>1 DEF KeepsPlace, Finished
<1>3. \A s \in Slots : KeepsBuffer(s)
  BY DEF KeepsBuffer
<1>4. QED
  BY <1>1, <1>2, <1>3, QuietStep

\* The ends of the chunk operators.
LEMMA GotGoes ==
    ASSUME NEW t \in Threads, NEW i, NEW l, Got(t, i, l)
    PROVE  Goes(t)
BY DEF Got, Goes, Goto, Using

LEMMA GotNoneGoes ==
    ASSUME NEW t \in Threads, GotNone(t)
    PROVE  Goes(t)
BY DEF GotNone, Goes, Goto, Using

LEMMA TakeChunkGoes ==
    ASSUME NEW t \in Threads, NEW p, NEW i, NEW l, NEW b, TakeChunk(t, p, i, l, b)
    PROVE  Goes(t)
BY GotGoes, GotNoneGoes DEF TakeChunk

LEMMA FetchUses ==
    ASSUME NEW t \in Threads, NEW d, Fetch(t, d)
    PROVE  UsesBuffer(t)
<1>1. PICK x : x = UT(buf[cur[t]].iteration + d)
  OBVIOUS
<1>2. buf' = [buf EXCEPT ![cur[t]].iteration = x]
  BY <1>1 DEF Fetch
<1>3. QED
  BY <1>2 DEF UsesBuffer

LEMMA GotoGoes ==
    ASSUME NEW t \in Threads, NEW w \in Using, Goto(t, w), w \in {"work", "finish"} => Ordered(t)
    PROVE  Goes(t)
BY DEF Goto, Goes

\* What a thread does with a chunk, and how it gets one.
LEMMA LoopStep ==
    ASSUME IInv, NEW t \in Threads,
           \/ Ready(t) \/ ZeroTrip(t) \/ NextBalanced(t) \/ NextChunked(t) \/ NextDynamic(t)
           \/ NextTrapezoidal(t) \/ GuidedRead(t) \/ GuidedAdd(t) \/ GuidedSwap(t)
           \/ NextSteal(t) \/ Attempt(t) \/ Look(t) \/ ReadVictim(t) \/ SwapVictim(t) \/ Store(t)
           \/ Deo(t) \/ Dxo(t) \/ Finish(t) \/ Iterate(t) \/ FinishChunk(t)
    PROVE  IInv'
<1>t. Types
  BY DEF IInv
<1>o. pc[t] \in {"work", "finish"} => Ordered(t)
  BY <1>t DEF Types
<1>1. CASE Ready(t)
  <2>1. Goes(t) /\ pc[t] \in Using
    BY <1>1, GotoGoes DEF Ready, At, Using
  <2>2. QED
    BY <1>1, <2>1, UseStep DEF Ready, UsesBuffer
<1>2. CASE ZeroTrip(t)
  <2>1. Goes(t) /\ pc[t] \in Using
    BY <1>2, GotNoneGoes DEF ZeroTrip, At, Using
  <2>2. QED
    BY <1>2, <2>1, UseStep DEF ZeroTrip, UsesBuffer
<1>3. CASE NextBalanced(t)
  <2>1. Goes(t) /\ pc[t] \in Using
    BY <1>3, GotGoes, GotNoneGoes DEF NextBalanced, InCase, At, Using
  <2>2. QED
    BY <1>3, <2>1, UseStep DEF NextBalanced, UsesBuffer
<1>4. CASE NextChunked(t)
  <2>1. Goes(t) /\ pc[t] \in Using
    BY <1>4, TakeChunkGoes DEF NextChunked, InCase, At, Using
  <2>2. QED
    BY <1>4, <2>1, UseStep DEF NextChunked, UsesBuffer
<1>5. CASE NextDynamic(t)
  <2>1. Goes(t) /\ pc[t] \in Using
    BY <1>5, TakeChunkGoes DEF NextDynamic, InCase, At, Using
  <2>2. UsesBuffer(t)
    BY <1>5, FetchUses DEF NextDynamic
  <2>3. QED
    BY <1>5, <2>1, <2>2, UseStep DEF NextDynamic
<1>6. CASE NextTrapezoidal(t)
  <2>1. Goes(t) /\ pc[t] \in Using
    BY <1>6, TakeChunkGoes DEF NextTrapezoidal, InCase, At, Using
  <2>2. UsesBuffer(t)
    BY <1>6, FetchUses DEF NextTrapezoidal
  <2>3. QED
    BY <1>6, <2>1, <2>2, UseStep DEF NextTrapezoidal
<1>7. CASE GuidedRead(t)
  <2>1. Goes(t) /\ pc[t] \in Using
    BY <1>7, GotNoneGoes, GotoGoes DEF GuidedRead, InCase, At, Using
  <2>2. QED
    BY <1>7, <2>1, UseStep DEF GuidedRead, UsesBuffer
<1>8. CASE GuidedAdd(t)
  <2>1. Goes(t) /\ pc[t] \in Using
    BY <1>8, GotGoes, GotNoneGoes DEF GuidedAdd, At, Using
  <2>2. UsesBuffer(t)
    BY <1>8, FetchUses DEF GuidedAdd
  <2>3. QED
    BY <1>8, <2>1, <2>2, UseStep DEF GuidedAdd
<1>9. CASE GuidedSwap(t)
  <2>1. Goes(t) /\ pc[t] \in Using
    BY <1>9, GotGoes, GotoGoes DEF GuidedSwap, At, Using
  <2>2. UsesBuffer(t)
    BY <1>9, FetchUses DEF GuidedSwap, UsesBuffer
  <2>3. QED
    BY <1>9, <2>1, <2>2, UseStep DEF GuidedSwap
<1>10. CASE NextSteal(t)
  <2>1. Goes(t) /\ pc[t] \in Using
    BY <1>10, TakeChunkGoes, GotoGoes DEF NextSteal, InCase, At, Using
  <2>2. QED
    BY <1>10, <2>1, UseStep DEF NextSteal, UsesBuffer
<1>11. CASE Attempt(t)
  <2>1. Goes(t) /\ pc[t] \in Using
    BY <1>11, GotNoneGoes, GotoGoes DEF Attempt, At, Using
  <2>2. QED
    BY <1>11, <2>1, UseStep DEF Attempt, UsesBuffer
<1>12. CASE Look(t)
  <2>1. Goes(t) /\ pc[t] \in Using
    BY <1>12, GotoGoes DEF Look, At, Using
  <2>2. QED
    BY <1>12, <2>1, UseStep DEF Look, UsesBuffer
<1>13. CASE ReadVictim(t)
  <2>1. Goes(t) /\ pc[t] \in Using
    BY <1>13, GotoGoes DEF ReadVictim, At, Using
  <2>2. QED
    BY <1>13, <2>1, UseStep DEF ReadVictim, UsesBuffer
<1>14. CASE SwapVictim(t)
  <2>1. Goes(t) /\ pc[t] \in Using
    BY <1>14, GotoGoes DEF SwapVictim, At, Using
  <2>2. QED
    BY <1>14, <2>1, UseStep DEF SwapVictim, UsesBuffer
<1>15. CASE Store(t)
  <2>1. Goes(t) /\ pc[t] \in Using
    BY <1>15, GotGoes, TakeChunkGoes DEF Store, At, Using
  <2>2. QED
    BY <1>15, <2>1, UseStep DEF Store, UsesBuffer
<1>16. CASE Deo(t)
  <2>1. UNCHANGED <<prog, at, pc, cur, buf>>
    BY <1>16 DEF Deo
  <2>2. QED
    BY <2>1, StillStep
<1>17. CASE Dxo(t)
  <2>1. pc[t] = "work" /\ pc' = [pc EXCEPT ![t] = "work"]
    BY <1>17, <1>t DEF Dxo, At, Types
  <2>2. Goes(t) /\ pc[t] \in Using
    BY <2>1, <1>o DEF Goes, Using
  <2>3. PICK x : x = buf[cur[t]].ordered + 1
    OBVIOUS
  <2>4. buf' = [buf EXCEPT ![cur[t]].ordered = x]
    BY <1>17, <2>3 DEF Dxo
  <2>5. UsesBuffer(t)
    BY <1>o, <2>1, <2>4 DEF UsesBuffer
  <2>6. QED
    BY <1>17, <2>2, <2>5, UseStep DEF Dxo
<1>18. CASE Finish(t)
  <2>1. pc[t] = "work" /\ Ordered(t)
    BY <1>18, <1>o DEF Finish, At
  <2>2. Goes(t) /\ pc[t] \in Using
    BY <1>18, <2>1, GotoGoes DEF Finish, NextIteration, Using
  <2>3. PICK x : x = buf[cur[t]].ordered + 1
    OBVIOUS
  <2>4. buf' = buf \/ buf' = [buf EXCEPT ![cur[t]].ordered = x]
    BY <1>18, <2>3 DEF Finish
  <2>5. UsesBuffer(t)
    BY <2>1, <2>4 DEF UsesBuffer
  <2>6. QED
    BY <1>18, <2>2, <2>5, UseStep DEF Finish
<1>19. CASE Iterate(t)
  <2>1. pc[t] = "work" /\ Ordered(t)
    BY <1>19, <1>o DEF Iterate, At
  <2>2. Goes(t) /\ pc[t] \in Using
    BY <1>19, <2>1, GotoGoes DEF Iterate, NextIteration, Using
  <2>3. QED
    BY <1>19, <2>2, UseStep DEF Iterate, UsesBuffer
<1>20. CASE FinishChunk(t)
  <2>1. pc[t] = "finish" /\ Ordered(t)
    BY <1>20, <1>o DEF FinishChunk, At
  <2>2. Goes(t) /\ pc[t] \in Using
    BY <1>20, <2>1, GotoGoes DEF FinishChunk, Using
  <2>3. PICK x : x = buf[cur[t]].ordered +
                     (Private(t).upper - Private(t).lower + 1 - Private(t).bumped)
    OBVIOUS
  <2>4. buf' = [buf EXCEPT ![cur[t]].ordered = x]
    BY <1>20, <2>3 DEF FinishChunk
  <2>5. UsesBuffer(t)
    BY <2>1, <2>4 DEF UsesBuffer
  <2>6. QED
    BY <1>20, <2>2, <2>5, UseStep DEF FinishChunk
<1>21. QED
  BY <1>1, <1>2, <1>3, <1>4, <1>5, <1>6, <1>7, <1>8, <1>9, <1>10, <1>11, <1>12, <1>13, <1>14,
     <1>15, <1>16, <1>17, <1>18, <1>19, <1>20

----------------------------------------------------------------------------
(* Steps of a thread outside: it uses no buffer before it and none after it. *)
LEMMA AwayStep ==
    ASSUME IInv, NEW t \in Threads, pc[t] \in Away,
           NEW w \in Away, pc' = [pc EXCEPT ![t] = w],
           cur' = cur \/ cur' = [cur EXCEPT ![t] = NoSlot],
           UNCHANGED <<prog, at, buf>>
    PROVE  IInv'
<1>t. Types
  BY DEF IInv
<1>1. cur \in [Threads -> Slots \union {NoSlot}]
  BY <1>t DEF Types
<1>2. /\ cur' \in [Threads -> Slots \union {NoSlot}]
      /\ \A u \in Threads : u # t => cur'[u] = cur[u]
  BY <1>1
<1>3. BuffersTyped'
  BY <1>t DEF Types, BuffersTyped
<1>4. w \notin {"work", "finish"}
  BY DEF Away
<1>5. Types'
  BY <1>t, <1>2, <1>3, <1>4, TypesMove
<1>6. pc'[t] = w /\ \A u \in Threads : u # t => pc'[u] = pc[u]
  BY <1>t DEF Types
<1>7. Away \intersect (Unreported \union Resetting) = {} /\ Using \subseteq Unreported
  BY DEF Away, Unreported, Using, Resetting
<1>8. \A u \in Threads : KeepsPlace(u)
  <2> SUFFICES ASSUME NEW u \in Threads PROVE KeepsPlace(u)
    OBVIOUS
  <2>1. DispIndex(u)' = DispIndex(u)
    BY DEF DispIndex, Dynamic
  <2>2. CASE u # t
    BY <1>2, <1>6, <2>1, <2>2 DEF KeepsPlace, Finished
  <2>3. CASE u = t
    BY <1>6, <1>7, <2>1, <2>3 DEF KeepsPlace, Finished, Resetting
  <2>4. QED
    BY <2>2, <2>3
<1>9. \A s \in Slots : KeepsBuffer(s)
  BY DEF KeepsBuffer
<1>10. QED
  BY <1>5, <1>8, <1>9, QuietStep

LEMMA OutsideStep ==
    ASSUME IInv, NEW t \in Threads,
           Round(t) \/ NoRound(t) \/ Leave(t) \/ Detach(t) \/ Barrier(t)
    PROVE  IInv'
<1>1. CASE Round(t)
  <2>1. PICK w \in {"static", "leave"} : pc' = [pc EXCEPT ![t] = w]
    BY <1>1 DEF Round, Goto
  <2>2. pc[t] \in Away /\ w \in Away
    BY <1>1 DEF Round, At, Away
  <2>3. QED
    BY <1>1, <2>1, <2>2, AwayStep DEF Round
<1>2. CASE NoRound(t)
  <2>1. pc[t] \in Away /\ "leave" \in Away /\ pc' = [pc EXCEPT ![t] = "leave"]
    BY <1>2 DEF NoRound, At, Goto, Away
  <2>2. QED
    BY <1>2, <2>1, AwayStep DEF NoRound
<1>3. CASE Leave(t)
  <2>1. PICK w \in {"out", "barrier"} : pc' = [pc EXCEPT ![t] = w]
    BY <1>3 DEF Leave, Goto
  <2>2. pc[t] \in Away /\ w \in Away
    BY <1>3 DEF Leave, At, Away
  <2>3. QED
    BY <1>3, <2>1, <2>2, AwayStep DEF Leave
<1>4. CASE Detach(t)
  <2>1. PICK w \in {"out", "barrier"} : pc' = [pc EXCEPT ![t] = w]
    BY <1>4 DEF Detach, Goto
  <2>2. pc[t] \in Away /\ w \in Away
    BY <1>4 DEF Detach, At, Away
  <2>3. QED
    BY <1>4, <2>1, <2>2, AwayStep DEF Detach
<1>5. CASE Barrier(t)
  <2>1. pc[t] \in Away /\ "out" \in Away /\ pc' = [pc EXCEPT ![t] = "out"]
    BY <1>5 DEF Barrier, At, Goto, Away
  <2>2. QED
    BY <1>5, <2>1, AwayStep DEF Barrier
<1>6. QED
  BY <1>1, <1>2, <1>3, <1>4, <1>5

\* A thread that enters a loop has finished as many as before.
LEMMA EnterStep ==
    ASSUME IInv, NEW t \in Threads, Enter(t) \/ EnterStatic(t)
    PROVE  IInv'
<1>t. Types
  BY DEF IInv
<1>1. PICK n \in Nat : n = at[t] + 1
  BY <1>t DEF Types
<1>2. /\ pc[t] = "out" /\ n \in DOMAIN prog /\ at' = [at EXCEPT ![t] = n]
      /\ UNCHANGED <<prog, cur, buf>>
  BY <1>1 DEF Enter, EnterStatic, At
<1>3. PICK w \in {"wait", "static"} :
        pc' = [pc EXCEPT ![t] = w] /\ (w = "static" <=> prog[n].sched = "static")
  BY <1>1 DEF Enter, EnterStatic, Goto
<1>4. /\ pc'[t] = w /\ \A u \in Threads : u # t => pc'[u] = pc[u]
      /\ at'[t] = n /\ \A u \in Threads : u # t => at'[u] = at[u]
  BY <1>2, <1>3, <1>t DEF Types
<1>5. /\ "static" \notin Unreported \union Resetting /\ "out" \notin Unreported
      /\ "wait" \in Unreported /\ "wait" \notin Using \union Resetting
      /\ w \in Unreported \union Away
      /\ "out" \notin Using \union Resetting /\ "recycle" \in Resetting
      /\ Using \subseteq Unreported
  BY DEF Away, Unreported, Using, Resetting
<1>6. Types'
  <2>1. pc \in [Threads -> Unreported \union Resetting \union Away] /\ at \in [Threads -> Nat]
    BY <1>t DEF Types
  <2>2. /\ pc' \in [Threads -> Unreported \union Resetting \union Away]
        /\ at' \in [Threads -> Nat]
    BY <1>2, <1>3, <1>5, <2>1
  <2>3. \A u \in Threads : at'[u] = 0 \/ at'[u] \in DOMAIN prog'
    BY <1>2, <1>4, <1>t DEF Types
  <2>4. \A u \in Threads : pc'[u] \in Unreported \union Resetting =>
            at'[u] # 0 /\ Loop(u)'.sched # "static"
    <3> SUFFICES ASSUME NEW u \in Threads, pc'[u] \in Unreported \union Resetting
                 PROVE  at'[u] # 0 /\ Loop(u)'.sched # "static"
      OBVIOUS
    <3>1. CASE u = t
      <4>1. at[t] \in Nat
        BY <1>t DEF Types
      <4>2. QED
        BY <1>1, <1>2, <1>3, <1>4, <1>5, <3>1, <4>1 DEF Loop
    <3>2. CASE u # t
      BY <1>2, <1>4, <1>t, <3>2 DEF Types, Loop
    <3>3. QED
      BY <3>1, <3>2
  <2>5. \A u \in Threads : pc'[u] \in {"work", "finish"} => Ordered(u)'
    <3> SUFFICES ASSUME NEW u \in Threads, pc'[u] \in {"work", "finish"} PROVE Ordered(u)'
      OBVIOUS
    <3>1. u # t
      BY <1>4
    <3>2. QED
      BY <1>2, <1>4, <1>t, <3>1 DEF Types, Ordered, Loop
  <2>6. prog' \in Programs /\ cur' \in [Threads -> Slots \union {NoSlot}]
        /\ DOMAIN buf' = Slots /\ \A s \in Slots : buf'[s] \in Buffer(buf[s])'
    BY <1>2, <1>t DEF Types, Buffer
  <2>7. QED
    BY <2>2, <2>3, <2>4, <2>5, <2>6 DEF Types
<1>7. \A u \in Threads : KeepsPlace(u)
  <2> SUFFICES ASSUME NEW u \in Threads PROVE KeepsPlace(u)
    OBVIOUS
  <2>1. \A m : Dynamic(m)' = Dynamic(m)
    BY <1>2 DEF Dynamic
  <2>2. CASE u # t
    <3>1. DispIndex(u)' = DispIndex(u)
      BY <1>4, <2>1, <2>2 DEF DispIndex
    <3>2. QED
      BY <1>2, <1>4, <2>2, <3>1 DEF KeepsPlace, Finished
  <2>3. CASE u = t
    <3>1. at[t] \in Nat /\ DispIndex(t) \in Nat
      BY <1>t, FinishedFacts DEF Types
    <3>2. Cardinality(Dynamic(n)) = DispIndex(t) + (IF prog[n].sched = "static" THEN 0 ELSE 1)
      BY <1>1, <3>1, DynamicNext DEF DispIndex
    <3>3. DispIndex(t)' = DispIndex(t) + (IF prog[n].sched = "static" THEN 0 ELSE 1)
      BY <1>4, <2>1, <3>2 DEF DispIndex
    <3>4. Finished(t) = DispIndex(t)
      BY <1>2, <1>5 DEF Finished
    <3>5. Finished(t)' = DispIndex(t)
      BY <1>3, <1>4, <1>5, <3>1, <3>3 DEF Finished
    <3>6. QED
      BY <1>2, <1>3, <1>4, <1>5, <2>3, <3>4, <3>5 DEF KeepsPlace
  <2>4. QED
    BY <2>2, <2>3
<1>8. \A s \in Slots : KeepsBuffer(s)
  BY <1>2 DEF KeepsBuffer
<1>9. QED
  BY <1>2, <1>6, <1>7, <1>8, QuietStep

----------------------------------------------------------------------------
(* A thread that finds the index of its loop in a slot has found the slot of its loop. *)
LEMMA IndexIdentifies ==
    ASSUME IndicesSuffice, Types, NEW G \in [Slots -> Nat], RingInv(G),
           NEW t \in Threads, pc[t] = "wait", buf[Slot(t)].index = MyIndex(t)
    PROVE  Slot(t) \in Slots /\ G[Slot(t)] = Current(t)
<1>1. pc[t] \in Unreported
  BY DEF Unreported
<1>2. PICK c \in Nat : c = Current(t) /\ c = Finished(t) /\ DispIndex(t) = c + 1
  <2>1. DispIndex(t) \in Nat
    BY FinishedFacts
  <2>2. QED
    BY <1>1, <2>1, FinishedFacts DEF Current
<1>3. PICK m \in Nat : m = c % IndexWidth
  BY RingFacts, HasRemainder
<1>4. MyIndex(t) = m
  BY <1>2, <1>3 DEF MyIndex, Current
<1>5. m % NumBuffers = c % NumBuffers
  <2>1. CASE IndexWidth % NumBuffers = 0
    BY <1>3, <2>1, RingFacts, ModOfMod
  <2>2. CASE \A p \in Programs : DOMAIN p \subseteq 1..IndexWidth
    <3>1. at[t] \in Nat /\ at[t] <= IndexWidth
      BY <1>1, <2>2, RingFacts DEF Types
    <3>2. DispIndex(t) <= at[t]
      BY <3>1, DynamicFacts DEF DispIndex
    <3>3. c < IndexWidth
      BY <1>2, <3>1, <3>2, RingFacts
    <3>4. QED
      BY <1>3, <3>3, RingFacts, ModSmall
  <2>3. QED
    BY <2>1, <2>2 DEF IndicesSuffice
<1>6. PICK s \in Slots : s = Slot(t)
  <2>1. PICK r \in Nat : c % NumBuffers = r /\ r < NumBuffers
    BY RingFacts, HasRemainder
  <2>2. r \in Slots /\ r = Slot(t)
    BY <1>4, <1>5, <2>1, RingFacts DEF Slot, Slots
  <2>3. QED
    BY <2>2
<1>7. s = c % NumBuffers
  BY <1>4, <1>5, <1>6 DEF Slot
<1>8. PICK g \in Nat : g = G[s]
  OBVIOUS
<1>9. g % NumBuffers = c % NumBuffers /\ g % IndexWidth = c % IndexWidth
  BY <1>3, <1>4, <1>6, <1>7, <1>8 DEF RingInv, Fits
<1>10. c <= g + NumBuffers /\ g < c + NumBuffers
  BY <1>2, <1>8 DEF RingInv, Window
<1>11. ~(c < g)
  <2> SUFFICES ASSUME c < g PROVE FALSE
    OBVIOUS
  <2>1. c + NumBuffers <= g
    BY <1>9, RingFacts, Apart
  <2>2. QED
    BY <1>10, <2>1, RingFacts
<1>12. ~(g < c)
  <2> SUFFICES ASSUME g < c PROVE FALSE
    OBVIOUS
  <2>1. g + NumBuffers <= c
    BY <1>9, RingFacts, Apart
  <2>2. c = g + NumBuffers
    BY <1>10, <2>1, RingFacts
  <2>3. (g + NumBuffers) % IndexWidth # g % IndexWidth
    BY RingFacts, ModDiffers DEF IndicesSuffice
  <2>4. QED
    BY <1>9, <2>2, <2>3
<1>13. g = c
  BY <1>11, <1>12
<1>14. QED
  BY <1>2, <1>6, <1>8, <1>13

LEMMA AttachStep ==
    ASSUME IndicesSuffice, IInv, NEW t \in Threads, Attach(t)
    PROVE  IInv'
<1>t. Types
  BY DEF IInv
<1>1. PICK G \in [Slots -> Nat] : RingInv(G)
  BY DEF IInv
<1>2. PICK k : k = Slot(t)
  OBVIOUS
<1>3. PICK w \in {"ready", "next"} :
        /\ pc[t] = "wait" /\ pc' = [pc EXCEPT ![t] = w] /\ cur' = [cur EXCEPT ![t] = k]
        /\ UNCHANGED <<prog, at, buf>>
  BY <1>2 DEF Attach, At, Goto
<1>4. k \in Slots /\ G[k] = Current(t)
  BY <1>1, <1>2, <1>3, <1>t, IndexIdentifies DEF Attach
<1>5. /\ w \in Using /\ w \notin Resetting /\ w # "recycle" /\ w \in Unreported
      /\ "wait" \in Unreported /\ "wait" \notin Using /\ "wait" \notin Resetting
      /\ w \notin {"work", "finish"}
  BY DEF Using, Resetting, Unreported
<1>6. Types'
  <2>1. cur' \in [Threads -> Slots \union {NoSlot}]
    BY <1>3, <1>4, <1>t DEF Types
  <2>2. BuffersTyped'
    BY <1>3, <1>t DEF Types, BuffersTyped
  <2>3. QED
    BY <1>3, <1>5, <1>t, <2>1, <2>2, TypesMove
<1>7. /\ pc'[t] = w /\ cur'[t] = k
      /\ \A u \in Threads : u # t => pc'[u] = pc[u] /\ cur'[u] = cur[u]
  BY <1>3, <1>t DEF Types
<1>8. \A m : Dynamic(m)' = Dynamic(m)
  BY <1>3 DEF Dynamic
<1>9. \A u \in Threads : DispIndex(u)' = DispIndex(u) /\ Finished(u)' = Finished(u)
                            /\ Current(u)' = Current(u)
  <2> SUFFICES ASSUME NEW u \in Threads
               PROVE  DispIndex(u)' = DispIndex(u) /\ Finished(u)' = Finished(u)
                      /\ Current(u)' = Current(u)
    OBVIOUS
  <2>1. DispIndex(u)' = DispIndex(u)
    BY <1>3, <1>8 DEF DispIndex
  <2>2. pc'[u] \in Unreported <=> pc[u] \in Unreported
    BY <1>3, <1>5, <1>7
  <2>3. QED
    BY <2>1, <2>2 DEF Finished, Current
<1>10. \A u \in Threads : pc'[u] \in Resetting \/ pc[u] \in Resetting =>
          pc'[u] = pc[u] /\ cur'[u] = cur[u]
  BY <1>3, <1>5, <1>7
<1>11. Fits(G)' /\ Window(G)' /\ NoTurns(G)'
  BY <1>1, <1>3, <1>8, <1>9 DEF RingInv, Fits, Window, NoTurns
<1>12. UsesOwn(G)'
  <2> SUFFICES ASSUME NEW u \in Threads, pc'[u] \in Using \union Resetting
               PROVE  cur'[u] \in Slots /\ G[cur'[u]] = Current(u)'
    BY DEF UsesOwn
  <2>1. CASE u = t
    BY <1>4, <1>7, <1>9, <2>1
  <2>2. CASE u # t
    BY <1>1, <1>7, <1>9, <2>2 DEF RingInv, UsesOwn
  <2>3. QED
    BY <2>1, <2>2
<1>13. AloneAtEnd(G)'
  BY <1>1, <1>9, <1>10 DEF RingInv, AloneAtEnd
<1>14. Counted(G)'
  <2>1. \A s \in Slots : Reported(G, s)' = Reported(G, s)
    BY <1>9 DEF Reported
  <2>2. \A u \in Threads : (pc'[u] = "recycle" <=> pc[u] = "recycle")
                             /\ (pc[u] = "recycle" => cur'[u] = cur[u])
    BY <1>3, <1>5, <1>7
  <2>3. QED
    BY <1>1, <1>3, <2>1, <2>2 DEF RingInv, Counted
<1>15. \A s \in Slots : Untouched(s)' => IsClean(s)'
  <2> SUFFICES ASSUME NEW s \in Slots, Untouched(s)' PROVE IsClean(s)'
    OBVIOUS
  <2>1. \A u \in Threads : pc[u] \in Using \union Resetting => cur[u] # s
    BY <1>3, <1>5, <1>7 DEF Untouched
  <2>2. Untouched(s)
    BY <1>3, <2>1 DEF Untouched
  <2>3. QED
    BY <1>1, <1>3, <2>2 DEF RingInv, IsClean
<1>16. Cleaned'
  BY <1>1, <1>3, <1>5, <1>7 DEF RingInv, Cleaned, IsClean
<1>17. QED
  BY <1>6, <1>11, <1>12, <1>13, <1>14, <1>15, <1>16 DEF IInv, RingInv

----------------------------------------------------------------------------
(* A buffer at the end of its loop. *)
LEMMA AloneFacts ==
    ASSUME Types, NEW G \in [Slots -> Nat], RingInv(G), NEW t \in Threads, pc[t] \in Resetting,
           NEW u \in Threads, u # t, pc[u] \in Using \union Resetting
    PROVE  cur[u] # cur[t]
<1> SUFFICES ASSUME cur[u] = cur[t] PROVE FALSE
  OBVIOUS
<1>1. pc[u] \in Using
  BY DEF RingInv, AloneAtEnd
<1>2. Finished(u) \in Nat /\ Finished(u) = Current(u)
  BY <1>1, FinishedFacts DEF Unreported
<1>3. G[cur[t]] = Current(u) /\ G[cur[t]] < Finished(u)
  BY <1>1 DEF RingInv, UsesOwn, AloneAtEnd
<1>4. QED
  BY <1>2, <1>3

\* A slot is for one loop at a time.
LEMMA SlotOf ==
    ASSUME NEW G \in [Slots -> Nat], Fits(G), NEW r \in Slots, NEW s \in Slots, r # s
    PROVE  G[r] # G[s] /\ G[r] # G[s] + NumBuffers
<1>1. PICK x \in Nat, y \in Nat : x = G[r] /\ y = G[s]
  OBVIOUS
<1>2. x % NumBuffers = r /\ y % NumBuffers = s
  BY <1>1 DEF Fits
<1>3. (y + NumBuffers) % NumBuffers = y % NumBuffers
  BY RingFacts, ModAround
<1>4. x # y /\ x # y + NumBuffers
  BY <1>2, <1>3
<1>5. QED
  BY <1>1, <1>4

LEMMA ThreadsFacts == N \in Nat /\ IsFiniteSet(Threads) /\ Cardinality(Threads) = N
<1>1. N \in Nat /\ N # 0
  BY TeamAssumption DEF TeamAssumption
<1>2. IsFiniteSet(0..(N - 1)) /\ Cardinality(0..(N - 1)) = (N - 1) - 0 + 1
  BY <1>1, FS_Interval
<1>3. (N - 1) - 0 + 1 = N
  BY <1>1
<1>4. Threads = 0..(N - 1)
  BY DEF Threads
<1>5. QED
  BY <1>1, <1>2, <1>3, <1>4

LEMMA DoneStep ==
    ASSUME IInv, NEW t \in Threads, Done(t)
    PROVE  IInv'
<1>t. Types
  BY DEF IInv
<1>1. PICK G \in [Slots -> Nat] : RingInv(G)
  BY DEF IInv
<1>2. PICK c : c = cur[t]
  OBVIOUS
<1>3. PICK w \in {"reset", "detach"} :
        /\ pc[t] = "done" /\ pc' = [pc EXCEPT ![t] = w]
        /\ buf' = [buf EXCEPT ![c].numDone = @ + 1]
        /\ w = "reset" => buf[c].numDone = N - 1
        /\ UNCHANGED <<prog, at, cur>>
  BY <1>2 DEF Done, Shared, At, Goto
<1>4. /\ pc[t] \in Using /\ pc[t] \in Unreported /\ w \notin Unreported /\ w \notin Using
      /\ pc[t] \notin Resetting /\ w # "recycle" /\ pc[t] # "recycle"
      /\ w \in Resetting \union Away /\ w \notin {"work", "finish"} /\ (w \in Resetting => w = "reset")
  BY <1>3 DEF Using, Unreported, Resetting, Away
<1>5. c \in Slots /\ G[c] = Current(t)
  BY <1>1, <1>2, <1>4 DEF RingInv, UsesOwn
<1>6. PICK f \in Nat : f = G[c]
  BY <1>5
<1>7. Finished(t) = f /\ DispIndex(t) = f + 1
  BY <1>4, <1>5, <1>6, <1>t, FinishedFacts DEF Current
<1>8. PICK r : r = [buf[c] EXCEPT !.numDone = buf[c].numDone + 1]
  OBVIOUS
<1>9. /\ buf[c].numDone \in Nat /\ r \in Buffer(r) /\ r.numDone = buf[c].numDone + 1
      /\ r.index = buf[c].index /\ r.iteration = buf[c].iteration /\ r.ordered = buf[c].ordered
  <2>1. buf[c] \in Buffer(buf[c])
    BY <1>5, <1>t DEF Types
  <2>2. QED
    BY <1>8, <2>1 DEF Buffer
<1>10. buf' = [buf EXCEPT ![c] = r]
  BY <1>3, <1>8
<1>11. DOMAIN buf' = Slots /\ buf'[c] = r /\ \A s \in Slots : s # c => buf'[s] = buf[s]
  BY <1>5, <1>10, <1>t DEF Types
<1>12. BuffersTyped'
  BY <1>9, <1>11, <1>t DEF Types, BuffersTyped
<1>13. Types'
  <2>1. cur' \in [Threads -> Slots \union {NoSlot}]
    BY <1>3, <1>t DEF Types
  <2>2. QED
    BY <1>3, <1>4, <1>12, <1>t, <2>1, TypesMove
<1>14. pc'[t] = w /\ \A u \in Threads : u # t => pc'[u] = pc[u]
  BY <1>3, <1>t DEF Types
<1>15. /\ \A m : Dynamic(m)' = Dynamic(m)
       /\ \A u \in Threads : DispIndex(u)' = DispIndex(u) /\ Current(u)' = Current(u)
  BY <1>3 DEF Dynamic, DispIndex, Current
<1>16. Finished(t)' = f + 1 /\ \A u \in Threads : u # t => Finished(u)' = Finished(u)
  BY <1>4, <1>7, <1>14, <1>15 DEF Finished
<1>17. \A u \in Threads : Finished(u) \in Nat
  BY <1>t, FinishedFacts
<1>18. \A u \in Threads : pc[u] \in Resetting => cur[u] # c
  <2> SUFFICES ASSUME NEW u \in Threads, pc[u] \in Resetting PROVE cur[u] # c
    OBVIOUS
  <2>1. u # t
    BY <1>4
  <2>2. QED
    BY <1>1, <1>2, <1>4, <1>t, <2>1, AloneFacts
<1>19. \A s \in Slots : s # c => G[s] # f /\ f # G[s] + NumBuffers
  BY <1>1, <1>5, <1>6, SlotOf DEF RingInv
<1>20. Fits(G)'
  BY <1>1, <1>9, <1>11 DEF RingInv, Fits
<1>21. Window(G)'
  <2> SUFFICES ASSUME NEW s \in Slots, NEW u \in Threads
               PROVE  Finished(u)' <= G[s] + NumBuffers /\ G[s] < Finished(u)' + NumBuffers
    BY DEF Window
  <2>1. Finished(u) <= G[s] + NumBuffers /\ G[s] < Finished(u) + NumBuffers
    BY <1>1 DEF RingInv, Window
  <2>2. CASE u # t
    BY <1>16, <2>1, <2>2
  <2>3. CASE u = t
    <3>1. f <= G[s] + NumBuffers /\ G[s] < f + NumBuffers /\ G[s] \in Nat
      BY <1>7, <2>1, <2>3
    <3>2. f # G[s] + NumBuffers
      BY <1>6, <1>19, <3>1, RingFacts
    <3>3. f + 1 <= G[s] + NumBuffers /\ G[s] < (f + 1) + NumBuffers
      BY <3>1, <3>2, RingFacts
    <3>4. QED
      BY <1>16, <2>3, <3>3
  <2>4. QED
    BY <2>2, <2>3
<1>22. UsesOwn(G)'
  <2> SUFFICES ASSUME NEW u \in Threads, pc'[u] \in Using \union Resetting
               PROVE  cur'[u] \in Slots /\ G[cur'[u]] = Current(u)'
    BY DEF UsesOwn
  <2>1. pc[u] \in Using \union Resetting
    BY <1>4, <1>14
  <2>2. QED
    BY <1>1, <1>3, <1>15, <2>1 DEF RingInv, UsesOwn
<1>23. \A s \in Slots : s # c => Reported(G, s)' = Reported(G, s)
  <2> SUFFICES ASSUME NEW s \in Slots, s # c PROVE Reported(G, s)' = Reported(G, s)
    OBVIOUS
  <2>1. G[s] \in Nat /\ G[s] # f
    BY <1>19
  <2>2. G[s] < f + 1 <=> G[s] < f
    BY <2>1
  <2>3. \A u \in Threads : G[s] < Finished(u)' <=> G[s] < Finished(u)
    BY <1>7, <1>16, <2>2
  <2>4. QED
    BY <2>3 DEF Reported
<1>24. Reported(G, c)' = Reported(G, c) \union {t} /\ t \notin Reported(G, c)
  <2>1. f < f + 1 /\ ~(f < f)
    OBVIOUS
  <2>2. G[c] < Finished(t)' /\ ~(G[c] < Finished(t))
    BY <1>6, <1>7, <1>16, <2>1
  <2>3. \A u \in Threads : u # t => (G[c] < Finished(u)' <=> G[c] < Finished(u))
    BY <1>16
  <2>4. QED
    BY <2>2, <2>3 DEF Reported
<1>25. /\ Cardinality(Reported(G, c)') = Cardinality(Reported(G, c)) + 1
       /\ buf[c].numDone = Cardinality(Reported(G, c))
  <2>1. Reported(G, c) \in SUBSET Threads
    BY DEF Reported
  <2>2. IsFiniteSet(Reported(G, c))
    BY <2>1, ThreadsFacts, FS_Subset
  <2>3. \A u \in Threads : pc[u] = "recycle" => cur[u] # c
    BY <1>18 DEF Resetting
  <2>4. QED
    BY <1>1, <1>5, <1>24, <2>2, <2>3, FS_AddElement DEF RingInv, Counted
<1>26. w = "reset" => \A u \in Threads : G[c] < Finished(u)'
  <2> SUFFICES ASSUME w = "reset" PROVE \A u \in Threads : G[c] < Finished(u)'
    OBVIOUS
  <2>1. PICK R : R = Reported(G, c)'
    OBVIOUS
  <2>2. R \in SUBSET Threads
    BY <2>1 DEF Reported
  <2>3. Cardinality(R) = N
    BY <1>3, <1>25, <2>1, ThreadsFacts
  <2>4. R = Threads
    BY <2>2, <2>3, ThreadsFacts, FS_Subset
  <2>5. QED
    BY <2>1, <2>4 DEF Reported
<1>27. AloneAtEnd(G)'
  <2>1. ASSUME NEW u \in Threads, pc'[u] \in Resetting, NEW v \in Threads
        PROVE  G[cur'[u]] < Finished(v)'
    <3>1. CASE u = t
      BY <1>2, <1>3, <1>4, <1>14, <1>26, <2>1, <3>1
    <3>2. CASE u # t
      <4>1. cur[u] \in Slots /\ G[cur[u]] < Finished(v)
        BY <1>1, <1>14, <2>1, <3>2 DEF RingInv, AloneAtEnd, UsesOwn
      <4>2. Finished(v)' \in Nat /\ Finished(v) <= Finished(v)'
        BY <1>7, <1>16, <1>17
      <4>3. G[cur[u]] < Finished(v)'
        BY <1>17, <4>1, <4>2
      <4>4. QED
        BY <1>3, <4>3
    <3>3. QED
      BY <3>1, <3>2
  <2>2. ASSUME NEW u \in Threads, NEW v \in Threads, pc'[u] \in Resetting, pc'[v] \in Resetting,
               cur'[u] = cur'[v]
        PROVE  u = v
    BY <1>1, <1>2, <1>3, <1>14, <1>18, <2>2 DEF RingInv, AloneAtEnd
  <2>3. QED
    BY <2>1, <2>2 DEF AloneAtEnd
<1>28. Counted(G)'
  <2> SUFFICES ASSUME NEW s \in Slots, \A u \in Threads : pc'[u] = "recycle" => cur'[u] # s
               PROVE  buf'[s].numDone = Cardinality(Reported(G, s)')
    BY DEF Counted
  <2>1. CASE s = c
    BY <1>9, <1>11, <1>25, <2>1
  <2>2. CASE s # c
    <3>1. \A u \in Threads : pc[u] = "recycle" => cur[u] # s
      BY <1>3, <1>4, <1>14
    <3>2. buf[s].numDone = Cardinality(Reported(G, s))
      BY <1>1, <3>1 DEF RingInv, Counted
    <3>3. QED
      BY <1>11, <1>23, <2>2, <3>2
  <2>3. QED
    BY <2>1, <2>2
<1>29. \A s \in Slots : Untouched(s)' => IsClean(s)'
  <2> SUFFICES ASSUME NEW s \in Slots, Untouched(s)' PROVE IsClean(s)'
    OBVIOUS
  <2>1. s # c
    BY <1>9, <1>11 DEF Untouched
  <2>2. \A u \in Threads : pc[u] \in Using \union Resetting => cur[u] # s
    BY <1>2, <1>3, <1>14, <2>1 DEF Untouched
  <2>3. Untouched(s)
    BY <1>11, <2>1, <2>2 DEF Untouched
  <2>4. QED
    BY <1>1, <1>11, <2>1, <2>3 DEF RingInv, IsClean
<1>30. Cleaned'
  <2> SUFFICES ASSUME NEW u \in Threads, pc'[u] = "recycle"
               PROVE  IsClean(cur[u])' /\ buf'[cur'[u]].numDone = 0
    BY DEF Cleaned
  <2>1. pc[u] = "recycle" /\ pc[u] \in Resetting
    BY <1>4, <1>14 DEF Resetting
  <2>2. cur[u] \in Slots /\ cur[u] # c /\ IsClean(cur[u]) /\ buf[cur[u]].numDone = 0
    BY <1>1, <1>18, <2>1 DEF RingInv, Cleaned, UsesOwn
  <2>3. QED
    BY <1>3, <1>11, <2>2 DEF IsClean
<1>31. NoTurns(G)'
  <2>1. \A s \in Slots : buf'[s].ordered = buf[s].ordered
    BY <1>9, <1>11
  <2>2. QED
    BY <1>1, <1>3, <1>15, <2>1 DEF RingInv, NoTurns
<1>32. QED
  BY <1>13, <1>20, <1>21, <1>22, <1>27, <1>28, <1>29, <1>30, <1>31 DEF IInv, RingInv

----------------------------------------------------------------------------
(* The last thread resets the buffer and gives it its next index. *)
LEMMA ResetStep ==
    ASSUME IInv, NEW t \in Threads, Reset(t)
    PROVE  IInv'
<1>t. Types
  BY DEF IInv
<1>1. PICK G \in [Slots -> Nat] : RingInv(G)
  BY DEF IInv
<1>2. PICK c : c = cur[t]
  OBVIOUS
<1>3. PICK turn : turn = IF Ordered(t) THEN 0 ELSE buf[c].ordered
  OBVIOUS
<1>4. /\ pc[t] = "reset" /\ pc' = [pc EXCEPT ![t] = "recycle"]
      /\ UNCHANGED <<prog, at, cur>>
  BY DEF Reset, At, Goto
<1>5. /\ "reset" \in Resetting /\ "recycle" \in Resetting
      /\ "reset" \notin Unreported /\ "recycle" \notin Unreported
  BY DEF Resetting, Unreported, Using
<1>6. c \in Slots /\ G[c] = Current(t)
  BY <1>1, <1>2, <1>4, <1>5 DEF RingInv, UsesOwn
<1>7. PICK r : r = [buf[c] EXCEPT !.numDone = 0, !.iteration = 0, !.ordered = turn]
  OBVIOUS
<1>8. /\ r \in Buffer(r) /\ r.numDone = 0 /\ r.iteration = 0 /\ r.ordered = turn
      /\ r.index = buf[c].index
  <2>1. buf[c] \in Buffer(buf[c])
    BY <1>6, <1>t DEF Types
  <2>2. QED
    BY <1>7, <2>1 DEF Buffer
<1>9. buf' = [buf EXCEPT ![c] = r]
  <2>1. DOMAIN buf = Slots
    BY <1>t DEF Types
  <2>2. buf' = [buf EXCEPT ![c].numDone = 0, ![c].iteration = 0,
                           ![c].ordered = IF Ordered(t) THEN 0 ELSE @]
    BY <1>2 DEF Reset
  <2>3. QED
    BY <1>3, <1>6, <1>7, <2>1, <2>2
<1>10. DOMAIN buf' = Slots /\ buf'[c] = r /\ \A s \in Slots : s # c => buf'[s] = buf[s]
  BY <1>6, <1>9, <1>t DEF Types
<1>11. BuffersTyped'
  BY <1>8, <1>10, <1>t DEF Types, BuffersTyped
<1>12. Types'
  <2>1. cur' \in [Threads -> Slots \union {NoSlot}]
    BY <1>4, <1>t DEF Types
  <2>2. QED
    BY <1>4, <1>5, <1>11, <1>t, <2>1, TypesMove
<1>13. pc'[t] = "recycle" /\ \A u \in Threads : u # t => pc'[u] = pc[u]
  BY <1>4, <1>t DEF Types
<1>14. /\ \A m : Dynamic(m)' = Dynamic(m)
       /\ \A u \in Threads : DispIndex(u)' = DispIndex(u) /\ Current(u)' = Current(u)
  BY <1>4 DEF Dynamic, DispIndex, Current
<1>15. \A u \in Threads : Finished(u)' = Finished(u)
  BY <1>4, <1>5, <1>13, <1>14 DEF Finished
<1>16. \A u \in Threads : u # t /\ pc[u] \in Using \union Resetting => cur[u] # c
  BY <1>1, <1>2, <1>4, <1>5, <1>t, AloneFacts
<1>17. Fits(G)' /\ Window(G)'
  <2>1. \A s \in Slots : buf'[s].index = buf[s].index
    BY <1>8, <1>10
  <2>2. QED
    BY <1>1, <1>15, <2>1 DEF RingInv, Fits, Window
<1>18. UsesOwn(G)'
  BY <1>1, <1>4, <1>5, <1>13, <1>14 DEF RingInv, UsesOwn
<1>19. AloneAtEnd(G)'
  <2>1. \A u \in Threads : pc'[u] \in Resetting => pc[u] \in Resetting
    BY <1>4, <1>5, <1>13
  <2>2. QED
    BY <1>1, <1>4, <1>15, <2>1 DEF RingInv, AloneAtEnd
<1>20. Counted(G)'
  <2> SUFFICES ASSUME NEW s \in Slots, \A u \in Threads : pc'[u] = "recycle" => cur'[u] # s
               PROVE  buf'[s].numDone = Cardinality(Reported(G, s)')
    BY DEF Counted
  <2>1. s # c
    BY <1>2, <1>4, <1>13
  <2>2. \A u \in Threads : pc[u] = "recycle" => cur[u] # s
    BY <1>4, <1>13
  <2>3. Reported(G, s)' = Reported(G, s)
    BY <1>15 DEF Reported
  <2>4. buf[s].numDone = Cardinality(Reported(G, s))
    BY <1>1, <2>2 DEF RingInv, Counted
  <2>5. QED
    BY <1>10, <2>1, <2>3, <2>4
<1>21. \A s \in Slots : Untouched(s)' => IsClean(s)'
  <2> SUFFICES ASSUME NEW s \in Slots, Untouched(s)' PROVE IsClean(s)'
    OBVIOUS
  <2>1. s # c
    BY <1>2, <1>4, <1>5, <1>13 DEF Untouched
  <2>2. \A u \in Threads : pc[u] \in Using \union Resetting => cur[u] # s
    BY <1>2, <1>4, <1>13, <2>1 DEF Untouched
  <2>3. Untouched(s)
    BY <1>10, <2>1, <2>2 DEF Untouched
  <2>4. QED
    BY <1>1, <1>10, <2>1, <2>3 DEF RingInv, IsClean
<1>22. ~Ordered(t) => buf[c].ordered = 0
  <2> SUFFICES ASSUME ~Ordered(t) PROVE buf[c].ordered = 0
    OBVIOUS
  <2>1. at[t] \in Nat /\ prog[at[t]].sched # "static"
    BY <1>4, <1>5, <1>t DEF Types, Loop
  <2>2. Cardinality(Dynamic(at[t])) = G[c] + 1
    <3>1. DispIndex(t) \in Nat
      BY <1>t, FinishedFacts
    <3>2. QED
      BY <1>6, <3>1 DEF Current, DispIndex
  <2>3. prog[at[t]].ordered = "no"
    BY DEF Ordered, Loop
  <2>4. QED
    BY <1>1, <1>6, <2>1, <2>2, <2>3 DEF RingInv, NoTurns
<1>23. turn = 0
  BY <1>3, <1>22
<1>24. Cleaned'
  <2> SUFFICES ASSUME NEW u \in Threads, pc'[u] = "recycle"
               PROVE  IsClean(cur[u])' /\ buf'[cur'[u]].numDone = 0
    BY DEF Cleaned
  <2>1. CASE u = t
    BY <1>2, <1>4, <1>8, <1>10, <1>23, <2>1 DEF IsClean
  <2>2. CASE u # t
    <3>1. pc[u] = "recycle"
      BY <1>13, <2>2
    <3>2. cur[u] \in Slots /\ cur[u] # c /\ IsClean(cur[u]) /\ buf[cur[u]].numDone = 0
      BY <1>1, <1>5, <1>16, <2>2, <3>1 DEF RingInv, Cleaned, UsesOwn
    <3>3. QED
      BY <1>4, <1>10, <3>2 DEF IsClean
  <2>3. QED
    BY <2>1, <2>2
<1>25. NoTurns(G)'
  <2>1. \A s \in Slots : buf'[s].ordered = buf[s].ordered \/ buf'[s].ordered = 0
    BY <1>8, <1>10, <1>23
  <2>2. QED
    BY <1>1, <1>4, <1>14, <2>1 DEF RingInv, NoTurns
<1>26. QED
  BY <1>12, <1>17, <1>18, <1>19, <1>20, <1>21, <1>24, <1>25 DEF IInv, RingInv

LEMMA RecycleStep ==
    ASSUME IInv, NEW t \in Threads, Recycle(t)
    PROVE  IInv'
<1>t. Types
  BY DEF IInv
<1>1. PICK G \in [Slots -> Nat] : RingInv(G)
  BY DEF IInv
<1>2. PICK c : c = cur[t]
  OBVIOUS
<1>3. /\ pc[t] = "recycle" /\ pc' = [pc EXCEPT ![t] = "detach"]
      /\ buf' = [buf EXCEPT ![c].index = (@ + NumBuffers) % IndexWidth]
      /\ UNCHANGED <<prog, at, cur>>
  BY <1>2 DEF Recycle, At, Goto
<1>4. /\ "recycle" \in Resetting /\ "detach" \in Away
      /\ "detach" \notin Resetting \union Using /\ "detach" \notin Unreported
      /\ "recycle" \notin Unreported
  BY DEF Resetting, Unreported, Using, Away
<1>5. c \in Slots /\ G[c] = Current(t)
  BY <1>1, <1>2, <1>3, <1>4 DEF RingInv, UsesOwn
<1>6. PICK f \in Nat : f = G[c]
  BY <1>5
<1>7. PICK x \in Nat : x = (f + NumBuffers) % IndexWidth
  <2>1. f + NumBuffers \in Nat
    BY RingFacts
  <2>2. QED
    BY <2>1, RingFacts, HasRemainder
<1>8. (buf[c].index + NumBuffers) % IndexWidth = x
  <2>1. buf[c].index = f % IndexWidth
    BY <1>1, <1>5, <1>6 DEF RingInv, Fits
  <2>2. ((f % IndexWidth) + NumBuffers) % IndexWidth = (f + NumBuffers) % IndexWidth
    BY RingFacts, ModShift
  <2>3. QED
    BY <1>7, <2>1, <2>2
<1>9. PICK r : r = [buf[c] EXCEPT !.index = x]
  OBVIOUS
<1>10. /\ r \in Buffer(r) /\ r.numDone = buf[c].numDone /\ r.iteration = buf[c].iteration
       /\ r.ordered = buf[c].ordered /\ r.index = x
  <2>1. buf[c] \in Buffer(buf[c])
    BY <1>5, <1>t DEF Types
  <2>2. QED
    BY <1>9, <2>1 DEF Buffer
<1>11. buf' = [buf EXCEPT ![c] = r]
  BY <1>3, <1>8, <1>9
<1>12. DOMAIN buf' = Slots /\ buf'[c] = r /\ \A s \in Slots : s # c => buf'[s] = buf[s]
  BY <1>5, <1>11, <1>t DEF Types
<1>13. BuffersTyped'
  BY <1>10, <1>12, <1>t DEF Types, BuffersTyped
<1>14. Types'
  <2>1. cur' \in [Threads -> Slots \union {NoSlot}]
    BY <1>3, <1>t DEF Types
  <2>2. "detach" \notin {"work", "finish"}
    OBVIOUS
  <2>3. QED
    BY <1>3, <1>4, <1>13, <1>t, <2>1, <2>2, TypesMove
<1>15. pc'[t] = "detach" /\ \A u \in Threads : u # t => pc'[u] = pc[u]
  BY <1>3, <1>t DEF Types
<1>16. /\ \A m : Dynamic(m)' = Dynamic(m)
       /\ \A u \in Threads : DispIndex(u)' = DispIndex(u) /\ Current(u)' = Current(u)
  BY <1>3 DEF Dynamic, DispIndex, Current
<1>17. \A u \in Threads : Finished(u)' = Finished(u) /\ Finished(u) \in Nat
  BY <1>3, <1>4, <1>15, <1>16, <1>t, FinishedFacts DEF Finished
<1>18. \A u \in Threads : u # t /\ pc[u] \in Using \union Resetting => cur[u] # c
  BY <1>1, <1>2, <1>3, <1>4, <1>t, AloneFacts
<1>19. \A u \in Threads : f < Finished(u) /\ Finished(u) <= f + NumBuffers
  BY <1>1, <1>2, <1>3, <1>4, <1>5, <1>6 DEF RingInv, AloneAtEnd, Window
<1>20. \A u \in Threads : pc'[u] \in Using \union Resetting =>
          u # t /\ pc[u] = pc'[u] /\ cur'[u] = cur[u] /\ cur[u] # c
  BY <1>3, <1>4, <1>15, <1>18
<1>21. PICK F : F = [G EXCEPT ![c] = f + NumBuffers]
  OBVIOUS
<1>22. F \in [Slots -> Nat] /\ F[c] = f + NumBuffers /\ \A s \in Slots : s # c => F[s] = G[s]
  BY <1>5, <1>21, RingFacts
<1>23. Fits(F)'
  <2> SUFFICES ASSUME NEW s \in Slots
               PROVE  F[s] % NumBuffers = s /\ buf'[s].index = F[s] % IndexWidth
    BY DEF Fits
  <2>1. CASE s = c
    <3>1. (f + NumBuffers) % NumBuffers = f % NumBuffers
      BY RingFacts, ModAround
    <3>2. f % NumBuffers = c
      BY <1>1, <1>5, <1>6 DEF RingInv, Fits
    <3>3. QED
      BY <1>7, <1>10, <1>12, <1>22, <2>1, <3>1, <3>2
  <2>2. CASE s # c
    BY <1>1, <1>12, <1>22, <2>2 DEF RingInv, Fits
  <2>3. QED
    BY <2>1, <2>2
<1>24. Window(F)'
  <2> SUFFICES ASSUME NEW s \in Slots, NEW u \in Threads
               PROVE  Finished(u)' <= F[s] + NumBuffers /\ F[s] < Finished(u)' + NumBuffers
    BY DEF Window
  <2>1. CASE s = c
    BY <1>17, <1>19, <1>22, <2>1, RingFacts
  <2>2. CASE s # c
    BY <1>1, <1>17, <1>22, <2>2 DEF RingInv, Window
  <2>3. QED
    BY <2>1, <2>2
<1>25. UsesOwn(F)'
  <2> SUFFICES ASSUME NEW u \in Threads, pc'[u] \in Using \union Resetting
               PROVE  cur'[u] \in Slots /\ F[cur'[u]] = Current(u)'
    BY DEF UsesOwn
  <2>1. cur[u] \in Slots /\ G[cur[u]] = Current(u)
    BY <1>1, <1>20 DEF RingInv, UsesOwn
  <2>2. QED
    BY <1>16, <1>20, <1>22, <2>1
<1>26. AloneAtEnd(F)'
  <2>1. ASSUME NEW u \in Threads, pc'[u] \in Resetting, NEW v \in Threads
        PROVE  F[cur'[u]] < Finished(v)'
    <3>1. cur[u] \in Slots /\ G[cur[u]] < Finished(v)
      BY <1>1, <1>20, <2>1 DEF RingInv, AloneAtEnd, UsesOwn
    <3>2. QED
      BY <1>17, <1>20, <1>22, <2>1, <3>1
  <2>2. ASSUME NEW u \in Threads, NEW v \in Threads, pc'[u] \in Resetting, pc'[v] \in Resetting,
               cur'[u] = cur'[v]
        PROVE  u = v
    BY <1>1, <1>20, <2>2 DEF RingInv, AloneAtEnd
  <2>3. QED
    BY <2>1, <2>2 DEF AloneAtEnd
<1>27. IsClean(c) /\ buf[c].numDone = 0
  BY <1>1, <1>2, <1>3 DEF RingInv, Cleaned
<1>28. Counted(F)'
  <2> SUFFICES ASSUME NEW s \in Slots, \A u \in Threads : pc'[u] = "recycle" => cur'[u] # s
               PROVE  buf'[s].numDone = Cardinality(Reported(F, s)')
    BY DEF Counted
  <2>1. CASE s = c
    <3>1. \A u \in Threads : ~(F[s] < Finished(u)')
      BY <1>17, <1>19, <1>22, <2>1, RingFacts
    <3>2. Reported(F, s)' = {}
      BY <3>1 DEF Reported
    <3>3. Cardinality({}) = 0
      BY FS_EmptySet
    <3>4. QED
      BY <1>10, <1>12, <1>27, <2>1, <3>2, <3>3
  <2>2. CASE s # c
    <3>1. \A u \in Threads : pc[u] = "recycle" => cur[u] # s
      BY <1>2, <1>3, <1>15, <2>2
    <3>2. buf[s].numDone = Cardinality(Reported(G, s))
      BY <1>1, <3>1 DEF RingInv, Counted
    <3>3. Reported(F, s)' = Reported(G, s)
      BY <1>17, <1>22, <2>2 DEF Reported
    <3>4. QED
      BY <1>12, <2>2, <3>2, <3>3
  <2>3. QED
    BY <2>1, <2>2
<1>29. \A s \in Slots : Untouched(s)' => IsClean(s)'
  <2> SUFFICES ASSUME NEW s \in Slots, Untouched(s)' PROVE IsClean(s)'
    OBVIOUS
  <2>1. CASE s = c
    BY <1>10, <1>12, <1>27, <2>1 DEF IsClean
  <2>2. CASE s # c
    <3>1. \A u \in Threads : pc[u] \in Using \union Resetting => cur[u] # s
      BY <1>2, <1>3, <1>15, <2>2 DEF Untouched
    <3>2. Untouched(s)
      BY <1>12, <2>2, <3>1 DEF Untouched
    <3>3. QED
      BY <1>1, <1>12, <2>2, <3>2 DEF RingInv, IsClean
  <2>3. QED
    BY <2>1, <2>2
<1>30. Cleaned'
  <2> SUFFICES ASSUME NEW u \in Threads, pc'[u] = "recycle"
               PROVE  IsClean(cur[u])' /\ buf'[cur'[u]].numDone = 0
    BY DEF Cleaned
  <2>1. pc[u] = "recycle" /\ cur'[u] = cur[u] /\ cur[u] # c
    BY <1>4, <1>20
  <2>2. cur[u] \in Slots /\ IsClean(cur[u]) /\ buf[cur[u]].numDone = 0
    BY <1>1, <1>4, <2>1 DEF RingInv, Cleaned, UsesOwn
  <2>3. QED
    BY <1>12, <2>1, <2>2 DEF IsClean
<1>31. NoTurns(F)'
  <2> SUFFICES ASSUME NEW s \in Slots, NEW n \in Nat, prog[n].sched # "static",
                      Cardinality(Dynamic(n)) = F[s] + 1, prog[n].ordered = "no"
               PROVE  buf'[s].ordered = 0
    BY <1>3, <1>14, <1>16 DEF NoTurns
  <2>1. CASE s = c
    BY <1>10, <1>12, <1>27, <2>1 DEF IsClean
  <2>2. CASE s # c
    BY <1>1, <1>12, <1>22, <2>2 DEF RingInv, NoTurns
  <2>3. QED
    BY <2>1, <2>2
<1>32. RingInv(F)'
  BY <1>23, <1>24, <1>25, <1>26, <1>28, <1>29, <1>30, <1>31 DEF RingInv
<1>33. QED
  BY <1>14, <1>22, <1>32 DEF IInv

----------------------------------------------------------------------------
LEMMA InitIInv ==
    ASSUME IndicesSuffice, Init
    PROVE  IInv
<1>1. /\ prog \in Programs /\ at = [t \in Threads |-> 0] /\ pc = [t \in Threads |-> "out"]
      /\ cur = [t \in Threads |-> NoSlot]
      /\ buf = [s \in Slots |-> [iteration |-> 0, numDone |-> 0, ordered |-> 0, index |-> s]]
  BY DEF Init
<1>2. "out" \in Away /\ "out" \notin Unreported \union Resetting \union Using /\ "out" # "recycle"
  BY DEF Away, Unreported, Resetting, Using
<1>3. \A s \in Slots : s \in Nat /\ s < NumBuffers /\ s < IndexWidth
  BY RingFacts DEF Slots, IndicesSuffice
<1>4. Types
  <2>1. \A s \in Slots : buf[s] \in Buffer(buf[s])
    BY <1>1, RingFacts DEF Buffer, Slots
  <2>2. QED
    BY <1>1, <1>2, <2>1 DEF Types
<1>5. \A t \in Threads : Finished(t) = 0
  <2>1. Dynamic(0) = {}
    BY DEF Dynamic
  <2>2. Cardinality(Dynamic(0)) = 0
    BY <2>1, FS_EmptySet
  <2>3. QED
    BY <1>1, <1>2, <2>2 DEF Finished, DispIndex
<1>6. PICK G : G = [s \in Slots |-> s]
  OBVIOUS
<1>7. G \in [Slots -> Nat] /\ \A s \in Slots : G[s] = s
  BY <1>3, <1>6
<1>8. Fits(G)
  <2>1. \A s \in Slots : s % NumBuffers = s /\ s % IndexWidth = s
    BY <1>3, RingFacts, ModSmall
  <2>2. QED
    BY <1>1, <1>7, <2>1 DEF Fits
<1>9. Window(G)
  BY <1>3, <1>5, <1>7, RingFacts DEF Window
<1>10. \A t \in Threads : pc[t] \notin Using \union Resetting /\ pc[t] # "recycle"
  BY <1>1, <1>2
<1>11. UsesOwn(G) /\ AloneAtEnd(G) /\ Cleaned
  BY <1>10 DEF UsesOwn, AloneAtEnd, Cleaned
<1>12. Counted(G)
  <2>1. \A s \in Slots : Reported(G, s) = {}
    BY <1>3, <1>5, <1>7 DEF Reported
  <2>2. Cardinality({}) = 0
    BY FS_EmptySet
  <2>3. QED
    BY <1>1, <2>1, <2>2 DEF Counted
<1>13. (\A s \in Slots : Untouched(s) => IsClean(s)) /\ NoTurns(G)
  BY <1>1 DEF IsClean, NoTurns
<1>14. RingInv(G)
  BY <1>8, <1>9, <1>11, <1>12, <1>13 DEF RingInv
<1>15. QED
  BY <1>4, <1>7, <1>14 DEF IInv

LEMMA StepIInv ==
    ASSUME IndicesSuffice, IInv, [Next]_vars
    PROVE  IInv'
<1>1. CASE UNCHANGED vars
  BY <1>1, StillStep DEF vars
<1>2. ASSUME NEW t \in Threads, Step(t) PROVE IInv'
  <2>1. CASE Turn(t)
    BY <2>1, StillStep DEF Turn
  <2>2. CASE ~Turn(t)
    BY <1>2, <2>2, EnterStep, AttachStep, LoopStep, OutsideStep, DoneStep, ResetStep, RecycleStep
       DEF Step
  <2>3. QED
    BY <2>1, <2>2
<1>3. QED
  BY <1>1, <1>2 DEF Next

\* What the invariant says of the ring.
LEMMA InvApart ==
    ASSUME IInv
    PROVE  BuffersApart
<1>t. Types
  BY DEF IInv
<1>1. PICK G \in [Slots -> Nat] : RingInv(G)
  BY DEF IInv
<1>2. \A t \in Threads : Attached(t) <=> pc[t] \in Using \union Resetting
  <2>1. \A t \in Threads : pc[t] \in Unreported \union Resetting \union Away
    BY <1>t DEF Types
  <2>2. QED
    BY <2>1 DEF Attached, Places, Using, Resetting, Unreported, Away
<1>3. \A t \in Threads : Attached(t) => buf[cur[t]].index = MyIndex(t)
  <2> SUFFICES ASSUME NEW t \in Threads, Attached(t) PROVE buf[cur[t]].index = MyIndex(t)
    OBVIOUS
  <2>1. cur[t] \in Slots /\ G[cur[t]] = Current(t)
    BY <1>1, <1>2 DEF RingInv, UsesOwn
  <2>2. buf[cur[t]].index = Current(t) % IndexWidth
    BY <1>1, <2>1 DEF RingInv, Fits
  <2>3. QED
    BY <2>2 DEF MyIndex, Current
<1>4. \A s \in Slots : (\A t \in Threads : ~Attached(t) \/ cur[t] # s) =>
         buf[s].numDone > 0 \/ (buf[s].iteration = 0 /\ buf[s].ordered = 0)
  <2> SUFFICES ASSUME NEW s \in Slots, \A t \in Threads : ~Attached(t) \/ cur[t] # s, ~(buf[s].numDone > 0)
               PROVE  buf[s].iteration = 0 /\ buf[s].ordered = 0
    OBVIOUS
  <2>1. buf[s].numDone \in Nat
    BY <1>t DEF Types, Buffer
  <2>2. Untouched(s)
    BY <1>2, <2>1 DEF Untouched
  <2>3. QED
    BY <1>1, <2>2 DEF RingInv, IsClean
<1>5. QED
  BY <1>3, <1>4 DEF BuffersApart

\* Two loops never share a buffer of the ring: a buffer that a thread uses bears the index of
\* his loop until he reports that he is done, and a buffer that nobody uses is as clean as a new
\* one, for every team, every ring and every sequence of loops, whoever skips its barriers.
THEOREM RingKeepsLoopsApart ==
    ASSUME IndicesSuffice
    PROVE  Spec => []BuffersApart
<1>1. Init => IInv
  BY InitIInv
<1>2. IInv /\ [Next]_vars => IInv'
  BY StepIInv
<1>3. IInv => BuffersApart
  BY InvApart
<1>4. QED
  BY <1>1, <1>2, <1>3, PTL DEF Spec
=============================================================================
