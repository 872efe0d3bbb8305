---------------------------- MODULE TaskTeamProofs ----------------------------
(***************************************************************************)
(* A barrier with explicit tasks opens only when all of them are done, for any *)
(* team, any tree that gathers it, any deques and any number of tasks.         *)
(*   The argument: who has a task is past every open barrier and has not       *)
(* counted itself out (Apart, Searches), so when the count of the current task *)
(* team is zero (Counts), or no task was ever found (Idle), nobody has one;    *)
(* and a task that is not done is with exactly one thread (Located).           *)
(***************************************************************************)
EXTENDS TaskTeam, SequenceTheorems, FiniteSetTheorems, TLAPS

(* The barriers that have opened, and the task team of the threads that have left them all. *)
Opened == IF pc[Master] = "release" THEN round[Master] + 1 ELSE round[Master]
Cur == IF pc[Master] = "release" THEN 1 - state[Master] ELSE state[Master]
Current(t) == round[t] = Opened

TypeInv ==
    /\ TypeOK
    /\ deque \in [0..1 -> [Threads -> Seq(Tasks)]] /\ stack \in [Threads -> Seq(Tasks)]
    /\ created \in 0..MaxTasks /\ creator \in [Tasks -> Threads \union {Nobody}]
    /\ runs \in [Tasks -> 0..1]

(* Every thread is past all open barriers or about to leave the last one. *)
Phases == \A t \in Threads :
    /\ Current(t) \/ (round[t] + 1 = Opened /\ pc[t] \in {"final", "release"})
    /\ pc[t] = "release" => ~Current(t)
    /\ pc[t] # "region" => round[t] < MaxRounds
    /\ pc[t] # IF t = Master THEN "final" ELSE "drain"
    /\ state[t] = IF Current(t) THEN Cur ELSE 1 - Cur

(* A thread has arrived only after everybody it gathers. *)
Arrivals == \A t \in Workers :
    /\ arrived[t] = IF pc[t] \in {"final", "release"} THEN round[t] + 1 ELSE round[t]
    /\ \A u \in Gathers[t] : arrived[t] <= arrived[u]
    /\ go[t] => pc[t] = "final" /\ ~Current(t)

(* The task team that is not in use is inactive or as new. *)
Teams ==
    /\ taskTeam[Cur].active
    /\ taskTeam[1 - Cur].active => taskTeam[1 - Cur] = Fresh
    /\ pc[Master] \in {"gather", "drain"} => taskTeam[1 - Cur].active
    /\ \A t \in Threads : teamOf[t] = state[t] \/ (teamOf[t] = None /\ ~Current(t))

(* Tasks are in the deques of the current task team, and with current threads. *)
Empty(t) == stack[t] = <<>> /\ fresh[t] = NoTask /\ deque[Cur][t] = <<>>
Apart == \A t \in Threads :
    /\ deque[1 - Cur][t] = <<>>
    /\ ~Current(t) => Empty(t)

(* Where a thread can be in its wait, and who may have counted himself out. *)
Searches == \A t \in Threads :
    /\ mode[t] \in {"own", "steal"} => teamOf[t] # None
    /\ pc[t] = "release" => mode[t] = "loop"
    /\ pc[t] = "gather" => ~finished[t]
    /\ stack[t] # <<>> /\ pc[t] # "region" => ~finished[t]
    /\ fresh[t] # NoTask => Running(t)
    /\ Waiting(t) /\ mode[t] \in {"steal", "count"} => deque[Cur][t] = <<>>
    /\ ~Current(t) /\ pc[t] = "final" => mode[t] = "loop" \/ finished[t]
    /\ Final(t) /\ finished[t] => Empty(t)

Out == {t \in Threads : Final(t) /\ finished[t] /\ Current(t)}
Counts == taskTeam[Cur].unfinished = N - Cardinality(Out)

(* Until the first task is created nobody searches. *)
Idle == ~taskTeam[Cur].found => \A t \in Threads : Current(t) =>
    mode[t] = "loop" /\ Empty(t) /\ ~(Final(t) /\ finished[t])

(* incomplete counts the children that have not been executed. *)
ChildrenOf(t) == {x \in 1..created : creator[x] = t /\ runs[x] = 0}
Children == \A t \in Threads : incomplete[t] = Cardinality(ChildrenOf(t))

(* A task that has been created and not executed is in one place, any other in none. *)
Once(H, K) == \A k, l \in K : \A i \in 1..Len(H[k]), j \in 1..Len(H[l]) :
    H[k][i] = H[l][j] => k = l /\ i = j
Has(H, K, x) == \E k \in K : \E i \in 1..Len(H[k]) : H[k][i] = x
Kinds == {"fresh", "deque", "stack"}
Keys == Threads \X Kinds
Queue(t, kind) ==
    CASE kind = "deque" -> deque[Cur][t]
      [] kind = "stack" -> stack[t]
      [] kind = "fresh" -> IF fresh[t] = NoTask THEN <<>> ELSE <<fresh[t]>>
Held == [k \in Keys |-> Queue(k[1], k[2])]
Located ==
    /\ Once(Held, Keys)
    /\ \A x \in Tasks : Has(Held, Keys, x) <=> x <= created /\ runs[x] = 0
    /\ \A x \in Tasks : runs[x] = 1 => x <= created

IInv ==
    /\ TypeInv /\ Phases /\ Arrivals /\ Teams /\ Apart /\ Searches /\ Counts /\ Idle
    /\ Children /\ Located
----------------------------------------------------------------------------
(* Moving an element from one of several sequences to another. *)

\* H and G agree but that element p of H[a] is gone.
Without(H, G, a, p) ==
    /\ p \in 1..Len(H[a]) /\ Len(H[a]) = Len(G[a]) + 1
    /\ \A i \in 1..Len(G[a]) : G[a][i] = H[a][IF i < p THEN i ELSE i + 1]

LEMMA MoveOne ==
    ASSUME NEW S, NEW K, NEW H \in [K -> Seq(S)], NEW G \in [K -> Seq(S)], NEW a \in K, NEW b \in K,
           a # b, NEW p, Without(H, G, a, p), G[b] = Append(H[b], H[a][p]),
           \A k \in K \ {a, b} : G[k] = H[k], Once(H, K)
    PROVE  Once(G, K) /\ \A x : Has(G, K, x) <=> Has(H, K, x)
<1> DEFINE Key(k, i) == IF k = b /\ i = Len(G[b]) THEN a ELSE k
           Pos(k, i) == IF k = b /\ i = Len(G[b]) THEN p
                        ELSE IF k = a /\ i >= p THEN i + 1 ELSE i
<1>1. \A k \in K : Len(H[k]) \in Nat /\ Len(G[k]) \in Nat  OBVIOUS
<1>2. Len(G[b]) = Len(H[b]) + 1 /\ G[b][Len(G[b])] = H[a][p]
      /\ \A i \in 1..Len(H[b]) : G[b][i] = H[b][i]
  OBVIOUS
<1>3. ASSUME NEW k \in K, NEW i \in 1..Len(G[k])
      PROVE  Key(k, i) \in K /\ Pos(k, i) \in 1..Len(H[Key(k, i)]) /\ G[k][i] = H[Key(k, i)][Pos(k, i)]
  <2>1. CASE k = b /\ i = Len(G[b])  BY <1>2, <2>1 DEF Without
  <2>2. CASE k = b /\ i # Len(G[b])
    <3>1. Key(k, i) = b /\ Pos(k, i) = i  BY <2>2
    <3>2. i \in 1..Len(H[b])  BY <1>1, <1>2, <2>2
    <3> QED  BY <1>2, <2>2, <3>1, <3>2
  <2>3. CASE k = a  BY <1>1, <2>3 DEF Without
  <2>4. CASE k # a /\ k # b  BY <2>4
  <2> QED  BY <2>1, <2>2, <2>3, <2>4
<1>4. ASSUME NEW k \in K, NEW i \in 1..Len(G[k]), NEW l \in K, NEW j \in 1..Len(G[l]),
             Key(k, i) = Key(l, j), Pos(k, i) = Pos(l, j)
      PROVE  k = l /\ i = j
  <2>1. i \in Nat /\ j \in Nat /\ p \in Nat  BY <1>1 DEF Without
  <2> QED  BY <1>4, <2>1
<1>5. Once(G, K)
  <2> SUFFICES ASSUME NEW k \in K, NEW l \in K, NEW i \in 1..Len(G[k]), NEW j \in 1..Len(G[l]),
                      G[k][i] = G[l][j]
               PROVE  k = l /\ i = j
    BY DEF Once
  <2> HIDE DEF Key, Pos
  <2>1. PICK m, q : m \in K /\ m = Key(k, i) /\ q = Pos(k, i) /\ q \in 1..Len(H[m]) /\ G[k][i] = H[m][q]
    BY <1>3
  <2>2. PICK n, r : n \in K /\ n = Key(l, j) /\ r = Pos(l, j) /\ r \in 1..Len(H[n]) /\ G[l][j] = H[n][r]
    BY <1>3
  <2>3. H[m][q] = H[n][r]  BY <2>1, <2>2
  <2>4. m \in K /\ n \in K /\ q \in 1..Len(H[m]) /\ r \in 1..Len(H[n])  BY <2>1, <2>2
  <2>5. m = n /\ q = r  BY ONLY <2>3, <2>4, Once(H, K) DEF Once
  <2>6. Key(k, i) = Key(l, j) /\ Pos(k, i) = Pos(l, j)  BY <2>1, <2>2, <2>5
  <2> QED  BY <1>4, <2>6
<1>6. ASSUME NEW x, Has(G, K, x) PROVE Has(H, K, x)
  <2> HIDE DEF Key, Pos
  <2>1. PICK k \in K : \E i \in 1..Len(G[k]) : G[k][i] = x  BY <1>6 DEF Has
  <2>2. PICK i \in 1..Len(G[k]) : G[k][i] = x  BY <2>1
  <2>3. Key(k, i) \in K /\ Pos(k, i) \in 1..Len(H[Key(k, i)]) /\ G[k][i] = H[Key(k, i)][Pos(k, i)]
    BY <1>3
  <2> QED  BY <2>2, <2>3 DEF Has
<1>7. ASSUME NEW x, Has(H, K, x) PROVE Has(G, K, x)
  <2>1a. PICK k \in K : \E i \in 1..Len(H[k]) : H[k][i] = x  BY <1>7 DEF Has
  <2>1. PICK i \in 1..Len(H[k]) : H[k][i] = x  BY <2>1a
  <2>2. CASE k = a /\ i = p  BY <1>1, <1>2, <2>1, <2>2 DEF Has
  <2>3. CASE k = a /\ i < p
    <3>1. i \in 1..Len(G[a]) /\ G[a][i] = x  BY <1>1, <2>1, <2>3 DEF Without
    <3> QED  BY <3>1 DEF Has
  <2>4. CASE k = a /\ i > p
    <3>1. i \in Nat /\ p \in Nat /\ i - 1 \in 1..Len(G[a]) /\ ~(i - 1 < p) /\ (i - 1) + 1 = i
      BY <1>1, <2>1, <2>4 DEF Without
    <3>2. G[a][i - 1] = H[a][(i - 1) + 1]  BY <3>1 DEF Without
    <3> QED  BY <2>1, <2>4, <3>1, <3>2 DEF Has
  <2>5. CASE k = b
    <3>1. i \in 1..Len(G[b]) /\ G[b][i] = x  BY <1>1, <1>2, <2>1, <2>5
    <3> QED  BY <3>1 DEF Has
  <2>6. CASE k # a /\ k # b  BY <2>1, <2>6 DEF Has
  <2>7. i \in Nat /\ p \in Nat  BY <1>1, <2>1 DEF Without
  <2> QED  BY <2>2, <2>3, <2>4, <2>5, <2>6, <2>7
<1> QED  BY <1>5, <1>6, <1>7

LEMMA AddOne ==
    ASSUME NEW S, NEW K, NEW H \in [K -> Seq(S)], NEW G \in [K -> Seq(S)], NEW b \in K, NEW e \in S,
           H[b] = <<>>, G[b] = <<e>>, \A k \in K \ {b} : G[k] = H[k], Once(H, K), ~Has(H, K, e)
    PROVE  Once(G, K) /\ \A x : Has(G, K, x) <=> Has(H, K, x) \/ x = e
<1>1. Len(H[b]) = 0 /\ Len(G[b]) = 1 /\ G[b][1] = e  OBVIOUS
<1>2. \A k \in K : Len(H[k]) \in Nat /\ Len(G[k]) \in Nat  OBVIOUS
<1>3. ASSUME NEW k \in K, NEW i \in 1..Len(G[k])
      PROVE  (k = b /\ i = 1 /\ G[k][i] = e) \/ (k # b /\ i \in 1..Len(H[k]) /\ G[k][i] = H[k][i] /\ H[k][i] # e)
  <2>1. CASE k = b
    <3>1. i \in 1..1 /\ G[k][1] = e  BY <1>1, <2>1, Zenon
    <3> QED  BY <2>1, <3>1
  <2>2. CASE k # b
    <3>1. G[k] = H[k] /\ i \in 1..Len(H[k])  BY <2>2
    <3> QED  BY <2>2, <3>1 DEF Has
  <2> QED  BY <2>1, <2>2
<1>4. Once(G, K)
  <2> SUFFICES ASSUME NEW k \in K, NEW l \in K, NEW i \in 1..Len(G[k]), NEW j \in 1..Len(G[l]),
                      G[k][i] = G[l][j]
               PROVE  k = l /\ i = j
    BY DEF Once
  <2>1. (k = b /\ i = 1 /\ G[k][i] = e) \/ (k # b /\ i \in 1..Len(H[k]) /\ G[k][i] = H[k][i] /\ H[k][i] # e)
    BY <1>3
  <2>2. (l = b /\ j = 1 /\ G[l][j] = e) \/ (l # b /\ j \in 1..Len(H[l]) /\ G[l][j] = H[l][j] /\ H[l][j] # e)
    BY <1>3
  <2> QED  BY <2>1, <2>2 DEF Once
<1>5. ASSUME NEW x PROVE Has(G, K, x) => Has(H, K, x) \/ x = e
  BY <1>3 DEF Has
<1>6. ASSUME NEW x, Has(H, K, x) PROVE Has(G, K, x)
  <2>1a. PICK k \in K : \E i \in 1..Len(H[k]) : H[k][i] = x  BY <1>6 DEF Has
  <2>1. PICK i \in 1..Len(H[k]) : H[k][i] = x  BY <2>1a
  <2>2. k # b  BY <1>1, <2>1
  <2> QED  BY <2>1, <2>2 DEF Has
<1>7. Has(G, K, e)
  <2>1. 1 \in 1..Len(G[b])  BY <1>1
  <2> QED  BY <1>1, <2>1 DEF Has
<1> QED  BY <1>4, <1>5, <1>6, <1>7

LEMMA DropOne ==
    ASSUME NEW S, NEW K, NEW H \in [K -> Seq(S)], NEW G \in [K -> Seq(S)], NEW a \in K,
           Without(H, G, a, Len(H[a])), \A k \in K \ {a} : G[k] = H[k], Once(H, K)
    PROVE  /\ Once(G, K) /\ ~Has(G, K, H[a][Len(H[a])])
           /\ \A x : Has(H, K, x) <=> Has(G, K, x) \/ x = H[a][Len(H[a])]
<1> DEFINE p == Len(H[a])
<1>1. \A k \in K : Len(H[k]) \in Nat /\ Len(G[k]) \in Nat  OBVIOUS
<1>2. ASSUME NEW k \in K, NEW i \in 1..Len(G[k])
      PROVE  i \in 1..Len(H[k]) /\ G[k][i] = H[k][i] /\ ~(k = a /\ i = p)
  BY <1>1 DEF Without
<1>3. Once(G, K)  BY <1>2 DEF Once
<1>4. ASSUME NEW x, Has(G, K, x) PROVE Has(H, K, x) /\ x # H[a][p]
  <2>1a. PICK k \in K : \E i \in 1..Len(G[k]) : G[k][i] = x  BY <1>4 DEF Has
  <2>1. PICK i \in 1..Len(G[k]) : G[k][i] = x  BY <2>1a
  <2>2. i \in 1..Len(H[k]) /\ H[k][i] = x /\ ~(k = a /\ i = p)  BY <1>2, <2>1
  <2>3. p \in 1..Len(H[a])  BY DEF Without
  <2>4. H[k][i] # H[a][p]  BY <2>2, <2>3 DEF Once
  <2> QED  BY <2>2, <2>4 DEF Has
<1>5. Has(H, K, H[a][p])
  <2>1. p \in 1..Len(H[a])  BY DEF Without
  <2> QED  BY <2>1 DEF Has
<1>6. ASSUME NEW x, Has(H, K, x), x # H[a][p] PROVE Has(G, K, x)
  <2>1a. PICK k \in K : \E i \in 1..Len(H[k]) : H[k][i] = x  BY <1>6 DEF Has
  <2>1. PICK i \in 1..Len(H[k]) : H[k][i] = x  BY <2>1a
  <2>2. CASE k = a
    <3>1. i < p  BY <1>1, <1>6, <2>1, <2>2
    <3>2. i \in 1..Len(G[a]) /\ G[a][i] = x  BY <1>1, <2>1, <2>2, <3>1 DEF Without
    <3> QED  BY <3>2 DEF Has
  <2>3. CASE k # a  BY <2>1, <2>3 DEF Has
  <2> QED  BY <2>2, <2>3
<1> QED  BY <1>3, <1>4, <1>5, <1>6

LEMMA DropLast ==
    ASSUME NEW S, NEW s \in Seq(S), s # <<>>
    PROVE  LET r == SubSeq(s, 1, Len(s) - 1) IN
           /\ Len(s) \in Nat \ {0} /\ s[Len(s)] \in S
           /\ r \in Seq(S) /\ Len(r) = Len(s) - 1 /\ \A i \in 1..Len(r) : r[i] = s[i]
<1>1. Len(s) \in Nat \ {0}  BY EmptySeq
<1>2. 1 \in Int /\ Len(s) - 1 \in Int /\ \A i \in 1..(Len(s) - 1) : s[i] \in S  BY <1>1
<1>3. /\ SubSeq(s, 1, Len(s) - 1) \in Seq(S)
      /\ Len(SubSeq(s, 1, Len(s) - 1)) = (IF 1 <= Len(s) - 1 THEN (Len(s) - 1) - 1 + 1 ELSE 0)
      /\ \A i \in 1..((Len(s) - 1) - 1 + 1) : SubSeq(s, 1, Len(s) - 1)[i] = s[1 + i - 1]
  BY <1>2, SubSeqProperties
<1>4. s[Len(s)] \in S  BY <1>1
<1>5. Len(SubSeq(s, 1, Len(s) - 1)) = Len(s) - 1
  <2>1. ASSUME NEW L, NEW n \in Int, n >= 0, L = (IF 1 <= n THEN n - 1 + 1 ELSE 0) PROVE L = n
    BY <2>1
  <2>2. Len(s) - 1 \in Int /\ Len(s) - 1 >= 0  BY <1>1
  <2> QED  BY ONLY <1>3, <2>1, <2>2
<1>6. ASSUME NEW i \in 1..(Len(s) - 1) PROVE SubSeq(s, 1, Len(s) - 1)[i] = s[i]
  <2>1. i \in 1..((Len(s) - 1) - 1 + 1) /\ 1 + i - 1 = i  BY <1>1
  <2> QED  BY <1>3, <2>1
<1> QED  BY <1>1, <1>3, <1>4, <1>5, <1>6

LEMMA DropHead ==
    ASSUME NEW S, NEW s \in Seq(S), s # <<>>
    PROVE  /\ Len(s) \in Nat \ {0} /\ Head(s) = s[1] /\ s[1] \in S
           /\ Tail(s) \in Seq(S) /\ Len(Tail(s)) = Len(s) - 1
           /\ \A i \in 1..Len(Tail(s)) : Tail(s)[i] = s[i + 1]
<1>1. Len(s) \in Nat \ {0}  BY EmptySeq
<1> QED  BY <1>1, HeadTailProperties
----------------------------------------------------------------------------
(* Facts about any state. *)

LEMMA TeamFacts ==
    /\ Master \in Threads /\ Workers \subseteq Threads /\ Nobody \notin Threads
    /\ \A t \in Threads : t # Master => t \in Workers
    /\ IsFiniteSet(Threads) /\ N \in Nat \ {0}
    /\ \A t \in Threads : Gathers[t] \subseteq Workers
    /\ DequeSize \in Nat /\ MaxTasks \in Nat /\ MaxRounds \in Nat
    /\ NoTask \notin Tasks /\ Tasks \subseteq Nat
<1>1. IsFiniteSet(Threads)
  <2>1. IsFiniteSet({Master})  BY FS_Singleton
  <2> QED  BY <2>1, TeamAssumption, FS_Union DEF TeamAssumption, Threads
<1>2. N \in Nat /\ (N = 0 <=> Threads = {})  BY <1>1, FS_CardinalityType, FS_EmptySet DEF N
<1> QED
  BY <1>1, <1>2, TeamAssumption, GathersAssumption, BoundAssumption
  DEF TeamAssumption, GathersAssumption, BoundAssumption, Threads, NoTask, Tasks

LEMMA GenerationTypes ==
    ASSUME TypeInv
    PROVE  Cur \in 0..1 /\ 1 - Cur \in 0..1 /\ Cur # 1 - Cur /\ Opened \in Nat
BY TeamFacts DEF TypeInv, TypeOK, Cur, Opened

LEMMA HeldTypes == TypeInv => Held \in [Keys -> Seq(Tasks)]
<1> SUFFICES ASSUME TypeInv, NEW t \in Threads, NEW kind \in Kinds PROVE Queue(t, kind) \in Seq(Tasks)
  BY DEF Held, Keys
<1>1. CASE kind = "deque"  BY <1>1, GenerationTypes DEF Queue, TypeInv
<1>2. CASE kind = "stack"  BY <1>2 DEF Queue, TypeInv
<1>3. CASE kind = "fresh"  BY <1>3 DEF Queue, TypeInv, TypeOK
<1> QED  BY <1>1, <1>2, <1>3 DEF Kinds

LEMMA OutFinite == IsFiniteSet(Out) /\ Cardinality(Out) \in 0..N /\ (Cardinality(Out) = N => Out = Threads)
<1>1. Out \subseteq Threads /\ IsFiniteSet(Threads)  BY TeamFacts DEF Out
<1>2. IsFiniteSet(Out) /\ Cardinality(Out) \in Nat  BY <1>1, FS_Subset, FS_CardinalityType
<1> QED  BY <1>1, <1>2, FS_Subset, TeamFacts DEF N

LEMMA ChildrenFinite ==
    ASSUME TypeInv, NEW t
    PROVE  IsFiniteSet(ChildrenOf(t)) /\ Cardinality(ChildrenOf(t)) \in 0..created
<1>1. ChildrenOf(t) \subseteq 1..created /\ created \in 0..MaxTasks  BY DEF ChildrenOf, TypeInv
<1>2. IsFiniteSet(1..created) /\ Cardinality(1..created) = created
  BY <1>1, FS_Interval, TeamFacts
<1> QED  BY <1>1, <1>2, FS_Subset, FS_CardinalityType, TeamFacts

----------------------------------------------------------------------------
(* Parts of a step that are shared. *)

LEMMA SameBarrier ==
    ASSUME IInv, UNCHANGED <<round, arrived, go, pc, state>>
    PROVE  /\ Cur' = Cur /\ Opened' = Opened /\ Phases' /\ Arrivals'
           /\ \A t \in Threads : Current(t)' = Current(t) /\ Final(t)' = Final(t)
<1>1. Cur' = Cur /\ Opened' = Opened  BY DEF Cur, Opened
<1>2. \A t \in Threads : Current(t)' = Current(t) /\ Final(t)' = Final(t)  BY <1>1 DEF Current, Final
<1>3. \A t \in Workers : Current(t)' = Current(t)  BY <1>2, TeamFacts
<1>4. Phases'  BY <1>1, <1>2 DEF IInv, Phases
<1>5. Arrivals'  BY <1>3 DEF IInv, Arrivals
<1> QED  BY <1>1, <1>2, <1>4, <1>5

LEMMA SameTasks ==
    ASSUME IInv, UNCHANGED <<deque, tasks>>, Cur' = Cur
    PROVE  /\ Children' /\ Located'
           /\ \A t \in Threads : Empty(t)' = Empty(t) /\ Running(t)' = (stack[t] # <<>> \/ pc'[t] = "region")
<1>1. Held' = Held  BY DEF Held, Queue, tasks
<1>2. \A t \in Threads : ChildrenOf(t)' = ChildrenOf(t)  BY DEF ChildrenOf, tasks
<1> QED  BY <1>1, <1>2 DEF IInv, Located, Has, Once, Children, Empty, Running, tasks

LEMMA IInvInit == Init => IInv
<1> SUFFICES ASSUME Init PROVE IInv  OBVIOUS
<1>1. Cur = 0 /\ Opened = 0  BY TeamFacts DEF Init, Cur, Opened
<1>2. TypeInv
  BY TeamFacts, EmptySeq DEF Init, TypeInv, TypeOK, Fresh, None
<1>3. Phases  BY <1>1 DEF Init, Phases, Current
<1>4. Arrivals
  <2>1. \A t \in Workers : Gathers[t] \subseteq Workers  BY TeamFacts
  <2> QED  BY <1>1, <2>1, TeamFacts DEF Init, Arrivals, Current
<1>5. Teams  BY <1>1, TeamFacts DEF Init, Teams, Fresh
<1>6. \A t \in Threads : Empty(t) /\ ~Final(t) /\ ~finished[t] /\ deque[1 - Cur][t] = <<>>
  BY <1>1 DEF Init, Empty, Final
<1>7. Apart /\ Searches /\ Idle
  BY <1>6 DEF Init, Apart, Searches, Idle, Empty, Waiting
<1>8. Counts
  <2>1. Out = {}  BY <1>6 DEF Out
  <2> QED  BY <1>1, <2>1, FS_EmptySet, TeamFacts DEF Init, Counts, Fresh
<1>9. Children
  <2>1. \A t \in Threads : ChildrenOf(t) = {}  BY DEF Init, ChildrenOf
  <2> QED  BY <2>1, FS_EmptySet DEF Init, Children
<1>10. Located
  <2>1. ASSUME NEW k \in Keys PROVE Held[k] = <<>>
    <3>1. k[1] \in Threads /\ k[2] \in Kinds  BY DEF Keys
    <3> QED  BY <1>6, <3>1 DEF Held, Queue, Empty, Kinds
  <2>2. \A k \in Keys : Len(Held[k]) = 0  BY <2>1
  <2>3. Once(Held, Keys) /\ \A x \in Tasks : ~Has(Held, Keys, x)
    BY <2>2 DEF Once, Has
  <2>4. \A x \in Tasks : ~(x <= created) /\ runs[x] = 0  BY DEF Init, Tasks
  <2> QED  BY <2>3, <2>4 DEF Located
<1> QED  BY <1>2, <1>3, <1>4, <1>5, <1>7, <1>8, <1>9, <1>10 DEF IInv
LEMMA CurrentTeam ==
    ASSUME IInv, NEW t \in Threads, Current(t)
    PROVE  state[t] = Cur /\ teamOf[t] = Cur
BY DEF IInv, Phases, Teams

\* Who has a task is past all open barriers, and the first task has been noted.
LEMMA WithTask ==
    ASSUME IInv, NEW t \in Threads, ~Empty(t)
    PROVE  Current(t) /\ taskTeam[Cur].found /\ ~(Final(t) /\ finished[t])
BY DEF IInv, Apart, Idle, Searches

LEMMA HeldAt ==
    ASSUME NEW t \in Threads, NEW kind \in Kinds
    PROVE  /\ <<t, kind>> \in Keys
           /\ Held[<<t, kind>>] = Queue(t, kind) /\ Held'[<<t, kind>>] = Queue(t, kind)'
<1>1. <<t, kind>> \in Keys /\ <<t, kind>>[1] = t /\ <<t, kind>>[2] = kind  BY DEF Keys
<1> QED  BY <1>1 DEF Held

LEMMA TaskMoves ==
    ASSUME IInv, TypeInv', NEW a \in Keys, NEW b \in Keys, a # b, NEW p,
           Without(Held, Held', a, p), Held'[b] = Append(Held[b], Held[a][p]),
           \A k \in Keys \ {a, b} : Held'[k] = Held[k],
           UNCHANGED <<incomplete, created, creator, runs>>
    PROVE  Children' /\ Located'
<1>1. Held \in [Keys -> Seq(Tasks)]  BY HeldTypes DEF IInv
<1>2. Held' \in [Keys -> Seq(Tasks)]
  <2>1. (TypeInv => Held \in [Keys -> Seq(Tasks)])'  BY HeldTypes, PTL
  <2>2. Keys' = Keys /\ Tasks' = Tasks  BY DEF Keys, Kinds, Threads, Tasks
  <2> QED  BY <2>1, <2>2
<1>3. Once(Held, Keys)  BY DEF IInv, Located
<1>4. Once(Held', Keys) /\ \A x : Has(Held', Keys, x) <=> Has(Held, Keys, x)
  BY <1>1, <1>2, <1>3, MoveOne
<1>5. \A t \in Threads : ChildrenOf(t)' = ChildrenOf(t)  BY DEF ChildrenOf
<1>6. Children'  BY <1>5 DEF IInv, Children
<1>7. Located'  BY <1>4 DEF IInv, Located, Once, Has
<1> QED  BY <1>6, <1>7

LEMMA SameOut ==
    ASSUME IInv, UNCHANGED <<round, arrived, go, pc, state, finished>>,
           taskTeam'[Cur].unfinished = taskTeam[Cur].unfinished
    PROVE  Counts'
<1>1. Out' = Out /\ Cur' = Cur  BY SameBarrier DEF Out
<1> QED  BY <1>1 DEF IInv, Counts

LEMMA PushKeeps ==
    ASSUME IInv, NEW t \in Threads, Push(t)
    PROVE  IInv'
<1>1. ~Empty(t)  BY DEF Push, Empty
<1>2. state[t] = Cur /\ teamOf[t] = Cur /\ Current(t) /\ taskTeam[Cur].found /\ ~(Final(t) /\ finished[t])
  BY <1>1, WithTask, CurrentTeam
<1>3. fresh[t] \in Tasks /\ Cur \in 0..1 /\ Cur # 1 - Cur /\ 1 - Cur \in 0..1
  BY GenerationTypes DEF Push, IInv, TypeInv, TypeOK
<1>4. UNCHANGED <<taskTeam, state, teamOf, round, arrived, go, pc, mode, finished, incomplete,
                  created, creator, runs>>
  BY DEF Push, barrier
<1>5. /\ Cur' = Cur /\ Opened' = Opened /\ Phases' /\ Arrivals'
      /\ \A u \in Threads : Current(u)' = Current(u) /\ Final(u)' = Final(u)
  BY <1>4, SameBarrier
<1>6. stack[t] # <<>> \/ pc[t] = "region"  BY DEF Push, IInv, Searches, Running
<1>7. fresh' = [fresh EXCEPT ![t] = NoTask]  BY DEF Push
<1>8. CASE Len(deque[Cur][t]) < DequeSize
  <2>1. deque' = [deque EXCEPT ![Cur][t] = Append(@, fresh[t])] /\ stack' = stack
    BY <1>2, <1>8 DEF Push
  <2>2. TypeInv'
    <3>1. deque[Cur][t] \in Seq(Tasks)  BY <1>3 DEF IInv, TypeInv
    <3>2. Append(deque[Cur][t], fresh[t]) \in Seq(Tasks) /\ Len(Append(deque[Cur][t], fresh[t])) <= DequeSize
      BY <1>3, <1>8, <3>1, TeamFacts
    <3>3. deque' \in [0..1 -> [Threads -> Seq(Tasks)]]  BY <1>3, <2>1, <3>2 DEF IInv, TypeInv
    <3>4. \A s \in 0..1 : \A u \in Threads : deque'[s][u] \in Seq(Tasks) /\ Len(deque'[s][u]) <= DequeSize
      BY <1>3, <2>1, <3>2 DEF IInv, TypeInv, TypeOK
    <3>5. fresh' \in [Threads -> Tasks \union {NoTask}]  BY <1>7 DEF IInv, TypeInv, TypeOK
    <3> QED  BY <1>4, <2>1, <3>3, <3>4, <3>5 DEF IInv, TypeInv, TypeOK
  <2>3. /\ deque'[Cur][t] = Append(deque[Cur][t], fresh[t]) /\ deque'[1 - Cur] = deque[1 - Cur]
        /\ \A u \in Threads \ {t} : deque'[Cur][u] = deque[Cur][u]
    BY <1>3, <2>1 DEF IInv, TypeInv
  <2>4. Teams'  BY <1>4, <1>5 DEF IInv, Teams
  <2>5. \A u \in Threads : u # t => Empty(u)' = Empty(u)  BY <1>5, <1>7, <2>1, <2>3 DEF Empty
  <2>6. Apart'  BY <1>2, <1>5, <2>3, <2>5 DEF IInv, Apart
  <2>7. Searches'
    <3>1. \A u \in Threads : Running(u)' = Running(u) /\ Waiting(u)' = Waiting(u)
      BY <1>4, <1>5, <2>1 DEF Running, Waiting
    <3>2. \A u \in Threads \ {t} : fresh'[u] = fresh[u] /\ deque'[Cur][u] = deque[Cur][u]
      BY <1>7, <2>3 DEF IInv, TypeInv, TypeOK
    <3>3. fresh'[t] = NoTask /\ ~Waiting(t)  BY <1>6, <1>7 DEF IInv, TypeInv, TypeOK, Waiting
    <3> QED  BY <1>2, <1>4, <1>5, <2>1, <2>5, <3>1, <3>2, <3>3 DEF IInv, Searches
  <2>8. Counts'  BY <1>4, SameOut
  <2>9. Idle'  BY <1>2, <1>4, <1>5 DEF Idle
  <2>10. Children' /\ Located'
    <3> DEFINE a == <<t, "fresh">>
               b == <<t, "deque">>
    <3>1. a \in Keys /\ b \in Keys /\ a # b  BY HeldAt DEF Kinds
    <3>2. /\ Held[a] = <<fresh[t]>> /\ Held'[a] = <<>>
          /\ Held[b] = deque[Cur][t] /\ Held'[b] = deque'[Cur][t]
      <4>1. fresh[t] # NoTask /\ fresh'[t] = NoTask
        BY <1>3, <1>7, TeamFacts DEF IInv, TypeInv, TypeOK
      <4>2. Queue(t, "fresh") = <<fresh[t]>> /\ Queue(t, "fresh")' = <<>>
        BY <4>1 DEF Queue, NoTask
      <4> QED  BY HeldAt, <1>5, <4>2 DEF Kinds, Queue
    <3>3. Without(Held, Held', a, 1) /\ Held[a][1] = fresh[t]  BY <3>2 DEF Without
    <3>4. \A k \in Keys \ {a, b} : Held'[k] = Held[k]
      <4> SUFFICES ASSUME NEW k \in Keys \ {a, b} PROVE Held'[k] = Held[k]
        OBVIOUS
      <4>1. PICK u \in Threads, kind \in Kinds : k = <<u, kind>>  BY DEF Keys
      <4>2. Queue(u, kind)' = Queue(u, kind)
        BY <1>5, <1>7, <2>1, <2>3, <4>1 DEF Kinds, Queue, IInv, TypeInv, TypeOK
      <4> QED  BY <4>1, <4>2, HeldAt
    <3> HIDE DEF a, b
    <3>5. Held'[b] = Append(Held[b], Held[a][1])  BY <2>3, <3>2, <3>3
    <3> QED  BY <1>4, <2>2, <3>1, <3>3, <3>4, <3>5, TaskMoves
  <2> QED  BY <1>5, <2>2, <2>4, <2>6, <2>7, <2>8, <2>9, <2>10 DEF IInv
<1>9. CASE ~(Len(deque[Cur][t]) < DequeSize)
  <2>1. stack' = [stack EXCEPT ![t] = Append(@, fresh[t])] /\ deque' = deque
    BY <1>2, <1>9 DEF Push
  <2>2. TypeInv'
    <3>1. stack' \in [Threads -> Seq(Tasks)]  BY <1>3, <2>1 DEF IInv, TypeInv
    <3>2. fresh' \in [Threads -> Tasks \union {NoTask}]  BY <1>7 DEF IInv, TypeInv, TypeOK
    <3> QED  BY <1>4, <2>1, <3>1, <3>2 DEF IInv, TypeInv, TypeOK
  <2>3. stack'[t] = Append(stack[t], fresh[t]) /\ \A u \in Threads \ {t} : stack'[u] = stack[u]
    BY <2>1 DEF IInv, TypeInv
  <2>4. Teams'  BY <1>4, <1>5 DEF IInv, Teams
  <2>5. \A u \in Threads : u # t => Empty(u)' = Empty(u)  BY <1>5, <1>7, <2>1, <2>3 DEF Empty
  <2>6. Apart'  BY <1>2, <1>5, <2>1, <2>5 DEF IInv, Apart
  <2>7. Searches'
    <3>1. stack'[t] # <<>>
      <4>1. stack[t] \in Seq(Tasks)  BY DEF IInv, TypeInv
      <4>2. Len(stack'[t]) = Len(stack[t]) + 1 /\ Len(stack[t]) \in Nat  BY <1>3, <2>3, <4>1
      <4> QED  BY <4>2, EmptySeq
    <3>2. Final(t) => ~finished[t]  BY <1>2
    <3>3. fresh'[t] = NoTask /\ \A u \in Threads \ {t} : fresh'[u] = fresh[u]
      BY <1>7 DEF IInv, TypeInv, TypeOK
    <3>4. \A u \in Threads \ {t} : Running(u)' = Running(u) /\ Waiting(u)' = Waiting(u)
      BY <1>4, <2>3 DEF Running, Waiting
    <3>5. ~Waiting(t)' /\ Running(t)'  BY <3>1 DEF Waiting, Running
    <3>6. pc[t] = "region" \/ stack[t] # <<>>  BY <1>6
    <3> QED
      BY <1>2, <1>4, <1>5, <2>1, <2>3, <2>5, <3>1, <3>2, <3>3, <3>4, <3>5, <3>6 DEF IInv, Searches
  <2>8. Counts'  BY <1>4, SameOut
  <2>9. Idle'  BY <1>2, <1>4, <1>5 DEF Idle
  <2>10. Children' /\ Located'
    <3> DEFINE a == <<t, "fresh">>
               b == <<t, "stack">>
    <3>1. a \in Keys /\ b \in Keys /\ a # b  BY HeldAt DEF Kinds
    <3>2. /\ Held[a] = <<fresh[t]>> /\ Held'[a] = <<>>
          /\ Held[b] = stack[t] /\ Held'[b] = stack'[t]
      <4>1. fresh[t] # NoTask /\ fresh'[t] = NoTask
        BY <1>3, <1>7, TeamFacts DEF IInv, TypeInv, TypeOK
      <4>2. Queue(t, "fresh") = <<fresh[t]>> /\ Queue(t, "fresh")' = <<>>
        BY <4>1 DEF Queue, NoTask
      <4> QED  BY HeldAt, <1>5, <4>2 DEF Kinds, Queue
    <3>3. Without(Held, Held', a, 1) /\ Held[a][1] = fresh[t]  BY <3>2 DEF Without
    <3>4. \A k \in Keys \ {a, b} : Held'[k] = Held[k]
      <4> SUFFICES ASSUME NEW k \in Keys \ {a, b} PROVE Held'[k] = Held[k]
        OBVIOUS
      <4>1. PICK u \in Threads, kind \in Kinds : k = <<u, kind>>  BY DEF Keys
      <4>2. Queue(u, kind)' = Queue(u, kind)
        BY <1>5, <1>7, <2>1, <2>3, <4>1 DEF Kinds, Queue, IInv, TypeInv, TypeOK
      <4> QED  BY <4>1, <4>2, HeldAt
    <3> HIDE DEF a, b
    <3>5. Held'[b] = Append(Held[b], Held[a][1])  BY <2>3, <3>2, <3>3
    <3> QED  BY <1>4, <2>2, <3>1, <3>3, <3>4, <3>5, TaskMoves
  <2> QED  BY <1>5, <2>2, <2>4, <2>6, <2>7, <2>8, <2>9, <2>10 DEF IInv
<1> QED  BY <1>8, <1>9
\* The steps of the search and of tasks leave the barrier, the task team's flags and the
\* threads' teams alone.
LEMMA SameTeams ==
    ASSUME IInv, UNCHANGED <<round, arrived, go, pc, state, teamOf>>,
           taskTeam'[1 - Cur] = taskTeam[1 - Cur], taskTeam'[Cur].active = taskTeam[Cur].active
    PROVE  Teams'
<1>1. Cur' = Cur /\ \A u \in Threads : Current(u)' = Current(u)  BY SameBarrier
<1> QED  BY <1>1 DEF IInv, Teams

LEMMA OwnKeeps ==
    ASSUME IInv, NEW t \in Threads, Own(t)
    PROVE  IInv'
<1>1. UNCHANGED <<taskTeam, state, teamOf, round, arrived, go, pc, finished, incomplete, fresh,
                  created, creator, runs>>
  BY DEF Own, barrier
<1>2. Waiting(t) /\ mode[t] = "own" /\ stack[t] = <<>> /\ pc[t] \in {"gather", "drain", "final"}
  BY DEF Own, Waiting
<1>3. /\ Cur' = Cur /\ Opened' = Opened /\ Phases' /\ Arrivals'
      /\ \A u \in Threads : Current(u)' = Current(u) /\ Final(u)' = Final(u)
  BY <1>1, SameBarrier
<1>4. Teams' /\ Counts'  BY <1>1, SameTeams, SameOut
<1>5. Cur \in 0..1 /\ Cur # 1 - Cur /\ 1 - Cur \in 0..1  BY GenerationTypes DEF IInv
<1>6. teamOf[t] = state[t]  BY <1>2 DEF IInv, Searches, Teams
<1>7. CASE deque[teamOf[t]][t] = <<>>
  <2>1. mode' = [mode EXCEPT ![t] = "steal"] /\ UNCHANGED <<deque, stack>>
    BY <1>7 DEF Own, Turn
  <2>2. TypeInv'  BY <1>1, <2>1 DEF IInv, TypeInv, TypeOK
  <2>3. /\ Children' /\ Located'
        /\ \A u \in Threads : Empty(u)' = Empty(u) /\ Running(u)' = Running(u)
    BY <1>1, <1>3, <2>1, SameTasks DEF tasks, Running
  <2>4. Apart'  BY <1>3, <2>1, <2>3 DEF IInv, Apart
  <2>5. deque[Cur][t] = <<>>  BY <1>6, <1>7 DEF IInv, Phases, Apart, Empty
  <2>6. mode'[t] = "steal" /\ \A u \in Threads \ {t} : mode'[u] = mode[u]
    BY <2>1 DEF IInv, TypeInv, TypeOK
  <2>7. Searches'
    BY <1>1, <1>2, <1>3, <2>1, <2>3, <2>5, <2>6 DEF IInv, Searches, Waiting
  <2>8. Current(t) => taskTeam[Cur].found  BY <1>2 DEF IInv, Idle
  <2>9. Idle'  BY <1>1, <1>3, <2>3, <2>6, <2>8 DEF IInv, Idle
  <2> QED  BY <1>3, <1>4, <2>2, <2>3, <2>4, <2>7, <2>9 DEF IInv
<1>8. CASE deque[teamOf[t]][t] # <<>>
  <2>1. Current(t) /\ teamOf[t] = Cur  BY <1>6, <1>8 DEF IInv, Phases, Apart
  <2>2. taskTeam[Cur].found /\ ~(Final(t) /\ finished[t])  BY <1>8, <2>1, WithTask DEF Empty
  <2> DEFINE mine == deque[Cur][t]
             rest == SubSeq(mine, 1, Len(mine) - 1)
  <2>3. /\ mode' = mode
        /\ stack' = [stack EXCEPT ![t] = <<mine[Len(mine)]>>]
        /\ deque' = [deque EXCEPT ![Cur][t] = rest]
    BY <1>8, <2>1 DEF Own, Start
  <2>4. mine \in Seq(Tasks) /\ mine # <<>> /\ Len(mine) <= DequeSize
    BY <1>5, <1>8, <2>1 DEF IInv, TypeInv, TypeOK
  <2>5. /\ Len(mine) \in Nat \ {0} /\ mine[Len(mine)] \in Tasks
        /\ rest \in Seq(Tasks) /\ Len(rest) = Len(mine) - 1 /\ \A i \in 1..Len(rest) : rest[i] = mine[i]
    BY <2>4, DropLast
  <2> DEFINE x == mine[Len(mine)]
  <2>6. /\ deque'[Cur][t] = rest /\ deque'[1 - Cur] = deque[1 - Cur]
        /\ \A u \in Threads \ {t} : deque'[Cur][u] = deque[Cur][u] /\ stack'[u] = stack[u]
        /\ stack'[t] = <<x>>
    BY <1>5, <2>3 DEF IInv, TypeInv
  <2>7. TypeInv'
    <3>1. deque' \in [0..1 -> [Threads -> Seq(Tasks)]]  BY <1>5, <2>3, <2>5 DEF IInv, TypeInv
    <3>2. \A s \in 0..1 : \A u \in Threads : deque'[s][u] \in Seq(Tasks) /\ Len(deque'[s][u]) <= DequeSize
      <4> HIDE DEF rest, mine
      <4>1. Len(rest) <= DequeSize  BY <2>4, <2>5, TeamFacts
      <4> QED  BY <1>5, <2>3, <2>5, <4>1 DEF IInv, TypeInv, TypeOK
    <3>3. stack' \in [Threads -> Seq(Tasks)]  BY <2>3, <2>5 DEF IInv, TypeInv
    <3> QED  BY <1>1, <2>3, <3>1, <3>2, <3>3 DEF IInv, TypeInv, TypeOK
  <2> HIDE DEF rest, mine, x
  <2>8. \A u \in Threads : u # t => Empty(u)' = Empty(u)  BY <1>1, <1>3, <2>6 DEF Empty
  <2>9. Apart'  BY <1>3, <2>1, <2>6, <2>8 DEF IInv, Apart
  <2>10. Searches'
    <3>1. stack'[t] # <<>> /\ ~finished[t]
      BY <1>2, <2>2, <2>6, EmptySeq DEF IInv, Searches, Final
    <3>2. \A u \in Threads \ {t} : Waiting(u)' = Waiting(u) /\ Running(u)' = Running(u)
      BY <1>1, <2>6 DEF Waiting, Running
    <3> QED
      BY <1>1, <1>2, <1>3, <2>3, <2>6, <2>8, <3>1, <3>2 DEF IInv, Searches, Waiting, Running
  <2>11. Idle'  BY <1>1, <1>3, <2>2 DEF Idle
  <2>12. Children' /\ Located'
    <3> DEFINE a == <<t, "deque">>
               b == <<t, "stack">>
    <3>1. a \in Keys /\ b \in Keys /\ a # b  BY HeldAt DEF Kinds
    <3>2. /\ Held[a] = mine /\ Held'[a] = rest
          /\ Held[b] = <<>> /\ Held'[b] = <<x>>
      BY HeldAt, <1>2, <1>3, <2>6 DEF Kinds, Queue, mine
    <3>3. Without(Held, Held', a, Len(mine))  BY <2>5, <3>2 DEF Without
    <3>4. \A k \in Keys \ {a, b} : Held'[k] = Held[k]
      <4> SUFFICES ASSUME NEW k \in Keys \ {a, b} PROVE Held'[k] = Held[k]
        OBVIOUS
      <4>1. PICK u \in Threads, kind \in Kinds : k = <<u, kind>>  BY DEF Keys
      <4>2. Queue(u, kind)' = Queue(u, kind)  BY <1>1, <1>3, <2>6, <4>1 DEF Kinds, Queue
      <4> QED  BY <4>1, <4>2, HeldAt
    <3> HIDE DEF a, b
    <3>5. Held'[b] = Append(Held[b], Held[a][Len(mine)])  BY <3>2 DEF x
    <3> QED  BY <1>1, <2>7, <3>1, <3>3, <3>4, <3>5, TaskMoves
  <2> QED  BY <1>3, <1>4, <2>7, <2>9, <2>10, <2>11, <2>12 DEF IInv
<1> QED  BY <1>7, <1>8

LEMMA StealKeeps ==
    ASSUME IInv, NEW t \in Threads, Steal(t)
    PROVE  IInv'
<1>1. UNCHANGED <<state, teamOf, round, arrived, go, pc, mode, incomplete, fresh, created, creator, runs>>
  BY DEF Steal, barrier
<1>2. Waiting(t) /\ mode[t] = "steal" /\ stack[t] = <<>> /\ pc[t] \in {"gather", "drain", "final"}
  BY DEF Steal, Waiting
<1>3. /\ Cur' = Cur /\ Opened' = Opened /\ Phases' /\ Arrivals'
      /\ \A u \in Threads : Current(u)' = Current(u) /\ Final(u)' = Final(u)
  BY <1>1, SameBarrier
<1>4. Cur \in 0..1 /\ Cur # 1 - Cur /\ 1 - Cur \in 0..1  BY GenerationTypes DEF IInv
<1>5. teamOf[t] = state[t]  BY <1>2 DEF IInv, Searches, Teams
<1>6. PICK v \in Threads \ {t} :
        /\ deque[teamOf[t]][v] # <<>> /\ teamOf[v] = teamOf[t]
        /\ Start(t, Head(deque[teamOf[t]][v]))
        /\ deque' = [deque EXCEPT ![teamOf[t]][v] = Tail(@)]
        /\ IF finished[t]
           THEN taskTeam' = [taskTeam EXCEPT ![teamOf[t]].unfinished = @ + 1]
           ELSE UNCHANGED taskTeam
        /\ finished' = [finished EXCEPT ![t] = FALSE]
  BY DEF Steal
<1>7. Current(t) /\ teamOf[t] = Cur  BY <1>5, <1>6 DEF IInv, Phases, Apart
<1>8. Current(v) /\ taskTeam[Cur].found /\ ~(Final(v) /\ finished[v])
  BY <1>6, <1>7, WithTask DEF Empty
<1> DEFINE his == deque[Cur][v]
           rest == Tail(his)
           x == Head(his)
<1>9. stack' = [stack EXCEPT ![t] = <<x>>] /\ deque' = [deque EXCEPT ![Cur][v] = rest]
  BY <1>6, <1>7 DEF Start
<1>10. his \in Seq(Tasks) /\ his # <<>> /\ Len(his) <= DequeSize
  BY <1>4, <1>6, <1>7 DEF IInv, TypeInv, TypeOK
<1>11. /\ Len(his) \in Nat \ {0} /\ x = his[1] /\ x \in Tasks
       /\ rest \in Seq(Tasks) /\ Len(rest) = Len(his) - 1 /\ \A i \in 1..Len(rest) : rest[i] = his[i + 1]
  BY <1>10, DropHead
<1>12. /\ deque'[Cur][v] = rest /\ deque'[1 - Cur] = deque[1 - Cur]
       /\ \A u \in Threads \ {v} : deque'[Cur][u] = deque[Cur][u]
       /\ stack'[t] = <<x>> /\ \A u \in Threads \ {t} : stack'[u] = stack[u]
       /\ finished'[t] = FALSE /\ \A u \in Threads \ {t} : finished'[u] = finished[u]
  <2> HIDE DEF rest, his, x
  <2>1. /\ deque'[Cur][v] = rest /\ deque'[1 - Cur] = deque[1 - Cur]
        /\ \A u \in Threads \ {v} : deque'[Cur][u] = deque[Cur][u]
    BY <1>4, <1>9 DEF IInv, TypeInv
  <2>2. stack'[t] = <<x>> /\ \A u \in Threads \ {t} : stack'[u] = stack[u]
    BY <1>9 DEF IInv, TypeInv
  <2>3. finished'[t] = FALSE /\ \A u \in Threads \ {t} : finished'[u] = finished[u]
    BY <1>6 DEF IInv, TypeInv, TypeOK
  <2> QED  BY <2>1, <2>2, <2>3
<1>13. finished[t] => Final(t)  BY <1>2 DEF IInv, Searches, Final
<1>14. Counts' /\ taskTeam'[Cur].unfinished \in 0..N
  <2>1. IsFiniteSet(Out) /\ Cardinality(Out) \in 0..N /\ N \in Nat /\ taskTeam[Cur].unfinished = N - Cardinality(Out)
    BY OutFinite, TeamFacts DEF IInv, Counts
  <2>2. Out' = Out \ {t}  BY <1>3, <1>12 DEF Out
  <2>3. CASE finished[t]
    <3>1. t \in Out  BY <1>7, <1>13, <2>3 DEF Out
    <3>2. Cardinality(Out') = Cardinality(Out) - 1 /\ IsFiniteSet(Out')
      BY <2>1, <2>2, <3>1, FS_RemoveElement
    <3>3. taskTeam'[Cur].unfinished = taskTeam[Cur].unfinished + 1
      <4>1. taskTeam \in [0..1 -> [active : BOOLEAN, found : BOOLEAN, unfinished : 0..N]]
        BY DEF IInv, TypeInv, TypeOK
      <4>2. taskTeam' = [taskTeam EXCEPT ![Cur].unfinished = @ + 1]  BY <1>6, <1>7, <2>3
      <4> QED  BY <1>4, <4>1, <4>2
    <3>4. Cardinality(Out') \in Nat  BY <3>2, FS_CardinalityType
    <3> QED  BY <1>3, <2>1, <3>2, <3>3, <3>4 DEF Counts
  <2>4. CASE ~finished[t]
    <3>1. Out' = Out  BY <2>2, <2>4 DEF Out
    <3>2. taskTeam' = taskTeam  BY <1>6, <2>4
    <3> QED  BY <1>3, <2>1, <3>1, <3>2 DEF Counts
  <2> QED  BY <2>3, <2>4
<1>15. /\ taskTeam'[1 - Cur] = taskTeam[1 - Cur] /\ taskTeam'[Cur].active = taskTeam[Cur].active
       /\ taskTeam'[Cur].found = taskTeam[Cur].found
       /\ taskTeam' = [taskTeam EXCEPT ![Cur].unfinished = taskTeam'[Cur].unfinished]
  <2>1. taskTeam \in [0..1 -> [active : BOOLEAN, found : BOOLEAN, unfinished : 0..N]]
    BY DEF IInv, TypeInv, TypeOK
  <2>2. CASE finished[t]
    <3>1. taskTeam' = [taskTeam EXCEPT ![Cur].unfinished = @ + 1]  BY <1>6, <1>7, <2>2
    <3> QED  BY <1>4, <2>1, <3>1
  <2>3. CASE ~finished[t]
    <3>1. taskTeam' = taskTeam  BY <1>6, <2>3
    <3> QED  BY <1>4, <2>1, <3>1
  <2> QED  BY <2>2, <2>3
<1>16. Teams'  BY <1>1, <1>15, SameTeams
<1>17. TypeInv'
  <2>1. deque' \in [0..1 -> [Threads -> Seq(Tasks)]]  BY <1>4, <1>9, <1>11 DEF IInv, TypeInv
  <2>2. \A s \in 0..1 : \A u \in Threads : deque'[s][u] \in Seq(Tasks) /\ Len(deque'[s][u]) <= DequeSize
    <3> HIDE DEF rest, his, x
    <3>1. Len(rest) <= DequeSize  BY <1>10, <1>11, TeamFacts
    <3> QED  BY <1>4, <1>9, <1>11, <3>1 DEF IInv, TypeInv, TypeOK
  <2>3. stack' \in [Threads -> Seq(Tasks)]  BY <1>9, <1>11 DEF IInv, TypeInv
  <2>4. taskTeam' \in [0..1 -> [active : BOOLEAN, found : BOOLEAN, unfinished : 0..N]]
    <3>1. taskTeam \in [0..1 -> [active : BOOLEAN, found : BOOLEAN, unfinished : 0..N]]
      BY DEF IInv, TypeInv, TypeOK
    <3>2. PICK n \in 0..N : taskTeam' = [taskTeam EXCEPT ![Cur].unfinished = n]  BY <1>14, <1>15
    <3> QED  BY <1>4, <3>1, <3>2
  <2>5. finished' \in [Threads -> BOOLEAN]  BY <1>6 DEF IInv, TypeInv, TypeOK
  <2> QED  BY <1>1, <2>1, <2>2, <2>3, <2>4, <2>5 DEF IInv, TypeInv, TypeOK
<1> HIDE DEF rest, his, x
<1>18. \A u \in Threads \ {t, v} : Empty(u)' = Empty(u)  BY <1>1, <1>3, <1>12 DEF Empty
<1>19. Apart'  BY <1>3, <1>7, <1>8, <1>12, <1>18 DEF IInv, Apart
<1>20. Searches'
  <2>1. stack'[t] # <<>>  BY <1>12, EmptySeq
  <2>2. \A u \in Threads \ {t} : Waiting(u)' = Waiting(u) /\ Running(u)' = Running(u)
    BY <1>1, <1>12 DEF Waiting, Running
  <2>3. deque[Cur][v] # <<>>  BY <1>6, <1>7
  <2>4. \A u \in Threads \ {t} :
           /\ fresh'[u] = fresh[u] /\ finished'[u] = finished[u] /\ stack'[u] = stack[u]
           /\ pc'[u] = pc[u] /\ mode'[u] = mode[u] /\ teamOf'[u] = teamOf[u]
    BY <1>1, <1>12
  <2>5. \A u \in Threads \ {t} :
           Waiting(u)' /\ mode'[u] \in {"steal", "count"} => deque'[Cur][u] = <<>>
    BY <1>12, <2>2, <2>3, <2>4 DEF IInv, Searches
  <2>6. \A u \in Threads \ {t} : Final(u)' /\ finished'[u] => Empty(u)'
    BY <1>3, <1>8, <1>18, <2>4 DEF IInv, Searches
  <2>7. fresh'[t] = fresh[t] /\ pc'[t] = pc[t] /\ mode'[t] = mode[t] /\ teamOf'[t] = teamOf[t]
        /\ finished'[t] = FALSE /\ Current(t)' /\ Cur' = Cur
    BY <1>1, <1>3, <1>7, <1>12
  <2>8. ~Waiting(t)' /\ Running(t)'  BY <2>1 DEF Waiting, Running
  <2> QED
    BY <1>2, <1>3, <2>2, <2>4, <2>5, <2>6, <2>7, <2>8 DEF IInv, Searches
<1>21. Idle'  BY <1>3, <1>8, <1>15 DEF Idle
<1>22. Children' /\ Located'
  <2> DEFINE a == <<v, "deque">>
             b == <<t, "stack">>
  <2>1. a \in Keys /\ b \in Keys /\ a # b  BY HeldAt DEF Kinds
  <2>2. /\ Held[a] = his /\ Held'[a] = rest
        /\ Held[b] = <<>> /\ Held'[b] = <<x>>
    BY HeldAt, <1>2, <1>3, <1>12 DEF Kinds, Queue, his
  <2>3. Without(Held, Held', a, 1)  BY <1>11, <2>2 DEF Without
  <2>4. \A k \in Keys \ {a, b} : Held'[k] = Held[k]
    <3> SUFFICES ASSUME NEW k \in Keys \ {a, b} PROVE Held'[k] = Held[k]
      OBVIOUS
    <3>1. PICK u \in Threads, kind \in Kinds : k = <<u, kind>>  BY DEF Keys
    <3>2. Queue(u, kind)' = Queue(u, kind)  BY <1>1, <1>3, <1>12, <3>1 DEF Kinds, Queue
    <3> QED  BY <3>1, <3>2, HeldAt
  <2> HIDE DEF a, b
  <2>5. Held'[b] = Append(Held[b], Held[a][1])  BY <1>11, <2>2
  <2> QED  BY <1>1, <1>17, <2>1, <2>3, <2>4, <2>5, TaskMoves
<1> QED  BY <1>3, <1>14, <1>16, <1>17, <1>19, <1>20, <1>21, <1>22 DEF IInv
----------------------------------------------------------------------------
(* Creating and executing tasks. *)

\* Tasks are created by code that runs, which only current threads do.
LEMMA RunningCurrent ==
    ASSUME IInv, NEW t \in Threads, Running(t)
    PROVE  Current(t) /\ teamOf[t] = Cur /\ ~(Final(t) /\ finished[t])
<1>1. CASE stack[t] # <<>>  BY <1>1, WithTask, CurrentTeam DEF Empty
<1>2. CASE pc[t] = "region"
  <2>1. Current(t) /\ ~Final(t)  BY <1>2 DEF IInv, Phases, Final
  <2> QED  BY <2>1, CurrentTeam
<1> QED  BY <1>1, <1>2 DEF Running

LEMMA CreateKeeps ==
    ASSUME IInv, NEW t \in Threads, Create(t)
    PROVE  IInv'
<1> DEFINE e == created + 1
<1>1. UNCHANGED <<deque, state, teamOf, round, arrived, go, pc, mode, finished, stack, runs>>
  BY DEF Create, barrier
<1>2. Running(t) /\ fresh[t] = NoTask /\ created < MaxTasks /\ created' = e
  BY DEF Create
<1>3. Current(t) /\ teamOf[t] = Cur /\ ~(Final(t) /\ finished[t])  BY <1>2, RunningCurrent
<1>4. /\ Cur' = Cur /\ Opened' = Opened /\ Phases' /\ Arrivals'
      /\ \A u \in Threads : Current(u)' = Current(u) /\ Final(u)' = Final(u)
  BY <1>1, SameBarrier
<1>5. Cur \in 0..1 /\ Cur # 1 - Cur /\ 1 - Cur \in 0..1  BY GenerationTypes DEF IInv
<1>6. e \in Tasks /\ created \in Nat /\ e # NoTask /\ e \in Nat /\ ~(e <= created)
  BY <1>2, TeamFacts DEF IInv, TypeInv, Tasks, NoTask
<1>7. /\ fresh' = [fresh EXCEPT ![t] = e]
      /\ taskTeam' = [taskTeam EXCEPT ![Cur].found = TRUE]
  BY <1>2, <1>3 DEF Create
<1>8. /\ taskTeam'[1 - Cur] = taskTeam[1 - Cur] /\ taskTeam'[Cur].active = taskTeam[Cur].active
      /\ taskTeam'[Cur].unfinished = taskTeam[Cur].unfinished /\ taskTeam'[Cur].found
      /\ taskTeam' \in [0..1 -> [active : BOOLEAN, found : BOOLEAN, unfinished : 0..N]]
  <2>1. taskTeam \in [0..1 -> [active : BOOLEAN, found : BOOLEAN, unfinished : 0..N]]
    BY DEF IInv, TypeInv, TypeOK
  <2> QED  BY <1>5, <1>7, <2>1
<1>9. Teams'  BY <1>1, <1>8, SameTeams
<1>10. Counts'  BY <1>1, <1>8, SameOut
<1>11. Idle'  BY <1>4, <1>8 DEF Idle
<1> HIDE DEF e
<1>12. fresh'[t] = e /\ \A u \in Threads \ {t} : fresh'[u] = fresh[u]
  BY <1>7 DEF IInv, TypeInv, TypeOK
<1>13. \A u \in Threads \ {t} : Empty(u)' = Empty(u)  BY <1>1, <1>4, <1>12 DEF Empty
<1>14. Apart'  BY <1>1, <1>3, <1>4, <1>13 DEF IInv, Apart
<1>15. \A u \in Threads : Running(u)' = Running(u) /\ Waiting(u)' = Waiting(u)
  BY <1>1 DEF Running, Waiting
<1>16. Searches'
  BY <1>1, <1>2, <1>3, <1>4, <1>12, <1>13, <1>15 DEF IInv, Searches
<1>17. runs[e] = 0
  BY <1>6 DEF IInv, Located, TypeInv
<1>18. creator'[e] \in {t, Nobody} /\ \A x \in Tasks \ {e} : creator'[x] = creator[x]
  BY <1>2, <1>6 DEF Create, IInv, TypeInv
<1>19. \A u \in Threads : creator'[e] # u => ChildrenOf(u)' = ChildrenOf(u)
  BY <1>1, <1>2, <1>6, <1>18, TeamFacts DEF ChildrenOf, e, Tasks
<1>20. /\ Children' /\ creator' \in [Tasks -> Threads \union {Nobody}]
       /\ incomplete' \in [Threads -> 0..MaxTasks]
  <2>1. CASE stack[t] = <<>>
    <3>1. incomplete' = [incomplete EXCEPT ![t] = @ + 1] /\ creator' = [creator EXCEPT ![e] = t]
      BY <1>2, <2>1 DEF Create
    <3>2. creator'[e] = t  BY <1>6, <3>1 DEF IInv, TypeInv
    <3>3. ChildrenOf(t)' = ChildrenOf(t) \union {e} /\ e \notin ChildrenOf(t)
      BY <1>1, <1>2, <1>6, <1>17, <1>18, <3>2, TeamFacts DEF ChildrenOf, e, Tasks
    <3>4. IsFiniteSet(ChildrenOf(t)) /\ Cardinality(ChildrenOf(t)) \in 0..created
      BY ChildrenFinite DEF IInv
    <3>5. Cardinality(ChildrenOf(t)') = Cardinality(ChildrenOf(t)) + 1
      BY <3>3, <3>4, FS_AddElement
    <3>6. incomplete[t] = Cardinality(ChildrenOf(t))  BY DEF IInv, Children
    <3>7. incomplete[t] + 1 \in 0..MaxTasks  BY <1>2, <1>6, <3>4, <3>6, TeamFacts
    <3>8. incomplete'[t] = incomplete[t] + 1 /\ \A u \in Threads \ {t} : incomplete'[u] = incomplete[u]
      BY <3>1 DEF IInv, TypeInv, TypeOK
    <3>9. \A u \in Threads \ {t} : ChildrenOf(u)' = ChildrenOf(u)  BY <1>19, <3>2
    <3>10. Children'  BY <3>5, <3>6, <3>8, <3>9 DEF IInv, Children
    <3>11. creator' \in [Tasks -> Threads \union {Nobody}]  BY <3>1 DEF IInv, TypeInv
    <3>12. incomplete' \in [Threads -> 0..MaxTasks]  BY <3>1, <3>7 DEF IInv, TypeInv, TypeOK
    <3> QED  BY <3>10, <3>11, <3>12
  <2>2. CASE stack[t] # <<>>
    <3>1. incomplete' = incomplete /\ creator' = [creator EXCEPT ![e] = Nobody]
      BY <1>2, <2>2 DEF Create
    <3>2. creator'[e] = Nobody  BY <1>6, <3>1 DEF IInv, TypeInv
    <3>3. \A u \in Threads : ChildrenOf(u)' = ChildrenOf(u)  BY <1>19, <3>2, TeamFacts
    <3> QED  BY <3>1, <3>3 DEF IInv, Children, TypeInv, TypeOK
  <2> QED  BY <2>1, <2>2
<1>21. TypeInv'
  <2>1. fresh' \in [Threads -> Tasks \union {NoTask}]  BY <1>6, <1>7 DEF IInv, TypeInv, TypeOK
  <2>2. created' \in 0..MaxTasks  BY <1>2, <1>6 DEF Tasks
  <2> QED  BY <1>1, <1>8, <1>20, <2>1, <2>2 DEF IInv, TypeInv, TypeOK
<1>22. Located'
  <2> DEFINE b == <<t, "fresh">>
  <2>1. b \in Keys  BY HeldAt DEF Kinds
  <2>2. Held[b] = <<>> /\ Held'[b] = <<e>>
    BY HeldAt, <1>2, <1>6, <1>12 DEF Kinds, Queue
  <2>3. \A k \in Keys \ {b} : Held'[k] = Held[k]
    <3> SUFFICES ASSUME NEW k \in Keys \ {b} PROVE Held'[k] = Held[k]
      OBVIOUS
    <3>1. PICK u \in Threads, kind \in Kinds : k = <<u, kind>>  BY DEF Keys
    <3>2. Queue(u, kind)' = Queue(u, kind)  BY <1>1, <1>4, <1>12, <3>1 DEF Kinds, Queue
    <3> QED  BY <3>1, <3>2, HeldAt
  <2> HIDE DEF b
  <2>4. Held \in [Keys -> Seq(Tasks)]  BY HeldTypes DEF IInv
  <2>5. Held' \in [Keys -> Seq(Tasks)]
    <3>1. (TypeInv => Held \in [Keys -> Seq(Tasks)])'  BY HeldTypes, PTL
    <3>2. Keys' = Keys /\ Tasks' = Tasks  BY DEF Keys, Kinds, Threads, Tasks
    <3> QED  BY <1>21, <3>1, <3>2
  <2>6. Once(Held, Keys) /\ ~Has(Held, Keys, e)  BY <1>6 DEF IInv, Located
  <2>7. Once(Held', Keys) /\ \A x : Has(Held', Keys, x) <=> Has(Held, Keys, x) \/ x = e
    <3>1. e \in Tasks  BY <1>6
    <3> QED  BY ONLY <2>1, <2>2, <2>3, <2>4, <2>5, <2>6, <3>1, AddOne
  <2>8. \A x \in Tasks : Has(Held, Keys, x) <=> x <= created /\ runs[x] = 0
    BY DEF IInv, Located
  <2>9. ASSUME NEW x \in Tasks
        PROVE  (Has(Held', Keys, x) <=> x <= created' /\ runs'[x] = 0) /\ (runs'[x] = 1 => x <= created')
    <3>1. x \in Nat /\ (x <= created' <=> x <= created \/ x = e)
      BY <1>2, <1>6, TeamFacts DEF e
    <3>2. runs[x] = 1 => x <= created  BY DEF IInv, Located
    <3> QED  BY <1>1, <1>17, <2>7, <2>8, <3>1, <3>2
  <2> QED  BY <2>7, <2>9 DEF Located, Has, Once
<1> QED  BY <1>4, <1>9, <1>10, <1>11, <1>14, <1>16, <1>20, <1>21, <1>22 DEF IInv

LEMMA FinishKeeps ==
    ASSUME IInv, NEW t \in Threads, Finish(t)
    PROVE  IInv'
<1> DEFINE mine == stack[t]
           rest == SubSeq(mine, 1, Len(mine) - 1)
           x == mine[Len(mine)]
<1>1. UNCHANGED <<taskTeam, deque, state, teamOf, round, arrived, go, pc, finished, fresh, created, creator>>
  BY DEF Finish, barrier
<1>2. mine # <<>> /\ fresh[t] = NoTask  BY DEF Finish
<1>3. Current(t) /\ teamOf[t] = Cur /\ taskTeam[Cur].found /\ ~(Final(t) /\ finished[t])
  BY <1>2, WithTask, CurrentTeam DEF Empty
<1>4. /\ Cur' = Cur /\ Opened' = Opened /\ Phases' /\ Arrivals'
      /\ \A u \in Threads : Current(u)' = Current(u) /\ Final(u)' = Final(u)
  BY <1>1, SameBarrier
<1>5. Cur \in 0..1 /\ Cur # 1 - Cur /\ 1 - Cur \in 0..1  BY GenerationTypes DEF IInv
<1>6. Teams' /\ Counts'  BY <1>1, SameTeams, SameOut
<1>7. Idle'  BY <1>1, <1>3, <1>4 DEF Idle
<1>8. mine \in Seq(Tasks)  BY DEF IInv, TypeInv
<1>9. /\ Len(mine) \in Nat \ {0} /\ x \in Tasks
      /\ rest \in Seq(Tasks) /\ Len(rest) = Len(mine) - 1 /\ \A i \in 1..Len(rest) : rest[i] = mine[i]
  BY <1>2, <1>8, DropLast
<1>10. /\ stack' = [stack EXCEPT ![t] = rest] /\ mode' = [mode EXCEPT ![t] = AfterTask(t)]
       /\ runs' = [runs EXCEPT ![x] = @ + 1]
       /\ incomplete' = IF creator[x] = Nobody THEN incomplete ELSE [incomplete EXCEPT ![creator[x]] = @ - 1]
  BY DEF Finish, Turn
<1> HIDE DEF rest, x
<1>11. stack'[t] = rest /\ \A u \in Threads \ {t} : stack'[u] = stack[u]
  BY <1>10 DEF IInv, TypeInv
<1>12. mode'[t] = AfterTask(t) /\ \A u \in Threads \ {t} : mode'[u] = mode[u]
  BY <1>10 DEF IInv, TypeInv, TypeOK
<1>13. AfterTask(t) \in {mode[t], "loop", "count", "own"}
  BY DEF AfterTask
<1>14. \A u \in Threads \ {t} : Empty(u)' = Empty(u)  BY <1>1, <1>4, <1>11 DEF Empty
<1>15. Apart'  BY <1>1, <1>3, <1>4, <1>14 DEF IInv, Apart
<1>16. Searches'
  <2>1. \A u \in Threads \ {t} : Running(u)' = Running(u) /\ Waiting(u)' = Waiting(u)
    BY <1>1, <1>11 DEF Running, Waiting
  <2>2. ASSUME Waiting(t)', mode'[t] \in {"steal", "count"} PROVE deque'[Cur][t] = <<>>
    <3>1. pc[t] # "region" /\ rest = <<>>  BY <1>1, <1>11, <2>2 DEF Waiting
    <3>2. ~(Len(mine) > 1)
      <4>1. Len(rest) = 0  BY <3>1
      <4>2. \A n \in Nat : Len(rest) = n - 1 => n = 1  BY <4>1
      <4>3. Len(mine) = 1  BY <1>9, <4>2
      <4> QED  BY <4>3
    <3>3. teamOf[t] # None  BY <1>3, <1>5 DEF None
    <3>4. deque[teamOf[t]][t] = <<>>
      BY <1>12, <2>2, <3>1, <3>2, <3>3 DEF AfterTask
    <3> QED  BY <1>1, <1>3, <3>4
  <2>3. pc[t] # "release"  BY <1>3 DEF IInv, Phases
  <2>4. teamOf[t] # None  BY <1>3, <1>5 DEF None
  <2>5. /\ pc'[t] = pc[t] /\ fresh'[t] = NoTask /\ finished'[t] = finished[t] /\ teamOf'[t] = teamOf[t]
        /\ Current(t)' /\ Final(t)' = Final(t) /\ Cur' = Cur
    BY <1>1, <1>2, <1>3, <1>4
  <2>6. pc[t] = "gather" => ~finished[t]  BY DEF IInv, Searches
  <2>7. pc[t] # "region" => ~finished[t]  BY <1>2 DEF IInv, Searches
  <2>8. \A u \in Threads \ {t} :
           /\ fresh'[u] = fresh[u] /\ finished'[u] = finished[u] /\ stack'[u] = stack[u]
           /\ pc'[u] = pc[u] /\ mode'[u] = mode[u] /\ teamOf'[u] = teamOf[u] /\ deque'[Cur][u] = deque[Cur][u]
    BY <1>1, <1>11, <1>12
  <2> QED
    BY <1>3, <1>4, <1>14, <2>1, <2>2, <2>3, <2>4, <2>5, <2>6, <2>7, <2>8 DEF IInv, Searches
<1>17. x <= created /\ runs[x] = 0 /\ x \in Nat
  <2>1. <<t, "stack">> \in Keys /\ Held[<<t, "stack">>] = mine  BY HeldAt DEF Kinds, Queue
  <2>2. Has(Held, Keys, x)
    <3>1. Len(mine) \in 1..Len(mine)  BY <1>9
    <3> QED  BY <2>1, <3>1 DEF Has, x
  <2> QED  BY <1>9, <2>2, TeamFacts DEF IInv, Located
<1>18. runs'[x] = 1 /\ \A y \in Tasks \ {x} : runs'[y] = runs[y]
  BY <1>9, <1>10, <1>17 DEF IInv, TypeInv
<1>19. \A u \in Threads : creator[x] # u => ChildrenOf(u)' = ChildrenOf(u)
  <2>1. \A y \in 1..created : y \in Tasks  BY TeamFacts DEF IInv, TypeInv, Tasks
  <2> QED  BY <1>1, <1>18, <2>1 DEF ChildrenOf
<1>20. Children' /\ incomplete' \in [Threads -> 0..MaxTasks]
  <2>1. CASE creator[x] = Nobody
    <3>1. incomplete' = incomplete  BY <1>10, <2>1
    <3>2. \A u \in Threads : ChildrenOf(u)' = ChildrenOf(u)  BY <1>19, <2>1, TeamFacts
    <3> QED  BY <3>1, <3>2 DEF IInv, Children, TypeInv, TypeOK
  <2>2. CASE creator[x] # Nobody
    <3>1. PICK c \in Threads : c = creator[x]  BY <1>9, <2>2 DEF IInv, TypeInv
    <3>2. incomplete' = [incomplete EXCEPT ![c] = @ - 1]  BY <1>10, <2>2, <3>1
    <3>3. x \in 1..created /\ \A y \in 1..created : y \in Tasks
      BY <1>9, <1>17, TeamFacts DEF IInv, TypeInv, Tasks
    <3>4. x \in ChildrenOf(c) /\ ChildrenOf(c)' = ChildrenOf(c) \ {x}
      BY <1>1, <1>17, <1>18, <3>1, <3>3 DEF ChildrenOf
    <3>5. IsFiniteSet(ChildrenOf(c)) /\ Cardinality(ChildrenOf(c)) \in 0..created
      BY ChildrenFinite DEF IInv
    <3>6. Cardinality(ChildrenOf(c)') = Cardinality(ChildrenOf(c)) - 1 /\ IsFiniteSet(ChildrenOf(c)')
      BY <3>4, <3>5, FS_RemoveElement
    <3>7. Cardinality(ChildrenOf(c)') \in Nat  BY <3>6, FS_CardinalityType
    <3>8. incomplete[c] = Cardinality(ChildrenOf(c)) /\ incomplete[c] \in 0..MaxTasks
      BY <3>1 DEF IInv, Children, TypeInv, TypeOK
    <3>9. incomplete[c] - 1 \in 0..MaxTasks  BY <3>5, <3>6, <3>7, <3>8, TeamFacts
    <3>10. incomplete'[c] = incomplete[c] - 1 /\ \A u \in Threads \ {c} : incomplete'[u] = incomplete[u]
      BY <3>1, <3>2 DEF IInv, TypeInv, TypeOK
    <3>11. \A u \in Threads \ {c} : ChildrenOf(u)' = ChildrenOf(u)  BY <1>19, <3>1
    <3>12. Children'  BY <3>6, <3>8, <3>10, <3>11 DEF IInv, Children
    <3>13. incomplete' \in [Threads -> 0..MaxTasks]  BY <3>2, <3>9 DEF IInv, TypeInv, TypeOK
    <3> QED  BY <3>12, <3>13
  <2> QED  BY <2>1, <2>2
<1>21. TypeInv'
  <2>1. stack' \in [Threads -> Seq(Tasks)]  BY <1>9, <1>10 DEF IInv, TypeInv
  <2>2. mode' \in [Threads -> {"loop", "own", "steal", "count"}]
    BY <1>10, <1>13 DEF IInv, TypeInv, TypeOK
  <2>3. runs' \in [Tasks -> 0..1]  BY <1>9, <1>10, <1>17 DEF IInv, TypeInv
  <2> QED  BY <1>1, <1>20, <2>1, <2>2, <2>3 DEF IInv, TypeInv, TypeOK
<1>22. Located'
  <2> DEFINE a == <<t, "stack">>
  <2>1. a \in Keys  BY HeldAt DEF Kinds
  <2>2. Held[a] = mine /\ Held'[a] = rest
    BY HeldAt, <1>11 DEF Kinds, Queue
  <2>3. \A k \in Keys \ {a} : Held'[k] = Held[k]
    <3> SUFFICES ASSUME NEW k \in Keys \ {a} PROVE Held'[k] = Held[k]
      OBVIOUS
    <3>1. PICK u \in Threads, kind \in Kinds : k = <<u, kind>>  BY DEF Keys
    <3>2. Queue(u, kind)' = Queue(u, kind)  BY <1>1, <1>4, <1>11, <3>1 DEF Kinds, Queue
    <3> QED  BY <3>1, <3>2, HeldAt
  <2> HIDE DEF a, mine
  <2>4. Held \in [Keys -> Seq(Tasks)]  BY HeldTypes DEF IInv
  <2>5. Held' \in [Keys -> Seq(Tasks)]
    <3>1. (TypeInv => Held \in [Keys -> Seq(Tasks)])'  BY HeldTypes, PTL
    <3>2. Keys' = Keys /\ Tasks' = Tasks  BY DEF Keys, Kinds, Threads, Tasks
    <3> QED  BY <1>21, <3>1, <3>2
  <2>6. Once(Held, Keys)  BY DEF IInv, Located
  <2>7. Without(Held, Held', a, Len(mine)) /\ Held[a][Len(mine)] = x
    <3>1. Len(mine) \in 1..Len(mine) /\ Len(mine) = Len(rest) + 1  BY <1>9
    <3>2. \A i \in 1..Len(rest) : i < Len(mine)  BY <1>9
    <3> QED  BY <1>9, <2>2, <3>1, <3>2 DEF Without, x
  <2>8. Once(Held', Keys) /\ \A y : Has(Held', Keys, y) <=> Has(Held, Keys, y) /\ y # x
    <3>1. Without(Held, Held', a, Len(Held[a])) /\ Held[a][Len(Held[a])] = x  BY <2>2, <2>7
    <3>2. /\ Once(Held', Keys) /\ ~Has(Held', Keys, Held[a][Len(Held[a])])
          /\ \A y : Has(Held, Keys, y) <=> Has(Held', Keys, y) \/ y = Held[a][Len(Held[a])]
      BY <2>1, <2>3, <2>4, <2>5, <2>6, <3>1, DropOne
    <3> QED  BY <3>1, <3>2
  <2>9. \A y \in Tasks : (Has(Held, Keys, y) <=> y <= created /\ runs[y] = 0) /\ (runs[y] = 1 => y <= created)
    BY DEF IInv, Located
  <2>10. ASSUME NEW y \in Tasks
         PROVE  (Has(Held', Keys, y) <=> y <= created' /\ runs'[y] = 0) /\ (runs'[y] = 1 => y <= created')
    BY <1>1, <1>17, <1>18, <2>8, <2>9
  <2> QED  BY <2>8, <2>10 DEF Located, Has, Once
<1> QED  BY <1>4, <1>6, <1>7, <1>15, <1>16, <1>20, <1>21, <1>22 DEF IInv

LEMMA LookKeeps ==
    ASSUME IInv, NEW t \in Threads, Look(t)
    PROVE  IInv'
<1>1. UNCHANGED <<taskTeam, deque, state, round, arrived, go, pc, finished, tasks>>
  BY DEF Look, barrier
<1>2. Waiting(t) /\ mode[t] = "loop" /\ teamOf[t] # None  BY DEF Look
<1>3. /\ Cur' = Cur /\ Opened' = Opened /\ Phases' /\ Arrivals'
      /\ \A u \in Threads : Current(u)' = Current(u) /\ Final(u)' = Final(u)
  BY <1>1, SameBarrier
<1>4. /\ Children' /\ Located'
      /\ \A u \in Threads : Empty(u)' = Empty(u) /\ Running(u)' = Running(u) /\ Waiting(u)' = Waiting(u)
  BY <1>1, <1>3, SameTasks DEF tasks, Running, Waiting
<1>5. Counts'  BY <1>1, SameOut
<1>6. Apart'  BY <1>1, <1>3, <1>4 DEF IInv, Apart
<1>7. CASE taskTeam[teamOf[t]].active
  <2>1. taskTeam[teamOf[t]].found /\ mode' = [mode EXCEPT ![t] = "own"] /\ teamOf' = teamOf
    BY <1>7 DEF Look, Turn
  <2>2. TypeInv'  BY <1>1, <2>1 DEF IInv, TypeInv, TypeOK, tasks
  <2>3. Teams'  BY <1>1, <2>1, SameTeams
  <2>4. mode'[t] = "own" /\ \A u \in Threads \ {t} : mode'[u] = mode[u]
    BY <2>1 DEF IInv, TypeInv, TypeOK
  \* A thread that is to be released sees the old task team, which is not found if active.
  <2>5. Current(t) \/ pc[t] # "final" \/ finished[t]
    <3>1. ASSUME ~Current(t) PROVE FALSE
      <4>1. teamOf[t] = 1 - Cur  BY <1>2, <3>1 DEF IInv, Phases, Teams
      <4>2. ~taskTeam[1 - Cur].found  BY <1>7, <4>1 DEF IInv, Teams, Fresh
      <4> QED  BY <2>1, <4>1, <4>2
    <3> QED  BY <3>1
  <2>6. Searches'
    <3>1. pc[t] # "release"  BY <1>2 DEF Waiting
    <3>2. stack' = stack /\ fresh' = fresh  BY <1>1 DEF tasks
    <3> QED  BY <1>1, <1>2, <1>3, <1>4, <2>1, <2>4, <2>5, <3>1, <3>2 DEF IInv, Searches
  <2>7. Idle'
    <3>1. Current(t) => taskTeam[Cur].found  BY <2>1, CurrentTeam
    <3> QED  BY <1>1, <1>3, <1>4, <2>4, <3>1 DEF IInv, Idle
  <2> QED  BY <1>3, <1>4, <1>5, <1>6, <2>2, <2>3, <2>6, <2>7 DEF IInv
<1>8. CASE ~taskTeam[teamOf[t]].active
  <2>1. mode' = mode /\ teamOf' = [teamOf EXCEPT ![t] = None]  BY <1>8 DEF Look
  <2>2. TypeInv'
    <3>1. teamOf' \in [Threads -> 0..2]  BY <2>1 DEF IInv, TypeInv, TypeOK, None
    <3> QED  BY <1>1, <2>1, <3>1 DEF IInv, TypeInv, TypeOK, tasks
  <2>3. ~Current(t)  BY <1>8, CurrentTeam DEF IInv, Teams
  <2>4. teamOf'[t] = None /\ \A u \in Threads \ {t} : teamOf'[u] = teamOf[u]
    BY <2>1 DEF IInv, TypeInv, TypeOK
  <2>5. Teams'  BY <1>1, <1>3, <2>3, <2>4 DEF IInv, Teams
  <2>6. Searches'
    <3>1. stack' = stack /\ fresh' = fresh  BY <1>1 DEF tasks
    <3> QED  BY <1>1, <1>2, <1>3, <1>4, <2>1, <2>4, <3>1 DEF IInv, Searches
  <2>7. Idle'  BY <1>1, <1>3, <1>4, <2>1 DEF IInv, Idle
  <2> QED  BY <1>3, <1>4, <1>5, <1>6, <2>2, <2>5, <2>6, <2>7 DEF IInv
<1> QED  BY <1>7, <1>8

LEMMA StealNothingKeeps ==
    ASSUME IInv, NEW t \in Threads, StealNothing(t)
    PROVE  IInv'
<1>1. UNCHANGED <<taskTeam, deque, state, teamOf, round, arrived, go, pc, finished, tasks>>
  BY DEF StealNothing, barrier
<1>2. Waiting(t) /\ mode[t] = "steal" /\ mode' = [mode EXCEPT ![t] = "count"]
  BY DEF StealNothing, Turn
<1>3. /\ Cur' = Cur /\ Opened' = Opened /\ Phases' /\ Arrivals'
      /\ \A u \in Threads : Current(u)' = Current(u) /\ Final(u)' = Final(u)
  BY <1>1, SameBarrier
<1>4. /\ Children' /\ Located'
      /\ \A u \in Threads : Empty(u)' = Empty(u) /\ Running(u)' = Running(u) /\ Waiting(u)' = Waiting(u)
  BY <1>1, <1>3, SameTasks DEF tasks, Running, Waiting
<1>5. Counts' /\ Teams'  BY <1>1, SameOut, SameTeams
<1>6. Apart'  BY <1>1, <1>3, <1>4 DEF IInv, Apart
<1>7. TypeInv'  BY <1>1, <1>2 DEF IInv, TypeInv, TypeOK, tasks
<1>8. mode'[t] = "count" /\ \A u \in Threads \ {t} : mode'[u] = mode[u]
  BY <1>2 DEF IInv, TypeInv, TypeOK
<1>9. Searches'
  <2>1. stack' = stack /\ fresh' = fresh  BY <1>1 DEF tasks
  <2>2. pc[t] # "release"  BY <1>2 DEF Waiting
  <2> QED  BY <1>1, <1>2, <1>3, <1>4, <1>8, <2>1, <2>2 DEF IInv, Searches
<1>10. Idle'
  <2>1. Current(t) => taskTeam[Cur].found  BY <1>2 DEF IInv, Idle
  <2> QED  BY <1>1, <1>3, <1>4, <1>8, <2>1 DEF IInv, Idle
<1> QED  BY <1>3, <1>4, <1>5, <1>6, <1>7, <1>9, <1>10 DEF IInv

\* Only a thread without tasks that is past all open barriers counts itself out.
LEMMA CountKeeps ==
    ASSUME IInv, NEW t \in Threads, Count(t)
    PROVE  IInv'
<1>1. UNCHANGED <<deque, state, teamOf, round, arrived, go, pc, tasks>>
  BY DEF Count, barrier
<1>2. Waiting(t) /\ mode[t] = "count" /\ mode' = [mode EXCEPT ![t] = "loop"]
  BY DEF Count, Turn
<1>3. /\ Cur' = Cur /\ Opened' = Opened /\ Phases' /\ Arrivals'
      /\ \A u \in Threads : Current(u)' = Current(u) /\ Final(u)' = Final(u)
  BY <1>1, SameBarrier
<1>4. /\ Children' /\ Located'
      /\ \A u \in Threads : Empty(u)' = Empty(u) /\ Running(u)' = Running(u) /\ Waiting(u)' = Waiting(u)
  BY <1>1, <1>3, SameTasks DEF tasks, Running, Waiting
<1>5. Apart'  BY <1>1, <1>3, <1>4 DEF IInv, Apart
<1>6. mode'[t] = "loop" /\ \A u \in Threads \ {t} : mode'[u] = mode[u]
  BY <1>2 DEF IInv, TypeInv, TypeOK
<1>7. mode' \in [Threads -> {"loop", "own", "steal", "count"}]
  BY <1>2 DEF IInv, TypeInv, TypeOK
<1>8. stack' = stack /\ fresh' = fresh  BY <1>1 DEF tasks
<1>9. CASE ~(Final(t) /\ incomplete[t] = 0 /\ ~finished[t])
  <2>1. UNCHANGED <<taskTeam, finished>>  BY <1>9 DEF Count
  <2>2. Counts' /\ Teams'  BY <1>1, <2>1, SameOut, SameTeams
  <2>3. TypeInv'  BY <1>1, <1>7, <2>1 DEF IInv, TypeInv, TypeOK, tasks
  <2>4. Searches'  BY <1>1, <1>2, <1>3, <1>4, <1>6, <1>8, <2>1 DEF IInv, Searches
  <2>5. Idle'  BY <1>1, <1>3, <1>4, <1>6, <2>1 DEF IInv, Idle
  <2> QED  BY <1>3, <1>4, <1>5, <2>2, <2>3, <2>4, <2>5 DEF IInv
<1>10. CASE Final(t) /\ incomplete[t] = 0 /\ ~finished[t]
  <2>1. Current(t) /\ teamOf[t] = Cur
    <3>1. pc[t] # "release" /\ (Current(t) \/ pc[t] # "final")
      BY <1>2, <1>10 DEF IInv, Searches, Waiting
    <3>2. Current(t)  BY <3>1 DEF IInv, Phases
    <3> QED  BY <3>2, CurrentTeam
  <2>2. taskTeam[Cur].found  BY <1>2, <2>1 DEF IInv, Idle
  <2>3. Empty(t)  BY <1>2 DEF IInv, Searches, Empty, Waiting, Running
  <2>4. /\ taskTeam' = [taskTeam EXCEPT ![Cur].unfinished = @ - 1]
        /\ finished' = [finished EXCEPT ![t] = TRUE]
    BY <1>10, <2>1 DEF Count
  <2>5. Cur \in 0..1 /\ Cur # 1 - Cur /\ 1 - Cur \in 0..1  BY GenerationTypes DEF IInv
  <2>6. finished'[t] = TRUE /\ \A u \in Threads \ {t} : finished'[u] = finished[u]
    BY <2>4 DEF IInv, TypeInv, TypeOK
  <2>7. Counts' /\ taskTeam[Cur].unfinished - 1 \in 0..N
    <3>1. Out' = Out \union {t} /\ t \notin Out
      BY <1>3, <1>10, <2>1, <2>6 DEF Out
    <3>2. IsFiniteSet(Out) /\ Cardinality(Out) \in Nat /\ taskTeam[Cur].unfinished = N - Cardinality(Out)
      BY OutFinite, TeamFacts DEF IInv, Counts
    <3>3. Cardinality(Out') = Cardinality(Out) + 1  BY <3>1, <3>2, FS_AddElement
    <3>4. Cardinality(Out') <= N
      <4>1. Out' \subseteq Threads  BY <3>1 DEF Out
      <4> QED  BY <4>1, TeamFacts, FS_Subset DEF N
    <3>5. taskTeam'[Cur].unfinished = taskTeam[Cur].unfinished - 1
      BY <2>4, <2>5 DEF IInv, TypeInv, TypeOK
    <3>6. taskTeam'[Cur].unfinished = N - Cardinality(Out')  BY <3>2, <3>3, <3>5, TeamFacts
    <3>7. taskTeam[Cur].unfinished - 1 \in 0..N  BY <3>2, <3>3, <3>4, TeamFacts
    <3> QED  BY <1>3, <3>6, <3>7 DEF Counts
  <2>8. /\ taskTeam'[1 - Cur] = taskTeam[1 - Cur] /\ taskTeam'[Cur].active = taskTeam[Cur].active
        /\ taskTeam'[Cur].found = taskTeam[Cur].found
        /\ taskTeam' \in [0..1 -> [active : BOOLEAN, found : BOOLEAN, unfinished : 0..N]]
    <3>1. taskTeam \in [0..1 -> [active : BOOLEAN, found : BOOLEAN, unfinished : 0..N]]
      BY DEF IInv, TypeInv, TypeOK
    <3> QED  BY <2>4, <2>5, <2>7, <3>1
  <2>9. Teams'  BY <1>1, <2>8, SameTeams
  <2>10. TypeInv'
    <3>1. finished' \in [Threads -> BOOLEAN]  BY <2>4 DEF IInv, TypeInv, TypeOK
    <3> QED  BY <1>1, <1>7, <2>8, <3>1 DEF IInv, TypeInv, TypeOK, tasks
  <2>11. Searches'
    <3>1. stack[t] = <<>> /\ pc[t] # "gather"  BY <1>2, <1>10 DEF Waiting, Final
    <3> QED
      BY <1>1, <1>2, <1>3, <1>4, <1>6, <1>8, <2>3, <2>6, <3>1 DEF IInv, Searches
  <2>12. Idle'  BY <1>3, <2>2, <2>8 DEF Idle
  <2> QED  BY <1>3, <1>4, <1>5, <2>7, <2>9, <2>10, <2>11, <2>12 DEF IInv
<1> QED  BY <1>9, <1>10

LEMMA EnterKeeps ==
    ASSUME IInv, NEW t \in Threads, Enter(t)
    PROVE  IInv'
<1>1. UNCHANGED <<deque, state, teamOf, round, arrived, go, tasks>>  BY DEF Enter
<1>2. /\ pc[t] = "region" /\ stack[t] = <<>> /\ fresh[t] = NoTask /\ round[t] < MaxRounds
      /\ pc' = [pc EXCEPT ![t] = "gather"] /\ mode' = [mode EXCEPT ![t] = "loop"]
      /\ finished' = [finished EXCEPT ![t] = FALSE]
  BY DEF Enter, Goto, Turn
<1>3. pc'[t] = "gather" /\ mode'[t] = "loop" /\ finished'[t] = FALSE
      /\ \A u \in Threads \ {t} : pc'[u] = pc[u] /\ mode'[u] = mode[u] /\ finished'[u] = finished[u]
  BY <1>2 DEF IInv, TypeInv, TypeOK
<1>4. (pc'[Master] = "release") = (pc[Master] = "release")  BY <1>2, <1>3, TeamFacts
<1>5. Cur' = Cur /\ Opened' = Opened  BY <1>1, <1>4 DEF Cur, Opened
<1>6. \A u \in Threads : Current(u)' = Current(u) /\ Final(u)' = Final(u)
  BY <1>1, <1>2, <1>3, <1>5 DEF Current, Final
<1>7. Current(t) /\ ~Final(t)  BY <1>2 DEF IInv, Phases, Final
<1>8. /\ Children' /\ Located'
      /\ \A u \in Threads : Empty(u)' = Empty(u)
  BY <1>1, <1>5, SameTasks
<1>9. Apart'  BY <1>1, <1>5, <1>6, <1>8 DEF IInv, Apart
<1>10. Cur \in 0..1 /\ Cur # 1 - Cur /\ 1 - Cur \in 0..1  BY GenerationTypes DEF IInv
<1>11. /\ taskTeam'[Cur] = taskTeam[Cur]
       /\ taskTeam' \in [0..1 -> [active : BOOLEAN, found : BOOLEAN, unfinished : 0..N]]
       /\ taskTeam'[1 - Cur].active => taskTeam'[1 - Cur] = Fresh
       /\ pc'[Master] \in {"gather", "drain"} => taskTeam'[1 - Cur].active
  <2>1. /\ taskTeam \in [0..1 -> [active : BOOLEAN, found : BOOLEAN, unfinished : 0..N]]
        /\ taskTeam[1 - Cur].active => taskTeam[1 - Cur] = Fresh
        /\ pc[Master] \in {"gather", "drain"} => taskTeam[1 - Cur].active
    BY DEF IInv, TypeInv, TypeOK, Teams
  <2>2. CASE t # Master
    <3>1. taskTeam' = taskTeam /\ pc'[Master] = pc[Master]  BY <1>3, <2>2, TeamFacts DEF Enter
    <3> QED  BY <2>1, <3>1
  <2>3. CASE t = Master
    <3>1. state[Master] = Cur  BY <1>7, <2>3, CurrentTeam
    <3>2. IF taskTeam[1 - Cur].active THEN taskTeam' = taskTeam
                                      ELSE taskTeam' = [taskTeam EXCEPT ![1 - Cur] = Fresh]
      BY <2>3, <3>1 DEF Enter, Setup
    <3>3. Fresh \in [active : BOOLEAN, found : BOOLEAN, unfinished : 0..N] /\ Fresh.active
      BY TeamFacts DEF Fresh
    <3> QED  BY <1>10, <2>1, <3>2, <3>3
  <2> QED  BY <2>2, <2>3
<1>12. TypeInv'
  <2>1. pc' \in [Threads -> {"region", "gather", "drain", "final", "release"}]
        /\ mode' \in [Threads -> {"loop", "own", "steal", "count"}] /\ finished' \in [Threads -> BOOLEAN]
    BY <1>2 DEF IInv, TypeInv, TypeOK
  <2> QED  BY <1>1, <1>11, <2>1 DEF IInv, TypeInv, TypeOK, tasks
<1>13. Phases'  BY <1>1, <1>2, <1>3, <1>5, <1>6, <1>7 DEF IInv, Phases
<1>14. Arrivals'
  <2>1. \A u \in Workers : u \in Threads  BY TeamFacts
  <2> QED  BY <1>1, <1>2, <1>3, <1>6, <2>1 DEF IInv, Arrivals
<1>15. Teams'  BY <1>1, <1>5, <1>6, <1>11 DEF IInv, Teams
<1>16. Searches'
  <2>1. \A u \in Threads \ {t} : Running(u)' = Running(u) /\ Waiting(u)' = Waiting(u)
    BY <1>1, <1>3 DEF Running, Waiting, tasks
  <2>2. stack' = stack /\ fresh' = fresh /\ deque' = deque /\ teamOf' = teamOf  BY <1>1 DEF tasks
  <2> QED  BY <1>2, <1>3, <1>5, <1>6, <1>8, <2>1, <2>2 DEF IInv, Searches
<1>17. Counts'
  <2>1. Out' = Out  BY <1>3, <1>6, <1>7 DEF Out
  <2> QED  BY <1>5, <1>11, <2>1 DEF IInv, Counts
<1>18. Idle'  BY <1>3, <1>5, <1>6, <1>7, <1>8, <1>11 DEF IInv, Idle
<1> QED
  BY <1>8, <1>9, <1>12, <1>13, <1>14, <1>15, <1>16, <1>17, <1>18 DEF IInv
----------------------------------------------------------------------------
(* The barrier. *)

\* A wait of a thread ends with no task in its hands.
LEMMA WaitIdle ==
    ASSUME IInv, NEW t \in Threads, Waiting(t)
    PROVE  stack[t] = <<>> /\ fresh[t] = NoTask /\ round[t] < MaxRounds /\ pc[t] # "region"
BY DEF IInv, Searches, Phases, Waiting, Running

\* Worker t leaves the gather phase after everybody it gathers.
LEMMA ArriveKeeps ==
    ASSUME IInv, NEW t \in Threads, Arrive(t)
    PROVE  IInv'
<1>1. UNCHANGED <<taskTeam, deque, state, teamOf, round, go, mode, finished, tasks>>  BY DEF Arrive
<1>2. /\ t # Master /\ Waiting(t) /\ pc[t] = "gather" /\ mode[t] = "loop" /\ FlagDone(t)
      /\ arrived' = [arrived EXCEPT ![t] = round[t] + 1] /\ pc' = [pc EXCEPT ![t] = "final"]
  BY DEF Arrive, Ready, Goto
<1>3. /\ pc'[t] = "final" /\ \A u \in Threads \ {t} : pc'[u] = pc[u]
      /\ arrived'[t] = round[t] + 1 /\ \A u \in Threads \ {t} : arrived'[u] = arrived[u]
  BY <1>2 DEF IInv, TypeInv, TypeOK
<1>4. stack[t] = <<>> /\ fresh[t] = NoTask /\ round[t] < MaxRounds  BY <1>2, WaitIdle
<1>5. pc'[Master] = pc[Master] /\ t \in Workers  BY <1>2, <1>3, TeamFacts
<1>6. Cur' = Cur /\ Opened' = Opened  BY <1>1, <1>5 DEF Cur, Opened
<1>7. \A u \in Threads : Current(u)' = Current(u)  BY <1>1, <1>6 DEF Current
<1>8. Current(t) /\ ~finished[t]  BY <1>2 DEF IInv, Phases, Searches
<1>9. /\ Children' /\ Located'
      /\ \A u \in Threads : Empty(u)' = Empty(u)
  BY <1>1, <1>6, SameTasks
<1>10. \A u \in Threads : (Final(u) /\ finished[u])' = (Final(u) /\ finished[u])
  BY <1>1, <1>3, <1>8 DEF Final
<1>11. Apart' /\ Teams'  BY <1>1, <1>5, <1>6, <1>7, <1>9 DEF IInv, Apart, Teams
<1>12. TypeInv'
  <2>1. round[t] \in 0..MaxRounds  BY DEF IInv, TypeInv, TypeOK
  <2>2. round[t] + 1 \in 0..MaxRounds  BY <1>4, <2>1, TeamFacts
  <2>3. arrived' \in [Threads -> 0..MaxRounds]  BY <1>2, <2>2 DEF IInv, TypeInv, TypeOK
  <2>4. pc' \in [Threads -> {"region", "gather", "drain", "final", "release"}]
    BY <1>2 DEF IInv, TypeInv, TypeOK
  <2> QED  BY <1>1, <2>3, <2>4 DEF IInv, TypeInv, TypeOK, tasks
<1>13. Phases'  BY <1>1, <1>2, <1>3, <1>4, <1>6, <1>7, <1>8 DEF IInv, Phases
<1>14. Arrivals'
  <2>1. \A u \in Threads : round[u] \in Nat /\ arrived[u] \in Nat
    <3>1. 0..MaxRounds \subseteq Nat  BY TeamFacts
    <3> QED  BY <3>1 DEF IInv, TypeInv, TypeOK
  <2>2. arrived[t] = round[t] /\ ~go[t]  BY <1>2, <1>5 DEF IInv, Arrivals
  <2>3. \A u \in Threads : arrived[u] <= arrived'[u]  BY <1>3, <2>1, <2>2
  <2>4. \A u \in Gathers[t] : arrived'[u] = round[t] + 1
    <3>1. \A u \in Gathers[t] : arrived[u] = round[t] + 1 /\ u \in Threads
      BY <1>2, TeamFacts DEF FlagDone
    <3> QED  BY <1>3, <3>1
  <2>5. ASSUME NEW w \in Workers
        PROVE  /\ arrived'[w] = IF pc'[w] \in {"final", "release"} THEN round[w] + 1 ELSE round[w]
               /\ \A u \in Gathers[w] : arrived'[w] <= arrived'[u]
               /\ go[w] => pc'[w] = "final" /\ ~Current(w)
    <3>1. CASE w = t
      <4>1. \A u \in Gathers[t] : arrived'[t] <= arrived'[u]
        <5>1. round[t] + 1 \in Nat /\ round[t] + 1 <= round[t] + 1  BY <2>1
        <5> QED  BY <1>3, <2>4, <5>1
      <4> QED  BY <1>3, <2>2, <3>1, <4>1
    <3>2. CASE w # t
      <4>1. w \in Threads /\ arrived'[w] = arrived[w] /\ pc'[w] = pc[w]  BY <1>3, <3>2, TeamFacts
      <4>2. /\ arrived[w] = IF pc[w] \in {"final", "release"} THEN round[w] + 1 ELSE round[w]
            /\ \A u \in Gathers[w] : arrived[w] <= arrived[u]
            /\ go[w] => pc[w] = "final" /\ ~Current(w)
        BY DEF IInv, Arrivals
      <4>3. \A u \in Gathers[w] : u \in Threads  BY <4>1, TeamFacts
      <4>4. ASSUME NEW u \in Gathers[w] PROVE arrived'[w] <= arrived'[u]
        <5>1. arrived[w] <= arrived[u] /\ arrived[u] <= arrived'[u] /\ u \in Threads
          BY <2>3, <4>2, <4>3
        <5>2. arrived[w] \in Nat /\ arrived[u] \in Nat /\ arrived'[u] \in Nat
          BY <1>3, <2>1, <4>1, <5>1
        <5> QED  BY <4>1, <5>1, <5>2
      <4> QED  BY <4>1, <4>2, <4>4
    <3> QED  BY <3>1, <3>2
  <2>6. \A w \in Workers : w \in Threads  BY TeamFacts
  <2> QED  BY <1>1, <1>7, <2>5, <2>6 DEF Arrivals
<1>15. Searches'
  <2>1. stack' = stack /\ fresh' = fresh /\ deque' = deque /\ teamOf' = teamOf
        /\ mode' = mode /\ finished' = finished
    BY <1>1 DEF tasks
  <2>2. \A u \in Threads \ {t} : Running(u)' = Running(u) /\ Waiting(u)' = Waiting(u)
    BY <1>3, <2>1 DEF Running, Waiting
  <2> QED
    BY <1>2, <1>3, <1>4, <1>6, <1>7, <1>8, <1>9, <1>10, <2>1, <2>2 DEF IInv, Searches
<1>16. Counts'
  <2>1. Out' = Out  BY <1>7, <1>10 DEF Out
  <2> QED  BY <1>1, <1>6, <2>1 DEF IInv, Counts
<1>17. Idle'  BY <1>1, <1>6, <1>7, <1>9, <1>10 DEF IInv, Idle
<1> QED  BY <1>9, <1>11, <1>12, <1>13, <1>14, <1>15, <1>16, <1>17 DEF IInv

LEMMA SeeGoKeeps ==
    ASSUME IInv, NEW t \in Threads, SeeGo(t)
    PROVE  IInv'
<1>1. UNCHANGED <<taskTeam, deque, state, teamOf, round, arrived, mode, finished, tasks>>  BY DEF SeeGo
<1>2. /\ t # Master /\ Waiting(t) /\ pc[t] = "final" /\ mode[t] = "loop" /\ go[t]
      /\ go' = [go EXCEPT ![t] = FALSE] /\ pc' = [pc EXCEPT ![t] = "release"]
  BY DEF SeeGo, Ready, Goto, FlagDone
<1>3. pc'[t] = "release" /\ \A u \in Threads \ {t} : pc'[u] = pc[u]
  BY <1>2 DEF IInv, TypeInv, TypeOK
<1>4. stack[t] = <<>> /\ fresh[t] = NoTask /\ round[t] < MaxRounds  BY <1>2, WaitIdle
<1>5. pc'[Master] = pc[Master] /\ t \in Workers  BY <1>2, <1>3, TeamFacts
<1>6. Cur' = Cur /\ Opened' = Opened  BY <1>1, <1>5 DEF Cur, Opened
<1>7. \A u \in Threads : Current(u)' = Current(u)  BY <1>1, <1>6 DEF Current
<1>8. ~Current(t)  BY <1>2, <1>5 DEF IInv, Arrivals
<1>9. /\ Children' /\ Located'
      /\ \A u \in Threads : Empty(u)' = Empty(u)
  BY <1>1, <1>6, SameTasks
<1>10. \A u \in Threads \ {t} : Final(u)' = Final(u)  BY <1>3 DEF Final
<1>11. Apart' /\ Teams'  BY <1>1, <1>5, <1>6, <1>7, <1>9 DEF IInv, Apart, Teams
<1>12. go' \in [Workers -> BOOLEAN] /\ go'[t] = FALSE /\ \A u \in Workers \ {t} : go'[u] = go[u]
  BY <1>2, <1>5 DEF IInv, TypeInv, TypeOK
<1>13. TypeInv'
  <2>1. pc' \in [Threads -> {"region", "gather", "drain", "final", "release"}]
    BY <1>2 DEF IInv, TypeInv, TypeOK
  <2> QED  BY <1>1, <1>12, <2>1 DEF IInv, TypeInv, TypeOK, tasks
<1>14. Phases'
  <2>1. round[t] + 1 = Opened  BY <1>8 DEF IInv, Phases
  <2> QED  BY <1>1, <1>2, <1>3, <1>4, <1>6, <1>7, <1>8, <2>1 DEF IInv, Phases
<1>15. Arrivals'
  <2>1. \A u \in Workers : u \in Threads  BY TeamFacts
  <2> QED  BY <1>1, <1>2, <1>3, <1>7, <1>12, <2>1 DEF IInv, Arrivals
<1>16. Searches'
  <2>1. stack' = stack /\ fresh' = fresh /\ deque' = deque /\ teamOf' = teamOf
        /\ mode' = mode /\ finished' = finished
    BY <1>1 DEF tasks
  <2>2. \A u \in Threads \ {t} : Running(u)' = Running(u) /\ Waiting(u)' = Waiting(u)
    BY <1>3, <2>1 DEF Running, Waiting
  <2>3. ~Waiting(t)' /\ ~Final(t)'  BY <1>3 DEF Waiting, Final
  <2> QED
    BY <1>2, <1>3, <1>4, <1>6, <1>7, <1>9, <1>10, <2>1, <2>2, <2>3 DEF IInv, Searches
<1>17. Counts'
  <2>1. Out' = Out  BY <1>1, <1>7, <1>8, <1>10 DEF Out
  <2> QED  BY <1>1, <1>6, <2>1 DEF IInv, Counts
<1>18. Idle'  BY <1>1, <1>6, <1>7, <1>8, <1>9, <1>10 DEF IInv, Idle
<1> QED  BY <1>9, <1>11, <1>13, <1>14, <1>15, <1>16, <1>17, <1>18 DEF IInv

LEMMA ReleaseChildKeeps ==
    ASSUME IInv, NEW t \in Threads, NEW u \in Gathers[t], ReleaseChild(t, u)
    PROVE  IInv'
<1>1. UNCHANGED <<taskTeam, deque, state, teamOf, round, arrived, pc, mode, finished, tasks>>
  BY DEF ReleaseChild
<1>2. pc[t] = "release" /\ pc[u] = "final" /\ round[u] = round[t] /\ go' = [go EXCEPT ![u] = TRUE]
  BY DEF ReleaseChild
<1>3. u \in Workers /\ u \in Threads  BY TeamFacts
<1>4. ~Current(u)  BY <1>2 DEF IInv, Phases, Current
<1>5. Cur' = Cur /\ Opened' = Opened  BY <1>1 DEF Cur, Opened
<1>6. \A v \in Threads : Current(v)' = Current(v) /\ Final(v)' = Final(v)
  BY <1>1, <1>5 DEF Current, Final
<1>7. /\ Children' /\ Located'
      /\ \A v \in Threads : Empty(v)' = Empty(v) /\ Running(v)' = Running(v) /\ Waiting(v)' = Waiting(v)
  BY <1>1, <1>5, SameTasks DEF tasks, Running, Waiting
<1>8. go' \in [Workers -> BOOLEAN] /\ \A v \in Workers \ {u} : go'[v] = go[v]
  BY <1>2, <1>3 DEF IInv, TypeInv, TypeOK
<1>9. TypeInv'  BY <1>1, <1>8 DEF IInv, TypeInv, TypeOK, tasks
<1>10. Phases' /\ Teams' /\ Apart'
  BY <1>1, <1>5, <1>6, <1>7 DEF IInv, Phases, Teams, Apart
<1>11. Arrivals'
  <2>1. \A v \in Workers : v \in Threads  BY TeamFacts
  <2> QED  BY <1>1, <1>2, <1>4, <1>6, <1>8, <2>1 DEF IInv, Arrivals
<1>12. Searches'
  <2>1. stack' = stack /\ fresh' = fresh /\ deque' = deque  BY <1>1 DEF tasks
  <2> QED  BY <1>1, <1>5, <1>6, <1>7, <2>1 DEF IInv, Searches
<1>13. Counts'
  <2>1. Out' = Out  BY <1>1, <1>6 DEF Out
  <2> QED  BY <1>1, <1>5, <2>1 DEF IInv, Counts
<1>14. Idle'  BY <1>1, <1>5, <1>6, <1>7 DEF IInv, Idle
<1> QED  BY <1>7, <1>9, <1>10, <1>11, <1>12, <1>13, <1>14 DEF IInv

\* A thread that leaves turns to the task team of the threads that have left before.
LEMMA LeaveKeeps ==
    ASSUME IInv, NEW t \in Threads, Leave(t)
    PROVE  IInv' /\ Cur' = Cur /\ Opened' = Opened
<1>1. UNCHANGED <<taskTeam, deque, arrived, go, mode, finished, tasks>>  BY DEF Leave
<1>2. /\ pc[t] = "release" /\ pc' = [pc EXCEPT ![t] = "region"]
      /\ state' = [state EXCEPT ![t] = 1 - @] /\ teamOf' = [teamOf EXCEPT ![t] = 1 - state[t]]
      /\ round' = [round EXCEPT ![t] = @ + 1]
  BY DEF Leave, Goto
<1>3. /\ pc'[t] = "region" /\ state'[t] = 1 - state[t] /\ teamOf'[t] = 1 - state[t]
      /\ round'[t] = round[t] + 1
      /\ \A u \in Threads \ {t} : pc'[u] = pc[u] /\ state'[u] = state[u] /\ teamOf'[u] = teamOf[u]
                                  /\ round'[u] = round[u]
  BY <1>2 DEF IInv, TypeInv, TypeOK
<1>4. Cur' = Cur /\ Opened' = Opened
  <2>1. CASE t = Master  BY <1>2, <1>3, <2>1 DEF Cur, Opened
  <2>2. CASE t # Master
    <3>1. pc'[Master] = pc[Master] /\ state'[Master] = state[Master] /\ round'[Master] = round[Master]
      BY <1>3, <2>2, TeamFacts
    <3> QED  BY <3>1 DEF Cur, Opened
  <2> QED  BY <2>1, <2>2
<1>5. ~Current(t) /\ round[t] + 1 = Opened /\ round[t] < MaxRounds /\ state[t] = 1 - Cur /\ mode[t] = "loop"
  BY <1>2 DEF IInv, Phases, Searches
<1>6. Cur \in 0..1 /\ state[t] \in 0..1  BY GenerationTypes DEF IInv, TypeInv, TypeOK
<1>7. state'[t] = Cur /\ teamOf'[t] = Cur  BY <1>3, <1>5, <1>6
<1>8. Current(t)' /\ \A u \in Threads \ {t} : Current(u)' = Current(u) /\ Final(u)' = Final(u)
  BY <1>3, <1>4, <1>5 DEF Current, Final
<1>9. Empty(t) /\ ~Final(t)'  BY <1>3, <1>5 DEF IInv, Apart, Final
<1>10. /\ Children' /\ Located'
       /\ \A u \in Threads : Empty(u)' = Empty(u)
  BY <1>1, <1>4, SameTasks
<1>11. Apart'  BY <1>1, <1>4, <1>8, <1>10 DEF IInv, Apart
<1>12. TypeInv'
  <2>1. round[t] < MaxRounds /\ round[t] \in 0..MaxRounds  BY <1>5 DEF IInv, TypeInv, TypeOK
  <2>2. round[t] + 1 \in 0..MaxRounds  BY <2>1, TeamFacts
  <2>3. 1 - state[t] \in 0..1  BY <1>6
  <2>4. /\ round' \in [Threads -> 0..MaxRounds] /\ state' \in [Threads -> 0..1] /\ teamOf' \in [Threads -> 0..2]
        /\ pc' \in [Threads -> {"region", "gather", "drain", "final", "release"}]
    BY <1>2, <2>2, <2>3 DEF IInv, TypeInv, TypeOK
  <2> QED  BY <1>1, <2>4 DEF IInv, TypeInv, TypeOK, tasks
<1>13. Phases'
  <2>1. ASSUME NEW u \in Threads \ {t}
        PROVE  /\ Current(u)' \/ (round'[u] + 1 = Opened' /\ pc'[u] \in {"final", "release"})
               /\ pc'[u] = "release" => ~Current(u)'
               /\ pc'[u] # "region" => round'[u] < MaxRounds
               /\ pc'[u] # IF u = Master THEN "final" ELSE "drain"
               /\ state'[u] = IF Current(u)' THEN Cur' ELSE 1 - Cur'
    BY <1>3, <1>4, <1>8 DEF IInv, Phases
  <2> QED  BY <1>3, <1>4, <1>7, <1>8, <2>1 DEF Phases
<1>14. Arrivals'
  <2>1. ASSUME NEW w \in Workers
        PROVE  /\ arrived[w] = IF pc'[w] \in {"final", "release"} THEN round'[w] + 1 ELSE round'[w]
               /\ go[w] => pc'[w] = "final" /\ ~Current(w)'
    <3>1. w \in Threads  BY TeamFacts
    <3>2. /\ arrived[w] = IF pc[w] \in {"final", "release"} THEN round[w] + 1 ELSE round[w]
          /\ go[w] => pc[w] = "final" /\ ~Current(w)
      BY DEF IInv, Arrivals
    <3>3. CASE w = t  BY <1>2, <1>3, <3>2, <3>3
    <3>4. CASE w # t  BY <1>3, <1>8, <3>1, <3>2, <3>4
    <3> QED  BY <3>3, <3>4
  <2> QED  BY <1>1, <2>1 DEF IInv, Arrivals
<1>15. Teams'
  <2>1. pc'[Master] \in {"gather", "drain"} => pc[Master] \in {"gather", "drain"}
    BY <1>3, TeamFacts
  <2> QED  BY <1>1, <1>3, <1>4, <1>7, <1>8, <2>1 DEF IInv, Teams
<1>16. Searches'
  <2>1. stack' = stack /\ fresh' = fresh /\ deque' = deque /\ mode' = mode /\ finished' = finished
    BY <1>1 DEF tasks
  <2>2. \A u \in Threads \ {t} : Running(u)' = Running(u) /\ Waiting(u)' = Waiting(u)
    BY <1>3, <2>1 DEF Running, Waiting
  <2>3. stack[t] = <<>> /\ fresh[t] = NoTask  BY <1>9 DEF Empty
  <2> QED
    BY <1>3, <1>4, <1>5, <1>8, <1>9, <1>10, <2>1, <2>2, <2>3 DEF IInv, Searches
<1>17. Counts'
  <2>1. Out' = Out  BY <1>1, <1>5, <1>8, <1>9 DEF Out
  <2> QED  BY <1>1, <1>4, <2>1 DEF IInv, Counts
<1>18. Idle'  BY <1>1, <1>4, <1>5, <1>8, <1>9, <1>10 DEF IInv, Idle
<1> QED
  BY <1>4, <1>10, <1>11, <1>12, <1>13, <1>14, <1>15, <1>16, <1>17, <1>18 DEF IInv

\* The master begins its last wait if tasks were found.
LEMMA DrainKeeps ==
    ASSUME IInv, Ready(Master, "gather"), pc' = [pc EXCEPT ![Master] = "drain"],
           UNCHANGED <<taskTeam, deque, state, teamOf, round, arrived, go, mode, finished, tasks>>
    PROVE  IInv'
<1>1. Master \in Threads /\ Master \notin Workers /\ Workers \subseteq Threads
  BY TeamFacts, TeamAssumption DEF TeamAssumption
<1>2. Waiting(Master) /\ pc[Master] = "gather" /\ mode[Master] = "loop"  BY DEF Ready
<1>3. pc'[Master] = "drain" /\ \A u \in Threads \ {Master} : pc'[u] = pc[u]
  BY <1>1 DEF IInv, TypeInv, TypeOK
<1>4. stack[Master] = <<>> /\ fresh[Master] = NoTask /\ round[Master] < MaxRounds  BY <1>1, <1>2, WaitIdle
<1>5. Cur' = Cur /\ Opened' = Opened  BY <1>2, <1>3 DEF Cur, Opened
<1>6. \A u \in Threads : Current(u)' = Current(u)  BY <1>5 DEF Current
<1>7. Current(Master) /\ ~finished[Master]  BY <1>1, <1>2 DEF IInv, Phases, Searches
<1>8. /\ Children' /\ Located'
      /\ \A u \in Threads : Empty(u)' = Empty(u)
  BY <1>5, SameTasks
<1>9. \A u \in Threads : (Final(u) /\ finished[u])' = (Final(u) /\ finished[u])
  BY <1>3, <1>7 DEF Final
<1>10. Apart' /\ Teams'  BY <1>2, <1>3, <1>5, <1>6, <1>8 DEF IInv, Apart, Teams
<1>11. TypeInv'
  <2>1. pc' \in [Threads -> {"region", "gather", "drain", "final", "release"}]
    BY DEF IInv, TypeInv, TypeOK
  <2> QED  BY <2>1 DEF IInv, TypeInv, TypeOK, tasks
<1>12. Phases'  BY <1>2, <1>3, <1>4, <1>5, <1>6, <1>7 DEF IInv, Phases
<1>13. Arrivals'
  <2>1. \A w \in Workers : pc'[w] = pc[w] /\ Current(w)' = Current(w)  BY <1>1, <1>3, <1>6
  <2> QED  BY <2>1 DEF IInv, Arrivals
<1>14. Searches'
  <2>1. stack' = stack /\ fresh' = fresh /\ deque' = deque /\ teamOf' = teamOf
        /\ mode' = mode /\ finished' = finished
    BY DEF tasks
  <2>2. \A u \in Threads \ {Master} : Running(u)' = Running(u) /\ Waiting(u)' = Waiting(u)
    BY <1>3, <2>1 DEF Running, Waiting
  <2> QED
    BY <1>1, <1>2, <1>3, <1>4, <1>5, <1>6, <1>7, <1>8, <1>9, <2>1, <2>2 DEF IInv, Searches
<1>15. Counts'
  <2>1. Out' = Out  BY <1>6, <1>9 DEF Out
  <2> QED  BY <1>5, <2>1 DEF IInv, Counts
<1>16. Idle'  BY <1>5, <1>6, <1>8, <1>9 DEF IInv, Idle
<1> QED  BY <1>8, <1>10, <1>11, <1>12, <1>13, <1>14, <1>15, <1>16 DEF IInv

(* The barrier opens: everybody is in it and without tasks. *)
AllIn == \A t \in Threads :
    /\ Current(t) /\ Empty(t) /\ (mode[t] = "loop" \/ finished[t])
    /\ pc[t] \in IF t = Master THEN {"gather", "drain"} ELSE {"final"}

LEMMA OpenKeeps ==
    ASSUME IInv, AllIn, mode[Master] = "loop", pc' = [pc EXCEPT ![Master] = "release"],
           UNCHANGED <<deque, state, round, arrived, go, mode, finished, tasks>>,
           taskTeam' \in [0..1 -> [active : BOOLEAN, found : BOOLEAN, unfinished : 0..N]],
           taskTeam'[1 - Cur] = taskTeam[1 - Cur], taskTeam'[Cur].active => taskTeam'[Cur] = Fresh,
           teamOf' \in [Threads -> 0..2],
           \A t \in Threads : teamOf'[t] = teamOf[t] \/ (t = Master /\ teamOf'[t] = None)
    PROVE  IInv' /\ Opened' = Opened + 1
<1>1. Master \in Threads /\ Master \notin Workers /\ Workers \subseteq Threads
  BY TeamFacts, TeamAssumption DEF TeamAssumption
<1>2. pc'[Master] = "release" /\ \A u \in Threads \ {Master} : pc'[u] = pc[u] /\ pc[u] = "final"
  BY <1>1 DEF IInv, TypeInv, TypeOK, AllIn
<1>3. pc[Master] \in {"gather", "drain"}  BY <1>1 DEF AllIn
<1>4. Cur' = 1 - Cur /\ Opened = round[Master] /\ Opened' = Opened + 1
  BY <1>2, <1>3 DEF Cur, Opened
<1>5. Cur \in 0..1 /\ Cur # 1 - Cur /\ 1 - Cur \in 0..1 /\ 1 - Cur' = Cur /\ Opened \in Nat
  BY <1>4, GenerationTypes DEF IInv
<1>6. \A u \in Threads : round[u] = Opened /\ Empty(u) /\ state[u] = Cur
  BY CurrentTeam DEF AllIn, Current
<1>7. \A u \in Threads : ~Current(u)'  BY <1>4, <1>5, <1>6 DEF Current
<1>8. \A u \in Threads : stack[u] = <<>> /\ fresh[u] = NoTask /\ deque[Cur][u] = <<>> /\ deque[1 - Cur][u] = <<>>
  BY <1>6 DEF Empty, IInv, Apart
<1>9. \A u \in Threads : Empty(u)'  BY <1>4, <1>8 DEF Empty, tasks
<1>10. Apart'  BY <1>4, <1>5, <1>8, <1>9 DEF Apart
<1>11. TypeInv'
  <2>1. pc' \in [Threads -> {"region", "gather", "drain", "final", "release"}]
    BY DEF IInv, TypeInv, TypeOK
  <2> QED  BY <2>1 DEF IInv, TypeInv, TypeOK, tasks
<1>12. Phases'
  <2>1. \A u \in Threads : round[u] < MaxRounds
    BY DEF IInv, Phases, AllIn
  <2> QED  BY <1>2, <1>4, <1>5, <1>6, <1>7, <2>1 DEF Phases
<1>13. Arrivals'
  <2>1. \A w \in Workers : pc'[w] = pc[w] /\ ~Current(w)'  BY <1>1, <1>2, <1>7
  <2> QED  BY <2>1 DEF IInv, Arrivals
<1>14. taskTeam[1 - Cur] = Fresh /\ taskTeam[1 - Cur].active  BY <1>3 DEF IInv, Teams
<1>15. Teams'
  <2>1. \A u \in Threads : teamOf'[u] = state[u] \/ teamOf'[u] = None
    BY DEF IInv, Teams
  <2> QED  BY <1>2, <1>4, <1>5, <1>7, <1>14, <2>1 DEF Teams
<1>16. Searches'
  <2>1. stack' = stack /\ fresh' = fresh /\ deque' = deque /\ mode' = mode /\ finished' = finished
    BY DEF tasks
  <2>2. \A u \in Threads : mode[u] = "loop" \/ (finished[u] /\ u # Master /\ teamOf'[u] = teamOf[u])
    BY DEF AllIn
  <2> QED
    BY <1>2, <1>4, <1>8, <1>9, <2>1, <2>2 DEF IInv, Searches
<1>17. Counts'
  <2>1. Out' = {}  BY <1>7 DEF Out
  <2> QED  BY <1>4, <1>14, <2>1, FS_EmptySet, TeamFacts DEF Counts, Fresh
<1>18. Idle'  BY <1>7 DEF Idle
<1>19. Children' /\ Located'
  <2>1. \A u \in Threads : Queue(u, "deque")' = Queue(u, "deque") /\ Queue(u, "stack")' = Queue(u, "stack")
                           /\ Queue(u, "fresh")' = Queue(u, "fresh")
    BY <1>4, <1>8 DEF Queue, tasks
  <2>2. \A k \in Keys : k[1] \in Threads /\ k[2] \in Kinds  BY DEF Keys
  <2>3. Held' = Held  BY <2>1, <2>2 DEF Held, Kinds
  <2>4. \A u \in Threads : ChildrenOf(u)' = ChildrenOf(u)  BY DEF ChildrenOf, tasks
  <2> QED  BY <2>3, <2>4 DEF IInv, Located, Has, Once, Children, tasks
<1> QED
  BY <1>4, <1>10, <1>11, <1>12, <1>13, <1>15, <1>16, <1>17, <1>18, <1>19 DEF IInv

\* The master has seen everybody arrive, and nobody has ever had a task.
LEMMA GatheredAllIn ==
    ASSUME IInv, Ready(Master, "gather"), ~taskTeam[Cur].found
    PROVE  AllIn
<1>1. Master \in Threads /\ Workers \subseteq Threads /\ \A t \in Threads : Gathers[t] \subseteq Workers
  BY TeamFacts
<1>2. /\ pc[Master] = "gather" /\ mode[Master] = "loop"
      /\ \A u \in Gathers[Master] : arrived[u] = round[Master] + 1
  BY DEF Ready, FlagDone
<1>3. Opened = round[Master]  BY <1>2 DEF Opened
<1>4. \A t \in Threads : round[t] \in Nat /\ arrived[t] \in Nat
  <2>1. 0..MaxRounds \subseteq Nat  BY TeamFacts
  <2> QED  BY <2>1 DEF IInv, TypeInv, TypeOK
<1> DEFINE S == {t \in Threads : t = Master \/ arrived[t] >= Opened + 1}
<1>5. \A t \in S : Gathers[t] \subseteq S
  <2> SUFFICES ASSUME NEW t \in S, NEW u \in Gathers[t] PROVE u \in S
    OBVIOUS
  <2>1. u \in Workers /\ u \in Threads  BY <1>1
  <2>2. CASE t = Master
    <3>1. arrived[u] = Opened + 1 /\ arrived[u] \in Nat  BY <1>2, <1>3, <1>4, <2>1, <2>2
    <3> QED  BY <2>1, <3>1
  <2>3. CASE t # Master
    <3>1. t \in Workers /\ t \in Threads /\ arrived[t] >= Opened + 1  BY <2>3, TeamFacts
    <3>2. arrived[t] <= arrived[u]  BY <3>1 DEF IInv, Arrivals
    <3>3. arrived[t] \in Nat /\ arrived[u] \in Nat /\ Opened \in Nat  BY <1>1, <1>3, <1>4, <2>1, <3>1
    <3>4. arrived[u] >= Opened + 1  BY <3>1, <3>2, <3>3
    <3> QED  BY <2>1, <3>4
  <2> QED  BY <2>2, <2>3
<1>6. S = Threads
  <2>1. S \in SUBSET Threads /\ Master \in S  BY <1>1
  <2> HIDE DEF S
  <2> QED  BY <1>5, <2>1, SpanAssumption DEF SpanAssumption
<1>7. ASSUME NEW t \in Threads
      PROVE  Current(t) /\ pc[t] \in IF t = Master THEN {"gather", "drain"} ELSE {"final"}
  <2>1. CASE t = Master  BY <1>2, <1>3, <2>1 DEF Current
  <2>2. CASE t # Master
    <3>1. t \in Workers /\ arrived[t] >= Opened + 1  BY <1>6, <2>2, TeamFacts
    <3>2. arrived[t] = IF pc[t] \in {"final", "release"} THEN round[t] + 1 ELSE round[t]
      BY <3>1 DEF IInv, Arrivals
    <3>3. round[t] = Opened \/ round[t] + 1 = Opened  BY DEF IInv, Phases, Current
    <3>4. round[t] \in Nat /\ Opened \in Nat  BY <1>1, <1>3, <1>4
    <3>5. round[t] = Opened /\ pc[t] \in {"final", "release"}  BY <3>1, <3>2, <3>3, <3>4
    <3>6. Current(t)  BY <3>5 DEF Current
    <3>7. pc[t] # "release"  BY <3>6 DEF IInv, Phases
    <3> QED  BY <2>2, <3>5, <3>6, <3>7
  <2> QED  BY <2>1, <2>2
<1>8. \A t \in Threads : mode[t] = "loop" /\ Empty(t)  BY <1>7 DEF IInv, Idle
<1> QED  BY <1>7, <1>8 DEF AllIn

\* The master has seen unfinished_threads at zero: everybody has counted himself out.
LEMMA DrainedAllIn ==
    ASSUME IInv, Ready(Master, "drain")
    PROVE  AllIn
<1>1. Master \in Threads /\ N \in Nat  BY TeamFacts
<1>2. pc[Master] = "drain" /\ taskTeam[state[Master]].unfinished = 0
  BY DEF Ready, FlagDone
<1>3. state[Master] = Cur  BY <1>2 DEF Cur
<1>4. Out = Threads
  <2>1. N - Cardinality(Out) = 0 /\ Cardinality(Out) \in Nat
    BY <1>2, <1>3, OutFinite, TeamFacts DEF IInv, Counts
  <2>2. Cardinality(Out) = N  BY <1>1, <2>1
  <2> QED  BY <2>2, OutFinite
<1>5. \A t \in Threads : Final(t) /\ finished[t] /\ Current(t)
  <2>1. \A t \in Out : Final(t) /\ finished[t] /\ Current(t)  BY DEF Out
  <2> QED  BY <1>4, <2>1
<1>6. \A t \in Threads : Empty(t)  BY <1>5 DEF IInv, Searches
<1>7. \A t \in Threads : pc[t] \in IF t = Master THEN {"gather", "drain"} ELSE {"final"}
  BY <1>2, <1>5 DEF Final, IInv, Phases
<1> QED  BY <1>5, <1>6, <1>7 DEF AllIn

LEMMA GatheredKeeps ==
    ASSUME IInv, Gathered
    PROVE  /\ IInv'
           /\ IF taskTeam[Cur].found THEN Opened' = Opened ELSE AllIn /\ Opened' = Opened + 1
<1>1. UNCHANGED <<taskTeam, deque, state, teamOf, round, arrived, go, mode, finished, tasks>>
  BY DEF Gathered
<1>2. Ready(Master, "gather") /\ pc[Master] = "gather" /\ mode[Master] = "loop"  BY DEF Gathered, Ready
<1>3. state[Master] = Cur  BY <1>2 DEF Cur
<1>4. pc' = [pc EXCEPT ![Master] = IF taskTeam[Cur].found THEN "drain" ELSE "release"]
  BY <1>3 DEF Gathered, Goto
<1>5. CASE taskTeam[Cur].found
  <2>1. pc' = [pc EXCEPT ![Master] = "drain"]  BY <1>4, <1>5
  <2>2. pc'[Master] = "drain"  BY <2>1, TeamFacts DEF IInv, TypeInv, TypeOK
  <2>3. Opened' = Opened  BY <1>1, <1>2, <2>2 DEF Opened
  <2> QED  BY <1>1, <1>2, <1>5, <2>1, <2>3, DrainKeeps
<1>6. CASE ~taskTeam[Cur].found
  <2>1. pc' = [pc EXCEPT ![Master] = "release"]  BY <1>4, <1>6
  <2>2. AllIn  BY <1>2, <1>6, GatheredAllIn
  <2>3. Out = {}  BY <1>6 DEF Out, IInv, Idle
  <2>4. taskTeam[Cur].unfinished = N  BY <2>3, FS_EmptySet, TeamFacts DEF IInv, Counts
  <2>5. taskTeam[Cur] \in [active : BOOLEAN, found : BOOLEAN, unfinished : 0..N] /\ taskTeam[Cur].active
    BY GenerationTypes DEF IInv, TypeInv, TypeOK, Teams
  <2>6. taskTeam'[Cur] = Fresh  BY <1>1, <1>6, <2>4, <2>5 DEF Fresh
  <2>7. taskTeam' \in [0..1 -> [active : BOOLEAN, found : BOOLEAN, unfinished : 0..N]]
        /\ teamOf' \in [Threads -> 0..2]
    BY <1>1 DEF IInv, TypeInv, TypeOK
  <2> QED  BY <1>1, <1>2, <1>6, <2>1, <2>2, <2>6, <2>7, OpenKeeps
<1> QED  BY <1>5, <1>6

LEMMA DrainedKeeps ==
    ASSUME IInv, Drained
    PROVE  IInv' /\ AllIn /\ Opened' = Opened + 1
<1>1. /\ Ready(Master, "drain") /\ pc[Master] = "drain" /\ mode[Master] = "loop"
      /\ taskTeam' = [taskTeam EXCEPT ![state[Master]].active = FALSE]
      /\ teamOf' = [teamOf EXCEPT ![Master] = None]
      /\ pc' = [pc EXCEPT ![Master] = "release"]
      /\ UNCHANGED <<deque, state, round, arrived, go, mode, finished, tasks>>
  BY DEF Drained, Ready, Goto
<1>2. AllIn  BY <1>1, DrainedAllIn
<1>3. state[Master] = Cur  BY <1>1 DEF Cur
<1>4. Cur \in 0..1 /\ 1 - Cur \in 0..1 /\ Cur # 1 - Cur  BY GenerationTypes DEF IInv
<1>5. /\ taskTeam'[1 - Cur] = taskTeam[1 - Cur] /\ ~taskTeam'[Cur].active
      /\ taskTeam' \in [0..1 -> [active : BOOLEAN, found : BOOLEAN, unfinished : 0..N]]
  <2>1. taskTeam \in [0..1 -> [active : BOOLEAN, found : BOOLEAN, unfinished : 0..N]]
    BY DEF IInv, TypeInv, TypeOK
  <2> QED  BY <1>1, <1>3, <1>4, <2>1
<1>6. /\ teamOf' \in [Threads -> 0..2]
      /\ \A t \in Threads : teamOf'[t] = teamOf[t] \/ (t = Master /\ teamOf'[t] = None)
  <2>1. teamOf \in [Threads -> 0..2] /\ None \in 0..2  BY DEF IInv, TypeInv, TypeOK, None
  <2>2. teamOf' = [teamOf EXCEPT ![Master] = None]  BY <1>1
  <2> QED  BY <2>1, <2>2
<1> QED  BY <1>1, <1>2, <1>5, <1>6, OpenKeeps

LEMMA StutterKeeps == IInv /\ UNCHANGED vars => IInv'
<1> SUFFICES ASSUME IInv, UNCHANGED vars PROVE IInv'
  OBVIOUS
<1>1. UNCHANGED <<taskTeam, deque, state, teamOf, round, arrived, go, pc, mode, finished, tasks>>
  BY DEF vars, barrier
<1>2. /\ Cur' = Cur /\ Opened' = Opened /\ Phases' /\ Arrivals'
      /\ \A u \in Threads : Current(u)' = Current(u) /\ Final(u)' = Final(u)
  BY <1>1, SameBarrier
<1>3. /\ Children' /\ Located'
      /\ \A u \in Threads : Empty(u)' = Empty(u) /\ Running(u)' = Running(u) /\ Waiting(u)' = Waiting(u)
  BY <1>1, <1>2, SameTasks DEF tasks, Running, Waiting
<1>4. Counts' /\ Teams'  BY <1>1, SameOut, SameTeams
<1>5. Apart' /\ Idle'  BY <1>1, <1>2, <1>3 DEF IInv, Apart, Idle
<1>6. TypeInv'  BY <1>1 DEF IInv, TypeInv, TypeOK, tasks
<1>7. Searches'  BY <1>1, <1>2, <1>3 DEF IInv, Searches, tasks
<1> QED  BY <1>2, <1>3, <1>4, <1>5, <1>6, <1>7 DEF IInv

LEMMA NextKeeps == IInv /\ [Next]_vars => IInv'
<1> SUFFICES ASSUME IInv, [Next]_vars PROVE IInv'
  OBVIOUS
<1>1. CASE UNCHANGED vars  BY <1>1, StutterKeeps
<1>2. CASE Stopped
  <2>1. UNCHANGED vars  BY <1>2 DEF Stopped
  <2> QED  BY <2>1, StutterKeeps
<1>3. ASSUME NEW t \in Threads, Create(t) \/ Enter(t) PROVE IInv'
  BY <1>3, CreateKeeps, EnterKeeps
<1>4. ASSUME NEW t \in Threads, Step(t) PROVE IInv'
  <2>1. CASE Push(t) \/ Finish(t)  BY <2>1, PushKeeps, FinishKeeps
  <2>2. CASE Look(t) \/ Own(t) \/ Steal(t)  BY <2>2, LookKeeps, OwnKeeps, StealKeeps
  <2>3. CASE StealNothing(t) \/ Count(t)  BY <2>3, StealNothingKeeps, CountKeeps
  <2>4. CASE Arrive(t) \/ SeeGo(t) \/ Leave(t)  BY <2>4, ArriveKeeps, SeeGoKeeps, LeaveKeeps
  <2>5. CASE \E u \in Gathers[t] : ReleaseChild(t, u)  BY <2>5, ReleaseChildKeeps
  <2>6. CASE Gathered \/ Drained  BY <2>6, GatheredKeeps, DrainedKeeps
  <2> QED  BY <1>4, <2>1, <2>2, <2>3, <2>4, <2>5, <2>6 DEF Step
<1> QED  BY <1>1, <1>2, <1>3, <1>4 DEF Next

LEMMA IInvAlways == Spec => []IInv
BY IInvInit, NextKeeps, PTL DEF Spec
----------------------------------------------------------------------------
(* The properties. *)

\* Every variable has its type in every reachable state.
THEOREM TypeCorrect == Spec => []TypeOK
<1>1. IInv => TypeOK  BY DEF IInv, TypeInv
<1> QED  BY <1>1, IInvAlways, PTL

\* Until the master sees it at zero, unfinished_threads is the number of threads that have not
\* counted themselves out of the current barrier, however often they stole in between.
THEOREM UnfinishedCounted == Spec => []UnfinishedExact
<1>1. IInv => UnfinishedExact
  <2> SUFFICES ASSUME IInv, pc[Master] # "release"
               PROVE  taskTeam[state[Master]].unfinished = N - Cardinality({t \in Threads : CountedOut(t)})
    BY DEF UnfinishedExact
  <2>1. Cur = state[Master] /\ Opened = round[Master]  BY DEF Cur, Opened
  <2>2. {t \in Threads : CountedOut(t)} = Out  BY <2>1 DEF Out, CountedOut, Current
  <2> QED  BY <2>1, <2>2 DEF IInv, Counts
<1> QED  BY <1>1, IInvAlways, PTL

\* A thread in its region uses the active task team of its parity, the deques of the other are
\* empty, and who has counted itself out has no task.
THEOREM TeamsStayApart == Spec => []TeamsApart
<1>1. IInv => TeamsApart
  <2> SUFFICES ASSUME IInv, NEW t \in Threads
               PROVE  /\ pc[t] \in {"region", "gather"} => teamOf[t] = state[t] /\ taskTeam[state[t]].active
                      /\ deque[1 - state[t]][t] = <<>>
                      /\ Final(t) /\ finished[t] => ~HasTask(state[t], t)
    BY DEF TeamsApart
  <2>1. pc[t] \in {"region", "gather"} => Current(t)  BY DEF IInv, Phases
  <2>2. pc[t] \in {"region", "gather"} => teamOf[t] = state[t] /\ taskTeam[state[t]].active
    BY <2>1, CurrentTeam DEF IInv, Teams
  <2>3. Cur \in 0..1 /\ 1 - (1 - Cur) = Cur  BY GenerationTypes DEF IInv
  <2>4. deque[1 - state[t]][t] = <<>>
    BY <2>3 DEF IInv, Phases, Apart, Empty
  <2>5. Final(t) /\ finished[t] => ~HasTask(state[t], t)
    <3>1. Empty(t) => deque[state[t]][t] = <<>>  BY DEF IInv, Phases, Apart, Empty
    <3> QED  BY <3>1 DEF IInv, Searches, Empty, HasTask
  <2> QED  BY <2>2, <2>4, <2>5
<1> QED  BY <1>1, IInvAlways, PTL

(* The abstract barrier of a state. *)
Entered == [t \in Threads |-> IF pc[t] = "region" THEN round[t] ELSE round[t] + 1]
Pending == {x \in 1..created : runs[x] = 0}
Done == {x \in Tasks : runs[x] = 1}

LEMMA NoneLeft ==
    ASSUME IInv, AllIn
    PROVE  Pending = {}
<1> SUFFICES ASSUME NEW x \in Pending PROVE FALSE
  OBVIOUS
<1>1. x \in Tasks /\ x <= created /\ runs[x] = 0
  BY TeamFacts DEF Pending, IInv, TypeInv, Tasks
<1>2. Has(Held, Keys, x)  BY <1>1 DEF IInv, Located
<1>3. PICK k \in Keys : \E i \in 1..Len(Held[k]) : Held[k][i] = x  BY <1>2 DEF Has
<1>4. PICK u \in Threads, kind \in Kinds : k = <<u, kind>>  BY <1>3 DEF Keys
<1>5. Queue(u, kind) = <<>>  BY DEF AllIn, Empty, Queue, Kinds
<1>6. Held[k] = <<>>  BY <1>4, <1>5, HeldAt
<1> QED  BY <1>3, <1>6

\* The last task of a thread is in its hands and not done.
LEMMA InHand ==
    ASSUME IInv, NEW t \in Threads, stack[t] # <<>>
    PROVE  LET x == stack[t][Len(stack[t])] IN x \in Pending /\ x \in Tasks
<1> DEFINE mine == stack[t]
           x == mine[Len(mine)]
<1>1. mine \in Seq(Tasks)  BY DEF IInv, TypeInv
<1>2. Len(mine) \in Nat \ {0} /\ x \in Tasks  BY <1>1, DropLast
<1>3. <<t, "stack">> \in Keys /\ Held[<<t, "stack">>] = mine  BY HeldAt DEF Kinds, Queue
<1>4. Len(mine) \in 1..Len(mine)  BY <1>2
<1>5. Has(Held, Keys, x)  BY <1>3, <1>4 DEF Has
<1>6. x <= created /\ runs[x] = 0  BY <1>2, <1>5 DEF IInv, Located
<1> QED  BY <1>2, <1>6, TeamFacts DEF Pending, IInv, TypeInv, Tasks

\* What each step does to the abstract barrier.
LEMMA CreateView ==
    ASSUME IInv, NEW t \in Threads, Create(t)
    PROVE  \E x \in Tasks : Abs!Create(x)
<1>1. /\ Running(t) /\ created < MaxTasks /\ created' = created + 1 /\ UNCHANGED <<runs, round, pc>>
  BY DEF Create, barrier
<1>2. PICK e \in Tasks : e = created + 1
  BY <1>1, TeamFacts DEF IInv, TypeInv, Tasks
<1>3. created \in Nat /\ ~(e <= created)  BY <1>2, TeamFacts DEF IInv, TypeInv
<1>4. runs[e] = 0  BY <1>3 DEF IInv, Located, TypeInv
<1>5. Pending' = Pending \union {e} /\ e \notin Pending /\ e \notin Done
  BY <1>1, <1>2, <1>3, <1>4 DEF Pending, Done
<1>6. Done' = Done /\ Entered' = Entered /\ Opened' = Opened
  BY <1>1 DEF Done, Entered, Opened, Tasks, Threads, Create
<1>7. Pending # {} \/ \E u \in Threads : Entered[u] = round[u]
  <2>1. CASE stack[t] # <<>>  BY <2>1, InHand
  <2>2. CASE pc[t] = "region"  BY <2>2 DEF Entered
  <2> QED  BY <1>1, <2>1, <2>2 DEF Running
<1>8. Abs!Create(e)
  BY <1>1, <1>5, <1>6, <1>7 DEF Abs!Create, Entered, Pending, Done, Opened
<1> QED  BY <1>8

LEMMA FinishView ==
    ASSUME IInv, NEW t \in Threads, Finish(t)
    PROVE  \E x \in Tasks : Abs!Complete(x)
<1>1. stack[t] # <<>> /\ UNCHANGED <<created, state, round, pc>>  BY DEF Finish, barrier
<1>2. PICK x \in Tasks : x = stack[t][Len(stack[t])] /\ x \in Pending  BY <1>1, InHand
<1>3. runs' = [runs EXCEPT ![x] = @ + 1]  BY <1>2 DEF Finish
<1>4. runs[x] = 0 /\ runs'[x] = 1 /\ \A y \in Tasks \ {x} : runs'[y] = runs[y]
  BY <1>2, <1>3 DEF Pending, IInv, TypeInv
<1>5. 1..created \subseteq Tasks  BY TeamFacts DEF IInv, TypeInv, Tasks
<1>6. Pending' = Pending \ {x} /\ Done' = Done \union {x}
  BY <1>1, <1>4, <1>5 DEF Pending, Done, Tasks
<1>7. Entered' = Entered /\ Opened' = Opened  BY <1>1 DEF Entered, Opened, Threads
<1>8. Abs!Complete(x)
  BY <1>1, <1>2, <1>6, <1>7 DEF Abs!Complete, Entered, Pending, Done, Opened
<1> QED  BY <1>8

LEMMA EnterView ==
    ASSUME IInv, NEW t \in Threads, Enter(t)
    PROVE  Abs!Enter(t)
<1>1. /\ pc[t] = "region" /\ pc' = [pc EXCEPT ![t] = "gather"] /\ UNCHANGED <<round, created, runs>>
  BY DEF Enter, Goto, tasks
<1>2. pc'[t] = "gather" /\ \A u \in Threads \ {t} : pc'[u] = pc[u]
  BY <1>1 DEF IInv, TypeInv, TypeOK
<1>3. Entered[t] = round[t] /\ Entered' = [Entered EXCEPT ![t] = @ + 1]
  BY <1>1, <1>2 DEF Entered, Threads
<1>4. Opened' = Opened
  <2>1. (pc'[Master] = "release") = (pc[Master] = "release")  BY <1>1, <1>2, TeamFacts
  <2> QED  BY <1>1, <2>1 DEF Opened
<1> QED  BY <1>1, <1>3, <1>4 DEF Abs!Enter, Entered, Opened, Tasks

LEMMA LeaveView ==
    ASSUME IInv, NEW t \in Threads, Leave(t)
    PROVE  Abs!Leave(t)
<1>1. /\ pc[t] = "release" /\ pc' = [pc EXCEPT ![t] = "region"] /\ round' = [round EXCEPT ![t] = @ + 1]
      /\ UNCHANGED <<created, runs>>
  BY DEF Leave, Goto, tasks
<1>2. /\ pc'[t] = "region" /\ \A u \in Threads \ {t} : pc'[u] = pc[u]
      /\ round'[t] = round[t] + 1 /\ \A u \in Threads \ {t} : round'[u] = round[u]
  BY <1>1 DEF IInv, TypeInv, TypeOK
<1>3. Opened' = Opened  BY LeaveKeeps
<1>4. Entered' = Entered  BY <1>1, <1>2 DEF Entered, Threads
<1>5. Entered[t] = round[t] + 1 /\ round[t] + 1 = Opened /\ round[t] \in Nat
  <2>1. round[t] + 1 = Opened  BY <1>1 DEF IInv, Phases
  <2>2. round[t] \in Nat  BY TeamFacts DEF IInv, TypeInv, TypeOK
  <2> QED  BY <1>1, <2>1, <2>2 DEF Entered
<1>6. round[t] < Entered[t] /\ Entered[t] <= Opened  BY <1>5
<1> QED  BY <1>1, <1>3, <1>4, <1>6 DEF Abs!Leave, Entered, Opened, Tasks

LEMMA OpenView ==
    ASSUME IInv, AllIn, Opened' = Opened + 1, UNCHANGED <<round, created, runs>>,
           pc' = [pc EXCEPT ![Master] = "release"]
    PROVE  Abs!Open
<1>1. Pending = {}  BY NoneLeft
<1>2. \A t \in Threads : pc[t] # "region" /\ pc'[t] # "region"
  BY DEF AllIn, IInv, TypeInv, TypeOK
<1>3. Entered' = Entered  BY <1>2 DEF Entered, Threads
<1>4. \A t \in Threads : Entered[t] = Opened + 1  BY <1>2 DEF Entered, AllIn, Current
<1> QED  BY <1>1, <1>3, <1>4 DEF Abs!Open, Abs!AllEntered, Entered, Opened, Pending, Tasks

\* Any other step is invisible.
LEMMA SameView ==
    ASSUME UNCHANGED <<round, created, runs>>, Opened' = Opened,
           \A t \in Threads : (pc'[t] = "region") = (pc[t] = "region")
    PROVE  UNCHANGED Abs!vars
<1>1. Entered' = Entered  BY DEF Entered, Threads
<1> QED  BY <1>1 DEF Abs!vars, Entered, Opened, Tasks

LEMMA StepView ==
    ASSUME IInv, NEW t \in Threads, Step(t)
    PROVE  Abs!Next \/ UNCHANGED Abs!vars
<1>1. CASE Push(t) \/ Look(t) \/ Own(t) \/ Steal(t) \/ StealNothing(t) \/ Count(t)
  <2>1. UNCHANGED <<round, created, runs, pc>>
    BY <1>1 DEF Push, Look, Own, Steal, StealNothing, Count, barrier, tasks
  <2>2. Opened' = Opened  BY <2>1 DEF Opened
  <2> QED  BY <2>1, <2>2, SameView
<1>2. CASE Finish(t)  BY <1>2, FinishView DEF Abs!Next
<1>3. CASE Arrive(t) \/ SeeGo(t)
  <2>1. /\ UNCHANGED <<round, created, runs>> /\ t # Master /\ pc[t] # "region"
        /\ \E w \in {"final", "release"} : pc' = [pc EXCEPT ![t] = w]
    BY <1>3 DEF Arrive, SeeGo, Ready, Waiting, Goto, tasks
  <2>2. pc'[t] \in {"final", "release"} /\ \A u \in Threads \ {t} : pc'[u] = pc[u]
    BY <2>1 DEF IInv, TypeInv, TypeOK
  <2>3. Opened' = Opened  BY <2>1, <2>2, TeamFacts DEF Opened
  <2>4. \A u \in Threads : (pc'[u] = "region") = (pc[u] = "region")  BY <2>1, <2>2
  <2> QED  BY <2>1, <2>3, <2>4, SameView
<1>4. CASE Leave(t)  BY <1>4, LeaveView DEF Abs!Next
<1>5. CASE \E u \in Gathers[t] : ReleaseChild(t, u)
  <2>1. UNCHANGED <<round, created, runs, pc>>  BY <1>5 DEF ReleaseChild, tasks
  <2>2. Opened' = Opened  BY <2>1 DEF Opened
  <2> QED  BY <2>1, <2>2, SameView
<1>6. CASE Gathered
  <2>1. /\ UNCHANGED <<round, created, runs>> /\ pc[Master] = "gather"
        /\ pc' = [pc EXCEPT ![Master] = IF taskTeam[Cur].found THEN "drain" ELSE "release"]
    BY <1>6 DEF Gathered, Ready, Goto, Cur, tasks
  <2>2. CASE taskTeam[Cur].found
    <3>1. \A u \in Threads : (pc'[u] = "region") = (pc[u] = "region")
      BY <2>1, <2>2, TeamFacts DEF IInv, TypeInv, TypeOK
    <3>2. Opened' = Opened  BY <1>6, <2>2, GatheredKeeps
    <3> QED  BY <2>1, <3>1, <3>2, SameView
  <2>3. CASE ~taskTeam[Cur].found
    <3>1. AllIn /\ Opened' = Opened + 1  BY <1>6, <2>3, GatheredKeeps
    <3>2. pc' = [pc EXCEPT ![Master] = "release"]  BY <2>1, <2>3
    <3> QED  BY <2>1, <3>1, <3>2, OpenView DEF Abs!Next
  <2> QED  BY <2>2, <2>3
<1>7. CASE Drained
  <2>1. UNCHANGED <<round, created, runs>> /\ pc' = [pc EXCEPT ![Master] = "release"]
    BY <1>7 DEF Drained, Goto, tasks
  <2>2. AllIn /\ Opened' = Opened + 1  BY <1>7, DrainedKeeps
  <2> QED  BY <2>1, <2>2, OpenView DEF Abs!Next
<1> QED  BY <1>1, <1>2, <1>3, <1>4, <1>5, <1>6, <1>7 DEF Step

\* A barrier opens only when everybody has entered it and every task, those created by other
\* tasks included, is done; each task is executed once; nobody leaves before the barrier opens.
THEOREM BarrierWaitsForTasks == Spec => Abs!Safety
<1>1. Init => Abs!Init
  <2> SUFFICES ASSUME Init PROVE Abs!Init
    OBVIOUS
  <2>1. Opened = 0 /\ Entered = [t \in Threads |-> 0] /\ Pending = {} /\ Done = {}
    BY TeamFacts DEF Init, Opened, Entered, Pending, Done
  <2> QED  BY <2>1 DEF Init, Abs!Init, Opened, Entered, Pending, Done
<1>2. IInv /\ [Next]_vars => [Abs!Next]_(Abs!vars)
  <2> SUFFICES ASSUME IInv, [Next]_vars PROVE Abs!Next \/ UNCHANGED Abs!vars
    OBVIOUS
  <2>1. CASE UNCHANGED vars \/ Stopped
    <3>1. UNCHANGED <<round, created, runs, pc>>  BY <2>1 DEF Stopped, vars, barrier, tasks
    <3>2. Opened' = Opened  BY <3>1 DEF Opened
    <3> QED  BY <3>1, <3>2, SameView
  <2>2. ASSUME NEW t \in Threads, Create(t) PROVE Abs!Next  BY <2>2, CreateView DEF Abs!Next
  <2>3. ASSUME NEW t \in Threads, Enter(t) PROVE Abs!Next  BY <2>3, EnterView DEF Abs!Next
  <2> QED  BY <2>1, <2>2, <2>3, StepView DEF Next
<1> QED  BY <1>1, <1>2, IInvAlways, PTL DEF Spec, Abs!Safety
=============================================================================
