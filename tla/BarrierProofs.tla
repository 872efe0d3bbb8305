---------------------------- MODULE BarrierProofs ----------------------------
(* Every flat barrier implements the abstract barrier, for any number of      *)
(* threads and any gather and release trees that satisfy TopologyAssumption.  *)
EXTENDS Barrier, TLAPS

(* The part of the type invariant the argument needs.  *)
Types ==
    /\ topo \in Topologies /\ kind \in Kinds
    /\ pc \in [Threads -> PC] /\ pos \in [Threads -> Nat \ {0}]
    /\ newState \in [Threads -> Nat] /\ bArrived \in [Threads -> Nat]
    /\ bGo \in [Threads -> Nat] /\ teamArrived \in Nat /\ round \in [Threads -> Nat]

Past == {"region", "woken", "release", "push", "serial"}
Arrived(u) == IF u = Master THEN round[u] ELSE bArrived[u]

(* A thread on its way to the barrier is one ahead of the team, a thread past it *)
(* is level with it, and b_arrived counts the barriers a worker has reported.    *)
Phase ==
    /\ pc[Master] \notin {"wait", "woken"}
    /\ \A t \in Workers : pc[t] \notin {"push", "serial"}
    /\ \A t \in Threads : pc[t] = "gather" =>
          round[t] = teamArrived + 1 /\ newState[t] = teamArrived + 1
    /\ \A t \in Threads : pc[t] \in Past => round[t] = teamArrived
    /\ \A t \in Workers : bArrived[t] = IF pc[t] = "gather" THEN round[t] - 1 ELSE round[t]
    /\ \A t \in Threads : round[t] <= teamArrived + 1

(* What a set b_arrived word says of the threads below, and of the children a    *)
(* gathering thread has already waited for.                                      *)
GatherInv ==
    /\ \A t \in Threads : pc[t] = "gather" =>
          \A i \in 1..Len(topo.gather[t]) :
              i < pos[t] => bArrived[topo.gather[t][i]] >= newState[t]
    /\ \A k \in Workers : \A u \in topo.sub[k] : Arrived(u) >= bArrived[k]
    /\ \A u \in Threads : Arrived(u) >= teamArrived

(* A go word is only ever set for a worker that waits for this round.            *)
GoInv ==
    /\ \A t \in Threads : pc[t] = "woken" => bGo[t] = 1
    /\ \A t \in Threads : pc[t] \notin {"wait", "woken"} => bGo[t] = 0
    /\ \A t \in Threads : pc[t] = "wait" => bGo[t] \in {0, 1}
    /\ \A t \in Threads : pc[t] = "wait" /\ bGo[t] = 1 => round[t] = teamArrived
    /\ pc[Master] \in {"serial", "push"} =>
          \A t \in Workers : pc[t] = "wait" /\ bGo[t] = 0 /\ round[t] = teamArrived

(* The releases a child has received are those its only releasing parent made.   *)
Moves(k) == Left(k) + IF pc[k] = "wait" THEN bGo[k] ELSE 0
Made(t, i) == IF pc[t] = "region" \/ (pc[t] = "release" /\ pos[t] > i)
              THEN round[t] ELSE round[t] - 1
ReleaseInv ==
    \A t \in Threads : \A i \in 1..Len(topo.release[t]) :
        Moves(topo.release[t][i]) = Made(t, i)

IInv == Types /\ Phase /\ GatherInv /\ GoInv /\ ReleaseInv

----------------------------------------------------------------------------
\* What the assumption on the topologies says of the one in use.
LEMMA TopologyFacts ==
    ASSUME topo \in Topologies
    PROVE  /\ \A t \in Threads : topo.gather[t] \in Seq(Workers) /\ topo.release[t] \in Seq(Workers)
           /\ \A t \in Threads : \A i \in 1..Len(topo.gather[t]) : topo.gather[t][i] \in Workers
           /\ \A t \in Threads : \A i \in 1..Len(topo.release[t]) : topo.release[t][i] \in Workers
           /\ \A t \in Threads : topo.sub[t] \subseteq Threads
           /\ topo.sub[Master] = Threads
           /\ \A t \in Threads : \A u \in topo.sub[t] :
                 u = t \/ \E i \in 1..Len(topo.gather[t]) : u \in topo.sub[topo.gather[t][i]]
           /\ \A t, u \in Threads : \A i \in 1..Len(topo.release[t]), j \in 1..Len(topo.release[u]) :
                 topo.release[t][i] = topo.release[u][j] => t = u /\ i = j
<1>1. /\ topo.gather \in [Threads -> Seq(Workers)] /\ topo.release \in [Threads -> Seq(Workers)]
      /\ topo.sub \in [Threads -> SUBSET Threads] /\ topo.sub[Master] = Threads
      /\ \A t \in Threads : \A u \in Threads : u \in topo.sub[t] <=>
            u = t \/ \E i \in 1..Len(topo.gather[t]) : u \in topo.sub[topo.gather[t][i]]
      /\ \A t, u \in Threads : \A i \in 1..Len(topo.release[t]), j \in 1..Len(topo.release[u]) :
            topo.release[t][i] = topo.release[u][j] => t = u /\ i = j
  BY TopologyAssumption DEF TopologyAssumption
<1>2. /\ \A t \in Threads : topo.gather[t] \in Seq(Workers) /\ topo.release[t] \in Seq(Workers)
      /\ \A t \in Threads : topo.sub[t] \subseteq Threads
  BY <1>1
<1>3. /\ \A t \in Threads : \A i \in 1..Len(topo.gather[t]) : topo.gather[t][i] \in Workers
      /\ \A t \in Threads : \A i \in 1..Len(topo.release[t]) : topo.release[t][i] \in Workers
  BY <1>2
<1>4. \A t \in Threads : \A u \in topo.sub[t] :
         u = t \/ \E i \in 1..Len(topo.gather[t]) : u \in topo.sub[topo.gather[t][i]]
  BY <1>1, <1>2
<1>5. QED
  BY <1>1, <1>2, <1>3, <1>4

\* The gather is a tree: no thread is below two children of another, or below itself.
LEMMA TreeFacts ==
    ASSUME topo \in Topologies, NEW t \in Threads
    PROVE  /\ \A u \in Threads : u \in topo.sub[t] <=>
                 u = t \/ \E i \in 1..Len(topo.gather[t]) : u \in topo.sub[topo.gather[t][i]]
           /\ \A i, j \in 1..Len(topo.gather[t]) :
                 /\ t \notin topo.sub[topo.gather[t][i]]
                 /\ i # j => topo.sub[topo.gather[t][i]] \cap topo.sub[topo.gather[t][j]] = {}
BY TopologyAssumption DEF TopologyAssumption

LEMMA ThreadFacts == /\ Master \in Threads /\ Workers \subseteq Threads
                     /\ \A t \in Threads : t # Master <=> t \in Workers
BY NAssumption DEF NAssumption, Master, Workers, Threads

LEMMA GatherFacts ==
    ASSUME topo \in Topologies, NEW t \in Threads
    PROVE  /\ Len(topo.gather[t]) \in Nat
           /\ \A i \in 1..Len(topo.gather[t]) : /\ i \in Nat /\ i >= 1 /\ i <= Len(topo.gather[t])
                                                  /\ topo.gather[t][i] \in Workers
<1>1. topo.gather[t] \in Seq(Workers)
  BY TopologyFacts
<1>2. Len(topo.gather[t]) \in Nat
  BY <1>1
<1>3. QED
  BY <1>2, TopologyFacts

LEMMA ReleaseFacts ==
    ASSUME topo \in Topologies, NEW t \in Threads
    PROVE  /\ Len(topo.release[t]) \in Nat
           /\ \A i \in 1..Len(topo.release[t]) : i \in Nat /\ i >= 1 /\ topo.release[t][i] \in Workers
BY TopologyFacts

LEMMA UniqueParent ==
    ASSUME topo \in Topologies, NEW t \in Threads, NEW u \in Threads,
           NEW i \in 1..Len(topo.release[t]), NEW j \in 1..Len(topo.release[u]),
           topo.release[t][i] = topo.release[u][j]
    PROVE  t = u /\ i = j
BY TopologyFacts

LEMMA SubFacts ==
    ASSUME topo \in Topologies, NEW k \in Workers, NEW u \in topo.sub[k]
    PROVE  u \in Threads
BY TopologyFacts, ThreadFacts

\* Stated once, for terms the solvers would otherwise take apart.
LEMMA AtLeastTrans == \A a, b, c \in Nat : a >= b /\ b >= c => a >= c
OBVIOUS
LEMMA BelowTrans == \A a, b, c \in Nat : a <= b /\ c > b => a < c
OBVIOUS
LEMMA SamePred == \A a, b \in Nat : a - 1 = b - 1 + 0 => b = a
OBVIOUS
LEMMA NextAbove == \A i, j \in Nat : i # j => ((j + 1 > i) <=> (j > i))
OBVIOUS
LEMMA BumpGrows == \A a, b \in Nat : b = a \/ b = a + 1 => b >= a
OBVIOUS

----------------------------------------------------------------------------
(* What the steps with a loop body do to the variables of the argument.  *)
\* Waiting for a child moves the index, nothing else.
LEMMA GatherChildEffect ==
    ASSUME NEW t, GatherChild(t)
    PROVE  /\ pc[t] = "gather" /\ pos[t] <= Len(topo.gather[t])
           /\ bArrived[topo.gather[t][pos[t]]] = newState[t]
           /\ pos' = [pos EXCEPT ![t] = @ + 1]
           /\ UNCHANGED <<topo, kind, pc, newState, bArrived, bGo, teamArrived, round>>
BY DEF GatherChild, Advance, flags

\* Releasing a child adds one to its go word and moves the index.
LEMMA ReleaseChildEffect ==
    ASSUME NEW t, ReleaseChild(t)
    PROVE  /\ pc[t] = "release" /\ pos[t] <= Len(topo.release[t])
           /\ bGo' = [bGo EXCEPT ![topo.release[t][pos[t]]] = @ + 1]
           /\ pos' = [pos EXCEPT ![t] = @ + 1]
           /\ UNCHANGED <<topo, kind, pc, newState, bArrived, teamArrived, round>>
BY DEF ReleaseChild, Advance, flags

----------------------------------------------------------------------------
\* Every step keeps the types of the control points, the words and the counters.
LEMMA TypesStep == Types /\ [Next]_vars => Types'
<1> SUFFICES ASSUME Types, [Next]_vars PROVE Types'
  OBVIOUS
<1> USE ThreadFacts DEF Types, PC, flags, icvs, Goto, Reset, Advance
<1>1. ASSUME NEW t \in Threads, SetIcv(t) PROVE Types'
  BY <1>1 DEF SetIcv
<1>2. ASSUME NEW t \in Threads, Enter(t) PROVE Types'
  BY <1>2 DEF Enter
<1>3. ASSUME NEW t \in Threads, GatherChild(t) PROVE Types'
  <2>1. /\ pos' = [pos EXCEPT ![t] = @ + 1]
        /\ UNCHANGED <<topo, kind, pc, newState, bArrived, bGo, teamArrived, round>>
    BY <1>3, GatherChildEffect
  <2>2. QED
    BY <2>1
<1>4. ASSUME NEW t \in Threads, Arrive(t) PROVE Types'
  <2>1. /\ pc' = [pc EXCEPT ![t] = "wait"]
        /\ bArrived' = [bArrived EXCEPT ![t] = @ + 1]
        /\ UNCHANGED <<topo, kind, pos, newState, bGo, teamArrived, round>>
    BY <1>4 DEF Arrive
  <2>2. bArrived' \in [Threads -> Nat]
    BY <2>1
  <2>3. QED
    BY <2>1, <2>2
<1>5. CASE Gathered
  BY <1>5 DEF Gathered
<1>6. CASE EndSerial
  BY <1>6 DEF EndSerial
<1>7. CASE PushIcvs
  BY <1>7 DEF PushIcvs
<1>8. ASSUME NEW t \in Threads, SeeGo(t) PROVE Types'
  BY <1>8 DEF SeeGo
<1>9. ASSUME NEW t \in Threads, ResetGo(t) PROVE Types'
  BY <1>9 DEF ResetGo
<1>10. ASSUME NEW t \in Threads, ReleaseChild(t) PROVE Types'
  <2>1. topo.release[t][pos[t]] \in Workers
    <3>1. pos[t] \in Nat \ {0} /\ pos[t] <= Len(topo.release[t])
      BY <1>10, ReleaseChildEffect
    <3>2. Len(topo.release[t]) \in Nat
      BY ReleaseFacts
    <3>3. pos[t] \in 1..Len(topo.release[t])
      BY <3>1, <3>2
    <3>4. QED
      BY <3>3, ReleaseFacts
  <2>2. /\ bGo' = [bGo EXCEPT ![topo.release[t][pos[t]]] = @ + 1]
        /\ pos' = [pos EXCEPT ![t] = @ + 1]
        /\ UNCHANGED <<topo, kind, pc, newState, bArrived, teamArrived, round>>
    BY <1>10, ReleaseChildEffect
  <2>3. QED
    BY <2>1, <2>2
<1>11. ASSUME NEW t \in Threads, Leave(t) PROVE Types'
  BY <1>11 DEF Leave
<1>12. CASE Terminated \/ UNCHANGED vars
  BY <1>12 DEF Terminated, vars
<1>13. QED
  BY <1>1, <1>2, <1>3, <1>4, <1>5, <1>6, <1>7, <1>8, <1>9, <1>10, <1>11, <1>12
  DEF Next, BarrierStep

\* A step that leaves every thread's count of moves and of releases made leaves
\* ReleaseInv.
LEMMA ReleaseUnmoved ==
    ASSUME Types, ReleaseInv, UNCHANGED topo,
           \A u \in Workers : Moves(u)' = Moves(u),
           \A u \in Threads : \A i \in 1..Len(topo.release[u]) : Made(u, i)' = Made(u, i)
    PROVE  ReleaseInv'
<1>1. ASSUME NEW u \in Threads, NEW i \in 1..Len(topo.release[u])
      PROVE  Moves(topo.release[u][i])' = Made(u, i)'
  <2>1. topo.release[u][i] \in Workers
    BY TopologyFacts DEF Types
  <2>2. Moves(topo.release[u][i])' = Moves(topo.release[u][i])
    BY <2>1 DEF Moves, Left
  <2>3. QED
    BY <2>1, <2>2 DEF ReleaseInv
<1>2. QED
  BY <1>1 DEF ReleaseInv

\* A step that changes no b_arrived word keeps what the threads know from them.
LEMMA GatherKept ==
    ASSUME Types, Types', GatherInv, UNCHANGED <<topo, bArrived, teamArrived>>,
           round'[Master] >= round[Master],
           \A w \in Threads : pc'[w] = "gather" =>
               \/ pos'[w] = 1
               \/ pc[w] = "gather" /\ pos'[w] = pos[w] /\ newState'[w] = newState[w]
    PROVE  GatherInv'
<1> USE ThreadFacts DEF Types
<1>1. ASSUME NEW w \in Threads, pc'[w] = "gather", NEW i \in 1..Len(topo.gather[w]), i < pos'[w]
      PROVE  bArrived'[topo.gather[w][i]] >= newState'[w]
  <2>1. pc[w] = "gather" /\ pos'[w] = pos[w] /\ newState'[w] = newState[w]
    <3>1. i \in Nat /\ i >= 1
      BY GatherFacts
    <3>2. pos'[w] # 1
      BY <1>1, <3>1
    <3>3. QED
      BY <1>1, <3>2
  <2>2. QED
    BY <1>1, <2>1 DEF GatherInv
<1>2. \A u \in Threads : Arrived(u)' >= Arrived(u) /\ Arrived(u)' \in Nat /\ Arrived(u) \in Nat
  BY DEF Arrived
<1>3. ASSUME NEW k \in Workers, NEW u \in topo.sub[k] PROVE Arrived(u)' >= bArrived'[k]
  <2>1. u \in Threads /\ bArrived[k] \in Nat /\ Arrived(u) >= bArrived[k]
    BY SubFacts DEF GatherInv
  <2>2. QED
    BY <1>2, <2>1
<1>4. ASSUME NEW u \in Threads PROVE Arrived(u)' >= teamArrived'
  <2>1. Arrived(u) >= teamArrived
    BY DEF GatherInv
  <2>2. QED
    BY <1>2, <2>1
<1>5. QED
  BY <1>1, <1>3, <1>4 DEF GatherInv

\* A thread that enters is one ahead of the team; nobody's arrival changes.
LEMMA EnterStep == ASSUME IInv, NEW t \in Threads, Enter(t), Types' PROVE IInv'
<1> USE ThreadFacts DEF IInv, Types
<1>1. /\ pc[t] = "region" /\ pc' = [pc EXCEPT ![t] = "gather"] /\ pos' = [pos EXCEPT ![t] = 1]
      /\ round' = [round EXCEPT ![t] = @ + 1]
      /\ newState' = [newState EXCEPT ![t] = teamArrived + 1]
      /\ UNCHANGED <<topo, bArrived, bGo, teamArrived>>
  BY DEF Enter, Goto, Reset, flags
<1>2. round[t] = teamArrived /\ bGo[t] = 0
  BY <1>1 DEF Phase, Past, GoInv
<1>3. Phase'
  <2>1. \A u \in Threads : pc'[u] = "gather" =>
           round'[u] = teamArrived' + 1 /\ newState'[u] = teamArrived' + 1
    BY <1>1, <1>2 DEF Phase
  <2>2. \A u \in Threads : pc'[u] \in Past => round'[u] = teamArrived'
    BY <1>1, <1>2 DEF Phase, Past
  <2>3. \A u \in Workers : bArrived'[u] = IF pc'[u] = "gather" THEN round'[u] - 1 ELSE round'[u]
    BY <1>1, <1>2 DEF Phase, Past
  <2>4. \A u \in Threads : round'[u] <= teamArrived' + 1
    BY <1>1, <1>2 DEF Phase
  <2>5. QED
    BY <1>1, <2>1, <2>2, <2>3, <2>4 DEF Phase
<1>4. GatherInv'
  BY <1>1, GatherKept
<1>5. GoInv'
  BY <1>1, <1>2 DEF GoInv
<1>6. ReleaseInv'
  <2>1. \A u \in Workers : Moves(u)' = Moves(u)
    BY <1>1, <1>2 DEF Moves, Left
  <2>2. \A u \in Threads : \A i \in 1..Len(topo.release[u]) : Made(u, i)' = Made(u, i)
    <3>1. ASSUME NEW u \in Threads, NEW i PROVE Made(u, i)' = Made(u, i)
      <4>1. CASE u = t
        BY <1>1, <4>1 DEF Made
      <4>2. CASE u # t
        BY <1>1, <4>2 DEF Made
      <4>3. QED
        BY <4>1, <4>2
    <3>2. QED
      BY <3>1
  <2>3. QED
    BY <1>1, <2>1, <2>2, ReleaseUnmoved
<1>7. QED
  BY <1>3, <1>4, <1>5, <1>6

\* Waiting for one more child extends what the thread knows by one index.
LEMMA GatherChildStep == ASSUME IInv, NEW t \in Threads, GatherChild(t), Types' PROVE IInv'
<1> USE ThreadFacts DEF IInv, Types
<1>1. /\ pc[t] = "gather" /\ pos[t] <= Len(topo.gather[t])
      /\ bArrived[topo.gather[t][pos[t]]] = newState[t] /\ newState[t] \in Nat
      /\ pos' = [pos EXCEPT ![t] = @ + 1]
      /\ UNCHANGED <<topo, pc, newState, bArrived, bGo, teamArrived, round>>
  BY GatherChildEffect
<1>2. Phase' /\ GoInv'
  BY <1>1 DEF Phase, GoInv
<1>3. GatherInv'
  <2>1. ASSUME NEW w \in Threads, pc[w] = "gather", NEW i \in 1..Len(topo.gather[w]), i < pos'[w]
        PROVE  bArrived[topo.gather[w][i]] >= newState[w]
    <3>1. CASE i < pos[w]
      BY <2>1, <3>1 DEF GatherInv
    <3>2. CASE ~(i < pos[w])
      <4>1. w = t /\ i = pos[t]
        BY <1>1, <2>1, <3>2, GatherFacts
      <4>2. bArrived[topo.gather[w][i]] = newState[w] /\ newState[w] \in Nat
        BY <1>1, <4>1
      <4>3. QED
        BY <4>2
    <3>3. QED
      BY <3>1, <3>2
  <2>2. \A u \in Threads : Arrived(u)' = Arrived(u)
    BY <1>1 DEF Arrived
  <2>3. \A k \in Workers : topo.sub[k] \subseteq Threads
    BY TopologyFacts
  <2>4. ASSUME NEW k \in Workers, NEW u \in topo.sub[k] PROVE Arrived(u)' >= bArrived'[k]
    <3>1. Arrived(u) >= bArrived[k]
      BY DEF GatherInv
    <3>2. Arrived(u)' = Arrived(u) /\ bArrived'[k] = bArrived[k]
      BY <1>1, <2>2, <2>3
    <3>3. QED
      BY <3>1, <3>2
  <2>5. \A u \in Threads : Arrived(u)' >= teamArrived'
    BY <1>1, <2>2 DEF GatherInv
  <2>6. QED
    BY <1>1, <2>1, <2>4, <2>5 DEF GatherInv
<1>4. ReleaseInv'
  <2>1. \A u \in Workers : Moves(u)' = Moves(u)
    BY <1>1 DEF Moves, Left
  <2>2. \A u \in Threads : \A i \in 1..Len(topo.release[u]) : Made(u, i)' = Made(u, i)
    BY <1>1 DEF Made
  <2>3. QED
    BY <1>1, <2>1, <2>2, ReleaseUnmoved
<1>5. QED
  BY <1>2, <1>3, <1>4

\* A worker that arrives vouches for all the threads below it.
LEMMA ArriveStep == ASSUME IInv, NEW t \in Threads, Arrive(t), Types' PROVE IInv'
<1> USE ThreadFacts DEF IInv, Types
<1>1. /\ t \in Workers /\ pos[t] > Len(topo.gather[t])
      /\ pc[t] = "gather" /\ pc' = [pc EXCEPT ![t] = "wait"]
      /\ bArrived' = [bArrived EXCEPT ![t] = @ + 1]
      /\ UNCHANGED <<topo, pos, newState, bGo, teamArrived, round>>
  BY DEF Arrive, Goto
<1>2. /\ round[t] = teamArrived + 1 /\ newState[t] = round[t] /\ bArrived[t] = round[t] - 1
      /\ bArrived'[t] = round[t] /\ bGo[t] = 0
  <2>1. round[t] = teamArrived + 1 /\ newState[t] = teamArrived + 1 /\ bArrived[t] = round[t] - 1
    BY <1>1 DEF Phase
  <2>2. bGo[t] = 0
    BY <1>1 DEF GoInv
  <2>3. QED
    BY <1>1, <2>1, <2>2
<1>3. Phase'
  BY <1>1, <1>2 DEF Phase, Past
<1>4. GatherInv'
  <2>1. ASSUME NEW u \in Threads PROVE Arrived(u)' >= Arrived(u)
    <3>1. bArrived[u] \in Nat /\ round[u] \in Nat /\ round'[u] = round[u]
      BY <1>1
    <3>2. bArrived'[u] = bArrived[u] \/ bArrived'[u] = bArrived[u] + 1
      BY <1>1
    <3>3. QED
      BY <3>1, <3>2 DEF Arrived
  <2>2. \A u \in topo.sub[t] : Arrived(u)' >= bArrived'[t]
    <3>1. Arrived(t)' = bArrived'[t]
      BY <1>1 DEF Arrived
    <3>2. ASSUME NEW i \in 1..Len(topo.gather[t]), NEW u \in topo.sub[topo.gather[t][i]]
          PROVE  Arrived(u) >= bArrived'[t]
      <4>1. i < pos[t] /\ topo.gather[t][i] \in Workers /\ u \in Threads
        <5>1. /\ i \in Nat /\ topo.gather[t][i] \in Workers
              /\ Len(topo.gather[t]) \in Nat /\ i <= Len(topo.gather[t])
          BY GatherFacts
        <5>2. u \in Threads
          BY <5>1, SubFacts
        <5>3. pos[t] \in Nat /\ pos[t] > Len(topo.gather[t])
          BY <1>1
        <5>4. QED
          BY <5>1, <5>2, <5>3, BelowTrans
      <4>2. bArrived[topo.gather[t][i]] >= newState[t]
        BY <1>1, <4>1 DEF GatherInv
      <4>3. Arrived(u) >= bArrived[topo.gather[t][i]]
        BY <4>1 DEF GatherInv
      <4>4. Arrived(u) \in Nat /\ newState[t] \in Nat /\ bArrived[topo.gather[t][i]] \in Nat
        BY <4>1 DEF Arrived
      <4>5. bArrived'[t] = newState[t]
        BY <1>2
      <4>6. QED
        BY <4>2, <4>3, <4>4, <4>5, AtLeastTrans
    <3>3. ASSUME NEW u \in topo.sub[t] PROVE Arrived(u)' >= bArrived'[t]
      <4>1. CASE u = t
        BY <3>1, <4>1, <1>2
      <4>2. CASE u # t
        <5>1. PICK i \in 1..Len(topo.gather[t]) : u \in topo.sub[topo.gather[t][i]]
          BY <4>2, TopologyFacts
        <5>2. Arrived(u) >= bArrived'[t]
          BY <3>2, <5>1
        <5>3. u \in Threads
          BY <1>1, SubFacts
        <5>4. Arrived(u) \in Nat /\ Arrived(u)' \in Nat
          BY <5>3 DEF Arrived
        <5>5. QED
          BY <1>2, <2>1, <5>2, <5>3, <5>4
      <4>3. QED
        BY <4>1, <4>2
    <3>4. QED
      BY <3>3
  <2>3. \A k \in Workers : \A u \in topo.sub[k] : Arrived(u)' >= bArrived'[k]
    <3>1. ASSUME NEW k \in Workers, k # t, NEW u \in topo.sub[k] PROVE Arrived(u)' >= bArrived'[k]
      <4>1. bArrived'[k] = bArrived[k] /\ Arrived(u) >= bArrived[k]
        BY <1>1, <3>1 DEF GatherInv
      <4>2. u \in Threads /\ bArrived[k] \in Nat
        BY SubFacts
      <4>3. Arrived(u) \in Nat /\ Arrived(u)' \in Nat
        BY <4>2 DEF Arrived
      <4>4. QED
        BY <2>1, <4>1, <4>2, <4>3
    <3>2. QED
      BY <2>2, <3>1
  <2>4. \A u \in Threads : Arrived(u)' >= teamArrived'
    <3>1. ASSUME NEW u \in Threads PROVE Arrived(u)' >= teamArrived'
      <4>1. Arrived(u) \in Nat /\ Arrived(u)' \in Nat /\ Arrived(u) >= teamArrived
        BY <1>1 DEF Arrived, GatherInv
      <4>2. QED
        BY <1>1, <2>1, <4>1
    <3>2. QED
      BY <3>1
  <2>5. ASSUME NEW w \in Threads, pc'[w] = "gather", NEW i \in 1..Len(topo.gather[w]), i < pos[w]
        PROVE  bArrived'[topo.gather[w][i]] >= newState'[w]
    <3>1. pc[w] = "gather" /\ newState'[w] = newState[w] /\ newState[w] \in Nat
      BY <1>1, <2>5
    <3>2. bArrived[topo.gather[w][i]] >= newState[w]
      BY <2>5, <3>1 DEF GatherInv
    <3>3. topo.gather[w][i] \in Workers
      BY GatherFacts
    <3>4. ASSUME NEW k \in Workers
          PROVE  bArrived[k] \in Nat /\ bArrived'[k] \in Nat /\ bArrived'[k] >= bArrived[k]
      <4>1. bArrived[k] \in Nat /\ bArrived'[k] \in Nat
        OBVIOUS
      <4>2. bArrived'[k] = bArrived[k] \/ bArrived'[k] = bArrived[k] + 1
        BY <1>1
      <4>3. QED
        <5> HIDE DEF IInv, Types
        <5>1. QED
          BY <4>1, <4>2, BumpGrows
    <3>5. PICK k \in Workers : k = topo.gather[w][i]
      BY <3>3
    <3>6. bArrived'[k] >= bArrived[k] /\ bArrived[k] >= newState[w]
      BY <3>2, <3>4, <3>5
    <3>7. bArrived'[k] >= newState[w]
      <4> HIDE DEF IInv, Types
      <4>1. QED
        BY <3>1, <3>4, <3>6, AtLeastTrans
    <3>8. QED
      BY <1>1, <3>1, <3>5, <3>7
  <2>6. QED
    BY <1>1, <2>3, <2>4, <2>5 DEF GatherInv
<1>5. GoInv'
  <2>1. pc'[t] = "wait" /\ t # Master /\ pc'[Master] = pc[Master]
    BY <1>1
  <2>2. \A u \in Threads : u # t => pc'[u] = pc[u]
    BY <1>1
  <2>3. pc[Master] \notin {"serial", "push"}
    BY <1>1 DEF GoInv
  <2>4. QED
    BY <1>1, <1>2, <2>1, <2>2, <2>3 DEF GoInv
<1>6. ReleaseInv'
  <2>1. \A u \in Workers : Moves(u)' = Moves(u)
    BY <1>1, <1>2 DEF Moves, Left
  <2>2. \A u \in Threads : \A i \in 1..Len(topo.release[u]) : Made(u, i)' = Made(u, i)
    BY <1>1 DEF Made
  <2>3. QED
    BY <1>1, <2>1, <2>2, ReleaseUnmoved
<1>7. QED
  BY <1>3, <1>4, <1>5, <1>6

\* What the master knows once its own children have arrived: everybody waits.
LEMMA AllWait ==
    ASSUME IInv, pc[Master] = "gather", pos[Master] > Len(topo.gather[Master])
    PROVE  \A u \in Workers : /\ pc[u] = "wait" /\ bGo[u] = 0
                              /\ round[u] = teamArrived + 1 /\ bArrived[u] = teamArrived + 1
<1> USE ThreadFacts DEF IInv, Types
<1>1. newState[Master] = teamArrived + 1 /\ teamArrived \in Nat
  BY DEF Phase
<1>2. ASSUME NEW u \in Workers PROVE bArrived[u] >= teamArrived + 1
  <2>1. PICK i \in 1..Len(topo.gather[Master]) : u \in topo.sub[topo.gather[Master][i]]
    BY TopologyFacts
  <2>2. /\ i \in Nat /\ topo.gather[Master][i] \in Workers
        /\ Len(topo.gather[Master]) \in Nat /\ i <= Len(topo.gather[Master])
    BY GatherFacts
  <2>3. i < pos[Master]
    <3>1. pos[Master] \in Nat
      OBVIOUS
    <3>2. QED
      BY <2>2, <3>1, BelowTrans
  <2>4. bArrived[topo.gather[Master][i]] >= newState[Master]
    BY <2>3 DEF GatherInv
  <2>5. Arrived(u) >= bArrived[topo.gather[Master][i]]
    BY <2>1, <2>2 DEF GatherInv
  <2>6. /\ bArrived[u] \in Nat /\ bArrived[topo.gather[Master][i]] \in Nat
        /\ teamArrived + 1 \in Nat
    <3>1. \A w \in Workers : bArrived[w] \in Nat
      OBVIOUS
    <3>2. QED
      BY <1>1, <2>2, <3>1
  <2>7. bArrived[u] >= bArrived[topo.gather[Master][i]]
    <3>1. Arrived(u) = bArrived[u]
      BY DEF Arrived
    <3>2. QED
      BY <2>5, <3>1
  <2>8. bArrived[topo.gather[Master][i]] >= teamArrived + 1
    BY <1>1, <2>4
  <2>9. QED
    <3> HIDE DEF IInv, Types
    <3>1. QED
      BY <2>6, <2>7, <2>8, AtLeastTrans
<1>3. ASSUME NEW u \in Workers
      PROVE  /\ pc[u] = "wait" /\ bGo[u] = 0
             /\ round[u] = teamArrived + 1 /\ bArrived[u] = teamArrived + 1
  <2>1. bArrived[u] >= teamArrived + 1 /\ bArrived[u] \in Nat /\ round[u] \in Nat
    BY <1>2
  <2>2. round[u] <= teamArrived + 1
    BY DEF Phase
  <2>3. bArrived[u] = IF pc[u] = "gather" THEN round[u] - 1 ELSE round[u]
    BY DEF Phase
  <2>4. pc[u] # "gather"
    BY <1>1, <2>1, <2>2, <2>3
  <2>5. round[u] = teamArrived + 1 /\ bArrived[u] = teamArrived + 1
    BY <1>1, <2>1, <2>2, <2>3, <2>4
  <2>6. pc[u] \notin Past
    BY <1>1, <2>5 DEF Phase
  <2>7. pc[u] = "wait"
    BY <2>4, <2>6 DEF PC, Past
  <2>8. bGo[u] = 0
    BY <1>1, <2>5, <2>7 DEF GoInv
  <2>9. QED
    BY <2>5, <2>7, <2>8
<1>4. QED
  BY <1>3

\* The team moves on by one; every worker waits for exactly that round.
LEMMA GatheredStep == ASSUME IInv, Gathered, Types' PROVE IInv'
<1> USE ThreadFacts DEF IInv, Types
<1>1. /\ pc[Master] = "gather" /\ pos[Master] > Len(topo.gather[Master])
      /\ pc' = [pc EXCEPT ![Master] = "push"] \/ pc' = [pc EXCEPT ![Master] = "serial"]
      /\ teamArrived' = newState[Master]
      /\ UNCHANGED <<topo, pos, newState, bArrived, bGo, round>>
  BY DEF Gathered, Goto
<1>2. \A u \in Workers : /\ pc[u] = "wait" /\ bGo[u] = 0
                         /\ round[u] = teamArrived + 1 /\ bArrived[u] = teamArrived + 1
  BY <1>1, AllWait
<1>3. round[Master] = teamArrived + 1 /\ teamArrived' = teamArrived + 1 /\ bGo[Master] = 0
  BY <1>1 DEF Phase, GoInv
<1>4. pc'[Master] \in {"push", "serial"} /\ \A u \in Workers : pc'[u] = "wait"
  BY <1>1, <1>2
<1>5. \A u \in Threads : round'[u] = teamArrived' /\ bGo'[u] = 0
  BY <1>1, <1>2, <1>3
<1>6. Phase'
  <2>1. \A u \in Workers : bArrived'[u] = round'[u]
    BY <1>1, <1>2
  <2>2. \A u \in Threads : round'[u] <= teamArrived' + 1
    BY <1>5
  <2>3. \A u \in Threads : pc'[u] # "gather"
    BY <1>4
  <2>4. QED
    BY <1>4, <1>5, <2>1, <2>2, <2>3 DEF Phase
<1>7. GatherInv'
  <2>1. \A u \in Threads : Arrived(u)' = teamArrived'
    BY <1>1, <1>2, <1>3 DEF Arrived
  <2>2. \A k \in Workers : bArrived'[k] = teamArrived' /\ teamArrived' \in Nat
    BY <1>1, <1>2, <1>3
  <2>3. ASSUME NEW k \in Workers, NEW u \in topo.sub[k] PROVE Arrived(u)' >= bArrived'[k]
    <3>1. u \in Threads
      BY SubFacts
    <3>2. QED
      BY <2>1, <2>2, <3>1
  <2>4. \A u \in Threads : Arrived(u)' >= teamArrived'
    BY <2>1, <2>2
  <2>5. \A u \in Threads : pc'[u] # "gather"
    BY <1>4
  <2>6. UNCHANGED topo
    BY <1>1
  <2>7. QED
    BY <2>3, <2>4, <2>5, <2>6 DEF GatherInv
<1>8. GoInv'
  BY <1>4, <1>5 DEF GoInv
<1>9. ReleaseInv'
  <2>1. \A u \in Workers : Moves(u)' = Moves(u)
    BY <1>1 DEF Moves, Left
  <2>2. \A u \in Threads : \A i \in 1..Len(topo.release[u]) : Made(u, i)' = Made(u, i)
    BY <1>1 DEF Made
  <2>3. QED
    BY <1>1, <2>1, <2>2, ReleaseUnmoved
<1>10. QED
  BY <1>6, <1>7, <1>8, <1>9

\* The master's steps between the gather and the release move its control point only.
LEMMA MasterStep ==
    ASSUME IInv, Types', EndSerial \/ PushIcvs
    PROVE  IInv'
<1> USE ThreadFacts DEF IInv, Types
<1>1. /\ \/ pc[Master] = "serial" /\ pc' = [pc EXCEPT ![Master] = "push"] /\ pos' = pos
         \/ /\ pc[Master] = "push" /\ pc' = [pc EXCEPT ![Master] = "release"]
            /\ pos' = [pos EXCEPT ![Master] = 1]
      /\ UNCHANGED <<topo, newState, bArrived, bGo, teamArrived, round>>
  BY DEF EndSerial, PushIcvs, Goto, Reset, flags
<1>2. Phase'
  BY <1>1 DEF Phase, Past
<1>3. GatherInv'
  <2>1. \A w \in Threads : pc'[w] = "gather" =>
            pc[w] = "gather" /\ pos'[w] = pos[w] /\ newState'[w] = newState[w]
    BY <1>1
  <2>2. round'[Master] >= round[Master]
    BY <1>1
  <2>3. QED
    BY <1>1, <2>1, <2>2, GatherKept
<1>4. GoInv'
  BY <1>1 DEF GoInv
<1>5. ReleaseInv'
  <2>1. \A u \in Workers : Moves(u)' = Moves(u)
    BY <1>1 DEF Moves, Left
  <2>2. ASSUME NEW u \in Threads, NEW i \in 1..Len(topo.release[u]) PROVE Made(u, i)' = Made(u, i)
    <3>1. ~(1 > i)
      BY ReleaseFacts
    <3>2. CASE u = Master
      BY <1>1, <3>1, <3>2 DEF Made
    <3>3. CASE u # Master
      BY <1>1, <3>3 DEF Made
    <3>4. QED
      BY <3>2, <3>3
  <2>3. QED
    BY <1>1, <2>1, <2>2, ReleaseUnmoved
<1>6. QED
  BY <1>2, <1>3, <1>4, <1>5

\* A released worker has waited for the round the team has completed.
LEMMA SeeGoStep == ASSUME IInv, NEW t \in Threads, SeeGo(t), Types' PROVE IInv'
<1> USE ThreadFacts DEF IInv, Types
<1>1. /\ pc[t] = "wait" /\ bGo[t] = 1 /\ pc' = [pc EXCEPT ![t] = "woken"]
      /\ UNCHANGED <<topo, pos, newState, bArrived, bGo, teamArrived, round>>
  BY DEF SeeGo, Goto, flags
<1>2. round[t] = teamArrived /\ t \in Workers
  BY <1>1 DEF GoInv, Phase
<1>3. Phase'
  BY <1>1, <1>2 DEF Phase, Past
<1>4. GatherInv'
  BY <1>1, GatherKept
<1>5. GoInv'
  BY <1>1, <1>2 DEF GoInv
<1>6. ReleaseInv'
  <2>1. \A u \in Workers : Moves(u)' = Moves(u)
    BY <1>1 DEF Moves, Left
  <2>2. \A u \in Threads : \A i \in 1..Len(topo.release[u]) : Made(u, i)' = Made(u, i)
    BY <1>1 DEF Made
  <2>3. QED
    BY <1>1, <2>1, <2>2, ReleaseUnmoved
<1>7. QED
  BY <1>3, <1>4, <1>5, <1>6

\* A worker clears its own go word before it releases anybody.
LEMMA ResetGoStep == ASSUME IInv, NEW t \in Threads, ResetGo(t), Types' PROVE IInv'
<1> USE ThreadFacts DEF IInv, Types
<1>1. /\ pc[t] = "woken" /\ pc' = [pc EXCEPT ![t] = "release"] /\ pos' = [pos EXCEPT ![t] = 1]
      /\ bGo' = [bGo EXCEPT ![t] = 0]
      /\ UNCHANGED <<topo, newState, bArrived, teamArrived, round>>
  BY DEF ResetGo, Goto, Reset
<1>2. Phase'
  BY <1>1 DEF Phase, Past
<1>3. GatherInv'
  BY <1>1, GatherKept
<1>4. GoInv'
  BY <1>1 DEF GoInv
<1>5. ReleaseInv'
  <2>1. \A u \in Workers : Moves(u)' = Moves(u)
    BY <1>1 DEF Moves, Left
  <2>2. ASSUME NEW u \in Threads, NEW i \in 1..Len(topo.release[u]) PROVE Made(u, i)' = Made(u, i)
    <3>1. ~(1 > i)
      BY ReleaseFacts
    <3>2. CASE u = t
      BY <1>1, <3>1, <3>2 DEF Made
    <3>3. CASE u # t
      BY <1>1, <3>3 DEF Made
    <3>4. QED
      BY <3>2, <3>3
  <2>3. QED
    BY <1>1, <2>1, <2>2, ReleaseUnmoved
<1>6. QED
  BY <1>2, <1>3, <1>4, <1>5

LEMMA MovesOf ==
    ASSUME Types, NEW k \in Threads
    PROVE  /\ round[k] \in Nat /\ bGo[k] \in Nat /\ pc[k] \in PC
           /\ pc[k] \in Past => Moves(k) = round[k]
           /\ pc[k] = "gather" => Moves(k) = round[k] - 1
           /\ pc[k] = "wait" => Moves(k) = round[k] - 1 + bGo[k]
<1>1. round[k] \in Nat /\ bGo[k] \in Nat /\ pc[k] \in PC
  BY DEF Types
<1>2. pc[k] \in Past => Moves(k) = round[k]
  BY <1>1 DEF Moves, Left, Past
<1>3. pc[k] = "gather" => Moves(k) = round[k] - 1
  BY <1>1 DEF Moves, Left
<1>4. pc[k] = "wait" => Moves(k) = round[k] - 1 + bGo[k]
  BY <1>1 DEF Moves, Left
<1>5. QED
  BY <1>1, <1>2, <1>3, <1>4

\* The child whose turn it is waits, for this round, with a clear go word: its only
\* releasing parent has not released it yet.
LEMMA NextChildWaits ==
    ASSUME IInv, NEW t \in Threads, pc[t] = "release", pos[t] <= Len(topo.release[t]),
           NEW k, k = topo.release[t][pos[t]]
    PROVE  /\ k \in Workers /\ k # t /\ pc[k] = "wait" /\ bGo[k] = 0
           /\ round[k] = teamArrived /\ round[t] = teamArrived
<1> USE ThreadFacts DEF IInv, Types
<1>1. pos[t] \in 1..Len(topo.release[t])
  <2>1. pos[t] \in Nat \ {0} /\ Len(topo.release[t]) \in Nat
    BY ReleaseFacts
  <2>2. QED
    BY <2>1
<1>2. k \in Workers
  BY <1>1, TopologyFacts
<1>3. round[t] = teamArrived /\ teamArrived \in Nat
  BY DEF Phase, Past
<1>4. Moves(k) = Made(t, pos[t])
  BY <1>1 DEF ReleaseInv
<1>5. Made(t, pos[t]) = teamArrived - 1
  <2>1. ~(pos[t] > pos[t])
    <3>1. pos[t] \in Nat
      OBVIOUS
    <3>2. QED
      BY <3>1
  <2>2. QED
    BY <1>3, <2>1 DEF Made
<1>6. Moves(k) = teamArrived - 1 /\ round[k] \in Nat /\ bGo[k] \in Nat /\ pc[k] \in PC
  BY <1>2, <1>4, <1>5
<1>7. pc[k] \notin Past
  <2>1. SUFFICES ASSUME pc[k] \in Past PROVE FALSE
    OBVIOUS
  <2>2. round[k] = teamArrived
    BY <1>2, <2>1 DEF Phase
  <2>3. Moves(k) = round[k]
    BY <1>2, <2>1, MovesOf
  <2>4. QED
    BY <1>3, <1>6, <2>2, <2>3
<1>8. pc[k] # "gather"
  <2>1. SUFFICES ASSUME pc[k] = "gather" PROVE FALSE
    OBVIOUS
  <2>2. round[k] = teamArrived + 1
    BY <1>2, <2>1 DEF Phase
  <2>3. Moves(k) = round[k] - 1
    BY <1>2, <2>1, MovesOf
  <2>4. QED
    BY <1>3, <1>6, <2>2, <2>3
<1>9. pc[k] = "wait"
  BY <1>6, <1>7, <1>8 DEF PC, Past
<1>10. Moves(k) = round[k] - 1 + bGo[k]
  BY <1>2, <1>9, MovesOf
<1>11. bGo[k] = 0
  <2>1. SUFFICES ASSUME bGo[k] = 1 PROVE FALSE
    BY <1>2, <1>9 DEF GoInv
  <2>2. round[k] = teamArrived
    BY <1>2, <1>9, <2>1 DEF GoInv
  <2>3. QED
    BY <1>3, <1>6, <1>10, <2>1, <2>2
<1>12. round[k] = teamArrived
  <2>1. teamArrived - 1 = round[k] - 1 + 0
    BY <1>6, <1>10, <1>11
  <2>2. QED
    BY <1>3, <1>6, <2>1, SamePred
<1>13. QED
  BY <1>2, <1>3, <1>9, <1>11, <1>12

\* Releasing a child moves it and the parent's index by one, together.
LEMMA ReleaseChildStep == ASSUME IInv, NEW t \in Threads, ReleaseChild(t), Types' PROVE IInv'
<1> USE ThreadFacts DEF IInv, Types
<1>1. PICK j, k : j = pos[t] /\ k = topo.release[t][j]
  OBVIOUS
<1>2. /\ pc[t] = "release" /\ j <= Len(topo.release[t])
      /\ bGo' = [bGo EXCEPT ![k] = @ + 1] /\ pos' = [pos EXCEPT ![t] = @ + 1]
      /\ UNCHANGED <<topo, pc, newState, bArrived, teamArrived, round>>
  BY <1>1, ReleaseChildEffect
<1>3. /\ k \in Workers /\ k # t /\ pc[k] = "wait" /\ bGo[k] = 0
      /\ round[k] = teamArrived /\ round[t] = teamArrived
  BY <1>1, <1>2, NextChildWaits
<1>4. j \in 1..Len(topo.release[t]) /\ j \in Nat /\ pos'[t] = j + 1
  <2>1. pos[t] \in Nat \ {0} /\ Len(topo.release[t]) \in Nat
    BY ReleaseFacts
  <2>2. QED
    BY <1>1, <1>2, <2>1
<1>5. bGo'[k] = 1 /\ \A u \in Threads : u # k => bGo'[u] = bGo[u]
  BY <1>2, <1>3
<1>6. Phase'
  BY <1>2 DEF Phase
<1>7. GatherInv'
  <2>1. \A w \in Threads : pc'[w] = "gather" =>
            pc[w] = "gather" /\ pos'[w] = pos[w] /\ newState'[w] = newState[w]
    BY <1>2
  <2>2. round'[Master] >= round[Master]
    BY <1>2
  <2>3. QED
    BY <1>2, <2>1, <2>2, GatherKept
<1>8. GoInv'
  <2>1. pc[Master] \notin {"serial", "push"}
    BY <1>2 DEF GoInv
  <2>2. ASSUME NEW u \in Threads
        PROVE  /\ pc'[u] = "woken" => bGo'[u] = 1
               /\ pc'[u] \notin {"wait", "woken"} => bGo'[u] = 0
               /\ pc'[u] = "wait" => bGo'[u] \in {0, 1}
               /\ pc'[u] = "wait" /\ bGo'[u] = 1 => round'[u] = teamArrived'
    <3>1. CASE u = k
      BY <1>2, <1>3, <1>5, <3>1
    <3>2. CASE u # k
      <4>1. bGo'[u] = bGo[u]
        BY <1>5, <3>2
      <4>2. QED
        BY <1>2, <4>1 DEF GoInv
    <3>3. QED
      BY <3>1, <3>2
  <2>3. QED
    BY <1>2, <2>1, <2>2 DEF GoInv
<1>9. ReleaseInv'
  <2>1. Moves(k)' = teamArrived
    <3>1. pc'[k] = "wait" /\ round'[k] = teamArrived /\ teamArrived \in Nat
      BY <1>2, <1>3
    <3>2. QED
      BY <1>5, <3>1 DEF Moves, Left
  <2>2. Made(t, j)' = teamArrived
    BY <1>2, <1>3, <1>4 DEF Made
  <2>3. \A u \in Workers : u # k => Moves(u)' = Moves(u)
    BY <1>2, <1>5 DEF Moves, Left
  <2>4. ASSUME NEW u \in Threads, NEW i \in 1..Len(topo.release[u]), ~(u = t /\ i = j)
        PROVE  Made(u, i)' = Made(u, i)
    <3>1. CASE u = t
      <4>1. i \in Nat /\ i # j /\ pos'[t] = j + 1 /\ pos[t] = j
        BY <1>1, <1>4, <2>4, <3>1, ReleaseFacts
      <4>2. (j + 1 > i) <=> (j > i)
        BY <1>4, <4>1, NextAbove
      <4>3. QED
        BY <1>2, <3>1, <4>1, <4>2 DEF Made
    <3>2. CASE u # t
      BY <1>2, <3>2 DEF Made
    <3>3. QED
      BY <3>1, <3>2
  <2>5. ASSUME NEW u \in Threads, NEW i \in 1..Len(topo.release[u])
        PROVE  Moves(topo.release[u][i])' = Made(u, i)'
    <3>1. topo.release[u][i] \in Workers
      BY TopologyFacts
    <3>2. CASE topo.release[u][i] = k
      <4>1. u = t /\ i = j
        <5>1. topo.release[t][j] = topo.release[u][i]
          BY <1>1, <3>2
        <5>2. topo \in Topologies /\ j \in 1..Len(topo.release[t])
          BY <1>4
        <5>3. t = u /\ j = i
          <6> HIDE DEF IInv, Types
          <6>1. QED
            BY <5>1, <5>2, UniqueParent
        <5>4. QED
          BY <5>3
      <4>2. topo'.release[u][i] = k
        BY <1>2, <3>2
      <4>3. QED
        BY <2>1, <2>2, <4>1, <4>2
    <3>3. CASE topo.release[u][i] # k
      <4>1. ~(u = t /\ i = j)
        BY <1>1, <3>3
      <4>2. Made(u, i)' = Made(u, i)
        BY <2>4, <4>1
      <4>3. Moves(topo.release[u][i])' = Moves(topo.release[u][i])
        BY <1>2, <2>3, <3>1, <3>3
      <4>4. QED
        BY <4>2, <4>3 DEF ReleaseInv
    <3>4. QED
      BY <3>2, <3>3
  <2>6. QED
    BY <1>2, <2>5 DEF ReleaseInv
<1>10. QED
  BY <1>6, <1>7, <1>8, <1>9

\* A thread that goes back to the region has released all its children.
LEMMA LeaveStep == ASSUME IInv, NEW t \in Threads, Leave(t), Types' PROVE IInv'
<1> USE ThreadFacts DEF IInv, Types
<1>1. /\ pc[t] = "release" /\ pc' = [pc EXCEPT ![t] = "region"]
      /\ pos[t] > Len(topo.release[t])
      /\ UNCHANGED <<topo, pos, newState, bArrived, bGo, teamArrived, round>>
  BY DEF Leave, Goto, flags
<1>2. Phase'
  BY <1>1 DEF Phase, Past
<1>3. GatherInv'
  <2>1. \A w \in Threads : pc'[w] = "gather" =>
            pc[w] = "gather" /\ pos'[w] = pos[w] /\ newState'[w] = newState[w]
    BY <1>1
  <2>2. round'[Master] >= round[Master]
    BY <1>1
  <2>3. QED
    BY <1>1, <2>1, <2>2, GatherKept
<1>4. GoInv'
  BY <1>1 DEF GoInv
<1>5. ReleaseInv'
  <2>1. \A u \in Workers : Moves(u)' = Moves(u)
    BY <1>1 DEF Moves, Left
  <2>2. ASSUME NEW u \in Threads, NEW i \in 1..Len(topo.release[u]) PROVE Made(u, i)' = Made(u, i)
    <3>1. CASE u = t
      <4>1. i \in Nat /\ i <= Len(topo.release[t]) /\ Len(topo.release[t]) \in Nat
        <5>1. topo \in Topologies
          OBVIOUS
        <5>2. Len(topo.release[u]) \in Nat
          BY <5>1, ReleaseFacts
        <5>3. i \in Nat /\ i <= Len(topo.release[u])
          BY <5>1, ReleaseFacts
        <5>4. QED
          BY <3>1, <5>2, <5>3
      <4>2. pos[t] \in Nat /\ pos[t] > i
        <5>1. pos[t] \in Nat
          OBVIOUS
        <5>2. pos[t] > Len(topo.release[t])
          BY <1>1
        <5>3. QED
          <6> HIDE DEF IInv, Types
          <6>1. QED
            BY <4>1, <5>1, <5>2, BelowTrans
      <4>3. QED
        BY <1>1, <3>1, <4>2 DEF Made
    <3>2. CASE u # t
      BY <1>1, <3>2 DEF Made
    <3>3. QED
      BY <3>1, <3>2
  <2>3. QED
    BY <1>1, <2>1, <2>2, ReleaseUnmoved
<1>6. QED
  BY <1>2, <1>3, <1>4, <1>5

\* Steps that touch none of the variables of the argument.
LEMMA SilentStep ==
    ASSUME IInv, UNCHANGED <<topo, kind, pc, pos, newState, bArrived, bGo, teamArrived, round>>
    PROVE  IInv'
BY DEF IInv, Types, Phase, Past, GatherInv, Arrived, GoInv, ReleaseInv, Moves, Made, Left

LEMMA InitIInv == Init => IInv
<1> SUFFICES ASSUME Init PROVE IInv
  OBVIOUS
<1> USE ThreadFacts
<1>1. /\ topo \in Topologies /\ kind \in Kinds /\ teamArrived = 0
      /\ \A t \in Threads : /\ pc[t] = "region" /\ pos[t] = 1 /\ newState[t] = 0
                            /\ bArrived[t] = 0 /\ bGo[t] = 0 /\ round[t] = 0
  BY DEF Init
<1>2. Types
  BY DEF Init, Types, PC
<1>3. Phase
  BY <1>1 DEF Phase, Past
<1>4. GatherInv
  <2>1. \A u \in Threads : Arrived(u) = 0
    BY <1>1 DEF Arrived
  <2>2. ASSUME NEW k \in Workers, NEW u \in topo.sub[k] PROVE Arrived(u) >= bArrived[k]
    <3>1. u \in Threads /\ bArrived[k] = 0
      BY <1>1, SubFacts
    <3>2. QED
      BY <2>1, <3>1
  <2>3. QED
    BY <1>1, <2>1, <2>2 DEF GatherInv
<1>5. GoInv
  BY <1>1 DEF GoInv
<1>6. ReleaseInv
  <2>1. \A u \in Workers : Moves(u) = 0
    BY <1>1 DEF Moves, Left
  <2>2. \A u \in Threads : \A i : Made(u, i) = 0
    BY <1>1 DEF Made
  <2>3. QED
    BY <1>1, <2>1, <2>2, TopologyFacts DEF ReleaseInv
<1>7. QED
  BY <1>2, <1>3, <1>4, <1>5, <1>6 DEF IInv

LEMMA StepIInv == IInv /\ [Next]_vars => IInv'
<1> SUFFICES ASSUME IInv, [Next]_vars PROVE IInv'
  OBVIOUS
<1>1. Types'
  BY TypesStep DEF IInv
<1>2. ASSUME NEW t \in Threads, SetIcv(t) PROVE IInv'
  BY <1>2, SilentStep DEF SetIcv, flags
<1>3. ASSUME NEW t \in Threads, Enter(t) PROVE IInv'
  BY <1>1, <1>3, EnterStep
<1>4. ASSUME NEW t \in Threads, GatherChild(t) PROVE IInv'
  BY <1>1, <1>4, GatherChildStep
<1>5. ASSUME NEW t \in Threads, Arrive(t) PROVE IInv'
  BY <1>1, <1>5, ArriveStep
<1>6. CASE Gathered
  BY <1>1, <1>6, GatheredStep
<1>7. CASE EndSerial \/ PushIcvs
  BY <1>1, <1>7, MasterStep
<1>8. ASSUME NEW t \in Threads, SeeGo(t) PROVE IInv'
  BY <1>1, <1>8, SeeGoStep
<1>9. ASSUME NEW t \in Threads, ResetGo(t) PROVE IInv'
  BY <1>1, <1>9, ResetGoStep
<1>10. ASSUME NEW t \in Threads, ReleaseChild(t) PROVE IInv'
  BY <1>1, <1>10, ReleaseChildStep
<1>11. ASSUME NEW t \in Threads, Leave(t) PROVE IInv'
  BY <1>1, <1>11, LeaveStep
<1>12. CASE Terminated \/ UNCHANGED vars
  BY <1>12, SilentStep DEF Terminated, vars, flags
<1>13. QED
  BY <1>2, <1>3, <1>4, <1>5, <1>6, <1>7, <1>8, <1>9, <1>10, <1>11, <1>12
  DEF Next, BarrierStep

LEMMA AlwaysIInv == Spec => []IInv
<1>1. QED
  BY InitIInv, StepIInv, PTL DEF Spec

----------------------------------------------------------------------------
(* The data the barrier carries.  *)
DataTypes ==
    /\ reduced \in [Threads -> [Threads -> Nat]]
    /\ icv \in [Threads -> Icvs] /\ fixed \in [Threads -> Icvs] /\ forkIcv \in Icvs

LEMMA DataTypesStep == Types /\ DataTypes /\ [Next]_vars => DataTypes'
<1> SUFFICES ASSUME Types, DataTypes, [Next]_vars PROVE DataTypes'
  OBVIOUS
<1> USE ThreadFacts DEF DataTypes, icvs
<1>1. ASSUME NEW t \in Threads, SetIcv(t) PROVE DataTypes'
  BY <1>1 DEF SetIcv
<1>2. ASSUME NEW t \in Threads, Enter(t) PROVE DataTypes'
  BY <1>2 DEF Enter, OnlyOwn
<1>3. ASSUME NEW t \in Threads, GatherChild(t) PROVE DataTypes'
  <2>1. PICK k : k = topo.gather[t][pos[t]]
    OBVIOUS
  <2>2. k \in Threads
    <3>1. pos[t] \in Nat \ {0} /\ Len(topo.gather[t]) \in Nat
      BY GatherFacts DEF Types
    <3>2. pos[t] \in 1..Len(topo.gather[t])
      BY <1>3, <3>1 DEF GatherChild
    <3>3. QED
      BY <2>1, <3>2, TopologyFacts DEF Types
  <2>3. \/ reduced' = reduced
        \/ reduced' = [reduced EXCEPT ![t] = [u \in Threads |-> @[u] + reduced[k][u]]]
    BY <1>3, <2>1 DEF GatherChild
  <2>4. reduced' \in [Threads -> [Threads -> Nat]]
    BY <2>2, <2>3
  <2>5. QED
    BY <1>3, <2>4 DEF GatherChild
<1>4. ASSUME NEW t \in Threads, Arrive(t) \/ SeeGo(t) \/ ResetGo(t) PROVE DataTypes'
  BY <1>4 DEF Arrive, SeeGo, ResetGo
<1>5. CASE Gathered
  BY <1>5 DEF Gathered
<1>6. CASE EndSerial
  BY <1>6 DEF EndSerial
<1>7. CASE PushIcvs
  BY <1>7 DEF PushIcvs
<1>8. ASSUME NEW t \in Threads, ReleaseChild(t) PROVE DataTypes'
  BY <1>8 DEF ReleaseChild
<1>9. ASSUME NEW t \in Threads, Leave(t) PROVE DataTypes'
  BY <1>9 DEF Leave
<1>10. CASE Terminated \/ UNCHANGED vars
  BY <1>10 DEF Terminated, vars
<1>11. QED
  BY <1>1, <1>2, <1>3, <1>4, <1>5, <1>6, <1>7, <1>8, <1>9, <1>10 DEF Next, BarrierStep

\* The words count barriers, and every thread's ICVs are values somebody has set.
THEOREM TypeCorrect == Spec => []TypeOK
<1>1. Init => DataTypes
  BY ThreadFacts DEF Init, DataTypes, OnlyOwn
<1>2. IInv /\ DataTypes /\ [Next]_vars => DataTypes'
  BY DataTypesStep DEF IInv
<1>3. IInv /\ DataTypes => TypeOK
  BY DEF IInv, Types, DataTypes, TypeOK
<1>4. QED
  BY <1>1, <1>2, <1>3, AlwaysIInv, PTL DEF Spec


----------------------------------------------------------------------------
(* What a thread has collected, once each: its own value and, of every child it *)
(* has waited for, the values of the threads below that child.                  *)
Below(t, u, n) ==
    u = t \/ \E i \in 1..Len(topo.gather[t]) : i < n /\ u \in topo.sub[topo.gather[t][i]]
ReducedInv == kind # "forkjoin" =>
    /\ \A t \in Threads : pc[t] = "gather" =>
          \A u \in Threads : reduced[t][u] = IF Below(t, u, pos[t]) THEN 1 ELSE 0
    /\ \A t \in Threads : pc[t] \in {"wait", "push", "serial"} =>
          \A u \in Threads : reduced[t][u] = IF u \in topo.sub[t] THEN 1 ELSE 0

\* A step that gives no thread new data, and brings none to the gather, to its
\* wait or to the master's pause after it from elsewhere.
LEMMA ReducedKept ==
    ASSUME ReducedInv, UNCHANGED <<topo, kind, reduced>>,
           \A t \in Threads : pc'[t] = "gather" => pc[t] = "gather" /\ pos'[t] = pos[t],
           \A t \in Threads : pc'[t] \in {"wait", "push", "serial"} =>
                                 pc[t] \in {"wait", "push", "serial"}
    PROVE  ReducedInv'
<1>1. ASSUME kind # "forkjoin", NEW t \in Threads, pc'[t] = "gather", NEW u \in Threads
      PROVE  reduced'[t][u] = IF Below(t, u, pos[t])' THEN 1 ELSE 0
  <2>1. Below(t, u, pos[t])' <=> Below(t, u, pos[t])
    BY <1>1 DEF Below
  <2>2. QED
    BY <1>1, <2>1 DEF ReducedInv
<1>2. ASSUME kind # "forkjoin", NEW t \in Threads, pc'[t] \in {"wait", "push", "serial"},
             NEW u \in Threads
      PROVE  reduced'[t][u] = IF u \in topo'.sub[t] THEN 1 ELSE 0
  BY <1>2 DEF ReducedInv
<1>3. QED
  BY <1>1, <1>2 DEF ReducedInv

\* A thread that enters holds its own value only.
LEMMA ReducedEnter ==
    ASSUME IInv, DataTypes, ReducedInv, NEW t \in Threads, Enter(t)
    PROVE  ReducedInv'
<1> USE ThreadFacts DEF IInv, Types, DataTypes
<1>1. /\ pc' = [pc EXCEPT ![t] = "gather"] /\ pos' = [pos EXCEPT ![t] = 1]
      /\ reduced' = [reduced EXCEPT ![t] = OnlyOwn(t)] /\ UNCHANGED <<topo, kind>>
  BY DEF Enter, Goto, Reset
<1>2. ASSUME kind # "forkjoin", NEW w \in Threads, pc'[w] = "gather", NEW u \in Threads
      PROVE  reduced'[w][u] = IF Below(w, u, pos[w])' THEN 1 ELSE 0
  <2>1. CASE w = t
    <3>1. reduced'[w][u] = IF u = t THEN 1 ELSE 0
      BY <1>1, <2>1 DEF OnlyOwn
    <3>2. Below(w, u, pos[w])' <=> u = t
      <4>1. \A i \in 1..Len(topo.gather[w]) : ~(i < 1)
        BY GatherFacts
      <4>2. pos'[w] = 1 /\ topo' = topo
        BY <1>1, <2>1
      <4>3. QED
        BY <2>1, <4>1, <4>2 DEF Below
    <3>3. QED
      BY <3>1, <3>2
  <2>2. CASE w # t
    <3>1. pc[w] = "gather" /\ pos'[w] = pos[w] /\ reduced'[w] = reduced[w]
      BY <1>1, <1>2, <2>2
    <3>2. Below(w, u, pos[w])' <=> Below(w, u, pos[w])
      BY <1>1, <3>1 DEF Below
    <3>3. QED
      BY <1>2, <3>1, <3>2 DEF ReducedInv
  <2>3. QED
    BY <2>1, <2>2
<1>3. ASSUME kind # "forkjoin", NEW w \in Threads, pc'[w] \in {"wait", "push", "serial"},
             NEW u \in Threads
      PROVE  reduced'[w][u] = IF u \in topo'.sub[w] THEN 1 ELSE 0
  <2>1. w # t /\ pc[w] = pc'[w] /\ reduced'[w] = reduced[w]
    BY <1>1, <1>3
  <2>2. QED
    BY <1>1, <1>3, <2>1 DEF ReducedInv
<1>4. QED
  BY <1>1, <1>2, <1>3 DEF ReducedInv

\* The child a thread has waited for waits in turn, with the values of its whole
\* subtree, none of which the thread has yet.
LEMMA ReducedGatherChild ==
    ASSUME IInv, DataTypes, ReducedInv, NEW t \in Threads, GatherChild(t)
    PROVE  ReducedInv'
<1> USE ThreadFacts DEF IInv, Types, DataTypes
<1>1. /\ pc[t] = "gather" /\ pos[t] <= Len(topo.gather[t])
      /\ bArrived[topo.gather[t][pos[t]]] = newState[t]
      /\ pos' = [pos EXCEPT ![t] = @ + 1] /\ UNCHANGED <<topo, kind, pc>>
  BY GatherChildEffect
<1>2. pos[t] \in 1..Len(topo.gather[t])
  BY <1>1, GatherFacts
<1>3. PICK k \in Workers : k = topo.gather[t][pos[t]]
  BY <1>2, GatherFacts
<1>4. pc[k] = "wait"
  <2>1. pc[k] \in PC /\ bArrived[k] = teamArrived + 1 /\ round[k] <= teamArrived + 1
    BY <1>1, <1>3 DEF Phase
  <2>2. pc[k] # "gather" /\ round[k] = teamArrived + 1
    BY <2>1 DEF Phase
  <2>3. pc[k] \notin Past
    BY <2>2 DEF Phase
  <2>4. QED
    BY <2>1, <2>2, <2>3 DEF PC, Past
<1>5. ASSUME kind # "forkjoin"
      PROVE  /\ \A u \in Threads : reduced'[t][u] = reduced[t][u] + reduced[k][u]
             /\ \A w \in Threads : w # t => reduced'[w] = reduced[w]
  <2>1. reduced' = [reduced EXCEPT ![t] = [u \in Threads |-> @[u] + reduced[k][u]]]
    BY <1>3, <1>5 DEF GatherChild
  <2>2. QED
    BY <2>1
<1>6. ASSUME kind # "forkjoin", NEW w \in Threads, pc'[w] = "gather", NEW u \in Threads
      PROVE  reduced'[w][u] = IF Below(w, u, pos[w])' THEN 1 ELSE 0
  <2>1. CASE w = t
    <3>1. Below(t, u, pos[t])' <=> Below(t, u, pos[t]) \/ u \in topo.sub[k]
      <4>1. \A i \in 1..Len(topo.gather[t]) : i < pos[t] + 1 <=> i < pos[t] \/ i = pos[t]
        <5>1. \A i, n \in Nat : i < n + 1 <=> i < n \/ i = n
          OBVIOUS
        <5>2. pos[t] \in Nat /\ \A i \in 1..Len(topo.gather[t]) : i \in Nat
          BY <1>2, GatherFacts
        <5>3. QED
          BY <5>1, <5>2
      <4>2. pos'[t] = pos[t] + 1 /\ topo' = topo
        BY <1>1
      <4>3. QED
        BY <1>2, <1>3, <4>1, <4>2 DEF Below
    <3>2. ~(Below(t, u, pos[t]) /\ u \in topo.sub[k])
      <4>1. \A i \in 1..Len(topo.gather[t]) : i < pos[t] => i # pos[t]
        BY GatherFacts
      <4>2. QED
        BY <1>2, <1>3, <4>1, TreeFacts DEF Below
    <3>3. reduced[t][u] = IF Below(t, u, pos[t]) THEN 1 ELSE 0
      BY <1>1, <1>6 DEF ReducedInv
    <3>4. reduced[k][u] = IF u \in topo.sub[k] THEN 1 ELSE 0
      BY <1>4, <1>6 DEF ReducedInv
    <3>5. reduced'[t][u] = reduced[t][u] + reduced[k][u]
      BY <1>5, <1>6
    <3>6. QED
      BY <2>1, <3>1, <3>2, <3>3, <3>4, <3>5
  <2>2. CASE w # t
    <3>1. pc[w] = "gather" /\ pos'[w] = pos[w] /\ reduced'[w] = reduced[w]
      BY <1>1, <1>5, <1>6, <2>2
    <3>2. Below(w, u, pos[w])' <=> Below(w, u, pos[w])
      BY <1>1, <3>1 DEF Below
    <3>3. QED
      BY <1>6, <3>1, <3>2 DEF ReducedInv
  <2>3. QED
    BY <2>1, <2>2
<1>7. ASSUME kind # "forkjoin", NEW w \in Threads, pc'[w] \in {"wait", "push", "serial"},
             NEW u \in Threads
      PROVE  reduced'[w][u] = IF u \in topo'.sub[w] THEN 1 ELSE 0
  <2>1. w # t /\ pc[w] = pc'[w] /\ reduced'[w] = reduced[w]
    BY <1>1, <1>5, <1>7
  <2>2. QED
    BY <1>1, <1>7, <2>1 DEF ReducedInv
<1>8. QED
  BY <1>1, <1>6, <1>7 DEF ReducedInv

\* Past its last child a thread holds the values of its whole subtree.
LEMMA Collected ==
    ASSUME Types, NEW t \in Threads, pos[t] > Len(topo.gather[t]), NEW u \in Threads
    PROVE  Below(t, u, pos[t]) <=> u \in topo.sub[t]
<1>1. pos[t] \in Nat /\ topo \in Topologies
  BY DEF Types
<1>2. \A i \in 1..Len(topo.gather[t]) : i < pos[t]
  BY <1>1, GatherFacts
<1>3. QED
  BY <1>1, <1>2, TreeFacts DEF Below

LEMMA ReducedArrive ==
    ASSUME IInv, ReducedInv, NEW t \in Threads, pos[t] > Len(topo.gather[t]),
           pc[t] = "gather", NEW to \in {"wait", "push", "serial"},
           pc' = [pc EXCEPT ![t] = to], UNCHANGED <<topo, kind, pos, reduced>>
    PROVE  ReducedInv'
<1> USE DEF IInv
<1>1. ASSUME kind # "forkjoin", NEW w \in Threads, pc'[w] = "gather", NEW u \in Threads
      PROVE  reduced'[w][u] = IF Below(w, u, pos[w])' THEN 1 ELSE 0
  <2>1. pc[w] = "gather"
    BY <1>1 DEF Types
  <2>2. Below(w, u, pos[w])' <=> Below(w, u, pos[w])
    BY DEF Below
  <2>3. QED
    BY <1>1, <2>1, <2>2 DEF ReducedInv
<1>2. ASSUME kind # "forkjoin", NEW w \in Threads, pc'[w] \in {"wait", "push", "serial"},
             NEW u \in Threads
      PROVE  reduced'[w][u] = IF u \in topo'.sub[w] THEN 1 ELSE 0
  <2>1. CASE w = t
    BY <1>2, <2>1, Collected DEF ReducedInv
  <2>2. CASE w # t
    <3>1. pc'[w] = pc[w]
      BY <2>2 DEF Types
    <3>2. QED
      BY <1>2, <3>1 DEF ReducedInv
  <2>3. QED
    BY <2>1, <2>2
<1>3. QED
  BY <1>1, <1>2 DEF ReducedInv

LEMMA ReducedStep == IInv /\ DataTypes /\ ReducedInv /\ [Next]_vars => ReducedInv'
<1> SUFFICES ASSUME IInv, DataTypes, ReducedInv, [Next]_vars PROVE ReducedInv'
  OBVIOUS
<1>0. pc \in [Threads -> PC] /\ pos \in [Threads -> Nat \ {0}] /\ Master \in Threads
  BY ThreadFacts DEF IInv, Types
<1>1. ASSUME NEW t \in Threads, Enter(t) PROVE ReducedInv'
  BY <1>1, ReducedEnter
<1>2. ASSUME NEW t \in Threads, GatherChild(t) PROVE ReducedInv'
  BY <1>2, ReducedGatherChild
<1>3. ASSUME NEW t \in Threads, Arrive(t) PROVE ReducedInv'
  BY <1>3, ReducedArrive DEF Arrive, Goto
<1>4. CASE Gathered
  <2>1. /\ pos[Master] > Len(topo.gather[Master]) /\ pc[Master] = "gather"
        /\ \E to \in {"push", "serial"} : pc' = [pc EXCEPT ![Master] = to]
        /\ UNCHANGED <<topo, kind, pos, reduced>>
    BY <1>4 DEF Gathered, Goto
  <2>2. QED
    BY <1>0, <2>1, ReducedArrive
<1>5. ASSUME NEW t \in Threads, SetIcv(t) PROVE ReducedInv'
  BY <1>5, ReducedKept DEF SetIcv
<1>6. CASE EndSerial
  BY <1>0, <1>6, ReducedKept DEF EndSerial, Goto
<1>7. CASE PushIcvs
  BY <1>0, <1>7, ReducedKept DEF PushIcvs, Goto, Reset
<1>8. ASSUME NEW t \in Threads, SeeGo(t) \/ ResetGo(t) PROVE ReducedInv'
  BY <1>0, <1>8, ReducedKept DEF SeeGo, ResetGo, Goto, Reset
<1>9. ASSUME NEW t \in Threads, ReleaseChild(t) PROVE ReducedInv'
  <2>1. /\ pc[t] = "release" /\ pos' = [pos EXCEPT ![t] = @ + 1]
        /\ UNCHANGED <<topo, kind, pc, reduced>>
    BY <1>9 DEF ReleaseChild, Advance
  <2>2. QED
    BY <1>0, <2>1, ReducedKept
<1>10. ASSUME NEW t \in Threads, Leave(t) PROVE ReducedInv'
  BY <1>0, <1>10, ReducedKept DEF Leave, Goto
<1>11. CASE Terminated \/ UNCHANGED vars
  BY <1>11, ReducedKept DEF Terminated, vars
<1>12. QED
  BY <1>1, <1>2, <1>3, <1>4, <1>5, <1>6, <1>7, <1>8, <1>9, <1>10, <1>11 DEF Next, BarrierStep

\* Whatever the gather tree, the master ends with every thread's value exactly once:
\* it has waited for children that had each collected a whole subtree, the subtrees
\* share no thread, and no child has gone on to the next barrier meanwhile.
THEOREM ReductionDone == Spec => []ReductionComplete
<1>1. Init => DataTypes /\ ReducedInv
  BY ThreadFacts DEF Init, DataTypes, OnlyOwn, ReducedInv
<1>2. IInv /\ DataTypes /\ [Next]_vars => DataTypes'
  BY DataTypesStep DEF IInv
<1>3. IInv /\ ReducedInv => ReductionComplete
  <2> SUFFICES ASSUME IInv, ReducedInv, kind = "plain", pc[Master] \in {"serial", "push"},
                      NEW u \in Threads
               PROVE  reduced[Master][u] = 1
    BY DEF ReductionComplete
  <2>1. topo.sub[Master] = Threads /\ Master \in Threads
    BY TopologyFacts, ThreadFacts DEF IInv, Types
  <2>2. QED
    BY <2>1 DEF ReducedInv
<1>4. QED
  BY <1>1, <1>2, <1>3, AlwaysIInv, ReducedStep, PTL DEF Spec

----------------------------------------------------------------------------
(* Where the ICVs of the region are on their way to a worker.  Until the next   *)
(* region is forked, a linear release has stored them in the implicit task of    *)
(* every worker that has not left, and a hyper release in th_fixed_icvs of       *)
(* every thread whose go word has been set.                                      *)
IcvInv ==
    /\ kind = "plain" => \A t \in Threads : icv[t] = forkIcv
    /\ kind = "forkjoin" /\ pc[Master] = "push" => icv[Master] = forkIcv
    /\ kind = "forkjoin" /\ topo.push = "linear" /\ pc[Master] \notin {"serial", "push"} =>
          \A t \in Workers : pc[t] \in {"wait", "woken", "release"} /\ round[t] = teamArrived
                                => icv[t] = forkIcv
    /\ kind = "forkjoin" /\ topo.push = "hyper" =>
          \A t \in Threads : pc[t] \in {"woken", "release"} \/ (pc[t] = "wait" /\ bGo[t] # 0)
                                => fixed[t] = forkIcv

\* The barrier is one of the two kinds and pushes in one of the three ways.
LEMMA KindFacts == Types => kind \in {"plain", "forkjoin"} /\ topo.push \in {"linear", "tree", "hyper"}
BY KindsAssumption, TopologyAssumption DEF Types, KindsAssumption, TopologyAssumption

LEMMA IcvStep == IInv /\ DataTypes /\ IcvInv /\ [Next]_vars => IcvInv'
<1> SUFFICES ASSUME IInv, DataTypes, IcvInv, [Next]_vars PROVE IcvInv'
  OBVIOUS
<1>0. /\ pc \in [Threads -> PC] /\ bGo \in [Threads -> Nat] /\ round \in [Threads -> Nat]
      /\ icv \in [Threads -> Icvs] /\ fixed \in [Threads -> Icvs] /\ teamArrived \in Nat
      /\ kind \in {"plain", "forkjoin"} /\ Master \in Threads /\ Workers \subseteq Threads
      /\ \A t \in Threads : t # Master <=> t \in Workers
  BY ThreadFacts, KindFacts DEF IInv, Types, DataTypes
<1>1. ASSUME NEW t \in Threads, SetIcv(t) PROVE IcvInv'
  BY <1>0, <1>1 DEF SetIcv, IcvInv, flags
<1>2. ASSUME NEW t \in Threads, Enter(t) PROVE IcvInv'
  BY <1>0, <1>2 DEF Enter, Goto, IcvInv, flags, icvs
<1>3. ASSUME NEW t \in Threads, GatherChild(t) PROVE IcvInv'
  <2>1. UNCHANGED <<topo, kind, pc, bGo, teamArrived, round, icv, fixed, forkIcv>>
    BY <1>3 DEF GatherChild, flags, icvs
  <2>2. QED
    BY <2>1 DEF IcvInv
<1>4. ASSUME NEW t \in Threads, Arrive(t) PROVE IcvInv'
  <2>1. /\ t \in Workers /\ pc[t] = "gather" /\ pc' = [pc EXCEPT ![t] = "wait"]
        /\ UNCHANGED <<topo, kind, bGo, teamArrived, round, icv, fixed, forkIcv>>
    BY <1>0, <1>4 DEF Arrive, Goto, icvs
  <2>2. round[t] = teamArrived + 1 /\ bGo[t] = 0
    BY <2>1 DEF IInv, Phase, GoInv
  <2>3. QED
    BY <1>0, <2>1, <2>2 DEF IcvInv
<1>5. CASE Gathered
  <2>1. /\ pc[Master] = "gather" /\ UNCHANGED <<topo, kind, bGo, round, icv, fixed, forkIcv>>
        /\ \/ kind = "plain" /\ pc' = [pc EXCEPT ![Master] = "push"]
           \/ pc' = [pc EXCEPT ![Master] = "serial"]
    BY <1>5 DEF Gathered, Goto, icvs
  <2>2. QED
    BY <1>0, <2>1 DEF IcvInv
<1>6. CASE EndSerial
  <2>1. /\ pc[Master] = "serial" /\ pc' = [pc EXCEPT ![Master] = "push"]
        /\ UNCHANGED <<topo, kind, bGo, round, fixed, teamArrived>>
    BY <1>6 DEF EndSerial, Goto, flags, icvs
  <2>2. \A t \in Workers : pc[t] = "wait" /\ bGo[t] = 0
    BY <2>1 DEF IInv, GoInv
  <2>3. \/ kind = "plain" /\ UNCHANGED <<icv, forkIcv>>
        \/ kind # "plain" /\ icv' = [icv EXCEPT ![Master] = forkIcv']
    BY <1>6 DEF EndSerial, icvs
  <2>4. QED
    BY <1>0, <2>1, <2>2, <2>3 DEF IcvInv
<1>7. CASE PushIcvs
  <2>1. /\ pc[Master] = "push" /\ pc' = [pc EXCEPT ![Master] = "release"]
        /\ UNCHANGED <<topo, kind, bGo, round, teamArrived, forkIcv>>
    BY <1>7 DEF PushIcvs, Goto, flags
  <2>2. \A t \in Workers : pc[t] = "wait" /\ bGo[t] = 0
    BY <2>1 DEF IInv, GoInv
  <2>3. /\ icv' = IF kind = "forkjoin" /\ topo.push = "linear"
                  THEN [t \in Threads |-> icv[Master]] ELSE icv
        /\ fixed' = IF kind = "forkjoin" /\ topo.push = "hyper"
                    THEN [fixed EXCEPT ![Master] = icv[Master]] ELSE fixed
    BY <1>7 DEF PushIcvs
  <2>4. QED
    BY <1>0, <2>1, <2>2, <2>3 DEF IcvInv
<1>8. ASSUME NEW t \in Threads, SeeGo(t) PROVE IcvInv'
  <2>1. /\ pc[t] = "wait" /\ bGo[t] = 1 /\ pc' = [pc EXCEPT ![t] = "woken"]
        /\ UNCHANGED <<topo, kind, bGo, round, teamArrived, icv, fixed, forkIcv>>
    BY <1>8 DEF SeeGo, Goto, flags, icvs
  <2>2. t # Master
    BY <2>1 DEF IInv, Phase
  <2>3. QED
    BY <1>0, <2>1, <2>2 DEF IcvInv
<1>9. ASSUME NEW t \in Threads, ResetGo(t) PROVE IcvInv'
  <2>1. /\ pc[t] = "woken" /\ pc' = [pc EXCEPT ![t] = "release"]
        /\ bGo' = [bGo EXCEPT ![t] = 0]
        /\ UNCHANGED <<topo, kind, round, teamArrived, icv, fixed, forkIcv>>
    BY <1>9 DEF ResetGo, Goto, icvs
  <2>2. t # Master
    BY <2>1 DEF IInv, Phase
  <2>3. QED
    BY <1>0, <2>1, <2>2 DEF IcvInv
<1>10. ASSUME NEW t \in Threads, ReleaseChild(t) PROVE IcvInv'
  <2>1. PICK k : k = topo.release[t][pos[t]]
    OBVIOUS
  <2>2. /\ pc[t] = "release" /\ bGo' = [bGo EXCEPT ![k] = @ + 1]
        /\ icv' = IF kind = "forkjoin" /\ topo.push = "tree"
                  THEN [icv EXCEPT ![k] = icv[Master]] ELSE icv
        /\ fixed' = IF kind = "forkjoin" /\ topo.push = "hyper"
                    THEN [fixed EXCEPT ![k] = fixed[t]] ELSE fixed
        /\ UNCHANGED <<topo, kind, pc, round, teamArrived, forkIcv>>
    BY <1>10, <2>1 DEF ReleaseChild
  <2>3. QED
    BY <1>0, <2>2 DEF IcvInv
<1>11. ASSUME NEW t \in Threads, Leave(t) PROVE IcvInv'
  <2>1. /\ pc[t] = "release" /\ pc' = [pc EXCEPT ![t] = "region"]
        /\ icv' = IF kind = "forkjoin" /\ topo.push = "hyper" /\ t # Master
                  THEN [icv EXCEPT ![t] = fixed[t]] ELSE icv
        /\ UNCHANGED <<topo, kind, bGo, round, teamArrived, fixed, forkIcv>>
    BY <1>11 DEF Leave, Goto, flags
  <2>2. QED
    BY <1>0, <2>1 DEF IcvInv
<1>12. CASE Terminated \/ UNCHANGED vars
  BY <1>12 DEF Terminated, vars, IcvInv, flags, icvs
<1>13. QED
  BY <1>1, <1>2, <1>3, <1>4, <1>5, <1>6, <1>7, <1>8, <1>9, <1>10, <1>11, <1>12
  DEF Next, BarrierStep

\* A worker leaves the barrier in "release" only by Leave.
LEMMA IcvLeave ==
    ASSUME IInv, DataTypes, IcvInv, [Next]_vars, topo.push # "tree", NEW t \in Workers,
           pc[t] = "release", pc'[t] = "region"
    PROVE  icv'[t] = forkIcv
<1>0. /\ pc \in [Threads -> PC] /\ icv \in [Threads -> Icvs]
      /\ kind \in {"plain", "forkjoin"} /\ topo.push \in {"linear", "hyper"}
      /\ t \in Threads /\ t # Master
  BY ThreadFacts, KindFacts DEF IInv, Types, DataTypes
<1>1. Leave(t)
  <2>1. ASSUME NEW w \in Threads, SetIcv(w) \/ GatherChild(w) \/ ReleaseChild(w) PROVE FALSE
    <3>1. pc' = pc
      BY <2>1 DEF SetIcv, GatherChild, ReleaseChild
    <3>2. QED
      BY <3>1
  <2>2. ASSUME NEW w \in Threads, Enter(w) \/ Arrive(w) \/ SeeGo(w) \/ ResetGo(w) PROVE FALSE
    BY <1>0, <2>2 DEF Enter, Arrive, SeeGo, ResetGo, Goto
  <2>3. ASSUME Gathered \/ EndSerial \/ PushIcvs PROVE FALSE
    BY <1>0, <2>3 DEF Gathered, EndSerial, PushIcvs, Goto
  <2>4. ASSUME NEW w \in Threads, Leave(w), w # t PROVE FALSE
    BY <1>0, <2>4 DEF Leave, Goto
  <2>5. ASSUME Terminated \/ UNCHANGED vars PROVE FALSE
    BY <2>5 DEF Terminated, vars
  <2>6. QED
    BY <2>1, <2>2, <2>3, <2>4, <2>5 DEF Next, BarrierStep
<1>2. /\ icv' = IF kind = "forkjoin" /\ topo.push = "hyper" /\ t # Master
                THEN [icv EXCEPT ![t] = fixed[t]] ELSE icv
  BY <1>1 DEF Leave
<1>3. round[t] = teamArrived /\ pc[Master] \notin {"serial", "push"}
  BY <1>0 DEF IInv, Phase, Past, GoInv
<1>4. CASE kind = "plain"
  BY <1>0, <1>2, <1>4 DEF IcvInv
<1>5. CASE kind = "forkjoin" /\ topo.push = "linear"
  BY <1>0, <1>2, <1>3, <1>5 DEF IcvInv
<1>6. CASE kind = "forkjoin" /\ topo.push = "hyper"
  BY <1>0, <1>2, <1>6 DEF IcvInv
<1>7. QED
  BY <1>0, <1>4, <1>5, <1>6

\* However many barriers and regions have gone before, a worker released linearly or
\* by the hyper pattern starts with the ICVs its region was forked with, whatever the
\* master has set for itself since.
THEOREM IcvReachesWorkers == Spec => IcvInheritedFixed
<1>1. Init => DataTypes /\ IcvInv
  BY ThreadFacts DEF Init, DataTypes, OnlyOwn, IcvInv
<1>2. IInv /\ DataTypes /\ [Next]_vars => DataTypes'
  BY DataTypesStep DEF IInv
<1>3. IInv /\ DataTypes /\ IcvInv /\ [Next]_vars =>
         [topo.push # "tree" => \A t \in Workers :
             pc[t] = "release" /\ pc'[t] = "region" => icv'[t] = forkIcv]_vars
  BY IcvLeave
<1>4. QED
  BY <1>1, <1>2, <1>3, AlwaysIInv, IcvStep, PTL DEF Spec, IcvInheritedFixed

\* When the master has gathered the team, every worker waits with a clear go word and
\* a b_arrived word equal to the team's: the exact comparisons of the next barrier
\* start from equal words.
THEOREM FlagsStayInStep == Spec => []FlagsInStep
<1>1. IInv => FlagsInStep
  BY ThreadFacts DEF IInv, Types, Phase, GoInv, FlagsInStep
<1>2. QED
  BY <1>1, AlwaysIInv, PTL

\* Nobody sees its n-th release before everybody has entered the n-th barrier.
LEMMA StepAbs == IInv /\ [Next]_vars => [Abs!Next]_<<round, [t \in Threads |-> Left(t)]>>
<1> SUFFICES ASSUME IInv, [Next]_vars
             PROVE  [Abs!Next]_<<round, [t \in Threads |-> Left(t)]>>
  OBVIOUS
<1> USE ThreadFacts DEF IInv, Types
<1>1. ASSUME UNCHANGED round, \A u \in Threads : Left(u)' = Left(u)
      PROVE  UNCHANGED <<round, [t \in Threads |-> Left(t)]>>
  BY <1>1
<1>2. ASSUME NEW t \in Threads, Enter(t) PROVE Abs!Enter(t)
  <2>1. /\ pc[t] = "region" /\ pc' = [pc EXCEPT ![t] = "gather"]
        /\ round' = [round EXCEPT ![t] = @ + 1]
    BY <1>2 DEF Enter, Goto
  <2>2. Left(t) = round[t]
    BY <2>1 DEF Left
  <2>3. \A u \in Threads : Left(u)' = Left(u)
    BY <2>1 DEF Left
  <2>4. QED
    BY <2>1, <2>2, <2>3 DEF Abs!Enter
<1>3. CASE Gathered
  <2>1. /\ pc[Master] = "gather" /\ pos[Master] > Len(topo.gather[Master])
        /\ pc' = [pc EXCEPT ![Master] = "push"] \/ pc' = [pc EXCEPT ![Master] = "serial"]
        /\ UNCHANGED round
    BY <1>3 DEF Gathered, Goto
  <2>2. \A u \in Threads : round[u] = teamArrived + 1
    BY <2>1, AllWait DEF Phase
  <2>3. Left(Master) = round[Master] - 1 /\ Left(Master)' = round[Master]
    BY <2>1 DEF Left
  <2>4. \A u \in Threads : u # Master => Left(u)' = Left(u)
    BY <2>1 DEF Left
  <2>5. Left(Master) < round[Master] /\ \A u \in Threads : round[u] >= round[Master]
    BY <2>2, <2>3
  <2>6. Left(Master)' = Left(Master) + 1
    BY <2>3
  <2>7. UNCHANGED round
    BY <2>1
  <2>8. Abs!Leave(Master)
    BY <2>4, <2>5, <2>6, <2>7 DEF Abs!Leave
  <2>9. QED
    BY <2>8 DEF Abs!Next
<1>4. ASSUME NEW t \in Threads, SeeGo(t) PROVE Abs!Leave(t)
  <2>1. /\ pc[t] = "wait" /\ bGo[t] = 1 /\ pc' = [pc EXCEPT ![t] = "woken"] /\ UNCHANGED round
    BY <1>4 DEF SeeGo, Goto
  <2>2. round[t] = teamArrived
    BY <2>1 DEF GoInv
  <2>3. ASSUME NEW u \in Threads PROVE round[u] >= teamArrived
    <3>1. Arrived(u) >= teamArrived /\ Arrived(u) \in Nat
      BY DEF GatherInv, Arrived
    <3>2. round[u] >= Arrived(u)
      BY DEF Arrived, Phase
    <3>3. QED
      BY <3>1, <3>2, AtLeastTrans
  <2>4. Left(t) = round[t] - 1 /\ Left(t)' = round[t]
    BY <2>1 DEF Left
  <2>5. \A u \in Threads : u # t => Left(u)' = Left(u)
    BY <2>1 DEF Left
  <2>6. Left(t) < round[t] /\ \A u \in Threads : round[u] >= round[t]
    BY <2>2, <2>3, <2>4
  <2>7. Left(t)' = Left(t) + 1
    BY <2>4
  <2>8. QED
    BY <2>1, <2>5, <2>6, <2>7 DEF Abs!Leave
<1>5. ASSUME NEW t \in Threads, SetIcv(t) \/ GatherChild(t) \/ ReleaseChild(t)
      PROVE  UNCHANGED <<round, [u \in Threads |-> Left(u)]>>
  <2>1. UNCHANGED <<pc, round>>
    BY <1>5 DEF SetIcv, GatherChild, ReleaseChild
  <2>2. QED
    BY <1>1, <2>1 DEF Left
<1>6. ASSUME NEW t \in Threads, Arrive(t) \/ ResetGo(t) \/ Leave(t)
      PROVE  UNCHANGED <<round, [u \in Threads |-> Left(u)]>>
  <2>1. /\ UNCHANGED round
        /\ \/ pc[t] = "gather" /\ pc' = [pc EXCEPT ![t] = "wait"]
           \/ pc[t] = "woken" /\ pc' = [pc EXCEPT ![t] = "release"]
           \/ pc[t] = "release" /\ pc' = [pc EXCEPT ![t] = "region"]
    BY <1>6 DEF Arrive, ResetGo, Leave, Goto
  <2>2. QED
    BY <1>1, <2>1 DEF Left
<1>7. CASE EndSerial \/ PushIcvs
  <2>1. /\ UNCHANGED round
        /\ \/ pc[Master] = "serial" /\ pc' = [pc EXCEPT ![Master] = "push"]
           \/ pc[Master] = "push" /\ pc' = [pc EXCEPT ![Master] = "release"]
    BY <1>7 DEF EndSerial, PushIcvs, Goto
  <2>2. QED
    BY <1>1, <2>1 DEF Left
<1>8. CASE Terminated \/ UNCHANGED vars
  BY <1>1, <1>8 DEF Terminated, vars, Left
<1>9. QED
  BY <1>2, <1>3, <1>4, <1>5, <1>6, <1>7, <1>8 DEF Next, BarrierStep, Abs!Next

THEOREM BarrierHolds == Spec => Abs!Safety
<1>1. Init => Abs!Init
  BY ThreadFacts DEF Init, Abs!Init, Left
<1>2. QED
  BY <1>1, AlwaysIInv, StepAbs, PTL DEF Spec, Abs!Safety
=============================================================================
