--------------------------- MODULE TaskGraphSteps ----------------------------
(***************************************************************************)
(* Steps of TaskGraph, part one: every action keeps the shape of the          *)
(* invariant, what a step leaves alone stays, and the counters of children,   *)
(* of taskgroups and of proxies stay exact.                                   *)
(***************************************************************************)
EXTENDS TaskGraphInv, SequenceTheorems, FiniteSetTheorems, TLAPS

----------------------------------------------------------------------------
(* Sequences of frames: a step of a thread replaces its top frame by none,   *)
(* one or two.                                                               *)

\* The stack of th has its top replaced by the frames in new.
Replaced(th, new) ==
    /\ stack' \in [Threads -> Seq(FrameRecords)]
    /\ \A u \in Threads : u # th => stack'[u] = stack[u]
    /\ Len(stack'[th]) = Len(stack[th]) - 1 + Len(new)
    /\ \A i \in 1..Len(stack[th]) - 1 : stack'[th][i] = stack[th][i]
    /\ \A k \in 1..Len(new) : stack'[th][Len(stack[th]) - 1 + k] = new[k]

\* The front and the last element of a sequence.
LEMMA FrontLast ==
    ASSUME NEW S, NEW s \in Seq(S), s # <<>>
    PROVE  /\ Len(s) \in Nat /\ Len(s) >= 1
           /\ Front(s) \in Seq(S) /\ Len(Front(s)) = Len(s) - 1
           /\ \A i \in 1..Len(s) - 1 : Front(s)[i] = s[i]
           /\ Last(s) = s[Len(s)] /\ Last(s) \in S
<1>1. Len(s) \in Nat /\ Len(s) >= 1 /\ \A i \in 1..Len(s) : s[i] \in S
  BY EmptySeq
<1>2. 1 \in 1..Len(s) + 1 /\ Len(s) - 1 \in 0..Len(s)  BY <1>1
<1>3. SubSeq(s, 1, Len(s) - 1) = [i \in 1..Len(s) - 1 |-> s[i]]
  BY <1>1
<1>4. [i \in 1..Len(s) - 1 |-> s[i]] \in Seq(S) /\ Len([i \in 1..Len(s) - 1 |-> s[i]]) = Len(s) - 1
  BY <1>1
<1> QED  BY <1>1, <1>3, <1>4 DEF Front, Last

\* A new top frame is one in place of one.
LEMMA SetReplaces ==
    ASSUME stack \in [Threads -> Seq(FrameRecords)], NEW th \in Threads, stack[th] # <<>>,
           NEW f \in FrameRecords, SetTop(th, f)
    PROVE  Replaced(th, <<f>>) /\ <<f>> \in Seq(FrameRecords) /\ Len(<<f>>) = 1 /\ <<f>>[1] = f
<1> DEFINE s == Front(stack[th])
<1>1. s \in Seq(FrameRecords) /\ Len(s) = Len(stack[th]) - 1 /\ Len(stack[th]) \in Nat
      /\ \A i \in 1..Len(stack[th]) - 1 : s[i] = stack[th][i]
  BY FrontLast, Zenon
<1>2. stack' = [stack EXCEPT ![th] = Append(s, f)]  BY DEF SetTop
<1>3. <<f>> \in Seq(FrameRecords) /\ Len(<<f>>) = 1 /\ <<f>>[1] = f  OBVIOUS
<1> HIDE DEF s
<1>4. Append(s, f) \in Seq(FrameRecords) /\ Len(Append(s, f)) = Len(stack[th])
      /\ Append(s, f)[Len(stack[th])] = f
      /\ \A i \in 1..Len(stack[th]) - 1 : Append(s, f)[i] = stack[th][i]
  BY <1>1
<1>5. stack'[th] = Append(s, f) /\ stack' \in [Threads -> Seq(FrameRecords)]
  BY <1>2, <1>4
<1>6. \A k \in 1..Len(<<f>>) : stack'[th][Len(stack[th]) - 1 + k] = <<f>>[k]
  BY <1>3, <1>4, <1>5, <1>1
<1> QED  BY <1>1, <1>2, <1>3, <1>4, <1>5, <1>6 DEF Replaced

\* A task started on top of the frame is two in place of one.
LEMMA PushReplaces ==
    ASSUME stack \in [Threads -> Seq(FrameRecords)], NEW th \in Threads, stack[th] # <<>>,
           NEW f \in FrameRecords, NEW g \in FrameRecords,
           stack' = [stack EXCEPT ![th] = Front(@) \o <<f, g>>]
    PROVE  /\ Replaced(th, <<f, g>>) /\ <<f, g>> \in Seq(FrameRecords) /\ Len(<<f, g>>) = 2
           /\ <<f, g>>[1] = f /\ <<f, g>>[2] = g
<1> DEFINE s == Front(stack[th])
<1>1. s \in Seq(FrameRecords) /\ Len(s) = Len(stack[th]) - 1 /\ Len(stack[th]) \in Nat
      /\ \A i \in 1..Len(stack[th]) - 1 : s[i] = stack[th][i]
  BY FrontLast, Zenon
<1>2. stack' = [stack EXCEPT ![th] = s \o <<f, g>>]  OBVIOUS
<1>3. <<f, g>> \in Seq(FrameRecords) /\ Len(<<f, g>>) = 2 /\ <<f, g>>[1] = f /\ <<f, g>>[2] = g  OBVIOUS
<1> HIDE DEF s
<1>4. s \o <<f, g>> \in Seq(FrameRecords) /\ Len(s \o <<f, g>>) = Len(stack[th]) + 1
      /\ \A i \in 1..Len(stack[th]) - 1 : (s \o <<f, g>>)[i] = stack[th][i]
      /\ \A k \in 1..2 : (s \o <<f, g>>)[Len(stack[th]) - 1 + k] = <<f, g>>[k]
  BY <1>1, <1>3
<1>5. stack'[th] = s \o <<f, g>> /\ stack' \in [Threads -> Seq(FrameRecords)]
  BY <1>2, <1>4
<1> QED  BY <1>1, <1>2, <1>3, <1>4, <1>5 DEF Replaced

\* A finished frame is none in place of one.
LEMMA PopReplaces ==
    ASSUME stack \in [Threads -> Seq(FrameRecords)], NEW th \in Threads, stack[th] # <<>>,
           stack' = [stack EXCEPT ![th] = Front(@)]
    PROVE  Replaced(th, <<>>) /\ <<>> \in Seq(FrameRecords) /\ Len(<<>>) = 0
<1> DEFINE s == Front(stack[th])
<1>1. s \in Seq(FrameRecords) /\ Len(s) = Len(stack[th]) - 1 /\ Len(stack[th]) \in Nat
      /\ \A i \in 1..Len(stack[th]) - 1 : s[i] = stack[th][i]
  BY FrontLast, Zenon
<1>2. stack' = [stack EXCEPT ![th] = s]  OBVIOUS
<1> HIDE DEF s
<1> QED  BY <1>1, <1>2 DEF Replaced

\* Every frame of the next state is an old one below the top or a new one.
LEMMA EachFrame ==
    ASSUME stack \in [Threads -> Seq(FrameRecords)], NEW th \in Threads, stack[th] # <<>>,
           NEW new \in Seq(FrameRecords), Replaced(th, new),
           NEW u \in Threads, NEW i \in 1..Len(stack'[u])
    PROVE  \/ /\ i \in 1..Len(stack[u]) /\ (u # th \/ i < Len(stack[u]))
              /\ stack'[u][i] = stack[u][i]
           \/ /\ u = th
              /\ \E k \in 1..Len(new) : i = Len(stack[th]) - 1 + k /\ stack'[u][i] = new[k]
<1>1. Len(stack[th]) \in Nat /\ Len(stack[th]) >= 1 /\ Len(new) \in Nat  BY EmptySeq
<1>2. CASE u # th  BY <1>2 DEF Replaced
<1>3. CASE u = th /\ i < Len(stack[th])  BY <1>1, <1>3 DEF Replaced
<1>4. CASE u = th /\ i >= Len(stack[th])
  <2> DEFINE k == i - (Len(stack[th]) - 1)
  <2>1. k \in 1..Len(new) /\ i = Len(stack[th]) - 1 + k  BY <1>1, <1>4 DEF Replaced
  <2> QED  BY <1>4, <2>1 DEF Replaced
<1> QED  BY <1>1, <1>2, <1>3, <1>4

----------------------------------------------------------------------------
(* What no frame holds, and what a frame says when nothing it names is       *)
(* touched.                                                                  *)

\* The places in which no frame holds a task.
Loose == {"absent", "blocked", "queue", "outside"}

\* Tasks and threads are different descriptors, and None is neither.
LEMMA TaskNames ==
    /\ \A d \in Threads : d \notin Tasks
    /\ None \notin Tasks /\ None \notin Threads
    /\ IsFiniteSet(Tasks) /\ IsFiniteSet(Addrs)
BY NamesAssumption DEF Descriptors

\* A frame is a frame record.
LEMMA FrameTyped ==
    ASSUME stack \in [Threads -> Seq(FrameRecords)], NEW th \in Threads, NEW i \in 1..Len(stack[th])
    PROVE  stack[th][i] \in FrameRecords
OBVIOUS

\* Nobody holds a task that waits for its predecessors, in a deque or outside the team.
LEMMA LooseFree ==
    ASSUME NEW W, NEW K, Shape(W, K), NEW t \in Tasks, W[t] \in Loose,
           NEW th \in Threads, NEW i \in 1..Len(stack[th])
    PROVE  ~Holds(stack[th][i], t)
<1> PICK f \in FrameRecords : f = stack[th][i]  BY FrameTyped DEF Shape, Types
<1>1. FrameOK(f, W, K) /\ LocalOK(f)  BY DEF Shape, FramesOK, Stacks
<1>2. f.task # t
  <2> SUFFICES ASSUME f.task = t PROVE FALSE  OBVIOUS
  <2>1. f.pc # "barrier" /\ f.pc \in Pcs  BY <1>1 DEF LocalOK, FrameRecords
  <2>2. W[t] = Place(f.pc) \/ W[t] = "gone"  BY <1>1 DEF FrameOK
  <2> QED  BY <2>1, <2>2 DEF Loose, Place, Pcs, Bodily, Creating, Proxying, Finishing
<1>3. ~Makes(f, t)  BY <1>1 DEF FrameOK, Makes, Making, Loose
<1>4. ~Pushes(f, t)  BY <1>1 DEF FrameOK, Loose
<1> QED  BY <1>2, <1>3, <1>4 DEF Holds

\* The tasks that a frame holds stay where they are.
Steady(f, W, K, W2, K2) ==
    \A t \in Tasks : Holds(f, t) =>
        /\ W2[t] = W[t] /\ K2[t] = K[t] /\ td'[t].parent = td[t].parent
        /\ W[t] = "launch" => proxy'[t] = proxy[t]

\* A frame stays in order when the step leaves what it holds alone.
LEMMA FrameStays ==
    ASSUME NEW W, NEW K, NEW W2, NEW K2, NEW f \in FrameRecords, FrameOK(f, W, K), LocalOK(f), prog' = prog,
           Steady(f, W, K, W2, K2)
    PROVE  FrameOK(f, W2, K2)' /\ LocalOK(f)'
<1> USE DEF Steady
<1>1. LocalOK(f)'  BY DEF LocalOK, Kind, Kept
<1>2. f.task \in Tasks => W2[f.task] = W[f.task] /\ K2[f.task] = K[f.task]  BY DEF Holds
<1>3. f.pc \in Creating => f.x \in Tasks /\ W2[f.x] = W[f.x] /\ td'[f.x].parent = td[f.x].parent
  BY DEF Holds, Makes, LocalOK
<1>4. \A t \in Tasks : Pushes(f, t)' => W2[t] = "push"
  BY DEF Holds, Pushes, FrameOK, Kind
<1>5. f.pc = "free" => IF W2[f.task] = "gone" THEN K2[f.task] = f.x ELSE f.x = f.task
  <2>1. f.pc = "free" => f.task \in Tasks
    BY DEF LocalOK, FrameRecords, Descriptors, Bodily, Creating
  <2> QED  BY <1>2, <2>1 DEF FrameOK
<1>6. f.pc \in {"launch", "returned"} => f.task \in Tasks /\ W[f.task] = "launch" /\ Holds(f, f.task)
  BY DEF LocalOK, FrameRecords, Descriptors, Bodily, Creating, FrameOK, Place, Holds
<1>7. f.pc \in {"launch", "returned"} => proxy'[f.task] = proxy[f.task]  BY <1>6
<1> QED  BY <1>1, <1>2, <1>3, <1>4, <1>5, <1>7 DEF FrameOK

----------------------------------------------------------------------------
(* The frames and their places after a step of one thread. *)

\* The places change of tasks that the top of th holds or nobody does.
Moves(W, K, W2, K2, th) ==
    \A t \in Tasks :
        \/ /\ W2[t] = W[t] /\ K2[t] = K[t] /\ td'[t].parent = td[t].parent
           /\ W[t] = "launch" => proxy'[t] = proxy[t]
        \/ Holds(Top(th), t) \/ W[t] \in Loose

\* The new frames are in order, and hold what the old one held or what was loose.
NewFrames(W, W2, K2, th, new) ==
    /\ new \in Seq(FrameRecords) /\ Len(new) <= 2
    /\ Len(new) = 0 => Len(stack[th]) > 1
    /\ Len(new) >= 1 => new[1].task = Top(th).task
    /\ Len(new) = 2 => new[2].task \in Tasks
    /\ \A k \in 1..Len(new) : LocalOK(new[k])' /\ FrameOK(new[k], W2, K2)'
    /\ \A k \in 1..Len(new), t \in Tasks : Holds(new[k], t) => Holds(Top(th), t) \/ W[t] \in Loose
    /\ \A k, l \in 1..Len(new), t \in Tasks : Holds(new[k], t) /\ Holds(new[l], t) => k = l

\* The top frame is the last one.
LEMMA TopFrame ==
    ASSUME stack \in [Threads -> Seq(FrameRecords)], NEW th \in Threads, stack[th] # <<>>
    PROVE  /\ Top(th) = stack[th][Len(stack[th])] /\ Top(th) \in FrameRecords
           /\ Len(stack[th]) \in 1..Len(stack[th]) /\ Len(stack[th]) \in Nat
<1>1. Len(stack[th]) \in Nat /\ Len(stack[th]) >= 1 /\ Top(th) = stack[th][Len(stack[th])]
      /\ Top(th) \in FrameRecords
  BY FrontLast DEF Top
<1> QED  BY <1>1

\* New frames that are in order keep the stacks in order and every task in one place.
LEMMA ShapeStep ==
    ASSUME NEW W, NEW K, Shape(W, K), NEW W2, NEW K2, NEW th \in Threads, prog' = prog,
           NEW new, Replaced(th, new), NewFrames(W, W2, K2, th, new), Moves(W, K, W2, K2, th)
    PROVE  Stacks' /\ Unique' /\ FramesOK(W2, K2)'
<1> USE DEF NewFrames
<1>0. stack \in [Threads -> Seq(FrameRecords)] /\ \A u \in Threads : stack[u] # <<>>
  BY DEF Shape, Types, Stacks
<1>1. Top(th) = stack[th][Len(stack[th])] /\ Len(stack[th]) \in 1..Len(stack[th]) /\ Len(stack[th]) \in Nat
      /\ Top(th) \in FrameRecords
  BY <1>0, TopFrame
<1>2. ASSUME NEW u \in Threads, NEW i \in 1..Len(stack'[u])
      PROVE  \/ /\ i \in 1..Len(stack[u]) /\ (u # th \/ i < Len(stack[u]))
                /\ stack'[u][i] = stack[u][i]
             \/ /\ u = th
                /\ \E k \in 1..Len(new) : i = Len(stack[th]) - 1 + k /\ stack'[u][i] = new[k]
  BY <1>0, EachFrame
\* A frame below the top holds nothing that changes.
<1>3. ASSUME NEW u \in Threads, NEW i \in 1..Len(stack[u]), u # th \/ i < Len(stack[u]),
             NEW t \in Tasks, Holds(stack[u][i], t)
      PROVE  ~Holds(Top(th), t) /\ W[t] \notin Loose
  <2>1. W[t] \notin Loose  BY <1>3, LooseFree
  <2>2. ~Holds(Top(th), t)
    <3> SUFFICES ASSUME Holds(Top(th), t) PROVE FALSE  OBVIOUS
    <3>1. Holds(stack[th][Len(stack[th])], t)  BY <1>1
    <3>2. u = th /\ i = Len(stack[th])  BY <1>1, <1>3, <3>1 DEF Shape, Unique
    <3> QED  BY <1>3, <3>2, <1>1
  <2> QED  BY <2>1, <2>2
<1>4. ASSUME NEW u \in Threads, NEW i \in 1..Len(stack[u]), u # th \/ i < Len(stack[u])
      PROVE  LocalOK(stack[u][i])' /\ FrameOK(stack[u][i], W2, K2)' /\ stack'[u][i] = stack[u][i]
  <2> PICK f \in FrameRecords : f = stack[u][i]  BY <1>0, FrameTyped
  <2>1. FrameOK(f, W, K) /\ LocalOK(f)  BY DEF Shape, FramesOK, Stacks
  <2>2. Steady(f, W, K, W2, K2)  BY <1>3, <1>4 DEF Moves, Steady
  <2>3. FrameOK(f, W2, K2)' /\ LocalOK(f)'  BY <2>1, <2>2, FrameStays
  <2>4. stack'[u][i] = f
    <3>1. CASE u # th  BY <3>1 DEF Replaced
    <3>2. CASE u = th  BY <3>2, <1>4, <1>1 DEF Replaced
    <3> QED  BY <3>1, <3>2
  <2> QED  BY <2>3, <2>4
<1>5. FramesOK(W2, K2)'
  <2> SUFFICES ASSUME NEW u \in Threads, NEW i \in 1..Len(stack'[u]) PROVE FrameOK(stack[u][i], W2, K2)'
    BY DEF FramesOK
  <2>1. CASE i \in 1..Len(stack[u]) /\ (u # th \/ i < Len(stack[u]))  BY <2>1, <1>4
  <2>2. CASE u = th /\ \E k \in 1..Len(new) : stack'[u][i] = new[k]  BY <2>2
  <2> QED  BY <1>2, <2>1, <2>2
<1>6. Stacks'
  <2> SUFFICES ASSUME NEW u \in Threads
               PROVE  /\ stack'[u] # <<>> /\ stack'[u][1].task = u
                      /\ \A i \in 1..Len(stack'[u]) :
                           (i = 1 \/ stack'[u][i].task \in Tasks) /\ LocalOK(stack[u][i])'
    BY DEF Stacks
  <2>1. stack[u] # <<>> /\ stack[u][1].task = u /\ Len(stack[u]) \in Nat /\ Len(stack[u]) >= 1
    BY <1>0, TopFrame DEF Shape, Stacks
  <2>2. Len(stack'[u]) >= 1 /\ Len(stack'[u]) \in Nat
    <3>1. Len(new) \in Nat  OBVIOUS
    <3> QED  BY <2>1, <1>1, <3>1 DEF Replaced
  <2>3. stack'[u] # <<>>  BY <2>2
  <2>4. \A i \in 1..Len(stack'[u]) : LocalOK(stack[u][i])'
    <3> TAKE i \in 1..Len(stack'[u])
    <3>1. CASE i \in 1..Len(stack[u]) /\ (u # th \/ i < Len(stack[u]))  BY <3>1, <1>4
    <3>2. CASE u = th /\ \E k \in 1..Len(new) : stack'[u][i] = new[k]  BY <3>2
    <3> QED  BY <1>2, <3>1, <3>2
  <2>5. \A i \in 1..Len(stack'[u]) :
          \/ i \in 1..Len(stack[u]) /\ stack'[u][i].task = stack[u][i].task
          \/ i > 1 /\ stack'[u][i].task \in Tasks
    <3> TAKE i \in 1..Len(stack'[u])
    <3>1. CASE i \in 1..Len(stack[u]) /\ stack'[u][i] = stack[u][i]  BY <3>1
    <3>2. CASE u = th /\ \E k \in 1..Len(new) : i = Len(stack[th]) - 1 + k /\ stack'[u][i] = new[k]
      <4> PICK k \in 1..Len(new) : i = Len(stack[th]) - 1 + k /\ stack'[u][i] = new[k]  BY <3>2
      <4>1. CASE k = 1  BY <1>1, <3>2, <4>1
      <4>2. CASE k = 2
        <5> PICK n \in Nat : n = Len(new)  OBVIOUS
        <5>1. n = 2  BY <4>2
        <5>2. Len(new) = 2  BY <5>1
        <5> QED  BY <1>1, <3>2, <4>2, <5>2
      <4> QED  BY <4>1, <4>2
    <3> QED  BY <1>2, <3>1, <3>2
  <2>6. \A i \in 1..Len(stack[u]) : i = 1 \/ stack[u][i].task \in Tasks  BY DEF Shape, Stacks
  <2> QED  BY <2>1, <2>2, <2>3, <2>4, <2>5, <2>6
<1>7. Unique'
  <2>1. \A f, t : Holds(f, t)' <=> Holds(f, t)  BY DEF Holds, Makes, Pushes, Kind
  <2> SUFFICES ASSUME NEW u \in Threads, NEW v \in Threads, NEW i \in 1..Len(stack'[u]), NEW j \in 1..Len(stack'[v]),
                      NEW t \in Tasks, Holds(stack'[u][i], t), Holds(stack'[v][j], t)
               PROVE  u = v /\ i = j
    BY <2>1 DEF Unique
  <2> DEFINE Old(w, k) == k \in 1..Len(stack[w]) /\ (w # th \/ k < Len(stack[w])) /\ stack'[w][k] = stack[w][k]
             New(w, k) == w = th /\ \E l \in 1..Len(new) : k = Len(stack[th]) - 1 + l /\ stack'[w][k] = new[l]
  <2>2. (Old(u, i) \/ New(u, i)) /\ (Old(v, j) \/ New(v, j))  BY <1>2
  <2>3. CASE Old(u, i) /\ Old(v, j)  BY <2>3 DEF Shape, Unique
  <2>4. CASE New(u, i) /\ New(v, j)  BY <2>4
  <2>5. CASE Old(u, i) /\ New(v, j)
    <3>1. Holds(Top(th), t) \/ W[t] \in Loose  BY <2>5
    <3> QED  BY <2>5, <3>1, <1>3
  <2>6. CASE New(u, i) /\ Old(v, j)
    <3>1. Holds(Top(th), t) \/ W[t] \in Loose  BY <2>6
    <3> QED  BY <2>6, <3>1, <1>3
  <2> QED  BY <2>2, <2>3, <2>4, <2>5, <2>6
<1> QED  BY <1>5, <1>6, <1>7

----------------------------------------------------------------------------
(* The top frame, the program and the construct a body is at. *)

\* What the invariant says of a top frame.
LEMMA TopFacts ==
    ASSUME NEW W, NEW K, Shape(W, K), NEW th \in Threads
    PROVE  /\ stack \in [Threads -> Seq(FrameRecords)] /\ stack[th] # <<>>
           /\ Top(th) = stack[th][Len(stack[th])] /\ Top(th) \in FrameRecords
           /\ Len(stack[th]) \in 1..Len(stack[th]) /\ Len(stack[th]) \in Nat
           /\ LocalOK(Top(th)) /\ FrameOK(Top(th), W, K)
           /\ Top(th).task \in Descriptors
           /\ Len(stack[th]) = 1 \/ Top(th).task \in Tasks
           /\ Len(stack[th]) = 1 => Top(th).task = th
<1>1. stack \in [Threads -> Seq(FrameRecords)] /\ stack[th] # <<>>  BY DEF Shape, Types, Stacks
<1>2. /\ Top(th) = stack[th][Len(stack[th])] /\ Top(th) \in FrameRecords
      /\ Len(stack[th]) \in 1..Len(stack[th]) /\ Len(stack[th]) \in Nat
  BY <1>1, TopFrame
<1>3. LocalOK(Top(th)) /\ FrameOK(Top(th), W, K)  BY <1>2 DEF Shape, Stacks, FramesOK
<1>4. Len(stack[th]) = 1 \/ Top(th).task \in Tasks  BY <1>2 DEF Shape, Stacks
<1>5. Len(stack[th]) = 1 => Top(th).task = th  BY <1>2 DEF Shape, Stacks
<1> QED  BY <1>1, <1>2, <1>3, <1>4, <1>5 DEF FrameRecords

\* Two frames never execute the same task; a descriptor of a thread is at the bottom.
LEMMA OneFrame ==
    ASSUME NEW W, NEW K, Shape(W, K), NEW th \in Threads, NEW u \in Threads,
           NEW i \in 1..Len(stack[th]), NEW j \in 1..Len(stack[u]), stack[th][i].task = stack[u][j].task
    PROVE  th = u /\ i = j
<1>1. CASE stack[th][i].task \in Tasks  BY <1>1 DEF Shape, Unique, Holds
<1>2. CASE stack[th][i].task \notin Tasks
  <2>1. i = 1 /\ j = 1  BY <1>2 DEF Shape, Stacks
  <2> QED  BY <2>1 DEF Shape, Stacks
<1> QED  BY <1>1, <1>2

\* Bodies and dependences of a program.
LEMMA ProgramFacts ==
    ASSUME Types
    PROVE  /\ WellFormed(prog)
           /\ \A d \in Descriptors : prog.body[d] \in Seq(Constructs) /\ Len(prog.body[d]) \in Nat
           /\ \A t \in Tasks : prog.deps[t] \in Seq([addr : Addrs, out : BOOLEAN])
           /\ \A t \in Tasks : Kind(t) \in {"task", "if0", "proxy"}
           /\ \A t \in Tasks : Kind(t) = "proxy" => prog.body[t] = <<>>
<1>1. WellFormed(prog)  BY ProgramsAssumption DEF Types, DataTypes
<1>2. /\ prog.body \in [Descriptors -> Seq(Constructs)]
      /\ prog.deps \in [Tasks -> Seq([addr : Addrs, out : BOOLEAN])]
      /\ prog.kind \in [Tasks -> {"task", "if0", "proxy"}]
      /\ \A t \in Tasks : prog.kind[t] = "proxy" => prog.body[t] = <<>>
  BY <1>1 DEF WellFormed
<1>3. \A d \in Descriptors : prog.body[d] \in Seq(Constructs) /\ Len(prog.body[d]) \in Nat  BY <1>2
<1>4. \A t \in Tasks : prog.deps[t] \in Seq([addr : Addrs, out : BOOLEAN])  BY <1>2
<1> QED  BY <1>1, <1>2, <1>3, <1>4 DEF Kind

\* The construct that a body is at.
LEMMA InBodyFacts ==
    ASSUME Types, NEW th \in Threads, Top(th) \in FrameRecords, LocalOK(Top(th)), NEW op, InBody(th, op), op # "none"
    PROVE  /\ Top(th).pc = "body" /\ Top(th).ip <= Len(prog.body[Top(th).task])
           /\ Op(Top(th)) = prog.body[Top(th).task][Top(th).ip]
           /\ Op(Top(th))[1] = op
           /\ op = "task" => Op(Top(th))[2] \in Tasks /\ Op(Top(th)) = <<"task", Op(Top(th))[2]>>
<1> DEFINE f == Top(th)
<1>1. f.pc = "body" /\ f.ip <= Len(prog.body[f.task]) /\ Op(f) = prog.body[f.task][f.ip]
  BY DEF InBody, Op
<1>2. Op(f)[1] = op  BY DEF InBody
<1>3. op = "task" => Op(f)[2] \in Tasks /\ Op(f) = <<"task", Op(f)[2]>>
  <2> SUFFICES ASSUME op = "task" PROVE Op(f)[2] \in Tasks /\ Op(f) = <<"task", Op(f)[2]>>  OBVIOUS
  <2>1. f.task \in Descriptors /\ f.ip \in Nat  BY DEF FrameRecords
  <2>2. prog.body[f.task] \in Seq(Constructs)  BY <2>1, ProgramFacts
  <2>3. f.ip \in 1..Len(prog.body[f.task])  BY <1>1, <2>1, <2>2 DEF LocalOK
  <2>4. Op(f) \in Constructs  BY <1>1, <2>2, <2>3
  <2> QED  BY <1>2, <2>4 DEF Constructs
<1> QED  BY <1>1, <1>2, <1>3

----------------------------------------------------------------------------
(* Where the children stand in the bodies, and the deques. *)

\* The places of tasks move on: what has executed a construct stays so.
Grows(W, W2) == \A d \in Tasks : W[d] \notin Young /\ W2[d] \in Young => Kind(d) = "proxy"

\* The frames of the next state are no younger.
LEMMA ChildStep ==
    ASSUME NEW W, NEW K, Shape(W, K), NEW W2 \in [Tasks -> Places], NEW th \in Threads, prog' = prog,
           NEW new \in Seq(FrameRecords), Replaced(th, new),
           Len(new) >= 1 => new[1].task = Top(th).task /\ new[1].ip >= Top(th).ip,
           Len(new) <= 2,
           Len(new) = 2 => new[2].task \in Tasks /\ (W[new[2].task] \in Young \/ Kind(new[2].task) = "proxy"),
           Grows(W, W2), NEW t \in Tasks, W[t] # "absent", td'[t].parent = td[t].parent
    PROVE  ChildOK(t, W2)'
<1> DEFINE d == td[t].parent
<1>0. /\ stack \in [Threads -> Seq(FrameRecords)] /\ stack[th] # <<>>
      /\ Top(th) = stack[th][Len(stack[th])] /\ Top(th) \in FrameRecords
      /\ Len(stack[th]) \in 1..Len(stack[th]) /\ Len(stack[th]) \in Nat
  BY TopFacts
<1>1. PICK j \in 1..Len(prog.body[d]) :
        /\ prog.body[d][j] = <<"task", t>>
        /\ \A u \in Threads : \A i \in 1..Len(stack[u]) : stack[u][i].task = d => j < stack[u][i].ip
  BY Zenon DEF Shape, ChildOK
<1>2. d \in Descriptors /\ d # t /\ (d \in Tasks => W[d] \notin Young)  BY DEF Shape, ChildOK
<1>3. d \in Tasks => Kind(d) # "proxy"
  <2>1. d \in Tasks /\ Kind(d) = "proxy" => prog.body[d] = <<>>  BY ProgramFacts DEF Shape
  <2> QED  BY <1>1, <2>1
<1>4. d \in Tasks => W2[d] \notin Young  BY <1>2, <1>3 DEF Grows
<1>5. ASSUME NEW u \in Threads, NEW i \in 1..Len(stack'[u]), stack'[u][i].task = d
      PROVE  j < stack'[u][i].ip
  <2>1. CASE i \in 1..Len(stack[u]) /\ stack'[u][i] = stack[u][i]  BY <1>1, <1>5, <2>1
  <2>2. CASE \E k \in 1..Len(new) : stack'[u][i] = new[k]
    <3> PICK k \in 1..Len(new) : stack'[u][i] = new[k]  BY <2>2
    <3> PICK n \in Nat : n = Len(new)  OBVIOUS
    <3>1. CASE k = 1
      <4>1. new[1] \in FrameRecords /\ new[1].ip >= Top(th).ip /\ new[1].task = Top(th).task  BY <3>1
      <4>2. j < Top(th).ip  BY <1>0, <1>1, <1>5, <3>1, <4>1
      <4>3. Top(th).ip \in Nat /\ new[1].ip \in Nat  BY <4>1, <1>0 DEF FrameRecords
      <4>4. prog.body[d] \in Seq(Constructs)  BY <1>2, ProgramFacts DEF Shape
      <4> QED  BY <3>1, <4>1, <4>2, <4>3, <4>4
    <3>2. CASE k = 2
      <4>1. n = 2  BY <3>2
      <4> QED  BY <1>2, <1>3, <1>5, <3>2, <4>1
    <3> QED  BY <3>1, <3>2
  <2> QED  BY <1>0, <2>1, <2>2, EachFrame
<1>6. td'[t].parent = d  OBVIOUS
<1> HIDE DEF d
<1> QED  BY <1>1, <1>2, <1>4, <1>5, <1>6 DEF ChildOK

\* The children when the stacks stay.
LEMMA ChildSame ==
    ASSUME NEW W, NEW K, Shape(W, K), NEW W2 \in [Tasks -> Places], prog' = prog, stack' = stack,
           Grows(W, W2), NEW t \in Tasks, W[t] # "absent", td'[t].parent = td[t].parent
    PROVE  ChildOK(t, W2)'
<1> DEFINE d == td[t].parent
<1>1. PICK j \in 1..Len(prog.body[d]) :
        /\ prog.body[d][j] = <<"task", t>>
        /\ \A u \in Threads : \A i \in 1..Len(stack[u]) : stack[u][i].task = d => j < stack[u][i].ip
  BY DEF Shape, ChildOK
<1>2. d \in Descriptors /\ d # t /\ (d \in Tasks => W[d] \notin Young)  BY DEF Shape, ChildOK
<1>3. d \in Tasks => Kind(d) # "proxy"
  <2>1. d \in Tasks /\ Kind(d) = "proxy" => prog.body[d] = <<>>  BY ProgramFacts DEF Shape
  <2> QED  BY <1>1, <2>1
<1>4. d \in Tasks => W2[d] \notin Young  BY <1>2, <1>3 DEF Grows
<1>6. td'[t].parent = d  OBVIOUS
<1> HIDE DEF d
<1> QED  BY <1>1, <1>2, <1>4, <1>6 DEF ChildOK

\* A thread whose stack does not change.
LEMMA FramesSame ==
    ASSUME NEW W, NEW K, Shape(W, K), NEW W2, NEW K2, prog' = prog, stack' = stack,
           \A t \in Tasks :
             \/ /\ W2[t] = W[t] /\ K2[t] = K[t] /\ td'[t].parent = td[t].parent
                /\ W[t] = "launch" => proxy'[t] = proxy[t]
             \/ W[t] \in Loose
    PROVE  Stacks' /\ Unique' /\ FramesOK(W2, K2)'
<1>1. ASSUME NEW u \in Threads, NEW i \in 1..Len(stack[u])
      PROVE  LocalOK(stack[u][i])' /\ FrameOK(stack[u][i], W2, K2)'
  <2> PICK f \in FrameRecords : f = stack[u][i]  BY FrameTyped DEF Shape, Types
  <2>1. FrameOK(f, W, K) /\ LocalOK(f)  BY DEF Shape, FramesOK, Stacks
  <2>2. Steady(f, W, K, W2, K2)  BY LooseFree DEF Steady
  <2>3. FrameOK(f, W2, K2)' /\ LocalOK(f)'  BY <2>1, <2>2, FrameStays
  <2> QED  BY <2>3
<1>2. \A f, t : Holds(f, t)' <=> Holds(f, t)  BY DEF Holds, Makes, Pushes, Kind
<1>3. Unique'  BY <1>2 DEF Shape, Unique
<1>4. Stacks'  BY <1>1 DEF Shape, Stacks
<1>5. FramesOK(W2, K2)'  BY <1>1 DEF FramesOK
<1> QED  BY <1>3, <1>4, <1>5

\* The deques when they stay.
LEMMA QueuedSame ==
    ASSUME NEW W, Queued(W), NEW W2, deque' = deque, deque \in [Threads -> Seq(Tasks)],
           \A t \in Tasks : W[t] = "queue" => W2[t] = "queue"
    PROVE  Queued(W2)'
BY DEF Queued

\* A task enters a deque.
Put(u, t) == deque' = [deque EXCEPT ![u] = Append(@, t)]
Enqueues(W, W2, t) ==
    W[t] # "queue" /\ W2[t] = "queue" /\ \A s \in Tasks : W[s] = "queue" => W2[s] = "queue"

\* A task put into a deque is there once.
LEMMA QueuedPut ==
    ASSUME NEW W, Queued(W), NEW W2, deque \in [Threads -> Seq(Tasks)], NEW u \in Threads, NEW t \in Tasks,
           Put(u, t), Enqueues(W, W2, t)
    PROVE  Queued(W2)' /\ deque' \in [Threads -> Seq(Tasks)]
<1> USE DEF Put, Enqueues
<1>1. deque' \in [Threads -> Seq(Tasks)]  OBVIOUS
<1>2. ASSUME NEW v \in Threads, NEW i \in 1..Len(deque'[v])
      PROVE  \/ i \in 1..Len(deque[v]) /\ deque'[v][i] = deque[v][i]
             \/ v = u /\ i = Len(deque[u]) + 1 /\ deque'[v][i] = t
  <2>1. CASE v # u  BY <2>1
  <2>2. CASE v = u
    <3> PICK s \in Seq(Tasks) : s = deque[u]  OBVIOUS
    <3>1. deque'[u] = Append(s, t)  OBVIOUS
    <3>2. i \in 1..Len(s) + 1  BY <3>1, <2>2
    <3> QED  BY <3>1, <3>2, <2>2
  <2> QED  BY <2>1, <2>2
<1>3. \A v \in Threads : \A i \in 1..Len(deque[v]) : deque[v][i] \in Tasks  OBVIOUS
<1>4. ASSUME NEW v \in Threads, NEW i \in 1..Len(deque'[v])
      PROVE  /\ W2[deque'[v][i]] = "queue"
             /\ \A w \in Threads : \A j \in 1..Len(deque'[w]) : deque'[w][j] = deque'[v][i] => w = v /\ j = i
  <2>1. W2[deque'[v][i]] = "queue"  BY <1>2, <1>3 DEF Queued
  <2>2. ASSUME NEW w \in Threads, NEW j \in 1..Len(deque'[w]), deque'[w][j] = deque'[v][i]
        PROVE  w = v /\ j = i
    <3>1. CASE i \in 1..Len(deque[v]) /\ deque'[v][i] = deque[v][i]
      <4>1. W[deque'[w][j]] = "queue"  BY <3>1, <2>2 DEF Queued
      <4>2. j \in 1..Len(deque[w]) /\ deque'[w][j] = deque[w][j]  BY <1>2, <4>1
      <4> QED  BY <3>1, <4>2, <2>2 DEF Queued
    <3>2. CASE v = u /\ i = Len(deque[u]) + 1 /\ deque'[v][i] = t
      <4>1. ~(j \in 1..Len(deque[w]) /\ deque'[w][j] = deque[w][j])  BY <3>2, <2>2 DEF Queued
      <4>2. w = u /\ j = Len(deque[u]) + 1  BY <1>2, <4>1
      <4> QED  BY <3>2, <4>2
    <3> QED  BY <1>2, <3>1, <3>2
  <2> QED  BY <2>1, <2>2
<1>5. Queued(W2)'  BY <1>4 DEF Queued
<1> QED  BY <1>1, <1>5

\* The ends of a deque.
LEMMA QueueEnds ==
    \A s \in Seq(Tasks) : s # <<>> =>
        /\ Len(s) \in Nat /\ Len(s) >= 1
        /\ Front(s) \in Seq(Tasks) /\ Len(Front(s)) = Len(s) - 1
        /\ \A i \in 1..Len(s) - 1 : Front(s)[i] = s[i]
        /\ Last(s) = s[Len(s)]
        /\ \A i \in 1..Len(s) : s[i] \in Tasks
<1> TAKE s \in Seq(Tasks)
<1> HAVE s # <<>>
<1> QED  BY FrontLast

Takes(u, t) ==
    \/ t = Last(deque[u]) /\ deque' = [deque EXCEPT ![u] = Front(@)]
    \/ t = Head(deque[u]) /\ deque' = [deque EXCEPT ![u] = Tail(@)]
Dequeues(W, W2, t) == \A s \in Tasks : W[s] = "queue" /\ s # t => W2[s] = "queue"

\* A task leaves the deque of u: the first or the last.
LEMMA QueuedTake ==
    ASSUME NEW W, Queued(W), NEW W2, deque \in [Threads -> Seq(Tasks)], NEW u \in Threads, deque[u] # <<>>,
           NEW t, Takes(u, t), Dequeues(W, W2, t)
    PROVE  Queued(W2)' /\ deque' \in [Threads -> Seq(Tasks)] /\ t \in Tasks /\ W[t] = "queue"
           /\ Len(deque'[u]) <= Len(deque[u])
<1> USE DEF Takes, Dequeues
<1> PICK s \in Seq(Tasks) : s = deque[u]  OBVIOUS
<1>a. s # <<>>  OBVIOUS
<1>0. Len(s) \in Nat /\ Len(s) >= 1 /\ \A i \in 1..Len(s) : s[i] \in Tasks
  BY <1>a, FrontLast
<1>b. /\ Front(s) \in Seq(Tasks) /\ Len(Front(s)) = Len(s) - 1
      /\ \A i \in 1..Len(s) - 1 : Front(s)[i] = s[i]
      /\ Last(s) = s[Len(s)]
  BY <1>a, QueueEnds
<1>c. \A v, w \in Threads : \A k \in 1..Len(deque[v]), l \in 1..Len(deque[w]) :
        deque[w][l] = deque[v][k] => w = v /\ l = k
  BY DEF Queued
<1>1. \E o \in {0, 1} : /\ Len(deque'[u]) = Len(s) - 1 /\ deque' \in [Threads -> Seq(Tasks)]
                        /\ \A i \in 1..Len(s) - 1 : deque'[u][i] = s[i + o]
                        /\ t = IF o = 0 THEN s[Len(s)] ELSE s[1]
                        /\ \A v \in Threads : v # u => deque'[v] = deque[v]
  <2>1. CASE t = Last(deque[u]) /\ deque' = [deque EXCEPT ![u] = Front(@)]
    <3>1. /\ Front(s) \in Seq(Tasks) /\ Len(Front(s)) = Len(s) - 1
          /\ \A i \in 1..Len(s) - 1 : Front(s)[i] = s[i]
          /\ Last(s) = s[Len(s)]
      BY <1>b
    <3>2. deque'[u] = Front(s) /\ deque' \in [Threads -> Seq(Tasks)]  BY <2>1, <3>1
    <3>3. \A i \in 1..Len(s) - 1 : deque'[u][i] = s[i + 0]  BY <3>1, <3>2
    <3> QED  BY <2>1, <3>1, <3>2, <3>3
  <2>2. CASE t = Head(deque[u]) /\ deque' = [deque EXCEPT ![u] = Tail(@)]
    <3>1. /\ Tail(s) \in Seq(Tasks) /\ Len(Tail(s)) = Len(s) - 1
          /\ \A i \in 1..Len(s) - 1 : Tail(s)[i] = s[i + 1]
          /\ Head(s) = s[1]
      BY HeadTailProperties
    <3>2. deque'[u] = Tail(s) /\ deque' \in [Threads -> Seq(Tasks)]  BY <2>2, <3>1
    <3> QED  BY <2>2, <3>1, <3>2
  <2> QED  BY <2>1, <2>2
<1> PICK o \in {0, 1} : /\ Len(deque'[u]) = Len(s) - 1 /\ deque' \in [Threads -> Seq(Tasks)]
                        /\ \A i \in 1..Len(s) - 1 : deque'[u][i] = s[i + o]
                        /\ t = IF o = 0 THEN s[Len(s)] ELSE s[1]
                        /\ \A v \in Threads : v # u => deque'[v] = deque[v]
  BY <1>1
<1> DEFINE m == IF o = 0 THEN Len(s) ELSE 1
<1>2. m \in 1..Len(s) /\ t = s[m] /\ t \in Tasks /\ W[t] = "queue"  BY <1>0 DEF Queued
<1>3. ASSUME NEW v \in Threads, NEW i \in 1..Len(deque'[v])
      PROVE  \E k \in 1..Len(deque[v]) :
               /\ deque'[v][i] = deque[v][k] /\ k = (IF v = u THEN i + o ELSE i) /\ ~(v = u /\ k = m)
  <2>1. CASE v # u  BY <2>1
  <2>2. CASE v = u
    <3> PICK n \in Nat : n = Len(s)  BY <1>0
    <3>1. i \in 1..n - 1 /\ n >= 1  BY <2>2, <1>0
    <3>2. CASE o = 0
      <4>1. i + o \in 1..n /\ i + o # m  BY <3>1, <3>2
      <4> QED  BY <4>1, <3>1, <2>2
    <3>3. CASE o = 1
      <4>1. i + o \in 1..n /\ i + o # m  BY <3>1, <3>3
      <4> QED  BY <4>1, <3>1, <2>2
    <3> QED  BY <3>2, <3>3
  <2> QED  BY <2>1, <2>2
<1>4. ASSUME NEW v \in Threads, NEW i \in 1..Len(deque'[v])
      PROVE  /\ W2[deque'[v][i]] = "queue"
             /\ \A w \in Threads : \A j \in 1..Len(deque'[w]) : deque'[w][j] = deque'[v][i] => w = v /\ j = i
  <2> PICK k \in 1..Len(deque[v]) :
               /\ deque'[v][i] = deque[v][k] /\ k = (IF v = u THEN i + o ELSE i) /\ ~(v = u /\ k = m)
    BY <1>3
  <2>1. deque[v][k] # t  BY <1>2 DEF Queued
  <2>2. deque[v][k] \in Tasks /\ W[deque[v][k]] = "queue"  BY DEF Queued
  <2>3. ASSUME NEW w \in Threads, NEW j \in 1..Len(deque'[w]), deque'[w][j] = deque'[v][i]
        PROVE  w = v /\ j = i
    <3> PICK l \in 1..Len(deque[w]) :
               /\ deque'[w][j] = deque[w][l] /\ l = (IF w = u THEN j + o ELSE j) /\ ~(w = u /\ l = m)
      BY <1>3
    <3>0. deque[w][l] = deque[v][k]  BY <2>3
    <3>1. w = v /\ l = k  BY <3>0, <1>c
    <3>2. i \in Int /\ j \in Int  OBVIOUS
    <3> QED  BY <3>1, <3>2
  <2> QED  BY <2>1, <2>2, <2>3
<1>5. Queued(W2)'  BY <1>4 DEF Queued
<1> QED  BY <1>0, <1>2, <1>5

----------------------------------------------------------------------------
(* The shape after a step: one, two or no frame in place of the top one,     *)
(* or none touched.                                                          *)

\* Nothing that is said of t by itself changes.
Calm(W, t) ==
    /\ proxy'[t] = proxy[t]
    /\ td'[t].state = td[t].state /\ td'[t].complete = td[t].complete /\ td'[t].node = td[t].node
    /\ W[t] = "absent" => td'[t].group = td[t].group /\ td'[t].inc = td[t].inc /\ td'[t].kids = td[t].kids
    /\ node'[t].task = node[t].task /\ node'[t].succ = node[t].succ
    /\ node'[t].state = "absent" <=> node[t].state = "absent"

\* Each task stays in its place, calm, or is in order in the new one.
Settled(W, W2) == \A t \in Tasks : (W2[t] = W[t] /\ Calm(W, t)) \/ (ProxyOK(t, W2[t])' /\ TaskOK(t, W2[t])')
\* Each task keeps its parent, or has a proper one.
Parents(W, W2) ==
    \A t \in Tasks : W2[t] # "absent" => (W[t] # "absent" /\ td'[t].parent = td[t].parent) \/ ChildOK(t, W2)'

\* The data after a step that moves the tasks from W to W2.
Lawful(W, K, W2, K2) ==
    /\ W2 \in [Tasks -> Places] /\ K2 \in [Tasks -> Tasks \union {None}]
    /\ DataTypes' /\ Queued(W2)' /\ Settled(W, W2) /\ Grows(W, W2) /\ Parents(W, W2) /\ ClimbOK(W2, K2)'

\* A frame that goes on in its task.
Continues(f, g) == g.task = f.task /\ g.ip >= f.ip
HoldsOnly(g, f, W) == \A t \in Tasks : Holds(g, t) => Holds(f, t) \/ W[t] \in Loose

\* Each task is in order after a step, touched or not.
LEMMA SettledStays ==
    ASSUME NEW W, NEW K, Shape(W, K), NEW W2, prog' = prog, Settled(W, W2), NEW t \in Tasks
    PROVE  ProxyOK(t, W2[t])' /\ TaskOK(t, W2[t])'
<1>1. ProxyOK(t, W[t]) /\ TaskOK(t, W[t])  BY DEF Shape
<1> SUFFICES ASSUME W2[t] = W[t], Calm(W, t) PROVE ProxyOK(t, W2[t])' /\ TaskOK(t, W2[t])'  BY DEF Settled
<1>2. Kind(t)' = Kind(t)  BY DEF Kind
<1>3. ProxyOK(t, W2[t])'  BY <1>1, <1>2 DEF ProxyOK, Calm
<1>4. TaskOK(t, W2[t])'  BY <1>1, <1>2 DEF TaskOK, Calm
<1> QED  BY <1>3, <1>4

\* A step that changes the top frame of th.
LEMMA StepOne ==
    ASSUME NEW W, NEW K, Shape(W, K), NEW W2, NEW K2, NEW th \in Threads, prog' = prog,
           NEW f, f = Top(th), NEW g \in FrameRecords, SetTop(th, g), Continues(f, g), LocalOK(g)', FrameOK(g, W2, K2)',
           HoldsOnly(g, f, W), Moves(W, K, W2, K2, th), Lawful(W, K, W2, K2)
    PROVE  Shape(W2, K2)'
<1> DEFINE new == <<g>>
<1>0. stack \in [Threads -> Seq(FrameRecords)] /\ stack[th] # <<>>  BY TopFacts
<1>1. Replaced(th, new) /\ new \in Seq(FrameRecords) /\ Len(new) = 1 /\ new[1] = g
  BY <1>0, SetReplaces
<1> HIDE DEF new
<1>2. NewFrames(W, W2, K2, th, new)  BY <1>1 DEF NewFrames, Continues, HoldsOnly
<1>3. Stacks' /\ Unique' /\ FramesOK(W2, K2)'  BY <1>1, <1>2, ShapeStep
<1>4. \A t \in Tasks : ChildOK(t, W2)'
  <2> TAKE t \in Tasks
  <2>1. CASE W2[t] = "absent"  BY <2>1 DEF ChildOK
  <2>2. CASE W[t] # "absent" /\ td'[t].parent = td[t].parent
    <3>1. W2 \in [Tasks -> Places] /\ Grows(W, W2)  BY DEF Lawful
    <3>2. Len(new) >= 1 => new[1].task = Top(th).task /\ new[1].ip >= Top(th).ip  BY <1>1 DEF Continues
    <3>3. Len(new) <= 2 /\ Len(new) # 2  BY <1>1
    <3>4. W[t] # "absent"  BY <2>2
    <3> QED  BY <2>2, <1>1, <3>1, <3>2, <3>3, <3>4, ChildStep
  <2> QED  BY <2>1, <2>2 DEF Lawful, Parents
<1>5. Types'  BY <1>1 DEF Types, Replaced, Lawful
<1>6. \A t \in Tasks : ProxyOK(t, W2[t])' /\ TaskOK(t, W2[t])'  BY SettledStays DEF Lawful
<1> QED  BY <1>3, <1>4, <1>5, <1>6 DEF Shape, Lawful

\* A step that pushes a frame.
LEMMA StepTwo ==
    ASSUME NEW W, NEW K, Shape(W, K), NEW W2, NEW K2, NEW th \in Threads, prog' = prog,
           NEW f, f = Top(th), NEW g \in FrameRecords, NEW e \in FrameRecords,
           stack' = [stack EXCEPT ![th] = Front(@) \o <<g, e>>],
           Continues(f, g), LocalOK(g)', FrameOK(g, W2, K2)', HoldsOnly(g, f, W),
           LocalOK(e)', FrameOK(e, W2, K2)', HoldsOnly(e, f, W),
           \A t \in Tasks : ~(Holds(g, t) /\ Holds(e, t)),
           e.task \in Tasks, W[e.task] \in Young \/ Kind(e.task) = "proxy",
           Moves(W, K, W2, K2, th), Lawful(W, K, W2, K2)
    PROVE  Shape(W2, K2)'
<1> DEFINE new == <<g, e>>
<1>0. stack \in [Threads -> Seq(FrameRecords)] /\ stack[th] # <<>>  BY TopFacts
<1>1. Replaced(th, new) /\ new \in Seq(FrameRecords) /\ Len(new) = 2 /\ new[1] = g /\ new[2] = e
  BY <1>0, PushReplaces
<1> HIDE DEF new
<1>2. NewFrames(W, W2, K2, th, new)
  <2>1. 1..Len(new) = {1, 2}  BY <1>1
  <2>2. \A k \in 1..Len(new) : LocalOK(new[k])' /\ FrameOK(new[k], W2, K2)'  BY <1>1, <2>1
  <2>3. \A k \in 1..Len(new), t \in Tasks : Holds(new[k], t) => Holds(Top(th), t) \/ W[t] \in Loose
    BY <1>1, <2>1 DEF HoldsOnly
  <2>4. \A k, l \in 1..Len(new), t \in Tasks : Holds(new[k], t) /\ Holds(new[l], t) => k = l
    BY <1>1, <2>1
  <2> QED  BY <1>1, <2>2, <2>3, <2>4 DEF NewFrames, Continues
<1>3. Stacks' /\ Unique' /\ FramesOK(W2, K2)'  BY <1>1, <1>2, ShapeStep
<1>4. \A t \in Tasks : ChildOK(t, W2)'
  <2> TAKE t \in Tasks
  <2>1. CASE W2[t] = "absent"  BY <2>1 DEF ChildOK
  <2>2. CASE W[t] # "absent" /\ td'[t].parent = td[t].parent
    <3>1. W2 \in [Tasks -> Places] /\ Grows(W, W2)  BY DEF Lawful
    <3>2. Len(new) >= 1 => new[1].task = Top(th).task /\ new[1].ip >= Top(th).ip  BY <1>1 DEF Continues
    <3>3. Len(new) <= 2 /\ new[2].task \in Tasks /\ (W[new[2].task] \in Young \/ Kind(new[2].task) = "proxy")
      BY <1>1
    <3> QED  BY <2>2, <1>1, <3>1, <3>2, <3>3, ChildStep
  <2> QED  BY <2>1, <2>2 DEF Lawful, Parents
<1>5. Types'  BY <1>1 DEF Types, Replaced, Lawful
<1>6. \A t \in Tasks : ProxyOK(t, W2[t])' /\ TaskOK(t, W2[t])'  BY SettledStays DEF Lawful
<1> QED  BY <1>3, <1>4, <1>5, <1>6 DEF Shape, Lawful

\* A positive number is one or more.
LEMMA OneOrMore == \A n \in Nat : n >= 1 => n = 1 \/ n > 1
OBVIOUS

\* A task is above the implicit task of its thread.
LEMMA Deeper ==
    ASSUME NEW W, NEW K, Shape(W, K), NEW th \in Threads, Top(th).task \in Tasks
    PROVE  Len(stack[th]) > 1
<1>1. Len(stack[th]) \in Nat /\ Len(stack[th]) >= 1 /\ Len(stack[th]) # 1  BY TopFacts, TaskNames
<1> QED  BY <1>1, OneOrMore

\* A step that pops a frame.
LEMMA StepPop ==
    ASSUME NEW W, NEW K, Shape(W, K), NEW W2, NEW K2, NEW th \in Threads, prog' = prog,
           stack' = [stack EXCEPT ![th] = Front(@)], Top(th).task \in Tasks,
           Moves(W, K, W2, K2, th), Lawful(W, K, W2, K2)
    PROVE  Shape(W2, K2)'
<1> DEFINE new == <<>>
<1>0. stack \in [Threads -> Seq(FrameRecords)] /\ stack[th] # <<>>  BY TopFacts
<1>1. Replaced(th, new) /\ new \in Seq(FrameRecords) /\ Len(new) = 0
  BY <1>0, PopReplaces
<1>a. Len(stack[th]) > 1  BY Deeper
<1> HIDE DEF new
<1>2. NewFrames(W, W2, K2, th, new)  BY <1>1, <1>a DEF NewFrames
<1>3. Stacks' /\ Unique' /\ FramesOK(W2, K2)'  BY <1>1, <1>2, ShapeStep
<1>4. \A t \in Tasks : ChildOK(t, W2)'
  <2> TAKE t \in Tasks
  <2>1. CASE W2[t] = "absent"  BY <2>1 DEF ChildOK
  <2>2. CASE W[t] # "absent" /\ td'[t].parent = td[t].parent
    <3>1. W2 \in [Tasks -> Places] /\ Grows(W, W2)  BY DEF Lawful
    <3>2. Len(new) <= 2 /\ Len(new) # 2 /\ ~(Len(new) >= 1)  BY <1>1
    <3> QED  BY <2>2, <1>1, <3>1, <3>2, ChildStep
  <2> QED  BY <2>1, <2>2 DEF Lawful, Parents
<1>5. Types'  BY <1>1 DEF Types, Replaced, Lawful
<1>6. \A t \in Tasks : ProxyOK(t, W2[t])' /\ TaskOK(t, W2[t])'  BY SettledStays DEF Lawful
<1> QED  BY <1>3, <1>4, <1>5, <1>6 DEF Shape, Lawful

\* A step outside the team.
LEMMA StepOutside ==
    ASSUME NEW W, NEW K, Shape(W, K), NEW W2, prog' = prog, stack' = stack,
           \A t \in Tasks :
             \/ /\ W2[t] = W[t] /\ td'[t].parent = td[t].parent
                /\ W[t] = "launch" => proxy'[t] = proxy[t]
             \/ W[t] \in Loose,
           Lawful(W, K, W2, K)
    PROVE  Shape(W2, K)'
<1>3. Stacks' /\ Unique' /\ FramesOK(W2, K)'  BY FramesSame
<1>4. \A t \in Tasks : ChildOK(t, W2)'
  <2> TAKE t \in Tasks
  <2>1. CASE W2[t] = "absent"  BY <2>1 DEF ChildOK
  <2>2. CASE W[t] # "absent" /\ td'[t].parent = td[t].parent
    <3> QED  BY <2>2, ChildSame DEF Lawful
  <2> QED  BY <2>1, <2>2 DEF Lawful, Parents
<1>5. Types'  BY DEF Types, Lawful, Shape
<1>6. \A t \in Tasks : ProxyOK(t, W2[t])' /\ TaskOK(t, W2[t])'  BY SettledStays DEF Lawful
<1> QED  BY <1>3, <1>4, <1>5, <1>6 DEF Shape, Lawful

----------------------------------------------------------------------------
(* A step that moves one task; the counter of a group goes down              *)
(* (LeaveGroup).                                                             *)

\* Only the marks started and executing of d may change.
TdAlike(d) ==
    /\ td'[d].state = td[d].state /\ td'[d].parent = td[d].parent /\ td'[d].inc = td[d].inc
    /\ td'[d].kids = td[d].kids /\ td'[d].group = td[d].group /\ td'[d].complete = td[d].complete
    /\ td'[d].node = td[d].node
SameTd == td' \in [Descriptors -> TaskdataRecords] /\ \A d \in Descriptors : TdAlike(d)

Alike(r, q) ==
    /\ q \in TaskdataRecords
    /\ q.state = r.state /\ q.parent = r.parent /\ q.inc = r.inc /\ q.kids = r.kids
    /\ q.group = r.group /\ q.complete = r.complete /\ q.node = r.node

\* Marking a descriptor leaves the rest of it alone.
LEMMA OneMark ==
    ASSUME NEW r \in TaskdataRecords, NEW v \in BOOLEAN
    PROVE  Alike(r, r) /\ Alike(r, [r EXCEPT !.executing = v]) /\ Alike(r, [r EXCEPT !.started = v])
BY DEF TaskdataRecords, Alike

\* Starting a task marks descriptors only.
LEMMA StartedFacts ==
    ASSUME td \in [Descriptors -> TaskdataRecords], NEW c, NEW t, td' = Started(c, t)
    PROVE  SameTd
<1>1. td' = [td EXCEPT ![c].executing = FALSE, ![t].started = TRUE, ![t].executing = TRUE]  BY DEF Started
<1>2. ASSUME NEW d \in Descriptors PROVE td'[d] \in TaskdataRecords /\ TdAlike(d)
  <2> DEFINE a == [td EXCEPT ![c] = [td[c] EXCEPT !.executing = FALSE]]
             b == [a EXCEPT ![t] = [a[t] EXCEPT !.started = TRUE]]
  <2>1. td[d] \in TaskdataRecords  OBVIOUS
  <2>2. a[d] = td[d] \/ a[d] = [td[d] EXCEPT !.executing = FALSE]  OBVIOUS
  <2>3. b[d] = a[d] \/ b[d] = [a[d] EXCEPT !.started = TRUE]  OBVIOUS
  <2>4. td'[d] = b[d] \/ td'[d] = [b[d] EXCEPT !.executing = TRUE]  BY <1>1
  <2> HIDE DEF a, b
  <2>5. Alike(td[d], a[d])  BY <2>1, <2>2, OneMark
  <2>a. a[d] \in TaskdataRecords  BY <2>5 DEF Alike
  <2>6. Alike(a[d], b[d])  BY <2>a, <2>3, OneMark
  <2>b. b[d] \in TaskdataRecords  BY <2>6 DEF Alike
  <2>7. Alike(b[d], td'[d])  BY <2>b, <2>4, OneMark
  <2> QED  BY <2>5, <2>6, <2>7 DEF Alike, TdAlike
<1>3. td' = [d \in Descriptors |-> td'[d]]  BY <1>1
<1> HIDE <1>1
<1> QED  BY <1>2, <1>3 DEF SameTd

\* Unchanged descriptors are the same.
LEMMA TdUnchanged ==
    ASSUME td \in [Descriptors -> TaskdataRecords], td' = td
    PROVE  SameTd
BY DEF SameTd, TdAlike

\* The fields of the implicit top, at a place in the runtime.
LEMMA TaskFrame ==
    ASSUME NEW W, NEW K, Shape(W, K), NEW th \in Threads, NEW f, f = Top(th)
    PROVE  /\ f \in FrameRecords /\ LocalOK(f) /\ FrameOK(f, W, K) /\ f.task \in Descriptors
           /\ f.pc \in Proxying \union Finishing => f.task \in Tasks
           /\ f.pc \in {"group", "release", "succ", "launch", "bottom"} => W[f.task] = f.pc
           /\ f.pc \in {"push", "drop"} => W[f.task] = "told"
           /\ f.pc = "returned" => W[f.task] = "launch"
           /\ f.task \in Tasks /\ f.pc \in Bodily => W[f.task] = "body" /\ Kind(f.task) # "proxy"
           /\ f.pc \in Creating => W[f.x] = Making(f.pc) /\ f.x \in Tasks /\ td[f.x].parent = f.task
           /\ f.task \in Tasks => W[f.task] \notin Young
<1>1. f \in FrameRecords /\ LocalOK(f) /\ FrameOK(f, W, K) /\ f.task \in Descriptors  BY TopFacts
<1>2. f.pc \in Proxying \union Finishing => f.task \in Tasks
  BY <1>1 DEF LocalOK, Descriptors, Proxying, Finishing, Bodily, Creating
<1>3. f.task \in Tasks => W[f.task] = Place(f.pc) \/ (f.pc = "free" /\ W[f.task] = "gone")  BY <1>1 DEF FrameOK
<1>4. f.pc \in {"group", "release", "succ", "launch", "bottom"} => W[f.task] = f.pc
  BY <1>2, <1>3 DEF Place, Proxying, Finishing, Bodily, Creating
<1>5. f.pc \in {"push", "drop"} => W[f.task] = "told"
  BY <1>2, <1>3 DEF Place, Proxying, Finishing, Bodily, Creating
<1>6. f.pc = "returned" => W[f.task] = "launch"
  BY <1>2, <1>3 DEF Place, Proxying, Finishing, Bodily, Creating
<1>7. f.task \in Tasks /\ f.pc \in Bodily => W[f.task] = "body" /\ Kind(f.task) # "proxy"
  BY <1>1, <1>3 DEF Place, LocalOK, Bodily, Creating
<1>8. f.pc \in Creating => W[f.x] = Making(f.pc) /\ f.x \in Tasks /\ td[f.x].parent = f.task
  BY <1>1 DEF LocalOK, FrameOK
<1>9. f.task \in Tasks => W[f.task] \notin Young
  <2>1. f.pc \in Pcs /\ (f.task \in Tasks => f.pc # "barrier")  BY <1>1 DEF FrameRecords, LocalOK
  <2> QED  BY <2>1, <1>3 DEF Place, Young, Pcs, Bodily, Creating, Proxying, Finishing
<1> QED  BY <1>1, <1>2, <1>4, <1>5, <1>6, <1>7, <1>8, <1>9

\* A task that the top holds moves, the others stay.
LEMMA MovesOne ==
    ASSUME NEW W, NEW K, NEW th \in Threads, NEW t, Holds(Top(th), t) \/ W[t] \in Loose, NEW w, W \in [Tasks -> Places],
           NEW W2, W2 = [W EXCEPT ![t] = w], SameTd \/ (\A s \in Tasks : td'[s].parent = td[s].parent),
           \A s \in Tasks : s # t => proxy'[s] = proxy[s]
    PROVE  Moves(W, K, W2, K, th)
BY DEF Moves, SameTd, TdAlike, Descriptors

\* One task moves; nothing that is said of the others changes.
LEMMA LawfulOne ==
    ASSUME NEW W, NEW K, Shape(W, K), NEW t \in Tasks, NEW w \in Places, W[t] \notin {"absent", "gone"}, w # "absent",
           NEW W2, W2 = [W EXCEPT ![t] = w], prog' = prog, DataTypes', Queued(W2)',
           w \in Young => W[t] \in Young \/ Kind(t) = "proxy",
           \A s \in Tasks : td'[s].parent = td[s].parent,
           \A s \in Tasks : s # t => Calm(W, s),
           ProxyOK(t, w)', TaskOK(t, w)'
    PROVE  Lawful(W, K, W2, K)
<1>0. W \in [Tasks -> Places] /\ K \in [Tasks -> Tasks \union {None}]  BY DEF Shape
<1>1. W2 \in [Tasks -> Places] /\ W2[t] = w /\ \A s \in Tasks : s # t => W2[s] = W[s]  BY <1>0
<1>2. Settled(W, W2)  BY <1>1 DEF Settled
<1>3. Grows(W, W2)  BY <1>1 DEF Grows
<1>4. Parents(W, W2)  BY <1>1 DEF Parents
<1>5. ClimbOK(W2, K)'  BY <1>0, <1>1 DEF ClimbOK, Shape
<1> QED  BY <1>0, <1>1, <1>2, <1>3, <1>4, <1>5 DEF Lawful

\* A frame goes on.
Turn(f, g, pc) ==
    /\ g \in FrameRecords /\ g = [f EXCEPT !.pc = pc]
    /\ g.task = f.task /\ g.ip = f.ip /\ g.pc = pc /\ g.x = f.x /\ g.dep = f.dep /\ g.todo = f.todo /\ g.n = f.n

\* A frame that goes to another control point.
LEMMA Turned == \A f \in FrameRecords : \A pc \in Pcs : \E g : Turn(f, g, pc)
<1> TAKE f \in FrameRecords
<1> TAKE pc \in Pcs
<1> PICK g : g = [f EXCEPT !.pc = pc]  OBVIOUS
<1>1. g \in FrameRecords  BY DEF FrameRecords
<1>2. g.task = f.task /\ g.ip = f.ip /\ g.pc = pc /\ g.x = f.x /\ g.dep = f.dep /\ g.todo = f.todo /\ g.n = f.n
  BY DEF FrameRecords
<1> QED  BY <1>1, <1>2 DEF Turn

\* A group that counts one task less.
LEMMA GroupMinus ==
    ASSUME groups \in [DOMAIN groups -> GroupRecords], NEW g, groups' = [groups EXCEPT ![g].count = @ - 1]
    PROVE  DOMAIN groups' = DOMAIN groups /\ groups' \in [DOMAIN groups -> GroupRecords]
<1>1. ASSUME NEW h \in DOMAIN groups PROVE groups'[h] \in GroupRecords
  BY DEF GroupRecords
<1>2. DOMAIN groups' = DOMAIN groups /\ groups' = [h \in DOMAIN groups |-> groups'[h]]  OBVIOUS
<1> QED  BY <1>1, <1>2

\* LeaveGroup keeps the shape; the task goes on to its release.
LEMMA LeaveGroupShape ==
    ASSUME NEW W, NEW K, Shape(W, K), NEW th \in Threads, NEW f, f = Top(th), LeaveGroup(th),
           NEW W2, W2 = [W EXCEPT ![f.task] = "release"]
    PROVE  Shape(W2, K)' /\ f.task \in Tasks /\ W[f.task] = "group" /\ Kind(f.task) # "proxy"
<1>0. W \in [Tasks -> Places]  BY DEF Shape
<1>1. f \in FrameRecords /\ LocalOK(f) /\ FrameOK(f, W, K) /\ f.pc = "group"  BY TaskFrame DEF LeaveGroup, At
<1>2. f.task \in Tasks /\ W[f.task] = "group" /\ Kind(f.task) # "proxy"
  BY <1>1, TaskFrame DEF Finishing, LocalOK
<1> PICK g : Turn(f, g, "release")  BY <1>1, Turned DEF Pcs, Finishing
<1>3. SetTop(th, g) /\ Continues(f, g) /\ g \in FrameRecords
  BY <1>1 DEF LeaveGroup, Goto, Continues, FrameRecords, Turn
<1>4. LocalOK(g)'
  BY <1>1, <1>2, TaskNames DEF LocalOK, Bodily, Creating, Proxying, Kind, LeaveGroup, Turn
<1>5. FrameOK(g, W2, K)'
  BY <1>0, <1>1, <1>2 DEF FrameOK, Place, Pushes, Bodily, Creating, Turn
<1>6. HoldsOnly(g, f, W)  BY <1>1 DEF HoldsOnly, Holds, Makes, Pushes, Creating, Turn
<1>7. Moves(W, K, W2, K, th)  BY <1>0, MovesOne DEF Holds, LeaveGroup
<1>8. Lawful(W, K, W2, K)
  <2>1. Queued(W2)'  BY <1>2, QueuedSame DEF Shape, Types, DataTypes, LeaveGroup
  <2>2. DataTypes'
    <3>1. groups' = groups \/ \E g1 : groups' = [groups EXCEPT ![g1].count = @ - 1]  BY Zenon DEF LeaveGroup
    <3> QED  BY <3>1, GroupMinus, Zenon DEF Shape, Types, DataTypes, LeaveGroup
  <2>3. ProxyOK(f.task, W[f.task]) /\ TaskOK(f.task, W[f.task])  BY <1>2 DEF Shape
  <2>4. ProxyOK(f.task, "release")'  BY <2>3, <1>2 DEF ProxyOK, LeaveGroup, Kind, Young, Late
  <2>5. TaskOK(f.task, "release")'  BY <2>3, <1>2 DEF TaskOK, LeaveGroup, Kind, Late
  <2>6. \A s \in Tasks : Calm(W, s) /\ td'[s].parent = td[s].parent  BY DEF Calm, LeaveGroup
  <2> QED  BY <1>2, <2>1, <2>2, <2>4, <2>5, <2>6, LawfulOne, Zenon DEF Places, Young, LeaveGroup
<1> QED  BY <1>2, <1>3, <1>4, <1>5, <1>6, <1>7, <1>8, StepOne DEF LeaveGroup

----------------------------------------------------------------------------
(* Writing one field of a descriptor; the parent of a task. *)

\* Two descriptors that differ in the number of incomplete children at most.
AlikeButInc(r, q) ==
    /\ q \in TaskdataRecords
    /\ q.state = r.state /\ q.parent = r.parent /\ q.kids = r.kids
    /\ q.group = r.group /\ q.complete = r.complete /\ q.node = r.node

\* Writing the count of incomplete children.
LEMMA IncSet ==
    ASSUME NEW r \in TaskdataRecords, NEW v \in Int
    PROVE  AlikeButInc(r, r) /\ AlikeButInc(r, [r EXCEPT !.inc = v]) /\ [r EXCEPT !.inc = v].inc = v
BY DEF TaskdataRecords, AlikeButInc

AlikeButComplete(r, q) ==
    /\ q \in TaskdataRecords
    /\ q.state = r.state /\ q.parent = r.parent /\ q.inc = r.inc /\ q.kids = r.kids
    /\ q.group = r.group /\ q.node = r.node

\* Completing a descriptor.
LEMMA CompleteSet ==
    ASSUME NEW r \in TaskdataRecords
    PROVE  /\ AlikeButComplete(r, r) /\ AlikeButComplete(r, [r EXCEPT !.complete = TRUE])
           /\ [r EXCEPT !.complete = TRUE].complete = TRUE
BY DEF TaskdataRecords, AlikeButComplete

CompleteWrites(t, p) == td' = [td EXCEPT ![t].complete = TRUE, ![p].inc = @ - 1]
Completed(t, p) ==
    /\ td' \in [Descriptors -> TaskdataRecords]
    /\ \A d \in Descriptors :
         /\ td'[d].state = td[d].state /\ td'[d].parent = td[d].parent /\ td'[d].kids = td[d].kids
         /\ td'[d].group = td[d].group /\ td'[d].node = td[d].node
         /\ td'[d].complete = IF d = t THEN TRUE ELSE td[d].complete
         /\ td'[d].inc = IF d = p THEN td[d].inc - 1 ELSE td[d].inc

\* Completing a task takes it from its parent's incomplete children.
LEMMA CompleteTd ==
    ASSUME td \in [Descriptors -> TaskdataRecords], NEW t \in Tasks, NEW p \in Descriptors, p # t,
           CompleteWrites(t, p)
    PROVE  Completed(t, p)
<1> DEFINE a == [td EXCEPT ![t] = [td[t] EXCEPT !.complete = TRUE]]
<1>1. a \in [Descriptors -> TaskdataRecords] /\ a[t] = [td[t] EXCEPT !.complete = TRUE]
      /\ \A d \in Descriptors : d # t => a[d] = td[d]
  <2>1. td[t] \in TaskdataRecords  BY DEF Descriptors
  <2>2. [td[t] EXCEPT !.complete = TRUE] \in TaskdataRecords  BY <2>1, CompleteSet DEF AlikeButComplete
  <2> QED  BY <2>2 DEF Descriptors
<1>2. td' = [a EXCEPT ![p] = [a[p] EXCEPT !.inc = a[p].inc - 1]]  BY DEF CompleteWrites
<1> HIDE DEF a
<1>a. a[p] = td[p] /\ td[p].inc \in Int  BY <1>1 DEF TaskdataRecords
<1>3. \A d \in Descriptors : td'[d] = IF d = p THEN [td[d] EXCEPT !.inc = td[d].inc - 1] ELSE a[d]
  BY <1>2, <1>1, <1>a
<1>4. ASSUME NEW d \in Descriptors PROVE AlikeButInc(a[d], td'[d]) /\ td'[d].inc = IF d = p THEN a[d].inc - 1 ELSE a[d].inc
  <2>0. a[d] \in TaskdataRecords  BY <1>1
  <2>1. CASE d = p
    <3> PICK v \in Int : v = a[d].inc - 1  BY <2>1, <1>a
    <3>1. td'[d] = [a[d] EXCEPT !.inc = v]  BY <2>1, <1>3, <1>a
    <3>2. AlikeButInc(a[d], td'[d])  BY <2>0, <3>1, IncSet
    <3>3. [a[d] EXCEPT !.inc = v].inc = v  BY <2>0, IncSet
    <3>4. td'[d].inc = v  BY <3>1, <3>3
    <3> QED  BY <2>1, <3>2, <3>4
  <2>2. CASE d # p
    <3>1. td'[d] = a[d]  BY <2>2, <1>3
    <3> QED  BY <2>0, <2>2, <3>1 DEF AlikeButInc
  <2> QED  BY <2>1, <2>2
<1>5. td' = [d \in Descriptors |-> td'[d]]  BY <1>2, <1>1
<1>6. td' \in [Descriptors -> TaskdataRecords]  BY <1>5, <1>4 DEF AlikeButInc
<1>7. ASSUME NEW d \in Descriptors
      PROVE  /\ a[d].state = td[d].state /\ a[d].parent = td[d].parent /\ a[d].kids = td[d].kids
             /\ a[d].group = td[d].group /\ a[d].node = td[d].node
             /\ a[d].complete = IF d = t THEN TRUE ELSE td[d].complete
             /\ a[d].inc = td[d].inc
  <2>0. td[d] \in TaskdataRecords  OBVIOUS
  <2>1. CASE d = t  BY <2>0, <2>1, <1>1, CompleteSet DEF AlikeButComplete
  <2>2. CASE d # t  BY <2>2, <1>1
  <2> QED  BY <2>1, <2>2
<1>8. a[p].inc = td[p].inc  BY <1>a
<1>9. ASSUME NEW d \in Descriptors
      PROVE  /\ td'[d].state = td[d].state /\ td'[d].parent = td[d].parent /\ td'[d].kids = td[d].kids
             /\ td'[d].group = td[d].group /\ td'[d].node = td[d].node
             /\ td'[d].complete = IF d = t THEN TRUE ELSE td[d].complete
             /\ td'[d].inc = IF d = p THEN td[d].inc - 1 ELSE td[d].inc
  <2>1. AlikeButInc(a[d], td'[d]) /\ td'[d].inc = IF d = p THEN a[d].inc - 1 ELSE a[d].inc  BY <1>4
  <2> QED  BY <2>1, <1>7 DEF AlikeButInc
<1> QED  BY <1>6, <1>9 DEF Completed

\* The parent of a task.
LEMMA ParentFacts ==
    ASSUME NEW W, NEW K, Shape(W, K), NEW t \in Tasks, W[t] # "absent"
    PROVE  /\ td[t].parent \in Descriptors /\ td[t].parent # t
           /\ td[t].parent \in Tasks => W[td[t].parent] \notin Young
           /\ td[t].parent \in Tasks => Kind(td[t].parent) # "proxy"
<1> DEFINE d == td[t].parent
<1>1. PICK j \in 1..Len(prog.body[d]) : prog.body[d][j] = <<"task", t>>  BY DEF Shape, ChildOK
<1>2. d \in Descriptors /\ d # t /\ (d \in Tasks => W[d] \notin Young)  BY DEF Shape, ChildOK
<1>3. d \in Tasks => Kind(d) # "proxy"
  <2>1. d \in Tasks /\ Kind(d) = "proxy" => prog.body[d] = <<>>  BY ProgramFacts DEF Shape
  <2> QED  BY <1>1, <2>1
<1> QED  BY <1>2, <1>3

----------------------------------------------------------------------------
(* Completing a task (Complete). *)

\* The data of a step that keeps every task in its place.
LEMMA LawfulSame ==
    ASSUME NEW W, NEW K, Shape(W, K), prog' = prog, DataTypes', deque' = deque,
           \A s \in Tasks : td'[s].parent = td[s].parent,
           \A s \in Tasks : Calm(W, s) \/ (ProxyOK(s, W[s])' /\ TaskOK(s, W[s])')
    PROVE  Lawful(W, K, W, K)
<1>0. W \in [Tasks -> Places] /\ K \in [Tasks -> Tasks \union {None}] /\ Queued(W)  BY DEF Shape
<1>1. Queued(W)'  BY <1>0, QueuedSame DEF Shape, Types, DataTypes
<1>2. Settled(W, W) /\ Grows(W, W) /\ Parents(W, W)  BY DEF Settled, Grows, Parents
<1>3. ClimbOK(W, K)'  BY DEF ClimbOK, Shape
<1> QED  BY <1>0, <1>1, <1>2, <1>3 DEF Lawful

\* Complete keeps the shape; the task goes on to leave its group.
LEMMA CompleteShape ==
    ASSUME NEW W, NEW K, Shape(W, K), NEW th \in Threads, NEW f, f = Top(th), Complete(th),
           NEW W2, W2 = [W EXCEPT ![f.task] = "group"]
    PROVE  /\ Shape(W2, K)' /\ f.task \in Tasks /\ W[f.task] = "body" /\ Kind(f.task) # "proxy"
           /\ f.pc = "body" /\ f.ip = Len(prog.body[f.task]) + 1
           /\ Completed(f.task, td[f.task].parent)
           /\ \E g : Turn(f, g, "group") /\ SetTop(th, g)
<1>0. W \in [Tasks -> Places]  BY DEF Shape
<1>1. f \in FrameRecords /\ LocalOK(f) /\ FrameOK(f, W, K) /\ f.pc = "body" /\ f.task \in Tasks
      /\ f.ip > Len(prog.body[f.task])
  BY TaskFrame DEF Complete, Ended, At
<1>2. W[f.task] = "body" /\ Kind(f.task) # "proxy" /\ f.ip = Len(prog.body[f.task]) + 1
  <2>1. W[f.task] = "body" /\ Kind(f.task) # "proxy"  BY <1>1, TaskFrame DEF Bodily
  <2>2. f.ip \in 1..Len(prog.body[f.task]) + 1  BY <1>1 DEF LocalOK
  <2>3. Len(prog.body[f.task]) \in Nat  BY <1>1, ProgramFacts DEF Shape, FrameRecords
  <2> QED  BY <1>1, <2>1, <2>2, <2>3
<1> PICK g : Turn(f, g, "group")  BY <1>1, Turned DEF Pcs, Finishing
<1>3. SetTop(th, g) /\ Continues(f, g) /\ g \in FrameRecords
  BY <1>1 DEF Complete, Goto, Continues, FrameRecords, Turn
<1>4. LocalOK(g)'
  BY <1>1, <1>2, TaskNames DEF LocalOK, Bodily, Creating, Proxying, Kind, Complete, Turn
<1>5. FrameOK(g, W2, K)'
  BY <1>0, <1>1, <1>2 DEF FrameOK, Place, Pushes, Bodily, Creating, Turn
<1>6. HoldsOnly(g, f, W)  BY <1>1 DEF HoldsOnly, Holds, Makes, Pushes, Creating, Turn
<1> PICK p \in Descriptors : p = td[f.task].parent /\ p # f.task /\ (p \in Tasks => W[p] \notin Young)
  BY <1>1, <1>2, ParentFacts
<1>9. Completed(f.task, p)
  <2>1. CompleteWrites(f.task, p)  BY DEF Complete, CompleteWrites
  <2>2. td \in [Descriptors -> TaskdataRecords]  BY DEF Shape, Types, DataTypes
  <2> QED  BY <1>1, <2>1, <2>2, CompleteTd
<1>10. \A s \in Tasks : td'[s].parent = td[s].parent  BY <1>9, Zenon DEF Descriptors, Completed
<1>7. Moves(W, K, W2, K, th)  BY <1>0, <1>10, MovesOne, Zenon DEF Holds, Complete
<1>8. Lawful(W, K, W2, K)
  <2>1. Queued(W2)'  BY <1>2, QueuedSame, Zenon DEF Shape, Types, DataTypes, Complete
  <2>2. DataTypes'  BY <1>9, Zenon DEF Completed, Shape, Types, DataTypes, Complete
  <2>3. ProxyOK(f.task, W[f.task]) /\ TaskOK(f.task, W[f.task])  BY <1>1 DEF Shape
  <2>4. ProxyOK(f.task, "group")'  BY <2>3, <1>2 DEF ProxyOK, Complete, Kind, Young, Late
  <2>5. TaskOK(f.task, "group")'
    <3>1. td'[f.task].state = td[f.task].state /\ td'[f.task].node = td[f.task].node /\ td'[f.task].complete = TRUE
      BY <1>1, <1>9 DEF Descriptors, Completed
    <3>2. node' = node /\ Kind(f.task)' # "proxy"  BY <1>2 DEF Complete, Kind
    <3> QED  BY <2>3, <1>2, <3>1, <3>2 DEF TaskOK, Kind, Complete
  <2>6. ASSUME NEW s \in Tasks, s # f.task PROVE Calm(W, s)
    <3>1. td'[s].state = td[s].state /\ td'[s].node = td[s].node /\ td'[s].complete = td[s].complete
          /\ td'[s].group = td[s].group /\ td'[s].kids = td[s].kids
      BY <2>6, <1>9, Zenon DEF Descriptors, Completed
    <3>2. W[s] = "absent" => td'[s].inc = td[s].inc  BY <1>9, Zenon DEF Descriptors, Young, Completed
    <3> QED  BY <3>1, <3>2 DEF Calm, Complete
  <2> QED  BY <1>1, <1>2, <2>1, <2>2, <2>4, <2>5, <2>6, <1>10, LawfulOne, Zenon DEF Places, Young, Complete
<1>11. Shape(W2, K)'  BY <1>3, <1>4, <1>5, <1>6, <1>7, <1>8, StepOne DEF Complete
<1> QED  BY <1>1, <1>2, <1>3, <1>9, <1>11

----------------------------------------------------------------------------
(* Launching a proxy, its bottom half, and counting the predecessors         *)
(* (Launch, BottomHalf, Count).                                              *)

\* A step that moves no task.
LEMMA MovesNone ==
    ASSUME NEW W, NEW K, NEW th \in Threads, \A s \in Tasks : td'[s].parent = td[s].parent, proxy' = proxy
    PROVE  Moves(W, K, W, K, th)
BY DEF Moves

\* The node of t changes neither its name nor its list, nor does it come or go.
NodeAlike(t) ==
    /\ node'[t].task = node[t].task /\ node'[t].succ = node[t].succ
    /\ node'[t].state = "absent" <=> node[t].state = "absent"

\* A task whose records the step leaves alone.
LEMMA CalmFrom ==
    ASSUME NEW W, NEW t \in Tasks, proxy'[t] = proxy[t], TdAlike(t), NodeAlike(t)
    PROVE  Calm(W, t)
BY DEF Calm, TdAlike, NodeAlike

\* Launch keeps the shape.
LEMMA LaunchShape ==
    ASSUME NEW W, NEW K, Shape(W, K), NEW th \in Threads, NEW f, f = Top(th), Launch(th)
    PROVE  Shape(W, K)' /\ f.task \in Tasks /\ W[f.task] = "launch" /\ proxy[f.task] = "idle" /\ Kind(f.task) = "proxy"
<1>0. W \in [Tasks -> Places]  BY DEF Shape
<1>1. f \in FrameRecords /\ LocalOK(f) /\ FrameOK(f, W, K) /\ f.pc = "launch"  BY TaskFrame DEF Launch, At
<1>2. f.task \in Tasks /\ W[f.task] = "launch" /\ proxy[f.task] = "idle" /\ Kind(f.task) = "proxy"
  <2>1. f.task \in Tasks /\ W[f.task] = "launch"  BY <1>1, TaskFrame DEF Proxying
  <2> QED  BY <1>1, <2>1 DEF LocalOK, FrameOK, Proxying
<1> PICK g : Turn(f, g, "returned")  BY <1>1, Turned DEF Pcs, Proxying
<1>3. SetTop(th, g) /\ Continues(f, g) /\ g \in FrameRecords
  BY <1>1 DEF Launch, Goto, Continues, FrameRecords, Turn
<1>a. proxy' = [proxy EXCEPT ![f.task] = "run"] /\ proxy \in [Tasks -> Stages]
  BY DEF Launch, Advance, Shape, Types, DataTypes
<1>4. LocalOK(g)'
  BY <1>1, <1>2, TaskNames DEF LocalOK, Bodily, Creating, Proxying, Kind, Launch, Turn
<1>5. FrameOK(g, W, K)'
  BY <1>0, <1>1, <1>2, <1>a DEF FrameOK, Place, Pushes, Bodily, Creating, Turn
<1>6. HoldsOnly(g, f, W)  BY <1>1 DEF HoldsOnly, Holds, Makes, Pushes, Creating, Turn
<1>7. Moves(W, K, W, K, th)  BY <1>a DEF Moves, Holds, Launch
<1>8. Lawful(W, K, W, K)
  <2>2. DataTypes'  BY <1>2, <1>a DEF Shape, Types, DataTypes, Launch, Stages
  <2>3. ProxyOK(f.task, W[f.task]) /\ TaskOK(f.task, W[f.task])  BY <1>2 DEF Shape
  <2>4. ProxyOK(f.task, W[f.task])'  BY <2>3, <1>2, <1>a DEF ProxyOK, Launch, Kind, Young, Late
  <2>5. TaskOK(f.task, W[f.task])'  BY <2>3, <1>2, <1>a DEF TaskOK, Launch, Kind, Late
  <2>6. \A s \in Tasks : s # f.task => Calm(W, s)  BY <1>a DEF Calm, Launch
  <2> QED  BY <1>2, <2>2, <2>4, <2>5, <2>6, LawfulSame DEF Launch
<1> QED  BY <1>2, <1>3, <1>4, <1>5, <1>6, <1>7, <1>8, StepOne DEF Launch

\* BottomHalf keeps the shape; the proxy goes on to its release.
LEMMA BottomHalfShape ==
    ASSUME NEW W, NEW K, Shape(W, K), NEW th \in Threads, NEW f, f = Top(th), BottomHalf(th), proxy[f.task] = "done",
           NEW W2, W2 = [W EXCEPT ![f.task] = "release"]
    PROVE  Shape(W2, K)' /\ f.task \in Tasks /\ W[f.task] = "bottom" /\ Kind(f.task) = "proxy"
<1>0. W \in [Tasks -> Places]  BY DEF Shape
<1>1. f \in FrameRecords /\ LocalOK(f) /\ FrameOK(f, W, K) /\ f.pc = "bottom"  BY TaskFrame DEF BottomHalf, At
<1>2. f.task \in Tasks /\ W[f.task] = "bottom" /\ Kind(f.task) = "proxy"
  <2>1. f.task \in Tasks /\ W[f.task] = "bottom"  BY <1>1, TaskFrame DEF Proxying
  <2> QED  BY <1>1, <2>1 DEF LocalOK, Proxying
<1> PICK g : Turn(f, g, "release")  BY <1>1, Turned DEF Pcs, Finishing
<1>3. SetTop(th, g) /\ Continues(f, g) /\ g \in FrameRecords
  BY <1>1 DEF BottomHalf, Goto, Continues, FrameRecords, Turn
<1>4. LocalOK(g)'
  BY <1>1, <1>2, TaskNames DEF LocalOK, Bodily, Creating, Proxying, Kind, BottomHalf, Turn
<1>5. FrameOK(g, W2, K)'
  BY <1>0, <1>1, <1>2 DEF FrameOK, Place, Pushes, Bodily, Creating, Turn
<1>6. HoldsOnly(g, f, W)  BY <1>1 DEF HoldsOnly, Holds, Makes, Pushes, Creating, Turn
<1>7. Moves(W, K, W2, K, th)  BY <1>0, MovesOne DEF Holds, BottomHalf
<1>8. Lawful(W, K, W2, K)
  <2>1. Queued(W2)'  BY <1>2, QueuedSame DEF Shape, Types, DataTypes, BottomHalf
  <2>2. DataTypes'  BY DEF Shape, Types, DataTypes, BottomHalf
  <2>3. ProxyOK(f.task, W[f.task]) /\ TaskOK(f.task, W[f.task])  BY <1>2 DEF Shape
  <2>4. ProxyOK(f.task, "release")'  BY <2>3, <1>2 DEF ProxyOK, BottomHalf, Kind, Young, Late
  <2>5. TaskOK(f.task, "release")'  BY <2>3, <1>2 DEF TaskOK, BottomHalf, Kind, Late
  <2>6. \A s \in Tasks : Calm(W, s) /\ td'[s].parent = td[s].parent  BY DEF Calm, BottomHalf
  <2> QED  BY <1>2, <2>1, <2>2, <2>4, <2>5, <2>6, LawfulOne DEF Places, Young, BottomHalf
<1> QED  BY <1>2, <1>3, <1>4, <1>5, <1>6, <1>7, <1>8, StepOne DEF BottomHalf

\* Count keeps the shape; the task waits, is blocked or is ready.
LEMMA CountShape ==
    ASSUME NEW W, NEW K, Shape(W, K), NEW th \in Threads, NEW f, f = Top(th), Count(th),
           NEW w, w = (IF Kind(f.x) = "if0" THEN "depwait"
                       ELSE IF node[f.x].npred + f.n + 1 > 0 THEN "blocked" ELSE "ready"),
           NEW W2, W2 = [W EXCEPT ![f.x] = w]
    PROVE  Shape(W2, K)' /\ f.x \in Tasks /\ W[f.x] = "linking"
<1>0. W \in [Tasks -> Places]  BY DEF Shape
<1>1. f \in FrameRecords /\ LocalOK(f) /\ FrameOK(f, W, K) /\ f.pc = "count"  BY TaskFrame DEF Count, At
<1>2. f.x \in Tasks /\ W[f.x] = "linking" /\ Makes(f, f.x) /\ (f.task \in Tasks => W[f.task] = "body" /\ Kind(f.task) # "proxy")
  BY <1>1, TaskFrame DEF Bodily, Creating, Makes, Making
<1> DEFINE pc == IF Kind(f.x) = "if0" THEN "depwait"
                 ELSE IF node[f.x].npred + f.n + 1 > 0 THEN "body" ELSE "submit"
<1>b. pc \in {"depwait", "body", "submit"}  OBVIOUS
<1> PICK g : Turn(f, g, pc)  BY <1>1, <1>b, Turned DEF Pcs, Bodily, Creating
<1>3. SetTop(th, g) /\ Continues(f, g) /\ g \in FrameRecords
  BY <1>1 DEF Count, Goto, Continues, FrameRecords, Turn
<1>c. /\ g.pc \in {"depwait", "body", "submit"} /\ g.task = f.task /\ g.x = f.x /\ g.todo = f.todo /\ g.ip = f.ip
      /\ g.pc = "depwait" <=> w = "depwait"
      /\ g.pc = "body" <=> w = "blocked"
      /\ g.pc = "submit" <=> w = "ready"
      /\ g.pc = "depwait" <=> Kind(f.x) = "if0"
      /\ w \in {"depwait", "blocked", "ready"}
  BY DEF Turn
<1>d. node' = [node EXCEPT ![f.x].npred = @ + f.n + 1, ![f.x].task = ~(Kind(f.x) = "if0")]
  BY DEF Count
<1> HIDE DEF pc
<1>4. LocalOK(g)'
  BY <1>1, <1>2, <1>c, TaskNames DEF LocalOK, Bodily, Creating, Proxying, Kind, Count
<1>5. FrameOK(g, W2, K)'
  BY <1>0, <1>1, <1>2, <1>c DEF FrameOK, Place, Making, Pushes, Bodily, Creating, Count
<1>6. HoldsOnly(g, f, W)  BY <1>1, <1>c DEF HoldsOnly, Holds, Makes, Pushes, Creating
<1>7. Moves(W, K, W2, K, th)  BY <1>0, <1>2, MovesOne, Zenon DEF Holds, Count
<1>8. Lawful(W, K, W2, K)
  <2>1. Queued(W2)'  BY <1>2, QueuedSame DEF Shape, Types, DataTypes, Count
  <2>a. node \in [Tasks -> DepnodeRecords] /\ f.n \in Int  BY <1>1 DEF Shape, Types, DataTypes, FrameRecords
  <2>b. /\ node' \in [Tasks -> DepnodeRecords]
        /\ node'[f.x].task = ~(Kind(f.x) = "if0") /\ node'[f.x].state = node[f.x].state /\ node'[f.x].succ = node[f.x].succ
    <3> PICK v \in Int : v = node[f.x].npred + f.n + 1  BY <1>2, <2>a DEF DepnodeRecords
    <3> PICK b \in BOOLEAN : b = ~(Kind(f.x) = "if0")  OBVIOUS
    <3> PICK r \in DepnodeRecords : r = node[f.x]  BY <1>2, <2>a
    <3> PICK q : q = [r EXCEPT !.npred = v, !.task = b]  OBVIOUS
    <3>1. q \in DepnodeRecords /\ q.task = b /\ q.state = r.state /\ q.succ = r.succ  BY DEF DepnodeRecords
    <3>2. node' = [node EXCEPT ![f.x] = q]  BY <1>d
    <3> QED  BY <1>2, <2>a, <3>1, <3>2
  <2>c. \A s \in Tasks : s # f.x => node'[s] = node[s]  BY <1>d, <2>a
  <2>2. DataTypes'  BY <2>b DEF Shape, Types, DataTypes, Count
  <2>3. ProxyOK(f.x, W[f.x]) /\ TaskOK(f.x, W[f.x])  BY <1>2 DEF Shape
  <2>4. ProxyOK(f.x, w)'  BY <2>3, <1>2, <1>c DEF ProxyOK, Count, Kind, Young, Late
  <2>5. TaskOK(f.x, w)'  BY <2>3, <1>2, <1>c, <2>b, Zenon DEF TaskOK, Count, Kind, Late
  <2>6. \A s \in Tasks : s # f.x => Calm(W, s)  BY <2>c DEF Calm, Count
  <2>7. \A s \in Tasks : td'[s].parent = td[s].parent  BY DEF Count
  <2> QED  BY <1>2, <1>c, <2>1, <2>2, <2>4, <2>5, <2>6, <2>7, LawfulOne, Zenon DEF Places, Young, Count
<1> QED  BY <1>2, <1>3, <1>4, <1>5, <1>6, <1>7, <1>8, StepOne DEF Count

----------------------------------------------------------------------------
(* Dropping references: from a list, from a hash entry, from a whole hash. *)

Derefed(n, k, q) ==
    /\ q \in DepnodeRecords /\ q.task = n.task /\ q.npred = n.npred /\ q.succ = n.succ
    /\ q.nrefs = n.nrefs - k
    /\ q.state = IF k > 0 /\ n.nrefs = k THEN "freed" ELSE n.state

\* Dropping references frees a node with the last one.
LEMMA DerefFacts ==
    ASSUME NEW n \in DepnodeRecords, NEW k \in Int
    PROVE  Derefed(n, k, Deref(n, k))
<1> PICK m \in Int : m = n.nrefs - k  BY DEF DepnodeRecords
<1> PICK s \in States : s = IF k > 0 /\ n.nrefs = k THEN "freed" ELSE n.state  BY DEF DepnodeRecords, States
<1> PICK q : q = [n EXCEPT !.nrefs = m, !.state = s]  OBVIOUS
<1>1. q = Deref(n, k)  BY DEF Deref
<1>2. /\ q \in DepnodeRecords /\ q.task = n.task /\ q.npred = n.npred /\ q.succ = n.succ
      /\ q.nrefs = m /\ q.state = s
  BY DEF DepnodeRecords
<1> QED  BY <1>1, <1>2 DEF Derefed

\* A hash entry names a task finitely often.
LEMMA UsesFinite ==
    ASSUME NEW e \in Entries, NEW t
    PROVE  IsFiniteSet(Uses(e, t)) /\ Cardinality(Uses(e, t)) \in Nat
           /\ (~Names(e, t) => Cardinality(Uses(e, t)) = 0)
<1>1. Len(e.ins) \in Nat  BY DEF Entries
<1> PICK n \in Nat : n = Len(e.ins)  BY <1>1
<1>2. IsFiniteSet(0..n)  BY FS_Interval
<1>3. Uses(e, t) \in SUBSET (0..n)  BY DEF Uses
<1> PICK U : U = Uses(e, t)  OBVIOUS
<1>4. IsFiniteSet(U)  BY <1>2, <1>3, FS_Subset
<1>5. Cardinality(U) \in Nat  BY <1>4, FS_CardinalityType
<1>6. ~Names(e, t) => U = {}
  <2> SUFFICES ASSUME ~Names(e, t), NEW i \in U PROVE FALSE  OBVIOUS
  <2>1. i \in 0..n /\ t = IF i = 0 THEN e.out ELSE e.ins[i]  BY DEF Uses
  <2>2. CASE i = 0  BY <2>1, <2>2 DEF Names
  <2>3. CASE i \in 1..n  BY <2>1, <2>3 DEF Names
  <2> QED  BY <2>1, <2>2, <2>3
<1>7. U = {} => Cardinality(U) = 0  BY FS_EmptySet
<1> QED  BY <1>4, <1>5, <1>6, <1>7

\* A hash names a task finitely often.
LEMMA HashUsesFinite ==
    ASSUME NEW h \in [Addrs -> Entries], NEW t
    PROVE  IsFiniteSet(HashUses(h, t)) /\ Cardinality(HashUses(h, t)) \in Nat
           /\ ((\A a \in Addrs : ~Names(h[a], t)) => HashUses(h, t) = {} /\ Cardinality(HashUses(h, t)) = 0)
<1> DEFINE F == {{a} \X Uses(h[a], t) : a \in Addrs}
           s == [a \in Addrs |-> {a} \X Uses(h[a], t)]
<1>1. IsFiniteSet(F)
  <2>1. s \in Surjection(Addrs, F)  BY DEF Surjection
  <2> QED  BY <2>1, FS_Surjection, TaskNames
<1>2. \A T \in F : IsFiniteSet(T)
  <2> SUFFICES ASSUME NEW a \in Addrs PROVE IsFiniteSet({a} \X Uses(h[a], t))  OBVIOUS
  <2>1. IsFiniteSet({a}) /\ IsFiniteSet(Uses(h[a], t))  BY UsesFinite, FS_Singleton
  <2> QED  BY <2>1, FS_Product
<1> PICK U : U = HashUses(h, t)  OBVIOUS
<1>3. U = UNION F  BY DEF HashUses
<1> HIDE DEF F
<1>4. IsFiniteSet(UNION F)  BY <1>1, <1>2, FS_UNION
<1>5. IsFiniteSet(U) /\ Cardinality(U) \in Nat  BY <1>3, <1>4, FS_CardinalityType
<1>6. ASSUME \A a \in Addrs : ~Names(h[a], t) PROVE U = {}
  <2> SUFFICES ASSUME NEW r \in U PROVE FALSE  OBVIOUS
  <2>1. PICK a \in Addrs : r \in {a} \X Uses(h[a], t)  BY DEF HashUses
  <2>2. r[2] \in Uses(h[a], t)  BY <2>1
  <2>3. h[a] \in Entries /\ ~Names(h[a], t)  BY <1>6
  <2>4. Len(h[a].ins) \in Nat  BY <2>3 DEF Entries
  <2>5. r[2] \in 0..Len(h[a].ins) /\ t = IF r[2] = 0 THEN h[a].out ELSE h[a].ins[r[2]]  BY <2>2 DEF Uses
  <2>6. r[2] = 0 \/ r[2] \in 1..Len(h[a].ins)  BY <2>4, <2>5
  <2> QED  BY <2>3, <2>5, <2>6 DEF Names
<1>7. U = {} => Cardinality(U) = 0  BY FS_EmptySet
<1> QED  BY <1>5, <1>6, <1>7

\* __kmp_dephash_free: what it does to a node.
UsesOf(h, t) == IF h = Null THEN 0 ELSE Cardinality(HashUses(h, t))

\* Freeing a hash drops one reference per use of a node.
LEMMA FreeHashFacts ==
    ASSUME node \in [Tasks -> DepnodeRecords], NEW h, h \in [Addrs -> Entries] \/ h = Null
    PROVE  /\ FreeHash(h) \in [Tasks -> DepnodeRecords]
           /\ \A t \in Tasks : UsesOf(h, t) \in Nat /\ Derefed(node[t], UsesOf(h, t), FreeHash(h)[t])
<1>1. CASE h = Null
  <2>1. \A t \in Tasks : Derefed(node[t], 0, node[t])
    <3> TAKE t \in Tasks
    <3>1. node[t].nrefs \in Int /\ node[t] \in DepnodeRecords  BY DEF DepnodeRecords
    <3> QED  BY <3>1 DEF Derefed
  <2> QED  BY <1>1, <2>1 DEF FreeHash, UsesOf
<1>2. CASE h # Null
  <2>0. h \in [Addrs -> Entries]  BY <1>2
  <2>1. \A t \in Tasks : UsesOf(h, t) \in Nat  BY <1>2, <2>0, HashUsesFinite DEF UsesOf
  <2>2. FreeHash(h) = [t \in Tasks |-> Deref(node[t], UsesOf(h, t))]  BY <1>2 DEF FreeHash, UsesOf
  <2>3. \A t \in Tasks : Derefed(node[t], UsesOf(h, t), Deref(node[t], UsesOf(h, t)))
    <3> TAKE t \in Tasks
    <3> PICK k \in Nat : k = UsesOf(h, t)  BY <2>1
    <3>1. Derefed(node[t], k, Deref(node[t], k))  BY DerefFacts
    <3> QED  BY <3>1
  <2>4. \A t \in Tasks : Deref(node[t], UsesOf(h, t)) \in DepnodeRecords  BY <2>3 DEF Derefed
  <2> QED  BY <2>1, <2>2, <2>3, <2>4
<1> QED  BY <1>1, <1>2

----------------------------------------------------------------------------
(* Steps that touch nodes only: the end of an implicit task, and an if0      *)
(* task whose dependences are met.                                           *)

\* Every task named in a hash has a node.
HashPresent(d) ==
    hash[d] # Null => \A a \in Addrs : \A t \in Tasks : Names(hash[d][a], t) => node[t].state # "absent"

\* Dropping references leaves the rest of a node alone.
LEMMA DerefedAlike ==
    ASSUME NEW t \in Tasks, NEW k \in Int, Derefed(node[t], k, node'[t]), node[t].state = "absent" => k <= 0
    PROVE  NodeAlike(t)
BY DEF Derefed, NodeAlike

\* EndImplicit keeps the shape; the thread goes to the barrier.
LEMMA EndImplicitShape ==
    ASSUME NEW W, NEW K, Shape(W, K), NEW th \in Threads, NEW f, f = Top(th), EndImplicit(th), HashPresent(f.task)
    PROVE  /\ Shape(W, K)' /\ f.task \in Threads /\ f.pc = "body" /\ f.ip = Len(prog.body[f.task]) + 1
           /\ \E g : Turn(f, g, "barrier") /\ SetTop(th, g)
<1>1. f \in FrameRecords /\ LocalOK(f) /\ FrameOK(f, W, K) /\ f.pc = "body" /\ f.task \in Threads
      /\ f.ip > Len(prog.body[f.task])
  BY TaskFrame DEF EndImplicit, Ended, At
<1>2. f.ip = Len(prog.body[f.task]) + 1 /\ f.task \in Descriptors
  <2>2. f.ip \in 1..Len(prog.body[f.task]) + 1  BY <1>1 DEF LocalOK
  <2>3. Len(prog.body[f.task]) \in Nat  BY <1>1, ProgramFacts DEF Shape, FrameRecords
  <2> QED  BY <1>1, <2>2, <2>3 DEF Descriptors
<1> PICK g : Turn(f, g, "barrier")  BY <1>1, Turned DEF Pcs
<1>3. SetTop(th, g) /\ Continues(f, g) /\ g \in FrameRecords
  BY <1>1 DEF EndImplicit, Goto, Continues, FrameRecords, Turn
<1>4. LocalOK(g)'
  BY <1>1, <1>2, TaskNames DEF LocalOK, Bodily, Creating, Proxying, Kind, EndImplicit, Turn
<1>5. FrameOK(g, W, K)'
  BY <1>1, <1>2, TaskNames DEF FrameOK, Place, Pushes, Bodily, Creating, Turn
<1>6. HoldsOnly(g, f, W)  BY <1>1 DEF HoldsOnly, Holds, Makes, Pushes, Creating, Turn
<1>7. Moves(W, K, W, K, th)  BY MovesNone DEF EndImplicit
<1>8. Lawful(W, K, W, K)
  <2>0. /\ node \in [Tasks -> DepnodeRecords] /\ hash \in [Descriptors -> [Addrs -> Entries] \union {Null}]
        /\ (hash[f.task] \in [Addrs -> Entries] \/ hash[f.task] = Null)
    BY <1>2 DEF Shape, Types, DataTypes
  <2> PICK h : h = hash[f.task]  OBVIOUS
  <2>1. node' = FreeHash(h)  BY DEF EndImplicit
  <2>2. /\ node' \in [Tasks -> DepnodeRecords]
        /\ \A t \in Tasks : UsesOf(h, t) \in Nat /\ Derefed(node[t], UsesOf(h, t), node'[t])
    BY <2>0, <2>1, FreeHashFacts
  <2>3. \A t \in Tasks : node[t].state = "absent" => UsesOf(h, t) = 0
    BY <2>0, HashUsesFinite DEF HashPresent, UsesOf
  <2>4. \A t \in Tasks : NodeAlike(t)
    <3> TAKE t \in Tasks
    <3> PICK k \in Nat : k = UsesOf(h, t)  BY <2>2
    <3>1. Derefed(node[t], k, node'[t]) /\ (node[t].state = "absent" => k <= 0)  BY <2>2, <2>3
    <3> QED  BY <3>1, DerefedAlike
  <2>5. SameTd  BY TdUnchanged DEF Shape, Types, DataTypes, EndImplicit
  <2>6. \A s \in Tasks : Calm(W, s) /\ td'[s].parent = td[s].parent
    BY <2>4, <2>5, CalmFrom DEF SameTd, Descriptors, EndImplicit, TdAlike
  <2>7. hash' = [hash EXCEPT ![f.task] = Null]  BY DEF EndImplicit
  <2>8. hash' \in [Descriptors -> [Addrs -> Entries] \union {Null}]  BY <2>0, <2>7
  <2>9. DataTypes'  BY <2>2, <2>8 DEF Shape, Types, DataTypes, EndImplicit
  <2> QED  BY <2>6, <2>9, LawfulSame DEF EndImplicit
<1>9. Shape(W, K)'  BY <1>3, <1>4, <1>5, <1>6, <1>7, <1>8, StepOne DEF EndImplicit
<1> QED  BY <1>1, <1>2, <1>3, <1>9

\* DepsMet keeps the shape; the if0 task is ready.
LEMMA DepsMetShape ==
    ASSUME NEW W, NEW K, Shape(W, K), NEW th \in Threads, NEW f, f = Top(th), DepsMet(th),
           NEW W2, W2 = [W EXCEPT ![f.x] = "ready"]
    PROVE  Shape(W2, K)' /\ f.x \in Tasks /\ W[f.x] = "depwait" /\ Kind(f.x) = "if0" /\ f.pc = "depwait"
<1>0. W \in [Tasks -> Places]  BY DEF Shape
<1>1. f \in FrameRecords /\ LocalOK(f) /\ FrameOK(f, W, K) /\ f.pc = "depwait"  BY TaskFrame DEF DepsMet, At
<1>2. f.x \in Tasks /\ W[f.x] = "depwait" /\ Makes(f, f.x) /\ (f.task \in Tasks => W[f.task] = "body" /\ Kind(f.task) # "proxy")
      /\ Kind(f.x) = "if0"
  BY <1>1, TaskFrame DEF Bodily, Creating, Makes, Making, LocalOK
<1> PICK g : Turn(f, g, "begin")  BY <1>1, Turned DEF Pcs, Bodily, Creating
<1>3. SetTop(th, g) /\ Continues(f, g) /\ g \in FrameRecords
  BY <1>1 DEF DepsMet, Goto, Continues, FrameRecords, Turn
<1>4. LocalOK(g)'
  BY <1>1, <1>2, TaskNames DEF LocalOK, Bodily, Creating, Proxying, Kind, DepsMet, Turn
<1>5. FrameOK(g, W2, K)'
  BY <1>0, <1>1, <1>2 DEF FrameOK, Place, Making, Pushes, Bodily, Creating, DepsMet, Turn
<1>6. HoldsOnly(g, f, W)  BY <1>1 DEF HoldsOnly, Holds, Makes, Pushes, Creating, Turn
<1>7. Moves(W, K, W2, K, th)  BY <1>0, <1>2, MovesOne DEF Holds, DepsMet
<1>8. Lawful(W, K, W2, K)
  <2>1. Queued(W2)'  BY <1>2, QueuedSame DEF Shape, Types, DataTypes, DepsMet
  <2>a. node \in [Tasks -> DepnodeRecords] /\ node' = [node EXCEPT ![f.x].state = "freed"]
    BY DEF Shape, Types, DataTypes, DepsMet
  <2>b. /\ node' \in [Tasks -> DepnodeRecords]
        /\ node'[f.x].task = node[f.x].task /\ node'[f.x].state = "freed" /\ node'[f.x].succ = node[f.x].succ
    <3> PICK r \in DepnodeRecords : r = node[f.x]  BY <1>2, <2>a
    <3> PICK q : q = [r EXCEPT !.state = "freed"]  OBVIOUS
    <3>1. q \in DepnodeRecords /\ q.task = r.task /\ q.state = "freed" /\ q.succ = r.succ  BY DEF DepnodeRecords, States
    <3>2. node' = [node EXCEPT ![f.x] = q]  BY <2>a
    <3> QED  BY <1>2, <2>a, <3>1, <3>2
  <2>c. \A s \in Tasks : s # f.x => node'[s] = node[s]  BY <2>a
  <2>2. DataTypes'  BY <2>b DEF Shape, Types, DataTypes, DepsMet
  <2>3. ProxyOK(f.x, W[f.x]) /\ TaskOK(f.x, W[f.x])  BY <1>2 DEF Shape
  <2>4. ProxyOK(f.x, "ready")'  BY <2>3, <1>2 DEF ProxyOK, DepsMet, Kind, Young, Late
  <2>5. TaskOK(f.x, "ready")'  BY <2>3, <1>2, <2>b DEF TaskOK, DepsMet, Kind, Late
  <2>6. \A s \in Tasks : s # f.x => Calm(W, s)  BY <2>c DEF Calm, DepsMet
  <2>7. \A s \in Tasks : td'[s].parent = td[s].parent  BY DEF DepsMet
  <2> QED  BY <1>2, <2>1, <2>2, <2>4, <2>5, <2>6, <2>7, LawfulOne DEF Places, Young, DepsMet
<1> QED  BY <1>1, <1>2, <1>3, <1>4, <1>5, <1>6, <1>7, <1>8, StepOne DEF DepsMet

----------------------------------------------------------------------------
(* Telling a successor (Notify). *)

\* The head and the tail of a list of tasks.
LEMMA ListFacts ==
    \A s \in Seq(Tasks) : s # <<>> =>
        /\ Len(s) \in Nat /\ Len(s) >= 1 /\ 1 \in 1..Len(s)
        /\ Head(s) = s[1] /\ Head(s) \in Tasks
        /\ Tail(s) \in Seq(Tasks) /\ Len(Tail(s)) = Len(s) - 1
        /\ \A i \in 1..Len(s) - 1 : Tail(s)[i] = s[i + 1]
        /\ \A i \in 1..Len(s) : s[i] \in Tasks
<1> TAKE s \in Seq(Tasks)
<1> HAVE s # <<>>
<1> QED  BY HeadTailProperties

\* The places after a releaser has counted a successor down.
Notified(W, W2, f) ==
    LET s == Head(f.todo)
    IN  W2 = [t \in Tasks |-> IF t = f.task THEN "told"
                              ELSE IF t = s /\ node[s].npred = 1 /\ Kind(s) # "if0" THEN "push"
                              ELSE W[t]]

\* Notify keeps the shape; the last predecessor pushes its successor.
LEMMA NotifyShape ==
    ASSUME NEW W, NEW K, Shape(W, K), NEW th \in Threads, NEW f, f = Top(th), Notify(th),
           node[Head(f.todo)].npred = 1 /\ Kind(Head(f.todo)) # "if0" => W[Head(f.todo)] = "blocked",
           NEW W2, Notified(W, W2, f)
    PROVE  /\ Shape(W2, K)' /\ f.task \in Tasks /\ W[f.task] = "succ" /\ Head(f.todo) \in Tasks
           /\ \E g : SetTop(th, g) /\ Turn(f, g, IF node[Head(f.todo)].npred = 1 THEN "push" ELSE "drop")
<1>0. W \in [Tasks -> Places]  BY DEF Shape
<1>1. f \in FrameRecords /\ LocalOK(f) /\ FrameOK(f, W, K) /\ f.pc = "succ" /\ f.todo # <<>>
  BY TaskFrame DEF Notify, At
<1>2. f.task \in Tasks /\ W[f.task] = "succ"  BY <1>1, TaskFrame DEF Finishing
<1>a. f.todo \in Seq(Tasks) /\ Head(f.todo) \in Tasks  BY <1>1, ListFacts DEF FrameRecords
<1> PICK s \in Tasks : s = Head(f.todo)  BY <1>a
<1> DEFINE woken == node[s].npred = 1
<1> PICK pc : pc = IF woken THEN "push" ELSE "drop"  OBVIOUS
<1>b. pc \in {"push", "drop"} /\ (pc = "push" <=> woken) OBVIOUS
<1> PICK g : Turn(f, g, pc)  BY <1>1, <1>b, Turned DEF Pcs, Finishing
<1>3. SetTop(th, g) /\ Continues(f, g) /\ g \in FrameRecords
  BY <1>1 DEF Notify, Goto, Continues, FrameRecords, Turn
<1>c. /\ g.pc = pc /\ g.task = f.task /\ g.x = f.x /\ g.todo = f.todo /\ g.ip = f.ip
      /\ W2 = [t \in Tasks |-> IF t = f.task THEN "told" ELSE IF t = s /\ woken /\ Kind(s) # "if0" THEN "push" ELSE W[t]]
      /\ woken /\ Kind(s) # "if0" => W[s] = "blocked"
      /\ node' = [node EXCEPT ![s].npred = @ - 1]
  BY DEF Turn, Notified, Notify
<1> HIDE DEF woken
<1>4. LocalOK(g)'
  BY <1>1, <1>2, <1>b, <1>c, TaskNames DEF LocalOK, Bodily, Creating, Proxying, Kind, Notify
<1>d. \A t \in Tasks : Pushes(g, t) => t = s /\ woken /\ Kind(s) # "if0"  BY <1>b, <1>c DEF Pushes
<1>5. FrameOK(g, W2, K)'
  <2>1. \A t \in Tasks : Pushes(g, t)' => W2[t] = "push"
    <3> TAKE t \in Tasks
    <3>1. Pushes(g, t)' <=> Pushes(g, t)  BY DEF Pushes, Kind, Notify
    <3>2. W[f.task] # "blocked"  BY <1>2
    <3> QED  BY <3>1, <3>2, <1>d, <1>c
  <2>2. W2[f.task] = "told"  BY <1>c, <1>2
  <2> QED
    BY <1>b, <1>c, <1>2, <2>1, <2>2 DEF FrameOK, Place, Bodily, Creating
<1>6. HoldsOnly(g, f, W)
  BY <1>1, <1>b, <1>c, <1>d DEF HoldsOnly, Holds, Makes, Creating, Loose
<1>7. Moves(W, K, W2, K, th)  BY <1>c DEF Moves, Holds, Notify, Loose
<1>8. Lawful(W, K, W2, K)
  <2>0. W2 \in [Tasks -> Places] /\ K \in [Tasks -> Tasks \union {None}]  BY <1>0, <1>c DEF Places, Shape
  <2>1. Queued(W2)'
    <3>1. \A t \in Tasks : W[t] = "queue" => W2[t] = "queue"  BY <1>c, <1>2
    <3> QED  BY <3>1, QueuedSame DEF Shape, Types, DataTypes, Notify
  <2>a. node \in [Tasks -> DepnodeRecords]  BY DEF Shape, Types, DataTypes
  <2>b. /\ node' \in [Tasks -> DepnodeRecords]
        /\ node'[s].task = node[s].task /\ node'[s].state = node[s].state /\ node'[s].succ = node[s].succ
    <3> PICK r \in DepnodeRecords : r = node[s]  BY <2>a
    <3> PICK v \in Int : v = r.npred - 1  BY DEF DepnodeRecords
    <3> PICK q : q = [r EXCEPT !.npred = v]  OBVIOUS
    <3>1. q \in DepnodeRecords /\ q.task = r.task /\ q.state = r.state /\ q.succ = r.succ  BY DEF DepnodeRecords
    <3>2. node' = [node EXCEPT ![s] = q]  BY <1>c
    <3> QED  BY <2>a, <3>1, <3>2
  <2>c. \A t \in Tasks : t # s => node'[t] = node[t]  BY <1>c, <2>a
  <2>2. DataTypes'  BY <2>b DEF Shape, Types, DataTypes, Notify
  <2>d. \A t \in Tasks : Calm(W, t)  BY <2>b, <2>c DEF Calm, Notify
  <2>3. Settled(W, W2)
    <3> SUFFICES ASSUME NEW t \in Tasks, W2[t] # W[t] PROVE ProxyOK(t, W2[t])' /\ TaskOK(t, W2[t])'
      BY <2>d DEF Settled
    <3>0. ProxyOK(t, W[t]) /\ TaskOK(t, W[t]) /\ Calm(W, t) /\ Kind(t)' = Kind(t)  BY <2>d DEF Shape, Kind, Notify
    <3>1. CASE t = f.task
      <4>1. W2[t] = "told"  BY <3>1, <1>c
      <4>2. ProxyOK(t, W2[t])'  BY <3>0, <3>1, <4>1, <1>2 DEF ProxyOK, Calm, Late, Young
      <4>3. TaskOK(t, W2[t])'  BY <3>0, <3>1, <4>1, <1>2 DEF TaskOK, Calm, Late
      <4> QED  BY <4>2, <4>3
    <3>2. CASE t # f.task
      <4>1. t = s /\ W[t] = "blocked" /\ W2[t] = "push"  BY <3>2, <1>c
      <4>2. ProxyOK(t, W2[t])'  BY <3>0, <4>1 DEF ProxyOK, Calm, Late, Young
      <4>3. TaskOK(t, W2[t])'  BY <3>0, <4>1 DEF TaskOK, Calm, Late
      <4> QED  BY <4>2, <4>3
    <3> QED  BY <3>1, <3>2
  <2>4. Grows(W, W2)  BY <1>c DEF Grows, Young
  <2>5. Parents(W, W2)  BY <1>c, <1>2 DEF Parents, Notify
  <2>6. ClimbOK(W2, K)'
    <3>1. \A t \in Tasks : W[t] = "gone" => W2[t] = "gone"  BY <1>c, <1>2
    <3>2. \A t \in Tasks : W[t] # "absent" => W2[t] # "absent"  BY <1>c
    <3> QED  BY <2>0, <3>1, <3>2 DEF ClimbOK, Shape
  <2> QED  BY <2>0, <2>1, <2>2, <2>3, <2>4, <2>5, <2>6 DEF Lawful
<1>9. Shape(W2, K)'  BY <1>3, <1>4, <1>5, <1>6, <1>7, <1>8, StepOne DEF Notify
<1>10. SetTop(th, g) /\ Turn(f, g, IF node[Head(f.todo)].npred = 1 THEN "push" ELSE "drop")
  BY <1>3 DEF woken
<1> QED  BY <1>2, <1>9, <1>10

----------------------------------------------------------------------------
(* The fields of a frame at work on a list; linking to a predecessor         *)
(* (Link).                                                                   *)

\* Frames that differ in what is left to be done.
Lists(f, g, pc, todo) ==
    /\ g \in FrameRecords
    /\ g.task = f.task /\ g.ip = f.ip /\ g.pc = pc /\ g.x = f.x /\ g.todo = todo

WithTodo(f, todo) == [f EXCEPT !.todo = todo]
WithCount(f, todo, n) == [f EXCEPT !.todo = todo, !.n = n]
WithDep(f, i, todo) == [f EXCEPT !.dep = i, !.todo = todo]
WithPc(f, pc, todo) == [f EXCEPT !.pc = pc, !.todo = todo]
Counts(g, dep, n) == g.dep = dep /\ g.n = n

\* A frame goes on with another list.
LEMMA ListsTodo ==
    ASSUME NEW f \in FrameRecords, NEW todo \in Seq(Tasks)
    PROVE  Lists(f, WithTodo(f, todo), f.pc, todo) /\ Counts(WithTodo(f, todo), f.dep, f.n)
BY DEF FrameRecords, Lists, Counts, WithTodo

\* A frame goes on with another list and another count.
LEMMA ListsCount ==
    ASSUME NEW f \in FrameRecords, NEW todo \in Seq(Tasks), NEW n \in Nat
    PROVE  Lists(f, WithCount(f, todo, n), f.pc, todo) /\ Counts(WithCount(f, todo, n), f.dep, n)
BY DEF FrameRecords, Lists, Counts, WithCount

\* A frame goes on with another dependence and its list.
LEMMA ListsDep ==
    ASSUME NEW f \in FrameRecords, NEW todo \in Seq(Tasks), NEW i \in Nat
    PROVE  Lists(f, WithDep(f, i, todo), f.pc, todo) /\ Counts(WithDep(f, i, todo), i, f.n)
BY DEF FrameRecords, Lists, Counts, WithDep

\* A frame goes to another control point with another list.
LEMMA ListsPc ==
    ASSUME NEW f \in FrameRecords, NEW todo \in Seq(Tasks), NEW pc \in Pcs
    PROVE  Lists(f, WithPc(f, pc, todo), pc, todo)
BY DEF FrameRecords, Lists, Counts, WithPc

\* A list with one more task in front.
LEMMA Consed ==
    ASSUME NEW x \in Tasks, NEW u \in Seq(Tasks)
    PROVE  /\ <<x>> \o u \in Seq(Tasks) /\ Len(<<x>> \o u) = Len(u) + 1 /\ (<<x>> \o u)[1] = x
           /\ \A i \in 1..Len(u) : (<<x>> \o u)[i + 1] = u[i]
<1>0. <<x>> \in Seq(Tasks)  OBVIOUS
<1> PICK v \in Seq(Tasks) : v = <<x>>  BY <1>0
<1>1. Len(v) = 1 /\ v[1] = x  OBVIOUS
<1>2. /\ v \o u \in Seq(Tasks) /\ Len(v \o u) = Len(v) + Len(u)
      /\ \A i \in 1..Len(v) + Len(u) : (v \o u)[i] = IF i <= Len(v) THEN v[i] ELSE u[i - Len(v)]
  BY ConcatProperties
<1> PICK w \in Seq(Tasks) : w = v \o u  BY <1>2
<1> PICK n \in Nat : n = Len(u)  OBVIOUS
<1>3. Len(w) = n + 1 /\ \A i \in 1..n + 1 : w[i] = IF i <= 1 THEN v[i] ELSE u[i - 1]  BY <1>1, <1>2
<1>4. w[1] = x /\ \A i \in 1..n : w[i + 1] = u[i]  BY <1>1, <1>3
<1> QED  BY <1>3, <1>4

Linked(p, x) == node' = [node EXCEPT ![p].succ = <<x>> \o @, ![x].nrefs = @ + 1]
LinkedFacts(p, x) ==
    /\ node' \in [Tasks -> DepnodeRecords]
    /\ \A t \in Tasks :
         /\ node'[t].task = node[t].task /\ node'[t].npred = node[t].npred /\ node'[t].state = node[t].state
         /\ node'[t].succ = IF t = p THEN <<x>> \o node[t].succ ELSE node[t].succ
         /\ node'[t].nrefs = IF t = x THEN node[t].nrefs + 1 ELSE node[t].nrefs

\* A link puts the new task into the predecessor's list and takes a reference.
LEMMA LinkNode ==
    ASSUME node \in [Tasks -> DepnodeRecords], NEW p \in Tasks, NEW x \in Tasks, p # x, Linked(p, x)
    PROVE  LinkedFacts(p, x)
<1> PICK r \in DepnodeRecords : r = node[p]  OBVIOUS
<1> PICK e \in DepnodeRecords : e = node[x]  OBVIOUS
<1> PICK u \in Seq(Tasks) : u = r.succ  BY DEF DepnodeRecords
<1> PICK s \in Seq(Tasks) : s = <<x>> \o u  BY Consed
<1> PICK n \in Int : n = e.nrefs + 1  BY DEF DepnodeRecords
<1> PICK q : q = [r EXCEPT !.succ = s]  OBVIOUS
<1> PICK o : o = [e EXCEPT !.nrefs = n]  OBVIOUS
<1>1. q \in DepnodeRecords /\ q.task = r.task /\ q.npred = r.npred /\ q.state = r.state /\ q.succ = s /\ q.nrefs = r.nrefs
  BY DEF DepnodeRecords
<1>2. o \in DepnodeRecords /\ o.task = e.task /\ o.npred = e.npred /\ o.state = e.state /\ o.succ = e.succ /\ o.nrefs = n
  BY DEF DepnodeRecords
<1>3. node' = [node EXCEPT ![p] = q, ![x] = o]  BY DEF Linked
<1>4. node' \in [Tasks -> DepnodeRecords] /\ node'[p] = q /\ node'[x] = o
      /\ \A t \in Tasks : t # p /\ t # x => node'[t] = node[t]
  BY <1>1, <1>2, <1>3
<1> QED  BY <1>1, <1>2, <1>4, Zenon DEF LinkedFacts

\* Link keeps the shape; the list of candidates is one shorter.
LEMMA LinkShape ==
    ASSUME NEW W, NEW K, Shape(W, K), NEW th \in Threads, NEW f, f = Top(th), Link(th)
    PROVE  /\ Shape(W, K)' /\ f.pc = "link" /\ f.x \in Tasks /\ W[f.x] = "linking" /\ f.todo # <<>> /\ Head(f.todo) \in Tasks
           /\ IF node[Head(f.todo)].task THEN LinkedFacts(Head(f.todo), f.x) /\ Head(f.todo) # f.x ELSE node' = node
           /\ \E g : /\ SetTop(th, g) /\ Lists(f, g, f.pc, Tail(f.todo)) /\ g.dep = f.dep
                     /\ g.n = IF node[Head(f.todo)].task THEN f.n + 1 ELSE f.n
<1>1. f \in FrameRecords /\ LocalOK(f) /\ FrameOK(f, W, K) /\ f.pc = "link" /\ f.todo # <<>>
  BY TaskFrame DEF Link, At
<1>2. f.x \in Tasks /\ W[f.x] = "linking"  BY <1>1, TaskFrame DEF Creating, Making
<1>a. f.todo \in Seq(Tasks) /\ Head(f.todo) \in Tasks /\ Tail(f.todo) \in Seq(Tasks) /\ f.n \in Nat
  BY <1>1, ListFacts DEF FrameRecords
<1> PICK p \in Tasks : p = Head(f.todo)  BY <1>a
<1>b. \E g : /\ SetTop(th, g) /\ Lists(f, g, f.pc, Tail(f.todo)) /\ g.dep = f.dep
             /\ g.n = IF node[p].task THEN f.n + 1 ELSE f.n
  <2> PICK todo \in Seq(Tasks) : todo = Tail(f.todo)  BY <1>a
  <2> PICK n \in Nat : n = f.n + 1  BY <1>a
  <2>1. CASE node[p].task
    <3> PICK g : g = WithCount(f, todo, n)  OBVIOUS
    <3>1. SetTop(th, g)  BY <2>1 DEF Link, WithCount
    <3>0. f \in FrameRecords  BY <1>1
    <3>a. Lists(f, WithCount(f, todo, n), f.pc, todo)  BY <3>0, ListsCount
    <3>b. Counts(WithCount(f, todo, n), f.dep, n)  BY <3>0, ListsCount
    <3>2. Lists(f, g, f.pc, todo) /\ g.dep = f.dep /\ g.n = n  BY <3>a, <3>b DEF Counts
    <3> QED  BY <2>1, <3>1, <3>2
  <2>2. CASE ~node[p].task
    <3> PICK g : g = WithTodo(f, todo)  OBVIOUS
    <3>1. SetTop(th, g)  BY <2>2 DEF Link, WithTodo
    <3>2. Lists(f, g, f.pc, todo) /\ g.dep = f.dep /\ g.n = f.n  BY <1>1, ListsTodo, Zenon DEF Counts
    <3> QED  BY <2>2, <3>1, <3>2
  <2> QED  BY <2>1, <2>2
<1> PICK g : SetTop(th, g) /\ Lists(f, g, f.pc, Tail(f.todo)) /\ g.dep = f.dep  BY <1>b
<1>3. Continues(f, g) /\ g \in FrameRecords  BY <1>1 DEF Continues, FrameRecords, Lists
<1>k. \A t : Kept(t)' = Kept(t) /\ Kind(t)' = Kind(t)  BY DEF Kept, Kind, Link
<1>4. LocalOK(g)'
  BY <1>1, <1>2, <1>k, TaskNames DEF LocalOK, Bodily, Creating, Proxying, Link, Lists
<1>5. FrameOK(g, W, K)'
  BY <1>1, <1>2 DEF FrameOK, Place, Making, Pushes, Bodily, Creating, Link, Lists
<1>6. HoldsOnly(g, f, W)  BY <1>1 DEF HoldsOnly, Holds, Makes, Pushes, Creating, Lists
<1>7. Moves(W, K, W, K, th)  BY MovesNone DEF Link
<1>c. IF node[p].task THEN LinkedFacts(p, f.x) /\ p # f.x ELSE node' = node
  <2>1. CASE ~node[p].task  BY <2>1 DEF Link
  <2>2. CASE node[p].task
    <3>1. p # f.x  BY <1>2, <2>2 DEF Shape, TaskOK
    <3>2. Linked(p, f.x)  BY <2>2 DEF Link, Linked
    <3> QED  BY <1>2, <2>2, <3>1, <3>2, LinkNode DEF Shape, Types, DataTypes
  <2> QED  BY <2>1, <2>2
<1>8. Lawful(W, K, W, K)
  <2>1. node' \in [Tasks -> DepnodeRecords]  BY <1>c DEF Shape, Types, DataTypes, LinkedFacts
  <2>2. DataTypes'  BY <2>1 DEF Shape, Types, DataTypes, Link
  <2>3. \A t \in Tasks : Calm(W, t) \/ (ProxyOK(t, W[t])' /\ TaskOK(t, W[t])')
    <3> TAKE t \in Tasks
    <3>1. CASE node' = node  BY <3>1 DEF Calm, Link
    <3>2. CASE t # p /\ LinkedFacts(p, f.x)  BY <3>2 DEF Calm, Link, LinkedFacts
    <3>3. CASE t = p /\ LinkedFacts(p, f.x) /\ node[p].task
      <4>1. ProxyOK(t, W[t]) /\ TaskOK(t, W[t]) /\ Kind(t)' = Kind(t)  BY DEF Shape, Kind, Link
      <4>2. ProxyOK(t, W[t])'  BY <4>1 DEF ProxyOK, Link
      <4>3. TaskOK(t, W[t])'  BY <4>1, <3>3, Zenon DEF TaskOK, Link, LinkedFacts
      <4> QED  BY <4>2, <4>3
    <3> QED  BY <1>c, <3>1, <3>2, <3>3
  <2>4. \A s \in Tasks : td'[s].parent = td[s].parent  BY DEF Link
  <2> QED  BY <2>2, <2>3, <2>4, LawfulSame DEF Link
<1>9. Shape(W, K)'  BY <1>3, <1>4, <1>5, <1>6, <1>7, <1>8, StepOne DEF Link
<1> QED  BY <1>1, <1>2, <1>9, <1>a, <1>b, <1>c

----------------------------------------------------------------------------
(* Entering a dependence into the hash (Enter). *)

\* An element of a sequence over a set is in the set.
LEMMA ElementOf == ASSUME NEW S, NEW s \in Seq(S), NEW i \in 1..Len(s) PROVE s[i] \in S
OBVIOUS

\* A dependence that is kept.
LEMMA DepFacts ==
    ASSUME Types, NEW t \in Tasks, NEW i \in Kept(t)
    PROVE  /\ Dep(t, i).addr \in Addrs /\ Dep(t, i).out \in BOOLEAN /\ i \in Nat /\ i >= 1
           /\ Dep(t, i).addr = prog.deps[t][i].addr /\ i \in 1..Len(prog.deps[t])
<1>1. prog.deps[t] \in Seq([addr : Addrs, out : BOOLEAN])  BY ProgramFacts
<1>2. i \in 1..Len(prog.deps[t])  BY DEF Kept
<1> PICK s \in Seq([addr : Addrs, out : BOOLEAN]) : s = prog.deps[t]  BY <1>1
<1>a. i \in 1..Len(s)  BY <1>2
<1>3. s[i] \in [addr : Addrs, out : BOOLEAN]  BY <1>a, ElementOf
<1>b. prog.deps[t][i].addr \in Addrs  BY <1>3
<1>4. Len(prog.deps[t]) \in Nat  BY <1>1
<1>5. Dep(t, i).addr = prog.deps[t][i].addr /\ Dep(t, i).out \in BOOLEAN  BY DEF Dep
<1>6. i \in Nat /\ i >= 1  BY <1>2, <1>4
<1> QED  BY <1>2, <1>b, <1>5, <1>6

\* The candidates for predecessor are named by the hash entry.
LEMMA CandidatesType ==
    ASSUME NEW h \in [Addrs -> Entries], NEW d, d.addr \in Addrs
    PROVE  /\ Candidates(h, d) \in Seq(Tasks)
           /\ \A k \in 1..Len(Candidates(h, d)) : Names(h[d.addr], Candidates(h, d)[k])
<1> PICK e \in Entries : e = h[d.addr]  OBVIOUS
<1>1. CASE Candidates(h, d) = e.ins  BY <1>1 DEF Entries, Names
<1>2. CASE e.out # None /\ Candidates(h, d) = <<e.out>>
  <2>1. e.out \in Tasks  BY <1>2 DEF Entries
  <2>2. <<e.out>> \in Seq(Tasks) /\ Len(<<e.out>>) = 1 /\ <<e.out>>[1] = e.out  BY <2>1
  <2> QED  BY <1>2, <2>2 DEF Names
<1>3. CASE Candidates(h, d) = <<>>  BY <1>3
<1> QED  BY <1>1, <1>2, <1>3 DEF Candidates

\* An entry names who it named before and the task entered.
LEMMA EnteredType ==
    ASSUME NEW e \in Entries, NEW d, NEW t \in Tasks
    PROVE  /\ Entered(e, d, t) \in Entries
           /\ \A s \in Tasks : Names(Entered(e, d, t), s) => Names(e, s) \/ (s = t /\ Kind(t) # "if0")
<1>1. e.out \in Tasks \union {None} /\ e.ins \in Seq(Tasks)  BY DEF Entries
<1> PICK n : n = Entered(e, d, t)  OBVIOUS
<1>a. <<>> \in Seq(Tasks)  OBVIOUS
<1>b. (IF d.out THEN <<>> ELSE e.ins) \in Seq(Tasks)  BY <1>1, <1>a
<1> PICK ins \in Seq(Tasks) : ins = IF d.out THEN <<>> ELSE e.ins  BY <1>b
<1>2. CASE n = [out |-> None, ins |-> ins]
  <2>1. n \in Entries /\ n.out = None /\ n.ins = ins  BY <1>2 DEF Entries
  <2> QED  BY <2>1, TaskNames DEF Names
<1>3. CASE n = [out |-> t, ins |-> ins] /\ Kind(t) # "if0"
  <2>1. n \in Entries /\ n.out = t /\ n.ins = ins  BY <1>3 DEF Entries
  <2> QED  BY <1>3, <2>1 DEF Names
<1>4. CASE n = [out |-> e.out, ins |-> <<t>> \o ins] /\ Kind(t) # "if0" /\ ins = e.ins
  <2> PICK m \in Seq(Tasks) : m = <<t>> \o ins  BY Consed
  <2>1. n \in Entries /\ n.out = e.out /\ n.ins = m  BY <1>4, <1>1 DEF Entries
  <2>2. Len(m) = Len(ins) + 1 /\ m[1] = t /\ \A i \in 1..Len(ins) : m[i + 1] = ins[i]  BY Consed
  <2>3. \A i \in 1..Len(m) : m[i] = t \/ \E k \in 1..Len(ins) : m[i] = ins[k]
    <3> TAKE i \in 1..Len(m)
    <3> PICK l \in Nat : l = Len(ins)  OBVIOUS
    <3>1. i \in 1..l + 1  BY <2>2
    <3>2. CASE i = 1  BY <3>2, <2>2
    <3>3. CASE i - 1 \in 1..l
      <4> PICK k \in 1..l : k = i - 1  BY <3>3
      <4>1. m[k + 1] = ins[k] /\ k + 1 = i  BY <2>2, <3>1
      <4> QED  BY <4>1
    <3> QED  BY <3>1, <3>2, <3>3
  <2> QED  BY <1>4, <2>1, <2>3, Zenon DEF Names
<1> QED  BY <1>2, <1>3, <1>4 DEF Entered

\* What Enter does to the hash and to the nodes.
EnterFacts(f) ==
    LET d == Dep(f.x, f.dep)
        h == hash[f.task]
        new == Entered(h[d.addr], d, f.x)
    IN  /\ h \in [Addrs -> Entries] /\ d.addr \in Addrs /\ new \in Entries
        /\ hash' = [hash EXCEPT ![f.task] = [h EXCEPT ![d.addr] = new]]
        /\ node' \in [Tasks -> DepnodeRecords]
        /\ \A t \in Tasks :
             Derefed(node[t], Cardinality(Uses(h[d.addr], t)) - Cardinality(Uses(new, t)), node'[t])

\* Where Enter goes on.
EnterGoes(f, g) ==
    \/ g.pc = "count" /\ g.todo = <<>>
    \/ /\ g.pc = "link" /\ g.dep \in Kept(f.x)
       /\ \A k \in 1..Len(g.todo) : Names(hash'[f.task][Dep(f.x, g.dep).addr], g.todo[k])

\* What Enter writes.
LEMMA EnterData ==
    ASSUME NEW W, NEW K, Shape(W, K), NEW th \in Threads, NEW f, f = Top(th), Enter(th), hash[f.task] # Null
    PROVE  EnterFacts(f)
<1>1. f \in FrameRecords /\ LocalOK(f) /\ f.pc = "link" /\ f.x \in Tasks /\ f.task \in Descriptors
  BY TaskFrame, Zenon DEF Enter, At, Creating
<1>0. /\ hash \in [Descriptors -> [Addrs -> Entries] \union {Null}] /\ node \in [Tasks -> DepnodeRecords] /\ Types
  BY DEF Shape, Types, DataTypes
<1>2. f.dep \in Kept(f.x)  BY <1>1 DEF LocalOK
<1> PICK d : d = Dep(f.x, f.dep)  OBVIOUS
<1>3. d.addr \in Addrs  BY <1>0, <1>1, <1>2, DepFacts
<1> PICK h \in [Addrs -> Entries] : h = hash[f.task]  BY <1>0, <1>1
<1> PICK e \in Entries : e = h[d.addr]  BY <1>3
<1> PICK new \in Entries : new = Entered(e, d, f.x)  BY <1>1, EnteredType
<1>4. hash' = [hash EXCEPT ![f.task] = [h EXCEPT ![d.addr] = new]]  BY Zenon DEF Enter
<1>5. node' = [t \in Tasks |-> Deref(node[t], Cardinality(Uses(e, t)) - Cardinality(Uses(new, t)))]
  BY Zenon DEF Enter
<1>6. \A t \in Tasks : Cardinality(Uses(e, t)) - Cardinality(Uses(new, t)) \in Int  BY UsesFinite
<1>7. ASSUME NEW t \in Tasks
      PROVE  Derefed(node[t], Cardinality(Uses(e, t)) - Cardinality(Uses(new, t)), node'[t])
  <2> PICK k : k \in Int /\ k = Cardinality(Uses(e, t)) - Cardinality(Uses(new, t))  BY <1>6
  <2>1. Derefed(node[t], k, Deref(node[t], k))  BY <1>0, DerefFacts, Zenon
  <2>2. node'[t] = Deref(node[t], k)  BY <1>5, Zenon
  <2> QED  BY <2>1, <2>2, Zenon
<1>8. node' \in [Tasks -> DepnodeRecords]
  <2>1. \A t \in Tasks : node'[t] \in DepnodeRecords  BY <1>7 DEF Derefed
  <2>2. node' = [t \in Tasks |-> node'[t]]  BY <1>5
  <2> HIDE <1>5
  <2> QED  BY <2>1, <2>2
<1> HIDE <1>5
<1> QED  BY <1>3, <1>4, <1>7, <1>8 DEF EnterFacts

\* The difference of two natural numbers.
LEMMA DifferenceType == \A m, n \in Nat : m - n \in Int /\ (m = 0 => m - n <= 0)
OBVIOUS

\* Enter keeps the shape; the next dependence is looked up or all are counted.
LEMMA EnterShape ==
    ASSUME NEW W, NEW K, Shape(W, K), NEW th \in Threads, NEW f, f = Top(th), Enter(th), hash[f.task] # Null, HashPresent(f.task)
    PROVE  /\ Shape(W, K)' /\ f.pc = "link" /\ f.x \in Tasks /\ W[f.x] = "linking" /\ f.todo = <<>> /\ EnterFacts(f)
           /\ \E g : SetTop(th, g) /\ Lists(f, g, g.pc, g.todo) /\ EnterGoes(f, g) /\ g.n = f.n
<1>1. f \in FrameRecords /\ LocalOK(f) /\ FrameOK(f, W, K) /\ f.pc = "link" /\ f.todo = <<>>
  BY TaskFrame, Zenon DEF Enter, At
<1>2. f.x \in Tasks /\ W[f.x] = "linking" /\ f.task \in Descriptors /\ f.dep \in Kept(f.x)
  BY <1>1, TaskFrame DEF Creating, Making, LocalOK
<1>e. EnterFacts(f)  BY EnterData
<1>0. Types  BY DEF Shape
<1>b. \E g : SetTop(th, g) /\ Lists(f, g, g.pc, g.todo) /\ EnterGoes(f, g) /\ g.n = f.n
  <2>1. CASE Goto(th, "count")
    <3> PICK g : Turn(f, g, "count")  BY <1>1, Turned DEF Pcs, Bodily, Creating
    <3>1. SetTop(th, g)  BY <2>1 DEF Goto, Turn
    <3>2. Lists(f, g, g.pc, g.todo) /\ EnterGoes(f, g) /\ g.n = f.n  BY <1>1 DEF Lists, Turn, EnterGoes
    <3> QED  BY <3>1, <3>2
  <2>2. CASE \E i \in Kept(f.x) : SetTop(th, [f EXCEPT !.dep = i, !.todo = Candidates(hash'[f.task], Dep(f.x, i))])
    <3> PICK i \in Kept(f.x) : SetTop(th, [f EXCEPT !.dep = i, !.todo = Candidates(hash'[f.task], Dep(f.x, i))])
      BY <2>2
    <3> PICK h : h = hash'[f.task]  OBVIOUS
    <3>1. h \in [Addrs -> Entries]
      <4>1. hash \in [Descriptors -> [Addrs -> Entries] \union {Null}]  BY <1>0 DEF Types, DataTypes
      <4> QED  BY <1>2, <1>e, <4>1 DEF EnterFacts
    <3>2. Dep(f.x, i).addr \in Addrs /\ i \in Nat  BY <1>0, <1>2, DepFacts
    <3> PICK todo : todo = Candidates(h, Dep(f.x, i))  OBVIOUS
    <3>3. todo \in Seq(Tasks) /\ \A k \in 1..Len(todo) : Names(h[Dep(f.x, i).addr], todo[k])
      BY <3>1, <3>2, CandidatesType
    <3> PICK g : g = WithDep(f, i, todo)  OBVIOUS
    <3>4. SetTop(th, g)  BY DEF WithDep
    <3>5. Lists(f, WithDep(f, i, todo), f.pc, todo) /\ Counts(WithDep(f, i, todo), i, f.n)  BY <1>1, <3>2, <3>3, ListsDep
    <3>6. Lists(f, g, f.pc, todo) /\ g.dep = i /\ g.n = f.n  BY <3>5 DEF Counts
    <3>7. g.todo = todo /\ g.pc = "link" /\ Lists(f, g, g.pc, g.todo)  BY <3>6, <1>1 DEF Lists
    <3>8. EnterGoes(f, g)  BY <3>3, <3>6, <3>7 DEF EnterGoes
    <3> QED  BY <3>4, <3>6, <3>7, <3>8
  <2> QED  BY <2>1, <2>2, Zenon DEF Enter
<1> PICK g : SetTop(th, g) /\ Lists(f, g, g.pc, g.todo) /\ EnterGoes(f, g)  BY <1>b
<1>c. g.pc \in {"link", "count"} /\ (g.pc = "link" => g.dep \in Kept(f.x)) /\ (g.pc = "count" => g.todo = <<>>)
      /\ g.x = f.x /\ g.task = f.task /\ g.ip = f.ip
  BY DEF EnterGoes, Lists
<1>3. Continues(f, g) /\ g \in FrameRecords  BY <1>1 DEF Continues, FrameRecords, Lists
<1>k. \A t : Kept(t)' = Kept(t) /\ Kind(t)' = Kind(t)  BY Zenon DEF Kept, Kind, Enter
<1>4. LocalOK(g)'
  BY <1>1, <1>2, <1>c, <1>k, TaskNames, Zenon DEF LocalOK, Bodily, Creating, Proxying, Enter
<1>5. FrameOK(g, W, K)'
  BY <1>1, <1>2, <1>c, Zenon DEF FrameOK, Place, Making, Pushes, Bodily, Creating, Enter
<1>6. HoldsOnly(g, f, W)  BY <1>1, <1>c DEF HoldsOnly, Holds, Makes, Pushes, Creating
<1>7. Moves(W, K, W, K, th)  BY MovesNone, Zenon DEF Enter
<1>8. Lawful(W, K, W, K)
  <2>0. hash \in [Descriptors -> [Addrs -> Entries] \union {Null}] /\ td \in [Descriptors -> TaskdataRecords]
    BY <1>0 DEF Types, DataTypes
  <2>1. hash' \in [Descriptors -> [Addrs -> Entries] \union {Null}]  BY <2>0, <1>2, <1>e DEF EnterFacts
  <2>2. DataTypes'  BY <2>1, <1>e, Zenon DEF Shape, Types, DataTypes, Enter, EnterFacts
  <2>3. \A t \in Tasks : NodeAlike(t)
    <3> TAKE t \in Tasks
    <3> PICK d : d = Dep(f.x, f.dep)  OBVIOUS
    <3> PICK e \in Entries : e = hash[f.task][d.addr]  BY <1>e DEF EnterFacts
    <3> PICK new \in Entries : new = Entered(e, d, f.x)  BY <1>e DEF EnterFacts
    <3>1. Derefed(node[t], Cardinality(Uses(e, t)) - Cardinality(Uses(new, t)), node'[t])  BY <1>e DEF EnterFacts
    <3>2. Cardinality(Uses(e, t)) \in Nat /\ Cardinality(Uses(new, t)) \in Nat  BY UsesFinite
    <3>3. node[t].state = "absent" => Cardinality(Uses(e, t)) = 0
      <4>1. d.addr \in Addrs  BY <1>e DEF EnterFacts
      <4>2. node[t].state = "absent" => ~Names(e, t)  BY <4>1 DEF HashPresent
      <4> QED  BY <4>2, UsesFinite
    <3> PICK k : k \in Int /\ k = Cardinality(Uses(e, t)) - Cardinality(Uses(new, t))  BY <3>2, DifferenceType
    <3>4. Derefed(node[t], k, node'[t])  BY <3>1, Zenon
    <3>5. node[t].state = "absent" => k <= 0  BY <3>2, <3>3, DifferenceType
    <3> QED  BY <3>4, <3>5, DerefedAlike, Zenon
  <2>4. SameTd  BY <2>0, TdUnchanged, Zenon DEF Enter
  <2>5. \A s \in Tasks : Calm(W, s) /\ td'[s].parent = td[s].parent
    BY <2>3, <2>4, CalmFrom, Zenon DEF SameTd, Descriptors, Enter, TdAlike
  <2> QED  BY <2>2, <2>5, LawfulSame, Zenon DEF Enter
<1>9. Shape(W, K)'  BY <1>3, <1>4, <1>5, <1>6, <1>7, <1>8, StepOne, Zenon DEF Enter
<1> QED  BY <1>1, <1>2, <1>9, <1>b, <1>e

----------------------------------------------------------------------------
(* Freeing the hash of a task that ends (EndImplicit, Release). *)

\* What dropping the hash h does to the nodes, beside their names.
HashFreed(h) ==
    /\ node' \in [Tasks -> DepnodeRecords]
    /\ \A t \in Tasks :
         /\ UsesOf(h, t) \in Nat
         /\ node'[t].npred = node[t].npred /\ node'[t].succ = node[t].succ
         /\ node'[t].nrefs = node[t].nrefs - UsesOf(h, t)
         /\ node'[t].state = IF UsesOf(h, t) > 0 /\ node[t].nrefs = UsesOf(h, t) THEN "freed" ELSE node[t].state

\* What EndImplicit writes to the nodes.
LEMMA EndImplicitNode ==
    ASSUME Types, NEW th \in Threads, EndImplicit(th), NEW d \in Descriptors, d = Top(th).task
    PROVE  HashFreed(hash[d]) /\ \A t \in Tasks : node'[t].task = node[t].task
<1>0. node \in [Tasks -> DepnodeRecords] /\ (hash[d] \in [Addrs -> Entries] \/ hash[d] = Null)
  BY DEF Types, DataTypes
<1> PICK h : h = hash[d]  OBVIOUS
<1>1. node' = FreeHash(h)  BY DEF EndImplicit
<1>2. /\ FreeHash(h) \in [Tasks -> DepnodeRecords]
      /\ \A t \in Tasks : UsesOf(h, t) \in Nat /\ Derefed(node[t], UsesOf(h, t), FreeHash(h)[t])
  BY <1>0, FreeHashFacts
<1> QED  BY <1>1, <1>2 DEF HashFreed, Derefed

\* What Release writes to the nodes.
LEMMA ReleaseNode ==
    ASSUME Types, NEW th \in Threads, Release(th), NEW d \in Tasks, d = Top(th).task
    PROVE  /\ HashFreed(hash[d])
           /\ \A t \in Tasks : node'[t].task = IF t = d /\ td[d].node THEN FALSE ELSE node[t].task
<1>0. node \in [Tasks -> DepnodeRecords] /\ (hash[d] \in [Addrs -> Entries] \/ hash[d] = Null)
  BY DEF Types, DataTypes, Descriptors
<1> PICK h : h = hash[d]  OBVIOUS
<1>2. /\ FreeHash(h) \in [Tasks -> DepnodeRecords]
      /\ \A t \in Tasks : UsesOf(h, t) \in Nat /\ Derefed(node[t], UsesOf(h, t), FreeHash(h)[t])
  BY <1>0, FreeHashFacts
<1> PICK n \in [Tasks -> DepnodeRecords] : n = FreeHash(h)  BY <1>2
<1>3. CASE ~td[d].node
  <2>1. node' = n  BY <1>3 DEF Release
  <2> QED  BY <1>2, <1>3, <2>1 DEF HashFreed, Derefed
<1>4. CASE td[d].node
  <2>1. node' = [n EXCEPT ![d].task = FALSE]  BY <1>4 DEF Release
  <2> PICK r \in DepnodeRecords : r = n[d]  OBVIOUS
  <2> PICK q : q = [r EXCEPT !.task = FALSE]  OBVIOUS
  <2>2. q \in DepnodeRecords /\ q.state = r.state /\ q.task = FALSE /\ q.npred = r.npred /\ q.nrefs = r.nrefs /\ q.succ = r.succ
    BY Zenon DEF DepnodeRecords
  <2>3. node' = [n EXCEPT ![d] = q]  BY <2>1
  <2>4. node' \in [Tasks -> DepnodeRecords] /\ node'[d] = q /\ \A t \in Tasks : t # d => node'[t] = n[t]  BY <2>2, <2>3
  <2>5. \A t \in Tasks : /\ node'[t].npred = n[t].npred /\ node'[t].succ = n[t].succ /\ node'[t].nrefs = n[t].nrefs
                         /\ node'[t].state = n[t].state /\ (t # d => node'[t].task = n[t].task)
    <3> TAKE t \in Tasks
    <3>1. CASE t = d
      <4>1. node'[t] = q /\ n[t] = r  BY <3>1, <2>4
      <4> QED  BY <3>1, <4>1, <2>2
    <3>2. CASE t # d
      <4>1. node'[t] = n[t]  BY <3>2, <2>4
      <4> QED  BY <4>1
    <3> QED  BY <3>1, <3>2
  <2>6. \A t \in Tasks : UsesOf(h, t) \in Nat /\ Derefed(node[t], UsesOf(h, t), n[t])  BY <1>2
  <2> HIDE <2>1, <2>3
  <2>7. HashFreed(h)
    <3> SUFFICES ASSUME NEW t \in Tasks
                 PROVE  /\ UsesOf(h, t) \in Nat
                        /\ node'[t].npred = node[t].npred /\ node'[t].succ = node[t].succ
                        /\ node'[t].nrefs = node[t].nrefs - UsesOf(h, t)
                        /\ node'[t].state = IF UsesOf(h, t) > 0 /\ node[t].nrefs = UsesOf(h, t) THEN "freed" ELSE node[t].state
      BY <2>4 DEF HashFreed
    <3>1. UsesOf(h, t) \in Nat /\ Derefed(node[t], UsesOf(h, t), n[t])  BY <2>6
    <3> QED  BY <3>1, <2>5 DEF Derefed
  <2>8. \A t \in Tasks : node'[t].task = IF t = d THEN FALSE ELSE node[t].task
    <3> TAKE t \in Tasks
    <3>1. Derefed(node[t], UsesOf(h, t), n[t])  BY <2>6
    <3>2. CASE t = d  BY <3>2, <2>2, <2>4
    <3>3. CASE t # d
      <4>1. node'[t].task = n[t].task  BY <3>3, <2>5
      <4> QED  BY <3>1, <3>3, <4>1 DEF Derefed
    <3> QED  BY <3>2, <3>3
  <2> QED  BY <1>4, <2>7, <2>8
<1> QED  BY <1>3, <1>4

\* Nodes stay absent or there when a hash is dropped.
LEMMA HashFreedAlike ==
    ASSUME NEW h, h \in [Addrs -> Entries] \/ h = Null, HashFreed(h), NEW t \in Tasks,
           h # Null => \A a \in Addrs : Names(h[a], t) => node[t].state # "absent"
    PROVE  node'[t].succ = node[t].succ /\ (node'[t].state = "absent" <=> node[t].state = "absent")
<1>1. node[t].state = "absent" => UsesOf(h, t) = 0  BY HashUsesFinite DEF UsesOf
<1> QED  BY <1>1 DEF HashFreed

\* Release keeps the shape; the task goes on to tell its successors.
LEMMA ReleaseShape ==
    ASSUME NEW W, NEW K, Shape(W, K), NEW th \in Threads, NEW f, f = Top(th), Release(th), HashPresent(f.task),
           NEW W2, W2 = [W EXCEPT ![f.task] = "succ"]
    PROVE  /\ Shape(W2, K)' /\ f.task \in Tasks /\ W[f.task] = "release"
           /\ \E g : SetTop(th, g) /\ Lists(f, g, "succ", IF td[f.task].node THEN node[f.task].succ ELSE <<>>)
<1>0. W \in [Tasks -> Places]  BY DEF Shape
<1>1. f \in FrameRecords /\ LocalOK(f) /\ FrameOK(f, W, K) /\ f.pc = "release"  BY TaskFrame DEF Release, At
<1>2. f.task \in Tasks /\ W[f.task] = "release"  BY <1>1, TaskFrame DEF Finishing
<1>a. /\ node \in [Tasks -> DepnodeRecords] /\ hash \in [Descriptors -> [Addrs -> Entries] \union {Null}]
      /\ td \in [Descriptors -> TaskdataRecords] /\ Types
  BY DEF Shape, Types, DataTypes
<1>b. node[f.task].succ \in Seq(Tasks) /\ <<>> \in Seq(Tasks)  BY <1>2, <1>a DEF DepnodeRecords
<1> PICK todo \in Seq(Tasks) : todo = IF td[f.task].node THEN node[f.task].succ ELSE <<>>  BY <1>b
<1> PICK g : g = WithPc(f, "succ", todo)  OBVIOUS
<1>c. SetTop(th, g)  BY DEF Release, WithPc
<1>d. Lists(f, g, "succ", todo)  BY <1>1, ListsPc DEF Pcs, Finishing
<1>3. Continues(f, g) /\ g \in FrameRecords  BY <1>1, <1>d DEF Continues, FrameRecords, Lists
<1>4. LocalOK(g)'
  BY <1>1, <1>2, <1>d, TaskNames, Zenon DEF LocalOK, Bodily, Creating, Proxying, Kind, Release, Lists
<1>5. FrameOK(g, W2, K)'
  BY <1>0, <1>1, <1>2, <1>d, Zenon DEF FrameOK, Place, Pushes, Bodily, Creating, Lists
<1>6. HoldsOnly(g, f, W)  BY <1>1, <1>d DEF HoldsOnly, Holds, Makes, Pushes, Creating, Lists
<1>7. Moves(W, K, W2, K, th)  BY <1>0, MovesOne, Zenon DEF Holds, Release
<1>8. Lawful(W, K, W2, K)
  <2>1. Queued(W2)'  BY <1>2, QueuedSame DEF Shape, Types, DataTypes, Release
  <2>2. /\ HashFreed(hash[f.task])
        /\ \A t \in Tasks : node'[t].task = IF t = f.task /\ td[f.task].node THEN FALSE ELSE node[t].task
    BY <1>a, <1>2, ReleaseNode
  <2>3. hash' = [hash EXCEPT ![f.task] = Null]  BY DEF Release
  <2>4. hash' \in [Descriptors -> [Addrs -> Entries] \union {Null}]  BY <1>a, <2>3, Zenon
  <2>5. DataTypes'  BY <2>2, <2>4 DEF Shape, Types, DataTypes, Release, HashFreed
  <2>6. ASSUME NEW s \in Tasks
        PROVE  node'[s].succ = node[s].succ /\ (node'[s].state = "absent" <=> node[s].state = "absent")
    <3> PICK h : h = hash[f.task]  OBVIOUS
    <3>1. h \in [Addrs -> Entries] \/ h = Null  BY <1>a, <1>2 DEF Descriptors
    <3>2. h # Null => \A a \in Addrs : Names(h[a], s) => node[s].state # "absent"  BY DEF HashPresent
    <3>3. HashFreed(h)  BY <2>2
    <3> QED  BY <3>1, <3>2, <3>3, HashFreedAlike
  <2>7. ProxyOK(f.task, W[f.task]) /\ TaskOK(f.task, W[f.task])  BY <1>2 DEF Shape
  <2>8. ProxyOK(f.task, "succ")'  BY <2>7, <1>2 DEF ProxyOK, Release, Kind, Young, Late
  <2>9. TaskOK(f.task, "succ")'
    <3>1. td' = td /\ proxy' = proxy /\ Kind(f.task)' = Kind(f.task)  BY DEF Release, Kind
    <3>2. node'[f.task].succ = node[f.task].succ /\ (node'[f.task].state = "absent" <=> node[f.task].state = "absent")
      BY <2>6, <1>2
    <3>3. ~node'[f.task].task  BY <2>2, <2>7, <1>2, Zenon DEF TaskOK
    <3> QED  BY <2>7, <1>2, <3>1, <3>2, <3>3 DEF TaskOK, Late
  <2>10. \A s \in Tasks : s # f.task => Calm(W, s)
    <3> TAKE s \in Tasks
    <3> HAVE s # f.task
    <3> QED  BY <2>2, <2>6, Zenon DEF Calm, Release
  <2>11. \A s \in Tasks : td'[s].parent = td[s].parent  BY DEF Release
  <2> QED  BY <1>2, <2>1, <2>5, <2>8, <2>9, <2>10, <2>11, LawfulOne, Zenon DEF Places, Young, Release
<1>9. Shape(W2, K)'  BY <1>c, <1>3, <1>4, <1>5, <1>6, <1>7, <1>8, StepOne DEF Release
<1> QED  BY <1>2, <1>c, <1>d, <1>9

----------------------------------------------------------------------------
(* Letting go of a successor's node, and of the own one (Drop, Released). *)

\* Dropping one reference touches one node.
LEMMA DerefWrites ==
    ASSUME node \in [Tasks -> DepnodeRecords], NEW s \in Tasks, node' = [node EXCEPT ![s] = Deref(@, 1)]
    PROVE  /\ node' \in [Tasks -> DepnodeRecords] /\ Derefed(node[s], 1, node'[s])
           /\ \A t \in Tasks : t # s => node'[t] = node[t]
<1>1. Derefed(node[s], 1, Deref(node[s], 1))  BY DerefFacts
<1> PICK q : q = Deref(node[s], 1)  OBVIOUS
<1>2. node' = [node EXCEPT ![s] = q]  OBVIOUS
<1>3. q \in DepnodeRecords  BY <1>1 DEF Derefed
<1>4. node'[s] = q /\ \A t \in Tasks : t # s => node'[t] = node[t]  BY <1>2
<1>5. node' \in [Tasks -> DepnodeRecords]  BY <1>2, <1>3
<1> QED  BY <1>1, <1>4, <1>5

\* Drop keeps the shape; the task goes on to the next successor.
LEMMA DropShape ==
    ASSUME NEW W, NEW K, Shape(W, K), NEW th \in Threads, NEW f, f = Top(th), Drop(th),
           node[Head(f.todo)].state # "absent",
           NEW W2, W2 = [W EXCEPT ![f.task] = "succ"]
    PROVE  /\ Shape(W2, K)' /\ f.task \in Tasks /\ W[f.task] = "told" /\ Head(f.todo) \in Tasks /\ f.todo # <<>>
           /\ f.pc = "drop"
           /\ \E g : SetTop(th, g) /\ Lists(f, g, "succ", Tail(f.todo))
           /\ node' \in [Tasks -> DepnodeRecords] /\ Derefed(node[Head(f.todo)], 1, node'[Head(f.todo)])
           /\ \A t \in Tasks : t # Head(f.todo) => node'[t] = node[t]
<1>0. W \in [Tasks -> Places]  BY DEF Shape
<1>1. f \in FrameRecords /\ LocalOK(f) /\ FrameOK(f, W, K) /\ f.pc = "drop" /\ f.todo # <<>>
  BY TaskFrame DEF Drop, At, LocalOK
<1>2. f.task \in Tasks /\ W[f.task] = "told"  BY <1>1, TaskFrame DEF Finishing
<1>a. /\ node \in [Tasks -> DepnodeRecords] /\ td \in [Descriptors -> TaskdataRecords]
  BY DEF Shape, Types, DataTypes
<1>b. Tail(f.todo) \in Seq(Tasks) /\ Head(f.todo) \in Tasks  BY <1>1, ListFacts DEF FrameRecords
<1> PICK todo \in Seq(Tasks) : todo = Tail(f.todo)  BY <1>b
<1> PICK s \in Tasks : s = Head(f.todo)  BY <1>b
<1> PICK g : g = WithPc(f, "succ", todo)  OBVIOUS
<1>c. SetTop(th, g)  BY DEF Drop, WithPc
<1>d. Lists(f, g, "succ", todo)  BY <1>1, ListsPc DEF Pcs, Finishing
<1>e. /\ node' \in [Tasks -> DepnodeRecords] /\ Derefed(node[s], 1, node'[s])
      /\ \A t \in Tasks : t # s => node'[t] = node[t]
  <2>1. node' = [node EXCEPT ![s] = Deref(@, 1)]  BY DEF Drop
  <2> QED  BY <1>a, <2>1, DerefWrites
<1>3. Continues(f, g) /\ g \in FrameRecords  BY <1>1, <1>d DEF Continues, FrameRecords, Lists
<1>4. LocalOK(g)'
  BY <1>1, <1>2, <1>d, TaskNames DEF LocalOK, Bodily, Creating, Proxying, Kind, Drop, Lists
<1>5. FrameOK(g, W2, K)'
  BY <1>0, <1>1, <1>2, <1>d DEF FrameOK, Place, Pushes, Bodily, Creating, Lists
<1>6. HoldsOnly(g, f, W)  BY <1>1, <1>d DEF HoldsOnly, Holds, Makes, Pushes, Creating, Lists
<1>7. Moves(W, K, W2, K, th)  BY <1>0, MovesOne DEF Holds, Drop
<1>8. Lawful(W, K, W2, K)
  <2>1. Queued(W2)'  BY <1>2, QueuedSame DEF Shape, Types, DataTypes, Drop
  <2>5. DataTypes'  BY <1>e DEF Shape, Types, DataTypes, Drop
  <2>6. ASSUME NEW t \in Tasks PROVE NodeAlike(t)
    <3>1. CASE t = s  BY <3>1, <1>e DEF Derefed, NodeAlike
    <3>2. CASE t # s  BY <3>2, <1>e DEF NodeAlike
    <3> QED  BY <3>1, <3>2
  <2>7. ProxyOK(f.task, W[f.task]) /\ TaskOK(f.task, W[f.task])  BY <1>2 DEF Shape
  <2>8. ProxyOK(f.task, "succ")'  BY <2>7, <1>2 DEF ProxyOK, Drop, Kind, Young, Late
  <2>9. TaskOK(f.task, "succ")'
    <3>1. td' = td /\ proxy' = proxy /\ Kind(f.task)' = Kind(f.task)  BY DEF Drop, Kind
    <3>2. NodeAlike(f.task)  BY <2>6, <1>2
    <3> QED  BY <2>7, <1>2, <3>1, <3>2 DEF TaskOK, Late, NodeAlike
  <2>10. \A t \in Tasks : Calm(W, t) /\ td'[t].parent = td[t].parent
    BY <2>6, CalmFrom, TdUnchanged, <1>a DEF SameTd, Descriptors, Drop
  <2> QED  BY <1>2, <2>1, <2>5, <2>8, <2>9, <2>10, LawfulOne, Zenon DEF Places, Young, Drop
<1>9. Shape(W2, K)'  BY <1>c, <1>3, <1>4, <1>5, <1>6, <1>7, <1>8, StepOne DEF Drop
<1> QED  BY <1>1, <1>2, <1>b, <1>c, <1>d, <1>e, <1>9

\* Released keeps the shape; the task goes on to be freed.
LEMMA ReleasedShape ==
    ASSUME NEW W, NEW K, Shape(W, K), NEW th \in Threads, NEW f, f = Top(th), Released(th),
           NEW W2, W2 = [W EXCEPT ![f.task] = "free"]
    PROVE  /\ Shape(W2, K)' /\ f.task \in Tasks /\ W[f.task] = "succ" /\ f.todo = <<>> /\ SameTd
           /\ \E g : SetTop(th, g) /\ g \in FrameRecords /\ g.task = f.task /\ g.ip = f.ip /\ g.pc = "free"
           /\ node' \in [Tasks -> DepnodeRecords]
           /\ \A t \in Tasks : IF t = f.task /\ td[t].node THEN Derefed(node[t], 1, node'[t]) ELSE node'[t] = node[t]
<1>0. W \in [Tasks -> Places]  BY DEF Shape
<1>1. f \in FrameRecords /\ LocalOK(f) /\ FrameOK(f, W, K) /\ f.pc = "succ" /\ f.todo = <<>>
  BY TaskFrame DEF Released, At
<1>2. f.task \in Tasks /\ W[f.task] = "succ"  BY <1>1, TaskFrame DEF Finishing
<1>a. /\ node \in [Tasks -> DepnodeRecords] /\ td \in [Descriptors -> TaskdataRecords]
  BY DEF Shape, Types, DataTypes
<1> PICK g : g = [f EXCEPT !.pc = "free", !.x = f.task]  OBVIOUS
<1>c. SetTop(th, g)  BY DEF Released
<1>d. g \in FrameRecords /\ g.task = f.task /\ g.ip = f.ip /\ g.pc = "free" /\ g.x = f.task /\ g.todo = f.todo
  BY <1>1 DEF FrameRecords, Pcs, Finishing
<1>e. /\ node' \in [Tasks -> DepnodeRecords]
      /\ \A t \in Tasks : IF t = f.task /\ td[t].node THEN Derefed(node[t], 1, node'[t]) ELSE node'[t] = node[t]
  <2>1. CASE ~td[f.task].node  BY <2>1, <1>a DEF Released
  <2>2. CASE td[f.task].node
    <3>1. node' = [node EXCEPT ![f.task] = Deref(@, 1)]  BY <2>2 DEF Released
    <3>2. Derefed(node[f.task], 1, node'[f.task]) /\ node' \in [Tasks -> DepnodeRecords]
          /\ \A t \in Tasks : t # f.task => node'[t] = node[t]
      BY <1>2, <1>a, <3>1, DerefWrites
    <3> HIDE <3>1
    <3> QED  BY <2>2, <3>2
  <2> QED  BY <2>1, <2>2
<1>f. SameTd
  <2>1. td' = [td EXCEPT ![f.task].executing = FALSE]  BY DEF Released
  <2>2. ASSUME NEW d \in Descriptors PROVE td'[d] \in TaskdataRecords /\ TdAlike(d)
    <3>1. td[d] \in TaskdataRecords  BY <1>a
    <3>2. td'[d] = td[d] \/ td'[d] = [td[d] EXCEPT !.executing = FALSE]  BY <2>1, <1>a
    <3>3. Alike(td[d], td'[d])  BY <3>1, <3>2, OneMark
    <3> QED  BY <3>3 DEF Alike, TdAlike
  <2>3. td' = [d \in Descriptors |-> td'[d]]  BY <2>1, <1>a
  <2> HIDE <2>1
  <2> QED  BY <2>2, <2>3 DEF SameTd
<1>3. Continues(f, g)  BY <1>1, <1>d DEF Continues, FrameRecords
<1>4. LocalOK(g)'
  BY <1>1, <1>2, <1>d, TaskNames DEF LocalOK, Bodily, Creating, Proxying, Kind, Released
<1>5. FrameOK(g, W2, K)'
  BY <1>0, <1>1, <1>2, <1>d DEF FrameOK, Place, Pushes, Bodily, Creating
<1>6. HoldsOnly(g, f, W)  BY <1>1, <1>d DEF HoldsOnly, Holds, Makes, Pushes, Creating
<1>7. Moves(W, K, W2, K, th)  BY <1>0, <1>f, MovesOne DEF Holds, Released
<1>8. Lawful(W, K, W2, K)
  <2>1. Queued(W2)'  BY <1>2, QueuedSame, Zenon DEF Shape, Types, DataTypes, Released
  <2>5. DataTypes'  BY <1>e, <1>f DEF Shape, Types, DataTypes, Released, SameTd
  <2>7. ProxyOK(f.task, W[f.task]) /\ TaskOK(f.task, W[f.task])  BY <1>2 DEF Shape
  <2>6. ASSUME NEW t \in Tasks PROVE NodeAlike(t)
    <3>1. CASE t = f.task /\ td[t].node
      <4>1. node[t].state # "absent"  BY <2>7, <3>1 DEF TaskOK
      <4>2. Derefed(node[t], 1, node'[t])  BY <3>1, <1>e
      <4> QED  BY <4>1, <4>2 DEF Derefed, NodeAlike
    <3>2. CASE ~(t = f.task /\ td[t].node)
      <4>1. node'[t] = node[t]  BY <3>2, <1>e
      <4> QED  BY <4>1 DEF NodeAlike
    <3> QED  BY <3>1, <3>2
  <2>8. ProxyOK(f.task, "free")'  BY <2>7, <1>2 DEF ProxyOK, Released, Kind, Young, Late
  <2>9. TaskOK(f.task, "free")'
    <3>1. TdAlike(f.task) /\ proxy' = proxy /\ Kind(f.task)' = Kind(f.task)  BY <1>2, <1>f DEF SameTd, Released, Kind, Descriptors
    <3>2. NodeAlike(f.task)  BY <2>6, <1>2
    <3> QED  BY <2>7, <1>2, <3>1, <3>2 DEF TaskOK, Late, NodeAlike, TdAlike
  <2>10. \A t \in Tasks : Calm(W, t) /\ td'[t].parent = td[t].parent
    BY <2>6, <1>f, CalmFrom DEF SameTd, TdAlike, Descriptors, Released
  <2> QED  BY <1>2, <2>1, <2>5, <2>8, <2>9, <2>10, LawfulOne, Zenon DEF Places, Young, Released
<1>9. Shape(W2, K)'  BY <1>c, <1>d, <1>3, <1>4, <1>5, <1>6, <1>7, <1>8, StepOne DEF Released
<1> QED  BY <1>1, <1>2, <1>c, <1>d, <1>e, <1>f, <1>9

----------------------------------------------------------------------------
(* Freeing a descriptor and going on to its parent (Free). *)

FreedFacts(x) ==
    /\ td' \in [Descriptors -> TaskdataRecords]
    /\ \A d \in Descriptors :
         /\ td'[d].parent = td[d].parent /\ td'[d].inc = td[d].inc /\ td'[d].group = td[d].group
         /\ td'[d].complete = td[d].complete /\ td'[d].node = td[d].node
         /\ td'[d].kids = IF d = x THEN td[d].kids - 1 ELSE td[d].kids
         /\ td'[d].state = IF d = x /\ td[d].kids = 1 THEN "freed" ELSE td[d].state

FreedWrites(x) == [td EXCEPT ![x].kids = @ - 1, ![x].state = IF td[x].kids = 1 THEN "freed" ELSE @]

\* A marked descriptor is otherwise the same.
LEMMA MarkedTd ==
    ASSUME NEW a \in [Descriptors -> TaskdataRecords], td' = a \/ \E c : td' = [a EXCEPT ![c].executing = TRUE]
    PROVE  td' \in [Descriptors -> TaskdataRecords] /\ \A d \in Descriptors : Alike(a[d], td'[d])
<1>1. CASE td' = a  BY <1>1 DEF Alike
<1>2. ASSUME NEW c, td' = [a EXCEPT ![c].executing = TRUE]
      PROVE  td' \in [Descriptors -> TaskdataRecords] /\ \A d \in Descriptors : Alike(a[d], td'[d])
  <2>1. ASSUME NEW d \in Descriptors PROVE Alike(a[d], td'[d])
    <3>1. a[d] \in TaskdataRecords  OBVIOUS
    <3>2. td'[d] = a[d] \/ td'[d] = [a[d] EXCEPT !.executing = TRUE]  BY <1>2
    <3> QED  BY <3>1, <3>2, OneMark
  <2>2. td' = [d \in Descriptors |-> td'[d]]  BY <1>2
  <2> QED  BY <2>1, <2>2 DEF Alike
<1> QED  BY <1>1, <1>2

\* Freeing a descriptor, and marking the one that resumes.
LEMMA FreedTd ==
    ASSUME td \in [Descriptors -> TaskdataRecords], NEW x \in Descriptors,
           td' = FreedWrites(x) \/ \E c : td' = [FreedWrites(x) EXCEPT ![c].executing = TRUE]
    PROVE  FreedFacts(x)
<1> PICK r \in TaskdataRecords : r = td[x]  OBVIOUS
<1> PICK k \in Int : k = r.kids - 1  BY DEF TaskdataRecords
<1> PICK s \in States : s = IF r.kids = 1 THEN "freed" ELSE r.state  BY DEF TaskdataRecords, States
<1> PICK q : q = [r EXCEPT !.kids = k, !.state = s]  OBVIOUS
<1>1. /\ q \in TaskdataRecords /\ q.kids = k /\ q.state = s
      /\ q.parent = r.parent /\ q.inc = r.inc /\ q.group = r.group /\ q.complete = r.complete /\ q.node = r.node
  BY DEF TaskdataRecords
<1> PICK a : a = [td EXCEPT ![x] = q]  OBVIOUS
<1>2. a = FreedWrites(x)  BY DEF FreedWrites
<1>3. a \in [Descriptors -> TaskdataRecords] /\ a[x] = q /\ \A d \in Descriptors : d # x => a[d] = td[d]  BY <1>1
<1>4. td' = a \/ \E c : td' = [a EXCEPT ![c].executing = TRUE]  BY <1>2
<1>5. td' \in [Descriptors -> TaskdataRecords] /\ \A d \in Descriptors : Alike(a[d], td'[d])
  BY <1>3, <1>4, MarkedTd
<1>8. ASSUME NEW d \in Descriptors
      PROVE  /\ a[d].parent = td[d].parent /\ a[d].inc = td[d].inc /\ a[d].group = td[d].group
             /\ a[d].complete = td[d].complete /\ a[d].node = td[d].node
             /\ a[d].kids = IF d = x THEN td[d].kids - 1 ELSE td[d].kids
             /\ a[d].state = IF d = x /\ td[d].kids = 1 THEN "freed" ELSE td[d].state
  <2>1. CASE d = x  BY <2>1, <1>1, <1>3
  <2>2. CASE d # x  BY <2>2, <1>3
  <2> QED  BY <2>1, <2>2
<1>9. ASSUME NEW d \in Descriptors
      PROVE  /\ td'[d].parent = td[d].parent /\ td'[d].inc = td[d].inc /\ td'[d].group = td[d].group
             /\ td'[d].complete = td[d].complete /\ td'[d].node = td[d].node
             /\ td'[d].kids = IF d = x THEN td[d].kids - 1 ELSE td[d].kids
             /\ td'[d].state = IF d = x /\ td[d].kids = 1 THEN "freed" ELSE td[d].state
  <2>1. Alike(a[d], td'[d])  BY <1>5
  <2> QED  BY <2>1, <1>8 DEF Alike
<1> QED  BY <1>5, <1>9 DEF FreedFacts

\* The freed task is gone and climbs to its parent when it was the last to hold it.
FreePlaces(W, K, f, W2, K2) ==
    /\ W2 = [W EXCEPT ![f.task] = "gone"]
    /\ K2 = [K EXCEPT ![f.task] = IF td[f.x].kids = 1 /\ td[f.x].parent \in Tasks THEN td[f.x].parent ELSE None]

\* Free keeps the shape; the task is gone, and the hold on a parent may go on.
LEMMA FreeShape ==
    ASSUME NEW W, NEW K, Shape(W, K), NEW th \in Threads, NEW f, f = Top(th), Free(th),
           NEW W2, NEW K2, FreePlaces(W, K, f, W2, K2)
    PROVE  /\ Shape(W2, K2)' /\ FreedFacts(f.x) /\ f.task \in Tasks /\ f.x \in Tasks /\ f.pc = "free" /\ W[f.x] # "absent"
           /\ IF W[f.task] = "gone" THEN K[f.task] = f.x ELSE W[f.task] = "free" /\ f.x = f.task
           /\ IF td[f.x].kids = 1 /\ td[f.x].parent \in Tasks
              THEN \E g : SetTop(th, g) /\ g \in FrameRecords /\ g.task = f.task /\ g.ip = f.ip /\ g.pc = "free"
              ELSE stack' = [stack EXCEPT ![th] = Front(@)]
<1>0. /\ W \in [Tasks -> Places] /\ K \in [Tasks -> Tasks \union {None}]
      /\ td \in [Descriptors -> TaskdataRecords]
  BY DEF Shape, Types, DataTypes
<1>1. f \in FrameRecords /\ LocalOK(f) /\ FrameOK(f, W, K) /\ f.pc = "free"  BY TaskFrame DEF Free, At
<1>2. f.task \in Tasks /\ f.x \in Tasks  BY <1>1, TaskFrame DEF Finishing, LocalOK
<1>3. IF W[f.task] = "gone" THEN K[f.task] = f.x ELSE W[f.task] = "free" /\ f.x = f.task
  BY <1>1, <1>2 DEF FrameOK, Place, Bodily, Creating
<1>4. W[f.x] # "absent"
  <2>1. CASE W[f.task] = "gone"
    <3>1. K[f.task] # None  BY <1>2, <1>3, <2>1, TaskNames
    <3> QED  BY <1>2, <1>3, <2>1, <3>1 DEF Shape, ClimbOK
  <2>2. CASE W[f.task] # "gone"  BY <1>3, <2>2
  <2> QED  BY <2>1, <2>2
<1> PICK p \in Descriptors : p = td[f.x].parent /\ (p \in Tasks => W[p] \notin Young)
  BY <1>2, <1>4, ParentFacts
<1> DEFINE climbs == td[f.x].kids = 1 /\ p \in Tasks
<1>5. FreedFacts(f.x)
  <2>1. td' = FreedWrites(f.x) \/ \E c : td' = [FreedWrites(f.x) EXCEPT ![c].executing = TRUE]
    BY Zenon DEF Free, FreedWrites
  <2> QED  BY <1>0, <1>2, <2>1, FreedTd DEF Descriptors
<1>6. /\ W2 = [W EXCEPT ![f.task] = "gone"] /\ W2 \in [Tasks -> Places] /\ K2 \in [Tasks -> Tasks \union {None}]
      /\ \A t \in Tasks : t # f.task => K2[t] = K[t] /\ W2[t] = W[t]
      /\ W2[f.task] = "gone" /\ K2[f.task] = IF climbs THEN p ELSE None
  BY <1>0, <1>2 DEF FreePlaces, Places
<1>7. \A s \in Tasks : td'[s].parent = td[s].parent  BY <1>5 DEF FreedFacts, Descriptors
<1>8. Moves(W, K, W2, K2, th)  BY <1>6, <1>7 DEF Moves, Holds, Free
<1>9. Lawful(W, K, W2, K2)
  <2>1. Queued(W2)'
    <3>1. \A t \in Tasks : W[t] = "queue" => W2[t] = "queue"  BY <1>6, <1>3
    <3> QED  BY <3>1, QueuedSame, Zenon DEF Shape, Types, DataTypes, Free
  <2>2. DataTypes'  BY <1>5 DEF Shape, Types, DataTypes, Free, FreedFacts
  <2>3. Settled(W, W2)
    <3> SUFFICES ASSUME NEW t \in Tasks
                 PROVE  (W2[t] = W[t] /\ Calm(W, t)) \/ (ProxyOK(t, W2[t])' /\ TaskOK(t, W2[t])')
      BY DEF Settled
    <3>0. /\ ProxyOK(t, W[t]) /\ TaskOK(t, W[t]) /\ Kind(t)' = Kind(t) /\ proxy' = proxy /\ node' = node
          /\ td'[t].inc = td[t].inc /\ td'[t].group = td[t].group
          /\ td'[t].complete = td[t].complete /\ td'[t].node = td[t].node
          /\ t # f.x => td'[t].kids = td[t].kids /\ td'[t].state = td[t].state
          /\ td'[t].state = "absent" <=> td[t].state = "absent"
      <4>1. f.x = t => td[t].state # "absent"  BY <1>4 DEF Shape, TaskOK
      <4> QED  BY <4>1, <1>5 DEF Shape, Kind, Free, FreedFacts, Descriptors
    <3>1. CASE t # f.x /\ t # f.task
      <4>1. Calm(W, t)  BY <3>0, <3>1 DEF Calm
      <4> QED  BY <3>1, <4>1, <1>6
    <3>2. CASE t = f.task
      <4>1. W2[t] = "gone" /\ W[t] \in {"free", "gone"}  BY <3>2, <1>3, <1>6
      <4>2. ProxyOK(t, W2[t])'  BY <3>0, <4>1 DEF ProxyOK, Young, Late
      <4>3. TaskOK(t, W2[t])'  BY <3>0, <4>1 DEF TaskOK, Late
      <4> QED  BY <4>2, <4>3
    <3>3. CASE t = f.x /\ t # f.task
      <4>1. W2[t] = W[t] /\ W[t] # "absent"  BY <3>3, <1>4, <1>6
      <4>2. ProxyOK(t, W2[t])'  BY <3>0, <4>1 DEF ProxyOK, Young, Late
      <4>3. TaskOK(t, W2[t])'  BY <3>0, <4>1 DEF TaskOK, Late
      <4> QED  BY <4>2, <4>3
    <3> QED  BY <3>1, <3>2, <3>3
  <2>4. Grows(W, W2)  BY <1>6 DEF Grows, Young
  <2>5. Parents(W, W2)
    <3>1. \A t \in Tasks : W2[t] # "absent" => W[t] # "absent"  BY <1>3, <1>6
    <3> QED  BY <3>1, <1>7 DEF Parents
  <2>6. ClimbOK(W2, K2)'
    <3> SUFFICES ASSUME NEW c \in Tasks, K2[c] # None PROVE W2[c] = "gone" /\ W2[K2[c]] # "absent"  BY DEF ClimbOK
    <3>1. CASE c = f.task
      <4>1. climbs /\ K2[c] = p  BY <3>1, <1>6
      <4>2. p \in Tasks /\ W[p] # "absent"  BY <4>1 DEF Young
      <4> QED  BY <3>1, <4>1, <4>2, <1>6
    <3>2. CASE c # f.task
      <4>1. W[c] = "gone" /\ W[K[c]] # "absent" /\ K2[c] = K[c] /\ K[c] \in Tasks  BY <3>2, <1>6, <1>0 DEF Shape, ClimbOK
      <4> QED  BY <3>2, <4>1, <1>6
    <3> QED  BY <3>1, <3>2
  <2> QED  BY <1>6, <2>1, <2>2, <2>3, <2>4, <2>5, <2>6 DEF Lawful
<1>10. CASE climbs
  <2> PICK g : g = [f EXCEPT !.x = p]  OBVIOUS
  <2>1. SetTop(th, g)  BY <1>10 DEF Free
  <2>2. p \in Descriptors  OBVIOUS
  <2>3. g \in FrameRecords /\ g.task = f.task /\ g.ip = f.ip /\ g.pc = "free" /\ g.x = p /\ g.todo = f.todo
    BY <1>1, <2>2 DEF FrameRecords
  <2>4. Continues(f, g)  BY <1>1, <2>3 DEF Continues, FrameRecords
  <2>5. LocalOK(g)'
    BY <1>1, <1>2, <1>10, <2>3, TaskNames DEF LocalOK, Bodily, Creating, Proxying, Kind, Free
  <2>6. FrameOK(g, W2, K2)'
    BY <1>2, <1>6, <1>10, <2>3 DEF FrameOK, Place, Pushes, Bodily, Creating
  <2>7. HoldsOnly(g, f, W)  BY <1>1, <2>3 DEF HoldsOnly, Holds, Makes, Pushes, Creating
  <2>8. Shape(W2, K2)'  BY <2>1, <2>3, <2>4, <2>5, <2>6, <2>7, <1>8, <1>9, StepOne DEF Free
  <2> QED  BY <1>1, <1>2, <1>3, <1>4, <1>5, <1>10, <2>1, <2>3, <2>8
<1>11. CASE ~climbs
  <2>1. stack' = [stack EXCEPT ![th] = Front(@)]  BY <1>11 DEF Free
  <2>2. Shape(W2, K2)'  BY <2>1, <1>2, <1>8, <1>9, StepPop DEF Free
  <2> QED  BY <1>1, <1>2, <1>3, <1>4, <1>5, <1>11, <2>1, <2>2
<1> QED  BY <1>10, <1>11

----------------------------------------------------------------------------
(* Passing a construct (Pass). *)

\* A frame goes on in its body.
Stepped(f, g, pc) ==
    /\ g \in FrameRecords
    /\ g.task = f.task /\ g.ip = f.ip + 1 /\ g.pc = pc /\ g.x = f.x /\ g.todo = f.todo
WithIp(f, pc) == [f EXCEPT !.ip = @ + 1, !.pc = pc]

\* A frame that goes to the next construct.
LEMMA SteppedFacts == \A f \in FrameRecords : \A pc \in Pcs : Stepped(f, WithIp(f, pc), pc)
<1> TAKE f \in FrameRecords
<1> TAKE pc \in Pcs
<1> PICK n \in Nat : n = f.ip + 1  BY DEF FrameRecords
<1>1. WithIp(f, pc) = [f EXCEPT !.ip = n, !.pc = pc]  BY DEF WithIp
<1> QED  BY <1>1 DEF FrameRecords, Stepped

\* The frame of a construct that is over.
LEMMA SteppedOK ==
    ASSUME NEW W, NEW K, Shape(W, K), NEW th \in Threads, NEW f, f = Top(th), NEW op, InBody(th, op), op # "none",
           NEW g, NEW pc \in {"body", "yield"}, Stepped(f, g, pc), prog' = prog
    PROVE  /\ LocalOK(g)' /\ FrameOK(g, W, K)' /\ Continues(f, g) /\ HoldsOnly(g, f, W)
           /\ f \in FrameRecords /\ f.pc = "body" /\ f.ip \in 1..Len(prog.body[f.task]) /\ prog.body[f.task][f.ip][1] = op
           /\ f.task \in Tasks => W[f.task] = "body"
<1>1. f \in FrameRecords /\ LocalOK(f) /\ FrameOK(f, W, K) /\ Types  BY TaskFrame DEF Shape
<1>2. f.pc = "body" /\ f.ip <= Len(prog.body[f.task]) /\ prog.body[f.task][f.ip][1] = op
  BY <1>1, InBodyFacts
<1>3. f.task \in Tasks => W[f.task] = "body" /\ Kind(f.task) # "proxy"  BY <1>2, TaskFrame DEF Bodily
<1> PICK n \in Nat : n = Len(prog.body[f.task])  BY <1>1, ProgramFacts DEF FrameRecords
<1> PICK i \in Nat : i = f.ip  BY <1>1 DEF FrameRecords
<1>4. i \in 1..n /\ i + 1 \in 1..n + 1  BY <1>1, <1>2 DEF LocalOK
<1>5. g.ip \in 1..Len(prog.body[g.task]) + 1  BY <1>4 DEF Stepped
<1>6. LocalOK(g)'
  BY <1>1, <1>2, <1>3, <1>5, TaskNames DEF LocalOK, Bodily, Creating, Proxying, Kind, Stepped
<1>7. FrameOK(g, W, K)'  BY <1>3 DEF FrameOK, Place, Pushes, Bodily, Creating, Stepped
<1>8. HoldsOnly(g, f, W)  BY DEF HoldsOnly, Holds, Makes, Pushes, Creating, Stepped
<1>9. Continues(f, g)  BY <1>4 DEF Continues, Stepped
<1> QED  BY <1>1, <1>2, <1>3, <1>4, <1>6, <1>7, <1>8, <1>9

\* Pass keeps the shape; the body goes on.
LEMMA PassShape ==
    ASSUME NEW W, NEW K, Shape(W, K), NEW th \in Threads, NEW f, f = Top(th), Pass(th)
    PROVE  /\ Shape(W, K)' /\ f \in FrameRecords /\ f.pc \in {"body", "yield"}
           /\ \E g : /\ SetTop(th, g) /\ g \in FrameRecords /\ g.task = f.task /\ g.pc \in {"body", "yield"}
                     /\ \/ g.ip = f.ip
                        \/ /\ f.ip \in 1..Len(prog.body[f.task])
                           /\ prog.body[f.task][f.ip][1] \in {"taskwait", "taskyield"} /\ g.ip = f.ip + 1
<1>0. f \in FrameRecords /\ LocalOK(f) /\ FrameOK(f, W, K)  BY TaskFrame
<1>1. Lawful(W, K, W, K) /\ Moves(W, K, W, K, th)
  <2>1. \A s \in Tasks : Calm(W, s) /\ td'[s].parent = td[s].parent  BY DEF Calm, Pass
  <2>2. DataTypes'  BY DEF Shape, Types, DataTypes, Pass
  <2> QED  BY <2>1, <2>2, LawfulSame, MovesNone DEF Pass
<1>2. ASSUME NEW op \in {"taskwait", "taskyield"}, InBody(th, op), NEW pc \in {"body", "yield"}, SetTop(th, WithIp(f, pc))
      PROVE  Shape(W, K)' /\ f.pc = "body" /\ Stepped(f, WithIp(f, pc), pc)
             /\ f.ip \in 1..Len(prog.body[f.task]) /\ prog.body[f.task][f.ip][1] = op
  <2> PICK g : g = WithIp(f, pc)  OBVIOUS
  <2>1. Stepped(f, g, pc)  BY <1>0, SteppedFacts DEF Pcs, Bodily
  <2>2. op # "none" /\ prog' = prog  BY DEF Pass
  <2>3. /\ LocalOK(g)' /\ FrameOK(g, W, K)' /\ Continues(f, g) /\ HoldsOnly(g, f, W)
        /\ f.pc = "body" /\ f.ip \in 1..Len(prog.body[f.task]) /\ prog.body[f.task][f.ip][1] = op
    BY <1>2, <2>1, <2>2, SteppedOK
  <2>4. SetTop(th, g) /\ g \in FrameRecords  BY <1>2, <2>1 DEF Stepped
  <2> QED  BY <1>1, <2>1, <2>2, <2>3, <2>4, StepOne
<1>3. CASE InBody(th, "taskwait") /\ SetTop(th, [Top(th) EXCEPT !.ip = @ + 1])
  <2>1. f.pc = "body"  BY <1>0, <1>3, InBodyFacts DEF Shape
  <2>2. [f EXCEPT !.ip = @ + 1] = WithIp(f, "body")  BY <1>0, <2>1, Zenon DEF WithIp, FrameRecords
  <2>3. SetTop(th, WithIp(f, "body"))  BY <1>3, <2>2
  <2> QED  BY <1>0, <1>2, <1>3, <2>3 DEF Stepped
<1>4. CASE InBody(th, "taskyield") /\ SetTop(th, [Top(th) EXCEPT !.ip = @ + 1, !.pc = "yield"])
  <2>3. SetTop(th, WithIp(f, "yield"))  BY <1>4 DEF WithIp
  <2> QED  BY <1>0, <1>2, <1>4, <2>3 DEF Stepped
<1>5. CASE At(th, "yield") /\ Goto(th, "body")
  <2> PICK g : Turn(f, g, "body")  BY <1>0, Turned DEF Pcs, Bodily
  <2>1. SetTop(th, g) /\ Continues(f, g) /\ g \in FrameRecords /\ f.pc = "yield"
    BY <1>0, <1>5 DEF Goto, Continues, FrameRecords, Turn, At
  <2>2. f.task \in Tasks => W[f.task] = "body" /\ Kind(f.task) # "proxy"  BY <2>1, TaskFrame DEF Bodily
  <2>3. LocalOK(g)'
    BY <1>0, <2>1, <2>2, TaskNames DEF LocalOK, Bodily, Creating, Proxying, Kind, Pass, Turn
  <2>4. FrameOK(g, W, K)'  BY <2>2 DEF FrameOK, Place, Pushes, Bodily, Creating, Turn
  <2>5. HoldsOnly(g, f, W)  BY DEF HoldsOnly, Holds, Makes, Pushes, Creating, Turn
  <2>6. Shape(W, K)'  BY <1>1, <2>1, <2>3, <2>4, <2>5, StepOne DEF Pass
  <2> QED  BY <1>0, <2>1, <2>6 DEF Turn
<1> QED  BY <1>3, <1>4, <1>5 DEF Pass

----------------------------------------------------------------------------
(* A proxy outside the team (Returned, Signal). *)

\* Returned keeps the shape; the proxy is outside the team.
LEMMA ReturnedShape ==
    ASSUME NEW W, NEW K, Shape(W, K), NEW th \in Threads, NEW f, f = Top(th), Returned(th),
           NEW W2, W2 = [W EXCEPT ![f.task] = "outside"]
    PROVE  /\ Shape(W2, K)' /\ f.task \in Tasks /\ W[f.task] = "launch" /\ f.pc = "returned" /\ Kind(f.task) = "proxy"
<1>0. W \in [Tasks -> Places]  BY DEF Shape
<1>1. f \in FrameRecords /\ LocalOK(f) /\ FrameOK(f, W, K) /\ f.pc = "returned"  BY TaskFrame DEF Returned, At
<1>2. f.task \in Tasks /\ W[f.task] = "launch" /\ proxy[f.task] = "run" /\ Kind(f.task) = "proxy"
  BY <1>1, TaskFrame DEF Proxying, FrameOK, LocalOK
<1>7. Moves(W, K, W2, K, th)  BY <1>0, MovesOne DEF Holds, Returned
<1>8. Lawful(W, K, W2, K)
  <2>1. Queued(W2)'  BY <1>2, QueuedSame DEF Shape, Types, DataTypes, Returned
  <2>5. DataTypes'  BY DEF Shape, Types, DataTypes, Returned
  <2>7. ProxyOK(f.task, W[f.task]) /\ TaskOK(f.task, W[f.task])  BY <1>2 DEF Shape
  <2>8. ProxyOK(f.task, "outside")'  BY <2>7, <1>2 DEF ProxyOK, Returned, Kind, Young, Late
  <2>9. TaskOK(f.task, "outside")'  BY <2>7, <1>2 DEF TaskOK, Returned, Kind, Late
  <2>10. \A t \in Tasks : Calm(W, t) /\ td'[t].parent = td[t].parent  BY DEF Calm, Returned
  <2> QED  BY <1>2, <2>1, <2>5, <2>8, <2>9, <2>10, LawfulOne DEF Places, Young, Returned
<1> QED  BY <1>1, <1>2, <1>7, <1>8, StepPop DEF Returned

Advanced(t, a, b) == proxy[t] = a /\ proxy' = [proxy EXCEPT ![t] = b]

\* A step of what a proxy task has started.
LEMMA OutsideShape ==
    ASSUME NEW W, NEW K, Shape(W, K), NEW t \in Tasks, NEW a, NEW b \in Stages, Advanced(t, a, b),
           prog' = prog, stack' = stack, node' = node,
           NEW w \in Places, W[t] \in Loose \/ (w = W[t] /\ W[t] # "launch"), W[t] # "absent", w # "absent",
           NEW W2, W2 = [W EXCEPT ![t] = w], W[t] # "gone",
           w \in Young => W[t] \in Young \/ Kind(t) = "proxy",
           DataTypes', Queued(W2)', \A s \in Tasks : td'[s].parent = td[s].parent,
           \A s \in Tasks : s # t => Calm(W, s),
           ProxyOK(t, w)', TaskOK(t, w)'
    PROVE  Shape(W2, K)'
<1>0. W \in [Tasks -> Places] /\ W2[t] = w /\ \A s \in Tasks : s # t => W2[s] = W[s]  BY DEF Shape
<1>2. proxy \in [Tasks -> Stages]  BY DEF Shape, Types, DataTypes
<1>3. \A s \in Tasks : s # t => proxy'[s] = proxy[s]  BY <1>2 DEF Advanced
<1>4. Lawful(W, K, W2, K)  BY LawfulOne
<1>5. \A s \in Tasks :
             \/ /\ W2[s] = W[s] /\ td'[s].parent = td[s].parent
                /\ W[s] = "launch" => proxy'[s] = proxy[s]
             \/ W[s] \in Loose
  BY <1>0, <1>3
<1> QED  BY <1>4, <1>5, StepOutside

\* Where a proxy is at each of its stages.
LEMMA ProxyFacts ==
    ASSUME NEW W, NEW K, Shape(W, K), NEW t \in Tasks, proxy[t] # "idle"
    PROVE  /\ Kind(t) = "proxy" /\ ProxyOK(t, W[t]) /\ TaskOK(t, W[t]) /\ W[t] \in Places
           /\ W[t] \in {"launch", "outside", "queue", "bottom"} \union Late
           /\ proxy[t] = "run" => W[t] \in {"launch", "outside"}
           /\ proxy[t] \in {"group", "give"} => W[t] = "outside"
           /\ proxy[t] \in {"parent", "child"} => W[t] \in {"queue", "bottom"}
<1>1. ProxyOK(t, W[t]) /\ TaskOK(t, W[t]) /\ W[t] \in Places  BY DEF Shape
<1>2. Kind(t) = "proxy"  BY <1>1 DEF ProxyOK
<1>3. W[t] \in {"launch", "outside", "queue", "bottom"} \union Late
  BY <1>1, <1>2 DEF ProxyOK, Places, Young, Late
<1> QED  BY <1>1, <1>2, <1>3 DEF ProxyOK

\* Signal keeps the shape once the launcher has returned.
LEMMA SignalShape ==
    ASSUME NEW W, NEW K, Shape(W, K), NEW t \in Tasks, Signal(t), W[t] # "launch"
    PROVE  /\ Shape(W, K)' /\ W[t] = "outside" /\ Kind(t) = "proxy" /\ Advanced(t, "run", "group")
           /\ td' \in [Descriptors -> TaskdataRecords]
           /\ \A d \in Descriptors : AlikeButComplete(td[d], td'[d])
<1>1. Kind(t) = "proxy" /\ ProxyOK(t, W[t]) /\ TaskOK(t, W[t]) /\ W[t] = "outside" /\ W[t] \in Places
  BY ProxyFacts DEF Signal
<1>2. Advanced(t, "run", "group")  BY DEF Signal, Advance, Advanced
<1>3. td \in [Descriptors -> TaskdataRecords] /\ t \in Descriptors /\ proxy \in [Tasks -> Stages] /\ W \in [Tasks -> Places]
  BY DEF Shape, Types, DataTypes, Descriptors
<1> PICK r \in TaskdataRecords : r = td[t]  BY <1>3
<1> PICK q : q = [r EXCEPT !.complete = TRUE]  OBVIOUS
<1>4. AlikeButComplete(r, q) /\ q.complete = TRUE  BY CompleteSet
<1>5. td' = [td EXCEPT ![t] = q]  BY DEF Signal
<1>6. td'[t] = q /\ \A d \in Descriptors : d # t => td'[d] = td[d]  BY <1>3, <1>5
<1>7. td' \in [Descriptors -> TaskdataRecords]  BY <1>3, <1>4, <1>5 DEF AlikeButComplete
<1>8. \A d \in Descriptors : AlikeButComplete(td[d], td'[d])
  <2> TAKE d \in Descriptors
  <2>1. CASE d = t  BY <2>1, <1>4, <1>6
  <2>2. CASE d # t  BY <2>2, <1>3, <1>6 DEF AlikeButComplete
  <2> QED  BY <2>1, <2>2
<1>9. DataTypes'  BY <1>3, <1>7, <1>2 DEF Shape, Types, DataTypes, Signal, Advanced, Stages
<1>10. ProxyOK(t, W[t])'
  <2>1. proxy'[t] = "group"  BY <1>2, <1>3 DEF Advanced
  <2> QED  BY <1>1, <2>1 DEF ProxyOK, Signal, Kind, Young, Late
<1>11. TaskOK(t, W[t])'
  <2>1. proxy'[t] = "group"  BY <1>2, <1>3 DEF Advanced
  <2>2. td'[t].complete = TRUE /\ td'[t].state = td[t].state /\ td'[t].node = td[t].node  BY <1>4, <1>6 DEF AlikeButComplete
  <2>3. node' = node /\ Kind(t)' = Kind(t)  BY DEF Signal, Kind
  <2> QED  BY <1>1, <2>1, <2>2, <2>3 DEF TaskOK, Late
<1>12. \A s \in Tasks : s # t => Calm(W, s)
  BY <1>3, <1>6, <1>2 DEF Calm, Signal, Advanced, Descriptors
<1>13. \A s \in Tasks : td'[s].parent = td[s].parent  BY <1>8 DEF AlikeButComplete, Descriptors
<1>14. Queued(W)'  BY QueuedSame DEF Shape, Types, DataTypes, Signal
<1>15. W = [W EXCEPT ![t] = W[t]]  BY <1>3
<1>16. Shape(W, K)'
  <2>1. prog' = prog /\ stack' = stack /\ node' = node  BY DEF Signal
  <2>2. "group" \in Stages  BY DEF Stages
  <2>3. W[t] \in Young => W[t] \in Young \/ Kind(t) = "proxy"  OBVIOUS
  <2>4. W[t] # "absent" /\ W[t] # "gone" /\ W[t] \in Loose  BY <1>1 DEF Loose
  <2> PICK w \in Places : w = W[t]  BY <1>1
  <2> PICK W2 : W2 = [W EXCEPT ![t] = w]  OBVIOUS
  <2>5. W2 = W  BY <1>15
  <2>6. ProxyOK(t, w)' /\ TaskOK(t, w)' /\ Queued(W2)'  BY <1>10, <1>11, <1>14, <2>5
  <2>7. w # "absent"  BY <2>4
  <2>8. Shape(W2, K)'  BY <1>2, <1>9, <1>12, <1>13, <2>1, <2>2, <2>3, <2>4, <2>6, <2>7, OutsideShape
  <2> QED  BY <2>5, <2>8
<1> QED  BY <1>1, <1>2, <1>7, <1>8, <1>16

----------------------------------------------------------------------------
(* The imaginary child of a proxy and its top half (Imagine, Give,           *)
(* LeaveParent, Forget).                                                     *)

\* One number of incomplete children changes.
Incd(x, v) ==
    /\ td' \in [Descriptors -> TaskdataRecords]
    /\ \A d \in Descriptors : AlikeButInc(td[d], td'[d]) /\ td'[d].inc = IF d = x THEN v ELSE td[d].inc
IncWrites(x, v) == td' = [td EXCEPT ![x].inc = v]

\* Writing one count of incomplete children.
LEMMA IncdTd ==
    ASSUME td \in [Descriptors -> TaskdataRecords], NEW x \in Descriptors, NEW v \in Int, IncWrites(x, v)
    PROVE  Incd(x, v)
<1> PICK r \in TaskdataRecords : r = td[x]  OBVIOUS
<1> PICK q : q = [r EXCEPT !.inc = v]  OBVIOUS
<1>1. AlikeButInc(r, q) /\ q.inc = v  BY IncSet
<1>2. td' = [td EXCEPT ![x] = q]  BY DEF IncWrites
<1>3. td'[x] = q /\ \A d \in Descriptors : d # x => td'[d] = td[d]  BY <1>2
<1>4. td' \in [Descriptors -> TaskdataRecords]  BY <1>1, <1>2 DEF AlikeButInc
<1>5. ASSUME NEW d \in Descriptors
      PROVE  AlikeButInc(td[d], td'[d]) /\ td'[d].inc = IF d = x THEN v ELSE td[d].inc
  <2>1. CASE d = x  BY <2>1, <1>1, <1>3
  <2>2. CASE d # x  BY <2>2, <1>3 DEF AlikeButInc
  <2> QED  BY <2>1, <2>2
<1> QED  BY <1>4, <1>5 DEF Incd

IncType ==
    \A d \in Descriptors : td[d].inc \in Int /\ td[d].inc + 1 \in Int /\ td[d].inc - 1 \in Int

\* The counts are integers.
LEMMA IncTypes == ASSUME Types PROVE IncType
BY DEF Types, DataTypes, TaskdataRecords, IncType

\* Imagine keeps the shape; the proxy has a child that does not exist.
LEMMA ImagineShape ==
    ASSUME NEW W, NEW K, Shape(W, K), NEW t \in Tasks, Imagine(t)
    PROVE  /\ Shape(W, K)' /\ W[t] = "outside" /\ Kind(t) = "proxy" /\ Advanced(t, "group", "give")
           /\ Incd(t, td[t].inc + 1)
<1>1. Kind(t) = "proxy" /\ ProxyOK(t, W[t]) /\ TaskOK(t, W[t]) /\ W[t] = "outside" /\ W[t] \in Places
  BY ProxyFacts DEF Imagine
<1>2. Advanced(t, "group", "give")  BY DEF Imagine, Advance, Advanced
<1>3. /\ td \in [Descriptors -> TaskdataRecords] /\ t \in Descriptors /\ proxy \in [Tasks -> Stages] /\ W \in [Tasks -> Places]
      /\ groups \in [DOMAIN groups -> GroupRecords]
  BY DEF Shape, Types, DataTypes, Descriptors
<1>4. Incd(t, td[t].inc + 1)
  <2> PICK v \in Int : v = td[t].inc + 1  BY <1>3, IncTypes DEF IncType, Shape
  <2>1. IncWrites(t, v)  BY DEF Imagine, IncWrites
  <2>2. Incd(t, v)  BY <1>3, <2>1, IncdTd
  <2> QED  BY <2>2
<1>9. DataTypes'
  <2>1. groups' = groups \/ \E g : groups' = [groups EXCEPT ![g].count = @ - 1]  BY DEF Imagine
  <2>2. DOMAIN groups' = DOMAIN groups /\ groups' \in [DOMAIN groups -> GroupRecords]  BY <1>3, <2>1, GroupMinus
  <2> QED  BY <1>3, <1>2, <1>4, <2>2 DEF Shape, Types, DataTypes, Imagine, Advanced, Stages, Incd
<1>10. ProxyOK(t, W[t])'
  <2>1. proxy'[t] = "give"  BY <1>2, <1>3 DEF Advanced
  <2> QED  BY <1>1, <2>1 DEF ProxyOK, Imagine, Kind, Young, Late
<1>11. TaskOK(t, W[t])'
  <2>1. proxy'[t] = "give" /\ proxy[t] = "group"  BY <1>2, <1>3 DEF Advanced
  <2>2. td'[t].complete = td[t].complete /\ td'[t].state = td[t].state /\ td'[t].node = td[t].node
    BY <1>3, <1>4 DEF AlikeButInc, Incd
  <2>3. node' = node /\ Kind(t)' = Kind(t)  BY DEF Imagine, Kind
  <2> QED  BY <1>1, <2>1, <2>2, <2>3 DEF TaskOK, Late
<1>12. \A s \in Tasks : s # t => Calm(W, s)
  BY <1>3, <1>4, <1>2 DEF Calm, Imagine, Advanced, Descriptors, Incd, AlikeButInc
<1>13. \A s \in Tasks : td'[s].parent = td[s].parent  BY <1>4 DEF AlikeButInc, Descriptors, Incd
<1>14. Queued(W)'  BY QueuedSame DEF Shape, Types, DataTypes, Imagine
<1>16. Shape(W, K)'
  <2>1. prog' = prog /\ stack' = stack /\ node' = node  BY DEF Imagine
  <2>2. "give" \in Stages  BY DEF Stages
  <2>4. W[t] # "absent" /\ W[t] # "gone" /\ W[t] \in Loose  BY <1>1 DEF Loose
  <2> PICK w \in Places : w = W[t]  BY <1>1
  <2> PICK W2 : W2 = [W EXCEPT ![t] = w]  OBVIOUS
  <2>5. W2 = W  BY <1>3
  <2>6. ProxyOK(t, w)' /\ TaskOK(t, w)' /\ Queued(W2)'  BY <1>10, <1>11, <1>14, <2>5
  <2>7. w # "absent" /\ (w \in Young => W[t] \in Young \/ Kind(t) = "proxy")  BY <2>4
  <2>8. Shape(W2, K)'  BY <1>2, <1>9, <1>12, <1>13, <2>1, <2>2, <2>4, <2>6, <2>7, OutsideShape
  <2> QED  BY <2>5, <2>8
<1> QED  BY <1>1, <1>2, <1>4, <1>16

\* Give keeps the shape; the bottom half is in a deque.
LEMMA GiveShape ==
    ASSUME NEW W, NEW K, Shape(W, K), NEW t \in Tasks, Give(t), NEW W2, W2 = [W EXCEPT ![t] = "queue"]
    PROVE  /\ Shape(W2, K)' /\ W[t] = "outside" /\ Kind(t) = "proxy" /\ Advanced(t, "give", "parent")
           /\ \E u \in Threads : deque' = [deque EXCEPT ![u] = Append(@, t)]
<1>1. Kind(t) = "proxy" /\ ProxyOK(t, W[t]) /\ TaskOK(t, W[t]) /\ W[t] = "outside" /\ W[t] \in Places
  BY ProxyFacts DEF Give
<1>2. Advanced(t, "give", "parent")  BY DEF Give, Advance, Advanced
<1>3. /\ td \in [Descriptors -> TaskdataRecords] /\ t \in Descriptors /\ proxy \in [Tasks -> Stages] /\ W \in [Tasks -> Places]
      /\ deque \in [Threads -> Seq(Tasks)] /\ Queued(W) /\ \A u \in Threads : Len(deque[u]) <= QueueSize
  BY DEF Shape, Types, DataTypes, Descriptors
<1> PICK u \in Threads : Len(deque[u]) < QueueSize /\ deque' = [deque EXCEPT ![u] = Append(@, t)]  BY DEF Give
<1>4. Queued(W2)' /\ deque' \in [Threads -> Seq(Tasks)]
  <2>1. W[t] # "queue" /\ W2[t] = "queue" /\ \A s \in Tasks : W[s] = "queue" => W2[s] = "queue"  BY <1>1, <1>3
  <2>2. Put(u, t)  BY DEF Put
  <2>3. Enqueues(W, W2, t)  BY <2>1 DEF Enqueues
  <2> QED  BY <1>3, <2>2, <2>3, QueuedPut
<1>5. \A v \in Threads : Len(deque'[v]) <= QueueSize
  <2> TAKE v \in Threads
  <2>1. CASE v # u  BY <2>1, <1>3
  <2>2. CASE v = u
    <3> PICK s \in Seq(Tasks) : s = deque[u]  BY <1>3
    <3>1. deque'[u] = Append(s, t) /\ Len(Append(s, t)) = Len(s) + 1  BY <1>3
    <3>2. Len(s) < QueueSize /\ Len(s) \in Nat  OBVIOUS
    <3> QED  BY <2>2, <3>1, <3>2, QueueAssumption
  <2> QED  BY <2>1, <2>2
<1>9. DataTypes'  BY <1>2, <1>3, <1>4, <1>5 DEF Shape, Types, DataTypes, Give, Advanced, Stages
<1>10. ProxyOK(t, "queue")'
  <2>1. proxy'[t] = "parent"  BY <1>2, <1>3 DEF Advanced
  <2> QED  BY <1>1, <2>1 DEF ProxyOK, Give, Kind, Young, Late
<1>11. TaskOK(t, "queue")'
  <2>1. proxy'[t] = "parent" /\ proxy[t] = "give"  BY <1>2, <1>3 DEF Advanced
  <2>3. td' = td /\ node' = node /\ Kind(t)' = Kind(t)  BY DEF Give, Kind
  <2> QED  BY <1>1, <2>1, <2>3 DEF TaskOK, Late
<1>12. \A s \in Tasks : s # t => Calm(W, s)  BY <1>2, <1>3 DEF Calm, Give, Advanced
<1>13. \A s \in Tasks : td'[s].parent = td[s].parent  BY DEF Give
<1>16. Shape(W2, K)'
  <2>1. prog' = prog /\ stack' = stack /\ node' = node  BY DEF Give
  <2>2. "parent" \in Stages /\ "queue" \in Places  BY DEF Stages, Places
  <2>4. W[t] # "absent" /\ W[t] # "gone" /\ W[t] \in Loose  BY <1>1 DEF Loose
  <2> PICK w \in Places : w = "queue"  BY <2>2
  <2>6. ProxyOK(t, w)' /\ TaskOK(t, w)' /\ W2 = [W EXCEPT ![t] = w]  BY <1>10, <1>11
  <2>7. w # "absent" /\ (w \in Young => W[t] \in Young \/ Kind(t) = "proxy")  BY <1>1
  <2> QED  BY <1>2, <1>4, <1>9, <1>12, <1>13, <2>1, <2>2, <2>4, <2>6, <2>7, OutsideShape
<1> QED  BY <1>1, <1>2, <1>16

\* The second top half: one number of incomplete children goes down.
LEMMA TopHalfShape ==
    ASSUME NEW W, NEW K, Shape(W, K), NEW t \in Tasks, NEW a \in {"parent", "child"}, NEW b \in {"child", "done"},
           Advanced(t, a, b), a = "child" => b = "done",
           NEW x \in Descriptors, x \in Tasks => W[x] # "absent", IncWrites(x, td[x].inc - 1),
           UNCHANGED <<prog, stack, deque, groups, hash, node>>
    PROVE  /\ Shape(W, K)' /\ W[t] \in {"queue", "bottom"} /\ Kind(t) = "proxy" /\ Incd(x, td[x].inc - 1)
<1>1. Kind(t) = "proxy" /\ ProxyOK(t, W[t]) /\ TaskOK(t, W[t]) /\ W[t] \in {"queue", "bottom"} /\ W[t] \in Places
  BY ProxyFacts DEF Advanced
<1>3. /\ td \in [Descriptors -> TaskdataRecords] /\ t \in Descriptors /\ proxy \in [Tasks -> Stages] /\ W \in [Tasks -> Places]
  BY DEF Shape, Types, DataTypes, Descriptors
<1>4. Incd(x, td[x].inc - 1)
  <2> PICK v \in Int : v = td[x].inc - 1  BY <1>3, IncTypes DEF IncType, Shape
  <2>1. IncWrites(x, v)  OBVIOUS
  <2>2. Incd(x, v)  BY <1>3, <2>1, IncdTd
  <2> QED  BY <2>2
<1>9. DataTypes'  BY <1>3, <1>4 DEF Shape, Types, DataTypes, Advanced, Stages, Incd
<1>a. proxy'[t] = b /\ proxy[t] = a  BY <1>3 DEF Advanced
<1>b. /\ td'[t].complete = td[t].complete /\ td'[t].state = td[t].state /\ td'[t].node = td[t].node
  BY <1>3, <1>4 DEF AlikeButInc, Incd
<1>10. ProxyOK(t, W[t])'  BY <1>1, <1>a DEF ProxyOK, Kind, Young, Late
<1>11. TaskOK(t, W[t])'
  <2>3. node' = node /\ Kind(t)' = Kind(t)  BY DEF Kind
  <2> QED  BY <1>1, <1>a, <1>b, <2>3 DEF TaskOK, Late
<1>12. ASSUME NEW s \in Tasks, s # t PROVE Calm(W, s)
  <2>1. proxy'[s] = proxy[s] /\ AlikeButInc(td[s], td'[s])  BY <1>12, <1>3, <1>4 DEF Advanced, Descriptors, Incd
  <2>2. W[s] = "absent" => td'[s].inc = td[s].inc  BY <1>4 DEF Incd, Descriptors
  <2> QED  BY <2>1, <2>2 DEF Calm, AlikeButInc
<1>13. \A s \in Tasks : td'[s].parent = td[s].parent  BY <1>4 DEF AlikeButInc, Descriptors, Incd
<1>14. Queued(W)'  BY QueuedSame DEF Shape, Types, DataTypes
<1>16. Shape(W, K)'
  <2>2. b \in Stages  BY DEF Stages
  <2>4. W[t] # "absent" /\ W[t] # "gone" /\ W[t] # "launch"  BY <1>1
  <2> PICK w \in Places : w = W[t]  BY <1>1
  <2> PICK W2 : W2 = [W EXCEPT ![t] = w]  OBVIOUS
  <2>5. W2 = W  BY <1>3
  <2>6. ProxyOK(t, w)' /\ TaskOK(t, w)' /\ Queued(W2)'  BY <1>10, <1>11, <1>14, <2>5
  <2>7. w # "absent" /\ (w \in Young => W[t] \in Young \/ Kind(t) = "proxy")  BY <2>4
  <2>8. Shape(W2, K)'  BY <1>9, <1>12, <1>13, <2>2, <2>4, <2>6, <2>7, OutsideShape
  <2> QED  BY <2>5, <2>8
<1> QED  BY <1>1, <1>4, <1>16

\* LeaveParent keeps the shape.
LEMMA LeaveParentShape ==
    ASSUME NEW W, NEW K, Shape(W, K), NEW t \in Tasks, LeaveParent(t)
    PROVE  /\ Shape(W, K)' /\ W[t] \in {"queue", "bottom"} /\ Kind(t) = "proxy" /\ Advanced(t, "parent", "child")
           /\ td[t].parent \in Descriptors /\ td[t].parent # t /\ Incd(td[t].parent, td[td[t].parent].inc - 1)
<1>1. Advanced(t, "parent", "child")  BY DEF LeaveParent, Advance, Advanced
<1>2. W[t] # "absent"  BY <1>1, ProxyFacts DEF Advanced
<1> PICK x \in Descriptors : x = td[t].parent /\ x # t /\ (x \in Tasks => W[x] \notin Young)  BY <1>2, ParentFacts
<1>3. IncWrites(x, td[x].inc - 1)  BY DEF LeaveParent, IncWrites
<1>4. UNCHANGED <<prog, stack, deque, groups, hash, node>>  BY DEF LeaveParent
<1>5. x \in Tasks => W[x] # "absent"  BY DEF Young
<1>6. Shape(W, K)' /\ W[t] \in {"queue", "bottom"} /\ Kind(t) = "proxy" /\ Incd(x, td[x].inc - 1)
  BY <1>1, <1>3, <1>4, <1>5, TopHalfShape
<1> QED  BY <1>1, <1>6

\* Forget keeps the shape; the top half is done.
LEMMA ForgetShape ==
    ASSUME NEW W, NEW K, Shape(W, K), NEW t \in Tasks, Forget(t)
    PROVE  /\ Shape(W, K)' /\ W[t] \in {"queue", "bottom"} /\ Kind(t) = "proxy" /\ Advanced(t, "child", "done")
           /\ Incd(t, td[t].inc - 1)
<1>1. Advanced(t, "child", "done")  BY DEF Forget, Advance, Advanced
<1>2. W[t] # "absent" /\ t \in Descriptors  BY <1>1, ProxyFacts DEF Advanced, Descriptors
<1>3. IncWrites(t, td[t].inc - 1)  BY DEF Forget, IncWrites
<1>4. UNCHANGED <<prog, stack, deque, groups, hash, node>>  BY DEF Forget
<1> QED  BY <1>1, <1>2, <1>3, <1>4, TopHalfShape

----------------------------------------------------------------------------
(* Beginning and ending a taskgroup. *)

AlikeButGroup(r, q) ==
    /\ q \in TaskdataRecords
    /\ q.state = r.state /\ q.parent = r.parent /\ q.kids = r.kids /\ q.inc = r.inc
    /\ q.complete = r.complete /\ q.node = r.node
GroupSet(r, v) == [r EXCEPT !.group = v]

\* Writing the group of a descriptor.
LEMMA GroupSets ==
    ASSUME NEW r \in TaskdataRecords, NEW v \in GroupNames \union {Null}
    PROVE  AlikeButGroup(r, GroupSet(r, v)) /\ GroupSet(r, v).group = v
BY DEF TaskdataRecords, AlikeButGroup, GroupSet

\* One descriptor enters or leaves a group.
Regrouped(x, v) ==
    /\ td' \in [Descriptors -> TaskdataRecords]
    /\ \A d \in Descriptors : AlikeButGroup(td[d], td'[d]) /\ td'[d].group = IF d = x THEN v ELSE td[d].group
GroupWrites(x, v) == td' = [td EXCEPT ![x].group = v]

\* Writing the group of one descriptor.
LEMMA RegroupTd ==
    ASSUME td \in [Descriptors -> TaskdataRecords], NEW x \in Descriptors, NEW v \in GroupNames \union {Null},
           GroupWrites(x, v)
    PROVE  Regrouped(x, v)
<1> PICK r \in TaskdataRecords : r = td[x]  OBVIOUS
<1> PICK q : q = GroupSet(r, v)  OBVIOUS
<1>1. AlikeButGroup(r, q) /\ q.group = v  BY GroupSets
<1>2. td' = [td EXCEPT ![x] = q]  BY DEF GroupWrites, GroupSet
<1>3. td'[x] = q /\ \A d \in Descriptors : d # x => td'[d] = td[d]  BY <1>2
<1>4. td' \in [Descriptors -> TaskdataRecords]  BY <1>1, <1>2 DEF AlikeButGroup
<1>5. ASSUME NEW d \in Descriptors
      PROVE  AlikeButGroup(td[d], td'[d]) /\ td'[d].group = IF d = x THEN v ELSE td[d].group
  <2>1. CASE d = x  BY <2>1, <1>1, <1>3
  <2>2. CASE d # x  BY <2>2, <1>3 DEF AlikeButGroup
  <2> QED  BY <2>1, <2>2
<1> QED  BY <1>4, <1>5 DEF Regrouped

\* The groups are a function from names to records.
LEMMA GroupsMade ==
    ASSUME NEW D, D \subseteq GroupNames, NEW G, G = [h \in D |-> G[h]], \A h \in D : G[h] \in GroupRecords
    PROVE  DOMAIN G = D /\ G \in [DOMAIN G -> GroupRecords]
OBVIOUS

StepsOn(th) == SetTop(th, [Top(th) EXCEPT !.ip = @ + 1])
\* A construct that begins or ends a group.
LEMMA RegroupShape ==
    ASSUME NEW W, NEW K, Shape(W, K), NEW th \in Threads, NEW f, f = Top(th),
           NEW op, InBody(th, op), op # "none", NEW v \in GroupNames \union {Null}, GroupWrites(f.task, v),
           DOMAIN groups' \subseteq GroupNames, groups' \in [DOMAIN groups' -> GroupRecords],
           StepsOn(th), UNCHANGED <<prog, deque, hash, node, proxy>>
    PROVE  /\ Shape(W, K)' /\ Regrouped(f.task, v) /\ f \in FrameRecords
           /\ f.pc = "body" /\ f.ip \in 1..Len(prog.body[f.task]) /\ prog.body[f.task][f.ip][1] = op
           /\ f.task \in Tasks => W[f.task] = "body"
           /\ \E g : SetTop(th, g) /\ Stepped(f, g, "body")
<1>0. f \in FrameRecords /\ LocalOK(f) /\ FrameOK(f, W, K) /\ f.task \in Descriptors /\ Types  BY TaskFrame DEF Shape
<1>1. f.pc = "body"  BY <1>0, InBodyFacts
<1>2. Regrouped(f.task, v)  BY <1>0, RegroupTd DEF Types, DataTypes
<1> PICK g : g = WithIp(f, "body")  OBVIOUS
<1>3. Stepped(f, g, "body")  BY <1>0, SteppedFacts DEF Pcs, Bodily
<1>4. [f EXCEPT !.ip = @ + 1] = g  BY <1>0, <1>1 DEF WithIp, FrameRecords
<1>5. SetTop(th, g) /\ g \in FrameRecords  BY <1>3, <1>4 DEF Stepped, StepsOn
<1>6. /\ LocalOK(g)' /\ FrameOK(g, W, K)' /\ Continues(f, g) /\ HoldsOnly(g, f, W)
      /\ f.ip \in 1..Len(prog.body[f.task]) /\ prog.body[f.task][f.ip][1] = op
      /\ f.task \in Tasks => W[f.task] = "body"
  BY <1>3, SteppedOK
<1>7. \A s \in Tasks : td'[s].parent = td[s].parent  BY <1>2 DEF Regrouped, AlikeButGroup, Descriptors
<1>8. Lawful(W, K, W, K) /\ Moves(W, K, W, K, th)
  <2>1. ASSUME NEW s \in Tasks PROVE Calm(W, s)
    <3>1. AlikeButGroup(td[s], td'[s])  BY <1>2 DEF Regrouped, Descriptors
    <3>2. W[s] = "absent" => td'[s].group = td[s].group  BY <1>2, <1>6 DEF Regrouped, Descriptors
    <3> QED  BY <3>1, <3>2 DEF Calm, AlikeButGroup
  <2>2. DataTypes'  BY <1>2 DEF Shape, Types, DataTypes, Regrouped
  <2> QED  BY <1>7, <2>1, <2>2, LawfulSame, MovesNone
<1>9. Shape(W, K)'  BY <1>5, <1>6, <1>8, StepOne
<1> QED  BY <1>0, <1>1, <1>2, <1>3, <1>5, <1>6, <1>9

Opened(W, th, f, v) ==
    /\ Regrouped(f.task, v) /\ f \in FrameRecords
    /\ f.pc = "body" /\ f.ip \in 1..Len(prog.body[f.task]) /\ prog.body[f.task][f.ip][1] = "taskgroup"
    /\ f.task \in Tasks => W[f.task] = "body"
    /\ \E g : SetTop(th, g) /\ Stepped(f, g, "body")
    /\ DOMAIN groups' = DOMAIN groups \union {v}
    /\ \A h \in DOMAIN groups' : groups'[h] = IF h = v THEN [count |-> 0, outer |-> td[f.task].group] ELSE groups[h]

\* Taskgroup keeps the shape; the new group is empty.
LEMMA TaskgroupShape ==
    ASSUME NEW W, NEW K, Shape(W, K), NEW th \in Threads, NEW f, f = Top(th), Taskgroup(th)
    PROVE  Shape(W, K)' /\ \E v \in GroupNames : v = <<f.task, f.ip>> /\ Opened(W, th, f, v)
<1>0. f \in FrameRecords /\ f.task \in Descriptors /\ f.ip \in Nat /\ Types  BY TaskFrame DEF Shape, FrameRecords
<1>1. <<f.task, f.ip>> \in GroupNames  BY <1>0 DEF GroupNames
<1> PICK v \in GroupNames \union {Null} : v = <<f.task, f.ip>>  BY <1>1
<1> PICK o \in GroupNames \union {Null} : o = td[f.task].group  BY <1>0 DEF Types, DataTypes, TaskdataRecords
<1> PICK D : D = DOMAIN groups \union {v}  OBVIOUS
<1> PICK G : G = groups'  OBVIOUS
<1>2. G = [h \in D |-> IF h = v THEN [count |-> 0, outer |-> o] ELSE groups[h]]  BY DEF Taskgroup
<1>a. \A h \in D : G[h] = IF h = v THEN [count |-> 0, outer |-> o] ELSE groups[h]  BY <1>2
<1>b. G = [h \in D |-> G[h]]  BY <1>2
<1>c. [count |-> 0, outer |-> o] \in GroupRecords  BY DEF GroupRecords
<1>d. \A h \in D : G[h] \in GroupRecords  BY <1>0, <1>a, <1>c DEF Types, DataTypes
<1>e. D \subseteq GroupNames  BY <1>0, <1>1 DEF Types, DataTypes
<1> HIDE <1>2
<1>3. DOMAIN G = D /\ G \in [DOMAIN G -> GroupRecords]  BY <1>b, <1>d, <1>e, GroupsMade, Zenon
<1>4. DOMAIN groups' \subseteq GroupNames /\ groups' \in [DOMAIN groups' -> GroupRecords]  BY <1>3, <1>e
<1>5. GroupWrites(f.task, v)  BY DEF Taskgroup, GroupWrites
<1>6. StepsOn(th) /\ UNCHANGED <<prog, deque, hash, node, proxy>> /\ InBody(th, "taskgroup")
  BY DEF Taskgroup, StepsOn
<1>7. /\ Shape(W, K)' /\ Regrouped(f.task, v) /\ f \in FrameRecords
      /\ f.pc = "body" /\ f.ip \in 1..Len(prog.body[f.task]) /\ prog.body[f.task][f.ip][1] = "taskgroup"
      /\ f.task \in Tasks => W[f.task] = "body"
      /\ \E g : SetTop(th, g) /\ Stepped(f, g, "body")
  BY <1>4, <1>5, <1>6, RegroupShape
<1>8. \A h \in DOMAIN groups' : groups'[h] = IF h = v THEN [count |-> 0, outer |-> td[f.task].group] ELSE groups[h]
  BY <1>3, <1>a
<1>9. Opened(W, th, f, v)  BY <1>3, <1>7, <1>8 DEF Opened
<1> QED  BY <1>1, <1>7, <1>9

Closed(W, th, f, v) ==
    /\ Regrouped(f.task, groups[v].outer) /\ f \in FrameRecords
    /\ f.pc = "body" /\ f.ip \in 1..Len(prog.body[f.task]) /\ prog.body[f.task][f.ip][1] = "end"
    /\ f.task \in Tasks => W[f.task] = "body"
    /\ \E g : SetTop(th, g) /\ Stepped(f, g, "body")
    /\ DOMAIN groups' = DOMAIN groups \ {v}
    /\ \A h \in DOMAIN groups' : groups'[h] = groups[h]

\* EndTaskgroup keeps the shape; the outer group comes back.
LEMMA EndTaskgroupShape ==
    ASSUME NEW W, NEW K, Shape(W, K), NEW th \in Threads, NEW f, f = Top(th), EndTaskgroup(th),
           td[f.task].group \in DOMAIN groups
    PROVE  Shape(W, K)' /\ Closed(W, th, f, td[f.task].group) /\ groups[td[f.task].group].count = 0
<1>0. f \in FrameRecords /\ f.task \in Descriptors /\ f.ip \in Nat /\ Types  BY TaskFrame DEF Shape, FrameRecords
<1>1. groups[td[f.task].group].outer \in GroupNames \union {Null}
  BY <1>0 DEF Types, DataTypes, GroupRecords
<1> PICK v \in GroupNames \union {Null} : v = groups[td[f.task].group].outer  BY <1>1
<1> PICK D : D = DOMAIN groups \ {td[f.task].group}  OBVIOUS
<1> PICK G : G = groups'  OBVIOUS
<1>2. G = [h \in D |-> groups[h]]  BY DEF EndTaskgroup
<1>a. \A h \in D : G[h] = groups[h]  BY <1>2
<1>b. G = [h \in D |-> G[h]]  BY <1>2
<1>d. \A h \in D : G[h] \in GroupRecords  BY <1>0, <1>a DEF Types, DataTypes
<1>e. D \subseteq GroupNames  BY <1>0, <1>1 DEF Types, DataTypes
<1> HIDE <1>2
<1>3. DOMAIN G = D /\ G \in [DOMAIN G -> GroupRecords]  BY <1>b, <1>d, <1>e, GroupsMade
<1>4. DOMAIN groups' \subseteq GroupNames /\ groups' \in [DOMAIN groups' -> GroupRecords]  BY <1>3, <1>e
<1>5. GroupWrites(f.task, v)  BY DEF EndTaskgroup, GroupWrites
<1>6. StepsOn(th) /\ UNCHANGED <<prog, deque, hash, node, proxy>> /\ InBody(th, "end")
  BY DEF EndTaskgroup, StepsOn
<1>7. /\ Shape(W, K)' /\ Regrouped(f.task, v) /\ f \in FrameRecords
      /\ f.pc = "body" /\ f.ip \in 1..Len(prog.body[f.task]) /\ prog.body[f.task][f.ip][1] = "end"
      /\ f.task \in Tasks => W[f.task] = "body"
      /\ \E g : SetTop(th, g) /\ Stepped(f, g, "body")
  BY <1>4, <1>5, <1>6, RegroupShape
<1>8. \A h \in DOMAIN groups' : groups'[h] = groups[h]  BY <1>3, <1>a
<1>9. Closed(W, th, f, td[f.task].group)  BY <1>3, <1>7, <1>8 DEF Closed
<1>10. groups[td[f.task].group].count = 0  BY DEF EndTaskgroup
<1> QED  BY <1>7, <1>9, <1>10

----------------------------------------------------------------------------
(* Submitting a task: launched, queued, or executed at once when the deque   *)
(* is full.                                                                  *)

Made(e, t, pc) ==
    e \in FrameRecords /\ e.task = t /\ e.ip = 1 /\ e.pc = pc /\ e.x = t /\ e.todo = <<>>

\* The frame of a task that starts.
LEMMA FrameMade == \A t \in Tasks : \A pc \in Pcs : Made(Frame(t, pc), t, pc)
BY DEF Frame, Made, FrameRecords, Descriptors

\* Pushing the frame of task t that starts.
LEMMA MadeOK ==
    ASSUME NEW W, NEW K, Shape(W, K), NEW t \in Tasks, NEW pc \in {"body", "launch", "bottom"}, prog' = prog,
           NEW e, Made(e, t, pc), NEW W2, W2[t] = pc, pc = "body" <=> Kind(t) # "proxy",
           pc = "launch" => proxy'[t] = "idle"
    PROVE  LocalOK(e)' /\ FrameOK(e, W2, K)' /\ \A s : Holds(e, s) => s = t
<1>1. Len(prog.body[t]) \in Nat /\ (Kind(t) = "proxy" => Len(prog.body[t]) = 0)
  BY ProgramFacts, EmptySeq DEF Shape, Descriptors
<1>2. t \notin Threads  BY TaskNames
<1>3. LocalOK(e)'  BY <1>1, <1>2 DEF LocalOK, Made, Kind, Bodily, Creating, Proxying
<1>4. \A s : Holds(e, s) => s = t  BY DEF Holds, Makes, Pushes, Made, Creating
<1>5. \A s \in Tasks : ~Pushes(e, s)'  BY DEF Pushes, Made
<1>6. FrameOK(e, W2, K)'  BY <1>5 DEF FrameOK, Made, Place, Creating, Bodily
<1> QED  BY <1>3, <1>4, <1>6

PushFrames(th, g, e) == stack' = [stack EXCEPT ![th] = Front(@) \o <<g, e>>]
Starts(th, t, e, pc) == Made(e, t, pc) /\ deque' = deque
SubmitPlace(th, t) ==
    IF Kind(t) = "proxy" THEN "launch" ELSE IF Len(deque[th]) < QueueSize THEN "queue" ELSE "body"
\* Queued when there is room, else started on top.
SubmitOutcome(th, t, g) ==
    \/ SubmitPlace(th, t) = "queue" /\ SetTop(th, g) /\ Put(th, t) /\ Len(deque[th]) < QueueSize
    \/ /\ SubmitPlace(th, t) # "queue"
       /\ \E e : Made(e, t, SubmitPlace(th, t)) /\ PushFrames(th, g, e) /\ deque' = deque

\* A submitted task is queued, or starts at once.
LEMMA SubmitCases ==
    ASSUME Types, NEW th \in Threads, NEW t \in Tasks, NEW g, Submit(th, t, g)
    PROVE  SameTd /\ SubmitOutcome(th, t, g)
<1>0. td \in [Descriptors -> TaskdataRecords]  BY DEF Types, DataTypes
<1>1. CASE Kind(t) # "proxy" /\ Len(deque[th]) < QueueSize
  <2>1. SetTop(th, g) /\ td' = td /\ Put(th, t)  BY <1>1 DEF Submit, Put
  <2> QED  BY <1>0, <1>1, <2>1, TdUnchanged DEF SubmitPlace, SubmitOutcome
<1>2. CASE ~(Kind(t) # "proxy" /\ Len(deque[th]) < QueueSize)
  <2> PICK pc \in Pcs : pc = IF Kind(t) = "proxy" THEN "launch" ELSE "body"  BY DEF Pcs, Bodily, Proxying
  <2> PICK e : e = Frame(t, pc)  OBVIOUS
  <2>1. Made(e, t, pc)  BY FrameMade
  <2>2. PushFrames(th, g, e) /\ deque' = deque  BY <1>2 DEF Submit, PushFrames
  <2>3. td' = td \/ td' = Started(Current(stack[th]), t)  BY <1>2 DEF Submit
  <2>4. SameTd  BY <1>0, <2>3, TdUnchanged, StartedFacts
  <2>5. pc = SubmitPlace(th, t) /\ pc # "queue"  BY <1>2 DEF SubmitPlace
  <2> QED  BY <2>1, <2>2, <2>4, <2>5 DEF SubmitOutcome
<1> QED  BY <1>1, <1>2

\* Submitting a task that its frame holds keeps the shape.
LEMMA SubmitShape ==
    ASSUME NEW W, NEW K, Shape(W, K), NEW th \in Threads, NEW f, f = Top(th),
           NEW t \in Tasks, W[t] \in {"ready", "push"}, Holds(f, t), Kind(t) # "if0",
           NEW w, w = SubmitPlace(th, t), NEW W2, W2 = [W EXCEPT ![t] = w],
           NEW g \in FrameRecords, Submit(th, t, g), Continues(f, g), LocalOK(g)', FrameOK(g, W2, K)', HoldsOnly(g, f, W),
           ~Holds(g, t), UNCHANGED <<prog, groups, hash, node, proxy>>
    PROVE  /\ Shape(W2, K)' /\ SameTd /\ w \in {"queue", "launch", "body"}
           /\ SubmitOutcome(th, t, g)
<1>0. W \in [Tasks -> Places] /\ Types /\ deque \in [Threads -> Seq(Tasks)] /\ Queued(W)
  BY DEF Shape, Types, DataTypes
<1>1. SameTd /\ SubmitOutcome(th, t, g)  BY <1>0, SubmitCases
<1>2. w \in {"queue", "launch", "body"}  BY DEF SubmitPlace
<1>3. W2[t] = w /\ \A s \in Tasks : s # t => W2[s] = W[s]  BY <1>0
<1>4. \A s \in Tasks : td'[s].parent = td[s].parent  BY <1>1 DEF SameTd, TdAlike, Descriptors
<1>5. Moves(W, K, W2, K, th)  BY <1>0, <1>1, MovesOne
<1>6. \A s \in Tasks : Calm(W, s)
  BY <1>1, CalmFrom DEF SameTd, Descriptors, NodeAlike
<1>7. ProxyOK(t, W[t]) /\ TaskOK(t, W[t])  BY DEF Shape
<1>8. ProxyOK(t, w)'
  <2>1. w = "launch" <=> Kind(t) = "proxy"  BY DEF SubmitPlace
  <2>2. proxy'[t] = proxy[t] /\ Kind(t)' = Kind(t)  BY DEF Kind
  <2> QED  BY <1>2, <1>7, <2>1, <2>2 DEF ProxyOK, Young, Late
<1>9. TaskOK(t, w)'
  <2>1. Calm(W, t)  BY <1>6
  <2>2. W[t] # "absent" /\ W[t] \notin Late /\ w # "absent" /\ w \notin Late \union {"group"}  BY <1>2 DEF Late
  <2> QED  BY <1>2, <1>7, <2>1, <2>2 DEF TaskOK, Calm, Late, Kind
<1>p. prog' = prog  OBVIOUS
<1>10. w \in Places /\ W[t] \notin {"absent", "gone"} /\ w # "absent" /\ W[t] \in Young
  BY <1>2 DEF Places, Young
<1>11. ASSUME Queued(W2)', DataTypes' PROVE Lawful(W, K, W2, K)
  BY <1>4, <1>6, <1>8, <1>9, <1>10, <1>11, LawfulOne
<1>12. ASSUME deque' \in [Threads -> Seq(Tasks)], \A u \in Threads : Len(deque'[u]) <= QueueSize PROVE DataTypes'
  BY <1>0, <1>1, <1>12 DEF Types, DataTypes, SameTd
<1>13. CASE w = "queue" /\ SetTop(th, g) /\ Put(th, t) /\ Len(deque[th]) < QueueSize
  <2>1. Enqueues(W, W2, t)  BY <1>3, <1>13 DEF Enqueues
  <2>2. Queued(W2)' /\ deque' \in [Threads -> Seq(Tasks)]  BY <1>0, <1>13, <2>1, QueuedPut
  <2>3. \A u \in Threads : Len(deque'[u]) <= QueueSize
    <3> TAKE u \in Threads
    <3>1. CASE u # th  BY <1>0, <1>13, <3>1 DEF Put, Types, DataTypes
    <3>2. CASE u = th
      <4>1. deque'[u] = Append(deque[u], t)  BY <1>0, <1>13, <3>2 DEF Put
      <4> PICK q \in Seq(Tasks) : q = deque[u]  BY <1>0
      <4>2. Len(Append(q, t)) = Len(q) + 1  OBVIOUS
      <4> PICK n \in Nat : n = Len(q)  OBVIOUS
      <4>3. n < QueueSize => n + 1 <= QueueSize  BY QueueAssumption
      <4> QED  BY <1>13, <3>2, <4>1, <4>2, <4>3
    <3> QED  BY <3>1, <3>2
  <2>4. Lawful(W, K, W2, K)  BY <1>11, <1>12, <2>2, <2>3
  <2> QED  BY <1>p, <1>1, <1>2, <1>5, <1>13, <2>4, StepOne
<1>14. ASSUME NEW e, Made(e, t, w), PushFrames(th, g, e), deque' = deque, w # "queue" PROVE Shape(W2, K)'
  <2>1. W[t] # "queue"  OBVIOUS
  <2>2. Queued(W2)'
    <3>1. \A s \in Tasks : W[s] = "queue" => W2[s] = "queue"  BY <1>3
    <3> QED  BY <1>0, <1>14, <3>1, QueuedSame
  <2>3. Lawful(W, K, W2, K)  BY <1>0, <1>11, <1>12, <1>14, <2>2 DEF Types, DataTypes
  <2>4. w \in {"body", "launch", "bottom"}  BY <1>2, <1>14
  <2>5. w = "body" <=> Kind(t) # "proxy"  BY <1>14 DEF SubmitPlace
  <2>6. w = "launch" => proxy'[t] = "idle"  BY <1>7, <2>5 DEF ProxyOK, Young
  <2>a. W2[t] = w  BY <1>3
  <2>b. Made(e, t, w)  BY <1>14
  <2>7. LocalOK(e)' /\ FrameOK(e, W2, K)' /\ \A s : Holds(e, s) => s = t
    <3>1. LocalOK(e)'  BY <1>p, <2>a, <2>b, <2>4, <2>5, <2>6, MadeOK
    <3>2. FrameOK(e, W2, K)'
      <4>1. \A s \in Tasks : ~Pushes(e, s)'  BY <2>b, <2>4 DEF Pushes, Made
      <4> QED  BY <2>a, <2>b, <2>4, <2>6, <4>1 DEF FrameOK, Made, Place, Creating, Bodily
    <3>3. \A s : Holds(e, s) => s = t  BY <1>p, <2>a, <2>b, <2>4, <2>5, <2>6, MadeOK
    <3> QED  BY <3>1, <3>2, <3>3
  <2>8. HoldsOnly(e, f, W) /\ \A s \in Tasks : ~(Holds(g, s) /\ Holds(e, s))  BY <2>7 DEF HoldsOnly
  <2>9. e \in FrameRecords /\ e.task = t  BY <1>14 DEF Made
  <2>10. stack' = [stack EXCEPT ![th] = Front(@) \o <<g, e>>]  BY <1>14 DEF PushFrames
  <2>11. e.task \in Tasks /\ (W[e.task] \in Young \/ Kind(e.task) = "proxy")  BY <1>10, <2>9
  <2> QED  BY <1>5, <2>3, <2>7, <2>8, <2>9, <2>10, <2>11, <1>p, StepTwo
<1> QED  BY <1>1, <1>2, <1>13, <1>14 DEF SubmitOutcome

----------------------------------------------------------------------------
(* The set of all frames after a step. *)

\* The frames are those of the stacks.
LEMMA InFrames ==
    ASSUME stack \in [Threads -> Seq(FrameRecords)], NEW f
    PROVE  f \in Frames <=> \E th \in Threads : \E i \in 1..Len(stack[th]) : stack[th][i] = f
<1>1. \A th \in Threads : DOMAIN stack[th] = 1..Len(stack[th])  OBVIOUS
<1> QED  BY <1>1 DEF Frames, ToSet

\* What the invariant says of a frame.
LEMMA FrameFacts ==
    ASSUME NEW W, NEW K, Shape(W, K), NEW f \in Frames
    PROVE  f \in FrameRecords /\ LocalOK(f) /\ FrameOK(f, W, K) /\ f.task \in Descriptors
<1>0. stack \in [Threads -> Seq(FrameRecords)]  BY DEF Shape, Types
<1> PICK th \in Threads : \E i \in 1..Len(stack[th]) : stack[th][i] = f  BY <1>0, InFrames
<1> PICK i \in 1..Len(stack[th]) : stack[th][i] = f  OBVIOUS
<1>1. f \in FrameRecords  BY <1>0, FrameTyped
<1>2. LocalOK(f) /\ FrameOK(f, W, K)  BY DEF Shape, Stacks, FramesOK
<1> QED  BY <1>1, <1>2 DEF FrameRecords

\* Two frames are of different tasks, and no two hold a task.
LEMMA OneHolder ==
    ASSUME NEW W, NEW K, Shape(W, K), NEW f \in Frames, NEW h \in Frames
    PROVE  /\ f.task = h.task => f = h
           /\ \A t \in Tasks : Holds(f, t) /\ Holds(h, t) => f = h
<1>0. stack \in [Threads -> Seq(FrameRecords)]  BY DEF Shape, Types
<1> PICK th \in Threads : \E i \in 1..Len(stack[th]) : stack[th][i] = f  BY <1>0, InFrames
<1> PICK i \in 1..Len(stack[th]) : stack[th][i] = f  OBVIOUS
<1> PICK u \in Threads : \E j \in 1..Len(stack[u]) : stack[u][j] = h  BY <1>0, InFrames
<1> PICK j \in 1..Len(stack[u]) : stack[u][j] = h  OBVIOUS
<1>1. f.task = h.task => f = h  BY OneFrame
<1>2. \A t \in Tasks : Holds(f, t) /\ Holds(h, t) => f = h
  <2>1. \A t \in Tasks : Holds(stack[th][i], t) /\ Holds(stack[u][j], t) => th = u /\ i = j  BY DEF Shape, Unique
  <2> TAKE t \in Tasks
  <2> HAVE Holds(f, t) /\ Holds(h, t)
  <2>2. Holds(stack[th][i], t) /\ Holds(stack[u][j], t)  OBVIOUS
  <2>3. th = u /\ i = j  BY <2>1, <2>2
  <2> QED  BY <2>3
<1> QED  BY <1>1, <1>2

\* A top frame is a frame.
LEMMA TopIn ==
    ASSUME NEW W, NEW K, Shape(W, K), NEW th \in Threads
    PROVE  Top(th) \in Frames
<1>1. stack \in [Threads -> Seq(FrameRecords)]  BY DEF Shape, Types
<1>2. Top(th) = stack[th][Len(stack[th])] /\ Len(stack[th]) \in 1..Len(stack[th])  BY TopFacts
<1> QED  BY <1>1, <1>2, InFrames

\* The frames of the next state: those of new for f.
Remade(f, new) ==
    /\ f \in Frames
    /\ \A h \in Frames' : h \in new \/ (h \in Frames /\ h # f)
    /\ \A h \in Frames : h = f \/ h \in Frames'
    /\ new \subseteq Frames'

\* The frames after a step are the others and the new ones.
LEMMA RemadeFrom ==
    ASSUME NEW W, NEW K, Shape(W, K), NEW th \in Threads, NEW new \in Seq(FrameRecords), Replaced(th, new),
           NEW S, S = {new[k] : k \in 1..Len(new)}
    PROVE  Remade(Top(th), S)
<1> DEFINE f == Top(th)
<1>0. /\ stack \in [Threads -> Seq(FrameRecords)] /\ stack[th] # <<>> /\ f = stack[th][Len(stack[th])]
      /\ Len(stack[th]) \in 1..Len(stack[th]) /\ Len(stack[th]) \in Nat
  BY TopFacts
<1>1. stack' \in [Threads -> Seq(FrameRecords)]  BY DEF Replaced
<1>2. \A h : h \in Frames' <=> \E u \in Threads : \E i \in 1..Len(stack'[u]) : stack'[u][i] = h
  <2>1. \A u \in Threads : DOMAIN stack'[u] = 1..Len(stack'[u])  BY <1>1
  <2> QED  BY <2>1 DEF Frames, ToSet
<1>3. f \in Frames  BY TopIn
<1>4. ASSUME NEW h \in Frames' PROVE h \in S \/ (h \in Frames /\ h # f)
  <2> PICK u \in Threads : \E i \in 1..Len(stack'[u]) : stack'[u][i] = h  BY <1>2
  <2> PICK i \in 1..Len(stack'[u]) : stack'[u][i] = h  OBVIOUS
  <2>1. CASE i \in 1..Len(stack[u]) /\ (u # th \/ i < Len(stack[u])) /\ stack'[u][i] = stack[u][i]
    <3>1. h \in Frames  BY <1>0, <2>1, InFrames
    <3>2. h # f
      <4> SUFFICES ASSUME h = f PROVE FALSE  OBVIOUS
      <4>1. u = th /\ i = Len(stack[th])  BY <1>0, <2>1, OneFrame
      <4> QED  BY <1>0, <2>1, <4>1
    <3> QED  BY <3>1, <3>2
  <2>2. CASE u = th /\ \E k \in 1..Len(new) : i = Len(stack[th]) - 1 + k /\ stack'[u][i] = new[k]  BY <2>2
  <2> QED  BY <1>0, <2>1, <2>2, EachFrame
<1>5. ASSUME NEW h \in Frames, h # f PROVE h \in Frames'
  <2> PICK u \in Threads : \E i \in 1..Len(stack[u]) : stack[u][i] = h  BY <1>0, InFrames
  <2> PICK i \in 1..Len(stack[u]) : stack[u][i] = h  OBVIOUS
  <2>1. u # th \/ i < Len(stack[u])
    <3> SUFFICES ASSUME u = th PROVE i < Len(stack[u])  OBVIOUS
    <3>1. i # Len(stack[th])  BY <1>0, <1>5
    <3> QED  BY <1>0, <3>1
  <2>2. stack'[u][i] = h /\ i \in 1..Len(stack'[u])
    <3>1. CASE u # th  BY <3>1 DEF Replaced
    <3>2. CASE u = th
      <4> PICK n \in Nat : n = Len(new)  OBVIOUS
      <4>1. i \in 1..Len(stack[th]) - 1 /\ Len(stack'[u]) = Len(stack[th]) - 1 + n
        BY <1>0, <2>1, <3>2 DEF Replaced
      <4> QED  BY <1>0, <3>2, <4>1 DEF Replaced
    <3> QED  BY <3>1, <3>2
  <2> QED  BY <1>2, <2>2
<1>6. S \subseteq Frames'
  <2> SUFFICES ASSUME NEW k \in 1..Len(new) PROVE new[k] \in Frames'  OBVIOUS
  <2> PICK n \in Nat : n = Len(new)  OBVIOUS
  <2>1. Len(stack[th]) - 1 + k \in 1..Len(stack'[th])  BY <1>0 DEF Replaced
  <2>2. stack'[th][Len(stack[th]) - 1 + k] = new[k]  BY DEF Replaced
  <2> QED  BY <1>2, <2>1, <2>2
<1> QED  BY <1>3, <1>4, <1>5, <1>6 DEF Remade

\* One frame in place of the top one.
LEMMA SetFrames ==
    ASSUME NEW W, NEW K, Shape(W, K), NEW th \in Threads, NEW g \in FrameRecords, SetTop(th, g)
    PROVE  Remade(Top(th), {g})
<1>0. stack \in [Threads -> Seq(FrameRecords)] /\ stack[th] # <<>>  BY TopFacts
<1> PICK new : new = <<g>>  OBVIOUS
<1>1. Replaced(th, new) /\ new \in Seq(FrameRecords) /\ Len(new) = 1 /\ new[1] = g  BY <1>0, SetReplaces
<1>2. {g} = {new[k] : k \in 1..Len(new)}  BY <1>1
<1> QED  BY <1>1, <1>2, RemadeFrom

\* Two frames in place of the top one.
LEMMA PushedFrames ==
    ASSUME NEW W, NEW K, Shape(W, K), NEW th \in Threads, NEW g \in FrameRecords, NEW e \in FrameRecords, PushFrames(th, g, e)
    PROVE  Remade(Top(th), {g, e})
<1>0. stack \in [Threads -> Seq(FrameRecords)] /\ stack[th] # <<>>  BY TopFacts
<1> PICK new : new = <<g, e>>  OBVIOUS
<1>1. Replaced(th, new) /\ new \in Seq(FrameRecords) /\ Len(new) = 2 /\ new[1] = g /\ new[2] = e
  BY <1>0, PushReplaces DEF PushFrames
<1>2. {g, e} = {new[k] : k \in 1..Len(new)}  BY <1>1
<1> QED  BY <1>1, <1>2, RemadeFrom

\* No frame in place of the top one.
LEMMA PoppedFrames ==
    ASSUME NEW W, NEW K, Shape(W, K), NEW th \in Threads, stack' = [stack EXCEPT ![th] = Front(@)]
    PROVE  Remade(Top(th), {})
<1>0. stack \in [Threads -> Seq(FrameRecords)] /\ stack[th] # <<>>  BY TopFacts
<1> PICK new : new = <<>>  OBVIOUS
<1>1. Replaced(th, new) /\ new \in Seq(FrameRecords) /\ Len(new) = 0  BY <1>0, PopReplaces
<1>2. {} = {new[k] : k \in 1..Len(new)}  BY <1>1
<1> QED  BY <1>1, <1>2, RemadeFrom

\* A frame that stays shares nothing with the one that is replaced.
LEMMA Others ==
    ASSUME NEW W, NEW K, Shape(W, K), NEW f, NEW new, Remade(f, new), NEW h \in Frames', h \notin new
    PROVE  h \in Frames /\ h.task # f.task /\ \A t \in Tasks : Holds(h, t) => ~Holds(f, t)
BY OneHolder DEF Remade

----------------------------------------------------------------------------
(* Submitting a new task, a released one, and beginning an if0 task. *)

\* SubmitNew keeps the shape.
LEMMA SubmitNewShape ==
    ASSUME NEW W, NEW K, Shape(W, K), NEW th \in Threads, NEW f, f = Top(th), SubmitNew(th),
           NEW W2, W2 = [W EXCEPT ![f.x] = SubmitPlace(th, f.x)]
    PROVE  /\ Shape(W2, K)' /\ SameTd /\ f.x \in Tasks /\ W[f.x] = "ready" /\ f.pc = "submit" /\ Kind(f.x) # "if0"
           /\ \E g : Turn(f, g, "body") /\ SubmitOutcome(th, f.x, g)
<1>0. W \in [Tasks -> Places] /\ Types  BY DEF Shape
<1>1. f.pc = "submit"  BY DEF SubmitNew, At
<1>2. /\ f \in FrameRecords /\ f.task \in Descriptors /\ f.x \in Tasks /\ W[f.x] = "ready" /\ LocalOK(f)
      /\ f.task \in Tasks => W[f.task] = "body" /\ Kind(f.task) # "proxy"
  BY <1>1, TaskFrame DEF Creating, Bodily, Making
<1> PICK t \in Tasks : t = f.x  BY <1>2
<1> PICK w : w = SubmitPlace(th, t)  OBVIOUS
<1>3. Kind(t) # "if0"  BY <1>1, <1>2 DEF LocalOK
<1>4. "body" \in Pcs  BY DEF Pcs, Bodily
<1> PICK g : Turn(f, g, "body")  BY <1>2, <1>4, Turned
<1>5. g \in FrameRecords /\ g = [Top(th) EXCEPT !.pc = "body"] /\ g.task = f.task /\ g.ip = f.ip /\ g.pc = "body" /\ g.todo = f.todo
  BY DEF Turn
<1>6. Submit(th, t, g) /\ UNCHANGED <<prog, groups, hash, node, proxy>>  BY <1>5 DEF SubmitNew
<1> HIDE <1>5
<1>7. /\ g \in FrameRecords /\ g.task = f.task /\ g.ip = f.ip /\ g.pc = "body" /\ g.todo = f.todo
  BY DEF Turn
<1>8. Holds(f, t)  BY <1>1 DEF Holds, Makes, Creating
<1>9. \A s \in Tasks : Holds(g, s) <=> s = f.task  BY <1>7 DEF Holds, Makes, Pushes, Creating
<1>10. HoldsOnly(g, f, W)  BY <1>9 DEF HoldsOnly, Holds
<1>11. ~Holds(g, t)  BY <1>2, <1>9
<1>12. W2 = [W EXCEPT ![t] = w]  OBVIOUS
<1>13. \A s \in Tasks : s # t => W2[s] = W[s]  BY <1>0, <1>12
<1>14. LocalOK(g)'  BY <1>1, <1>2, <1>6, <1>7 DEF LocalOK, Kind, Creating, Bodily, Proxying
<1>15. FrameOK(g, W2, K)'
  <2>1. \A s \in Tasks : ~Pushes(g, s)'  BY <1>7 DEF Pushes
  <2>2. f.task \in Tasks => W2[f.task] = "body"  BY <1>2, <1>13
  <2> QED  BY <1>7, <2>1, <2>2 DEF FrameOK, Place, Bodily, Creating
<1>16. Continues(f, g)  BY <1>2, <1>7 DEF Continues, FrameRecords
<1>17. Shape(W2, K)' /\ SameTd /\ SubmitOutcome(th, t, g)
  BY <1>2, <1>3, <1>6, <1>7, <1>8, <1>10, <1>11, <1>12, <1>14, <1>15, <1>16, SubmitShape, Zenon
<1> QED  BY <1>1, <1>2, <1>3, <1>17

\* SubmitReleased keeps the shape; an if0 successor is not pushed.
LEMMA SubmitReleasedShape ==
    ASSUME NEW W, NEW K, Shape(W, K), NEW th \in Threads, NEW f, f = Top(th), SubmitReleased(th), NEW s, s = Head(f.todo),
           NEW W2, W2 = IF node[s].task THEN [W EXCEPT ![s] = SubmitPlace(th, s)] ELSE W
    PROVE  /\ Shape(W2, K)' /\ SameTd /\ f.task \in Tasks /\ W[f.task] = "told" /\ s \in Tasks /\ f.pc = "push"
           /\ IF node[s].task THEN W[s] = "push" /\ \E g : Turn(f, g, "drop") /\ SubmitOutcome(th, s, g)
              ELSE Kind(s) = "if0" /\ deque' = deque /\ \E g : Turn(f, g, "drop") /\ SetTop(th, g)
<1>0. W \in [Tasks -> Places] /\ Types  BY DEF Shape
<1>1. f.pc = "push"  BY DEF SubmitReleased, At
<1>2. /\ f \in FrameRecords /\ f.task \in Tasks /\ W[f.task] = "told" /\ LocalOK(f) /\ FrameOK(f, W, K)
  BY <1>1, TaskFrame DEF Finishing
<1>3. f.todo \in Seq(Tasks) /\ f.todo # <<>>  BY <1>1, <1>2 DEF LocalOK, FrameRecords
<1>4. s \in Tasks  BY <1>3, ListFacts
<1>5. TaskOK(s, W[s])  BY <1>4 DEF Shape
<1>a. ~node[s].task => Kind(s) = "if0"
  <2> SUFFICES ASSUME ~node[s].task, Kind(s) # "if0" PROVE FALSE  OBVIOUS
  <2>1. W[s] = "push"  BY <1>1, <1>2, <1>4 DEF FrameOK, Pushes
  <2> QED  BY <1>5, <2>1 DEF TaskOK
<1>4a. "drop" \in Pcs  BY DEF Pcs, Finishing
<1> PICK g : Turn(f, g, "drop")  BY <1>2, <1>4a, Turned
<1>6. g \in FrameRecords /\ g = [Top(th) EXCEPT !.pc = "drop"]  BY DEF Turn
<1>7. prog' = prog /\ groups' = groups /\ hash' = hash /\ node' = node /\ proxy' = proxy  BY DEF SubmitReleased
<1>8. node[s].task => Submit(th, s, g)  BY <1>6 DEF SubmitReleased
<1>9. ~node[s].task => SetTop(th, g) /\ deque' = deque /\ td' = td  BY <1>6 DEF SubmitReleased, Goto
<1> HIDE <1>6
<1>10. /\ g \in FrameRecords /\ g.task = f.task /\ g.ip = f.ip /\ g.pc = "drop" /\ g.todo = f.todo
  BY DEF Turn
<1>11. \A t \in Tasks : Holds(g, t) <=> t = f.task  BY <1>10 DEF Holds, Makes, Pushes, Creating
<1>12. HoldsOnly(g, f, W)  BY <1>11 DEF HoldsOnly, Holds
<1>13. LocalOK(g)'  BY <1>1, <1>2, <1>7, <1>10, TaskNames DEF LocalOK, Kind, Creating, Bodily, Proxying
<1>14. \A t \in Tasks : ~Pushes(g, t)'  BY <1>10 DEF Pushes
<1>16. Continues(f, g)  BY <1>2, <1>10 DEF Continues, FrameRecords
<1>17. ASSUME node[s].task PROVE Shape(W2, K)' /\ SameTd /\ SubmitOutcome(th, s, g) /\ W[s] = "push"
  <2>1. Kind(s) # "if0"  BY <1>5, <1>17 DEF TaskOK
  <2>2. Pushes(f, s)  BY <1>1, <2>1 DEF Pushes
  <2>3. W[s] = "push" /\ Holds(f, s)  BY <1>2, <1>4, <2>2 DEF FrameOK, Holds
  <2>4. W2 = [W EXCEPT ![s] = SubmitPlace(th, s)]  BY <1>17
  <2>5. W2[f.task] = "told"  BY <1>0, <1>2, <2>3, <2>4
  <2>6. FrameOK(g, W2, K)'  BY <1>10, <1>14, <2>5 DEF FrameOK, Place, Bodily, Creating
  <2>7. ~Holds(g, s)  BY <1>2, <1>4, <1>11, <2>3
  <2> QED  BY <1>4, <1>7, <1>8, <1>10, <1>12, <1>13, <1>16, <1>17, <2>1, <2>3, <2>4, <2>6, <2>7, SubmitShape, Zenon
<1>18. ASSUME ~node[s].task PROVE Shape(W2, K)' /\ SameTd /\ SetTop(th, g) /\ deque' = deque
  <2>1. W2 = W  BY <1>18
  <2>2. SetTop(th, g) /\ deque' = deque /\ td' = td  BY <1>9, <1>18
  <2>3. SameTd  BY <1>0, <2>2, TdUnchanged DEF Types, DataTypes
  <2>4. FrameOK(g, W, K)'  BY <1>2, <1>10, <1>14 DEF FrameOK, Place, Bodily, Creating
  <2>5. \A t \in Tasks : td'[t].parent = td[t].parent  BY <2>2
  <2>6. Moves(W, K, W, K, th)  BY <1>7, <2>5, MovesNone
  <2>7. \A t \in Tasks : Calm(W, t)  BY <1>7, <2>2 DEF Calm
  <2>8. DataTypes'  BY <1>0, <1>7, <2>2 DEF Types, DataTypes
  <2>9. Lawful(W, K, W, K)  BY <1>7, <2>2, <2>5, <2>7, <2>8, LawfulSame
  <2>10. Shape(W, K)'  BY <1>7, <1>10, <1>12, <1>13, <1>16, <2>2, <2>4, <2>6, <2>9, StepOne
  <2> QED  BY <2>1, <2>2, <2>3, <2>10
<1>19. CASE node[s].task  BY <1>1, <1>2, <1>4, <1>17, <1>19
<1>20. CASE ~node[s].task  BY <1>1, <1>2, <1>4, <1>a, <1>18, <1>20
<1> QED  BY <1>19, <1>20

\* Begin keeps the shape; the if0 task runs on its creator's stack.
LEMMA BeginShape ==
    ASSUME NEW W, NEW K, Shape(W, K), NEW th \in Threads, NEW f, f = Top(th), Begin(th),
           NEW W2, W2 = [W EXCEPT ![f.x] = "body"]
    PROVE  /\ Shape(W2, K)' /\ SameTd /\ f.x \in Tasks /\ W[f.x] = "ready" /\ f.pc = "begin" /\ Kind(f.x) = "if0"
           /\ \E g : Turn(f, g, "body") /\ \E e : Made(e, f.x, "body") /\ PushFrames(th, g, e)
<1>0. W \in [Tasks -> Places] /\ Types /\ Queued(W) /\ td \in [Descriptors -> TaskdataRecords] /\ deque \in [Threads -> Seq(Tasks)]
  BY DEF Shape, Types, DataTypes
<1>1. f.pc = "begin"  BY DEF Begin, At
<1>2. /\ f \in FrameRecords /\ f.task \in Descriptors /\ f.x \in Tasks /\ W[f.x] = "ready" /\ LocalOK(f)
      /\ f.task \in Tasks => W[f.task] = "body" /\ Kind(f.task) # "proxy"
  BY <1>1, TaskFrame DEF Creating, Bodily, Making
<1> PICK t \in Tasks : t = f.x  BY <1>2
<1>3. Kind(t) = "if0"  BY <1>1, <1>2 DEF LocalOK
<1>4. "body" \in Pcs  BY DEF Pcs, Bodily
<1> PICK g : Turn(f, g, "body")  BY <1>2, <1>4, Turned
<1> PICK e : e = Frame(t, "body")  OBVIOUS
<1>5. Made(e, t, "body")  BY <1>4, FrameMade
<1>6. g = [f EXCEPT !.pc = "body"]  BY DEF Turn
<1>7. PushFrames(th, g, e) /\ UNCHANGED <<prog, deque, groups, hash, node, proxy>> /\ td' = Started(f.task, t)
  BY <1>6 DEF Begin, PushFrames
<1>p. prog' = prog /\ proxy' = proxy /\ deque' = deque  BY <1>7
<1> HIDE <1>6
<1>8. /\ g \in FrameRecords /\ g.task = f.task /\ g.ip = f.ip /\ g.pc = "body" /\ g.todo = f.todo
  BY DEF Turn
<1>9. SameTd  BY <1>0, <1>7, StartedFacts
<1>10. \A s \in Tasks : Holds(g, s) <=> s = f.task  BY <1>8 DEF Holds, Makes, Pushes, Creating
<1>11. W2[t] = "body" /\ \A s \in Tasks : s # t => W2[s] = W[s]  BY <1>0
<1>12. LocalOK(g)'  BY <1>1, <1>2, <1>7, <1>8 DEF LocalOK, Kind, Creating, Bodily, Proxying
<1>13. FrameOK(g, W2, K)'
  <2>1. \A s \in Tasks : ~Pushes(g, s)'  BY <1>8 DEF Pushes
  <2>2. f.task \in Tasks => W2[f.task] = "body"  BY <1>2, <1>11
  <2> QED  BY <1>8, <2>1, <2>2 DEF FrameOK, Place, Bodily, Creating
<1>14. Continues(f, g) /\ HoldsOnly(g, f, W)
  <2>1. Continues(f, g)  BY <1>2, <1>8 DEF Continues, FrameRecords
  <2>2. HoldsOnly(g, f, W)  BY <1>10 DEF HoldsOnly, Holds
  <2> QED  BY <2>1, <2>2
<1>15. LocalOK(e)' /\ FrameOK(e, W2, K)' /\ \A s : Holds(e, s) => s = t
  <2>1. LocalOK(e)' /\ \A s : Holds(e, s) => s = t
    <3>1. PICK V : V = [s \in {t} |-> "body"]  OBVIOUS
    <3>2. V[t] = "body"  BY <3>1
    <3> HIDE <3>1
    <3>3. "body" = "body" <=> Kind(t) # "proxy"  BY <1>3
    <3> QED  BY <1>p, <1>5, <3>2, <3>3, MadeOK
  <2>2. \A s \in Tasks : ~Pushes(e, s)'  BY <1>5 DEF Pushes, Made
  <2>3. FrameOK(e, W2, K)'  BY <1>5, <1>11, <2>2 DEF FrameOK, Made, Place, Creating, Bodily
  <2> QED  BY <2>1, <2>3
<1>16. Holds(f, t) /\ HoldsOnly(e, f, W)
  <2>1. Holds(f, t)  BY <1>1 DEF Holds, Makes, Creating
  <2> QED  BY <1>15, <2>1 DEF HoldsOnly
<1>17. \A s \in Tasks : ~(Holds(g, s) /\ Holds(e, s))  BY <1>2, <1>10, <1>15
<1>18. Moves(W, K, W2, K, th)  BY <1>0, <1>9, <1>16, <1>p, MovesOne
<1>19. \A s \in Tasks : Calm(W, s)
  BY <1>7, <1>9, CalmFrom DEF SameTd, Descriptors, NodeAlike
<1>20. ProxyOK(t, "body")' /\ TaskOK(t, "body")'
  <2>1. ProxyOK(t, W[t]) /\ TaskOK(t, W[t]) /\ Calm(W, t)  BY <1>19 DEF Shape
  <2>2. ProxyOK(t, "body")'  BY <1>2, <1>3, <1>p, <2>1 DEF ProxyOK, Kind
  <2>3. TaskOK(t, "body")'  BY <1>2, <1>3, <1>p, <2>1 DEF TaskOK, Calm, Kind, Late
  <2> QED  BY <2>2, <2>3
<1>21. Queued(W2)'
  <2>1. \A s \in Tasks : W[s] = "queue" => W2[s] = "queue"  BY <1>2, <1>11
  <2> QED  BY <1>0, <1>p, <2>1, QueuedSame
<1>22. DataTypes'  BY <1>0, <1>7, <1>9 DEF Types, DataTypes, SameTd
<1>23. \A s \in Tasks : td'[s].parent = td[s].parent  BY <1>9 DEF SameTd, TdAlike, Descriptors
<1>24. "body" \in Places /\ "ready" \in Young  BY DEF Places, Young
<1>25. Lawful(W, K, W2, K)
  BY <1>2, <1>p, <1>19, <1>20, <1>21, <1>22, <1>23, <1>24, LawfulOne
<1>26. e \in FrameRecords /\ e.task = t  BY <1>5 DEF Made
<1>27. stack' = [stack EXCEPT ![th] = Front(@) \o <<g, e>>]  BY <1>7 DEF PushFrames
<1>28. e.task \in Tasks /\ (W[e.task] \in Young \/ Kind(e.task) = "proxy")  BY <1>2, <1>24, <1>26
<1>29. Shape(W2, K)'
  BY <1>p, <1>8, <1>12, <1>13, <1>14, <1>15, <1>16, <1>17, <1>18, <1>25, <1>26, <1>27, <1>28, StepTwo
<1> QED  BY <1>1, <1>2, <1>3, <1>5, <1>7, <1>9, <1>29

----------------------------------------------------------------------------
(* Taking a task while waiting. *)

\* What the thread goes on with: taskyield is over, any other wait remains.
Resumes(f, g) == IF f.pc = "yield" THEN Turn(f, g, "body") ELSE g = f

\* A thread that takes tasks is in a body or in the barrier.
LEMMA WaitsFacts ==
    ASSUME NEW th \in Threads, Waits(th)
    PROVE  Top(th).pc \in Bodily \union {"barrier"}
BY DEF Waits, InBody, Op, At, Bodily, Creating

\* The frame of a thread that takes a task stays in order.
LEMMA ResumesOK ==
    ASSUME NEW W, NEW K, Shape(W, K), NEW th \in Threads, NEW f, f = Top(th), f.pc \in Bodily \union {"barrier"},
           NEW g, Resumes(f, g), NEW t \in Tasks, W[t] = "queue", NEW W2, \A s \in Tasks : s # t => W2[s] = W[s],
           prog' = prog, proxy' = proxy, SameTd
    PROVE  /\ g \in FrameRecords /\ LocalOK(g)' /\ FrameOK(g, W2, K)' /\ Continues(f, g) /\ HoldsOnly(g, f, W)
           /\ ~Holds(g, t) /\ g.task = f.task
<1>0. f \in FrameRecords /\ LocalOK(f) /\ FrameOK(f, W, K) /\ W[t] \in Loose  BY TaskFrame DEF Loose
<1>1. ~Holds(f, t)
  <2>1. f = stack[th][Len(stack[th])] /\ Len(stack[th]) \in 1..Len(stack[th])  BY TopFacts
  <2> QED  BY <1>0, <2>1, LooseFree
<1>2. \A s \in Tasks : td'[s].parent = td[s].parent  BY DEF SameTd, TdAlike, Descriptors
<1>3. CASE f.pc # "yield"
  <2>1. g = f  BY <1>3 DEF Resumes
  <2>2. Steady(f, W, K, W2, K)  BY <1>1, <1>2 DEF Steady
  <2>3. FrameOK(f, W2, K)' /\ LocalOK(f)'  BY <1>0, <2>2, FrameStays
  <2>4. Continues(f, f) /\ HoldsOnly(f, f, W)  BY <1>0 DEF Continues, HoldsOnly, FrameRecords
  <2> QED  BY <1>0, <1>1, <2>1, <2>3, <2>4
<1>4. CASE f.pc = "yield"
  <2>1. Turn(f, g, "body")  BY <1>4 DEF Resumes
  <2>2. g \in FrameRecords /\ g.task = f.task /\ g.ip = f.ip /\ g.pc = "body" /\ g.todo = f.todo  BY <2>1 DEF Turn
  <2>3. \A s \in Tasks : Holds(g, s) <=> s = f.task  BY <2>2 DEF Holds, Makes, Pushes, Creating
  <2>4. LocalOK(g)'  BY <1>0, <1>4, <2>2 DEF LocalOK, Kind, Creating, Bodily, Proxying
  <2>5. f.task # t  BY <1>1 DEF Holds
  <2>6. \A s \in Tasks : ~Pushes(g, s)'  BY <2>2 DEF Pushes
  <2>7. f.task \in Tasks => W2[f.task] = Place("body")
    <3> SUFFICES ASSUME f.task \in Tasks PROVE W2[f.task] = Place("body")  OBVIOUS
    <3>1. W[f.task] = Place(f.pc)  BY <1>0, <1>4 DEF FrameOK
    <3> QED  BY <1>4, <2>5, <3>1 DEF Place, Bodily
  <2>8. FrameOK(g, W2, K)'  BY <2>2, <2>6, <2>7 DEF FrameOK, Creating
  <2>9. Continues(f, g)  BY <1>0, <2>2 DEF Continues, FrameRecords
  <2>10. HoldsOnly(g, f, W)  BY <2>3 DEF HoldsOnly, Holds
  <2>11. ~Holds(g, t)  BY <2>3, <2>5
  <2> QED  BY <2>2, <2>4, <2>8, <2>9, <2>10, <2>11
<1> QED  BY <1>3, <1>4

\* The length of a list is a number.
LEMMA LenNat == \A s \in Seq(Tasks) : Len(s) \in Nat
OBVIOUS

Moved(W, W2, t, w) == W2 = [W EXCEPT ![t] = w]
TakenAs(t) == IF Kind(t) = "proxy" THEN "bottom" ELSE "body"

\* Taking a task, from either end, keeps the shape; it starts on top.
LEMMA TakeShape ==
    ASSUME NEW W, NEW K, Shape(W, K), NEW th \in Threads, NEW f, f = Top(th), Waits(th),
           NEW u \in Threads, deque[u] # <<>>, NEW t, Takes(u, t), Invoke(th, t),
           NEW w, w = TakenAs(t), NEW W2, Moved(W, W2, t, w)
    PROVE  /\ Shape(W2, K)' /\ SameTd /\ t \in Tasks /\ W[t] = "queue" /\ f.pc \in Bodily \union {"barrier"}
           /\ \E g : /\ Resumes(f, g) /\ g \in FrameRecords
                     /\ \E e : Made(e, t, w) /\ PushFrames(th, g, e)
<1>0. W \in [Tasks -> Places] /\ Types /\ Queued(W) /\ td \in [Descriptors -> TaskdataRecords] /\ deque \in [Threads -> Seq(Tasks)]
  BY DEF Shape, Types, DataTypes
<1>1. f.pc \in Bodily \union {"barrier"} /\ f \in FrameRecords  BY WaitsFacts, TaskFrame
<1> W2 = [W EXCEPT ![t] = w]  BY DEF Moved
<1>a. w = IF Kind(t) = "proxy" THEN "bottom" ELSE "body"  BY DEF TakenAs
<1>2. w \in {"bottom", "body"} /\ (w = "body" <=> Kind(t) # "proxy") /\ w \in Pcs  BY <1>a DEF Pcs, Bodily, Proxying
<1>3. prog' = prog /\ groups' = groups /\ hash' = hash /\ node' = node /\ proxy' = proxy  BY DEF Invoke
<1>4. Queued(W)  BY <1>0
<1>5. /\ deque' \in [Threads -> Seq(Tasks)] /\ t \in Tasks /\ W[t] = "queue" /\ Len(deque'[u]) <= Len(deque[u])
  <2>1. Dequeues(W, W, t)  BY DEF Dequeues
  <2> QED  BY <1>0, <2>1, QueuedTake
<1>6. W2[t] = w /\ \A s \in Tasks : s # t => W2[s] = W[s]  BY <1>0, <1>5
<1>7. Queued(W2)'
  <2>v. PICK V : V = W2  OBVIOUS
  <2>1. Dequeues(W, V, t)  BY <1>6, <2>v DEF Dequeues
  <2>2. Queued(V)'
    <3> HIDE <2>v
    <3> QED  BY <1>0, <2>1, QueuedTake
  <2> QED  BY <2>2, <2>v
<1>8. SameTd  BY <1>0, TdUnchanged, StartedFacts DEF Invoke
<1>9. \E g : Resumes(f, g) /\ g = IF At(th, "yield") THEN [Top(th) EXCEPT !.pc = "body"] ELSE Top(th)
  <2>1. CASE f.pc = "yield"
    <3>1. "body" \in Pcs  BY DEF Pcs, Bodily
    <3> PICK g : Turn(f, g, "body")  BY <1>1, <3>1, Turned
    <3>2. g = [f EXCEPT !.pc = "body"]  BY DEF Turn
    <3> QED  BY <2>1, <3>2 DEF Resumes, At
  <2>2. CASE f.pc # "yield"  BY <2>2 DEF Resumes, At
  <2> QED  BY <2>1, <2>2
<1>9g. PICK g : Resumes(f, g) /\ g = IF At(th, "yield") THEN [Top(th) EXCEPT !.pc = "body"] ELSE Top(th)  BY <1>9
<1>9r. Resumes(f, g)  BY <1>9g
<1> PICK e : e = Frame(t, w)  OBVIOUS
<1>10. Made(e, t, w)  BY <1>2, <1>5, FrameMade
<1>11. PushFrames(th, g, e)  BY <1>a, <1>9g DEF Invoke, PushFrames
<1>12. /\ g \in FrameRecords /\ LocalOK(g)' /\ FrameOK(g, W2, K)' /\ Continues(f, g) /\ HoldsOnly(g, f, W)
       /\ ~Holds(g, t)
  <2>v. PICK V : V = W2  OBVIOUS
  <2>1. \A s \in Tasks : s # t => V[s] = W[s]  BY <1>6, <2>v
  <2>2. /\ g \in FrameRecords /\ LocalOK(g)' /\ FrameOK(g, V, K)' /\ Continues(f, g) /\ HoldsOnly(g, f, W)
        /\ ~Holds(g, t)
    <3> HIDE <2>v
    <3> QED  BY <1>1, <1>3, <1>5, <1>8, <1>9r, <2>1, ResumesOK
  <2> QED  BY <2>2, <2>v
<1>13. LocalOK(e)' /\ \A s : Holds(e, s) => s = t
  <2>1. PICK V : V = [s \in {t} |-> w]  OBVIOUS
  <2>2. V[t] = w  BY <2>1
  <2> HIDE <2>1
  <2> QED  BY <1>2, <1>3, <1>5, <1>10, <2>2, MadeOK
<1>14. FrameOK(e, W2, K)'
  <2>1. \A s \in Tasks : ~Pushes(e, s)'  BY <1>2, <1>10 DEF Pushes, Made
  <2> QED  BY <1>2, <1>6, <1>10, <2>1 DEF FrameOK, Made, Place, Creating, Bodily
<1>15. HoldsOnly(e, f, W)  BY <1>5, <1>13 DEF HoldsOnly, Loose
<1>16. \A s \in Tasks : ~(Holds(g, s) /\ Holds(e, s))  BY <1>12, <1>13
<1>17. Moves(W, K, W2, K, th)  BY <1>0, <1>3, <1>5, <1>8, MovesOne DEF Loose
<1>18. \A s \in Tasks : Calm(W, s)
  BY <1>3, <1>8, CalmFrom DEF SameTd, Descriptors, NodeAlike
<1>19. ProxyOK(t, w)' /\ TaskOK(t, w)'
  <2>1. ProxyOK(t, W[t]) /\ TaskOK(t, W[t]) /\ Calm(W, t)  BY <1>5, <1>18 DEF Shape
  <2>2. ProxyOK(t, w)'  BY <1>2, <1>3, <1>5, <2>1 DEF ProxyOK, Kind, Young, Late
  <2>3. TaskOK(t, w)'  BY <1>2, <1>3, <1>5, <2>1 DEF TaskOK, Calm, Kind, Late
  <2> QED  BY <2>2, <2>3
<1>20. \A v \in Threads : Len(deque'[v]) <= QueueSize
  <2> TAKE v \in Threads
  <2>1. CASE v # u  BY <1>0, <2>1 DEF Takes, Types, DataTypes
  <2>2. CASE v = u
    <3> PICK m \in Nat : m = Len(deque[u])  BY <1>0, LenNat
    <3> PICK n \in Nat : n = Len(deque'[u])  BY <1>5, LenNat
    <3>1. n <= m /\ m <= QueueSize  BY <1>0, <1>5 DEF Types, DataTypes
    <3>2. n <= QueueSize  BY <3>1, QueueAssumption
    <3> QED  BY <2>2, <3>2
  <2> QED  BY <2>1, <2>2
<1>21. DataTypes'  BY <1>0, <1>3, <1>5, <1>8, <1>20 DEF Types, DataTypes, SameTd
<1>22. \A s \in Tasks : td'[s].parent = td[s].parent  BY <1>8 DEF SameTd, TdAlike, Descriptors
<1>23. w \in Places /\ "queue" \in Young /\ w # "absent"  BY <1>2 DEF Places, Young
<1>24. Lawful(W, K, W2, K)
  BY <1>3, <1>5, <1>7, <1>18, <1>19, <1>21, <1>22, <1>23, LawfulOne
<1>25. e \in FrameRecords /\ e.task = t  BY <1>10 DEF Made
<1>26. stack' = [stack EXCEPT ![th] = Front(@) \o <<g, e>>]  BY <1>11 DEF PushFrames
<1>27. e.task \in Tasks /\ (W[e.task] \in Young \/ Kind(e.task) = "proxy")  BY <1>5, <1>23, <1>25
<1>28. Shape(W2, K)'
  BY <1>3, <1>12, <1>13, <1>14, <1>15, <1>16, <1>17, <1>24, <1>25, <1>26, <1>27, StepTwo
<1> QED  BY <1>1, <1>5, <1>8, <1>9r, <1>10, <1>11, <1>12, <1>28

----------------------------------------------------------------------------
(* A new descriptor, and the task a construct creates. *)

NewTask(d, g, nd) == [Taskdata(d, g) EXCEPT !.node = nd]
CreateWrites(d, t, nd) ==
    td' = [td EXCEPT ![t] = NewTask(d, td[d].group, nd), ![d].inc = @ + 1,
                     ![d].kids = IF d \in Tasks THEN @ + 1 ELSE @]
\* The descriptors after the creation of t by d.
Begun(d, t, nd) ==
    /\ td' \in [Descriptors -> TaskdataRecords]
    /\ \A e \in Descriptors :
         /\ td'[e].state = IF e = t THEN "live" ELSE td[e].state
         /\ td'[e].parent = IF e = t THEN d ELSE td[e].parent
         /\ td'[e].inc = IF e = t THEN 0 ELSE IF e = d THEN td[e].inc + 1 ELSE td[e].inc
         /\ td'[e].kids = IF e = t THEN 1 ELSE IF e = d /\ d \in Tasks THEN td[e].kids + 1 ELSE td[e].kids
         /\ td'[e].group = IF e = t THEN td[d].group ELSE td[e].group
         /\ td'[e].complete = IF e = t THEN FALSE ELSE td[e].complete
         /\ td'[e].node = IF e = t THEN nd ELSE td[e].node

IsNewTask(r, d, g, nd) ==
    /\ r \in TaskdataRecords /\ r.state = "live" /\ r.parent = d /\ r.inc = 0 /\ r.kids = 1 /\ r.group = g
    /\ r.complete = FALSE /\ r.node = nd

\* The descriptor of a new task.
LEMMA NewTaskFacts ==
    ASSUME NEW d \in Descriptors, NEW g \in GroupNames \union {Null}, NEW nd \in BOOLEAN
    PROVE  IsNewTask(NewTask(d, g, nd), d, g, nd)
<1> PICK r : r = NewTask(d, g, nd)  OBVIOUS
<1>1. r = [state |-> "live", parent |-> d, inc |-> 0, kids |-> 1, group |-> g,
           started |-> FALSE, executing |-> FALSE, complete |-> FALSE, node |-> nd]
  BY DEF NewTask, Taskdata
<1>2. r \in TaskdataRecords
  <2>1. "live" \in States /\ FALSE \in BOOLEAN /\ 0 \in Int /\ 1 \in Int  BY DEF States
  <2> QED  BY <1>1, <2>1 DEF TaskdataRecords
<1>3. /\ r.state = "live" /\ r.parent = d /\ r.inc = 0 /\ r.kids = 1 /\ r.group = g
      /\ r.complete = FALSE /\ r.node = nd
  BY <1>1
<1> QED  BY <1>2, <1>3 DEF IsNewTask

\* Creating a task writes its descriptor and counts it with its parent.
LEMMA CreateTd ==
    ASSUME td \in [Descriptors -> TaskdataRecords], NEW d \in Descriptors, NEW t \in Tasks, t # d, NEW nd \in BOOLEAN,
           CreateWrites(d, t, nd)
    PROVE  Begun(d, t, nd)
<1>0. t \in Descriptors  BY DEF Descriptors
<1> PICK r \in TaskdataRecords : r = td[d]  OBVIOUS
<1> PICK g \in GroupNames \union {Null} : g = r.group  BY DEF TaskdataRecords
<1> PICK n \in Int : n = r.inc + 1  BY DEF TaskdataRecords
<1> PICK m \in Int : m = IF d \in Tasks THEN r.kids + 1 ELSE r.kids  BY DEF TaskdataRecords
<1> PICK o : o = NewTask(d, g, nd)  OBVIOUS
<1> PICK q : q = [[r EXCEPT !.inc = n] EXCEPT !.kids = m]  OBVIOUS
<1>a. IsNewTask(o, d, g, nd)  BY NewTaskFacts
<1>1. /\ o \in TaskdataRecords /\ o.state = "live" /\ o.parent = d /\ o.inc = 0 /\ o.kids = 1 /\ o.group = g
      /\ o.complete = FALSE /\ o.node = nd
  BY <1>a DEF IsNewTask
<1>2. /\ q \in TaskdataRecords /\ q.state = r.state /\ q.parent = r.parent /\ q.inc = n /\ q.kids = m /\ q.group = r.group
      /\ q.complete = r.complete /\ q.node = r.node
  BY DEF TaskdataRecords
<1>3. td' = [td EXCEPT ![t] = o, ![d] = q]
  <2>1. td' = [td EXCEPT ![t] = o, ![d].inc = n, ![d].kids = m]  BY DEF CreateWrites
  <2> QED  BY <2>1
<1>4. td' \in [Descriptors -> TaskdataRecords] /\ td'[t] = o /\ td'[d] = q
      /\ \A e \in Descriptors : e # t /\ e # d => td'[e] = td[e]
  BY <1>0, <1>1, <1>2, <1>3
<1>5. ASSUME NEW e \in Descriptors
      PROVE  /\ td'[e].state = IF e = t THEN "live" ELSE td[e].state
             /\ td'[e].parent = IF e = t THEN d ELSE td[e].parent
             /\ td'[e].inc = IF e = t THEN 0 ELSE IF e = d THEN td[e].inc + 1 ELSE td[e].inc
             /\ td'[e].kids = IF e = t THEN 1 ELSE IF e = d /\ d \in Tasks THEN td[e].kids + 1 ELSE td[e].kids
             /\ td'[e].group = IF e = t THEN td[d].group ELSE td[e].group
             /\ td'[e].complete = IF e = t THEN FALSE ELSE td[e].complete
             /\ td'[e].node = IF e = t THEN nd ELSE td[e].node
  <2>1. CASE e = t  BY <1>1, <1>4, <2>1
  <2>2. CASE e = d  BY <1>2, <1>4, <2>2
  <2>3. CASE e # t /\ e # d  BY <1>4, <2>3
  <2> QED  BY <2>1, <2>2, <2>3
<1> QED  BY <1>4, <1>5 DEF Begun

Counted(g) ==
    /\ DOMAIN groups' = DOMAIN groups /\ groups' \in [DOMAIN groups -> GroupRecords]
    /\ \A h \in DOMAIN groups : /\ groups'[h].outer = groups[h].outer
                                /\ groups'[h].count = IF h = g THEN groups[h].count + 1 ELSE groups[h].count

\* A group that counts one task more.
LEMMA GroupPlus ==
    ASSUME groups \in [DOMAIN groups -> GroupRecords], NEW g, groups' = [groups EXCEPT ![g].count = @ + 1]
    PROVE  Counted(g)
<1>1. ASSUME NEW h \in DOMAIN groups
      PROVE  /\ groups'[h] \in GroupRecords /\ groups'[h].outer = groups[h].outer
             /\ groups'[h].count = IF h = g THEN groups[h].count + 1 ELSE groups[h].count
  BY DEF GroupRecords
<1>2. DOMAIN groups' = DOMAIN groups /\ groups' = [h \in DOMAIN groups |-> groups'[h]]  OBVIOUS
<1> QED  BY <1>1, <1>2 DEF Counted

TaskAt(f, t) == prog.body[f.task][f.ip] = <<"task", t>>

\* The task that a construct creates has not existed yet.
LEMMA NotYet ==
    ASSUME NEW W, NEW K, Shape(W, K), NEW th \in Threads, NEW f, f = Top(th), InBody(th, "task"), NEW t, t = Op(f)[2]
    PROVE  /\ t \in Tasks /\ W[t] = "absent" /\ t # f.task /\ f \in FrameRecords /\ f.task \in Descriptors
           /\ f.pc = "body" /\ f.ip \in 1..Len(prog.body[f.task]) /\ TaskAt(f, t)
           /\ f.task \in Tasks => W[f.task] = "body"
<1>0. Types /\ f \in FrameRecords /\ LocalOK(f) /\ f.task \in Descriptors  BY TaskFrame DEF Shape
<1>1. /\ f.pc = "body" /\ f.ip <= Len(prog.body[f.task]) /\ t \in Tasks /\ prog.body[f.task][f.ip] = <<"task", t>>
  BY <1>0, InBodyFacts
<1>2. f.ip \in 1..Len(prog.body[f.task])
  <2> PICK n \in Nat : n = Len(prog.body[f.task])  BY <1>0, ProgramFacts
  <2> QED  BY <1>0, <1>1 DEF LocalOK
<1>3. f.task \in Tasks => W[f.task] = "body"  BY <1>1, TaskFrame DEF Bodily
<1>4. W[t] = "absent"
  <2> SUFFICES ASSUME W[t] # "absent" PROVE FALSE  OBVIOUS
  <2>0. ChildOK(t, W)  BY <1>1 DEF Shape
  <2> PICK p \in Descriptors : p = td[t].parent  BY <2>0 DEF ChildOK
  <2>j. PICK j \in 1..Len(prog.body[p]) :
         /\ prog.body[p][j] = <<"task", t>>
         /\ \A u \in Threads : \A i \in 1..Len(stack[u]) : stack[u][i].task = p => j < stack[u][i].ip
    BY <2>0 DEF ChildOK
  <2>c. PICK c : c = <<"task", t>>  BY Zenon
  <2>d. c[1] = "task"  BY <2>c
  <2>e. prog.body[p][j] = c /\ prog.body[f.task][f.ip] = c  BY <1>1, <2>j, <2>c
  <2> HIDE <2>c
  <2>1. prog.body[p][j] = prog.body[f.task][f.ip] /\ prog.body[p][j][1] = "task"  BY <2>d, <2>e
  <2>2. p = f.task /\ j = f.ip
    <3>1. WellFormed(prog)  BY <1>0, ProgramFacts
    <3>2. \A d, e \in Descriptors : \A i \in 1..Len(prog.body[d]), k \in 1..Len(prog.body[e]) :
            prog.body[d][i] = prog.body[e][k] /\ prog.body[d][i][1] = "task" => d = e /\ i = k
      BY <3>1 DEF WellFormed
    <3>3. \A i \in 1..Len(prog.body[p]), k \in 1..Len(prog.body[f.task]) :
            prog.body[p][i] = prog.body[f.task][k] /\ prog.body[p][i][1] = "task" => p = f.task /\ i = k
      BY <1>0, <3>2
    <3> QED  BY <1>2, <2>1, <3>3, Zenon
  <2>3. f = stack[th][Len(stack[th])] /\ Len(stack[th]) \in 1..Len(stack[th])  BY TopFacts
  <2>4. j < f.ip  BY <2>2, <2>3, <2>j, Zenon
  <2>5. f.ip \in Nat  BY <1>0 DEF FrameRecords
  <2> QED  BY <2>2, <2>4, <2>5
<1>5. t # f.task  BY <1>1, <1>3, <1>4
<1>6. TaskAt(f, t)  BY <1>1 DEF TaskAt
<1> QED  BY <1>0, <1>1, <1>2, <1>3, <1>4, <1>5, <1>6

----------------------------------------------------------------------------
(* A new node, and the frame that creates. *)

Tracks(f, t) == prog.deps[t] # <<>> /\ (Kind(t) = "if0" => hash[f.task] # Null)
OldHash(d) == IF hash[d] = Null THEN NoHash ELSE hash[d]
Creates(f, g, t) == g \in FrameRecords /\ g.task = f.task /\ g.ip = f.ip + 1 /\ g.x = t
NewNode(n) ==
    n \in DepnodeRecords /\ n.state = "live" /\ n.task = FALSE /\ n.npred = -1 /\ n.nrefs = 1 /\ n.succ = <<>>
\* The dependences of t are looked up.
Tracking(f, g, t) ==
    /\ g.pc = "link" /\ g.dep = 1 /\ 1 \in Kept(t) /\ g.n = 0
    /\ \A k \in 1..Len(g.todo) : Names(OldHash(f.task)[Dep(t, 1).addr], g.todo[k])
    /\ OldHash(f.task) \in [Addrs -> Entries]
    /\ hash' = [hash EXCEPT ![f.task] = OldHash(f.task)]
    /\ node' \in [Tasks -> DepnodeRecords] /\ NewNode(node'[t])
    /\ \A s \in Tasks : s # t => node'[s] = node[s]
\* t has no dependences to look up.
Untracked(f, g, t) ==
    /\ g.pc = (IF Kind(t) = "if0" THEN "begin" ELSE "submit") /\ g.todo = <<>>
    /\ hash' = hash /\ node' = node

\* The node of a new task.
LEMMA NewNodeFacts == NewNode([Depnode("live") EXCEPT !.npred = -1])
<1> PICK n : n = [Depnode("live") EXCEPT !.npred = -1]  OBVIOUS
<1>1. n = [state |-> "live", task |-> FALSE, npred |-> -1, nrefs |-> 1, succ |-> <<>>]
  BY DEF Depnode
<1>2. n \in DepnodeRecords
  <2>1. "live" \in States /\ FALSE \in BOOLEAN /\ 1 \in Int  BY DEF States
  <2> PICK m \in Int : m = -1  OBVIOUS
  <2>u. PICK u \in Seq(Tasks) : u = <<>>  BY EmptySeq
  <2>k. PICK k \in Int : k = 1  OBVIOUS
  <2>b. PICK b \in BOOLEAN : b = FALSE  OBVIOUS
  <2>s. PICK s \in States : s = "live"  BY <2>1
  <2>2. n = [state |-> s, task |-> b, npred |-> m, nrefs |-> k, succ |-> u]  BY <1>1, <2>u, <2>k, <2>b, <2>s
  <2> HIDE <1>1, <2>u, <2>k, <2>b, <2>s
  <2>3. [state |-> s, task |-> b, npred |-> m, nrefs |-> k, succ |-> u] \in DepnodeRecords  BY DEF DepnodeRecords
  <2> QED  BY <2>2, <2>3
<1>3. n.state = "live" /\ n.task = FALSE /\ n.npred = -1 /\ n.nrefs = 1 /\ n.succ = <<>>  BY <1>1
<1> QED  BY <1>2, <1>3 DEF NewNode

FrameLinking(f, t, todo) ==
    [f EXCEPT !.ip = @ + 1, !.pc = "link", !.x = t, !.n = 0, !.dep = 1, !.todo = todo]

\* The frame of a creator that looks for predecessors.
LEMMA FrameLinks ==
    ASSUME NEW f \in FrameRecords, NEW t \in Tasks, NEW todo \in Seq(Tasks)
    PROVE  LET g == FrameLinking(f, t, todo)
           IN  Creates(f, g, t) /\ g.pc = "link" /\ g.dep = 1 /\ g.n = 0 /\ g.todo = todo
<1> PICK m \in Nat : m = f.ip + 1  BY DEF FrameRecords
<1> PICK g : g = [f EXCEPT !.ip = m, !.pc = "link", !.x = t, !.n = 0, !.dep = 1, !.todo = todo]  OBVIOUS
<1>1. g = FrameLinking(f, t, todo)  BY DEF FrameLinking
<1>2. "link" \in Pcs /\ t \in Descriptors /\ 0 \in Nat /\ 1 \in Nat  BY DEF Pcs, Bodily, Creating, Descriptors
<1>3. g \in FrameRecords  BY <1>2 DEF FrameRecords
<1>4. g.task = f.task /\ g.ip = m /\ g.x = t /\ g.pc = "link" /\ g.dep = 1 /\ g.n = 0 /\ g.todo = todo
  BY DEF FrameRecords
<1> QED  BY <1>1, <1>3, <1>4 DEF Creates

FrameMaking(f, t, pc) == [f EXCEPT !.ip = @ + 1, !.x = t, !.pc = pc]

\* The frame of a creator that has none to look for.
LEMMA FrameMakes ==
    ASSUME NEW f \in FrameRecords, NEW t \in Tasks, NEW pc \in Pcs
    PROVE  LET g == FrameMaking(f, t, pc)
           IN  Creates(f, g, t) /\ g.pc = pc /\ g.todo = f.todo
<1> PICK m \in Nat : m = f.ip + 1  BY DEF FrameRecords
<1> PICK g : g = [f EXCEPT !.ip = m, !.x = t, !.pc = pc]  OBVIOUS
<1>1. g = FrameMaking(f, t, pc)  BY DEF FrameMaking
<1>2. t \in Descriptors  BY DEF Descriptors
<1>3. g \in FrameRecords  BY <1>2 DEF FrameRecords
<1>4. g.task = f.task /\ g.ip = m /\ g.x = t /\ g.pc = pc /\ g.todo = f.todo
  BY DEF FrameRecords
<1> QED  BY <1>1, <1>3, <1>4 DEF Creates

\* An empty hash is a hash.
LEMMA NoHashType == NoHash \in [Addrs -> Entries]
BY EmptySeq DEF NoHash, NoEntry, Entries

\* What Create writes.
LEMMA CreateData ==
    ASSUME NEW W, NEW K, Shape(W, K), NEW th \in Threads, NEW f, f = Top(th), Create(th), NEW t, t = Op(f)[2]
    PROVE  /\ Begun(f.task, t, Tracks(f, t) /\ Kind(t) # "if0")
           /\ IF td[f.task].group = Null THEN groups' = groups ELSE Counted(td[f.task].group)
           /\ \E g : SetTop(th, g) /\ Creates(f, g, t) /\ IF Tracks(f, t) THEN Tracking(f, g, t) ELSE Untracked(f, g, t)
<1>0. /\ Types /\ td \in [Descriptors -> TaskdataRecords] /\ groups \in [DOMAIN groups -> GroupRecords]
      /\ hash \in [Descriptors -> [Addrs -> Entries] \union {Null}] /\ node \in [Tasks -> DepnodeRecords]
  BY DEF Shape, Types, DataTypes
<1>1. InBody(th, "task")  BY DEF Create
<1>2. /\ t \in Tasks /\ t # f.task /\ f \in FrameRecords /\ f.task \in Descriptors /\ f.pc = "body"
  BY <1>1, NotYet
<1>3. f.todo = <<>>  BY <1>2, TaskFrame DEF LocalOK
<1> PICK trk \in BOOLEAN : trk = Tracks(f, t)  BY DEF Tracks
<1> PICK nd \in BOOLEAN : nd = (trk /\ Kind(t) # "if0")  OBVIOUS
<1>4. Begun(f.task, t, nd)
  <2>1. CreateWrites(f.task, t, nd)  BY Zenon DEF Create, CreateWrites, NewTask, Tracks
  <2> QED  BY <1>0, <1>2, <2>1, CreateTd, Zenon
<1>5. IF td[f.task].group = Null THEN groups' = groups ELSE Counted(td[f.task].group)
  <2>1. CASE td[f.task].group = Null  BY <2>1 DEF Create
  <2>2. CASE td[f.task].group # Null
    <3>1. groups' = [groups EXCEPT ![td[f.task].group].count = @ + 1]  BY <2>2 DEF Create
    <3> QED  BY <1>0, <2>2, <3>1, GroupPlus, Zenon
  <2> QED  BY <2>1, <2>2
<1>6. CASE Tracks(f, t)
  <2> PICK h \in [Addrs -> Entries] : h = OldHash(f.task)  BY <1>0, <1>2, NoHashType DEF OldHash
  <2>1. 1 \in Kept(t)
    <3>1. prog.deps[t] \in Seq([addr : Addrs, out : BOOLEAN])  BY <1>0, <1>2, ProgramFacts
    <3>2. prog.deps[t] # <<>>  BY <1>6 DEF Tracks
    <3> PICK n \in Nat : n = Len(prog.deps[t])  BY <3>1
    <3>3. n >= 1  BY <3>1, <3>2, EmptySeq
    <3> QED  BY <3>3 DEF Kept
  <2> PICK dep : dep = Dep(t, 1)  OBVIOUS
  <2>2. dep.addr \in Addrs  BY <1>0, <1>2, <2>1, DepFacts
  <2> PICK todo : todo = Candidates(h, dep)  OBVIOUS
  <2>3. todo \in Seq(Tasks) /\ \A k \in 1..Len(todo) : Names(h[dep.addr], todo[k])  BY <2>2, CandidatesType
  <2> PICK g : g = FrameLinking(f, t, todo)  OBVIOUS
  <2>4. Creates(f, g, t) /\ g.pc = "link" /\ g.dep = 1 /\ g.n = 0 /\ g.todo = todo  BY <1>2, <2>3, FrameLinks
  <2>5. /\ hash' = [hash EXCEPT ![f.task] = h]
        /\ node' = [node EXCEPT ![t] = [Depnode("live") EXCEPT !.npred = -1]]
        /\ SetTop(th, g)
    BY <1>6, Zenon DEF Create, Tracks, OldHash, FrameLinking
  <2> PICK n : n = [Depnode("live") EXCEPT !.npred = -1]  OBVIOUS
  <2>6. NewNode(n)  BY NewNodeFacts
  <2>7. node' = [node EXCEPT ![t] = n]  BY <2>5
  <2>8. node'[t] = n /\ node' \in [Tasks -> DepnodeRecords] /\ \A s \in Tasks : s # t => node'[s] = node[s]
    BY <1>0, <1>2, <2>6, <2>7 DEF NewNode
  <2>9. Tracking(f, g, t)  BY <2>1, <2>3, <2>4, <2>5, <2>6, <2>8 DEF Tracking
  <2> QED  BY <1>4, <1>5, <1>6, <2>4, <2>5, <2>9
<1>7. CASE ~Tracks(f, t)
  <2> PICK pc \in Pcs : pc = IF Kind(t) = "if0" THEN "begin" ELSE "submit"  BY DEF Pcs, Bodily, Creating
  <2> PICK g : g = FrameMaking(f, t, pc)  OBVIOUS
  <2>1. Creates(f, g, t) /\ g.pc = pc /\ g.todo = f.todo  BY <1>2, FrameMakes
  <2>2. SetTop(th, g) /\ hash' = hash /\ node' = node  BY <1>7, Zenon DEF Create, Tracks, FrameMaking
  <2>3. Untracked(f, g, t)  BY <1>3, <2>1, <2>2 DEF Untracked
  <2> QED  BY <1>4, <1>5, <1>7, <2>1, <2>2, <2>3
<1> QED  BY <1>6, <1>7

----------------------------------------------------------------------------
(* Creating a task (Create). *)

\* Create keeps the shape; the task is in the making.
LEMMA CreateShape ==
    ASSUME NEW W, NEW K, Shape(W, K), NEW th \in Threads, NEW f, f = Top(th), Create(th), NEW t, t = Op(f)[2],
           NEW W2, W2 = [W EXCEPT ![t] = IF Tracks(f, t) THEN "linking" ELSE "ready"]
    PROVE  Shape(W2, K)'
<1>0. /\ W \in [Tasks -> Places] /\ K \in [Tasks -> Tasks \union {None}] /\ Types /\ Queued(W)
      /\ td \in [Descriptors -> TaskdataRecords] /\ groups \in [DOMAIN groups -> GroupRecords] /\ DOMAIN groups \subseteq GroupNames
      /\ hash \in [Descriptors -> [Addrs -> Entries] \union {Null}] /\ node \in [Tasks -> DepnodeRecords]
      /\ deque \in [Threads -> Seq(Tasks)]
  BY DEF Shape, Types, DataTypes
<1>1. InBody(th, "task") /\ prog' = prog /\ deque' = deque /\ proxy' = proxy  BY DEF Create
<1>2. /\ t \in Tasks /\ W[t] = "absent" /\ t # f.task /\ f \in FrameRecords /\ f.task \in Descriptors
      /\ f.pc = "body" /\ f.ip \in 1..Len(prog.body[f.task]) /\ prog.body[f.task][f.ip] = <<"task", t>>
      /\ f.task \in Tasks => W[f.task] = "body"
  <2>1. t \in Tasks /\ W[t] = "absent" /\ t # f.task /\ f \in FrameRecords /\ f.task \in Descriptors  BY <1>1, NotYet
  <2>2. f.pc = "body" /\ f.ip \in 1..Len(prog.body[f.task])  BY <1>1, NotYet
  <2>3. TaskAt(f, t)  BY <1>1, NotYet
  <2>4. f.task \in Tasks => W[f.task] = "body"  BY <1>1, NotYet
  <2> QED  BY <2>1, <2>2, <2>3, <2>4 DEF TaskAt
<1>2a. LocalOK(f)  BY TaskFrame
<1> PICK w : w = IF Tracks(f, t) THEN "linking" ELSE "ready"  OBVIOUS
<1> PICK d \in Descriptors : d = f.task  BY <1>2
<1> PICK nd : nd = (Tracks(f, t) /\ Kind(t) # "if0")  OBVIOUS
<1>3. Begun(d, t, nd)  BY CreateData
<1>3a. IF td[d].group = Null THEN groups' = groups ELSE Counted(td[d].group)  BY CreateData
<1>4. PICK g : SetTop(th, g) /\ Creates(f, g, t) /\ IF Tracks(f, t) THEN Tracking(f, g, t) ELSE Untracked(f, g, t)
  BY CreateData
<1>5. /\ g \in FrameRecords /\ g.task = f.task /\ g.ip = f.ip + 1 /\ g.x = t /\ g.pc \in {"link", "begin", "submit"}
      /\ w = Making(g.pc) /\ w \in {"linking", "ready"} /\ (g.pc = "link" <=> Tracks(f, t))
      /\ g.pc = "link" => 1 \in Kept(t) /\ g.dep = 1
      /\ g.pc # "link" => g.todo = <<>>
      /\ g.pc = "begin" => Kind(t) = "if0"
      /\ g.pc = "submit" => Kind(t) # "if0"
  BY <1>4 DEF Creates, Tracking, Untracked, Making
<1>6. W2[t] = w /\ W2 \in [Tasks -> Places] /\ \A s \in Tasks : s # t => W2[s] = W[s]
  BY <1>0, <1>2, <1>5 DEF Places
<1>7. \A s \in Tasks : Holds(g, s) => s = f.task \/ s = t  BY <1>5 DEF Holds, Makes, Pushes
<1>8. HoldsOnly(g, f, W)  BY <1>2, <1>7 DEF HoldsOnly, Holds, Loose
<1>9. LocalOK(g)'
  <2>1. g.ip \in 1..Len(prog.body[g.task]) + 1
    <3> PICK n \in Nat : n = Len(prog.body[f.task])  BY <1>0, <1>2, ProgramFacts
    <3>1. f.ip \in 1..n  BY <1>2
    <3>2. f.ip + 1 \in 1..n + 1  BY <3>1
    <3> QED  BY <1>5, <3>2
  <2>2. g.pc \in Bodily /\ g.pc \in Creating  BY <1>5 DEF Bodily, Creating
  <2>3. f.task \in Tasks => Kind(f.task) # "proxy"  BY <1>2, <1>2a DEF LocalOK, Bodily
  <2>4. g.pc \notin Proxying /\ g.pc # "group" /\ g.pc # "barrier" /\ g.pc # "depwait"  BY <1>5 DEF Proxying
  <2>5. g.x \in Tasks /\ (g.pc = "begin" => Kind(g.x) = "if0") /\ (g.pc = "submit" => Kind(g.x) # "if0")  BY <1>2, <1>5
  <2>6. g.pc = "link" => g.dep \in Kept(g.x)  BY <1>5
  <2>7. (g.pc \notin {"link", "succ", "push", "drop"} => g.todo = <<>>) /\ g.pc \notin {"push", "drop"}  BY <1>5
  <2>8. f.task = g.task  BY <1>5
  <2>9. LocalOK(g)  BY <2>1, <2>2, <2>3, <2>4, <2>5, <2>6, <2>7, <2>8 DEF LocalOK
  <2> QED  BY <1>1, <2>9 DEF LocalOK, Kind, Kept
<1>10. FrameOK(g, W2, K)'
  <2>1. \A s \in Tasks : ~Pushes(g, s)'  BY <1>5 DEF Pushes
  <2>2. f.task \in Tasks => W2[f.task] = "body"  BY <1>2, <1>6
  <2>3. td'[t].parent = f.task  BY <1>2, <1>3, Zenon DEF Begun, Descriptors
  <2>4. Place(g.pc) = "body"  BY <1>5 DEF Place, Bodily, Creating
  <2> QED  BY <1>5, <1>6, <2>1, <2>2, <2>3, <2>4 DEF FrameOK
<1>11. Continues(f, g)  BY <1>2, <1>5 DEF Continues, FrameRecords
<1>12. \A s \in Tasks : s # t => td'[s].parent = td[s].parent  BY <1>3 DEF Begun, Descriptors
<1>13. Moves(W, K, W2, K, th)  BY <1>1, <1>2, <1>6, <1>12 DEF Moves, Loose
<1>14. DataTypes'
  <2>1. DOMAIN groups' \subseteq GroupNames /\ groups' \in [DOMAIN groups' -> GroupRecords]  BY <1>0, <1>3a DEF Counted
  <2>2. hash' \in [Descriptors -> [Addrs -> Entries] \union {Null}] /\ node' \in [Tasks -> DepnodeRecords]
    <3>1. CASE Tracks(f, t)  BY <1>0, <1>2, <1>4, <3>1, Zenon DEF Tracking
    <3>2. CASE ~Tracks(f, t)  BY <1>0, <1>4, <3>2 DEF Untracked
    <3> QED  BY <3>1, <3>2
  <2> QED  BY <1>0, <1>1, <1>3, <2>1, <2>2 DEF Types, DataTypes, Begun
<1>15. Queued(W2)'
  <2>1. \A s \in Tasks : W[s] = "queue" => W2[s] = "queue"  BY <1>2, <1>6
  <2> QED  BY <1>0, <1>1, <2>1, QueuedSame, Zenon
<1>16. ASSUME NEW s \in Tasks, s # t PROVE W2[s] = W[s] /\ Calm(W, s)
  <2>1. node'[s] = node[s]
    <3>1. CASE Tracks(f, t)  BY <1>4, <1>16, <3>1 DEF Tracking
    <3>2. CASE ~Tracks(f, t)  BY <1>4, <3>2 DEF Untracked
    <3> QED  BY <3>1, <3>2
  <2>2. W[s] = "absent" => s # d  BY <1>2
  <2>3. s \in Descriptors  BY DEF Descriptors
  <2> QED  BY <1>1, <1>3, <1>6, <1>16, <2>1, <2>2, <2>3, Zenon DEF Calm, Begun
<1>17. ProxyOK(t, "absent") /\ TaskOK(t, "absent")  BY <1>2 DEF Shape
<1>18. ProxyOK(t, w)'
  BY <1>1, <1>5, <1>17 DEF ProxyOK, Kind, Young, Late
<1>19. TaskOK(t, w)'
  <2>1. td'[t].state = "live" /\ td'[t].complete = FALSE /\ td'[t].node = nd  BY <1>2, <1>3, Zenon DEF Begun, Descriptors
  <2>2. Kind(t) = "proxy" => proxy'[t] = "idle"  BY <1>1, <1>17 DEF ProxyOK, Young
  <2>3. w \notin Late \union {"group"} /\ w \notin {"absent", "blocked", "push", "depwait"}  BY <1>5 DEF Late
  <2>4. CASE Tracks(f, t)
    <3>1. node'[t].state = "live" /\ node'[t].task = FALSE /\ node'[t].succ = <<>>  BY <1>4, <2>4 DEF Tracking, NewNode
    <3>2. nd <=> Kind(t) # "if0"  BY <2>4
    <3> QED  BY <1>1, <2>1, <2>2, <2>3, <3>1, <3>2 DEF TaskOK, Kind
  <2>5. CASE ~Tracks(f, t)
    <3>1. node'[t] = node[t]  BY <1>4, <2>5 DEF Untracked
    <3>2. node[t].state = "absent" /\ ~nd  BY <1>17, <2>5 DEF TaskOK
    <3>3. ~td[t].node  BY <1>17, <3>2 DEF TaskOK
    <3>4. ~node[t].task /\ node[t].succ = <<>>  BY <1>17, <3>3 DEF TaskOK
    <3>5. w = "ready"  BY <2>5
    <3> QED  BY <1>1, <2>1, <2>2, <2>3, <3>1, <3>2, <3>4, <3>5 DEF TaskOK, Kind
  <2> QED  BY <2>4, <2>5
<1>20. Settled(W, W2)  BY <1>6, <1>16, <1>18, <1>19 DEF Settled
<1>21. Grows(W, W2)  BY <1>2, <1>6 DEF Grows, Young
<1>22. ClimbOK(W2, K)'
  <2>1. ClimbOK(W, K)  BY DEF Shape
  <2> QED  BY <1>0, <1>2, <1>6, <2>1 DEF ClimbOK
<1>23. ChildOK(t, W2)'
  <2>1. Remade(f, {g})  BY <1>4, <1>5, SetFrames
  <2>2. td'[t].parent = d  BY <1>2, <1>3, Zenon DEF Begun, Descriptors
  <2>3. d \in Tasks => W2[d] \notin Young  BY <1>2, <1>6 DEF Young
  <2>4. ASSUME NEW u \in Threads, NEW i \in 1..Len(stack'[u]), stack'[u][i].task = d PROVE f.ip < stack'[u][i].ip
    <3>0. stack' \in [Threads -> Seq(FrameRecords)]
      <4>1. stack \in [Threads -> Seq(FrameRecords)] /\ stack[th] # <<>>  BY TopFacts
      <4> QED  BY <1>4, <1>5, <4>1, SetReplaces DEF Replaced
    <3> PICK h : h = stack'[u][i]  OBVIOUS
    <3>1. DOMAIN stack'[u] = 1..Len(stack'[u])  BY <3>0
    <3>2. h \in Frames'  BY <3>1 DEF Frames, ToSet
    <3>3. h = g  BY <2>1, <2>4, <3>2, Others
    <3>4. f.ip < f.ip + 1  BY <1>2 DEF FrameRecords
    <3> QED  BY <1>5, <3>3, <3>4
  <2>5. f.ip \in 1..Len(prog'.body[d]) /\ prog'.body[d][f.ip] = <<"task", t>>  BY <1>1, <1>2
  <2>6. \A u \in Threads : \A i \in 1..Len(stack'[u]) : stack'[u][i].task = d => f.ip < stack'[u][i].ip  BY <2>4
  <2>7. d # t  BY <1>2
  <2>8. \E j \in 1..Len(prog'.body[d]) :
          /\ prog'.body[d][j] = <<"task", t>>
          /\ \A u \in Threads : \A i \in 1..Len(stack'[u]) : stack'[u][i].task = d => j < stack'[u][i].ip
    BY <2>5, <2>6, Zenon
  <2> QED  BY <2>2, <2>3, <2>7, <2>8 DEF ChildOK
<1>24. Parents(W, W2)  BY <1>6, <1>12, <1>23 DEF Parents
<1>25. Lawful(W, K, W2, K)  BY <1>0, <1>6, <1>14, <1>15, <1>20, <1>21, <1>22, <1>24 DEF Lawful
<1> QED  BY <1>1, <1>4, <1>5, <1>8, <1>9, <1>10, <1>11, <1>13, <1>25, StepOne

----------------------------------------------------------------------------
(* Parts of the invariant that a step leaves alone: children, waits,         *)
(* predecessors.                                                             *)

KeepsAbsent(W, W2) == \A t \in Tasks : W2[t] = "absent" <=> W[t] = "absent"
KeepsGone(W, W2) == \A t \in Tasks : W2[t] = "gone" <=> W[t] = "gone"
ParentTd == \A d \in Descriptors : td'[d].parent = td[d].parent
KidsTd == \A d \in Descriptors : td'[d].kids = td[d].kids /\ td'[d].state = td[d].state
IncTd == \A d \in Descriptors : td'[d].inc = td[d].inc
GroupTd == \A d \in Descriptors : td'[d].group = td[d].group
NodeTd == \A d \in Descriptors : td'[d].node = td[d].node

\* The counts of children when no descriptor, no parent and no end changes.
LEMMA KidsSame ==
    ASSUME NEW W, NEW K, Kids(W, K), NEW W2, KeepsAbsent(W, W2), KeepsGone(W, W2), ParentTd, KidsTd
    PROVE  Kids(W2, K)'
<1>0. \A t \in Tasks : t \in Descriptors  BY DEF Descriptors
<1>1. ASSUME NEW d \in Tasks PROVE Children(d)' = Children(d)  BY <1>0 DEF Children, ParentTd, KidsTd
<1>2. ASSUME NEW d \in Tasks, W2[d] # "absent"
      PROVE  /\ td'[d].kids = (IF W2[d] = "gone" THEN 0 ELSE 1) + Cardinality(Children(d)') + Cardinality(Climbers(K, d))
             /\ td'[d].state = IF td'[d].kids = 0 THEN "freed" ELSE "live"
  BY <1>0, <1>1, <1>2 DEF Kids, KeepsAbsent, KeepsGone, KidsTd
<1>3. \A th \in Threads : td'[th].kids = 1 /\ td'[th].state = "live"  BY DEF Kids, KidsTd, Descriptors
<1> QED  BY <1>2, <1>3 DEF Kids, Climbers

\* The children waited for when no task enters or leaves them.
LEMMA PendingSame ==
    ASSUME NEW W, NEW W2, \A c \in Tasks : Waited(c, W2[c])' <=> Waited(c, W[c]), ParentTd, NEW d
    PROVE  Pending(W2, d)' = Pending(W, d)
BY DEF Pending, ParentTd, Descriptors

\* The counts of incomplete children when nobody enters or leaves them.
LEMMA IncsSame ==
    ASSUME NEW W, Incs(W), NEW W2, KeepsAbsent(W, W2), \A c \in Tasks : Waited(c, W2[c])' <=> Waited(c, W[c]),
           ParentTd, IncTd, \A d \in Descriptors : Image(d)' = Image(d)
    PROVE  Incs(W2)'
<1> SUFFICES ASSUME NEW d \in Descriptors, d \in Threads \/ W2[d] # "absent"
             PROVE  td'[d].inc = Cardinality(Pending(W2, d)') + Image(d)'
  BY DEF Incs
<1>1. d \in Threads \/ W[d] # "absent"  BY DEF KeepsAbsent, Descriptors
<1>2. td[d].inc = Cardinality(Pending(W, d)) + Image(d)  BY <1>1 DEF Incs
<1>3. Pending(W2, d)' = Pending(W, d)  BY PendingSame
<1> QED  BY <1>2, <1>3 DEF IncTd

\* Places among which the counters and the nodes do not tell.
Sorts == {"ready", "push", "queue", "outside", "launch", "body", "bottom", "group", "release"}
SameSort(W, W2) == \A t \in Tasks : W2[t] = W[t] \/ (W[t] \in Sorts /\ W2[t] \in Sorts)

\* Tasks that move within a sort stay in or out of the other places.
LEMMA SortFacts ==
    ASSUME NEW W, NEW W2, SameSort(W, W2), NEW t \in Tasks
    PROVE  \A p \in Places \ Sorts : W2[t] = p <=> W[t] = p
BY DEF SameSort

\* What the predecessors and the nodes tell apart: also not whether a finished task is gone.
SameRank(W, W2) ==
    \A t \in Tasks : \/ W2[t] = W[t] \/ (W[t] \in Sorts /\ W2[t] \in Sorts)
                     \/ (W[t] \in {"free", "gone"} /\ W2[t] \in {"free", "gone"})

\* Moving within the sorts is moving within the ranks.
LEMMA SortRanks == ASSUME NEW W, NEW W2, SameSort(W, W2) PROVE SameRank(W, W2)
BY DEF SameSort, SameRank

\* A use is a position of a list.
LEMMA SuccUsesIn ==
    ASSUME NEW R, NEW t, NEW r \in SuccUses(R, t)
    PROVE  r[1] \in Tasks /\ r[2] \in 1..Len(R[r[1]]) /\ R[r[1]][r[2]] = t
BY DEF SuccUses

\* The untold uses when nobody begins or ends a telling.
LEMMA UntoldSame ==
    ASSUME NEW W, NEW W2, NEW R, \A p \in Tasks : W2[p] = "told" <=> W[p] = "told", NEW t
    PROVE  Untold(W2, R, t) = Untold(W, R, t)
BY SuccUsesIn DEF Untold

\* The predecessors of a task whose rank and node stay.
LEMMA PredsTSame ==
    ASSUME NEW W, NEW W2, SameRank(W, W2), NEW R, NEW t \in Tasks, PredsT(t, W, R),
           node'[t].npred = node[t].npred, node'[t].succ = node[t].succ,
           node'[t].state = "absent" <=> node[t].state = "absent"
    PROVE  PredsT(t, W2, R)'
<1>1. \A p \in Tasks : W2[p] = "told" <=> W[p] = "told"  BY DEF SameRank, Sorts
<1>2. Untold(W2, R, t) = Untold(W, R, t)  BY <1>1, UntoldSame
<1>3. \/ W2[t] = W[t] \/ (W[t] \in Sorts /\ W2[t] \in Sorts)
      \/ (W[t] \in {"free", "gone"} /\ W2[t] \in {"free", "gone"})  BY DEF SameRank
<1> QED  BY <1>2, <1>3 DEF PredsT, Tracked, Sorts

\* The predecessors a frame counts when the node stays.
LEMMA PredsFSame ==
    ASSUME NEW W, NEW W2, \A p \in Tasks : W2[p] = "told" <=> W[p] = "told", NEW R, NEW f, PredsF(f, W, R),
           f.pc \in {"link", "count"} => node'[f.x].npred = node[f.x].npred
    PROVE  PredsF(f, W2, R)'
<1>1. Untold(W2, R, f.x) = Untold(W, R, f.x)  BY UntoldSame
<1> QED  BY <1>1 DEF PredsF

\* The predecessors when ranks and nodes stay.
LEMMA PredsSame ==
    ASSUME NEW W, NEW K, Shape(W, K), NEW R, Preds(W, R), NEW W2, SameRank(W, W2),
           \A t \in Tasks : /\ node'[t].npred = node[t].npred /\ node'[t].succ = node[t].succ
                            /\ node'[t].state = "absent" <=> node[t].state = "absent",
           \A h \in Frames' : h \in Frames \/ PredsF(h, W2, R)'
    PROVE  Preds(W2, R)'
<1>1. \A t \in Tasks : PredsT(t, W2, R)'  BY PredsTSame DEF Preds
<1>2. ASSUME NEW h \in Frames' PROVE PredsF(h, W2, R)'
  <2>1. CASE h \in Frames
    <3>1. PredsF(h, W, R)  BY <2>1 DEF Preds
    <3>2. LocalOK(h)  BY <2>1, FrameFacts
    <3>3. h.pc \in {"link", "count"} => h.x \in Tasks  BY <3>2 DEF LocalOK, Creating
    <3>4. \A p \in Tasks : W2[p] = "told" <=> W[p] = "told"  BY DEF SameRank, Sorts
    <3> QED  BY <3>1, <3>3, <3>4, PredsFSame
  <2> QED  BY <1>2, <2>1
<1> QED  BY <1>1, <1>2 DEF Preds

----------------------------------------------------------------------------
(* Parts of the invariant that a step leaves alone: nodes, order, owners     *)
(* of hashes, presence.                                                      *)

\* Places between which the use of the own node stays.
SameUse(W, W2, t) ==
    /\ W2[t] \in {"free", "gone"} <=> W[t] \in {"free", "gone"}
    /\ W2[t] \in {"linking", "depwait"} <=> W[t] \in {"linking", "depwait"}

\* A rank decides whether a task uses its own node.
LEMMA RankUses == ASSUME NEW W, NEW W2, SameRank(W, W2), NEW t \in Tasks PROVE SameUse(W, W2, t)
BY DEF SameRank, SameUse, Sorts

\* The references of a node that stays.
LEMMA NodesTSame ==
    ASSUME NEW W, NEW W2, NEW R, NEW t \in Tasks, SameUse(W, W2, t), NodesT(t, W, R), prog' = prog,
           node'[t].state = node[t].state, node'[t].nrefs = node[t].nrefs, ParentUses(t)' = ParentUses(t)
    PROVE  NodesT(t, W2, R)'
<1>2. SelfUse(W2, t)' = SelfUse(W, t)  BY DEF SelfUse, Kind, SameUse
<1>3. W2[t] \in {"linking", "depwait"} <=> W[t] \in {"linking", "depwait"}  BY DEF SameUse
<1> QED  BY <1>2, <1>3 DEF NodesT, Kind

\* The uses of a task in its parent's hash when the hashes stay.
LEMMA ParentUsesSame ==
    ASSUME NEW t \in Tasks, hash' = hash, ParentTd
    PROVE  ParentUses(t)' = ParentUses(t)
BY DEF ParentUses, ParentTd, Descriptors

\* The owner of a hash that stays.
LEMMA NodesDSame ==
    ASSUME NEW d \in Descriptors, NodesD(d), hash'[d] = hash[d], ParentTd, NodeTd
    PROVE  NodesD(d)'
BY DEF NodesD, ParentTd, NodeTd, Descriptors

\* The candidates of a frame whose hash stays.
LEMMA NodesFSame ==
    ASSUME NEW f, f.pc = "link" => hash'[f.task] = hash[f.task], NodesF(f), prog' = prog
    PROVE  NodesF(f)'
BY DEF NodesF, Dep

\* The references when hashes and nodes stay.
LEMMA NodesSame ==
    ASSUME NEW W, NEW R, Nodes(W, R), NEW W2, \A t \in Tasks : SameUse(W, W2, t), prog' = prog, hash' = hash, ParentTd, NodeTd,
           \A t \in Tasks : node'[t].state = node[t].state /\ node'[t].nrefs = node[t].nrefs,
           \A h \in Frames' : h \in Frames \/ NodesF(h)'
    PROVE  Nodes(W2, R)'
<1>1. \A t \in Tasks : NodesT(t, W2, R)'  BY NodesTSame, ParentUsesSame DEF Nodes
<1>2. \A d \in Descriptors : NodesD(d)'  BY NodesDSame DEF Nodes
<1>3. \A h \in Frames' : NodesF(h)'  BY NodesFSame DEF Nodes
<1> QED  BY <1>1, <1>2, <1>3 DEF Nodes

\* The order of creation when nobody is created.
LEMMA OrderSame ==
    ASSUME NEW W, NEW R, NEW B, NEW C, Order(W, R, B, C), NEW W2, KeepsAbsent(W, W2), ParentTd,
           \A h \in Frames' : h \in Frames \/ OrderF(h, W2, B)'
    PROVE  Order(W2, R, B, C)'
<1>0. \A t \in Tasks : t \in Descriptors  BY DEF Descriptors
<1>1. \A t \in Tasks : W2[t] # "absent" => B[t] < C /\ (td'[t].parent \in Tasks => B[td'[t].parent] < B[t])
  BY <1>0 DEF Order, KeepsAbsent, ParentTd
<1>2. \A h \in Frames' : OrderF(h, W2, B)'
  BY <1>0 DEF Order, OrderF, KeepsAbsent, ParentTd
<1> QED  BY <1>1, <1>2 DEF Order

Hashing == {"body", "group", "release"}

\* The owners of hashes when no hash appears.
LEMMA HashOwnersSame ==
    ASSUME NEW W, HashOwners(W), NEW W2, \A d \in Tasks : W[d] \in Hashing => W2[d] \in Hashing,
           \A d \in Descriptors : hash'[d] = Null \/ hash'[d] = hash[d],
           \A h \in Frames' : h \in Frames \/ h.pc # "barrier" \/ hash'[h.task] = Null
    PROVE  HashOwners(W2)'
<1> SUFFICES ASSUME NEW d \in Descriptors, hash'[d] # Null
             PROVE  IF d \in Threads THEN \A f \in Frames' : f.task = d => f.pc # "barrier"
                    ELSE W2[d] \in Hashing
  BY DEF HashOwners, Hashing
<1>1. IF d \in Threads THEN \A f \in Frames : f.task = d => f.pc # "barrier" ELSE W[d] \in Hashing
  BY DEF HashOwners, Hashing
<1> QED  BY <1>1 DEF Descriptors

\* Presence after a step of one thread.
LEMMA PresentStep ==
    ASSUME NEW W, NEW K, Present(W, K), NEW W2, NEW K2, NEW f, NEW new, Remade(f, new),
           \A t \in Tasks : \/ W2[t] = W[t] /\ K2[t] = K[t] /\ ~Holds(f, t)
                            \/ HeldBy(new, t, W2[t], K2[t])',
           \A t \in Tasks : W2[t] = "queue" => InDeque(t)', prog' = prog
    PROVE  Present(W2, K2)'
<1> SUFFICES ASSUME NEW t \in Tasks PROVE HeldBy(Frames, t, W2[t], K2[t])'
  BY DEF Present
<1>1. CASE W2[t] = W[t] /\ K2[t] = K[t] /\ ~Holds(f, t)
  <2>1. HeldBy(Frames, t, W[t], K[t])  BY DEF Present
  <2>2. ASSUME NEW h \in Frames, Holds(h, t) PROVE h \in Frames'  BY <1>1, <2>2 DEF Remade
  <2>3. \A h : Makes(h, t)' <=> Makes(h, t)  BY DEF Makes
  <2>4. \A h : Pushes(h, t)' <=> Pushes(h, t)  BY DEF Pushes, Kind
  <2> QED  BY <1>1, <2>1, <2>2, <2>3, <2>4 DEF HeldBy, Holds
<1>2. CASE HeldBy(new, t, W2[t], K2[t])'  BY <1>2 DEF HeldBy, Remade
<1> QED  BY <1>1, <1>2

\* Presence when the stacks stay.
LEMMA PresentSame ==
    ASSUME NEW W, NEW K, Present(W, K), NEW W2, stack' = stack, prog' = prog,
           \A t \in Tasks : W2[t] = W[t] \/ (W2[t] \in {"queue", "outside"} /\ K[t] = None),
           \A t \in Tasks : W2[t] = "queue" => InDeque(t)'
    PROVE  Present(W2, K)'
<1> SUFFICES ASSUME NEW t \in Tasks PROVE HeldBy(Frames, t, W2[t], K[t])'
  BY DEF Present
<1>0. Frames' = Frames  BY DEF Frames
<1>1. CASE W2[t] = W[t]
  <2>1. HeldBy(Frames, t, W[t], K[t])  BY DEF Present
  <2>3. \A h : Makes(h, t)' <=> Makes(h, t)  BY DEF Makes
  <2>4. \A h : Pushes(h, t)' <=> Pushes(h, t)  BY DEF Pushes, Kind
  <2> QED  BY <1>0, <1>1, <2>1, <2>3, <2>4 DEF HeldBy
<1>2. CASE W2[t] \in {"queue", "outside"} /\ K[t] = None  BY <1>2 DEF HeldBy, Running
<1> QED  BY <1>1, <1>2

----------------------------------------------------------------------------
(* The nesting depth of taskgroups along a body; groups that a step leaves   *)
(* alone.                                                                    *)

\* The constructs of one kind up to a position of a body.
LEMMA OpsStep ==
    ASSUME NEW body, NEW op, NEW i \in Nat, i >= 1
    PROVE  /\ Ops(body, op, i) = IF body[i][1] = op THEN Ops(body, op, i - 1) \union {i} ELSE Ops(body, op, i - 1)
           /\ IsFiniteSet(Ops(body, op, i)) /\ IsFiniteSet(Ops(body, op, i - 1))
           /\ Cardinality(Ops(body, op, i - 1)) \in Nat
           /\ Cardinality(Ops(body, op, i)) =
                IF body[i][1] = op THEN Cardinality(Ops(body, op, i - 1)) + 1 ELSE Cardinality(Ops(body, op, i - 1))
<1>1. Ops(body, op, i) = IF body[i][1] = op THEN Ops(body, op, i - 1) \union {i} ELSE Ops(body, op, i - 1)
  BY DEF Ops
<1>2. IsFiniteSet(1..i - 1)  BY FS_Interval
<1>3. Ops(body, op, i - 1) \in SUBSET (1..i - 1)  BY DEF Ops
<1>4. IsFiniteSet(Ops(body, op, i - 1))  BY <1>2, <1>3, FS_Subset
<1>5. i \notin Ops(body, op, i - 1)  BY <1>3
<1> PICK S : S = Ops(body, op, i - 1)  OBVIOUS
<1>6. IsFiniteSet(S \union {i}) /\ Cardinality(S \union {i}) = Cardinality(S) + 1  BY <1>4, <1>5, FS_AddElement
<1>7. Cardinality(S) \in Nat  BY <1>4, FS_CardinalityType
<1> QED  BY <1>1, <1>4, <1>6, <1>7

\* The depth goes up where a group begins and down where one ends.
LEMMA DepthStep ==
    ASSUME NEW d, NEW i \in Nat, i >= 1
    PROVE  /\ Depth(d, i) \in Int /\ Depth(d, i - 1) \in Int
           /\ prog.body[d][i][1] \notin {"taskgroup", "end"} => Depth(d, i) = Depth(d, i - 1)
           /\ prog.body[d][i][1] = "taskgroup" => Depth(d, i) = Depth(d, i - 1) + 1
           /\ prog.body[d][i][1] = "end" => Depth(d, i) = Depth(d, i - 1) - 1
<1> PICK b : b = prog.body[d]  OBVIOUS
<1> PICK m \in Nat : m = Cardinality(Ops(b, "taskgroup", i - 1))  BY OpsStep
<1> PICK n \in Nat : n = Cardinality(Ops(b, "end", i - 1))  BY OpsStep
<1>1. Cardinality(Ops(b, "taskgroup", i)) = IF b[i][1] = "taskgroup" THEN m + 1 ELSE m  BY OpsStep
<1>2. Cardinality(Ops(b, "end", i)) = IF b[i][1] = "end" THEN n + 1 ELSE n  BY OpsStep
<1>3. Depth(d, i - 1) = m - n  BY DEF Depth
<1>4. Depth(d, i) = (IF b[i][1] = "taskgroup" THEN m + 1 ELSE m) - (IF b[i][1] = "end" THEN n + 1 ELSE n)
  BY <1>1, <1>2 DEF Depth
<1> QED  BY <1>3, <1>4

\* A body begins in no group of its own.
LEMMA DepthZero == \A d : Depth(d, 0) = 0
<1> TAKE d
<1>1. \A op : Ops(prog.body[d], op, 0) = {}  BY DEF Ops
<1> QED  BY <1>1, FS_EmptySet DEF Depth

\* A body ends in no group of its own.
LEMMA DepthEnd ==
    ASSUME Types, NEW d \in Descriptors
    PROVE  /\ Depth(d, Len(prog.body[d])) = 0
           /\ \A i \in 1..Len(prog.body[d]) : Depth(d, i) >= 0
<1>1. WellFormed(prog)  BY ProgramFacts
<1>2. Nested(prog.body[d])  BY <1>1 DEF WellFormed
<1> QED  BY <1>2 DEF Nested, Depth

\* The members of a group when nobody enters or leaves.
LEMMA MembersSame ==
    ASSUME NEW W, NEW W2, \A c \in Tasks : Belongs(c, W2[c])' <=> Belongs(c, W[c]), NEW H, NEW g
    PROVE  Members(W2, H, g)' = Members(W, H, g)
BY DEF Members

\* The groups open in a frame that stays.
LEMMA GroupsFSame ==
    ASSUME NEW f, NEW O, GroupsF(f, O), prog' = prog
    PROVE  GroupsF(f, O)'
BY DEF GroupsF, Depth

\* The groups of a descriptor that stays.
LEMMA GroupsDSame ==
    ASSUME NEW d, NEW W, NEW H, NEW O, GroupsD(d, W, H, O), NEW W2, groups' = groups, td'[d].group = td[d].group,
           d \in Tasks => (W2[d] = "absent" <=> W[d] = "absent"), d \in Descriptors
    PROVE  GroupsD(d, W2, H, O)'
BY DEF GroupsD, Home, Descriptors

\* The groups when nobody enters or leaves one.
LEMMA GroupsSame ==
    ASSUME NEW W, NEW H, NEW O, Groups(W, H, O), NEW W2, KeepsAbsent(W, W2), groups' = groups, GroupTd, prog' = prog,
           \A c \in Tasks : Belongs(c, W2[c])' <=> Belongs(c, W[c]),
           \A t \in Tasks : W[t] = "body" => W2[t] = "body" \/ O[t] = <<>>,
           \A h \in Frames' : h \in Frames \/ GroupsF(h, O)'
    PROVE  Groups(W2, H, O)'
<1>1. \A g \in DOMAIN groups' : GroupsG(g, W2, H, O)'
  <2> SUFFICES ASSUME NEW g \in DOMAIN groups PROVE GroupsG(g, W2, H, O)'  OBVIOUS
  <2>1. GroupsG(g, W, H, O)  BY DEF Groups
  <2>2. Members(W2, H, g)' = Members(W, H, g)  BY MembersSame
  <2> QED  BY <2>1, <2>2 DEF GroupsG
<1>2. \A t \in Tasks : Belongs(t, W2[t])' => H[t] \in DOMAIN groups \union {Null}  BY DEF Groups
<1>3. \A t \in Tasks : W2[t] # "body" => O[t] = <<>>  BY DEF Groups
<1>4. \A d \in Descriptors : GroupsD(d, W2, H, O)'  BY GroupsDSame DEF Groups, KeepsAbsent, GroupTd
<1>5. \A h \in Frames' : GroupsF(h, O)'  BY GroupsFSame DEF Groups
<1> QED  BY <1>1, <1>2, <1>3, <1>4, <1>5 DEF Groups

----------------------------------------------------------------------------
(* A hush step moves tasks and frames and leaves every counter and every     *)
(* node alone.                                                               *)

\* A frame goes on without touching the dependences, the groups or the implicit task's end.
StepsFrom(f, h) ==
    /\ h.task = f.task /\ f.ip \in Nat
    /\ \/ h.ip = f.ip
       \/ /\ h.ip = f.ip + 1 /\ f.ip \in 1..Len(prog.body[f.task])
          /\ prog.body[f.task][f.ip][1] \notin {"taskgroup", "end"}
\* A frame that goes on without touching its list.
Onward(f, h) ==
    /\ StepsFrom(f, h)
    /\ h.pc \notin {"link", "count", "barrier"}
    /\ h.pc \in {"succ", "push", "drop"} => f.pc \in {"succ", "push", "drop"} /\ h.todo = f.todo
Enters(h, W) == h.ip = 1 /\ h.task \in Tasks /\ W[h.task] # "body" /\ h.pc \in {"body", "launch", "bottom"}
HushFrames(W) == \A h \in Frames' : h \in Frames \/ (\E f \in Frames : Onward(f, h)) \/ Enters(h, W)
\* A step that changes no counter, no group, no hash and no node.
Hush(W, W2) ==
    /\ prog' = prog /\ groups' = groups /\ hash' = hash /\ node' = node
    /\ ParentTd /\ KidsTd /\ IncTd /\ GroupTd /\ NodeTd
    /\ SameSort(W, W2)
    /\ \A t \in Tasks : (W[t] = "body" => W2[t] = "body") /\ (W[t] \in Hashing => W2[t] \in Hashing)
    /\ \A t \in Tasks : (Waited(t, W2[t])' <=> Waited(t, W[t])) /\ (Belongs(t, W2[t])' <=> Belongs(t, W[t]))
    /\ \A d \in Descriptors : Image(d)' = Image(d)
    /\ HushFrames(W)

\* The part of the invariant that counts descriptors and groups.
Counters(W, K, H, O) == Kids(W, K) /\ Incs(W) /\ Groups(W, H, O)
\* The part of the invariant on nodes and hashes.
Dependences(W, R, B, C) == Preds(W, R) /\ Nodes(W, R) /\ Order(W, R, B, C) /\ HashOwners(W)

\* The groups open in a frame that goes on.
LEMMA GroupsFStep ==
    ASSUME NEW f, NEW h, NEW O, StepsFrom(f, h), GroupsF(f, O), O[f.task] \in Seq(Nat)
    PROVE  GroupsF(h, O)
<1>1. CASE h.ip = f.ip  BY <1>1 DEF GroupsF, StepsFrom
<1>2. CASE h.ip = f.ip + 1 /\ f.ip \in 1..Len(prog.body[f.task]) /\ prog.body[f.task][f.ip][1] \notin {"taskgroup", "end"}
  <2> PICK i \in Nat : i = f.ip  BY DEF StepsFrom
  <2>1. i >= 1  BY <1>2
  <2>2. Depth(f.task, i) = Depth(f.task, i - 1)  BY <1>2, <2>1, DepthStep
  <2>3. h.task = f.task /\ h.ip = i + 1  BY <1>2 DEF StepsFrom
  <2>4. (i + 1) - 1 = i  OBVIOUS
  <2>5. Len(O[f.task]) = Depth(f.task, i)  BY <2>2 DEF GroupsF
  <2>6. ASSUME NEW k \in 1..Len(O[f.task]) PROVE O[f.task][k] < i + 1
    <3> PICK s \in Seq(Nat) : s = O[f.task]  OBVIOUS
    <3> PICK n \in Nat : n = s[k]  BY ElementOf
    <3>1. n < i  BY DEF GroupsF
    <3> QED  BY <3>1
  <2> QED  BY <2>3, <2>4, <2>5, <2>6 DEF GroupsF
<1> QED  BY <1>1, <1>2 DEF StepsFrom

\* No group is open in a frame that starts.
LEMMA GroupsFEnter ==
    ASSUME NEW h, NEW O, h.ip = 1, O[h.task] = <<>>
    PROVE  GroupsF(h, O)
<1>1. Depth(h.task, 0) = 0 /\ Len(O[h.task]) = 0  BY DepthZero, EmptySeq
<1>2. h.ip - 1 = 0  OBVIOUS
<1> QED  BY <1>1, <1>2 DEF GroupsF

\* Within a sort, nobody is created and nobody is gone.
LEMMA SortEnds ==
    ASSUME NEW W, NEW W2, SameSort(W, W2)
    PROVE  KeepsAbsent(W, W2) /\ KeepsGone(W, W2)
BY DEF SameSort, KeepsAbsent, KeepsGone, Sorts

\* A hush step keeps the counters.
LEMMA HushCounters ==
    ASSUME NEW W, NEW K, Shape(W, K), NEW H, NEW O, Counters(W, K, H, O), NEW W2, Hush(W, W2)
    PROVE  Counters(W2, K, H, O)'
<1>1. KeepsAbsent(W, W2) /\ KeepsGone(W, W2)  BY SortEnds DEF Hush
<1>2. Kids(W2, K)'  BY <1>1, KidsSame DEF Counters, Hush
<1>3. Incs(W2)'  BY <1>1, IncsSame DEF Counters, Hush
<1>4. ASSUME NEW h \in Frames' PROVE h \in Frames \/ GroupsF(h, O)'
  <2>1. CASE \E f \in Frames : Onward(f, h)
    <3> PICK f \in Frames : Onward(f, h)  BY <2>1
    <3>1. f.task \in Descriptors  BY FrameFacts
    <3>2. O[f.task] \in Seq(Nat) /\ GroupsF(f, O)  BY <3>1 DEF Counters, Groups
    <3>3. GroupsF(h, O)  BY <3>2, GroupsFStep DEF Onward
    <3>4. prog' = prog  BY DEF Hush
    <3> QED  BY <3>3, <3>4, GroupsFSame
  <2>2. CASE Enters(h, W)
    <3>1. O[h.task] = <<>> /\ h.ip = 1  BY <2>2 DEF Enters, Counters, Groups
    <3>2. GroupsF(h, O)  BY <3>1, GroupsFEnter
    <3>4. prog' = prog  BY DEF Hush
    <3> QED  BY <3>2, <3>4, GroupsFSame
  <2> QED  BY <2>1, <2>2 DEF Hush, HushFrames
<1>5. Groups(W2, H, O)'  BY <1>1, <1>4, GroupsSame DEF Counters, Hush
<1> QED  BY <1>2, <1>3, <1>5 DEF Counters

\* What a step does not reveal to the dependences: new frames are not about them.
Aside(h, R) ==
    /\ h.pc \notin {"link", "count", "barrier"}
    /\ h.pc \in {"succ", "push", "drop"} => Mirror(h.todo, R[h.task])

\* The dependences when ranks, nodes and hashes stay.
LEMMA DependencesSame ==
    ASSUME NEW W, NEW K, Shape(W, K), NEW R, NEW B, NEW C, Dependences(W, R, B, C), NEW W2,
           prog' = prog, hash' = hash, ParentTd, NodeTd, KeepsAbsent(W, W2), SameRank(W, W2),
           \A d \in Tasks : W[d] \in Hashing => W2[d] \in Hashing,
           \A t \in Tasks : /\ node'[t].npred = node[t].npred /\ node'[t].succ = node[t].succ
                            /\ node'[t].state = node[t].state /\ node'[t].nrefs = node[t].nrefs,
           \A h \in Frames' : h \in Frames \/ Aside(h, R)
    PROVE  Dependences(W2, R, B, C)'
<1>1. Preds(W2, R)'
  <2>1. \A h \in Frames' : h \in Frames \/ PredsF(h, W2, R)'  BY DEF PredsF, Aside
  <2> QED  BY <2>1, PredsSame DEF Dependences
<1>2. Nodes(W2, R)'
  <2>1. \A h \in Frames' : h \in Frames \/ NodesF(h)'  BY DEF NodesF, Aside
  <2>2. \A t \in Tasks : SameUse(W, W2, t)  BY RankUses
  <2> QED  BY <2>1, <2>2, NodesSame DEF Dependences
<1>3. Order(W2, R, B, C)'
  <2>1. \A h \in Frames' : h \in Frames \/ OrderF(h, W2, B)'  BY DEF OrderF, Aside
  <2> QED  BY <2>1, OrderSame DEF Dependences
<1>4. HashOwners(W2)'
  <2>1. \A h \in Frames' : h \in Frames \/ h.pc # "barrier" \/ hash'[h.task] = Null  BY DEF Aside
  <2> QED  BY <2>1, HashOwnersSame DEF Dependences
<1> QED  BY <1>1, <1>2, <1>3, <1>4 DEF Dependences

\* A hush step keeps the dependences.
LEMMA HushDependences ==
    ASSUME NEW W, NEW K, Shape(W, K), NEW R, NEW B, NEW C, Dependences(W, R, B, C), NEW W2, Hush(W, W2)
    PROVE  Dependences(W2, R, B, C)'
<1>1. KeepsAbsent(W, W2)  BY SortEnds DEF Hush
<1>2. ASSUME NEW h \in Frames', h \notin Frames PROVE Aside(h, R)
  <2>1. CASE \E f \in Frames : Onward(f, h)
    <3> PICK f \in Frames : Onward(f, h)  BY <2>1
    <3>1. PredsF(f, W, R)  BY DEF Dependences, Preds
    <3> QED  BY <3>1 DEF PredsF, Onward, StepsFrom, Aside
  <2>2. CASE Enters(h, W)  BY <2>2 DEF Enters, Aside
  <2> QED  BY <1>2, <2>1, <2>2 DEF Hush, HushFrames
<1>3. SameRank(W, W2)  BY SortRanks DEF Hush
<1> QED  BY <1>1, <1>2, <1>3, DependencesSame DEF Hush

----------------------------------------------------------------------------
(* What makes a step hush. *)

QuietTd == ParentTd /\ KidsTd /\ IncTd /\ GroupTd /\ NodeTd
QuietData == prog' = prog /\ groups' = groups /\ hash' = hash /\ node' = node

\* Descriptors that are the same are quiet.
LEMMA SameTdQuiet == SameTd => QuietTd
BY DEF SameTd, TdAlike, QuietTd, ParentTd, KidsTd, IncTd, GroupTd, NodeTd

\* A place that moves quietly.
Softly(W, t, w) ==
    /\ W[t] \in Sorts /\ w \in Sorts /\ (W[t] = "body" => w = "body") /\ (W[t] \in Hashing => w \in Hashing)
    /\ Waited(t, w)' <=> Waited(t, W[t])
    /\ Belongs(t, w)' <=> Belongs(t, W[t])
    /\ Image(t)' = Image(t)

\* A step that moves one task within its sort is hush.
LEMMA HushOne ==
    ASSUME NEW W, W \in [Tasks -> Places], NEW t \in Tasks, NEW w, Softly(W, t, w), NEW W2, W2 = [W EXCEPT ![t] = w],
           QuietData, QuietTd, \A s \in Tasks : s # t => proxy'[s] = proxy[s], HushFrames(W)
    PROVE  Hush(W, W2)
<1>0. prog' = prog  BY DEF QuietData
<1>1. W2[t] = w /\ \A s \in Tasks : s # t => W2[s] = W[s]  OBVIOUS
<1>2. SameSort(W, W2)  BY <1>1 DEF SameSort, Softly
<1>3. \A s \in Tasks : (W[s] = "body" => W2[s] = "body") /\ (W[s] \in Hashing => W2[s] \in Hashing)  BY <1>1 DEF Softly
<1>4. ASSUME NEW s \in Tasks
      PROVE  (Waited(s, W2[s])' <=> Waited(s, W[s])) /\ (Belongs(s, W2[s])' <=> Belongs(s, W[s])) /\ Image(s)' = Image(s)
  <2>1. CASE s = t  BY <1>1, <2>1 DEF Softly
  <2>2. CASE s # t  BY <1>0, <1>1, <2>2 DEF Waited, Belongs, Image, Kind
  <2> QED  BY <2>1, <2>2
<1>5. \A d \in Descriptors : Image(d)' = Image(d)
  <2>1. ASSUME NEW d \in Descriptors, d \notin Tasks PROVE Image(d)' = Image(d)  BY <2>1 DEF Image
  <2> QED  BY <1>4, <2>1
<1> QED  BY <1>2, <1>3, <1>4, <1>5 DEF Hush, QuietData, QuietTd

\* A step that moves no task is hush.
LEMMA HushNone ==
    ASSUME NEW W, QuietData, QuietTd, proxy' = proxy, HushFrames(W)
    PROVE  Hush(W, W)
<1>0. prog' = prog  BY DEF QuietData
<1>1. SameSort(W, W)  BY DEF SameSort
<1>2. \A s \in Tasks : (Waited(s, W[s])' <=> Waited(s, W[s])) /\ (Belongs(s, W[s])' <=> Belongs(s, W[s]))
  BY <1>0 DEF Waited, Belongs, Kind
<1>3. \A d \in Descriptors : Image(d)' = Image(d)  BY DEF Image
<1> QED  BY <1>1, <1>2, <1>3 DEF Hush, QuietData, QuietTd

\* A frame at another control point is onward.
LEMMA TurnedOnward ==
    ASSUME NEW f \in FrameRecords, NEW pc, NEW g, Turn(f, g, pc), pc \notin {"link", "count", "barrier"},
           pc \in {"succ", "push", "drop"} => f.pc \in {"succ", "push", "drop"}
    PROVE  Onward(f, g)
<1>1. g.task = f.task /\ g.ip = f.ip /\ g.pc = pc /\ g.todo = f.todo  BY DEF Turn
<1>2. f.ip \in Nat  BY DEF FrameRecords
<1> QED  BY <1>1, <1>2 DEF Onward, StepsFrom

\* One onward frame in place of the top one.
LEMMA HushSet ==
    ASSUME NEW W, NEW f, NEW g, Remade(f, {g}), Onward(f, g)
    PROVE  HushFrames(W)
BY DEF Remade, HushFrames

\* An onward frame and one that starts.
LEMMA HushPush ==
    ASSUME NEW W, NEW f, NEW g, NEW e, Remade(f, {g, e}), Onward(f, g) \/ g = f, Enters(e, W)
    PROVE  HushFrames(W)
BY DEF Remade, HushFrames

\* No frame in place of the top one.
LEMMA HushPop ==
    ASSUME NEW W, NEW f, Remade(f, {})
    PROVE  HushFrames(W)
BY DEF Remade, HushFrames

\* No frame touched.
LEMMA HushStill ==
    ASSUME NEW W, stack' = stack
    PROVE  HushFrames(W)
<1>1. Frames' = Frames  BY DEF Frames
<1> QED  BY <1>1 DEF HushFrames

\* Who is in a deque.
InDeques(W, t) == \A s \in Tasks : W[s] = "queue" /\ s # t => InDeque(s)

\* A task that is put is in a deque.
LEMMA DequePut ==
    ASSUME NEW W, deque \in [Threads -> Seq(Tasks)], NEW u \in Threads, NEW t \in Tasks, Put(u, t)
    PROVE  InDeque(t)' /\ \A s \in Tasks : InDeque(s) => InDeque(s)'
<1> PICK q \in Seq(Tasks) : q = deque[u]  OBVIOUS
<1> PICK D : D = deque'  OBVIOUS
<1>1. D[u] = Append(q, t) /\ \A v \in Threads : v # u => D[v] = deque[v]  BY DEF Put
<1> PICK n \in Nat : n = Len(q)  BY LenNat
<1>2. Len(Append(q, t)) = n + 1 /\ Append(q, t)[n + 1] = t /\ \A i \in 1..n : Append(q, t)[i] = q[i]  BY AppendProperties
<1>3. n + 1 \in 1..n + 1 /\ \A i \in 1..n : i \in 1..n + 1  OBVIOUS
<1>4. \E v \in Threads : \E i \in 1..Len(D[v]) : D[v][i] = t  BY <1>1, <1>2, <1>3
<1>5. ASSUME NEW s \in Tasks, NEW v \in Threads, NEW i \in 1..Len(deque[v]), deque[v][i] = s
      PROVE  \E w \in Threads : \E k \in 1..Len(D[w]) : D[w][k] = s
  <2>1. CASE v = u  BY <1>1, <1>2, <1>3, <1>5, <2>1
  <2>2. CASE v # u  BY <1>1, <1>5, <2>2
  <2> QED  BY <2>1, <2>2
<1>6. InDeque(t)'  BY <1>4 DEF InDeque
<1>7. ASSUME NEW s \in Tasks, InDeque(s) PROVE InDeque(s)'
  <2> PICK v \in Threads : \E i \in 1..Len(deque[v]) : deque[v][i] = s  BY <1>7 DEF InDeque
  <2> PICK i \in 1..Len(deque[v]) : deque[v][i] = s  OBVIOUS
  <2>1. \E w \in Threads : \E k \in 1..Len(D[w]) : D[w][k] = s  BY <1>5
  <2> QED  BY <2>1 DEF InDeque
<1> QED  BY <1>6, <1>7

\* The other tasks stay in their deques.
LEMMA DequeTake ==
    ASSUME deque \in [Threads -> Seq(Tasks)], NEW u \in Threads, deque[u] # <<>>, NEW t, Takes(u, t)
    PROVE  \A s \in Tasks : InDeque(s) /\ s # t => InDeque(s)'
<1> PICK q \in Seq(Tasks) : q = deque[u]  OBVIOUS
<1> PICK n \in Nat : n = Len(q)  BY LenNat
<1> PICK D : D = deque'  OBVIOUS
<1>1. ASSUME NEW s \in Tasks, s # t, NEW v \in Threads, NEW i \in 1..Len(deque[v]), deque[v][i] = s
      PROVE  \E w \in Threads : \E k \in 1..Len(D[w]) : D[w][k] = s
  <2>0. v # u => D[v] = deque[v]  BY DEF Takes
  <2>1. CASE v # u  BY <1>1, <2>0, <2>1
  <2>2. CASE v = u
    <3>0. i \in 1..n /\ q[i] = s  BY <1>1, <2>2
    <3>1. CASE t = Last(deque[u]) /\ deque' = [deque EXCEPT ![u] = Front(@)]
      <4>1. D[u] = Front(q) /\ t = Last(q)  BY <3>1
      <4>2. t = q[n] /\ Len(Front(q)) = n - 1 /\ \A k \in 1..n - 1 : Front(q)[k] = q[k]  BY <4>1, QueueEnds
      <4>3. i \in 1..n - 1  BY <1>1, <3>0, <4>2
      <4> QED  BY <3>0, <4>1, <4>2, <4>3
    <3>2. CASE t = Head(deque[u]) /\ deque' = [deque EXCEPT ![u] = Tail(@)]
      <4>1. D[u] = Tail(q) /\ t = Head(q)  BY <3>2
      <4>2. t = q[1] /\ Len(Tail(q)) = n - 1 /\ \A k \in 1..n - 1 : Tail(q)[k] = q[k + 1]  BY <4>1, ListFacts
      <4>3. PICK k \in 1..n - 1 : i = k + 1
        <5>1. i # 1  BY <1>1, <3>0, <4>2
        <5>2. i - 1 \in 1..n - 1 /\ i = (i - 1) + 1  BY <3>0, <5>1
        <5> QED  BY <5>2
      <4>4. D[u][k] = s /\ k \in 1..Len(D[u])  BY <3>0, <4>1, <4>2, <4>3
      <4> QED  BY <4>4
    <3> QED  BY <3>1, <3>2 DEF Takes
  <2> QED  BY <2>1, <2>2
<1> QED  BY <1>1 DEF InDeque

\* Who is queued is in a deque when the deques stay.
LEMMA DequeSame ==
    ASSUME NEW W, NEW K, Present(W, K), NEW W2, deque' = deque, \A t \in Tasks : W2[t] = "queue" => W[t] = "queue"
    PROVE  \A t \in Tasks : W2[t] = "queue" => InDeque(t)'
BY DEF Present, InDeque

\* A frame of a task holds it.
LEMMA HeldTask ==
    ASSUME NEW F, NEW t, NEW w, w \notin {"linking", "depwait", "ready", "push"}, NEW k, NEW g \in F, g.task = t
    PROVE  HeldBy(F, t, w, k)'
BY DEF HeldBy

\* Only a task that is gone climbs.
LEMMA NoClimb ==
    ASSUME NEW W, NEW K, Shape(W, K), NEW t \in Tasks, W[t] # "gone"
    PROVE  K[t] = None
BY DEF Shape, ClimbOK

----------------------------------------------------------------------------
(* Hush steps: Launch, BottomHalf, Returned, Pass. *)

\* A hush step that keeps the shape, with the places it leads to.
Quietly(W, K) == \E W2 : Shape(W2, K)' /\ Present(W2, K)' /\ Hush(W, W2)
\* f holds only its own task.
Only(f) == \A t \in Tasks : Holds(f, t) => t = f.task
Makers == {"linking", "depwait", "ready", "push"}

\* Presence when one frame goes on.
LEMMA PresentOwn ==
    ASSUME NEW W, NEW K, Present(W, K), NEW W2, NEW K2, NEW f, NEW g, Remade(f, {g}), g.task = f.task, Only(f),
           \A t \in Tasks : t # f.task => W2[t] = W[t] /\ K2[t] = K[t],
           f.task \in Tasks => W2[f.task] \notin Makers \union {"queue"}, deque' = deque, prog' = prog
    PROVE  Present(W2, K2)'
<1>1. ASSUME NEW t \in Tasks
      PROVE  \/ W2[t] = W[t] /\ K2[t] = K[t] /\ ~Holds(f, t)
             \/ HeldBy({g}, t, W2[t], K2[t])'
  <2>1. CASE t = f.task
    <3>1. W2[t] \notin {"linking", "depwait", "ready", "push"} /\ g.task = t /\ g \in {g}  BY <2>1 DEF Makers
    <3>2. HeldBy({g}, t, W2[t], K2[t])'  BY <3>1, HeldTask
    <3> QED  BY <3>2
  <2>2. CASE t # f.task  BY <2>2 DEF Only
  <2> QED  BY <2>1, <2>2
<1>2. \A t \in Tasks : W2[t] = "queue" => W[t] = "queue"  OBVIOUS
<1>3. \A t \in Tasks : W2[t] = "queue" => InDeque(t)'  BY <1>2, DequeSame
<1> QED  BY <1>1, <1>3, PresentStep

\* Launch is hush.
LEMMA LaunchQuiet ==
    ASSUME NEW W, NEW K, Shape(W, K), Present(W, K), NEW th \in Threads, Launch(th)
    PROVE  Quietly(W, K)
<1> PICK f : f = Top(th)  OBVIOUS
<1>1. f.pc = "launch" /\ f \in FrameRecords  BY TaskFrame DEF Launch, At
<1>2. Shape(W, K)' /\ f.task \in Tasks /\ W[f.task] = "launch" /\ proxy[f.task] = "idle" /\ Kind(f.task) = "proxy"
  BY LaunchShape
<1>3. W \in [Tasks -> Places] /\ Types  BY DEF Shape
<1>4. "returned" \in Pcs  BY DEF Pcs, Proxying
<1> PICK g : Turn(f, g, "returned")  BY <1>1, <1>4, Turned
<1>5. SetTop(th, g)  BY DEF Launch, Goto, Turn
<1>6. /\ g \in FrameRecords /\ g.task = f.task  BY DEF Turn
<1>7. Remade(f, {g})  BY <1>5, <1>6, SetFrames
<1>8. QuietData /\ deque' = deque /\ td' = td /\ proxy' = [proxy EXCEPT ![f.task] = "run"]  BY DEF Launch, QuietData, Advance
<1>9. Onward(f, g)  BY <1>1, TurnedOnward
<1>10. HushFrames(W)  BY <1>7, <1>9, HushSet
<1>11. QuietTd  BY <1>3, <1>8, SameTdQuiet, TdUnchanged DEF Types, DataTypes
<1>12. prog' = prog  BY <1>8 DEF QuietData
<1>13. Softly(W, f.task, "launch")
  <2>1. proxy'[f.task] = "run"  BY <1>2, <1>3, <1>8 DEF Types, DataTypes
  <2> QED  BY <1>2, <1>12, <2>1 DEF Softly, Sorts, Waited, Belongs, Image, Hashing, Kind
<1>14. W = [W EXCEPT ![f.task] = "launch"]  BY <1>2, <1>3
<1>15. \A s \in Tasks : s # f.task => proxy'[s] = proxy[s]  BY <1>3, <1>8 DEF Types, DataTypes
<1>16. Hush(W, W)  BY <1>2, <1>3, <1>8, <1>10, <1>11, <1>13, <1>14, <1>15, HushOne
<1>17. Only(f)  BY <1>1 DEF Only, Holds, Makes, Pushes, Creating
<1>18. Present(W, K)'  BY <1>2, <1>6, <1>7, <1>8, <1>12, <1>17, PresentOwn DEF Makers
<1> QED  BY <1>2, <1>16, <1>18 DEF Quietly

\* BottomHalf is hush once the top half is done.
LEMMA BottomHalfQuiet ==
    ASSUME NEW W, NEW K, Shape(W, K), Present(W, K), NEW th \in Threads, BottomHalf(th), proxy[Top(th).task] = "done"
    PROVE  Quietly(W, K)
<1> PICK f : f = Top(th)  OBVIOUS
<1>w. PICK W2 : W2 = [W EXCEPT ![f.task] = "release"]  OBVIOUS
<1>1. f.pc = "bottom" /\ f \in FrameRecords  BY TaskFrame DEF BottomHalf, At
<1>2. Shape(W2, K)' /\ f.task \in Tasks /\ W[f.task] = "bottom" /\ Kind(f.task) = "proxy"
  BY <1>w, BottomHalfShape
<1>3. W \in [Tasks -> Places] /\ Types  BY DEF Shape
<1>4. "release" \in Pcs  BY DEF Pcs, Finishing
<1> PICK g : Turn(f, g, "release")  BY <1>1, <1>4, Turned
<1>5. SetTop(th, g)  BY DEF BottomHalf, Goto, Turn
<1>6. /\ g \in FrameRecords /\ g.task = f.task  BY DEF Turn
<1>7. Remade(f, {g})  BY <1>5, <1>6, SetFrames
<1>8. QuietData /\ deque' = deque /\ td' = td /\ proxy' = proxy  BY DEF BottomHalf, QuietData
<1>9. Onward(f, g)  BY <1>1, TurnedOnward
<1>10. HushFrames(W)  BY <1>7, <1>9, HushSet
<1>11. QuietTd  BY <1>3, <1>8, SameTdQuiet, TdUnchanged DEF Types, DataTypes
<1>12. prog' = prog  BY <1>8 DEF QuietData
<1>13. Softly(W, f.task, "release")
  BY <1>2, <1>8, <1>12 DEF Softly, Sorts, Waited, Belongs, Image, Hashing, Kind
<1>16. Hush(W, W2)  BY <1>w, <1>2, <1>3, <1>8, <1>10, <1>11, <1>13, HushOne
<1>17. Only(f)  BY <1>1 DEF Only, Holds, Makes, Pushes, Creating
<1>18. Present(W2, K)'
  <2>1. W2[f.task] = "release" /\ \A t \in Tasks : t # f.task => W2[t] = W[t]  BY <1>w, <1>2, <1>3
  <2> QED  BY <1>2, <1>6, <1>7, <1>8, <1>12, <1>17, <2>1, PresentOwn DEF Makers
<1> QED  BY <1>2, <1>16, <1>18 DEF Quietly

\* Returned is hush.
LEMMA ReturnedQuiet ==
    ASSUME NEW W, NEW K, Shape(W, K), Present(W, K), NEW th \in Threads, Returned(th)
    PROVE  Quietly(W, K)
<1> PICK f : f = Top(th)  OBVIOUS
<1>w. PICK W2 : W2 = [W EXCEPT ![f.task] = "outside"]  OBVIOUS
<1>2. Shape(W2, K)' /\ f.task \in Tasks /\ W[f.task] = "launch" /\ f.pc = "returned" /\ Kind(f.task) = "proxy"
  BY <1>w, ReturnedShape
<1>3. W \in [Tasks -> Places] /\ Types  BY DEF Shape
<1>7. Remade(f, {})  BY PoppedFrames DEF Returned
<1>8. QuietData /\ deque' = deque /\ td' = td /\ proxy' = proxy  BY DEF Returned, QuietData
<1>10. HushFrames(W)  BY <1>7, HushPop
<1>11. QuietTd  BY <1>3, <1>8, SameTdQuiet, TdUnchanged DEF Types, DataTypes
<1>12. prog' = prog  BY <1>8 DEF QuietData
<1>13. Softly(W, f.task, "outside")
  BY <1>2, <1>8, <1>12 DEF Softly, Sorts, Waited, Belongs, Image, Hashing, Kind, Late
<1>16. Hush(W, W2)  BY <1>w, <1>2, <1>3, <1>8, <1>10, <1>11, <1>13, HushOne
<1>17. Only(f)  BY <1>2 DEF Only, Holds, Makes, Pushes, Creating
<1>18. Present(W2, K)'
  <2>1. W2[f.task] = "outside" /\ \A t \in Tasks : t # f.task => W2[t] = W[t]  BY <1>w, <1>2, <1>3
  <2>2. K[f.task] = None  BY <1>2, NoClimb
  <2>3. HeldBy({}, f.task, "outside", None)'  BY DEF HeldBy, Running
  <2>4. \A t \in Tasks : \/ W2[t] = W[t] /\ K[t] = K[t] /\ ~Holds(f, t)
                         \/ HeldBy({}, t, W2[t], K[t])'  BY <1>17, <2>1, <2>2, <2>3 DEF Only
  <2>5. \A t \in Tasks : W2[t] = "queue" => InDeque(t)'  BY <1>8, <2>1, DequeSame
  <2> QED  BY <1>7, <1>12, <2>4, <2>5, PresentStep
<1> QED  BY <1>2, <1>16, <1>18 DEF Quietly

\* Pass is hush.
LEMMA PassQuiet ==
    ASSUME NEW W, NEW K, Shape(W, K), Present(W, K), NEW th \in Threads, Pass(th)
    PROVE  Quietly(W, K)
<1> PICK f : f = Top(th)  OBVIOUS
<1>1. /\ Shape(W, K)' /\ f \in FrameRecords /\ f.pc \in {"body", "yield"}
      /\ \E g : /\ SetTop(th, g) /\ g \in FrameRecords /\ g.task = f.task /\ g.pc \in {"body", "yield"}
                /\ \/ g.ip = f.ip
                   \/ /\ f.ip \in 1..Len(prog.body[f.task])
                      /\ prog.body[f.task][f.ip][1] \in {"taskwait", "taskyield"} /\ g.ip = f.ip + 1
  BY PassShape
<1> PICK g : /\ SetTop(th, g) /\ g \in FrameRecords /\ g.task = f.task /\ g.pc \in {"body", "yield"}
             /\ \/ g.ip = f.ip
                \/ /\ f.ip \in 1..Len(prog.body[f.task])
                   /\ prog.body[f.task][f.ip][1] \in {"taskwait", "taskyield"} /\ g.ip = f.ip + 1
  BY <1>1
<1>3. W \in [Tasks -> Places] /\ Types  BY DEF Shape
<1>7. Remade(f, {g})  BY SetFrames
<1>8. QuietData /\ deque' = deque /\ td' = td /\ proxy' = proxy  BY DEF Pass, QuietData
<1>9. Onward(f, g)
  <2>1. f.ip \in Nat  BY <1>1 DEF FrameRecords
  <2>2. StepsFrom(f, g)  BY <2>1 DEF StepsFrom
  <2> QED  BY <2>2 DEF Onward
<1>10. HushFrames(W)  BY <1>7, <1>9, HushSet
<1>11. QuietTd  BY <1>3, <1>8, SameTdQuiet, TdUnchanged DEF Types, DataTypes
<1>12. prog' = prog  BY <1>8 DEF QuietData
<1>16. Hush(W, W)  BY <1>8, <1>10, <1>11, HushNone
<1>17. Only(f)  BY <1>1 DEF Only, Holds, Makes, Pushes, Creating
<1>18. Present(W, K)'
  <2>1. f.task \in Tasks => W[f.task] = "body"  BY <1>1, TaskFrame DEF Bodily
  <2> QED  BY <1>7, <1>8, <1>12, <1>17, <2>1, PresentOwn DEF Makers
<1> QED  BY <1>1, <1>16, <1>18 DEF Quietly

----------------------------------------------------------------------------
(* Hush steps that start a task. *)

\* One task moved, the others not.
LEMMA MovedFacts ==
    ASSUME NEW W, W \in [Tasks -> Places], NEW t \in Tasks, NEW w, NEW W2, Moved(W, W2, t, w)
    PROVE  W2[t] = w /\ \A s \in Tasks : s # t => W2[s] = W[s]
BY DEF Moved

\* Moving one task within its sort is hush.
LEMMA HushMoved ==
    ASSUME NEW W, W \in [Tasks -> Places], NEW t \in Tasks, NEW w, Softly(W, t, w), NEW W2, Moved(W, W2, t, w),
           QuietData, QuietTd, \A s \in Tasks : s # t => proxy'[s] = proxy[s], HushFrames(W)
    PROVE  Hush(W, W2)
BY HushOne DEF Moved

Fresh == {"ready", "push", "queue"}

\* Starting or queueing a fresh task is within its sort.
LEMMA SoftlyStarts ==
    ASSUME NEW W, NEW t \in Tasks, W[t] \in Fresh, NEW w \in {"queue", "body", "launch", "bottom"},
           prog' = prog, proxy' = proxy
    PROVE  Softly(W, t, w)
BY DEF Softly, Fresh, Sorts, Hashing, Waited, Belongs, Image, Kind, Late

\* What f held is t, its own task, or held by the new frames F.
Covered(f, t, F, W, K) == \A s \in Tasks : Holds(f, s) => s = f.task \/ s = t \/ HeldBy(F, s, W[s], K[s])'

\* A thread begins a task on top of the frame g that f becomes.
LEMMA PushQuiet ==
    ASSUME NEW W, NEW K, Shape(W, K), Present(W, K), NEW th \in Threads, NEW f, f = Top(th),
           NEW t \in Tasks, W[t] \in Fresh, NEW g \in FrameRecords, NEW e,
           NEW pc \in {"body", "launch", "bottom"}, Made(e, t, pc), PushFrames(th, g, e),
           g.task = f.task, Onward(f, g) \/ g = f,
           f.task \in Tasks => W[f.task] \notin Makers \union {"queue"},
           Covered(f, t, {g, e}, W, K),
           \A s \in Tasks : s # t /\ InDeque(s) => InDeque(s)',
           QuietData, SameTd, proxy' = proxy, NEW W2, Moved(W, W2, t, pc)
    PROVE  Present(W2, K)' /\ Hush(W, W2)
<1>1. W \in [Tasks -> Places]  BY DEF Shape
<1>2. W2[t] = pc /\ \A s \in Tasks : s # t => W2[s] = W[s]  BY <1>1, MovedFacts
<1>3. e \in FrameRecords /\ e.task = t /\ e.ip = 1 /\ e.pc = pc  BY DEF Made
<1>4. Remade(f, {g, e})  BY <1>3, PushedFrames
<1>5. Enters(e, W)  BY <1>3 DEF Enters, Fresh
<1>6. HushFrames(W)  BY <1>4, <1>5, HushPush
<1>7. prog' = prog  BY DEF QuietData
<1>8. Softly(W, t, pc)  BY <1>7, SoftlyStarts
<1>9. Hush(W, W2)  BY <1>1, <1>6, <1>8, HushMoved, SameTdQuiet
<1>10. ASSUME NEW s \in Tasks
       PROVE  \/ W2[s] = W[s] /\ K[s] = K[s] /\ ~Holds(f, s)
              \/ HeldBy({g, e}, s, W2[s], K[s])'
  <2>1. CASE s = t
    <3>1. W2[s] \notin {"linking", "depwait", "ready", "push"} /\ e.task = s /\ e \in {g, e}  BY <1>2, <1>3, <2>1
    <3> QED  BY <3>1, HeldTask
  <2>2. CASE s # t /\ s = f.task
    <3>1. W2[s] \notin {"linking", "depwait", "ready", "push"} /\ g.task = s /\ g \in {g, e}  BY <1>2, <2>2 DEF Makers
    <3> QED  BY <3>1, HeldTask
  <2>3. CASE s # t /\ s # f.task  BY <1>2, <2>3 DEF Covered
  <2> QED  BY <2>1, <2>2, <2>3
<1>11. ASSUME NEW s \in Tasks, W2[s] = "queue" PROVE InDeque(s)'
  <2>1. s # t  BY <1>2, <1>11
  <2>2. InDeque(s)  BY <1>2, <1>11, <2>1 DEF Present
  <2> QED  BY <2>1, <2>2
<1>12. Present(W2, K)'  BY <1>4, <1>7, <1>10, <1>11, PresentStep
<1> QED  BY <1>9, <1>12

\* Submitting a task is hush.
LEMMA SubmitQuiet ==
    ASSUME NEW W, NEW K, Shape(W, K), Present(W, K), NEW th \in Threads, NEW f, f = Top(th),
           NEW t \in Tasks, W[t] \in {"ready", "push"}, NEW g \in FrameRecords,
           g.task = f.task, Onward(f, g), SubmitOutcome(th, t, g), SubmitPlace(th, t) \in {"queue", "launch", "body"},
           f.task \in Tasks => W[f.task] \notin Makers \union {"queue"},
           \A s \in Tasks : Holds(f, s) => s = f.task \/ s = t,
           QuietData, SameTd, proxy' = proxy, NEW W2, Moved(W, W2, t, SubmitPlace(th, t))
    PROVE  Present(W2, K)' /\ Hush(W, W2)
<1>0. W[t] \in Fresh  BY DEF Fresh
<1>1. W \in [Tasks -> Places] /\ Types  BY DEF Shape
<1>2. W2[t] = SubmitPlace(th, t) /\ \A s \in Tasks : s # t => W2[s] = W[s]  BY <1>1, MovedFacts
<1>7. prog' = prog  BY DEF QuietData
<1>8. ASSUME SubmitPlace(th, t) = "queue", SetTop(th, g), Put(th, t) PROVE Present(W2, K)' /\ Hush(W, W2)
  <2>1. Remade(f, {g})  BY <1>8, SetFrames
  <2>2. HushFrames(W)  BY <2>1, HushSet
  <2>3. Softly(W, t, "queue")  BY <1>0, <1>7, SoftlyStarts
  <2>4. Moved(W, W2, t, "queue")  BY <1>8
  <2>5. Hush(W, W2)  BY <1>1, <2>2, <2>3, <2>4, HushMoved, SameTdQuiet
  <2>6. InDeque(t)' /\ \A s \in Tasks : InDeque(s) => InDeque(s)'  BY <1>1, <1>8, DequePut DEF Types, DataTypes
  <2>7. \A s \in Tasks : W2[s] = "queue" => InDeque(s)'  BY <1>2, <2>6 DEF Present
  <2>8. K[t] = None  BY <1>0, NoClimb DEF Fresh
  <2>9. ASSUME NEW s \in Tasks
        PROVE  \/ W2[s] = W[s] /\ K[s] = K[s] /\ ~Holds(f, s)
               \/ HeldBy({g}, s, W2[s], K[s])'
    <3>1. CASE s = t
      <4>1. W2[s] = "queue" /\ K[s] = None  BY <1>2, <1>8, <2>8, <3>1
      <4> QED  BY <4>1 DEF HeldBy, Running
    <3>2. CASE s # t /\ s = f.task
      <4>1. W2[s] \notin {"linking", "depwait", "ready", "push"} /\ g.task = s /\ g \in {g}  BY <1>2, <3>2 DEF Makers
      <4> QED  BY <4>1, HeldTask
    <3>3. CASE s # t /\ s # f.task  BY <1>2, <3>3
    <3> QED  BY <3>1, <3>2, <3>3
  <2>10. Present(W2, K)'  BY <1>7, <2>1, <2>7, <2>9, PresentStep
  <2> QED  BY <2>5, <2>10
<1>9. ASSUME SubmitPlace(th, t) # "queue", NEW e, Made(e, t, SubmitPlace(th, t)), PushFrames(th, g, e), deque' = deque
      PROVE  Present(W2, K)' /\ Hush(W, W2)
  <2>1. SubmitPlace(th, t) \in {"body", "launch", "bottom"}  BY <1>9
  <2>2. \A s \in Tasks : s # t /\ InDeque(s) => InDeque(s)'  BY <1>9 DEF InDeque
  <2>3. PICK w : w = SubmitPlace(th, t)  OBVIOUS
  <2>4. w \in {"body", "launch", "bottom"} /\ Made(e, t, w) /\ PushFrames(th, g, e) /\ Moved(W, W2, t, w)  BY <1>9, <2>1, <2>3
  <2>5. Covered(f, t, {g, e}, W, K)  BY DEF Covered
  <2> HIDE <2>3
  <2> QED  BY <1>0, <2>2, <2>4, <2>5, PushQuiet
<1> QED  BY <1>8, <1>9 DEF SubmitOutcome

----------------------------------------------------------------------------
(* Hush steps: submitting, beginning, taking, signalling, giving. *)

\* SubmitNew is hush.
LEMMA SubmitNewQuiet ==
    ASSUME NEW W, NEW K, Shape(W, K), Present(W, K), NEW th \in Threads, SubmitNew(th)
    PROVE  Quietly(W, K)
<1> PICK f : f = Top(th)  OBVIOUS
<1>w. PICK W2 : W2 = [W EXCEPT ![f.x] = SubmitPlace(th, f.x)]  OBVIOUS
<1>1. /\ Shape(W2, K)' /\ SameTd /\ f.x \in Tasks /\ W[f.x] = "ready" /\ f.pc = "submit" /\ Kind(f.x) # "if0"
      /\ \E g : Turn(f, g, "body") /\ SubmitOutcome(th, f.x, g)
  BY <1>w, SubmitNewShape
<1> PICK t \in Tasks : t = f.x  BY <1>1
<1> PICK g : Turn(f, g, "body") /\ SubmitOutcome(th, t, g)  BY <1>1
<1>2. f \in FrameRecords /\ (f.task \in Tasks => W[f.task] = "body")  BY <1>1, TaskFrame DEF Bodily, Creating
<1>3. g \in FrameRecords /\ g.task = f.task  BY DEF Turn
<1>4. Onward(f, g)  BY <1>2, TurnedOnward
<1>5. QuietData /\ proxy' = proxy  BY DEF SubmitNew, QuietData
<1>6. \A s \in Tasks : Holds(f, s) => s = f.task \/ s = t  BY <1>1 DEF Holds, Makes, Pushes
<1>7. Moved(W, W2, t, SubmitPlace(th, t))  BY <1>w DEF Moved
<1>8. SubmitPlace(th, t) \in {"queue", "launch", "body"}  BY DEF SubmitPlace
<1>9. W[t] \in {"ready", "push"}  BY <1>1
<1>10. f.task \in Tasks => W[f.task] \notin Makers \union {"queue"}  BY <1>2 DEF Makers
<1>11. Present(W2, K)' /\ Hush(W, W2)
  BY <1>1, <1>3, <1>4, <1>5, <1>6, <1>7, <1>8, <1>9, <1>10, SubmitQuiet
<1> QED  BY <1>1, <1>11 DEF Quietly

\* SubmitReleased is hush.
LEMMA SubmitReleasedQuiet ==
    ASSUME NEW W, NEW K, Shape(W, K), Present(W, K), NEW th \in Threads, SubmitReleased(th)
    PROVE  Quietly(W, K)
<1> PICK f : f = Top(th)  OBVIOUS
<1>h. PICK s : s = Head(f.todo)  OBVIOUS
<1>w. PICK W2 : W2 = IF node[s].task THEN [W EXCEPT ![s] = SubmitPlace(th, s)] ELSE W  OBVIOUS
<1>1. /\ Shape(W2, K)' /\ SameTd /\ f.task \in Tasks /\ W[f.task] = "told" /\ s \in Tasks /\ f.pc = "push"
      /\ IF node[s].task THEN W[s] = "push" /\ \E g : Turn(f, g, "drop") /\ SubmitOutcome(th, s, g)
         ELSE Kind(s) = "if0" /\ deque' = deque /\ \E g : Turn(f, g, "drop") /\ SetTop(th, g)
  BY <1>h, <1>w, SubmitReleasedShape
<1> PICK g : Turn(f, g, "drop") /\ IF node[s].task THEN SubmitOutcome(th, s, g) ELSE SetTop(th, g)  BY <1>1
<1>2. f \in FrameRecords  BY TaskFrame
<1>3. g \in FrameRecords /\ g.task = f.task  BY DEF Turn
<1>4. Onward(f, g)  BY <1>1, <1>2, TurnedOnward
<1>5. QuietData /\ proxy' = proxy  BY DEF SubmitReleased, QuietData
<1>6. \A t \in Tasks : Holds(f, t) => t = f.task \/ (t = s /\ Kind(s) # "if0")  BY <1>1, <1>h DEF Holds, Makes, Pushes, Creating
<1>7. CASE node[s].task
  <2>1. Moved(W, W2, s, SubmitPlace(th, s))  BY <1>w, <1>7 DEF Moved
  <2>2. SubmitPlace(th, s) \in {"queue", "launch", "body"}  BY DEF SubmitPlace
  <2>3. W[s] \in {"ready", "push"}  BY <1>1, <1>7
  <2>4. f.task \in Tasks => W[f.task] \notin Makers \union {"queue"}  BY <1>1 DEF Makers
  <2>5. SubmitOutcome(th, s, g)  BY <1>7
  <2>6. \A t \in Tasks : Holds(f, t) => t = f.task \/ t = s  BY <1>6
  <2>7. Present(W2, K)' /\ Hush(W, W2)
    BY <1>1, <1>3, <1>4, <1>5, <2>1, <2>2, <2>3, <2>4, <2>5, <2>6, SubmitQuiet
  <2> QED  BY <1>1, <2>7 DEF Quietly
<1>8. CASE ~node[s].task
  <2>1. W2 = W /\ Kind(s) = "if0" /\ deque' = deque /\ SetTop(th, g)  BY <1>1, <1>w, <1>8
  <2>2. Remade(f, {g})  BY <1>3, <2>1, SetFrames
  <2>3. HushFrames(W)  BY <1>4, <2>2, HushSet
  <2>4. Hush(W, W)  BY <1>1, <1>5, <2>3, HushNone, SameTdQuiet
  <2>5. Only(f)  BY <1>6, <2>1 DEF Only
  <2>6. prog' = prog  BY <1>5 DEF QuietData
  <2>7. Present(W, K)'  BY <1>1, <1>3, <2>1, <2>2, <2>5, <2>6, PresentOwn DEF Makers
  <2> QED  BY <1>1, <2>1, <2>4, <2>7 DEF Quietly
<1> QED  BY <1>7, <1>8

\* Begin is hush.
LEMMA BeginQuiet ==
    ASSUME NEW W, NEW K, Shape(W, K), Present(W, K), NEW th \in Threads, Begin(th)
    PROVE  Quietly(W, K)
<1> PICK f : f = Top(th)  OBVIOUS
<1>w. PICK W2 : W2 = [W EXCEPT ![f.x] = "body"]  OBVIOUS
<1>1. /\ Shape(W2, K)' /\ SameTd /\ f.x \in Tasks /\ W[f.x] = "ready" /\ f.pc = "begin" /\ Kind(f.x) = "if0"
      /\ \E g : Turn(f, g, "body") /\ \E e : Made(e, f.x, "body") /\ PushFrames(th, g, e)
  BY <1>w, BeginShape
<1> PICK t \in Tasks : t = f.x  BY <1>1
<1> PICK g : Turn(f, g, "body") /\ \E e : Made(e, t, "body") /\ PushFrames(th, g, e)  BY <1>1
<1> PICK e : Made(e, t, "body") /\ PushFrames(th, g, e)  OBVIOUS
<1>2. f \in FrameRecords /\ (f.task \in Tasks => W[f.task] = "body")  BY <1>1, TaskFrame DEF Bodily, Creating
<1>3. g \in FrameRecords /\ g.task = f.task  BY DEF Turn
<1>4. Onward(f, g)  BY <1>2, TurnedOnward
<1>5. QuietData /\ proxy' = proxy /\ deque' = deque  BY DEF Begin, QuietData
<1>6. Covered(f, t, {g, e}, W, K)  BY <1>1 DEF Holds, Makes, Pushes, Covered
<1>7. Moved(W, W2, t, "body")  BY <1>w DEF Moved
<1>9. W[t] \in Fresh  BY <1>1 DEF Fresh
<1>10. f.task \in Tasks => W[f.task] \notin Makers \union {"queue"}  BY <1>2 DEF Makers
<1>11. \A s \in Tasks : s # t /\ InDeque(s) => InDeque(s)'  BY <1>5 DEF InDeque
<1>12. Present(W2, K)' /\ Hush(W, W2)
  BY <1>1, <1>3, <1>4, <1>5, <1>6, <1>7, <1>9, <1>10, <1>11, PushQuiet
<1> QED  BY <1>1, <1>12 DEF Quietly

\* Taking a task is hush.
LEMMA TakeQuiet ==
    ASSUME NEW W, NEW K, Shape(W, K), Present(W, K), NEW th \in Threads, Waits(th),
           NEW u \in Threads, deque[u] # <<>>, NEW t, Takes(u, t), Invoke(th, t)
    PROVE  Quietly(W, K)
<1> PICK f : f = Top(th)  OBVIOUS
<1>p. PICK pc : pc = TakenAs(t)  OBVIOUS
<1>w. PICK W2 : W2 = [W EXCEPT ![t] = pc]  OBVIOUS
<1>1. /\ Shape(W2, K)' /\ SameTd /\ t \in Tasks /\ W[t] = "queue" /\ f.pc \in Bodily \union {"barrier"}
      /\ \E g : /\ Resumes(f, g) /\ g \in FrameRecords
                /\ \E e : Made(e, t, pc) /\ PushFrames(th, g, e)
  <2>1. Takes(u, t) /\ Invoke(th, t) /\ Waits(th) /\ deque[u] # <<>>  OBVIOUS
  <2>2. Moved(W, W2, t, pc)  BY <1>w DEF Moved
  <2> QED  BY <1>p, <2>1, <2>2, TakeShape
<1> PICK g : /\ Resumes(f, g) /\ g \in FrameRecords
             /\ \E e : Made(e, t, pc) /\ PushFrames(th, g, e)
  BY <1>1
<1> PICK e : Made(e, t, pc) /\ PushFrames(th, g, e)  OBVIOUS
<1>2. f \in FrameRecords /\ LocalOK(f) /\ (f.task \in Tasks => W[f.task] = "body")
  <2>1. LocalOK(f) /\ f \in FrameRecords  BY TaskFrame
  <2>2. f.task \in Tasks => f.pc \in Bodily  BY <1>1, <2>1 DEF LocalOK
  <2> QED  BY <2>1, <2>2, TaskFrame
<1>3. g \in FrameRecords /\ g.task = f.task  BY DEF Resumes, Turn
<1>4. Onward(f, g) \/ g = f  BY <1>2, TurnedOnward DEF Resumes
<1>5. QuietData /\ proxy' = proxy  BY DEF Invoke, QuietData
<1>6. Covered(f, t, {g, e}, W, K)
  <2> SUFFICES ASSUME NEW s \in Tasks, Holds(f, s), s # f.task PROVE HeldBy({g, e}, s, W[s], K[s])'  BY DEF Covered
  <2>1. ~Pushes(f, s)  BY <1>1 DEF Pushes, Bodily, Creating
  <2>2. Makes(f, s)  BY <2>1 DEF Holds
  <2>3. g = f  BY <2>2 DEF Makes, Creating, Resumes
  <2>4. W[s] \in {"linking", "depwait", "ready"}  BY <2>2, TaskFrame DEF Makes, Making
  <2>5. K[s] = None  BY <2>4, NoClimb
  <2>6. Makes(g, s)'  BY <2>2, <2>3 DEF Makes
  <2> QED  BY <2>4, <2>5, <2>6 DEF HeldBy, Running
<1>7. Moved(W, W2, t, pc)  BY <1>w DEF Moved
<1>9. W[t] \in Fresh /\ t \in Tasks  BY <1>1 DEF Fresh
<1>10. f.task \in Tasks => W[f.task] \notin Makers \union {"queue"}  BY <1>2 DEF Makers
<1>11. \A s \in Tasks : s # t /\ InDeque(s) => InDeque(s)'
  <2>1. deque \in [Threads -> Seq(Tasks)]  BY DEF Shape, Types, DataTypes
  <2> QED  BY <2>1, DequeTake
<1>12. pc \in {"body", "launch", "bottom"} /\ SameTd  BY <1>1, <1>p DEF TakenAs
<1>13. Present(W2, K)' /\ Hush(W, W2)
  BY <1>3, <1>4, <1>5, <1>6, <1>7, <1>9, <1>10, <1>11, <1>12, PushQuiet
<1> QED  BY <1>1, <1>13 DEF Quietly

\* TakeOwn is hush.
LEMMA TakeOwnQuiet ==
    ASSUME NEW W, NEW K, Shape(W, K), Present(W, K), NEW th \in Threads, TakeOwn(th)
    PROVE  Quietly(W, K)
<1>1. PICK t \in Own(th) : Invoke(th, t)  BY DEF TakeOwn
<1>2. deque[th] # <<>> /\ t = Last(deque[th])  BY DEF Own
<1>3. Waits(th) /\ Takes(th, t)  BY <1>2 DEF TakeOwn, Takes
<1> QED  BY <1>1, <1>2, <1>3, TakeQuiet

\* StealFrom is hush.
LEMMA StealQuiet ==
    ASSUME NEW W, NEW K, Shape(W, K), Present(W, K), NEW th \in Threads, NEW v \in Threads, StealFrom(th, v)
    PROVE  Quietly(W, K)
<1>1. PICK t \in Steal(th, v) : Invoke(th, t)  BY DEF StealFrom
<1>2. deque[v] # <<>> /\ t = Head(deque[v])  BY DEF Steal
<1>3. Waits(th) /\ Takes(v, t)  BY <1>2 DEF StealFrom, Takes
<1> QED  BY <1>1, <1>2, <1>3, TakeQuiet

\* Signal is hush once the launcher has returned.
LEMMA SignalQuiet ==
    ASSUME NEW W, NEW K, Shape(W, K), Present(W, K), NEW t \in Tasks, Signal(t), Races = {}
    PROVE  Quietly(W, K)
<1>1. W[t] # "launch"
  <2> SUFFICES ASSUME W[t] = "launch" PROVE FALSE  OBVIOUS
  <2>1. PICK f \in Frames : f.task = t  BY DEF Present, HeldBy, Running
  <2>2. PICK u \in Threads : \E i \in 1..Len(stack[u]) : stack[u][i] = f  BY InFrames DEF Shape, Types
  <2> QED  BY <2>1, <2>2 DEF Signal
<1>2. /\ Shape(W, K)' /\ W[t] = "outside" /\ Kind(t) = "proxy" /\ Advanced(t, "run", "group")
      /\ td' \in [Descriptors -> TaskdataRecords]
      /\ \A d \in Descriptors : AlikeButComplete(td[d], td'[d])
  BY <1>1, SignalShape
<1>3. W \in [Tasks -> Places] /\ proxy \in [Tasks -> Stages]  BY DEF Shape, Types, DataTypes
<1>4. QuietTd  BY <1>2 DEF QuietTd, AlikeButComplete, ParentTd, KidsTd, IncTd, GroupTd, NodeTd
<1>5. QuietData /\ deque' = deque /\ stack' = stack /\ prog' = prog  BY DEF Signal, QuietData
<1>6. HushFrames(W)  BY <1>5, HushStill
<1>7. proxy[t] = "run" /\ proxy'[t] = "group" /\ \A s \in Tasks : s # t => proxy'[s] = proxy[s]  BY <1>2, <1>3 DEF Advanced
<1>8. Softly(W, t, "outside")
  BY <1>2, <1>5, <1>7 DEF Softly, Sorts, Waited, Belongs, Image, Hashing, Kind
<1>9. Moved(W, W, t, "outside")  BY <1>2, <1>3 DEF Moved
<1>10. Hush(W, W)  BY <1>3, <1>4, <1>5, <1>6, <1>7, <1>8, <1>9, HushMoved
<1>11. \A s \in Tasks : W[s] = "queue" => InDeque(s)'  BY <1>5, DequeSame
<1>12. Present(W, K)'  BY <1>5, <1>11, PresentSame
<1> QED  BY <1>2, <1>10, <1>12 DEF Quietly

\* Give is hush.
LEMMA GiveQuiet ==
    ASSUME NEW W, NEW K, Shape(W, K), Present(W, K), NEW t \in Tasks, Give(t)
    PROVE  Quietly(W, K)
<1>w. PICK W2 : W2 = [W EXCEPT ![t] = "queue"]  OBVIOUS
<1>2. /\ Shape(W2, K)' /\ W[t] = "outside" /\ Kind(t) = "proxy" /\ Advanced(t, "give", "parent")
      /\ \E u \in Threads : deque' = [deque EXCEPT ![u] = Append(@, t)]
  BY <1>w, GiveShape
<1>3. W \in [Tasks -> Places] /\ proxy \in [Tasks -> Stages] /\ deque \in [Threads -> Seq(Tasks)] /\ Types
  BY DEF Shape, Types, DataTypes
<1>4. QuietTd
  <2>1. SameTd  BY <1>3, TdUnchanged DEF Types, DataTypes, Give
  <2> QED  BY <2>1, SameTdQuiet
<1>5. QuietData /\ stack' = stack /\ prog' = prog  BY DEF Give, QuietData
<1>6. HushFrames(W)  BY <1>5, HushStill
<1>7. proxy[t] = "give" /\ proxy'[t] = "parent" /\ \A s \in Tasks : s # t => proxy'[s] = proxy[s]  BY <1>2, <1>3 DEF Advanced
<1>8. Softly(W, t, "queue")
  BY <1>2, <1>5, <1>7 DEF Softly, Sorts, Waited, Belongs, Image, Hashing, Kind
<1>9. Moved(W, W2, t, "queue")  BY <1>w DEF Moved
<1>10. Hush(W, W2)  BY <1>3, <1>4, <1>5, <1>6, <1>7, <1>8, <1>9, HushMoved
<1>11. W2[t] = "queue" /\ \A s \in Tasks : s # t => W2[s] = W[s]  BY <1>3, <1>9, MovedFacts
<1>12. K[t] = None  BY <1>2, NoClimb
<1>13. \A s \in Tasks : W2[s] = "queue" => InDeque(s)'
  <2>1. PICK u \in Threads : Put(u, t)  BY <1>2 DEF Put
  <2>2. InDeque(t)' /\ \A s \in Tasks : InDeque(s) => InDeque(s)'  BY <1>3, <2>1, DequePut
  <2> QED  BY <1>11, <2>2 DEF Present
<1>14. \A s \in Tasks : W2[s] = W[s] \/ (W2[s] \in {"queue", "outside"} /\ K[s] = None)  BY <1>11, <1>12
<1>15. Present(W2, K)'  BY <1>5, <1>13, <1>14, PresentSame
<1> QED  BY <1>2, <1>10, <1>15 DEF Quietly

----------------------------------------------------------------------------
(* The invariant after a hush step; sets of tasks. *)

\* The invariant by its parts.
LEMMA InvParts ==
    ASSUME NEW W, NEW K, NEW R, NEW H, NEW O, NEW B, NEW C
    PROVE  Inv(W, K, R, H, O, B, C) <=> Shape(W, K) /\ Counters(W, K, H, O) /\ Dependences(W, R, B, C) /\ Present(W, K)
BY DEF Inv, Counters, Dependences

\* The invariant holds again, in some way.
Again == \E W, K, R, H, O, B, C : Inv(W, K, R, H, O, B, C)'

\* The invariant holds again when its parts do.
LEMMA AgainFrom ==
    ASSUME NEW W, NEW K, NEW R, NEW H, NEW O, NEW B, NEW C,
           Shape(W, K)', Counters(W, K, H, O)', Dependences(W, R, B, C)', Present(W, K)'
    PROVE  Again
<1>1. Inv(W, K, R, H, O, B, C)'  BY DEF Inv, Counters, Dependences
<1> QED  BY <1>1 DEF Again

\* A hush step keeps the invariant.
LEMMA QuietAgain ==
    ASSUME NEW W, NEW K, NEW R, NEW H, NEW O, NEW B, NEW C, Inv(W, K, R, H, O, B, C), Quietly(W, K)
    PROVE  Again
<1>1. Shape(W, K) /\ Counters(W, K, H, O) /\ Dependences(W, R, B, C)  BY InvParts
<1>2. PICK W2 : Shape(W2, K)' /\ Present(W2, K)' /\ Hush(W, W2)  BY DEF Quietly
<1>3. Counters(W2, K, H, O)'  BY <1>1, <1>2, HushCounters
<1>4. Dependences(W2, R, B, C)'  BY <1>1, <1>2, HushDependences
<1> QED  BY <1>2, <1>3, <1>4, AgainFrom

\* A set of tasks is finite.
LEMMA SubTasks == ASSUME NEW S \in SUBSET Tasks PROVE IsFiniteSet(S) /\ Cardinality(S) \in Nat
BY TaskNames, FS_Subset, FS_CardinalityType

\* One task more.
LEMMA CardAdd ==
    ASSUME NEW S \in SUBSET Tasks, NEW T, NEW c \in Tasks, c \notin S, T = S \union {c}
    PROVE  Cardinality(T) = Cardinality(S) + 1 /\ Cardinality(S) \in Nat
BY SubTasks, FS_AddElement

\* One task less.
LEMMA CardRemove ==
    ASSUME NEW S \in SUBSET Tasks, NEW T, NEW c \in Tasks, c \in S, T = S \ {c}
    PROVE  Cardinality(S) = Cardinality(T) + 1 /\ Cardinality(T) \in Nat
<1>1. T \in SUBSET Tasks /\ c \notin T /\ S = T \union {c}  OBVIOUS
<1> QED  BY <1>1, CardAdd

\* BottomHalf waits for the top half: the imaginary child is gone.
LEMMA BottomDone ==
    ASSUME NEW W, NEW K, Shape(W, K), Incs(W), NEW th \in Threads, BottomHalf(th)
    PROVE  proxy[Top(th).task] = "done"
<1> PICK f : f = Top(th)  OBVIOUS
<1>1. f.pc = "bottom" /\ td[f.task].inc = 0  BY DEF BottomHalf, At
<1>2. f.task \in Tasks /\ W[f.task] = "bottom" /\ LocalOK(f)  BY <1>1, TaskFrame DEF Proxying
<1>3. Kind(f.task) = "proxy"  BY <1>1, <1>2 DEF LocalOK, Proxying
<1>4. proxy[f.task] \in {"parent", "child", "done"}  BY <1>2, <1>3 DEF Shape, ProxyOK
<1>5. 0 = Cardinality(Pending(W, f.task)) + Image(f.task)  BY <1>1, <1>2 DEF Incs, Descriptors
<1>6. Pending(W, f.task) \in SUBSET Tasks  BY DEF Pending
<1>7. Cardinality(Pending(W, f.task)) \in Nat  BY <1>6, SubTasks
<1>8. Image(f.task) # 1
  <2> PICK n \in Nat : n = Cardinality(Pending(W, f.task))  BY <1>7
  <2>1. 0 = n + Image(f.task)  BY <1>5
  <2> QED  BY <2>1
<1>9. proxy[f.task] \notin {"give", "parent", "child"}  BY <1>2, <1>8 DEF Image
<1> QED  BY <1>4, <1>9

----------------------------------------------------------------------------
(* The count of children of a descriptor, when one is created. *)

\* The hold of a task on its own descriptor.
OwnHold(W, d) == IF W[d] = "gone" THEN 0 ELSE 1

\* What the invariant says of the count of children.
LEMMA KidsFacts ==
    ASSUME NEW W, NEW K, Shape(W, K), Kids(W, K), NEW d \in Tasks, W[d] # "absent"
    PROVE  /\ td[d].kids = OwnHold(W, d) + Cardinality(Children(d)) + Cardinality(Climbers(K, d))
           /\ td[d].state = IF td[d].kids = 0 THEN "freed" ELSE "live"
           /\ td[d].kids \in Nat
           /\ Children(d) \in SUBSET Tasks /\ Climbers(K, d) \in SUBSET Tasks
           /\ Cardinality(Children(d)) \in Nat /\ Cardinality(Climbers(K, d)) \in Nat
           /\ OwnHold(W, d) \in {0, 1}
<1>1. Children(d) \in SUBSET Tasks /\ Climbers(K, d) \in SUBSET Tasks  BY DEF Children, Climbers
<1>2. Cardinality(Children(d)) \in Nat /\ Cardinality(Climbers(K, d)) \in Nat  BY <1>1, SubTasks
<1>3. td[d].kids = OwnHold(W, d) + Cardinality(Children(d)) + Cardinality(Climbers(K, d))
      /\ td[d].state = IF td[d].kids = 0 THEN "freed" ELSE "live"  BY DEF Kids, OwnHold
<1>4. OwnHold(W, d) \in {0, 1}  BY DEF OwnHold
<1>5. td[d].kids \in Nat
  <2> PICK a \in Nat : a = Cardinality(Children(d))  BY <1>2
  <2> PICK b \in Nat : b = Cardinality(Climbers(K, d))  BY <1>2
  <2> PICK e \in {0, 1} : e = OwnHold(W, d)  BY <1>4
  <2>1. td[d].kids = e + a + b  BY <1>3
  <2> QED  BY <2>1
<1> QED  BY <1>1, <1>2, <1>3, <1>4, <1>5

\* The counts of children after a step, descriptor by descriptor.
LEMMA KidsStep ==
    ASSUME NEW W2, NEW K2,
           \A d \in Tasks : W2[d] # "absent" =>
             /\ td'[d].kids = OwnHold(W2, d) + Cardinality(Children(d)') + Cardinality(Climbers(K2, d))
             /\ td'[d].state = IF td'[d].kids = 0 THEN "freed" ELSE "live",
           \A th \in Threads : td'[th].kids = 1 /\ td'[th].state = "live"
    PROVE  Kids(W2, K2)'
BY DEF Kids, OwnHold, Climbers

\* Create counts the new child with its parent.
LEMMA CreateKids ==
    ASSUME NEW W, NEW K, Shape(W, K), Kids(W, K), NEW d \in Descriptors, NEW t \in Tasks, NEW nd, Begun(d, t, nd),
           W[t] = "absent", t # d, d \in Tasks => W[d] = "body", NEW w \in {"linking", "ready"}, NEW W2, Moved(W, W2, t, w)
    PROVE  Kids(W2, K)'
<1>0. W \in [Tasks -> Places] /\ \A s \in Tasks : s \in Descriptors /\ s \notin Threads
  BY TaskNames DEF Shape, Descriptors
<1>1. W2[t] = w /\ \A s \in Tasks : s # t => W2[s] = W[s]  BY <1>0, MovedFacts
<1>2. td[t].state = "absent"  BY DEF Shape, TaskOK
<1>3. ASSUME NEW c \in Tasks, td[c].state = "live" PROVE td[c].parent # t /\ c # t
  <2>1. W[c] # "absent"  BY <1>3 DEF Shape, TaskOK
  <2>2. td[c].parent \in Tasks => W[td[c].parent] \notin Young  BY <2>1, ParentFacts
  <2> QED  BY <1>2, <1>3, <2>2 DEF Young
<1>4. Children(t)' = {}
  <2>1. ASSUME NEW c \in Tasks, td'[c].state = "live", td'[c].parent = t PROVE FALSE
    <3>1. CASE c = t  BY <1>0, <2>1, <3>1 DEF Begun
    <3>2. CASE c # t  BY <1>0, <1>3, <2>1, <3>2, Zenon DEF Begun
    <3> QED  BY <3>1, <3>2
  <2> QED  BY <2>1 DEF Children
<1>5. Climbers(K, t) = {}
  <2>1. ASSUME NEW c \in Tasks, K[c] = t PROVE FALSE
    <3>1. K[c] # None  BY <2>1, TaskNames
    <3> QED  BY <2>1, <3>1 DEF Shape, ClimbOK
  <2> QED  BY <2>1 DEF Climbers
<1>6. ASSUME NEW e \in Tasks, W2[e] # "absent"
      PROVE  /\ td'[e].kids = OwnHold(W2, e) + Cardinality(Children(e)') + Cardinality(Climbers(K, e))
             /\ td'[e].state = IF td'[e].kids = 0 THEN "freed" ELSE "live"
  <2>1. CASE e = t
    <3>1. td'[e].kids = 1 /\ td'[e].state = "live"  BY <1>0, <2>1 DEF Begun
    <3>2. OwnHold(W2, e) = 1  BY <1>1, <2>1 DEF OwnHold
    <3>3. Cardinality(Children(e)') = 0 /\ Cardinality(Climbers(K, e)) = 0  BY <1>4, <1>5, <2>1, FS_EmptySet
    <3> QED  BY <3>1, <3>2, <3>3
  <2>2. CASE e # t /\ e = d
    <3>1. td'[e].kids = td[e].kids + 1 /\ td'[e].state = td[e].state  BY <1>0, <2>2 DEF Begun
    <3>2. W[e] = "body" /\ W2[e] = "body"  BY <1>1, <2>2
    <3>3. OwnHold(W, e) = 1 /\ OwnHold(W2, e) = 1  BY <3>2 DEF OwnHold
    <3>4. Children(e)' = Children(e) \union {t} /\ t \notin Children(e)
      <4>1. t \notin Children(e)  BY <1>2 DEF Children
      <4>2. ASSUME NEW c \in Tasks PROVE td'[c].state = "live" /\ td'[c].parent = e <=> (td[c].state = "live" /\ td[c].parent = e) \/ c = t
        BY <1>0, <2>2 DEF Begun
      <4> QED  BY <4>1, <4>2 DEF Children
    <3>5. /\ td[e].kids = OwnHold(W, e) + Cardinality(Children(e)) + Cardinality(Climbers(K, e))
          /\ td[e].state = IF td[e].kids = 0 THEN "freed" ELSE "live"
          /\ td[e].kids \in Nat /\ Children(e) \in SUBSET Tasks
          /\ Cardinality(Children(e)) \in Nat /\ Cardinality(Climbers(K, e)) \in Nat
      <4>1. W[e] # "absent"  BY <3>2
      <4> QED  BY <4>1, KidsFacts
    <3>6. Cardinality(Children(e)') = Cardinality(Children(e)) + 1  BY <3>4, <3>5, CardAdd
    <3> PICK a \in Nat : a = Cardinality(Children(e))  BY <3>5
    <3> PICK b \in Nat : b = Cardinality(Climbers(K, e))  BY <3>5
    <3> PICK n \in Nat : n = td[e].kids  BY <3>5
    <3>7. n = 1 + a + b  BY <3>3, <3>5
    <3>8. td'[e].kids = n + 1 /\ n + 1 = 1 + (a + 1) + b /\ n # 0 /\ n + 1 # 0  BY <3>1, <3>7
    <3>9. td'[e].state = "live"  BY <3>1, <3>5, <3>8
    <3> QED  BY <3>3, <3>6, <3>8, <3>9
  <2>3. CASE e # t /\ e # d
    <3>1. td'[e].kids = td[e].kids /\ td'[e].state = td[e].state  BY <1>0, <2>3 DEF Begun
    <3>2. W2[e] = W[e] /\ OwnHold(W2, e) = OwnHold(W, e)  BY <1>1, <2>3 DEF OwnHold
    <3>3. Children(e)' = Children(e)
      <4>1. ASSUME NEW c \in Tasks PROVE td'[c].state = "live" /\ td'[c].parent = e <=> td[c].state = "live" /\ td[c].parent = e
        BY <1>0, <1>2, <2>3 DEF Begun
      <4> QED  BY <4>1 DEF Children
    <3>4. /\ td[e].kids = OwnHold(W, e) + Cardinality(Children(e)) + Cardinality(Climbers(K, e))
          /\ td[e].state = IF td[e].kids = 0 THEN "freed" ELSE "live"
      BY <1>6, <3>2, KidsFacts
    <3> QED  BY <3>1, <3>2, <3>3, <3>4
  <2> QED  BY <2>1, <2>2, <2>3
<1>7. \A th \in Threads : td'[th].kids = 1 /\ td'[th].state = "live"
  <2>1. ASSUME NEW th \in Threads PROVE td'[th].kids = td[th].kids /\ td'[th].state = td[th].state
    BY <1>0, TaskNames, Zenon DEF Begun, Descriptors
  <2> QED  BY <2>1 DEF Kids
<1> QED  BY <1>6, <1>7, KidsStep

----------------------------------------------------------------------------
(* The count of children, when a task is freed and its ancestors are         *)
(* climbed.                                                                  *)

\* The holds on d other than its children.
Holding(W, K, d) == OwnHold(W, d) + Cardinality(Climbers(K, d))

\* A hold is a number.
LEMMA HoldType ==
    ASSUME NEW W, NEW K, NEW d
    PROVE  OwnHold(W, d) \in {0, 1} /\ Cardinality(Climbers(K, d)) \in Nat /\ Holding(W, K, d) \in Nat
<1>1. OwnHold(W, d) \in {0, 1}  BY DEF OwnHold
<1>2. Climbers(K, d) \in SUBSET Tasks  BY DEF Climbers
<1>3. Cardinality(Climbers(K, d)) \in Nat  BY <1>2, SubTasks
<1> QED  BY <1>1, <1>3 DEF Holding

\* t holds x: its own descriptor, or the ancestor it climbs to.
HasHold(W, K, t, x, q) ==
    /\ W \in [Tasks -> Places] /\ K \in [Tasks -> Tasks \union {None}]
    /\ q \in Tasks \union {None} /\ q # x
    /\ IF W[t] = "gone" THEN K[t] = x ELSE x = t /\ K[t] = None
\* A hold on x, as the last task on its way or as a climber, goes on to q or is given up.
LEMMA HoldMoves ==
    ASSUME NEW W, NEW K, NEW t \in Tasks, NEW x \in Tasks, NEW q, HasHold(W, K, t, x, q),
           NEW W2, Moved(W, W2, t, "gone"), NEW K2, Moved(K, K2, t, q), NEW d \in Tasks
    PROVE  /\ d = x => Holding(W, K, d) = Holding(W2, K2, d) + 1
           /\ d = q => Holding(W2, K2, d) = Holding(W, K, d) + 1
           /\ d # x /\ d # q => Holding(W2, K2, d) = Holding(W, K, d)
<1>0. None \notin Tasks  BY TaskNames
<1> USE DEF HasHold
<1>1. W2[t] = "gone" /\ K2[t] = q /\ \A s \in Tasks : s # t => W2[s] = W[s] /\ K2[s] = K[s]  BY DEF Moved
<1>2. Climbers(K, d) \in SUBSET Tasks /\ Climbers(K2, d) \in SUBSET Tasks  BY DEF Climbers
<1>3. d # q => Climbers(K2, d) = Climbers(K, d) \ {t}  BY <1>1 DEF Climbers
<1>4. d = q => Climbers(K2, d) = Climbers(K, d) \union {t}  BY <1>1 DEF Climbers
<1>5. CASE W[t] = "gone"
  <2>1. K[t] = x  BY <1>5
  <2>2. OwnHold(W2, d) = OwnHold(W, d)  BY <1>1, <1>5 DEF OwnHold
  <2>3. t \in Climbers(K, d) <=> d = x  BY <2>1 DEF Climbers
  <2> PICK e \in {0, 1} : e = OwnHold(W, d)  BY HoldType
  <2> PICK b \in Nat : b = Cardinality(Climbers(K, d))  BY HoldType
  <2> PICK c \in Nat : c = Cardinality(Climbers(K2, d))  BY HoldType
  <2>4. d = x => b = c + 1  BY <1>2, <1>3, <2>3, CardRemove
  <2>5. d = q => c = b + 1  BY <1>2, <1>4, <2>3, CardAdd
  <2>6. d # x /\ d # q => c = b
    <3>1. d # x /\ d # q => Climbers(K2, d) = Climbers(K, d)  BY <1>3, <2>3
    <3> QED  BY <3>1
  <2>7. Holding(W, K, d) = e + b /\ Holding(W2, K2, d) = e + c  BY <2>2 DEF Holding
  <2> QED  BY <2>4, <2>5, <2>6, <2>7
<1>6. CASE W[t] # "gone"
  <2>1. x = t /\ K[t] = None  BY <1>6
  <2>2. t \notin Climbers(K, d)  BY <1>0, <2>1 DEF Climbers
  <2> PICK b \in Nat : b = Cardinality(Climbers(K, d))  BY HoldType
  <2> PICK c \in Nat : c = Cardinality(Climbers(K2, d))  BY HoldType
  <2>3. d = q => c = b + 1  BY <1>2, <1>4, <2>2, CardAdd
  <2>4. d # q => c = b
    <3>1. d # q => Climbers(K2, d) = Climbers(K, d)  BY <1>3, <2>2
    <3> QED  BY <3>1
  <2>5. d = x => OwnHold(W, d) = 1 /\ OwnHold(W2, d) = 0  BY <1>1, <1>6, <2>1 DEF OwnHold
  <2>6. d # x => OwnHold(W2, d) = OwnHold(W, d)  BY <1>1, <2>1 DEF OwnHold
  <2> PICK e \in {0, 1} : e = OwnHold(W, d)  BY HoldType
  <2> PICK e2 \in {0, 1} : e2 = OwnHold(W2, d)  BY HoldType
  <2>7. Holding(W, K, d) = e + b /\ Holding(W2, K2, d) = e2 + c  BY DEF Holding
  <2>8. d = x => e = 1 /\ e2 = 0  BY <2>5
  <2>9. d # x => e2 = e  BY <2>6
  <2> QED  BY <2>3, <2>4, <2>7, <2>8, <2>9
<1> QED  BY <1>5, <1>6

\* Free takes one from the descriptor it frees and keeps the counts.
LEMMA FreeKids ==
    ASSUME NEW W, NEW K, Shape(W, K), Kids(W, K), NEW f, f.task \in Tasks, f.x \in Tasks, FreedFacts(f.x), W[f.x] # "absent",
           IF W[f.task] = "gone" THEN K[f.task] = f.x ELSE W[f.task] = "free" /\ f.x = f.task,
           NEW W2, NEW K2, FreePlaces(W, K, f, W2, K2)
    PROVE  Kids(W2, K2)'
<1> PICK t \in Tasks : t = f.task  OBVIOUS
<1> PICK x \in Tasks : x = f.x  OBVIOUS
<1>0. /\ W \in [Tasks -> Places] /\ K \in [Tasks -> Tasks \union {None}]
      /\ \A s \in Tasks : s \in Descriptors /\ s \notin Threads
  BY TaskNames DEF Shape, Descriptors
<1>q. PICK q : q = IF td[x].kids = 1 /\ td[x].parent \in Tasks THEN td[x].parent ELSE None  OBVIOUS
<1>1. Moved(W, W2, t, "gone") /\ Moved(K, K2, t, q)  BY <1>q DEF FreePlaces, Moved
<1>2. q \in Tasks \union {None} /\ q # x /\ td[x].parent # x  BY <1>q, ParentFacts, TaskNames
<1>3. IF W[t] = "gone" THEN K[t] = x ELSE x = t /\ K[t] = None
  <2>1. W[t] # "gone" => K[t] = None  BY NoClimb
  <2> QED  BY <2>1
<1>4. ASSUME NEW d \in Tasks
      PROVE  /\ d = x => Holding(W, K, d) = Holding(W2, K2, d) + 1
             /\ d = q => Holding(W2, K2, d) = Holding(W, K, d) + 1
             /\ d # x /\ d # q => Holding(W2, K2, d) = Holding(W, K, d)
  <2>1. HasHold(W, K, t, x, q)  BY <1>0, <1>2, <1>3 DEF HasHold
  <2> QED  BY <1>1, <2>1, HoldMoves
<1>5. \A d \in Tasks : W2[d] # "absent" => W[d] # "absent"
  <2>1. W[t] # "absent"  OBVIOUS
  <2> QED  BY <1>0, <1>1, <2>1, MovedFacts
<1>6. ASSUME NEW d \in Tasks, W[d] # "absent"
      PROVE  /\ td[d].kids \in Nat /\ td[d].state = IF td[d].kids = 0 THEN "freed" ELSE "live"
             /\ Children(d) \in SUBSET Tasks /\ Cardinality(Children(d)) \in Nat
             /\ td[d].kids = Holding(W, K, d) + Cardinality(Children(d))
  <2>1. /\ td[d].kids = OwnHold(W, d) + Cardinality(Children(d)) + Cardinality(Climbers(K, d))
        /\ td[d].state = IF td[d].kids = 0 THEN "freed" ELSE "live"
        /\ td[d].kids \in Nat /\ Children(d) \in SUBSET Tasks
    BY <1>6, KidsFacts
  <2> PICK e \in {0, 1} : e = OwnHold(W, d)  BY HoldType
  <2> PICK b \in Nat : b = Cardinality(Climbers(K, d))  BY HoldType
  <2> PICK a \in Nat : a = Cardinality(Children(d))  BY <2>1, SubTasks
  <2>2. td[d].kids = e + a + b /\ Holding(W, K, d) = e + b  BY <2>1 DEF Holding
  <2>3. e + a + b = (e + b) + a  OBVIOUS
  <2> QED  BY <2>1, <2>2, <2>3
<1>7. ASSUME NEW d \in Tasks, W2[d] # "absent"
      PROVE  /\ td'[d].kids = Holding(W2, K2, d) + Cardinality(Children(d)')
             /\ td'[d].state = IF td'[d].kids = 0 THEN "freed" ELSE "live"
  <2>0. W[d] # "absent"  BY <1>5, <1>7
  <2> PICK a \in Nat : a = Cardinality(Children(d))  BY <1>6, <2>0
  <2> PICK h \in Nat : h = Holding(W, K, d)  BY HoldType
  <2> PICK h2 \in Nat : h2 = Holding(W2, K2, d)  BY HoldType
  <2> PICK n \in Nat : n = td[d].kids  BY <1>6, <2>0
  <2>1. n = h + a /\ td[d].state = IF n = 0 THEN "freed" ELSE "live"  BY <1>6, <2>0
  <2>2. d # q => Children(d)' = Children(d)
    <3>1. ASSUME d # q, NEW c \in Tasks
          PROVE  td'[c].state = "live" /\ td'[c].parent = d <=> td[c].state = "live" /\ td[c].parent = d
      BY <1>0, <1>q, <3>1 DEF FreedFacts
    <3> QED  BY <3>1 DEF Children
  <2>3. CASE d = x
    <3>1. d # q  BY <1>2, <2>3
    <3>2. h = h2 + 1  BY <1>4, <2>3
    <3>3. td'[d].kids = n - 1 /\ td'[d].state = IF n = 1 THEN "freed" ELSE td[d].state  BY <1>0, <2>3 DEF FreedFacts
    <3>4. n - 1 = h2 + a /\ n # 0 /\ (n = 1 <=> n - 1 = 0)  BY <2>1, <3>2
    <3>5. Cardinality(Children(d)') = a  BY <2>2, <3>1
    <3> QED  BY <2>1, <3>3, <3>4, <3>5
  <2>4. CASE d # x /\ d = q
    <3>1. h2 = h + 1  BY <1>4, <2>4
    <3>2. td'[d].kids = n /\ td'[d].state = td[d].state  BY <1>0, <2>4 DEF FreedFacts
    <3>3. td[x].kids = 1 /\ td[x].parent = d  BY <1>q, <2>4, TaskNames
    <3>4. td[x].state = "live"  BY <1>6, <3>3
    <3>5. Children(d)' = Children(d) \ {x} /\ x \in Children(d)
      <4>1. ASSUME NEW c \in Tasks
            PROVE  td'[c].state = "live" /\ td'[c].parent = d <=> td[c].state = "live" /\ td[c].parent = d /\ c # x
        BY <1>0, <3>3 DEF FreedFacts
      <4> QED  BY <3>3, <3>4, <4>1 DEF Children
    <3>6. a = Cardinality(Children(d)') + 1 /\ Cardinality(Children(d)') \in Nat  BY <1>6, <2>0, <3>5, CardRemove
    <3> PICK a2 \in Nat : a2 = Cardinality(Children(d)')  BY <3>6
    <3>7. n = h2 + a2  BY <2>1, <3>1, <3>6
    <3> QED  BY <2>1, <3>2, <3>7
  <2>5. CASE d # x /\ d # q
    <3>1. h2 = h  BY <1>4, <2>5
    <3>2. td'[d].kids = n /\ td'[d].state = td[d].state  BY <1>0, <2>5 DEF FreedFacts
    <3>3. Cardinality(Children(d)') = a  BY <2>2, <2>5
    <3> QED  BY <2>1, <3>1, <3>2, <3>3
  <2> QED  BY <2>3, <2>4, <2>5
<1>8. ASSUME NEW d \in Tasks, W2[d] # "absent"
      PROVE  td'[d].kids = OwnHold(W2, d) + Cardinality(Children(d)') + Cardinality(Climbers(K2, d))
  <2>1. Children(d)' \in SUBSET Tasks  BY DEF Children
  <2> PICK a \in Nat : a = Cardinality(Children(d)')  BY <2>1, SubTasks
  <2> PICK e \in {0, 1} : e = OwnHold(W2, d)  BY HoldType
  <2> PICK b \in Nat : b = Cardinality(Climbers(K2, d))  BY HoldType
  <2>2. td'[d].kids = (e + b) + a  BY <1>7, <1>8 DEF Holding
  <2>3. e + a + b = (e + b) + a  OBVIOUS
  <2> QED  BY <2>2, <2>3
<1>9. \A th \in Threads : td'[th].kids = 1 /\ td'[th].state = "live"
  <2>1. ASSUME NEW th \in Threads PROVE td'[th].kids = td[th].kids /\ td'[th].state = td[th].state
    <3>1. th # x /\ th \in Descriptors  BY <1>0 DEF Descriptors
    <3> QED  BY <3>1 DEF FreedFacts
  <2> QED  BY <2>1 DEF Kids
<1> QED  BY <1>7, <1>8, <1>9, KidsStep

----------------------------------------------------------------------------
(* The count of children that a taskwait waits for. *)

\* The children waited for are tasks.
LEMMA PendingType ==
    ASSUME NEW W, NEW d
    PROVE  Pending(W, d) \in SUBSET Tasks /\ Cardinality(Pending(W, d)) \in Nat /\ Image(d) \in {0, 1}
<1>1. Pending(W, d) \in SUBSET Tasks  BY DEF Pending
<1> QED  BY <1>1, SubTasks DEF Image

\* Nothing is pending under a task that is not there.
LEMMA NoChildren ==
    ASSUME NEW W, NEW K, Shape(W, K), NEW t \in Tasks, W[t] = "absent", NEW c \in Tasks, W[c] # "absent"
    PROVE  td[c].parent # t /\ c # t
<1>1. td[c].parent \in Tasks => W[td[c].parent] \notin Young  BY ParentFacts
<1> QED  BY <1>1 DEF Young

\* Create adds the new child to those a taskwait waits for.
LEMMA CreateIncs ==
    ASSUME NEW W, NEW K, Shape(W, K), Incs(W), NEW d \in Descriptors, NEW t \in Tasks, NEW nd, Begun(d, t, nd),
           W[t] = "absent", t # d, d \in Tasks => W[d] = "body", NEW w \in {"linking", "ready"}, NEW W2, Moved(W, W2, t, w),
           prog' = prog, proxy' = proxy
    PROVE  Incs(W2)'
<1>0. W \in [Tasks -> Places] /\ \A s \in Tasks : s \in Descriptors /\ s \notin Threads
  BY TaskNames DEF Shape, Descriptors
<1>1. W2[t] = w /\ \A s \in Tasks : s # t => W2[s] = W[s]  BY <1>0, MovedFacts
<1>2. proxy[t] = "idle"
  <2>1. ProxyOK(t, "absent")  BY DEF Shape
  <2> QED  BY <2>1 DEF ProxyOK, Young
<1>3. Waited(t, W2[t])' /\ ~Waited(t, W[t])  BY <1>1, <1>2 DEF Waited, Late
<1>4. \A c \in Tasks : c # t => (Waited(c, W2[c])' <=> Waited(c, W[c]))  BY <1>1 DEF Waited, Kind
<1>5. \A e : Image(e)' = Image(e)  BY DEF Image
<1>6. \A c \in Tasks : Waited(c, W[c]) => td[c].parent # t  BY NoChildren DEF Waited
<1>7. ASSUME NEW e \in Descriptors, e \in Threads \/ W2[e] # "absent"
      PROVE  td'[e].inc = Cardinality(Pending(W2, e)') + Image(e)'
  <2>1. CASE e = t
    <3>1. Pending(W2, e)' = {}
      <4>1. ASSUME NEW c \in Tasks, Waited(c, W2[c])', td'[c].parent = t PROVE FALSE
        <5>1. CASE c = t  BY <1>0, <4>1, <5>1 DEF Begun
        <5>2. CASE c # t  BY <1>0, <1>4, <1>6, <4>1, <5>2, Zenon DEF Begun
        <5> QED  BY <5>1, <5>2
      <4> QED  BY <2>1, <4>1 DEF Pending
    <3>2. td'[e].inc = 0  BY <1>0, <2>1, Zenon DEF Begun
    <3>3. Image(e)' = 0  BY <1>2, <2>1 DEF Image
    <3>4. Cardinality(Pending(W2, e)') = 0  BY <3>1, FS_EmptySet
    <3> QED  BY <3>2, <3>3, <3>4
  <2>2. CASE e # t
    <3>0. e \in Threads \/ W[e] # "absent"  BY <1>1, <1>7, <2>2 DEF Descriptors
    <3>1. td[e].inc = Cardinality(Pending(W, e)) + Image(e)  BY <3>0 DEF Incs
    <3> PICK a \in Nat : a = Cardinality(Pending(W, e))  BY PendingType
    <3> PICK m \in {0, 1} : m = Image(e)  BY PendingType
    <3>2. CASE e = d
      <4>1. Pending(W2, e)' = Pending(W, e) \union {t} /\ t \notin Pending(W, e)
        <5>1. t \notin Pending(W, e)  BY <1>3 DEF Pending
        <5>2. ASSUME NEW c \in Tasks PROVE Waited(c, W2[c])' /\ td'[c].parent = e <=> (Waited(c, W[c]) /\ td[c].parent = e) \/ c = t
          BY <1>0, <1>3, <1>4, <3>2 DEF Begun
        <5> QED  BY <5>1, <5>2 DEF Pending
      <4>2. Cardinality(Pending(W2, e)') = a + 1  BY <4>1, PendingType, CardAdd
      <4>3. td'[e].inc = td[e].inc + 1  BY <2>2, <3>2 DEF Begun
      <4>4. (a + m) + 1 = (a + 1) + m  OBVIOUS
      <4> QED  BY <1>5, <3>1, <4>2, <4>3, <4>4
    <3>3. CASE e # d
      <4>1. Pending(W2, e)' = Pending(W, e)
        <5>1. ASSUME NEW c \in Tasks PROVE Waited(c, W2[c])' /\ td'[c].parent = e <=> Waited(c, W[c]) /\ td[c].parent = e
          BY <1>0, <1>3, <1>4, <3>3 DEF Begun
        <5> QED  BY <5>1 DEF Pending
      <4>2. td'[e].inc = td[e].inc  BY <2>2, <3>3 DEF Begun
      <4> QED  BY <1>5, <3>1, <4>1, <4>2
    <3> QED  BY <3>2, <3>3
  <2> QED  BY <2>1, <2>2
<1> QED  BY <1>7 DEF Incs

IncIs(x, v) == \A d \in Descriptors : td'[d].inc = IF d = x THEN v ELSE td[d].inc

\* The parent has one child less to wait for.
LEMMA LeaveIncs ==
    ASSUME NEW W, Incs(W), NEW W2, KeepsAbsent(W, W2), NEW t \in Tasks, Waited(t, W[t]), ~Waited(t, W2[t])',
           \A c \in Tasks : c # t => (Waited(c, W2[c])' <=> Waited(c, W[c])),
           ParentTd, \A d \in Descriptors : Image(d)' = Image(d),
           NEW p, p = td[t].parent, IncIs(p, td[p].inc - 1)
    PROVE  Incs(W2)'
<1>0. \A s \in Tasks : s \in Descriptors  BY DEF Descriptors
<1>1. ASSUME NEW e \in Descriptors, e \in Threads \/ W2[e] # "absent"
      PROVE  td'[e].inc = Cardinality(Pending(W2, e)') + Image(e)'
  <2>0. e \in Threads \/ W[e] # "absent"  BY <1>1 DEF KeepsAbsent, Descriptors
  <2>1. td[e].inc = Cardinality(Pending(W, e)) + Image(e)  BY <2>0 DEF Incs
  <2> PICK a \in Nat : a = Cardinality(Pending(W, e))  BY PendingType
  <2> PICK m \in {0, 1} : m = Image(e)  BY PendingType
  <2>2. CASE e = p
    <3>1. Pending(W2, e)' = Pending(W, e) \ {t} /\ t \in Pending(W, e)
      <4>1. ASSUME NEW c \in Tasks PROVE Waited(c, W2[c])' /\ td'[c].parent = e <=> Waited(c, W[c]) /\ td[c].parent = e /\ c # t
        BY <1>0 DEF ParentTd
      <4> QED  BY <2>2, <4>1 DEF Pending
    <3>2. a = Cardinality(Pending(W2, e)') + 1 /\ Cardinality(Pending(W2, e)') \in Nat  BY <3>1, PendingType, CardRemove
    <3> PICK b \in Nat : b = Cardinality(Pending(W2, e)')  BY <3>2
    <3>3. td'[e].inc = td[e].inc - 1  BY <2>2 DEF IncIs
    <3>4. (a + m) - 1 = b + m  BY <3>2
    <3> QED  BY <2>1, <3>3, <3>4
  <2>3. CASE e # p
    <3>1. Pending(W2, e)' = Pending(W, e)
      <4>1. ASSUME NEW c \in Tasks PROVE Waited(c, W2[c])' /\ td'[c].parent = e <=> Waited(c, W[c]) /\ td[c].parent = e
        BY <1>0, <2>3 DEF ParentTd
      <4> QED  BY <4>1 DEF Pending
    <3>2. td'[e].inc = td[e].inc  BY <2>3 DEF IncIs
    <3> QED  BY <2>1, <3>1, <3>2
  <2> QED  BY <2>2, <2>3
<1> QED  BY <1>1 DEF Incs

\* The imaginary child comes or goes.
LEMMA ImageIncs ==
    ASSUME NEW W, Incs(W), NEW t \in Tasks,
           \A c \in Tasks : Waited(c, W[c])' <=> Waited(c, W[c]),
           ParentTd, \A d \in Descriptors : d # t => Image(d)' = Image(d),
           \/ Image(t) = 0 /\ Image(t)' = 1 /\ IncIs(t, td[t].inc + 1)
           \/ Image(t) = 1 /\ Image(t)' = 0 /\ IncIs(t, td[t].inc - 1)
    PROVE  Incs(W)'
<1>1. ASSUME NEW e \in Descriptors, e \in Threads \/ W[e] # "absent"
      PROVE  td'[e].inc = Cardinality(Pending(W, e)') + Image(e)'
  <2>1. td[e].inc = Cardinality(Pending(W, e)) + Image(e)  BY <1>1 DEF Incs
  <2>2. Pending(W, e)' = Pending(W, e)  BY PendingSame
  <2> PICK a \in Nat : a = Cardinality(Pending(W, e))  BY PendingType
  <2>3. CASE e # t
    <3>1. td'[e].inc = td[e].inc /\ Image(e)' = Image(e)  BY <2>3 DEF IncIs
    <3> QED  BY <2>1, <2>2, <3>1
  <2>4. CASE e = t /\ Image(t) = 0 /\ Image(t)' = 1 /\ IncIs(t, td[t].inc + 1)
    <3>1. td'[e].inc = td[e].inc + 1  BY <2>4 DEF IncIs
    <3>2. (a + 0) + 1 = a + 1  OBVIOUS
    <3> QED  BY <2>1, <2>2, <2>4, <3>1, <3>2
  <2>5. CASE e = t /\ Image(t) = 1 /\ Image(t)' = 0 /\ IncIs(t, td[t].inc - 1)
    <3>1. td'[e].inc = td[e].inc - 1  BY <2>5 DEF IncIs
    <3>2. (a + 1) - 1 = a + 0  OBVIOUS
    <3> QED  BY <2>1, <2>2, <2>5, <3>1, <3>2
  <2> QED  BY <2>3, <2>4, <2>5
<1> QED  BY <1>1 DEF Incs

----------------------------------------------------------------------------
(* The count of members of a group. *)

Uncounted(g) ==
    /\ DOMAIN groups' = DOMAIN groups /\ groups' \in [DOMAIN groups -> GroupRecords]
    /\ \A h \in DOMAIN groups : /\ groups'[h].outer = groups[h].outer
                                /\ groups'[h].count = IF h = g THEN groups[h].count - 1 ELSE groups[h].count
CountSet(r, v) == [r EXCEPT !.count = v]

\* Writing the count of a group.
LEMMA CountSets ==
    ASSUME NEW r \in GroupRecords, NEW v \in Int
    PROVE  CountSet(r, v) \in GroupRecords /\ CountSet(r, v).count = v /\ CountSet(r, v).outer = r.outer
BY DEF GroupRecords, CountSet

\* A group that one task leaves.
LEMMA GroupLeft ==
    ASSUME groups \in [DOMAIN groups -> GroupRecords], NEW g, groups' = [groups EXCEPT ![g].count = @ - 1]
    PROVE  Uncounted(g)
<1>1. \A h \in DOMAIN groups : groups[h] \in GroupRecords /\ groups[h].count - 1 \in Int
  BY DEF GroupRecords
<1>2. groups' = [groups EXCEPT ![g] = CountSet(groups[g], groups[g].count - 1)]  BY DEF CountSet
<1>3. \A h \in DOMAIN groups : groups'[h] = IF h = g THEN CountSet(groups[h], groups[h].count - 1) ELSE groups[h]  BY <1>2
<1>4. DOMAIN groups' = DOMAIN groups  BY <1>2
<1>5. \A h \in DOMAIN groups : groups'[h] \in GroupRecords  BY <1>1, <1>3, CountSets
<1>6. groups' = [h \in DOMAIN groups |-> groups'[h]]  BY <1>2, <1>4
<1>7. groups' \in [DOMAIN groups -> GroupRecords]  BY <1>5, <1>6
<1>8. \A h \in DOMAIN groups : /\ groups'[h].outer = groups[h].outer
                                /\ groups'[h].count = IF h = g THEN groups[h].count - 1 ELSE groups[h].count
  BY <1>1, <1>3, CountSets
<1> QED  BY <1>4, <1>7, <1>8 DEF Uncounted

\* Which group a task or a thread is in.
LEMMA GroupOf ==
    ASSUME NEW W, NEW H, NEW O, Groups(W, H, O), NEW d \in Descriptors, d \in Threads \/ W[d] # "absent"
    PROVE  /\ O[d] \in Seq(Nat) /\ Len(O[d]) \in Nat
           /\ O[d] = <<>> => td[d].group = Home(H, d)
           /\ O[d] # <<>> => td[d].group = <<d, O[d][Len(O[d])]>> /\ td[d].group \in DOMAIN groups /\ Len(O[d]) >= 1
<1> PICK s \in Seq(Nat) : s = O[d]  BY DEF Groups
<1> PICK n \in Nat : n = Len(s)  OBVIOUS
<1>1. GroupsD(d, W, H, O)  BY DEF Groups
<1>2. s # <<>> => n >= 1  BY EmptySeq
<1>3. s # <<>> => <<d, s[n]>> \in DOMAIN groups
  <2> SUFFICES ASSUME s # <<>> PROVE <<d, s[n]>> \in DOMAIN groups  OBVIOUS
  <2>1. n \in 1..Len(O[d]) /\ O[d][n] = s[n]  BY <1>2
  <2>2. <<d, O[d][n]>> \in DOMAIN groups  BY <1>1, <2>1 DEF GroupsD
  <2> QED  BY <2>1, <2>2
<1> QED  BY <1>1, <1>2, <1>3 DEF GroupsD

\* Outside its body a task is in the group it was created in.
LEMMA GroupOfHome ==
    ASSUME NEW W, NEW H, NEW O, Groups(W, H, O), NEW t \in Tasks, W[t] \notin {"absent", "body"}
    PROVE  td[t].group = H[t]
<1>1. t \in Descriptors /\ O[t] = <<>>  BY DEF Groups, Descriptors
<1>2. td[t].group = Home(H, t)  BY <1>1, GroupOf
<1> QED  BY <1>2 DEF Home

\* At the end of a body every group has been ended.
LEMMA OpenEnd ==
    ASSUME NEW W, NEW K, Shape(W, K), NEW H, NEW O, Groups(W, H, O), NEW f \in Frames, f.ip = Len(prog.body[f.task]) + 1
    PROVE  O[f.task] = <<>>
<1>1. f \in FrameRecords /\ f.task \in Descriptors /\ Types  BY FrameFacts DEF Shape
<1> PICK d \in Descriptors : d = f.task  BY <1>1
<1> PICK n \in Nat : n = Len(prog.body[d])  BY <1>1, ProgramFacts
<1>2. Depth(d, n) = 0  BY <1>1, DepthEnd
<1>3. f.ip - 1 = n  OBVIOUS
<1>4. Len(O[d]) = Depth(d, n)  BY <1>3 DEF Groups, GroupsF
<1>5. O[d] \in Seq(Nat)  BY DEF Groups
<1> QED  BY <1>2, <1>4, <1>5, EmptySeq

\* The members are tasks.
LEMMA MembersType ==
    ASSUME NEW W, NEW H, NEW g
    PROVE  Members(W, H, g) \in SUBSET Tasks /\ Cardinality(Members(W, H, g)) \in Nat
<1>1. Members(W, H, g) \in SUBSET Tasks  BY DEF Members
<1> QED  BY <1>1, SubTasks

\* Null names no group.
LEMMA NullName == Null \notin GroupNames
BY DEF Null, GroupNames

\* A task leaves its group.
LEMMA LeaveGroups ==
    ASSUME NEW W, NEW H, NEW O, Groups(W, H, O), DOMAIN groups \subseteq GroupNames,
           NEW W2, KeepsAbsent(W, W2), NEW t \in Tasks, W[t] \notin {"absent", "body"},
           Belongs(t, W[t]), ~Belongs(t, W2[t])', \A c \in Tasks : c # t => (Belongs(c, W2[c])' <=> Belongs(c, W[c])),
           IF td[t].group = Null THEN groups' = groups ELSE Uncounted(td[t].group),
           GroupTd, prog' = prog, \A c \in Tasks : W[c] = "body" => W2[c] = "body",
           \A h \in Frames' : h \in Frames \/ GroupsF(h, O)'
    PROVE  Groups(W2, H, O)'
<1>1. td[t].group = H[t]  BY GroupOfHome
<1>2. H \in [Tasks -> GroupNames \union {Null}] /\ O \in [Descriptors -> Seq(Nat)]  BY DEF Groups
<1>3. DOMAIN groups' = DOMAIN groups /\ \A h \in DOMAIN groups : groups'[h].outer = groups[h].outer
  BY DEF Uncounted
<1>4. ASSUME NEW g \in DOMAIN groups' PROVE GroupsG(g, W2, H, O)'
  <2>1. GroupsG(g, W, H, O)  BY <1>3 DEF Groups
  <2> PICK a \in Nat : a = Cardinality(Members(W, H, g))  BY MembersType
  <2>2. groups[g].count = a  BY <2>1 DEF GroupsG
  <2>3. CASE g = H[t]
    <3>1. groups'[g].count = groups[g].count - 1
      <4>1. CASE td[t].group = Null
        <5>1. g = Null /\ g \in GroupNames  BY <1>1, <1>3, <2>3, <4>1
        <5> QED  BY <5>1, NullName
      <4>2. CASE td[t].group # Null  BY <1>1, <1>3, <2>3, <4>2 DEF Uncounted
      <4> QED  BY <4>1, <4>2
    <3>2. Members(W2, H, g)' = Members(W, H, g) \ {t} /\ t \in Members(W, H, g)  BY <2>3 DEF Members
    <3>3. a = Cardinality(Members(W2, H, g)') + 1 /\ Cardinality(Members(W2, H, g)') \in Nat
      BY <3>2, MembersType, CardRemove
    <3> QED  BY <2>1, <2>2, <3>1, <3>3 DEF GroupsG
  <2>4. CASE g # H[t]
    <3>1. groups'[g].count = groups[g].count  BY <1>1, <1>3, <2>4 DEF Uncounted
    <3>2. Members(W2, H, g)' = Members(W, H, g)  BY <2>4 DEF Members
    <3> QED  BY <2>1, <3>1, <3>2 DEF GroupsG
  <2> QED  BY <2>3, <2>4
<1>5. \A c \in Tasks : Belongs(c, W2[c])' => H[c] \in DOMAIN groups' \union {Null}
  BY <1>3 DEF Groups
<1>6. \A c \in Tasks : W2[c] # "body" => O[c] = <<>>  BY DEF Groups
<1>7. ASSUME NEW d \in Descriptors PROVE GroupsD(d, W2, H, O)'
  <2>1. GroupsD(d, W, H, O)  BY DEF Groups
  <2>2. d \in Threads \/ W2[d] # "absent" => d \in Threads \/ W[d] # "absent"  BY DEF KeepsAbsent, Descriptors
  <2> QED  BY <1>3, <2>1, <2>2 DEF GroupsD, GroupTd
<1>8. ASSUME NEW h \in Frames' PROVE GroupsF(h, O)'
  <2>1. CASE h \in Frames
    <3>1. GroupsF(h, O)  BY <2>1 DEF Groups
    <3> QED  BY <3>1, GroupsFSame
  <2> QED  BY <2>1
<1> QED  BY <1>2, <1>4, <1>5, <1>6, <1>7, <1>8 DEF Groups

----------------------------------------------------------------------------
(* The group of a new task. *)

\* The group a new task joins.
LEMMA GroupHere ==
    ASSUME NEW W, NEW K, Shape(W, K), NEW H, NEW O, Groups(W, H, O), NEW d \in Descriptors, d \in Tasks => W[d] = "body"
    PROVE  td[d].group \in DOMAIN groups \union {Null}
<1>1. d \in Threads \/ W[d] # "absent"  BY DEF Descriptors
<1>2. CASE O[d] # <<>>  BY <1>1, <1>2, GroupOf
<1>3. CASE O[d] = <<>>
  <2>1. td[d].group = Home(H, d)  BY <1>1, <1>3, GroupOf
  <2>2. CASE d \notin Tasks  BY <2>1, <2>2 DEF Home
  <2>3. CASE d \in Tasks
    <3>1. Kind(d) # "proxy"
      <4>1. ProxyOK(d, "body")  BY <2>3 DEF Shape
      <4> QED  BY <4>1 DEF ProxyOK
    <3>2. Belongs(d, W[d])  BY <2>3, <3>1 DEF Belongs, Late
    <3>3. H[d] \in DOMAIN groups \union {Null}  BY <2>3, <3>2 DEF Groups
    <3> QED  BY <2>1, <2>3, <3>3 DEF Home
  <2> QED  BY <2>2, <2>3
<1> QED  BY <1>2, <1>3

\* Create adds the new task to its creator's group.
LEMMA CreateGroups ==
    ASSUME NEW W, NEW K, Shape(W, K), NEW H, NEW O, Groups(W, H, O), NEW d \in Descriptors, NEW t \in Tasks, NEW nd, Begun(d, t, nd),
           W[t] = "absent", t # d, d \in Tasks => W[d] = "body", NEW w \in {"linking", "ready"}, NEW W2, Moved(W, W2, t, w),
           prog' = prog, proxy' = proxy,
           IF td[d].group = Null THEN groups' = groups ELSE Counted(td[d].group),
           NEW H2, Moved(H, H2, t, td[d].group),
           \A h \in Frames' : h \in Frames \/ GroupsF(h, O)
    PROVE  Groups(W2, H2, O)'
<1> PICK g : g = td[d].group  OBVIOUS
<1>0. W \in [Tasks -> Places] /\ DOMAIN groups \subseteq GroupNames /\ \A s \in Tasks : s \in Descriptors /\ s \notin Threads
  BY TaskNames DEF Shape, Types, DataTypes, Descriptors
<1>1. W2[t] = w /\ \A s \in Tasks : s # t => W2[s] = W[s]  BY <1>0, MovedFacts
<1>2. H \in [Tasks -> GroupNames \union {Null}] /\ O \in [Descriptors -> Seq(Nat)]  BY DEF Groups
<1>3. H2[t] = g /\ \A s \in Tasks : s # t => H2[s] = H[s]  BY <1>2 DEF Moved
<1>4. g \in DOMAIN groups \union {Null}  BY GroupHere
<1>5. H2 \in [Tasks -> GroupNames \union {Null}]  BY <1>0, <1>2, <1>4 DEF Moved
<1>6. proxy[t] = "idle"
  <2>1. ProxyOK(t, "absent")  BY DEF Shape
  <2> QED  BY <2>1 DEF ProxyOK, Young
<1>7. Belongs(t, W2[t])' /\ ~Belongs(t, W[t])  BY <1>1, <1>6 DEF Belongs, Late
<1>8. \A c \in Tasks : c # t => (Belongs(c, W2[c])' <=> Belongs(c, W[c]))  BY <1>1 DEF Belongs, Kind
<1>9. DOMAIN groups' = DOMAIN groups /\ \A h \in DOMAIN groups : groups'[h].outer = groups[h].outer
  BY DEF Counted
<1>10. ASSUME NEW h \in DOMAIN groups' PROVE GroupsG(h, W2, H2, O)'
  <2>1. GroupsG(h, W, H, O) /\ h \in GroupNames  BY <1>0, <1>9 DEF Groups
  <2> PICK a \in Nat : a = Cardinality(Members(W, H, h))  BY MembersType
  <2>2. groups[h].count = a  BY <2>1 DEF GroupsG
  <2>3. CASE h = g
    <3>1. g # Null  BY <2>1, <2>3, NullName
    <3>2. groups'[h].count = groups[h].count + 1  BY <1>9, <2>3, <3>1 DEF Counted
    <3>3. Members(W2, H2, h)' = Members(W, H, h) \union {t} /\ t \notin Members(W, H, h)
      BY <1>3, <1>7, <1>8, <2>3 DEF Members
    <3>4. Cardinality(Members(W2, H2, h)') = a + 1  BY <3>3, MembersType, CardAdd
    <3> QED  BY <2>1, <2>2, <3>2, <3>4 DEF GroupsG
  <2>4. CASE h # g
    <3>1. groups'[h].count = groups[h].count  BY <1>9, <2>4 DEF Counted
    <3>2. Members(W2, H2, h)' = Members(W, H, h)  BY <1>3, <1>7, <1>8, <2>4 DEF Members
    <3> QED  BY <2>1, <3>1, <3>2 DEF GroupsG
  <2> QED  BY <2>3, <2>4
<1>11. \A c \in Tasks : Belongs(c, W2[c])' => H2[c] \in DOMAIN groups' \union {Null}
  BY <1>3, <1>4, <1>8, <1>9 DEF Groups
<1>12. O[t] = <<>>  BY DEF Groups
<1>13. \A c \in Tasks : W2[c] # "body" => O[c] = <<>>  BY <1>1, <1>12 DEF Groups
<1>14. ASSUME NEW e \in Descriptors PROVE GroupsD(e, W2, H2, O)'
  <2>1. GroupsD(e, W, H, O)  BY DEF Groups
  <2>2. CASE e = t
    <3>1. td'[t].group = g  BY <1>0, Zenon DEF Begun
    <3>2. Len(O[t]) = 0  BY <1>12, EmptySeq
    <3> QED  BY <1>3, <1>12, <2>2, <3>1, <3>2 DEF GroupsD, Home
  <2>3. CASE e # t
    <3>1. td'[e].group = td[e].group /\ Home(H2, e) = Home(H, e)  BY <1>3, <2>3 DEF Begun, Home
    <3>2. e \in Threads \/ W2[e] # "absent" => e \in Threads \/ W[e] # "absent"  BY <1>1, <2>3 DEF Descriptors
    <3> QED  BY <1>9, <2>1, <3>1, <3>2 DEF GroupsD
  <2> QED  BY <2>2, <2>3
<1>15. ASSUME NEW h \in Frames' PROVE GroupsF(h, O)'
  <2>1. GroupsF(h, O)  BY DEF Groups
  <2> QED  BY <2>1, GroupsFSame
<1> QED  BY <1>2, <1>5, <1>10, <1>11, <1>13, <1>14, <1>15 DEF Groups

----------------------------------------------------------------------------
(* A group that begins is the innermost of its task. *)

Extends(s, s2, i) ==
    /\ s2 \in Seq(Nat) /\ Len(s) \in Nat /\ Len(s2) = Len(s) + 1 /\ s2[Len(s) + 1] = i
    /\ \A k \in 1..Len(s) : s2[k] = s[k] /\ s[k] \in Nat /\ s2[k] \in Nat

\* A list of positions with one more.
LEMMA Appended ==
    ASSUME NEW s \in Seq(Nat), NEW i \in Nat
    PROVE  Extends(s, Append(s, i), i)
<1>1. \A k \in 1..Len(s) : s[k] \in Nat  BY ElementOf
<1> QED  BY <1>1, AppendProperties DEF Extends
Below(s, i) == \A k \in 1..Len(s) : s[k] < i
Rising(s) == \A j, k \in 1..Len(s) : j < k => s[j] < s[k]

\* A later position keeps a list rising.
LEMMA RisingExtends ==
    ASSUME NEW s \in Seq(Nat), NEW i \in Nat, Rising(s), Below(s, i), NEW s2, Extends(s, s2, i)
    PROVE  Rising(s2) /\ Below(s2, i + 1)
<1>n. PICK n \in Nat : n = Len(s)  OBVIOUS
<1>1. Len(s2) = n + 1 /\ s2[n + 1] = i /\ (\A k \in 1..n : s2[k] = s[k] /\ s[k] \in Nat)  BY <1>n DEF Extends
<1>2. \A k \in 1..n : s[k] < i /\ s2[k] < i /\ s2[k] \in Nat  BY <1>1, <1>n DEF Below
<1>3. ASSUME NEW j \in 1..n + 1, NEW k \in 1..n + 1, j < k PROVE s2[j] < s2[k]
  <2>1. j \in 1..n  BY <1>3
  <2>2. CASE k = n + 1  BY <1>1, <1>2, <2>1, <2>2
  <2>3. CASE k \in 1..n
    <3>1. s[j] < s[k]  BY <1>3, <1>n, <2>1, <2>3 DEF Rising
    <3> QED  BY <1>1, <2>1, <2>3, <3>1
  <2> QED  BY <2>2, <2>3
<1>4. ASSUME NEW k \in 1..n + 1 PROVE s2[k] < i + 1
  <2>1. CASE k = n + 1  BY <1>1, <2>1
  <2>2. CASE k \in 1..n
    <3>1. s2[k] < i /\ s2[k] \in Nat  BY <1>2, <2>2
    <3> QED  BY <3>1
  <2> QED  BY <2>1, <2>2
<1> QED  BY <1>1, <1>3, <1>4 DEF Rising, Below

\* One taskgroup more in d, the innermost.
OuterOf(H, d, s, k) == IF k = 1 THEN Home(H, d) ELSE <<d, s[k-1]>>
InnerOf(H, d, s) == IF s = <<>> THEN Home(H, d) ELSE <<d, s[Len(s)]>>

\* The groups of a descriptor, its list named.
LEMMA GroupsDWith ==
    ASSUME NEW d, NEW W, NEW H, NEW O, NEW s, s = O[d]
    PROVE  GroupsD(d, W, H, O) <=>
             /\ Rising(s)
             /\ \A k \in 1..Len(s) : <<d, s[k]>> \in DOMAIN groups /\ groups[<<d, s[k]>>].outer = OuterOf(H, d, s, k)
             /\ d \in Threads \/ W[d] # "absent" => td[d].group = InnerOf(H, d, s)
BY DEF GroupsD, Rising, OuterOf, InnerOf

Nests(H, d, s) ==
    \A k \in 1..Len(s) : <<d, s[k]>> \in DOMAIN groups /\ groups[<<d, s[k]>>].outer = OuterOf(H, d, s, k)
\* The group v begins in d.
OpensAt(d, v) ==
    /\ v \notin DOMAIN groups /\ DOMAIN groups' = DOMAIN groups \union {v}
    /\ \A h \in DOMAIN groups' : groups'[h] = IF h = v THEN [count |-> 0, outer |-> td[d].group] ELSE groups[h]
    /\ td'[d].group = v

\* The descriptor that begins a group.
LEMMA OpenGroupsD ==
    ASSUME NEW W, NEW H, NEW d \in Descriptors, NEW s \in Seq(Nat), NEW i \in Nat, NEW s2, Extends(s, s2, i),
           Rising(s), Below(s, i), NEW v, v = <<d, i>>, Nests(H, d, s), td[d].group = InnerOf(H, d, s), OpensAt(d, v),
           NEW O2, O2[d] = s2
    PROVE  GroupsD(d, W, H, O2)'
<1>n. PICK n \in Nat : n = Len(s)  OBVIOUS
<1>1. Len(s2) = n + 1 /\ s2[n + 1] = i /\ (\A k \in 1..n : s2[k] = s[k] /\ s[k] \in Nat)  BY <1>n DEF Extends
<1>2. Rising(s2)  BY RisingExtends
<1>3. ASSUME NEW k \in 1..n + 1
      PROVE  /\ <<d, s2[k]>> \in DOMAIN groups' /\ groups'[<<d, s2[k]>>].outer = OuterOf(H, d, s2, k)
  <2>1. CASE k = n + 1
    <3>1. <<d, s2[k]>> = v  BY <1>1, <2>1
    <3>2. groups'[v].outer = td[d].group /\ v \in DOMAIN groups'  BY DEF OpensAt
    <3>3. CASE n = 0
      <4>1. s = <<>>  BY <1>n, <3>3, EmptySeq
      <4> QED  BY <2>1, <3>1, <3>2, <3>3, <4>1 DEF OuterOf, InnerOf
    <3>4. CASE n # 0
      <4>1. s # <<>> /\ n \in 1..n /\ k # 1 /\ k - 1 = n  BY <1>n, <2>1, <3>4, EmptySeq
      <4>2. s2[k - 1] = s[n]  BY <1>1, <4>1
      <4>3. td[d].group = <<d, s[n]>>  BY <1>n, <4>1 DEF InnerOf
      <4> QED  BY <3>1, <3>2, <4>1, <4>2, <4>3 DEF OuterOf
    <3> QED  BY <3>3, <3>4
  <2>2. CASE k \in 1..n
    <3>1. <<d, s[k]>> \in DOMAIN groups /\ groups[<<d, s[k]>>].outer = OuterOf(H, d, s, k)  BY <1>n, <2>2 DEF Nests
    <3>2. s2[k] = s[k]  BY <1>1, <2>2
    <3>3. k # 1 => s2[k - 1] = s[k - 1]
      <4>1. k # 1 => k - 1 \in 1..n  BY <2>2
      <4> QED  BY <1>1, <4>1
    <3>4. <<d, s[k]>> # v  BY <3>1 DEF OpensAt
    <3>5. <<d, s[k]>> \in DOMAIN groups' /\ groups'[<<d, s[k]>>] = groups[<<d, s[k]>>]  BY <3>1, <3>4 DEF OpensAt
    <3> QED  BY <3>1, <3>2, <3>3, <3>5 DEF OuterOf
  <2> QED  BY <2>1, <2>2
<1>4. s2 # <<>>
  <2>1. Len(s2) # 0  BY <1>1
  <2> QED  BY <2>1, EmptySeq
<1>5. td'[d].group = InnerOf(H, d, s2)  BY <1>1, <1>4 DEF InnerOf, OpensAt
<1> QED  BY <1>1, <1>2, <1>3, <1>5 DEF GroupsD, Rising, OuterOf, InnerOf

\* Beginning a group keeps the groups.
LEMMA OpenGroups ==
    ASSUME NEW W, NEW K, Shape(W, K), NEW H, NEW O, Groups(W, H, O), NEW th \in Threads, NEW f, f = Top(th),
           NEW v \in GroupNames, NEW d \in Descriptors, NEW i \in Nat, d = f.task, i = f.ip, v = <<d, i>>,
           Opened(W, th, f, v), prog' = prog, proxy' = proxy,
           NEW s \in Seq(Nat), s = O[d], NEW s2, Extends(s, s2, i), NEW O2, Moved(O, O2, d, s2)
    PROVE  Groups(W, H, O2)'
<1>0. W \in [Tasks -> Places] /\ DOMAIN groups \subseteq GroupNames /\ \A c \in Tasks : c \in Descriptors
  BY DEF Shape, Types, DataTypes, Descriptors
<1>1. f \in FrameRecords /\ f \in Frames  BY TopIn, FrameFacts
<1>n. PICK n \in Nat : n = Len(s)  OBVIOUS
<1>2. Len(s2) = n + 1 /\ s2[n + 1] = i /\ s2 \in Seq(Nat) /\ \A k \in 1..n : s2[k] = s[k]  BY <1>n DEF Extends
<1>3. H \in [Tasks -> GroupNames \union {Null}] /\ O \in [Descriptors -> Seq(Nat)]  BY DEF Groups
<1>4. O2[d] = s2 /\ (\A e \in Descriptors : e # d => O2[e] = O[e]) /\ O2 \in [Descriptors -> Seq(Nat)]
  BY <1>2, <1>3 DEF Moved
<1>5. i >= 1 /\ prog.body[d][i][1] = "taskgroup" /\ (d \in Tasks => W[d] = "body")  BY DEF Opened
<1>6. n = Depth(d, i - 1) /\ Below(s, i)
  <2>1. GroupsF(f, O)  BY <1>1 DEF Groups
  <2> QED  BY <1>n, <2>1 DEF GroupsF, Below
<1>7. v[1] = d /\ v[2] = i  OBVIOUS
<1>8. v \notin DOMAIN groups
  <2> SUFFICES ASSUME v \in DOMAIN groups PROVE FALSE  OBVIOUS
  <2>1. \E k \in 1..Len(s) : s[k] = i  BY <1>7 DEF Groups, GroupsG
  <2>2. \A k \in 1..Len(s) : s[k] < i /\ s[k] \in Nat  BY <1>6, ElementOf DEF Below
  <2> QED  BY <2>1, <2>2
<1>9. v # Null  BY NullName
<1>10. Members(W, H, v) = {}
  <2>1. \A c \in Tasks : Belongs(c, W[c]) => H[c] # v  BY <1>8, <1>9 DEF Groups
  <2> QED  BY <2>1 DEF Members
<1>11. \A h : Members(W, H, h)' = Members(W, H, h)  BY DEF Members, Belongs, Kind
<1>12. DOMAIN groups' = DOMAIN groups \union {v}  BY DEF Opened
<1>13. \A h \in DOMAIN groups' : groups'[h] = IF h = v THEN [count |-> 0, outer |-> td[d].group] ELSE groups[h]  BY DEF Opened
<1>14. ASSUME NEW h \in DOMAIN groups' PROVE GroupsG(h, W, H, O2)'
  <2>1. CASE h = v
    <3>1. n + 1 \in 1..Len(O2[d]) /\ O2[d][n + 1] = i  BY <1>2, <1>4
    <3>2. \E k \in 1..Len(O2[h[1]]) : O2[h[1]][k] = h[2]  BY <1>7, <2>1, <3>1
    <3>3. Cardinality(Members(W, H, h)') = 0  BY <1>10, <1>11, <2>1, FS_EmptySet
    <3>4. groups'[h].count = 0  BY <1>13, <2>1
    <3> QED  BY <3>2, <3>3, <3>4 DEF GroupsG
  <2>2. CASE h # v
    <3>1. h \in DOMAIN groups /\ groups'[h] = groups[h]  BY <1>12, <1>13, <2>2
    <3>2. GroupsG(h, W, H, O)  BY <3>1 DEF Groups
    <3>3. h[1] \in Descriptors  BY <1>0, <3>1 DEF GroupNames
    <3>4. PICK k \in 1..Len(O[h[1]]) : O[h[1]][k] = h[2]  BY <3>2 DEF GroupsG
    <3>5. k \in 1..Len(O2[h[1]]) /\ O2[h[1]][k] = h[2]
      <4>1. CASE h[1] = d
        <5>1. k \in 1..n /\ s[k] = h[2]  BY <1>n, <3>4, <4>1
        <5>2. k \in 1..n + 1 /\ s2[k] = h[2]  BY <1>2, <5>1
        <5> QED  BY <1>2, <1>4, <4>1, <5>2
      <4>2. CASE h[1] # d  BY <1>4, <3>3, <3>4, <4>2
      <4> QED  BY <4>1, <4>2
    <3> QED  BY <1>11, <3>1, <3>2, <3>5 DEF GroupsG
  <2> QED  BY <2>1, <2>2
<1>16. \A c \in Tasks : Belongs(c, W[c])' => H[c] \in DOMAIN groups' \union {Null}
  BY <1>12 DEF Groups, Belongs, Kind
<1>17. \A c \in Tasks : W[c] # "body" => O2[c] = <<>>
  <2>1. \A c \in Tasks : W[c] # "body" => c # d  BY <1>5
  <2> QED  BY <1>0, <1>4, <2>1 DEF Groups
<1>18. td'[d].group = v /\ \A e \in Descriptors : e # d => td'[e].group = td[e].group  BY DEF Opened, Regrouped
<1>19. ASSUME NEW e \in Descriptors PROVE GroupsD(e, W, H, O2)'
  <2>1. GroupsD(e, W, H, O)  BY DEF Groups
  <2>2. CASE e # d
    <3>1. O2[e] = O[e]  BY <1>4, <2>2
    <3>2. \A k \in 1..Len(O[e]) : <<e, O[e][k]>> \in DOMAIN groups /\ <<e, O[e][k]>> # v  BY <1>7, <2>1, <2>2 DEF GroupsD
    <3>3. \A k \in 1..Len(O[e]) : /\ <<e, O[e][k]>> \in DOMAIN groups'
                                  /\ groups'[<<e, O[e][k]>>] = groups[<<e, O[e][k]>>]
      BY <1>12, <1>13, <3>2
    <3>4. td'[e].group = td[e].group  BY <1>18, <2>2
    <3>u. PICK u : u = O[e]  OBVIOUS
    <3>5. \A k \in 1..Len(u) : /\ <<e, u[k]>> \in DOMAIN groups'
                              /\ groups'[<<e, u[k]>>].outer = IF k = 1 THEN Home(H, e) ELSE <<e, u[k-1]>>
      BY <2>1, <3>3, <3>u DEF GroupsD
    <3> QED  BY <2>1, <3>1, <3>4, <3>5, <3>u DEF GroupsD
  <2>3. CASE e = d
    <3>1. /\ Rising(s)
          /\ \A k \in 1..Len(s) : <<d, s[k]>> \in DOMAIN groups /\ groups[<<d, s[k]>>].outer = OuterOf(H, d, s, k)
          /\ d \in Threads \/ W[d] # "absent" => td[d].group = InnerOf(H, d, s)
      BY <2>1, <2>3, GroupsDWith
    <3>2. td[d].group = InnerOf(H, d, s)  BY <1>5, <3>1 DEF Descriptors
    <3>4. OpensAt(d, v)  BY <1>8, <1>12, <1>13, <1>18 DEF OpensAt
    <3>5. Nests(H, d, s)  BY <3>1, Zenon DEF Nests
    <3>3. GroupsD(d, W, H, O2)'  BY <1>4, <1>6, <3>1, <3>2, <3>4, <3>5, OpenGroupsD
    <3> QED  BY <2>3, <3>3
  <2> QED  BY <2>2, <2>3
<1>20. ASSUME NEW h \in Frames' PROVE GroupsF(h, O2)'
  <2>0. PICK g1 : SetTop(th, g1) /\ Stepped(f, g1, "body")  BY DEF Opened
  <2>1. g1 \in FrameRecords /\ g1.task = d /\ g1.ip = i + 1  BY <2>0 DEF Stepped
  <2>2. Remade(f, {g1})  BY <2>0, <2>1, SetFrames
  <2>3. CASE h = g1
    <3>1. Depth(d, i) = Depth(d, i - 1) + 1  BY <1>5, DepthStep
    <3>6. h.task = d /\ h.ip = i + 1  BY <2>1, <2>3
    <3>7. i + 1 - 1 = i  OBVIOUS
    <3>2. h.ip - 1 = i /\ h.task = d /\ h.ip = i + 1  BY <3>6, <3>7
    <3>3. Len(O2[h.task]) = Depth(h.task, h.ip - 1)  BY <1>2, <1>4, <1>6, <3>1, <3>2
    <3>4. Below(s2, i + 1)
      <4>1. Rising(s)  BY GroupsDWith DEF Groups
      <4> QED  BY <1>6, <4>1, RisingExtends
    <3>5. GroupsF(h, O2)  BY <1>4, <3>2, <3>3, <3>4 DEF GroupsF, Below
    <3> QED  BY <3>5, GroupsFSame
  <2>4. CASE h # g1
    <3>1. h \in Frames /\ h.task # d  BY <2>2, <2>4, Others
    <3>2. h.task \in Descriptors  BY <3>1, FrameFacts
    <3>3. O2[h.task] = O[h.task] /\ GroupsF(h, O)  BY <1>4, <3>1, <3>2 DEF Groups
    <3>4. GroupsF(h, O2)  BY <3>3 DEF GroupsF
    <3> QED  BY <3>4, GroupsFSame
  <2> QED  BY <2>3, <2>4
<1> QED  BY <1>3, <1>4, <1>14, <1>16, <1>17, <1>19, <1>20 DEF Groups

----------------------------------------------------------------------------
(* A group that ends has no member, and its outer one comes back. *)

Shortens(s, s2) ==
    /\ s2 \in Seq(Nat) /\ Len(s) \in Nat /\ Len(s2) = Len(s) - 1 /\ \A k \in 1..Len(s) - 1 : s2[k] = s[k]

\* A list of positions without its last.
LEMMA Shortened ==
    ASSUME NEW s \in Seq(Nat), s # <<>>
    PROVE  Shortens(s, Front(s))
BY FrontLast DEF Shortens

\* An end lowers the depth.
LEMMA DepthFalls ==
    ASSUME NEW d, NEW i \in Nat, i >= 1, prog.body[d][i][1] = "end"
    PROVE  Depth(d, i) = Depth(d, i - 1) - 1
BY DepthStep

Inmost(O, d) == td[d].group = <<d, O[d][Len(O[d])]>> /\ td[d].group \in DOMAIN groups
\* Where a group ends, one has begun.
LEMMA EndOpen ==
    ASSUME NEW W, NEW K, Shape(W, K), NEW H, NEW O, Groups(W, H, O), NEW th \in Threads, InBody(th, "end"),
           NEW d \in Descriptors, d = Top(th).task
    PROVE  O[d] # <<>> /\ O[d] \in Seq(Nat) /\ Len(O[d]) >= 1 /\ Inmost(O, d)
<1>f. PICK f : f = Top(th)  OBVIOUS
<1>1. f \in FrameRecords /\ LocalOK(f) /\ f \in Frames /\ Types  BY <1>f, TopFacts, TopIn DEF Shape
<1>2. f.pc = "body" /\ f.ip <= Len(prog.body[d]) /\ prog.body[d][f.ip][1] = "end"  BY <1>1, <1>f, InBodyFacts
<1>3. Len(prog.body[d]) \in Nat  BY <1>1, ProgramFacts
<1>4. f.ip \in Nat /\ f.ip >= 1 /\ f.ip \in 1..Len(prog.body[d])  BY <1>1, <1>2, <1>3 DEF LocalOK, FrameRecords
<1>i. PICK i \in Nat : i = f.ip  BY <1>4
<1>5. Depth(d, i) >= 0 /\ Depth(d, i) = Depth(d, i - 1) - 1 /\ Depth(d, i - 1) \in Int
  BY <1>1, <1>2, <1>4, <1>i, DepthEnd, DepthStep
<1>6. Len(O[d]) = Depth(d, i - 1)  BY <1>1, <1>f, <1>i DEF Groups, GroupsF
<1>7. d \in Threads \/ W[d] # "absent"
  <2>1. d \in Tasks => W[d] = "body"  BY <1>f, <1>2, TaskFrame DEF Bodily
  <2> QED  BY <2>1 DEF Descriptors
<1>8. O[d] \in Seq(Nat)  BY DEF Groups
<1>s. PICK s \in Seq(Nat) : s = O[d]  BY <1>8
<1>9. Len(s) >= 1  BY <1>5, <1>6, <1>s
<1>10. s # <<>>  BY <1>9, EmptySeq
<1> QED  BY <1>7, <1>8, <1>9, <1>10, <1>s, GroupOf DEF Inmost

\* The group v ends in d.
ClosesAt(d, v) ==
    /\ DOMAIN groups' = DOMAIN groups \ {v} /\ \A h \in DOMAIN groups' : groups'[h] = groups[h]
    /\ td'[d].group = groups[v].outer

\* The descriptor that ends a group.
LEMMA CloseGroupsD ==
    ASSUME NEW W, NEW H, NEW d \in Descriptors, NEW s \in Seq(Nat), s # <<>>, NEW s2, Shortens(s, s2),
           Rising(s), Nests(H, d, s), NEW v, v = <<d, s[Len(s)]>>, ClosesAt(d, v), NEW O2, O2[d] = s2
    PROVE  GroupsD(d, W, H, O2)'
<1>n. PICK n \in Nat : n = Len(s)  OBVIOUS
<1>1. Len(s2) = n - 1 /\ (\A k \in 1..n - 1 : s2[k] = s[k])  BY <1>n DEF Shortens
<1>2. n >= 1  BY <1>n, EmptySeq
<1>3. \A j, k \in 1..n : j < k => s[j] < s[k]  BY <1>n DEF Rising
<1>4. \A j, k \in 1..n - 1 : j < k => s2[j] < s2[k]
  <2>1. \A k \in 1..n - 1 : k \in 1..n  OBVIOUS
  <2> QED  BY <1>1, <1>3, <2>1
<1>5. \A k \in 1..n : s[k] \in Nat  BY <1>n, ElementOf
<1>6. ASSUME NEW k \in 1..n - 1
      PROVE  <<d, s2[k]>> \in DOMAIN groups' /\ groups'[<<d, s2[k]>>].outer = OuterOf(H, d, s2, k)
  <2>1. k \in 1..n /\ n \in 1..n /\ k < n  BY <1>2
  <2>2. s[k] < s[n] /\ s[k] \in Nat /\ s[n] \in Nat  BY <1>3, <1>5, <2>1
  <2>3. <<d, s[k]>> # v
    <3>1. s[k] # s[n]  BY <2>2
    <3> QED  BY <1>n, <3>1
  <2>4. <<d, s[k]>> \in DOMAIN groups /\ groups[<<d, s[k]>>].outer = OuterOf(H, d, s, k)  BY <1>n, <2>1 DEF Nests
  <2>5. <<d, s[k]>> \in DOMAIN groups' /\ groups'[<<d, s[k]>>] = groups[<<d, s[k]>>]  BY <2>3, <2>4 DEF ClosesAt
  <2>6. k # 1 => s2[k - 1] = s[k - 1]
    <3>1. k # 1 => k - 1 \in 1..n - 1  OBVIOUS
    <3> QED  BY <1>1, <3>1
  <2>7. s2[k] = s[k]  BY <1>1
  <2> QED  BY <2>4, <2>5, <2>6, <2>7 DEF OuterOf
<1>7. td'[d].group = OuterOf(H, d, s, n)
  <2>1. n \in 1..Len(s)  BY <1>n, <1>2
  <2> QED  BY <1>n, <2>1 DEF Nests, ClosesAt
<1>8. td'[d].group = InnerOf(H, d, s2)
  <2>1. CASE n = 1
    <3>1. s2 = <<>>  BY <1>1, <2>1, EmptySeq DEF Shortens
    <3> QED  BY <1>7, <2>1, <3>1 DEF OuterOf, InnerOf
  <2>2. CASE n # 1
    <3>1. Len(s2) # 0 /\ n - 1 \in 1..n - 1  BY <1>1, <1>2, <2>2
    <3>2. s2 # <<>>  BY <3>1, EmptySeq
    <3>3. s2[n - 1] = s[n - 1]  BY <1>1, <3>1
    <3> QED  BY <1>1, <1>7, <2>2, <3>2, <3>3 DEF OuterOf, InnerOf
  <2> QED  BY <2>1, <2>2
<1> QED  BY <1>1, <1>4, <1>6, <1>8 DEF GroupsD, Rising, OuterOf, InnerOf

\* Ending a group without members keeps the groups.
LEMMA CloseGroups ==
    ASSUME NEW W, NEW K, Shape(W, K), NEW H, NEW O, Groups(W, H, O), NEW th \in Threads, NEW f, f = Top(th),
           NEW d \in Descriptors, NEW i \in Nat, d = f.task, i = f.ip, NEW s \in Seq(Nat), s = O[d], s # <<>>,
           NEW v, v = <<d, s[Len(s)]>>, v \in DOMAIN groups, groups[v].count = 0,
           Closed(W, th, f, v), prog' = prog, proxy' = proxy,
           NEW s2, Shortens(s, s2), NEW O2, Moved(O, O2, d, s2)
    PROVE  Groups(W, H, O2)'
<1>0. W \in [Tasks -> Places] /\ DOMAIN groups \subseteq GroupNames /\ \A c \in Tasks : c \in Descriptors
  BY DEF Shape, Types, DataTypes, Descriptors
<1>1. f \in FrameRecords /\ f \in Frames  BY TopIn, FrameFacts
<1>n. PICK n \in Nat : n = Len(s)  OBVIOUS
<1>2. Len(s2) = n - 1 /\ s2 \in Seq(Nat) /\ (\A k \in 1..n - 1 : s2[k] = s[k]) /\ n >= 1  BY <1>n, EmptySeq DEF Shortens
<1>3. H \in [Tasks -> GroupNames \union {Null}] /\ O \in [Descriptors -> Seq(Nat)]  BY DEF Groups
<1>4. O2[d] = s2 /\ (\A e \in Descriptors : e # d => O2[e] = O[e]) /\ O2 \in [Descriptors -> Seq(Nat)]
  BY <1>2, <1>3 DEF Moved
<1>5. i >= 1 /\ prog.body[d][i][1] = "end" /\ (d \in Tasks => W[d] = "body")  BY DEF Closed
<1>6. n = Depth(d, i - 1) /\ Below(s, i)
  <2>1. GroupsF(f, O)  BY <1>1 DEF Groups
  <2> QED  BY <1>n, <2>1 DEF GroupsF, Below
<1>7. v[1] = d /\ v[2] = s[n]  BY <1>n
<1>9. v # Null  BY <1>0, NullName
<1>10. Members(W, H, v) = {}
  <2>1. Cardinality(Members(W, H, v)) = 0  BY DEF Groups, GroupsG
  <2>2. IsFiniteSet(Members(W, H, v))  BY MembersType, SubTasks
  <2> QED  BY <2>1, <2>2, FS_EmptySet
<1>11. \A h : Members(W, H, h)' = Members(W, H, h)  BY DEF Members, Belongs, Kind
<1>12. DOMAIN groups' = DOMAIN groups \ {v}  BY DEF Closed
<1>13. \A h \in DOMAIN groups' : groups'[h] = groups[h]  BY DEF Closed
<1>14. ASSUME NEW h \in DOMAIN groups' PROVE GroupsG(h, W, H, O2)'
  <2>1. h \in DOMAIN groups /\ groups'[h] = groups[h] /\ h # v  BY <1>12, <1>13
  <2>2. GroupsG(h, W, H, O)  BY <2>1 DEF Groups
  <2>3. h[1] \in Descriptors /\ h = <<h[1], h[2]>>  BY <1>0, <2>1 DEF GroupNames
  <2>4. PICK k \in 1..Len(O[h[1]]) : O[h[1]][k] = h[2]  BY <2>2 DEF GroupsG
  <2>5. k \in 1..Len(O2[h[1]]) /\ O2[h[1]][k] = h[2]
    <3>1. CASE h[1] = d
      <4>1. k \in 1..n /\ s[k] = h[2]  BY <1>n, <2>4, <3>1
      <4>2. k # n  BY <1>n, <2>1, <2>3, <3>1, <4>1
      <4>3. k \in 1..n - 1  BY <4>1, <4>2
      <4>4. s2[k] = h[2]  BY <1>2, <4>1, <4>3, Zenon
      <4>5. O2[h[1]] = s2  BY <1>4, <3>1
      <4> QED  BY <1>2, <4>3, <4>4, <4>5
    <3>2. CASE h[1] # d  BY <1>4, <2>3, <2>4, <3>2
    <3> QED  BY <3>1, <3>2
  <2> QED  BY <1>11, <2>1, <2>2, <2>5 DEF GroupsG
<1>16. ASSUME NEW c \in Tasks, Belongs(c, W[c])' PROVE H[c] \in DOMAIN groups' \union {Null}
  <2>1. Belongs(c, W[c])  BY <1>16 DEF Belongs, Kind
  <2>2. H[c] # v  BY <1>10, <2>1 DEF Members
  <2> QED  BY <1>12, <2>1, <2>2 DEF Groups
<1>17. \A c \in Tasks : W[c] # "body" => O2[c] = <<>>
  <2>1. \A c \in Tasks : W[c] # "body" => c # d  BY <1>5
  <2> QED  BY <1>0, <1>4, <2>1 DEF Groups
<1>18. td'[d].group = groups[v].outer /\ \A e \in Descriptors : e # d => td'[e].group = td[e].group  BY Zenon DEF Closed, Regrouped
<1>19. ASSUME NEW e \in Descriptors PROVE GroupsD(e, W, H, O2)'
  <2>1. GroupsD(e, W, H, O)  BY DEF Groups
  <2>2. CASE e # d
    <3>1. O2[e] = O[e]  BY <1>4, <2>2
    <3>2. \A k \in 1..Len(O[e]) : <<e, O[e][k]>> \in DOMAIN groups /\ <<e, O[e][k]>> # v  BY <1>7, <2>1, <2>2, Zenon DEF GroupsD
    <3>3. \A k \in 1..Len(O[e]) : /\ <<e, O[e][k]>> \in DOMAIN groups'
                                  /\ groups'[<<e, O[e][k]>>] = groups[<<e, O[e][k]>>]
      BY <1>12, <1>13, <3>2
    <3>4. td'[e].group = td[e].group  BY <1>18, <2>2
    <3>u. PICK u : u = O[e]  OBVIOUS
    <3>5. \A k \in 1..Len(u) : /\ <<e, u[k]>> \in DOMAIN groups'
                              /\ groups'[<<e, u[k]>>].outer = IF k = 1 THEN Home(H, e) ELSE <<e, u[k-1]>>
      BY <2>1, <3>3, <3>u DEF GroupsD
    <3> QED  BY <2>1, <3>1, <3>4, <3>5, <3>u DEF GroupsD
  <2>3. CASE e = d
    <3>1. /\ Rising(s)
          /\ \A k \in 1..Len(s) : <<d, s[k]>> \in DOMAIN groups /\ groups[<<d, s[k]>>].outer = OuterOf(H, d, s, k)
      BY <2>1, <2>3, GroupsDWith
    <3>2. Nests(H, d, s)  BY <3>1, Zenon DEF Nests
    <3>3. ClosesAt(d, v)  BY <1>12, <1>13, <1>18 DEF ClosesAt
    <3>4. GroupsD(d, W, H, O2)'  BY <1>4, <3>1, <3>2, <3>3, CloseGroupsD
    <3> QED  BY <2>3, <3>4
  <2> QED  BY <2>2, <2>3
<1>20. ASSUME NEW h \in Frames' PROVE GroupsF(h, O2)'
  <2>0. PICK g1 : SetTop(th, g1) /\ Stepped(f, g1, "body")  BY DEF Closed
  <2>1. g1 \in FrameRecords /\ g1.task = d /\ g1.ip = i + 1  BY <2>0 DEF Stepped
  <2>2. Remade(f, {g1})  BY <2>0, <2>1, SetFrames
  <2>3. CASE h = g1
    <3>1. Depth(d, i) = Depth(d, i - 1) - 1  BY <1>5, DepthFalls
    <3>6. h.task = d /\ h.ip = i + 1  BY <2>1, <2>3
    <3>7. i + 1 - 1 = i  OBVIOUS
    <3>2. h.ip - 1 = i  BY <3>6, <3>7
    <3>3. Len(O2[h.task]) = Depth(h.task, h.ip - 1)  BY <1>2, <1>4, <1>6, <3>1, <3>2, <3>6
    <3>4. \A k \in 1..Len(s2) : s2[k] < i + 1
      <4>1. \A k \in 1..n : s[k] < i /\ s[k] \in Nat  BY <1>6, <1>n, ElementOf, Zenon DEF Below
      <4>2. \A k \in 1..n - 1 : k \in 1..n  OBVIOUS
      <4>4. ASSUME NEW k \in 1..n - 1 PROVE s2[k] < i + 1
        <5>1. s2[k] = s[k]  BY <1>2
        <5>2. s[k] < i /\ s[k] \in Nat  BY <4>1, <4>2
        <5> QED  BY <5>1, <5>2
      <4> QED  BY <1>2, <4>4
    <3>5. GroupsF(h, O2)  BY <1>4, <3>6, <3>3, <3>4, Zenon DEF GroupsF
    <3> QED  BY <3>5, GroupsFSame
  <2>4. CASE h # g1
    <3>1. h \in Frames /\ h.task # d  BY <2>2, <2>4, Others
    <3>2. h.task \in Descriptors  BY <3>1, FrameFacts
    <3>3. O2[h.task] = O[h.task] /\ GroupsF(h, O)  BY <1>4, <3>1, <3>2 DEF Groups
    <3>4. GroupsF(h, O2)  BY <3>3 DEF GroupsF
    <3> QED  BY <3>4, GroupsFSame
  <2> QED  BY <2>3, <2>4
<1> QED  BY <1>3, <1>4, <1>14, <1>16, <1>17, <1>19, <1>20 DEF Groups

----------------------------------------------------------------------------
(* Taskgroup and EndTaskgroup keep the invariant. *)

\* A frame that creates nothing and submits nothing holds only its own task.
LEMMA OnlyOwn ==
    ASSUME NEW f, f.pc \notin Creating \union {"push"}
    PROVE  Only(f)
BY DEF Only, Holds, Makes, Pushes

\* Moving among the late places changes nothing for who waits.
LEMMA Waiteds ==
    ASSUME NEW W, NEW W2, prog' = prog, \A t \in Tasks : proxy'[t] = proxy[t],
           \A t \in Tasks : W2[t] = W[t] \/ (W[t] # "absent" /\ W2[t] # "absent" /\ W[t] \in Late \union {"group"} /\ W2[t] \in Late \union {"group"})
    PROVE  \A t \in Tasks : (Waited(t, W2[t])' <=> Waited(t, W[t]))
BY DEF Waited, Kind, Late

\* Moving among the late places changes nothing for the groups.
LEMMA Belongings ==
    ASSUME NEW W, NEW W2, prog' = prog, \A t \in Tasks : proxy'[t] = proxy[t],
           \A t \in Tasks : W2[t] = W[t] \/ (W[t] # "absent" /\ W2[t] # "absent" /\ W[t] \in Late /\ W2[t] \in Late)
    PROVE  \A t \in Tasks : (Belongs(t, W2[t])' <=> Belongs(t, W[t]))
BY DEF Belongs, Kind, Late

\* Images stay with the proxies' stages.
LEMMA Images ==
    ASSUME \A t \in Tasks : proxy'[t] = proxy[t]
    PROVE  \A d \in Descriptors : Image(d)' = Image(d)
BY DEF Image

\* A step of a body that only regroups its task.
LEMMA RegroupRest ==
    ASSUME NEW W, NEW K, NEW R, NEW H, NEW O, NEW B, NEW C, Inv(W, K, R, H, O, B, C),
           NEW th \in Threads, NEW f, f = Top(th), f.pc = "body", f.task \in Tasks => W[f.task] = "body",
           NEW v, Regrouped(f.task, v), NEW g, SetTop(th, g), Stepped(f, g, "body"),
           prog' = prog, deque' = deque, hash' = hash, node' = node, proxy' = proxy
    PROVE  Kids(W, K)' /\ Incs(W)' /\ Dependences(W, R, B, C)' /\ Present(W, K)'
<1>1. Shape(W, K) /\ Kids(W, K) /\ Incs(W) /\ Dependences(W, R, B, C) /\ Present(W, K)
  BY InvParts DEF Counters
<1>2. g \in FrameRecords /\ g.task = f.task /\ g.pc = "body"  BY DEF Stepped
<1>3. Remade(f, {g})  BY <1>1, <1>2, SetFrames
<1>4. ParentTd /\ KidsTd /\ IncTd /\ NodeTd  BY DEF Regrouped, AlikeButGroup, ParentTd, KidsTd, IncTd, NodeTd
<1>5. KeepsAbsent(W, W) /\ KeepsGone(W, W) /\ SameRank(W, W)  BY DEF KeepsAbsent, KeepsGone, SameRank
<1>6. Kids(W, K)'  BY <1>1, <1>4, <1>5, KidsSame
<1>7. \A t \in Tasks : (Waited(t, W[t])' <=> Waited(t, W[t]))  BY DEF Waited, Kind
<1>8. Incs(W)'  BY <1>1, <1>4, <1>5, <1>7, Images, IncsSame
<1>9. \A h \in Frames' : h \in Frames \/ Aside(h, R)  BY <1>2, <1>3 DEF Remade, Aside
<1>10. Dependences(W, R, B, C)'  BY <1>1, <1>4, <1>5, <1>9, DependencesSame
<1>11. Only(f)  BY OnlyOwn DEF Creating
<1>12. Present(W, K)'
  <2>1. f.task \in Tasks => W[f.task] \notin Makers \union {"queue"}  BY DEF Makers
  <2> QED  BY <1>1, <1>2, <1>3, <1>11, <2>1, PresentOwn
<1> QED  BY <1>6, <1>8, <1>10, <1>12

\* Taskgroup keeps the invariant.
LEMMA TaskgroupAgain ==
    ASSUME NEW W, NEW K, NEW R, NEW H, NEW O, NEW B, NEW C, Inv(W, K, R, H, O, B, C), NEW th \in Threads, Taskgroup(th)
    PROVE  Again
<1>f. PICK f : f = Top(th)  OBVIOUS
<1>1. Shape(W, K) /\ Groups(W, H, O)  BY InvParts DEF Counters
<1>2. Shape(W, K)'  BY <1>1, <1>f, TaskgroupShape
<1>v. PICK v \in GroupNames : v = <<f.task, f.ip>> /\ Opened(W, th, f, v)  BY <1>1, <1>f, TaskgroupShape
<1>g. PICK g : SetTop(th, g) /\ Stepped(f, g, "body")  BY <1>v DEF Opened
<1>3. f \in FrameRecords /\ f.pc = "body" /\ (f.task \in Tasks => W[f.task] = "body") /\ Regrouped(f.task, v)
  BY <1>v DEF Opened
<1>4. f.task \in Descriptors /\ f.ip \in Nat  BY <1>3 DEF FrameRecords
<1>5. prog' = prog /\ deque' = deque /\ hash' = hash /\ node' = node /\ proxy' = proxy  BY DEF Taskgroup
<1>d. PICK d \in Descriptors : d = f.task  BY <1>4
<1>i. PICK i \in Nat : i = f.ip  BY <1>4
<1>s. PICK s \in Seq(Nat) : s = O[d]  BY <1>1 DEF Groups
<1>s2. PICK s2 : s2 = Append(s, i)  OBVIOUS
<1>6. Extends(s, s2, i)  BY <1>s2, Appended
<1>O. PICK O2 : Moved(O, O2, d, s2)  BY DEF Moved
<1>7. v = <<d, i>>  BY <1>v, <1>d, <1>i
<1>8. Groups(W, H, O2)'  BY <1>1, <1>f, <1>d, <1>i, <1>v, <1>7, <1>5, <1>s, <1>6, <1>O, OpenGroups
<1>9. Kids(W, K)' /\ Incs(W)' /\ Dependences(W, R, B, C)' /\ Present(W, K)'
  BY <1>f, <1>g, <1>3, <1>5, RegroupRest, Zenon
<1>10. Counters(W, K, H, O2)'  BY <1>8, <1>9 DEF Counters
<1> QED  BY <1>2, <1>9, <1>10, AgainFrom

\* EndTaskgroup keeps the invariant.
LEMMA EndTaskgroupAgain ==
    ASSUME NEW W, NEW K, NEW R, NEW H, NEW O, NEW B, NEW C, Inv(W, K, R, H, O, B, C), NEW th \in Threads, EndTaskgroup(th)
    PROVE  Again
<1>f. PICK f : f = Top(th)  OBVIOUS
<1>1. Shape(W, K) /\ Groups(W, H, O)  BY InvParts DEF Counters
<1>0. f \in FrameRecords /\ f.task \in Descriptors  BY <1>1, <1>f, TopFacts
<1>d. PICK d \in Descriptors : d = f.task  BY <1>0
<1>s. PICK s : s = O[d]  OBVIOUS
<1>b. InBody(th, "end")  BY DEF EndTaskgroup
<1>a. s # <<>> /\ s \in Seq(Nat) /\ td[d].group = <<d, s[Len(s)]>> /\ td[d].group \in DOMAIN groups
  <2>1. d = Top(th).task  BY <1>f, <1>d
  <2>2. O[d] # <<>> /\ O[d] \in Seq(Nat)  BY <1>1, <2>1, <1>b, EndOpen
  <2>3. Inmost(O, d)  BY <1>1, <2>1, <1>b, EndOpen
  <2> QED  BY <1>s, <2>2, <2>3 DEF Inmost
<1>v. PICK v \in DOMAIN groups : v = td[f.task].group  BY <1>a, <1>d
<1>2. Shape(W, K)' /\ Closed(W, th, f, v) /\ groups[v].count = 0  BY <1>1, <1>f, <1>v, EndTaskgroupShape
<1>g. PICK g : SetTop(th, g) /\ Stepped(f, g, "body")  BY <1>2 DEF Closed
<1>3. f.pc = "body" /\ (f.task \in Tasks => W[f.task] = "body") /\ Regrouped(f.task, groups[v].outer)
  BY <1>2 DEF Closed
<1>4. f.ip \in Nat  BY <1>0 DEF FrameRecords
<1>5. prog' = prog /\ deque' = deque /\ hash' = hash /\ node' = node /\ proxy' = proxy  BY DEF EndTaskgroup
<1>i. PICK i \in Nat : i = f.ip  BY <1>4
<1>s2. PICK s2 : s2 = Front(s)  OBVIOUS
<1>6. Shortens(s, s2)  BY <1>s2, <1>a, Shortened
<1>O. PICK O2 : Moved(O, O2, d, s2)  BY DEF Moved
<1>7. v = <<d, s[Len(s)]>>  BY <1>v, <1>d, <1>a
<1>8. Groups(W, H, O2)'  BY <1>1, <1>f, <1>d, <1>i, <1>2, <1>7, <1>5, <1>s, <1>a, <1>6, <1>O, CloseGroups
<1>9. Kids(W, K)' /\ Incs(W)' /\ Dependences(W, R, B, C)' /\ Present(W, K)'
  BY <1>f, <1>g, <1>3, <1>5, RegroupRest
<1>10. Counters(W, K, H, O2)'  BY <1>8, <1>9 DEF Counters
<1> QED  BY <1>2, <1>9, <1>10, AgainFrom

----------------------------------------------------------------------------
(* Complete and LeaveGroup keep the invariant. *)

\* A frame that stays where it is in its body.
LEMMA SameSpot ==
    ASSUME NEW W, NEW K, Shape(W, K), NEW H, NEW O, Groups(W, H, O), NEW th \in Threads, NEW f, f = Top(th),
           NEW g \in FrameRecords, SetTop(th, g), g.task = f.task, g.ip = f.ip, prog' = prog
    PROVE  \A h \in Frames' : h \in Frames \/ GroupsF(h, O)'
<1>1. Remade(f, {g}) /\ f \in Frames /\ f \in FrameRecords /\ f.task \in Descriptors  BY SetFrames, TopIn, TopFacts
<1>2. GroupsF(f, O) /\ O[f.task] \in Seq(Nat)  BY <1>1 DEF Groups
<1>3. StepsFrom(f, g)  BY <1>1 DEF StepsFrom, FrameRecords
<1>4. GroupsF(g, O)  BY <1>2, <1>3, GroupsFStep
<1>5. GroupsF(g, O)'  BY <1>4, GroupsFSame
<1> QED  BY <1>1, <1>5 DEF Remade

\* No new frame when the stacks stay.
LEMMA NoFrames ==
    ASSUME stack' = stack
    PROVE  \A h \in Frames' : h \in Frames
BY DEF Frames

\* A step of a finishing task that leaves the dependences alone.
LEMMA RankRest ==
    ASSUME NEW W, NEW K, NEW R, NEW H, NEW O, NEW B, NEW C, Inv(W, K, R, H, O, B, C),
           NEW th \in Threads, NEW f, f = Top(th), f.task \in Tasks, Only(f), NEW pc, NEW g, Turn(f, g, pc), SetTop(th, g),
           pc \in {"group", "release"}, NEW W2, Moved(W, W2, f.task, pc), W[f.task] \in {"body", "group"},
           ParentTd, NodeTd, prog' = prog, deque' = deque, hash' = hash, node' = node
    PROVE  Dependences(W2, R, B, C)' /\ Present(W2, K)' /\ KeepsAbsent(W, W2) /\ KeepsGone(W, W2)
<1>1. Shape(W, K) /\ Dependences(W, R, B, C) /\ Present(W, K) /\ W \in [Tasks -> Places]  BY InvParts DEF Shape
<1>2. g \in FrameRecords /\ g.task = f.task /\ g.pc = pc  BY DEF Turn
<1>3. Remade(f, {g})  BY <1>1, <1>2, SetFrames
<1>4. W2[f.task] = pc /\ \A s \in Tasks : s # f.task => W2[s] = W[s]  BY <1>1, MovedFacts
<1>5. KeepsAbsent(W, W2) /\ KeepsGone(W, W2) /\ SameRank(W, W2)  BY <1>4 DEF KeepsAbsent, KeepsGone, SameRank, Sorts
<1>6. \A d \in Tasks : W[d] \in Hashing => W2[d] \in Hashing  BY <1>4 DEF Hashing
<1>9. \A h \in Frames' : h \in Frames \/ Aside(h, R)  BY <1>2, <1>3 DEF Remade, Aside
<1>10. Dependences(W2, R, B, C)'  BY <1>1, <1>5, <1>6, <1>9, DependencesSame
<1>12. Present(W2, K)'
  <2>1. f.task \in Tasks => W2[f.task] \notin Makers \union {"queue"}  BY <1>4 DEF Makers
  <2> QED  BY <1>1, <1>2, <1>3, <1>4, <2>1, PresentOwn
<1> QED  BY <1>5, <1>10, <1>12

\* Complete keeps the invariant.
LEMMA CompleteAgain ==
    ASSUME NEW W, NEW K, NEW R, NEW H, NEW O, NEW B, NEW C, Inv(W, K, R, H, O, B, C), NEW th \in Threads, Complete(th)
    PROVE  Again
<1>f. PICK f : f = Top(th)  OBVIOUS
<1>1. Shape(W, K) /\ Kids(W, K) /\ Incs(W) /\ Groups(W, H, O) /\ W \in [Tasks -> Places]  BY InvParts DEF Counters, Shape
<1>w. PICK W2 : Moved(W, W2, f.task, "group")  BY DEF Moved
<1>2. /\ Shape(W2, K)' /\ f.task \in Tasks /\ W[f.task] = "body" /\ Kind(f.task) # "proxy"
      /\ f.pc = "body" /\ f.ip = Len(prog.body[f.task]) + 1 /\ Completed(f.task, td[f.task].parent)
      /\ \E g : Turn(f, g, "group") /\ SetTop(th, g)
  BY <1>1, <1>f, <1>w, CompleteShape DEF Moved
<1>g. PICK g : Turn(f, g, "group") /\ SetTop(th, g)  BY <1>2
<1>3. prog' = prog /\ deque' = deque /\ groups' = groups /\ hash' = hash /\ node' = node /\ proxy' = proxy  BY DEF Complete
<1>4. ParentTd /\ KidsTd /\ GroupTd /\ NodeTd  BY <1>2, Zenon DEF Completed, ParentTd, KidsTd, GroupTd, NodeTd
<1>5. Only(f)  BY <1>2, OnlyOwn DEF Creating
<1>6. Dependences(W2, R, B, C)' /\ Present(W2, K)' /\ KeepsAbsent(W, W2) /\ KeepsGone(W, W2)
  BY <1>f, <1>w, <1>g, <1>2, <1>3, <1>4, <1>5, RankRest
<1>7. Kids(W2, K)'  BY <1>1, <1>4, <1>6, KidsSame
<1>8. W2[f.task] = "group" /\ \A s \in Tasks : s # f.task => W2[s] = W[s]  BY <1>1, <1>2, <1>w, MovedFacts
<1>9. Incs(W2)'
  <2>1. Waited(f.task, W[f.task]) /\ ~Waited(f.task, W2[f.task])'  BY <1>2, <1>3, <1>8 DEF Waited, Kind, Late
  <2>2. \A c \in Tasks : c # f.task => (Waited(c, W2[c])' <=> Waited(c, W[c]))  BY <1>3, <1>8 DEF Waited, Kind
  <2>p. PICK p : p = td[f.task].parent  OBVIOUS
  <2>c. Completed(f.task, p)  BY <1>2, <2>p
  <2>3. IncIs(p, td[p].inc - 1)  BY <2>c, Zenon DEF IncIs, Completed
  <2>4. \A d \in Descriptors : Image(d)' = Image(d)  BY <1>3, Images
  <2> QED  BY <1>1, <1>2, <1>4, <1>6, <2>1, <2>2, <2>3, <2>4, <2>p, LeaveIncs
<1>10. Groups(W2, H, O)'
  <2>1. f \in Frames  BY <1>1, <1>f, TopIn
  <2>2. O[f.task] = <<>>  BY <1>1, <1>2, <2>1, OpenEnd
  <2>3. \A t \in Tasks : W[t] = "body" => W2[t] = "body" \/ O[t] = <<>>  BY <1>8, <2>2
  <2>4. \A c \in Tasks : Belongs(c, W2[c])' <=> Belongs(c, W[c])  BY <1>2, <1>3, <1>8 DEF Belongs, Kind, Late
  <2>5. \A h \in Frames' : h \in Frames \/ GroupsF(h, O)'  BY <1>1, <1>f, <1>g, <1>3, SameSpot DEF Turn
  <2> QED  BY <1>1, <1>3, <1>4, <1>6, <2>3, <2>4, <2>5, GroupsSame
<1> QED  BY <1>2, <1>6, <1>7, <1>9, <1>10, AgainFrom DEF Counters

\* LeaveGroup keeps the invariant.
LEMMA LeaveGroupAgain ==
    ASSUME NEW W, NEW K, NEW R, NEW H, NEW O, NEW B, NEW C, Inv(W, K, R, H, O, B, C), NEW th \in Threads, LeaveGroup(th)
    PROVE  Again
<1>f. PICK f : f = Top(th)  OBVIOUS
<1>1. Shape(W, K) /\ Kids(W, K) /\ Incs(W) /\ Groups(W, H, O) /\ W \in [Tasks -> Places]  BY InvParts DEF Counters, Shape
<1>w. PICK W2 : Moved(W, W2, f.task, "release")  BY DEF Moved
<1>2. Shape(W2, K)' /\ f.task \in Tasks /\ W[f.task] = "group" /\ Kind(f.task) # "proxy"
  BY <1>1, <1>f, <1>w, LeaveGroupShape DEF Moved
<1>3. prog' = prog /\ deque' = deque /\ td' = td /\ hash' = hash /\ node' = node /\ proxy' = proxy  BY DEF LeaveGroup
<1>0. f \in FrameRecords /\ f.pc = "group"  BY <1>1, <1>f, TopFacts DEF LeaveGroup, At
<1>g. PICK g : Turn(f, g, "release")  BY <1>0, Turned DEF Pcs, Finishing
<1>s. SetTop(th, g)  BY <1>f, <1>g DEF LeaveGroup, Goto, Turn
<1>4. ParentTd /\ KidsTd /\ IncTd /\ GroupTd /\ NodeTd  BY <1>3 DEF ParentTd, KidsTd, IncTd, GroupTd, NodeTd
<1>5. Only(f)  BY <1>0, OnlyOwn DEF Creating
<1>6. Dependences(W2, R, B, C)' /\ Present(W2, K)' /\ KeepsAbsent(W, W2) /\ KeepsGone(W, W2)
  BY <1>f, <1>w, <1>g, <1>s, <1>2, <1>3, <1>4, <1>5, RankRest
<1>7. Kids(W2, K)'  BY <1>1, <1>4, <1>6, KidsSame
<1>8. W2[f.task] = "release" /\ \A s \in Tasks : s # f.task => W2[s] = W[s]  BY <1>1, <1>2, <1>w, MovedFacts
<1>9. Incs(W2)'
  <2>2. \A c \in Tasks : (Waited(c, W2[c])' <=> Waited(c, W[c]))  BY <1>2, <1>3, <1>8 DEF Waited, Kind, Late
  <2>4. \A d \in Descriptors : Image(d)' = Image(d)  BY <1>3, Images
  <2> QED  BY <1>1, <1>4, <1>6, <2>2, <2>4, IncsSame
<1>10. Groups(W2, H, O)'
  <2>1. Belongs(f.task, W[f.task]) /\ ~Belongs(f.task, W2[f.task])'  BY <1>2, <1>3, <1>8 DEF Belongs, Kind, Late
  <2>2. \A c \in Tasks : c # f.task => (Belongs(c, W2[c])' <=> Belongs(c, W[c]))  BY <1>3, <1>8 DEF Belongs, Kind
  <2>3. DOMAIN groups \subseteq GroupNames /\ groups \in [DOMAIN groups -> GroupRecords]  BY <1>1 DEF Shape, Types, DataTypes
  <2>4. IF td[f.task].group = Null THEN groups' = groups ELSE Uncounted(td[f.task].group)
    <3>1. CASE td[f.task].group = Null  BY <1>f, <3>1 DEF LeaveGroup
    <3>2. CASE td[f.task].group # Null
      <4>1. groups' = [groups EXCEPT ![td[f.task].group].count = @ - 1]  BY <1>f, <3>2 DEF LeaveGroup
      <4>2. Uncounted(td[f.task].group)  BY <2>3, <4>1, GroupLeft, Zenon
      <4> QED  BY <3>2, <4>2
    <3> QED  BY <3>1, <3>2
  <2>5. \A h \in Frames' : h \in Frames \/ GroupsF(h, O)'  BY <1>1, <1>f, <1>g, <1>s, <1>3, SameSpot DEF Turn
  <2>6. \A c \in Tasks : W[c] = "body" => W2[c] = "body"  BY <1>2, <1>8
  <2>7. W[f.task] \notin {"absent", "body"}  BY <1>2
  <2> QED  BY <1>1, <1>2, <1>3, <1>4, <1>6, <2>1, <2>2, <2>3, <2>4, <2>5, <2>6, <2>7, LeaveGroups
<1> QED  BY <1>2, <1>6, <1>7, <1>9, <1>10, AgainFrom DEF Counters

----------------------------------------------------------------------------
(* The top half of a proxy and Free keep the invariant. *)

\* A step of the top half of a proxy task.
LEMMA ProxyRest ==
    ASSUME NEW W, NEW K, NEW R, NEW H, NEW O, NEW B, NEW C, Inv(W, K, R, H, O, B, C), NEW x, NEW v, Incd(x, v),
           prog' = prog, stack' = stack, deque' = deque, hash' = hash, node' = node
    PROVE  /\ Kids(W, K)' /\ Dependences(W, R, B, C)' /\ Present(W, K)'
           /\ KeepsAbsent(W, W) /\ ParentTd /\ GroupTd /\ IncIs(x, v) /\ \A h \in Frames' : h \in Frames
<1>1. Shape(W, K) /\ Kids(W, K) /\ Dependences(W, R, B, C) /\ Present(W, K)  BY InvParts DEF Counters
<1>2. KeepsAbsent(W, W) /\ KeepsGone(W, W) /\ SameRank(W, W)  BY DEF KeepsAbsent, KeepsGone, SameRank
<1>3. ParentTd /\ KidsTd /\ GroupTd /\ NodeTd /\ IncIs(x, v)
  BY DEF Incd, AlikeButInc, ParentTd, KidsTd, GroupTd, NodeTd, IncIs
<1>4. Kids(W, K)'  BY <1>1, <1>2, <1>3, KidsSame
<1>5. \A h \in Frames' : h \in Frames  BY NoFrames
<1>6. Dependences(W, R, B, C)'  BY <1>1, <1>2, <1>3, <1>5, DependencesSame
<1>7. \A t \in Tasks : W[t] = "queue" => InDeque(t)'  BY <1>1, DequeSame
<1>8. Present(W, K)'  BY <1>1, <1>7, PresentSame
<1> QED  BY <1>2, <1>3, <1>4, <1>5, <1>6, <1>8

\* One proxy at its next stage.
LEMMA AdvancedFacts ==
    ASSUME NEW W, NEW K, Shape(W, K), NEW t \in Tasks, NEW a, NEW b, Advanced(t, a, b)
    PROVE  proxy[t] = a /\ proxy'[t] = b /\ \A s \in Tasks : s # t => proxy'[s] = proxy[s]
<1>1. proxy \in [Tasks -> Stages]  BY DEF Shape, Types, DataTypes
<1> QED  BY <1>1 DEF Advanced

\* Imagine keeps the invariant.
LEMMA ImagineAgain ==
    ASSUME NEW W, NEW K, NEW R, NEW H, NEW O, NEW B, NEW C, Inv(W, K, R, H, O, B, C), NEW t \in Tasks, Imagine(t)
    PROVE  Again
<1>1. Shape(W, K) /\ Incs(W) /\ Groups(W, H, O)  BY InvParts DEF Counters
<1>2. Shape(W, K)' /\ W[t] = "outside" /\ Kind(t) = "proxy" /\ Advanced(t, "group", "give") /\ Incd(t, td[t].inc + 1)
  BY <1>1, ImagineShape
<1>3. prog' = prog /\ stack' = stack /\ deque' = deque /\ hash' = hash /\ node' = node  BY DEF Imagine
<1>4. /\ Kids(W, K)' /\ Dependences(W, R, B, C)' /\ Present(W, K)'
      /\ KeepsAbsent(W, W) /\ ParentTd /\ GroupTd /\ IncIs(t, td[t].inc + 1) /\ \A h \in Frames' : h \in Frames
  BY <1>2, <1>3, ProxyRest
<1>5. proxy[t] = "group" /\ proxy'[t] = "give" /\ \A s \in Tasks : s # t => proxy'[s] = proxy[s]
  BY <1>1, <1>2, AdvancedFacts
<1>6. Incs(W)'
  <2>1. \A c \in Tasks : Waited(c, W[c])' <=> Waited(c, W[c])  BY <1>2, <1>3, <1>5 DEF Waited, Kind
  <2>2. \A d \in Descriptors : d # t => Image(d)' = Image(d)  BY <1>5 DEF Image
  <2>3. Image(t) = 0 /\ Image(t)' = 1  BY <1>5 DEF Image
  <2> QED  BY <1>1, <1>4, <2>1, <2>2, <2>3, ImageIncs
<1>7. Groups(W, H, O)'
  <2>1. Belongs(t, W[t]) /\ ~Belongs(t, W[t])'  BY <1>2, <1>3, <1>5 DEF Belongs, Kind
  <2>2. \A c \in Tasks : c # t => (Belongs(c, W[c])' <=> Belongs(c, W[c]))  BY <1>3, <1>5 DEF Belongs, Kind
  <2>3. DOMAIN groups \subseteq GroupNames /\ groups \in [DOMAIN groups -> GroupRecords]  BY <1>1 DEF Shape, Types, DataTypes
  <2>4. IF td[t].group = Null THEN groups' = groups ELSE Uncounted(td[t].group)
    <3>1. CASE td[t].group = Null  BY <3>1 DEF Imagine
    <3>2. CASE td[t].group # Null
      <4>1. groups' = [groups EXCEPT ![td[t].group].count = @ - 1]  BY <3>2 DEF Imagine
      <4>2. Uncounted(td[t].group)  BY <2>3, <4>1, GroupLeft
      <4> QED  BY <3>2, <4>2
    <3> QED  BY <3>1, <3>2
  <2>7. W[t] \notin {"absent", "body"}  BY <1>2
  <2> QED  BY <1>1, <1>3, <1>4, <2>1, <2>2, <2>3, <2>4, <2>7, LeaveGroups
<1> QED  BY <1>2, <1>4, <1>6, <1>7, AgainFrom DEF Counters

\* LeaveParent keeps the invariant.
LEMMA LeaveParentAgain ==
    ASSUME NEW W, NEW K, NEW R, NEW H, NEW O, NEW B, NEW C, Inv(W, K, R, H, O, B, C), NEW t \in Tasks, LeaveParent(t)
    PROVE  Again
<1>1. Shape(W, K) /\ Incs(W) /\ Groups(W, H, O)  BY InvParts DEF Counters
<1>p. PICK p : p = td[t].parent  OBVIOUS
<1>2. /\ Shape(W, K)' /\ W[t] \in {"queue", "bottom"} /\ Kind(t) = "proxy" /\ Advanced(t, "parent", "child")
      /\ Incd(p, td[p].inc - 1)
  BY <1>1, <1>p, LeaveParentShape
<1>3. prog' = prog /\ stack' = stack /\ deque' = deque /\ groups' = groups /\ hash' = hash /\ node' = node  BY DEF LeaveParent
<1>4. /\ Kids(W, K)' /\ Dependences(W, R, B, C)' /\ Present(W, K)'
      /\ KeepsAbsent(W, W) /\ ParentTd /\ GroupTd /\ IncIs(p, td[p].inc - 1) /\ \A h \in Frames' : h \in Frames
  BY <1>2, <1>3, ProxyRest
<1>5. proxy[t] = "parent" /\ proxy'[t] = "child" /\ \A s \in Tasks : s # t => proxy'[s] = proxy[s]
  BY <1>1, <1>2, AdvancedFacts
<1>6. Incs(W)'
  <2>1. Waited(t, W[t]) /\ ~Waited(t, W[t])'  BY <1>2, <1>3, <1>5 DEF Waited, Kind
  <2>2. \A c \in Tasks : c # t => (Waited(c, W[c])' <=> Waited(c, W[c]))  BY <1>3, <1>5 DEF Waited, Kind
  <2>3. \A d \in Descriptors : Image(d)' = Image(d)  BY <1>5 DEF Image
  <2> QED  BY <1>1, <1>4, <1>p, <2>1, <2>2, <2>3, LeaveIncs
<1>7. Groups(W, H, O)'
  <2>1. \A c \in Tasks : Belongs(c, W[c])' <=> Belongs(c, W[c])  BY <1>2, <1>3, <1>5 DEF Belongs, Kind
  <2> QED  BY <1>1, <1>3, <1>4, <2>1, GroupsSame
<1> QED  BY <1>2, <1>4, <1>6, <1>7, AgainFrom DEF Counters

\* Forget keeps the invariant.
LEMMA ForgetAgain ==
    ASSUME NEW W, NEW K, NEW R, NEW H, NEW O, NEW B, NEW C, Inv(W, K, R, H, O, B, C), NEW t \in Tasks, Forget(t)
    PROVE  Again
<1>1. Shape(W, K) /\ Incs(W) /\ Groups(W, H, O)  BY InvParts DEF Counters
<1>2. /\ Shape(W, K)' /\ W[t] \in {"queue", "bottom"} /\ Kind(t) = "proxy" /\ Advanced(t, "child", "done")
      /\ Incd(t, td[t].inc - 1)
  BY <1>1, ForgetShape
<1>3. prog' = prog /\ stack' = stack /\ deque' = deque /\ groups' = groups /\ hash' = hash /\ node' = node  BY DEF Forget
<1>4. /\ Kids(W, K)' /\ Dependences(W, R, B, C)' /\ Present(W, K)'
      /\ KeepsAbsent(W, W) /\ ParentTd /\ GroupTd /\ IncIs(t, td[t].inc - 1) /\ \A h \in Frames' : h \in Frames
  BY <1>2, <1>3, ProxyRest
<1>5. proxy[t] = "child" /\ proxy'[t] = "done" /\ \A s \in Tasks : s # t => proxy'[s] = proxy[s]
  BY <1>1, <1>2, AdvancedFacts
<1>6. Incs(W)'
  <2>1. \A c \in Tasks : Waited(c, W[c])' <=> Waited(c, W[c])  BY <1>2, <1>3, <1>5 DEF Waited, Kind
  <2>2. \A d \in Descriptors : d # t => Image(d)' = Image(d)  BY <1>5 DEF Image
  <2>3. Image(t) = 1 /\ Image(t)' = 0  BY <1>5 DEF Image
  <2> QED  BY <1>1, <1>4, <2>1, <2>2, <2>3, ImageIncs
<1>7. Groups(W, H, O)'
  <2>1. \A c \in Tasks : Belongs(c, W[c])' <=> Belongs(c, W[c])  BY <1>2, <1>3, <1>5 DEF Belongs, Kind
  <2> QED  BY <1>1, <1>3, <1>4, <2>1, GroupsSame
<1> QED  BY <1>2, <1>4, <1>6, <1>7, AgainFrom DEF Counters

\* Free keeps the invariant.
LEMMA FreeAgain ==
    ASSUME NEW W, NEW K, NEW R, NEW H, NEW O, NEW B, NEW C, Inv(W, K, R, H, O, B, C), NEW th \in Threads, Free(th)
    PROVE  Again
<1>f. PICK f : f = Top(th)  OBVIOUS
<1>1. Shape(W, K) /\ Counters(W, K, H, O) /\ Dependences(W, R, B, C) /\ Present(W, K) /\ W \in [Tasks -> Places]
      /\ K \in [Tasks -> Tasks \union {None}]
  BY InvParts DEF Shape
<1>0. Kids(W, K) /\ Incs(W) /\ Groups(W, H, O)  BY <1>1 DEF Counters
<1>q. PICK q : q = IF td[f.x].kids = 1 /\ td[f.x].parent \in Tasks THEN td[f.x].parent ELSE None  OBVIOUS
<1>w. PICK W2 : W2 = [W EXCEPT ![f.task] = "gone"]  OBVIOUS
<1>k. PICK K2 : K2 = [K EXCEPT ![f.task] = q]  OBVIOUS
<1>e. FreePlaces(W, K, f, W2, K2)  BY <1>q, <1>w, <1>k DEF FreePlaces
<1>2. /\ Shape(W2, K2)' /\ FreedFacts(f.x) /\ f.task \in Tasks /\ f.x \in Tasks /\ f.pc = "free" /\ W[f.x] # "absent"
      /\ IF W[f.task] = "gone" THEN K[f.task] = f.x ELSE W[f.task] = "free" /\ f.x = f.task
      /\ IF td[f.x].kids = 1 /\ td[f.x].parent \in Tasks
         THEN \E g : SetTop(th, g) /\ g \in FrameRecords /\ g.task = f.task /\ g.ip = f.ip /\ g.pc = "free"
         ELSE stack' = [stack EXCEPT ![th] = Front(@)]
  BY <1>1, <1>f, <1>e, FreeShape
<1>3. prog' = prog /\ deque' = deque /\ groups' = groups /\ hash' = hash /\ node' = node /\ proxy' = proxy  BY DEF Free
<1>4. ParentTd /\ IncTd /\ GroupTd /\ NodeTd  BY <1>2 DEF FreedFacts, ParentTd, IncTd, GroupTd, NodeTd
<1>5. /\ W2[f.task] = "gone" /\ K2[f.task] = q /\ W[f.task] \in {"free", "gone"}
      /\ \A s \in Tasks : s # f.task => W2[s] = W[s] /\ K2[s] = K[s]
  BY <1>1, <1>2, <1>w, <1>k
<1>6. KeepsAbsent(W, W2) /\ SameRank(W, W2) /\ \A d \in Tasks : W[d] \in Hashing => W2[d] \in Hashing
  BY <1>5 DEF KeepsAbsent, SameRank, Hashing
<1>7. Kids(W2, K2)'  BY <1>0, <1>1, <1>2, <1>e, FreeKids
<1>8. Incs(W2)'
  <2>1. \A c \in Tasks : Waited(c, W2[c])' <=> Waited(c, W[c])  BY <1>3, <1>5 DEF Waited, Kind, Late
  <2> QED  BY <1>0, <1>3, <1>4, <1>6, <2>1, Images, IncsSame
<1>9. /\ \A h \in Frames' : h \in Frames \/ GroupsF(h, O)'
      /\ \A h \in Frames' : h \in Frames \/ Aside(h, R)
      /\ Present(W2, K2)'
  <2>1. CASE td[f.x].kids = 1 /\ td[f.x].parent \in Tasks
    <3>g. PICK g : SetTop(th, g) /\ g \in FrameRecords /\ g.task = f.task /\ g.ip = f.ip /\ g.pc = "free"  BY <1>2, <2>1
    <3>1. Remade(f, {g})  BY <1>1, <1>f, <3>g, SetFrames
    <3>2. \A h \in Frames' : h \in Frames \/ GroupsF(h, O)'  BY <1>0, <1>1, <1>f, <1>3, <3>g, SameSpot
    <3>3. \A h \in Frames' : h \in Frames \/ Aside(h, R)  BY <3>g, <3>1 DEF Remade, Aside
    <3>4. Only(f)  BY <1>2, OnlyOwn DEF Creating
    <3>5. f.task \in Tasks => W2[f.task] \notin Makers \union {"queue"}  BY <1>5 DEF Makers
    <3>6. Present(W2, K2)'  BY <1>1, <1>3, <1>5, <3>g, <3>1, <3>4, <3>5, PresentOwn
    <3> QED  BY <3>2, <3>3, <3>6
  <2>2. CASE ~(td[f.x].kids = 1 /\ td[f.x].parent \in Tasks)
    <3>1. stack' = [stack EXCEPT ![th] = Front(@)] /\ q = None  BY <1>2, <1>q, <2>2
    <3>2. Remade(f, {})  BY <1>1, <1>f, <3>1, PoppedFrames
    <3>3. \A h \in Frames' : h \in Frames  BY <3>2 DEF Remade
    <3>4. ~\E t \in Tasks : Holds(f, t) /\ t # f.task  BY <1>2, OnlyOwn DEF Creating, Only
    <3>5. HeldBy({}, f.task, W2[f.task], K2[f.task])'  BY <1>5, <3>1 DEF HeldBy, Running
    <3>6. \A t \in Tasks : W2[t] = "queue" => InDeque(t)'
      <4>1. \A t \in Tasks : W2[t] = "queue" => W[t] = "queue"  BY <1>5
      <4> QED  BY <1>1, <1>3, <4>1, DequeSame
    <3>7. Present(W2, K2)'  BY <1>1, <1>3, <1>5, <3>2, <3>4, <3>5, <3>6, PresentStep
    <3> QED  BY <3>3, <3>7
  <2> QED  BY <2>1, <2>2
<1>10. Groups(W2, H, O)'
  <2>1. \A c \in Tasks : Belongs(c, W2[c])' <=> Belongs(c, W[c])  BY <1>3, <1>5 DEF Belongs, Kind, Late
  <2>2. \A t \in Tasks : W[t] = "body" => W2[t] = "body" \/ O[t] = <<>>  BY <1>5
  <2> QED  BY <1>0, <1>3, <1>4, <1>6, <1>9, <2>1, <2>2, GroupsSame
<1>11. Dependences(W2, R, B, C)'  BY <1>1, <1>3, <1>4, <1>6, <1>9, DependencesSame
<1> QED  BY <1>2, <1>7, <1>8, <1>9, <1>10, <1>11, AgainFrom DEF Counters
=============================================================================
