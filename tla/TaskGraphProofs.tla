--------------------------- MODULE TaskGraphProofs ---------------------------
(***************************************************************************)
(* The safety of the task graph, for any program, any number of threads and   *)
(* any deque size, without the windows of Races.  The steps of dependences,   *)
(* the first states, the invariant, and what follows from it.                 *)
(***************************************************************************)
EXTENDS TaskGraphSteps, WellFoundedInduction

----------------------------------------------------------------------------
(* Steps that move one task among the stages of its making or of its end. *)

Makings == {"linking", "depwait", "ready", "blocked", "push"}
Endings == {"release", "succ", "told", "free"}
\* Places among which the counters do not tell.
SamePhase(W, W2) ==
    \A t \in Tasks : W2[t] = W[t] \/ (W[t] \in Makings /\ W2[t] \in Makings) \/ (W[t] \in Endings /\ W2[t] \in Endings)

\* A step of one frame that only concerns the dependences.
LEMMA CountersRest ==
    ASSUME NEW W, NEW K, Shape(W, K), NEW H, NEW O, Counters(W, K, H, O), NEW W2, SamePhase(W, W2), SameTd,
           prog' = prog, proxy' = proxy, groups' = groups,
           NEW th \in Threads, NEW f, f = Top(th), NEW g \in FrameRecords, SetTop(th, g), g.task = f.task, g.ip = f.ip
    PROVE  Counters(W2, K, H, O)' /\ KeepsAbsent(W, W2) /\ ParentTd /\ NodeTd
<1>1. Kids(W, K) /\ Incs(W) /\ Groups(W, H, O)  BY DEF Counters
<1>2. ParentTd /\ KidsTd /\ IncTd /\ GroupTd /\ NodeTd  BY SameTdQuiet DEF QuietTd
<1>3. KeepsAbsent(W, W2) /\ KeepsGone(W, W2)  BY DEF SamePhase, Makings, Endings, KeepsAbsent, KeepsGone
<1>4. Kids(W2, K)'  BY <1>1, <1>2, <1>3, KidsSame
<1>5. \A t \in Tasks : (Waited(t, W2[t])' <=> Waited(t, W[t])) /\ (Belongs(t, W2[t])' <=> Belongs(t, W[t]))
  BY DEF Waited, Belongs, Kind, SamePhase, Makings, Endings, Late
<1>6. Incs(W2)'  BY <1>1, <1>2, <1>3, <1>5, Images, IncsSame
<1>7. \A t \in Tasks : W[t] = "body" => W2[t] = "body" \/ O[t] = <<>>  BY DEF SamePhase, Makings, Endings
<1>8. \A h \in Frames' : h \in Frames \/ GroupsF(h, O)'  BY <1>1, SameSpot
<1>9. Groups(W2, H, O)'  BY <1>1, <1>2, <1>3, <1>5, <1>7, <1>8, GroupsSame
<1> QED  BY <1>2, <1>3, <1>4, <1>6, <1>9 DEF Counters

NodeKeeps(t) ==
    /\ node'[t].npred = node[t].npred /\ node'[t].succ = node[t].succ
    /\ node'[t].state = "absent" <=> node[t].state = "absent"

\* The predecessors of a task that stays.
LEMMA PredsTStay ==
    ASSUME NEW W, NEW W2, NEW R, NEW t \in Tasks, PredsT(t, W, R), W2[t] = W[t], Untold(W2, R, t) = Untold(W, R, t), NodeKeeps(t)
    PROVE  PredsT(t, W2, R)'
BY DEF PredsT, Tracked, NodeKeeps

UsesStay(W, W2, t) ==
    /\ W2[t] \in {"free", "gone"} <=> W[t] \in {"free", "gone"}
    /\ Kind(t) = "if0" => (W2[t] \in {"linking", "depwait"} <=> W[t] \in {"linking", "depwait"})

\* The references of a node that stays, its task's phase too.
LEMMA NodesTStay ==
    ASSUME NEW W, NEW W2, NEW R, NEW t \in Tasks, UsesStay(W, W2, t), NodesT(t, W, R), prog' = prog,
           node'[t].state = node[t].state, node'[t].nrefs = node[t].nrefs, ParentUses(t)' = ParentUses(t)
    PROVE  NodesT(t, W2, R)'
BY DEF NodesT, UsesStay, SelfUse, Kind

\* The owners when hashes only go.
LEMMA HashOwnersStep ==
    ASSUME NEW W, HashOwners(W), NEW W2,
           \A d \in Descriptors : hash'[d] # Null => hash[d] # Null /\ (d \in Tasks /\ W[d] \in Hashing => W2[d] \in Hashing),
           \A h \in Frames' : h \in Frames \/ h.pc # "barrier" \/ hash'[h.task] = Null
    PROVE  HashOwners(W2)'
<1> SUFFICES ASSUME NEW d \in Descriptors, hash'[d] # Null
             PROVE  IF d \in Threads THEN \A f \in Frames' : f.task = d => f.pc # "barrier"
                    ELSE W2[d] \in {"body", "group", "release"}
  BY DEF HashOwners
<1>1. hash[d] # Null /\ (d \in Tasks /\ W[d] \in Hashing => W2[d] \in Hashing)  OBVIOUS
<1>2. CASE d \in Threads  BY <1>1, <1>2 DEF HashOwners
<1>3. CASE d \notin Threads
  <2>1. d \in Tasks /\ W[d] \in Hashing  BY <1>1, <1>3 DEF HashOwners, Hashing, Descriptors
  <2> QED  BY <1>1, <1>3, <2>1 DEF Hashing
<1> QED  BY <1>2, <1>3

\* The rest of the dependences when only one frame and the nodes change.
LEMMA OrderRest ==
    ASSUME NEW W, NEW R, NEW B, NEW C, Order(W, R, B, C), NEW W2, KeepsAbsent(W, W2), ParentTd,
           NEW f, NEW g, Remade(f, {g}), g.pc # "link"
    PROVE  Order(W2, R, B, C)'
<1>1. \A h \in Frames' : h \in Frames \/ OrderF(h, W2, B)'  BY DEF Remade, OrderF
<1> QED  BY <1>1, OrderSame

\* The dependences by their parts.
LEMMA FinishesFrom ==
    ASSUME NEW W, NEW K, NEW R, NEW H, NEW O, NEW B, NEW C, NEW W2, Dependences(W, R, B, C)
    PROVE  Preds(W, R) /\ Nodes(W, R) /\ Order(W, R, B, C) /\ HashOwners(W)
BY DEF Dependences

\* The untold uses are finitely many.
LEMMA UntoldType ==
    ASSUME NEW W, NEW R, NEW t \in Tasks, PredsT(t, W, R)
    PROVE  /\ IsFiniteSet(Untold(W, R, t)) /\ Cardinality(Untold(W, R, t)) \in Nat
           /\ Untold(W, R, t) = {} <=> Cardinality(Untold(W, R, t)) = 0
           /\ IsFiniteSet(SuccUses(R, t)) /\ Cardinality(SuccUses(R, t)) \in Nat
           /\ SuccUses(R, t) = {} <=> Cardinality(SuccUses(R, t)) = 0
<1>1. IsFiniteSet(SuccUses(R, t))  BY DEF PredsT
<1>2. Untold(W, R, t) \subseteq SuccUses(R, t)  BY DEF Untold
<1>3. IsFiniteSet(Untold(W, R, t))  BY <1>1, <1>2, FS_Subset
<1> QED  BY <1>1, <1>3, FS_CardinalityType, FS_EmptySet

----------------------------------------------------------------------------
(* DepsMet keeps the invariant. *)

\* A step of a frame that goes on creating its task.
LEMMA PresentMaker ==
    ASSUME NEW W, NEW K, Shape(W, K), Present(W, K), NEW th \in Threads, NEW f, f = Top(th), f.pc \in Creating,
           NEW g \in FrameRecords, SetTop(th, g), g.task = f.task, g.x = f.x,
           NEW W2, \A s \in Tasks : s # f.x => W2[s] = W[s], W2[f.x] \in {"linking", "depwait", "ready", "blocked"},
           W2[f.x] # "blocked" => g.pc \in Creating, deque' = deque, prog' = prog
    PROVE  Present(W2, K)'
<1>1. Remade(f, {g})  BY SetFrames
<1>2. f.x \in Tasks /\ W[f.x] \in {"linking", "depwait", "ready"} /\ (f.task \in Tasks => W[f.task] = "body")
  BY TaskFrame DEF Making, Bodily
<1>3. K[f.x] = None  BY <1>2, NoClimb
<1>4. ASSUME NEW t \in Tasks
      PROVE  (W2[t] = W[t] /\ K[t] = K[t] /\ ~Holds(f, t)) \/ HeldBy({g}, t, W2[t], K[t])'
  <2>1. CASE t = f.x
    <3>1. W2[t] # "blocked" => Makes(g, t)'  BY <2>1 DEF Makes
    <3> QED  BY <1>3, <2>1, <3>1 DEF HeldBy, Running
  <2>2. CASE t # f.x /\ t = f.task
    <3>1. W2[t] = "body"  BY <1>2, <2>2
    <3> QED  BY <2>2, <3>1 DEF HeldBy
  <2>3. CASE t # f.x /\ t # f.task
    <3>1. ~Holds(f, t)  BY <2>3 DEF Holds, Makes, Pushes, Creating
    <3> QED  BY <2>3, <3>1
  <2> QED  BY <2>1, <2>2, <2>3
<1>5. \A t \in Tasks : W2[t] = "queue" => InDeque(t)'
  <2>1. \A t \in Tasks : W2[t] = "queue" => W[t] = "queue"  OBVIOUS
  <2> QED  BY <2>1, DequeSame
<1> QED  BY <1>1, <1>4, <1>5, PresentStep

StateSet(r, v) == [r EXCEPT !.state = v]

\* Writing the state of a node.
LEMMA StateSets ==
    ASSUME NEW r \in DepnodeRecords, NEW v \in States
    PROVE  LET q == StateSet(r, v)
           IN  q \in DepnodeRecords /\ q.state = v /\ q.task = r.task /\ q.npred = r.npred /\ q.nrefs = r.nrefs /\ q.succ = r.succ
BY DEF DepnodeRecords, StateSet

\* Freeing one node.
LEMMA StateWrites ==
    ASSUME node \in [Tasks -> DepnodeRecords], NEW x \in Tasks, node' = [node EXCEPT ![x].state = "freed"]
    PROVE  /\ node'[x].state = "freed" /\ node'[x].npred = node[x].npred /\ node'[x].nrefs = node[x].nrefs
           /\ node'[x].succ = node[x].succ /\ \A t \in Tasks : t # x => node'[t] = node[t]
<1>1. node' = [node EXCEPT ![x] = StateSet(node[x], "freed")]  BY DEF StateSet
<1>2. node'[x] = StateSet(node[x], "freed") /\ \A t \in Tasks : t # x => node'[t] = node[t]  BY <1>1
<1>3. node[x] \in DepnodeRecords /\ "freed" \in States  BY DEF States
<1> QED  BY <1>2, <1>3, StateSets

\* DepsMet keeps the invariant when the task waits for the last telling to end.
LEMMA DepsMetAgain ==
    ASSUME Races = {}, NEW W, NEW K, NEW R, NEW H, NEW O, NEW B, NEW C, Inv(W, K, R, H, O, B, C), NEW th \in Threads, DepsMet(th)
    PROVE  Again
<1>f. PICK f : f = Top(th)  OBVIOUS
<1>1. Shape(W, K) /\ Counters(W, K, H, O) /\ Dependences(W, R, B, C) /\ Present(W, K) /\ W \in [Tasks -> Places]
  BY InvParts DEF Shape
<1>a. Preds(W, R) /\ Nodes(W, R) /\ Order(W, R, B, C) /\ HashOwners(W)  BY <1>1 DEF Dependences
<1>x. PICK x : x = f.x  OBVIOUS
<1>w. PICK W2 : Moved(W, W2, x, "ready")  BY DEF Moved
<1>2. Shape(W2, K)' /\ x \in Tasks /\ W[x] = "depwait" /\ Kind(x) = "if0" /\ f.pc = "depwait"
  BY <1>1, <1>f, <1>x, <1>w, DepsMetShape DEF Moved
<1>3. prog' = prog /\ deque' = deque /\ td' = td /\ groups' = groups /\ hash' = hash /\ proxy' = proxy  BY DEF DepsMet
<1>0. f \in FrameRecords  BY <1>1, <1>f, TopFacts
<1>g. PICK g : Turn(f, g, "begin")  BY <1>0, Turned DEF Pcs, Bodily, Creating
<1>s. SetTop(th, g) /\ g \in FrameRecords /\ g.task = f.task /\ g.ip = f.ip /\ g.x = f.x /\ g.pc = "begin"
  BY <1>f, <1>g DEF DepsMet, Goto, Turn
<1>r. Remade(f, {g})  BY <1>1, <1>f, <1>s, SetFrames
<1>8. W2[x] = "ready" /\ \A s \in Tasks : s # x => W2[s] = W[s]  BY <1>1, <1>2, <1>w, MovedFacts
<1>4. SameTd  BY <1>1, <1>3, TdUnchanged DEF Shape, Types, DataTypes
<1>5. Counters(W2, K, H, O)' /\ KeepsAbsent(W, W2) /\ ParentTd /\ NodeTd
  <2>1. SamePhase(W, W2)  BY <1>2, <1>8 DEF SamePhase, Makings
  <2> QED  BY <1>1, <1>f, <1>s, <1>3, <1>4, <2>1, CountersRest
<1>6. Present(W2, K)'
  <2>1. \A s \in Tasks : s # f.x => W2[s] = W[s]  BY <1>8, <1>x
  <2>2. W2[f.x] = "ready" /\ f.pc \in Creating /\ g.pc \in Creating  BY <1>2, <1>8, <1>s, <1>x DEF Creating
  <2> QED  BY <1>1, <1>f, <1>s, <1>3, <2>1, <2>2, PresentMaker
<1>n. /\ node'[x].state = "freed" /\ node'[x].npred = node[x].npred /\ node'[x].nrefs = node[x].nrefs
      /\ node'[x].succ = node[x].succ /\ \A t \in Tasks : t # x => node'[t] = node[t]
  <2>1. node \in [Tasks -> DepnodeRecords]  BY <1>1 DEF Shape, Types, DataTypes
  <2>2. node' = [node EXCEPT ![x].state = "freed"]  BY <1>f, <1>x DEF DepsMet
  <2> QED  BY <1>2, <2>1, <2>2, StateWrites
<1>b. node[x].state # "absent" /\ node[x].npred \in Int /\ node[x].nrefs = 1 /\ node[x].npred <= 0
  <2>1. TaskOK(x, "depwait")  BY <1>1, <1>2 DEF Shape
  <2>2. node[x] \in DepnodeRecords  BY <1>1, <1>2 DEF Shape, Types, DataTypes
  <2>3. node[x].nrefs = 1 /\ node[x].npred <= 0  BY <1>f, <1>x DEF DepsMet, Unpinned
  <2> QED  BY <2>1, <2>2, <2>3 DEF TaskOK, DepnodeRecords
<1>p. PredsT(x, W, R)  BY <1>2, <1>a DEF Preds
<1>c. Untold(W, R, x) = {}
  <2>1. Tracked(W, x)  BY <1>2, <1>b DEF Tracked
  <2>2. node[x].npred = Cardinality(Untold(W, R, x))  BY <1>p, <2>1 DEF PredsT
  <2>3. Cardinality(Untold(W, R, x)) \in Nat  BY <1>2, <1>p, UntoldType
  <2>4. Cardinality(Untold(W, R, x)) = 0  BY <1>b, <2>2, <2>3
  <2> QED  BY <1>2, <1>p, <2>4, UntoldType
<1>d. SuccUses(R, x) = {}
  <2>1. NodesT(x, W, R)  BY <1>2, <1>a DEF Nodes
  <2>2. 1 = 1 + Cardinality(SuccUses(R, x)) + Cardinality(ParentUses(x))  BY <1>2, <1>b, <2>1 DEF NodesT, SelfUse
  <2>3. Cardinality(SuccUses(R, x)) \in Nat  BY <1>2, <1>p, UntoldType
  <2>4. Cardinality(ParentUses(x)) \in Nat
    <3>1. td[x].parent \in Descriptors  BY <1>1, <1>2, ParentFacts
    <3>2. hash[td[x].parent] \in [Addrs -> Entries] \union {Null}  BY <1>1, <3>1 DEF Shape, Types, DataTypes
    <3>3. CASE hash[td[x].parent] = Null  BY <3>3, FS_EmptySet DEF ParentUses
    <3>4. CASE hash[td[x].parent] # Null  BY <3>2, <3>4, HashUsesFinite DEF ParentUses
    <3> QED  BY <3>3, <3>4
  <2>5. Cardinality(SuccUses(R, x)) = 0  BY <2>2, <2>3, <2>4
  <2> QED  BY <1>2, <1>p, <2>5, UntoldType
<1>e. \A t : Untold(W2, R, t) = Untold(W, R, t)
  <2>1. \A p \in Tasks : W2[p] = "told" <=> W[p] = "told"  BY <1>2, <1>8
  <2> QED  BY <2>1, UntoldSame
<1>9. Preds(W2, R)'
  <2>1. ASSUME NEW t \in Tasks PROVE PredsT(t, W2, R)'
    <3>0. PredsT(t, W, R)  BY <1>a DEF Preds
    <3>1. CASE t # x
      <4>1. NodeKeeps(t)  BY <1>n, <3>1 DEF NodeKeeps
      <4> QED  BY <1>8, <1>e, <3>0, <3>1, <4>1, PredsTStay
    <3>2. CASE t = x
      <4>1. Untold(W2, R, x) = {}  BY <1>c, <1>e
      <4>2. node'[x].npred = Cardinality(Untold(W2, R, x))
        <5>1. node[x].npred = Cardinality(Untold(W, R, x))  BY <1>2, <1>b, <1>p DEF PredsT, Tracked
        <5> QED  BY <1>n, <1>e, <5>1
      <4>3. Mirror(node'[x].succ, R[x])  BY <1>2, <1>n, <1>p DEF PredsT
      <4>4. IsFiniteSet(SuccUses(R, x))  BY <1>p DEF PredsT
      <4> QED  BY <1>8, <3>2, <4>1, <4>2, <4>3, <4>4 DEF PredsT
    <3> QED  BY <3>1, <3>2
  <2>2. ASSUME NEW h \in Frames' PROVE PredsF(h, W2, R)'
    <3>1. CASE h = g  BY <1>s, <3>1 DEF PredsF
    <3>2. CASE h # g
      <4>1. h \in Frames /\ ~Holds(h, x)
        <5>1. Holds(f, x)  BY <1>2, <1>x DEF Holds, Makes, Creating
        <5> QED  BY <1>1, <1>2, <1>r, <3>2, <5>1, Others
      <4>2. PredsF(h, W, R)  BY <1>a, <4>1 DEF Preds
      <4>3. h.pc \in {"link", "count"} => h.x \in Tasks /\ h.x # x
        <5>1. LocalOK(h)  BY <1>1, <4>1, FrameFacts
        <5> QED  BY <4>1, <5>1 DEF LocalOK, Holds, Makes, Creating
      <4>4. \A p \in Tasks : W2[p] = "told" <=> W[p] = "told"  BY <1>2, <1>8
      <4>5. h.pc \in {"link", "count"} => node'[h.x].npred = node[h.x].npred  BY <1>n, <4>3
      <4> QED  BY <4>2, <4>4, <4>5, PredsFSame
    <3> QED  BY <3>1, <3>2
  <2> QED  BY <1>a, <2>1, <2>2 DEF Preds
<1>10. Nodes(W2, R)'
  <2>1. ASSUME NEW t \in Tasks PROVE NodesT(t, W2, R)'
    <3>0. NodesT(t, W, R) /\ ParentUses(t)' = ParentUses(t)  BY <1>a, <1>3, <1>5, ParentUsesSame DEF Nodes
    <3>1. CASE t # x
      <4>1. UsesStay(W, W2, t)  BY <1>8, <3>1 DEF UsesStay
      <4> QED  BY <1>3, <1>n, <3>0, <3>1, <4>1, NodesTStay
    <3>2. CASE t = x
      <4>1. SelfUse(W2, x)' = SelfUse(W, x)  BY <1>2, <1>3, <1>8 DEF SelfUse, Kind
      <4>2. Kind(x)' = "if0"  BY <1>2, <1>3 DEF Kind
      <4> QED  BY <1>2, <1>8, <1>b, <1>d, <1>n, <3>0, <3>2, <4>1, <4>2 DEF NodesT
    <3> QED  BY <3>1, <3>2
  <2>2. \A d \in Descriptors : NodesD(d)'  BY <1>a, <1>3, <1>5, NodesDSame DEF Nodes
  <2>3. ASSUME NEW h \in Frames' PROVE NodesF(h)'
    <3>1. CASE h = g  BY <1>s, <3>1 DEF NodesF
    <3>2. CASE h # g
      <4>1. NodesF(h)  BY <1>a, <1>r, <3>2 DEF Nodes, Remade
      <4> QED  BY <1>3, <4>1, NodesFSame
    <3> QED  BY <3>1, <3>2
  <2> QED  BY <2>1, <2>2, <2>3 DEF Nodes
<1>11. Order(W2, R, B, C)'  BY <1>a, <1>5, <1>r, <1>s, OrderRest
<1>12. HashOwners(W2)'
  <2>1. \A d \in Tasks : W[d] \in Hashing => W2[d] \in Hashing  BY <1>2, <1>8 DEF Hashing
  <2>2. \A h \in Frames' : h \in Frames \/ h.pc # "barrier"  BY <1>r, <1>s DEF Remade
  <2> QED  BY <1>a, <1>3, <2>1, <2>2, HashOwnersStep
<1> QED  BY <1>2, <1>5, <1>6, <1>9, <1>10, <1>11, <1>12, AgainFrom DEF Dependences

----------------------------------------------------------------------------
(* Count keeps the invariant. *)

\* The uses in the parent's hash are finitely many.
LEMMA ParentUsesType ==
    ASSUME NEW W, NEW K, Shape(W, K), NEW t \in Tasks, W[t] # "absent"
    PROVE  IsFiniteSet(ParentUses(t)) /\ Cardinality(ParentUses(t)) \in Nat
<1>1. td[t].parent \in Descriptors  BY ParentFacts
<1>2. hash[td[t].parent] \in [Addrs -> Entries] \union {Null}  BY <1>1 DEF Shape, Types, DataTypes
<1>3. CASE hash[td[t].parent] = Null  BY <1>3, FS_EmptySet DEF ParentUses
<1>4. CASE hash[td[t].parent] # Null  BY <1>2, <1>4, HashUsesFinite DEF ParentUses
<1> QED  BY <1>3, <1>4

CountWrites(r, v, b) == [r EXCEPT !.npred = v, !.task = b]

\* Writing the count of predecessors and the task of a node.
LEMMA CountWritten ==
    ASSUME NEW r \in DepnodeRecords, NEW v \in Int, NEW b \in BOOLEAN
    PROVE  LET q == CountWrites(r, v, b)
           IN  q \in DepnodeRecords /\ q.state = r.state /\ q.task = b /\ q.npred = v /\ q.nrefs = r.nrefs /\ q.succ = r.succ
BY DEF DepnodeRecords, CountWrites

\* What Count writes.
LEMMA CountNode ==
    ASSUME NEW W, NEW K, Shape(W, K), NEW th \in Threads, NEW f, f = Top(th), Count(th), NEW x \in Tasks, x = f.x
    PROVE  /\ node'[x].npred = node[x].npred + f.n + 1 /\ node'[x].state = node[x].state /\ node'[x].nrefs = node[x].nrefs
           /\ node'[x].succ = node[x].succ /\ \A t \in Tasks : t # x => node'[t] = node[t]
<1>1. f \in FrameRecords /\ node \in [Tasks -> DepnodeRecords]  BY TopFacts DEF Shape, Types, DataTypes
<1>2. node[x] \in DepnodeRecords /\ node[x].npred + f.n + 1 \in Int  BY <1>1 DEF DepnodeRecords, FrameRecords
<1>v. PICK v \in Int : v = node[x].npred + f.n + 1  BY <1>2
<1>b. PICK b \in BOOLEAN : b = ~(Kind(x) = "if0")  OBVIOUS
<1>q. PICK q : q = CountWrites(node[x], v, b)  OBVIOUS
<1>3. node' = [node EXCEPT ![x] = q]
  <2>1. node' = [node EXCEPT ![x].npred = @ + f.n + 1, ![x].task = ~(Kind(x) = "if0")]  BY DEF Count
  <2> QED  BY <1>v, <1>b, <1>q, <2>1 DEF CountWrites
<1>4. node'[x] = q /\ \A t \in Tasks : t # x => node'[t] = node[t]  BY <1>1, <1>3
<1>5. q.state = node[x].state /\ q.npred = v /\ q.nrefs = node[x].nrefs /\ q.succ = node[x].succ
  BY <1>2, <1>q, CountWritten
<1> QED  BY <1>4, <1>5, <1>v

\* Counting adds the predecessors linked and takes away the one counted in advance.
LEMMA CountSums == \A m, n \in Nat, k \in Int : k = m - 1 - n => k + n + 1 = m
OBVIOUS
CountGoes(x, m) == IF Kind(x) = "if0" THEN "depwait" ELSE IF m > 0 THEN "body" ELSE "submit"
CountPlace(x, m) == IF Kind(x) = "if0" THEN "depwait" ELSE IF m > 0 THEN "blocked" ELSE "ready"

\* Count keeps the invariant: a task with predecessors left is blocked.
LEMMA CountAgain ==
    ASSUME NEW W, NEW K, NEW R, NEW H, NEW O, NEW B, NEW C, Inv(W, K, R, H, O, B, C), NEW th \in Threads, Count(th)
    PROVE  Again
<1>f. PICK f : f = Top(th)  OBVIOUS
<1>1. Shape(W, K) /\ Counters(W, K, H, O) /\ Dependences(W, R, B, C) /\ Present(W, K) /\ W \in [Tasks -> Places]
  BY InvParts DEF Shape
<1>a. Preds(W, R) /\ Nodes(W, R) /\ Order(W, R, B, C) /\ HashOwners(W)  BY <1>1 DEF Dependences
<1>x. PICK x : x = f.x  OBVIOUS
<1>m. PICK m : m = node[x].npred + f.n + 1  OBVIOUS
<1>v. PICK w : w = CountPlace(x, m)  OBVIOUS
<1>w. PICK W2 : Moved(W, W2, x, w)  BY DEF Moved
<1>2. Shape(W2, K)' /\ x \in Tasks /\ W[x] = "linking"
  <2>1. w = (IF Kind(f.x) = "if0" THEN "depwait" ELSE IF node[f.x].npred + f.n + 1 > 0 THEN "blocked" ELSE "ready")
    BY <1>x, <1>m, <1>v DEF CountPlace
  <2>2. W2 = [W EXCEPT ![f.x] = w]  BY <1>x, <1>w DEF Moved
  <2> QED  BY <1>1, <1>f, <1>x, <2>1, <2>2, CountShape
<1>3. prog' = prog /\ deque' = deque /\ td' = td /\ groups' = groups /\ hash' = hash /\ proxy' = proxy  BY DEF Count
<1>0. f \in FrameRecords /\ f.pc = "count" /\ f \in Frames /\ f.n \in Nat  BY <1>1, <1>f, TopFacts, TopIn DEF Count, At, FrameRecords
<1>c. PICK pc : pc = CountGoes(x, m)  OBVIOUS
<1>d. /\ pc \in {"depwait", "body", "submit"} /\ w \in {"depwait", "blocked", "ready"}
      /\ w = "blocked" <=> Kind(x) # "if0" /\ m > 0
      /\ w = "depwait" <=> Kind(x) = "if0"
      /\ pc = "body" <=> w = "blocked"
  BY <1>c, <1>v DEF CountGoes, CountPlace
<1>g. PICK g : Turn(f, g, pc)  BY <1>0, <1>d, Turned DEF Pcs, Bodily, Creating
<1>s. SetTop(th, g) /\ g \in FrameRecords /\ g.task = f.task /\ g.ip = f.ip /\ g.x = f.x /\ g.pc = pc
  BY <1>f, <1>g, <1>c, <1>x, <1>m DEF Count, Goto, Turn, CountGoes
<1>r. Remade(f, {g})  BY <1>1, <1>f, <1>s, SetFrames
<1>8. W2[x] = w /\ \A s \in Tasks : s # x => W2[s] = W[s]  BY <1>1, <1>2, <1>w, MovedFacts
<1>4. SameTd  BY <1>1, <1>3, TdUnchanged DEF Shape, Types, DataTypes
<1>5. Counters(W2, K, H, O)' /\ KeepsAbsent(W, W2) /\ ParentTd /\ NodeTd
  <2>1. SamePhase(W, W2)  BY <1>2, <1>8, <1>d DEF SamePhase, Makings
  <2> QED  BY <1>1, <1>f, <1>s, <1>3, <1>4, <2>1, CountersRest
<1>6. Present(W2, K)'
  <2>1. \A s \in Tasks : s # f.x => W2[s] = W[s]  BY <1>8, <1>x
  <2>2. W2[f.x] = w /\ f.pc \in Creating /\ (w # "blocked" => g.pc \in Creating)  BY <1>0, <1>8, <1>s, <1>x, <1>d DEF Creating
  <2> QED  BY <1>1, <1>f, <1>s, <1>3, <1>d, <2>1, <2>2, PresentMaker
<1>n. /\ node'[x].npred = m /\ node'[x].state = node[x].state /\ node'[x].nrefs = node[x].nrefs
      /\ node'[x].succ = node[x].succ /\ \A t \in Tasks : t # x => node'[t] = node[t]
  BY <1>1, <1>2, <1>f, <1>x, <1>m, CountNode
<1>b. node[x].state # "absent" /\ node[x].npred \in Int
  <2>1. TaskOK(x, "linking")  BY <1>1, <1>2 DEF Shape
  <2>2. node[x] \in DepnodeRecords  BY <1>1, <1>2 DEF Shape, Types, DataTypes
  <2> QED  BY <2>1, <2>2 DEF TaskOK, DepnodeRecords
<1>p. PredsT(x, W, R)  BY <1>2, <1>a DEF Preds
<1>u. PICK u \in Nat : u = Cardinality(Untold(W, R, x))  BY <1>2, <1>p, UntoldType
<1>o. m = u
  <2>1. PredsF(f, W, R)  BY <1>0, <1>a DEF Preds
  <2>2. node[x].npred = u - 1 - f.n  BY <1>0, <1>x, <1>u, <2>1 DEF PredsF
  <2> QED  BY <1>0, <1>b, <1>m, <2>2, CountSums
<1>e. \A t : Untold(W2, R, t) = Untold(W, R, t)
  <2>1. \A p \in Tasks : W2[p] = "told" <=> W[p] = "told"  BY <1>2, <1>8, <1>d
  <2> QED  BY <2>1, UntoldSame
<1>9. Preds(W2, R)'
  <2>1. ASSUME NEW t \in Tasks PROVE PredsT(t, W2, R)'
    <3>0. PredsT(t, W, R)  BY <1>a DEF Preds
    <3>1. CASE t # x
      <4>1. NodeKeeps(t)  BY <1>n, <3>1 DEF NodeKeeps
      <4> QED  BY <1>8, <1>e, <3>0, <3>1, <4>1, PredsTStay
    <3>2. CASE t = x
      <4>1. Untold(W2, R, x) = Untold(W, R, x)  BY <1>e
      <4>2. node'[x].npred = Cardinality(Untold(W2, R, x))  BY <1>n, <1>o, <1>u, <4>1
      <4>3. Mirror(node'[x].succ, R[x])  BY <1>2, <1>n, <1>p DEF PredsT
      <4>4. IsFiniteSet(SuccUses(R, x))  BY <1>p DEF PredsT
      <4>5. Untold(W2, R, x) # {} <=> u > 0
        <5>1. Untold(W, R, x) = {} <=> u = 0  BY <1>2, <1>p, <1>u, UntoldType
        <5> QED  BY <4>1, <5>1
      <4>6. Untold(W2, R, x) # {} => W2[x] \in {"linking", "depwait", "blocked"}  BY <1>8, <1>d, <1>o, <4>5
      <4>7. W2[x] = "blocked" => Untold(W2, R, x) # {}  BY <1>8, <1>d, <1>o, <4>5
      <4> QED  BY <1>8, <1>d, <3>2, <4>2, <4>3, <4>4, <4>6, <4>7 DEF PredsT
    <3> QED  BY <3>1, <3>2
  <2>2. ASSUME NEW h \in Frames' PROVE PredsF(h, W2, R)'
    <3>1. CASE h = g  BY <1>s, <1>d, <3>1 DEF PredsF
    <3>2. CASE h # g
      <4>1. h \in Frames /\ ~Holds(h, x)
        <5>1. Holds(f, x)  BY <1>0, <1>x DEF Holds, Makes, Creating
        <5> QED  BY <1>1, <1>2, <1>r, <3>2, <5>1, Others
      <4>2. PredsF(h, W, R)  BY <1>a, <4>1 DEF Preds
      <4>3. h.pc \in {"link", "count"} => h.x \in Tasks /\ h.x # x
        <5>1. LocalOK(h)  BY <1>1, <4>1, FrameFacts
        <5> QED  BY <4>1, <5>1 DEF LocalOK, Holds, Makes, Creating
      <4>4. \A p \in Tasks : W2[p] = "told" <=> W[p] = "told"  BY <1>2, <1>8, <1>d
      <4>5. h.pc \in {"link", "count"} => node'[h.x].npred = node[h.x].npred  BY <1>n, <4>3
      <4> QED  BY <4>2, <4>4, <4>5, PredsFSame
    <3> QED  BY <3>1, <3>2
  <2> QED  BY <1>a, <2>1, <2>2 DEF Preds
<1>10. Nodes(W2, R)'
  <2>1. ASSUME NEW t \in Tasks PROVE NodesT(t, W2, R)'
    <3>0. NodesT(t, W, R) /\ ParentUses(t)' = ParentUses(t)  BY <1>a, <1>3, <1>5, ParentUsesSame DEF Nodes
    <3>1. UsesStay(W, W2, t)  BY <1>2, <1>8, <1>d DEF UsesStay
    <3>2. node'[t].state = node[t].state /\ node'[t].nrefs = node[t].nrefs  BY <1>n
    <3> QED  BY <1>3, <3>0, <3>1, <3>2, NodesTStay
  <2>2. \A d \in Descriptors : NodesD(d)'  BY <1>a, <1>3, <1>5, NodesDSame DEF Nodes
  <2>3. ASSUME NEW h \in Frames' PROVE NodesF(h)'
    <3>1. CASE h = g  BY <1>s, <1>d, <3>1 DEF NodesF
    <3>2. CASE h # g
      <4>1. NodesF(h)  BY <1>a, <1>r, <3>2 DEF Nodes, Remade
      <4> QED  BY <1>3, <4>1, NodesFSame
    <3> QED  BY <3>1, <3>2
  <2> QED  BY <2>1, <2>2, <2>3 DEF Nodes
<1>11. Order(W2, R, B, C)'
  <2>1. g.pc # "link"  BY <1>s, <1>d
  <2> QED  BY <1>a, <1>5, <1>r, <2>1, OrderRest
<1>12. HashOwners(W2)'
  <2>1. \A d \in Tasks : W[d] \in Hashing => W2[d] \in Hashing  BY <1>2, <1>8 DEF Hashing
  <2>2. \A h \in Frames' : h \in Frames \/ h.pc # "barrier"  BY <1>r, <1>s, <1>d DEF Remade
  <2> QED  BY <1>a, <1>3, <2>1, <2>2, HashOwnersStep
<1> QED  BY <1>2, <1>5, <1>6, <1>9, <1>10, <1>11, <1>12, AgainFrom DEF Dependences

----------------------------------------------------------------------------
(* Released keeps the invariant. *)

\* A list without successors left is empty.
LEMMA NothingListed ==
    ASSUME NEW r \in Seq(Tasks), Mirror(<<>>, r)
    PROVE  r = <<>>
<1>1. Len(r) = 0  BY DEF Mirror
<1> QED  BY <1>1, EmptySeq

\* One reference less, of the task itself.
LEMMA LastUse == \A s, p \in Nat : \A n \in Int : n = 1 + s + p => n - 1 = 0 + s + p /\ n # 0 /\ (n - 1 = 0 <=> n = 1)
OBVIOUS

\* The task lets go of its own node.
LEMMA SelfUseEnds ==
    ASSUME NEW W, NEW W2, NEW R, NEW t \in Tasks, NodesT(t, W, R), W[t] = "succ", W2[t] = "free",
           Cardinality(SuccUses(R, t)) \in Nat, Cardinality(ParentUses(t)) \in Nat, node[t] \in DepnodeRecords,
           Kind(t) # "if0", node[t].state # "absent", Derefed(node[t], 1, node'[t]), prog' = prog, ParentUses(t)' = ParentUses(t)
    PROVE  NodesT(t, W2, R)'
<1>s. PICK s \in Nat : s = Cardinality(SuccUses(R, t))  OBVIOUS
<1>p. PICK p \in Nat : p = Cardinality(ParentUses(t))  OBVIOUS
<1>n. PICK n \in Int : n = node[t].nrefs  BY DEF DepnodeRecords
<1>1. SelfUse(W, t) = 1 /\ SelfUse(W2, t)' = 0 /\ Kind(t)' # "if0"  BY DEF SelfUse, Kind
<1>2. n = 1 + s + p  BY <1>1, <1>s, <1>p, <1>n DEF NodesT
<1>3. node[t].state = "live"  BY <1>2, <1>n, LastUse DEF NodesT
<1>4. node'[t].nrefs = n - 1 /\ node'[t].state = IF n = 1 THEN "freed" ELSE "live"  BY <1>3, <1>n DEF Derefed
<1>5. node'[t].nrefs = 0 + s + p /\ (node'[t].nrefs = 0 <=> n = 1)  BY <1>2, <1>4, LastUse
<1>6. Cardinality(ParentUses(t)') = p  BY <1>p
<1>7. node'[t].nrefs = SelfUse(W2, t)' + Cardinality(SuccUses(R, t)) + Cardinality(ParentUses(t)')  BY <1>1, <1>5, <1>6, <1>s
<1>8. node'[t].state = IF node'[t].nrefs = 0 THEN "freed" ELSE "live"  BY <1>4, <1>5
<1>9. node'[t].state # "absent"  BY <1>4
<1> QED  BY <1>1, <1>7, <1>8, <1>9 DEF NodesT

\* Released keeps the invariant.
LEMMA ReleasedAgain ==
    ASSUME NEW W, NEW K, NEW R, NEW H, NEW O, NEW B, NEW C, Inv(W, K, R, H, O, B, C), NEW th \in Threads, Released(th)
    PROVE  Again
<1>f. PICK f : f = Top(th)  OBVIOUS
<1>1. Shape(W, K) /\ Counters(W, K, H, O) /\ Dependences(W, R, B, C) /\ Present(W, K) /\ W \in [Tasks -> Places]
  BY InvParts DEF Shape
<1>a. Preds(W, R) /\ Nodes(W, R) /\ Order(W, R, B, C) /\ HashOwners(W)  BY <1>1 DEF Dependences
<1>x. PICK x : x = f.task  OBVIOUS
<1>w. PICK W2 : Moved(W, W2, x, "free")  BY DEF Moved
<1>2. /\ Shape(W2, K)' /\ x \in Tasks /\ W[x] = "succ" /\ f.todo = <<>> /\ SameTd
      /\ \E g : SetTop(th, g) /\ g \in FrameRecords /\ g.task = f.task /\ g.ip = f.ip /\ g.pc = "free"
      /\ node' \in [Tasks -> DepnodeRecords]
      /\ \A t \in Tasks : IF t = x /\ td[t].node THEN Derefed(node[t], 1, node'[t]) ELSE node'[t] = node[t]
  <2>1. W2 = [W EXCEPT ![f.task] = "free"]  BY <1>x, <1>w DEF Moved
  <2>2. Shape(W2, K)'  BY <1>1, <1>f, <2>1, ReleasedShape
  <2>6. f.task \in Tasks /\ W[f.task] = "succ"  BY <1>1, <1>f, <2>1, ReleasedShape
  <2>7. f.todo = <<>>  BY <1>f DEF Released
  <2>8. SameTd  BY <1>1, <1>f, <2>1, ReleasedShape
  <2>3. \E g : SetTop(th, g) /\ g \in FrameRecords /\ g.task = f.task /\ g.ip = f.ip /\ g.pc = "free"
    BY <1>1, <1>f, <2>1, ReleasedShape
  <2>4. node' \in [Tasks -> DepnodeRecords]
    BY <1>1, <1>f, <2>1, ReleasedShape
  <2>5. \A t \in Tasks : IF t = f.task /\ td[t].node THEN Derefed(node[t], 1, node'[t]) ELSE node'[t] = node[t]
    BY <1>1, <1>f, <2>1, ReleasedShape
  <2> QED  BY <1>x, <2>2, <2>3, <2>4, <2>5, <2>6, <2>7, <2>8
<1>3. prog' = prog /\ deque' = deque /\ groups' = groups /\ hash' = hash /\ proxy' = proxy  BY DEF Released
<1>0. f \in FrameRecords /\ f.pc = "succ" /\ f \in Frames  BY <1>1, <1>f, TopFacts, TopIn DEF Released, At
<1>s. PICK g : SetTop(th, g) /\ g \in FrameRecords /\ g.task = f.task /\ g.ip = f.ip /\ g.pc = "free"  BY <1>2
<1>r. Remade(f, {g})  BY <1>1, <1>f, <1>s, SetFrames
<1>8. W2[x] = "free" /\ \A s \in Tasks : s # x => W2[s] = W[s]  BY <1>1, <1>2, <1>w, MovedFacts
<1>5. Counters(W2, K, H, O)' /\ KeepsAbsent(W, W2) /\ ParentTd /\ NodeTd
  <2>1. SamePhase(W, W2)  BY <1>2, <1>8 DEF SamePhase, Endings
  <2> QED  BY <1>1, <1>2, <1>f, <1>s, <1>3, <2>1, CountersRest
<1>6. Present(W2, K)'
  <2>1. Only(f)  BY <1>0, OnlyOwn DEF Creating
  <2>2. \A t \in Tasks : t # f.task => W2[t] = W[t] /\ K[t] = K[t]  BY <1>8, <1>x
  <2>3. f.task \in Tasks => W2[f.task] \notin Makers \union {"queue"}  BY <1>8, <1>x DEF Makers
  <2> QED  BY <1>1, <1>r, <1>s, <1>3, <2>1, <2>2, <2>3, PresentOwn
<1>n. \A t \in Tasks : /\ node'[t].npred = node[t].npred /\ node'[t].succ = node[t].succ
                       /\ node'[t].state = "absent" <=> node[t].state = "absent"
  <2>1. ASSUME td[x].node PROVE node[x].state # "absent"
    <3>1. TaskOK(x, "succ")  BY <1>1, <1>2 DEF Shape
    <3> QED  BY <2>1, <3>1 DEF TaskOK
  <2> QED  BY <1>2, <2>1 DEF Derefed
<1>e. \A t : Untold(W2, R, t) = Untold(W, R, t)
  <2>1. \A p \in Tasks : W2[p] = "told" <=> W[p] = "told"  BY <1>2, <1>8
  <2> QED  BY <2>1, UntoldSame
<1>9. Preds(W2, R)'
  <2>1. ASSUME NEW t \in Tasks PROVE PredsT(t, W2, R)'
    <3>0. PredsT(t, W, R)  BY <1>a DEF Preds
    <3>1. CASE t # x
      <4>1. NodeKeeps(t)  BY <1>n DEF NodeKeeps
      <4> QED  BY <1>8, <1>e, <3>0, <3>1, <4>1, PredsTStay
    <3>2. CASE t = x
      <4>1. R[x] = <<>>
        <5>1. PredsF(f, W, R)  BY <1>0, <1>a DEF Preds
        <5>2. Mirror(<<>>, R[x]) /\ R[x] \in Seq(Tasks)  BY <1>0, <1>2, <1>a, <1>x, <5>1 DEF PredsF, Preds
        <5> QED  BY <5>2, NothingListed
      <4>2. Untold(W2, R, x) = {}  BY <1>2, <1>e, <3>0, <3>2 DEF PredsT
      <4>3. Tracked(W2, x)' => node'[x].npred = Cardinality(Untold(W2, R, x))
        <5>1. Tracked(W2, x)' => Tracked(W, x)  BY <1>2, <1>n DEF Tracked
        <5>2. Tracked(W, x) => node[x].npred = Cardinality(Untold(W, R, x))  BY <3>0, <3>2 DEF PredsT
        <5>3. node'[x].npred = node[x].npred /\ Untold(W2, R, x) = Untold(W, R, x)  BY <1>2, <1>n, <1>e
        <5> QED  BY <5>1, <5>2, <5>3
      <4>4. IsFiniteSet(SuccUses(R, x))  BY <3>0, <3>2 DEF PredsT
      <4> QED  BY <1>8, <3>2, <4>1, <4>2, <4>3, <4>4 DEF PredsT
    <3> QED  BY <3>1, <3>2
  <2>2. ASSUME NEW h \in Frames' PROVE PredsF(h, W2, R)'
    <3>1. CASE h = g  BY <1>s, <3>1 DEF PredsF
    <3>2. CASE h # g
      <4>1. h \in Frames  BY <1>r, <3>2 DEF Remade
      <4>2. PredsF(h, W, R)  BY <1>a, <4>1 DEF Preds
      <4>4. \A p \in Tasks : W2[p] = "told" <=> W[p] = "told"  BY <1>2, <1>8
      <4>5. h.pc \in {"link", "count"} => node'[h.x].npred = node[h.x].npred
        <5>1. LocalOK(h)  BY <1>1, <4>1, FrameFacts
        <5> QED  BY <1>n, <5>1 DEF LocalOK, Creating
      <4> QED  BY <4>2, <4>4, <4>5, PredsFSame
    <3> QED  BY <3>1, <3>2
  <2> QED  BY <1>a, <2>1, <2>2 DEF Preds
<1>10. Nodes(W2, R)'
  <2>1. ASSUME NEW t \in Tasks PROVE NodesT(t, W2, R)'
    <3>0. NodesT(t, W, R) /\ ParentUses(t)' = ParentUses(t)  BY <1>a, <1>3, <1>5, ParentUsesSame DEF Nodes
    <3>1. CASE t # x
      <4>1. UsesStay(W, W2, t)  BY <1>8, <3>1 DEF UsesStay
      <4>2. node'[t] = node[t]  BY <1>2, <3>1
      <4> QED  BY <1>3, <3>0, <4>1, <4>2, NodesTStay
    <3>2. CASE t = x
      <4>1. TaskOK(x, "succ")  BY <1>1, <1>2 DEF Shape
      <4>2. CASE td[x].node
        <5>1. Kind(x) # "if0" /\ node[x].state # "absent"  BY <4>1, <4>2 DEF TaskOK
        <5>2. Derefed(node[x], 1, node'[x])  BY <1>2, <4>2
        <5>3. Cardinality(SuccUses(R, x)) \in Nat  BY <1>2, <1>a, UntoldType DEF Preds
        <5>4. Cardinality(ParentUses(x)) \in Nat  BY <1>1, <1>2, ParentUsesType
        <5>5. node[x] \in DepnodeRecords  BY <1>1, <1>2 DEF Shape, Types, DataTypes
        <5>6. x \in Tasks /\ NodesT(x, W, R) /\ W[x] = "succ" /\ W2[x] = "free" /\ ParentUses(x)' = ParentUses(x)
          BY <1>2, <1>8, <3>0, <3>2
        <5> QED  BY <1>3, <3>2, <5>1, <5>2, <5>3, <5>4, <5>5, <5>6, SelfUseEnds
      <4>3. CASE ~td[x].node
        <5>1. node'[t] = node[t]  BY <1>2, <3>2, <4>3
        <5>2. Kind(x) = "if0" \/ node[x].state = "absent"  BY <4>1, <4>3 DEF TaskOK
        <5>3. CASE Kind(x) = "if0"
          <6>1. SelfUse(W2, x)' = SelfUse(W, x)  BY <1>3, <5>3 DEF SelfUse, Kind
          <6>2. W[x] \notin {"linking", "depwait"} /\ W2[x] \notin {"linking", "depwait"}  BY <1>2, <1>8
          <6>3. Kind(x)' = Kind(x)  BY <1>3 DEF Kind
          <6>4. NodesT(x, W, R) /\ ParentUses(x)' = ParentUses(x) /\ node'[x] = node[x]  BY <3>0, <3>2, <5>1
          <6>5. NodesT(x, W2, R)'  BY <5>3, <6>1, <6>2, <6>3, <6>4 DEF NodesT
          <6> QED  BY <6>5, <3>2
        <5>4. CASE node[x].state = "absent"  BY <3>0, <3>2, <5>1, <5>4 DEF NodesT
        <5> QED  BY <5>2, <5>3, <5>4
      <4> QED  BY <4>2, <4>3
    <3> QED  BY <3>1, <3>2
  <2>2. \A d \in Descriptors : NodesD(d)'  BY <1>a, <1>3, <1>5, NodesDSame DEF Nodes
  <2>3. ASSUME NEW h \in Frames' PROVE NodesF(h)'
    <3>1. CASE h = g  BY <1>s, <3>1 DEF NodesF
    <3>2. CASE h # g
      <4>1. NodesF(h)  BY <1>a, <1>r, <3>2 DEF Nodes, Remade
      <4> QED  BY <1>3, <4>1, NodesFSame
    <3> QED  BY <3>1, <3>2
  <2> QED  BY <2>1, <2>2, <2>3 DEF Nodes
<1>11. Order(W2, R, B, C)'
  <2>1. g.pc # "link"  BY <1>s
  <2> QED  BY <1>a, <1>5, <1>r, <2>1, OrderRest
<1>12. HashOwners(W2)'
  <2>1. \A d \in Tasks : W[d] \in Hashing => W2[d] \in Hashing  BY <1>2, <1>8 DEF Hashing
  <2>2. \A h \in Frames' : h \in Frames \/ h.pc # "barrier"  BY <1>r, <1>s DEF Remade
  <2> QED  BY <1>a, <1>3, <2>1, <2>2, HashOwnersStep
<1> QED  BY <1>2, <1>5, <1>6, <1>9, <1>10, <1>11, <1>12, AgainFrom DEF Dependences

----------------------------------------------------------------------------
(* The references that a hash holds, when it is freed. *)

\* Only nodes of the children of d are in its hash.
LEMMA HashUsesOf ==
    ASSUME NEW W, NEW K, Shape(W, K), NEW d \in Descriptors, NodesD(d), NEW t \in Tasks
    PROVE  /\ hash[d] \in [Addrs -> Entries] \union {Null} /\ UsesOf(hash[d], t) \in Nat
           /\ UsesOf(hash[d], t) # 0 => td[t].parent = d /\ td[t].node /\ node[t].state # "absent" /\ Kind(t) # "if0"
<1>1. hash[d] \in [Addrs -> Entries] \union {Null}  BY DEF Shape, Types, DataTypes
<1>2. CASE hash[d] = Null  BY <1>1, <1>2 DEF UsesOf
<1>3. CASE hash[d] # Null
  <2>1. hash[d] \in [Addrs -> Entries]  BY <1>1, <1>3
  <2>2. UsesOf(hash[d], t) = Cardinality(HashUses(hash[d], t))  BY <1>3 DEF UsesOf
  <2>3. UsesOf(hash[d], t) \in Nat  BY <2>1, <2>2, HashUsesFinite
  <2>4. ASSUME UsesOf(hash[d], t) # 0
        PROVE  td[t].parent = d /\ td[t].node /\ node[t].state # "absent" /\ Kind(t) # "if0"
    <3>1. \E a \in Addrs : Names(hash[d][a], t)  BY <2>1, <2>2, <2>4, HashUsesFinite
    <3>2. td[t].parent = d /\ td[t].node  BY <1>3, <3>1 DEF NodesD
    <3>3. TaskOK(t, W[t])  BY DEF Shape
    <3> QED  BY <3>2, <3>3 DEF TaskOK
  <2> QED  BY <1>1, <2>3, <2>4
<1> QED  BY <1>2, <1>3

\* Who is named by a hash has a node.
LEMMA HashKnown ==
    ASSUME NEW W, NEW K, Shape(W, K), NEW d \in Descriptors, NodesD(d)
    PROVE  HashPresent(d)
<1>1. ASSUME hash[d] # Null, NEW a \in Addrs, NEW t \in Tasks, Names(hash[d][a], t) PROVE node[t].state # "absent"
  <2>1. td[t].node  BY <1>1 DEF NodesD
  <2>2. TaskOK(t, W[t])  BY DEF Shape
  <2> QED  BY <2>1, <2>2 DEF TaskOK
<1> QED  BY <1>1 DEF HashPresent

Unhashed(d) == hash'[d] = Null /\ \A e \in Descriptors : e # d => hash'[e] = hash[e]

\* With the hash of d go its uses.
LEMMA UsesGo ==
    ASSUME NEW W, NEW K, Shape(W, K), NEW d \in Descriptors, NodesD(d), Unhashed(d), ParentTd,
           NEW t \in Tasks, W[t] # "absent"
    PROVE  /\ Cardinality(ParentUses(t)) \in Nat /\ Cardinality(ParentUses(t)') \in Nat
           /\ UsesOf(hash[d], t) \in Nat
           /\ Cardinality(ParentUses(t)) = Cardinality(ParentUses(t)') + UsesOf(hash[d], t)
<1>1. td[t].parent \in Descriptors  BY ParentFacts
<1>p. td'[t].parent = td[t].parent  BY DEF ParentTd, Descriptors
<1>2. Cardinality(ParentUses(t)) \in Nat  BY ParentUsesType
<1>3. UsesOf(hash[d], t) \in Nat  BY HashUsesOf
<1>4. CASE td[t].parent = d
  <2>1. ParentUses(t)' = {}  BY <1>p, <1>4 DEF ParentUses, Unhashed
  <2>2. Cardinality(ParentUses(t)') = 0  BY <2>1, FS_EmptySet
  <2>3. Cardinality(ParentUses(t)) = UsesOf(hash[d], t)  BY <1>4, FS_EmptySet DEF ParentUses, UsesOf
  <2> QED  BY <1>2, <1>3, <2>2, <2>3
<1>5. CASE td[t].parent # d
  <2>1. ParentUses(t)' = ParentUses(t)  BY <1>1, <1>p, <1>5 DEF ParentUses, Unhashed
  <2>2. UsesOf(hash[d], t) = 0  BY <1>5, HashUsesOf
  <2> QED  BY <1>2, <1>3, <2>1, <2>2
<1> QED  BY <1>4, <1>5

\* As many references less as there were uses.
LEMMA FewerUses ==
    \A s, p, u, e \in Nat : \A n \in Int :
        n = e + s + (p + u) => n - u = e + s + p /\ (n - u = 0 <=> n = u) /\ (n = u /\ u = 0 => n = 0)
OBVIOUS

\* The references that the hash of d holds go with it.
LEMMA HashFreedNodes ==
    ASSUME NEW W, NEW K, Shape(W, K), NEW R, Nodes(W, R), Preds(W, R), NEW d \in Descriptors, HashFreed(hash[d]), Unhashed(d),
           ParentTd, prog' = prog, NEW W2, \A t \in Tasks : UsesStay(W, W2, t), NEW t \in Tasks
    PROVE  NodesT(t, W2, R)' /\ (node'[t].state = "absent" <=> node[t].state = "absent")
<1>1. NodesT(t, W, R) /\ NodesD(d) /\ UsesStay(W, W2, t) /\ TaskOK(t, W[t])  BY DEF Nodes, Shape
<1>2. node[t] \in DepnodeRecords  BY DEF Shape, Types, DataTypes
<1>u. PICK u \in Nat : u = UsesOf(hash[d], t)  BY <1>1, HashUsesOf
<1>3. u # 0 => node[t].state # "absent" /\ Kind(t) # "if0"  BY <1>1, <1>u, HashUsesOf
<1>n. PICK n \in Int : n = node[t].nrefs  BY <1>2 DEF DepnodeRecords
<1>4. node'[t].nrefs = n - u /\ node'[t].state = IF u > 0 /\ n = u THEN "freed" ELSE node[t].state
  BY <1>u, <1>n DEF HashFreed
<1>5. node'[t].state = "absent" <=> node[t].state = "absent"  BY <1>3, <1>4
<1>6. CASE node[t].state = "absent"
  <2>1. n = 1 /\ u = 0 /\ SuccUses(R, t) = {}  BY <1>1, <1>3, <1>6, <1>n DEF NodesT
  <2> QED  BY <1>4, <1>5, <1>6, <2>1 DEF NodesT
<1>7. CASE node[t].state # "absent"
  <2>1. W[t] # "absent"  BY <1>1, <1>7 DEF TaskOK
  <2>p. PICK p \in Nat : p = Cardinality(ParentUses(t)')  BY <1>1, <2>1, UsesGo
  <2>2. Cardinality(ParentUses(t)) = p + u  BY <1>1, <1>u, <2>1, <2>p, UsesGo
  <2>s. PICK s \in Nat : s = Cardinality(SuccUses(R, t))  BY UntoldType DEF Preds
  <2>e. PICK e \in Nat : e = SelfUse(W, t)  BY DEF SelfUse
  <2>3. SelfUse(W2, t)' = e /\ (Kind(t)' = Kind(t))  BY <1>1, <2>e DEF SelfUse, Kind, UsesStay
  <2>4. n = e + s + (p + u)  BY <1>1, <1>7, <1>n, <2>2, <2>s, <2>e DEF NodesT
  <2>5. n - u = e + s + p /\ (n - u = 0 <=> n = u) /\ (n = u /\ u = 0 => n = 0)  BY <2>4, FewerUses
  <2>6. node'[t].nrefs = SelfUse(W2, t)' + Cardinality(SuccUses(R, t)) + Cardinality(ParentUses(t)')
    BY <1>4, <2>3, <2>5, <2>s, <2>p
  <2>7. CASE Kind(t) # "if0"
    <3>1. node[t].state = IF n = 0 THEN "freed" ELSE "live"  BY <1>1, <1>7, <1>n, <2>7 DEF NodesT
    <3>2. u = 0 => n - u = n  OBVIOUS
    <3>3. node'[t].state = IF n = u THEN "freed" ELSE "live"
      <4>1. CASE u = 0  BY <1>4, <3>1, <4>1
      <4>2. CASE u # 0
        <5>1. u > 0  BY <4>2
        <5>2. n = 0 => n = u
          <6>1. n >= u  BY <2>4
          <6> QED  BY <5>1, <6>1
        <5> QED  BY <1>4, <3>1, <5>1, <5>2
      <4> QED  BY <4>1, <4>2
    <3>4. node'[t].state = IF node'[t].nrefs = 0 THEN "freed" ELSE "live"  BY <1>4, <2>5, <3>3
    <3> QED  BY <1>5, <1>7, <2>3, <2>6, <2>7, <3>4 DEF NodesT
  <2>8. CASE Kind(t) = "if0"
    <3>1. u = 0  BY <1>3, <2>8
    <3>2. node'[t].state = node[t].state  BY <1>4, <3>1
    <3>3. W2[t] \in {"linking", "depwait"} <=> W[t] \in {"linking", "depwait"}  BY <1>1, <2>8 DEF UsesStay
    <3>4. /\ node[t].state = (IF W[t] \in {"linking", "depwait"} THEN "live" ELSE "freed")
          /\ node[t].state = "freed" => SuccUses(R, t) = {}  BY <1>1, <1>7, <2>8 DEF NodesT
    <3> QED  BY <1>5, <1>7, <2>3, <2>6, <2>8, <3>2, <3>3, <3>4 DEF NodesT
  <2> QED  BY <2>7, <2>8
<1> QED  BY <1>5, <1>6, <1>7

\* The owners of the hashes that stay.
LEMMA UnhashedD ==
    ASSUME NEW d \in Descriptors, Unhashed(d), NEW e \in Descriptors, NodesD(e), ParentTd, NodeTd
    PROVE  NodesD(e)'
<1>1. CASE e = d  BY <1>1 DEF NodesD, Unhashed
<1>2. CASE e # d  BY <1>2, NodesDSame DEF Unhashed
<1> QED  BY <1>1, <1>2

----------------------------------------------------------------------------
(* EndImplicit and Release keep the invariant. *)

\* A step that frees the hash of the task of f: the lists and the hashes of the others stay.
LEMMA FreesHash ==
    ASSUME NEW W, NEW K, Shape(W, K), NEW R, NEW B, NEW C, Dependences(W, R, B, C), NEW f, NEW g, Remade(f, {g}),
           f.task \in Descriptors, HashFreed(hash[f.task]), Unhashed(f.task), ParentTd, NodeTd, prog' = prog, g.task = f.task,
           NEW W2, KeepsAbsent(W, W2), \A t \in Tasks : t # f.task => W2[t] = W[t],
           f.task \in Tasks => W[f.task] = "release" /\ W2[f.task] = "succ",
           g.pc \in {"succ", "barrier"}, g.pc = "succ" => Mirror(g.todo, R[g.task])
    PROVE  Dependences(W2, R, B, C)'
<1>a. Preds(W, R) /\ Nodes(W, R) /\ Order(W, R, B, C) /\ HashOwners(W)  BY DEF Dependences
<1>u. \A t \in Tasks : UsesStay(W, W2, t)  BY DEF UsesStay
<1>n. \A t \in Tasks : NodeKeeps(t)
  <2>1. \A t \in Tasks : node'[t].npred = node[t].npred /\ node'[t].succ = node[t].succ  BY DEF HashFreed
  <2>2. \A t \in Tasks : node'[t].state = "absent" <=> node[t].state = "absent"  BY <1>a, <1>u, HashFreedNodes
  <2> QED  BY <2>1, <2>2 DEF NodeKeeps
<1>t. \A p \in Tasks : W2[p] = "told" <=> W[p] = "told"  OBVIOUS
<1>e. \A t : Untold(W2, R, t) = Untold(W, R, t)  BY <1>t, UntoldSame
<1>o. ASSUME NEW h \in Frames', h # g PROVE h \in Frames /\ h.task # f.task  BY <1>o, Others
<1>1. Preds(W2, R)'
  <2>1. ASSUME NEW t \in Tasks PROVE PredsT(t, W2, R)'
    <3>0. PredsT(t, W, R)  BY <1>a DEF Preds
    <3>1. CASE t # f.task  BY <1>n, <1>e, <3>0, <3>1, PredsTStay
    <3>2. CASE t = f.task
      <4>1. W[t] = "release" /\ W2[t] = "succ"  BY <3>2
      <4>2. Tracked(W2, t)' => node'[t].npred = Cardinality(Untold(W2, R, t))
        <5>1. Tracked(W2, t)' => Tracked(W, t)  BY <4>1, <1>n DEF Tracked, NodeKeeps
        <5>2. Tracked(W, t) => node[t].npred = Cardinality(Untold(W, R, t))  BY <3>0 DEF PredsT
        <5>3. node'[t].npred = node[t].npred /\ Untold(W2, R, t) = Untold(W, R, t)  BY <1>n, <1>e DEF NodeKeeps
        <5> QED  BY <5>1, <5>2, <5>3
      <4>3. Untold(W2, R, t) = {}  BY <1>e, <3>0, <4>1 DEF PredsT
      <4>4. IsFiniteSet(SuccUses(R, t))  BY <3>0 DEF PredsT
      <4> QED  BY <4>1, <4>2, <4>3, <4>4 DEF PredsT
    <3> QED  BY <3>1, <3>2
  <2>2. ASSUME NEW h \in Frames' PROVE PredsF(h, W2, R)'
    <3>1. CASE h = g  BY <3>1 DEF PredsF
    <3>2. CASE h # g
      <4>1. h \in Frames /\ PredsF(h, W, R)  BY <1>a, <1>o, <3>2 DEF Preds
      <4>2. h.pc \in {"link", "count"} => node'[h.x].npred = node[h.x].npred
        <5>1. LocalOK(h)  BY <4>1, FrameFacts
        <5> QED  BY <1>n, <5>1 DEF LocalOK, Creating, NodeKeeps
      <4> QED  BY <1>t, <4>1, <4>2, PredsFSame
    <3> QED  BY <3>1, <3>2
  <2> QED  BY <1>a, <2>1, <2>2 DEF Preds
<1>2. Nodes(W2, R)'
  <2>1. \A t \in Tasks : NodesT(t, W2, R)'  BY <1>a, <1>u, HashFreedNodes
  <2>2. \A d \in Descriptors : NodesD(d)'  BY <1>a, UnhashedD DEF Nodes
  <2>3. ASSUME NEW h \in Frames' PROVE NodesF(h)'
    <3>1. CASE h = g  BY <3>1 DEF NodesF
    <3>2. CASE h # g
      <4>1. h \in Frames /\ NodesF(h) /\ h.task # f.task  BY <1>a, <1>o, <3>2 DEF Nodes
      <4>2. h.task \in Descriptors  BY <4>1, FrameFacts
      <4>3. hash'[h.task] = hash[h.task]  BY <4>1, <4>2 DEF Unhashed
      <4> QED  BY <4>1, <4>3, NodesFSame
    <3> QED  BY <3>1, <3>2
  <2> QED  BY <2>1, <2>2, <2>3 DEF Nodes
<1>3. Order(W2, R, B, C)'
  <2>1. g.pc # "link"  OBVIOUS
  <2> QED  BY <1>a, <2>1, OrderRest
<1>4. HashOwners(W2)'
  <2>1. \A d \in Descriptors : hash'[d] # Null => hash[d] # Null /\ (d \in Tasks /\ W[d] \in Hashing => W2[d] \in Hashing)
    BY DEF Unhashed
  <2>2. \A h \in Frames' : h \in Frames \/ h.pc # "barrier" \/ hash'[h.task] = Null  BY DEF Unhashed, Remade
  <2> QED  BY <1>a, <2>1, <2>2, HashOwnersStep
<1> QED  BY <1>1, <1>2, <1>3, <1>4 DEF Dependences

\* EndImplicit keeps the invariant.
LEMMA EndImplicitAgain ==
    ASSUME NEW W, NEW K, NEW R, NEW H, NEW O, NEW B, NEW C, Inv(W, K, R, H, O, B, C), NEW th \in Threads, EndImplicit(th)
    PROVE  Again
<1>f. PICK f : f = Top(th)  OBVIOUS
<1>1. Shape(W, K) /\ Counters(W, K, H, O) /\ Dependences(W, R, B, C) /\ Present(W, K) /\ Types
  BY InvParts DEF Shape
<1>2. f.task \in Descriptors /\ NodesD(f.task)  BY <1>1, <1>f, TopFacts DEF Dependences, Nodes
<1>3. HashPresent(f.task)  BY <1>1, <1>2, HashKnown
<1>4. Shape(W, K)' /\ f.task \in Threads /\ f.pc = "body"  BY <1>1, <1>3, <1>f, EndImplicitShape
<1>5. \E g : Turn(f, g, "barrier") /\ SetTop(th, g)  BY <1>1, <1>3, <1>f, EndImplicitShape
<1>g. PICK g : Turn(f, g, "barrier") /\ SetTop(th, g)  BY <1>5
<1>s. SetTop(th, g) /\ g \in FrameRecords /\ g.task = f.task /\ g.ip = f.ip /\ g.pc = "barrier"  BY <1>g DEF Turn
<1>6. prog' = prog /\ deque' = deque /\ td' = td /\ groups' = groups /\ proxy' = proxy  BY DEF EndImplicit
<1>7. HashFreed(hash[f.task])  BY <1>1, <1>2, <1>f, EndImplicitNode
<1>8. Unhashed(f.task)
  <2>1. hash' = [hash EXCEPT ![f.task] = Null]  BY <1>f DEF EndImplicit
  <2>2. hash \in [Descriptors -> [Addrs -> Entries] \union {Null}]  BY <1>1 DEF Types, DataTypes
  <2> QED  BY <1>2, <2>1, <2>2 DEF Unhashed
<1>9. SameTd  BY <1>1, <1>6, TdUnchanged DEF Types, DataTypes
<1>10. Counters(W, K, H, O)' /\ KeepsAbsent(W, W) /\ ParentTd /\ NodeTd
  <2>1. SamePhase(W, W)  BY DEF SamePhase
  <2> QED  BY <1>1, <1>f, <1>s, <1>6, <1>9, <2>1, CountersRest
<1>r. Remade(f, {g})  BY <1>1, <1>f, <1>s, SetFrames
<1>t. f.task \notin Tasks  BY <1>4, TaskNames
<1>11. Dependences(W, R, B, C)'
  <2>1. g.pc \in {"succ", "barrier"} /\ g.pc # "succ"  BY <1>s
  <2> QED  BY <1>1, <1>2, <1>r, <1>7, <1>8, <1>10, <1>6, <1>s, <1>t, <2>1, FreesHash
<1>12. Present(W, K)'
  <2>1. Only(f)  BY <1>4, OnlyOwn DEF Creating
  <2> QED  BY <1>1, <1>r, <1>s, <1>6, <1>t, <2>1, PresentOwn
<1> QED  BY <1>4, <1>10, <1>11, <1>12, AgainFrom

\* Release keeps the invariant.
LEMMA ReleaseAgain ==
    ASSUME NEW W, NEW K, NEW R, NEW H, NEW O, NEW B, NEW C, Inv(W, K, R, H, O, B, C), NEW th \in Threads, Release(th)
    PROVE  Again
<1>f. PICK f : f = Top(th)  OBVIOUS
<1>1. Shape(W, K) /\ Counters(W, K, H, O) /\ Dependences(W, R, B, C) /\ Present(W, K) /\ Types /\ W \in [Tasks -> Places]
  BY InvParts DEF Shape
<1>2. f.task \in Descriptors /\ NodesD(f.task)  BY <1>1, <1>f, TopFacts DEF Dependences, Nodes
<1>3. HashPresent(f.task)  BY <1>1, <1>2, HashKnown
<1>w. PICK W2 : Moved(W, W2, f.task, "succ")  BY DEF Moved
<1>x. W2 = [W EXCEPT ![f.task] = "succ"]  BY <1>w DEF Moved
<1>4. Shape(W2, K)'  BY <1>1, <1>3, <1>f, <1>x, ReleaseShape
<1>0. f.task \in Tasks /\ W[f.task] = "release"  BY <1>1, <1>3, <1>f, <1>x, ReleaseShape
<1>5. \E g : SetTop(th, g) /\ Lists(f, g, "succ", IF td[f.task].node THEN node[f.task].succ ELSE <<>>)
  BY <1>1, <1>3, <1>f, <1>x, ReleaseShape
<1>g. PICK g : SetTop(th, g) /\ Lists(f, g, "succ", IF td[f.task].node THEN node[f.task].succ ELSE <<>>)  BY <1>5
<1>s. SetTop(th, g) /\ g \in FrameRecords /\ g.task = f.task /\ g.ip = f.ip /\ g.pc = "succ"  BY <1>g DEF Lists
<1>m. Mirror(g.todo, R[g.task])
  <2>1. PredsT(f.task, W, R)  BY <1>0, <1>1 DEF Dependences, Preds
  <2>2. Mirror(node[f.task].succ, R[f.task])  BY <1>0, <2>1 DEF PredsT
  <2>3. TaskOK(f.task, W[f.task])  BY <1>0, <1>1 DEF Shape
  <2>4. g.todo = node[f.task].succ  BY <1>g, <2>3 DEF TaskOK, Lists
  <2> QED  BY <1>s, <2>2, <2>4
<1>6. prog' = prog /\ deque' = deque /\ td' = td /\ groups' = groups /\ proxy' = proxy  BY DEF Release
<1>7. HashFreed(hash[f.task])  BY <1>1, <1>0, <1>f, ReleaseNode
<1>8. Unhashed(f.task)
  <2>1. hash' = [hash EXCEPT ![f.task] = Null]  BY <1>f DEF Release
  <2>2. hash \in [Descriptors -> [Addrs -> Entries] \union {Null}]  BY <1>1 DEF Types, DataTypes
  <2> QED  BY <1>2, <2>1, <2>2 DEF Unhashed
<1>9. SameTd  BY <1>1, <1>6, TdUnchanged DEF Types, DataTypes
<1>v. W2[f.task] = "succ" /\ \A s \in Tasks : s # f.task => W2[s] = W[s]  BY <1>0, <1>1, <1>w, MovedFacts
<1>10. Counters(W2, K, H, O)' /\ KeepsAbsent(W, W2) /\ ParentTd /\ NodeTd
  <2>1. SamePhase(W, W2)  BY <1>0, <1>v DEF SamePhase, Endings
  <2> QED  BY <1>1, <1>f, <1>s, <1>6, <1>9, <2>1, CountersRest
<1>r. Remade(f, {g})  BY <1>1, <1>f, <1>s, SetFrames
<1>11. Dependences(W2, R, B, C)'
  <2>1. g.pc \in {"succ", "barrier"}  BY <1>s
  <2> QED  BY <1>0, <1>1, <1>2, <1>r, <1>7, <1>8, <1>10, <1>6, <1>m, <1>s, <1>v, <2>1, FreesHash
<1>12. Present(W2, K)'
  <2>1. Only(f)
    <3>1. f.pc = "release"  BY <1>f DEF Release, At
    <3> QED  BY <3>1, OnlyOwn DEF Creating
  <2>2. \A t \in Tasks : t # f.task => W2[t] = W[t] /\ K[t] = K[t]  BY <1>v
  <2>3. f.task \in Tasks => W2[f.task] \notin Makers \union {"queue"}  BY <1>v DEF Makers
  <2> QED  BY <1>1, <1>r, <1>s, <1>6, <2>1, <2>2, <2>3, PresentOwn
<1> QED  BY <1>4, <1>10, <1>11, <1>12, AgainFrom

----------------------------------------------------------------------------
(* Telling the first successor left in a list. *)

\* The first of the successors left is the last one listed.
LEMMA FirstLeft ==
    ASSUME NEW todo \in Seq(Tasks), todo # <<>>, NEW r \in Seq(Tasks), Mirror(todo, r)
    PROVE  /\ Len(r) \in Nat /\ Len(r) >= 1 /\ r # <<>> /\ Len(r) \in 1..Len(r)
           /\ Head(todo) = r[Len(r)] /\ Head(todo) \in Tasks
<1>1. Len(todo) \in Nat /\ Len(todo) >= 1 /\ 1 \in 1..Len(todo) /\ Head(todo) = todo[1] /\ Head(todo) \in Tasks  BY ListFacts
<1>n. PICK n \in Nat : n = Len(todo)  BY <1>1
<1>2. Len(r) = n /\ todo[1] = r[n + 1 - 1]  BY <1>1, <1>n DEF Mirror
<1>3. n + 1 - 1 = n /\ n >= 1 /\ n \in 1..n  BY <1>1, <1>n
<1>4. r # <<>>  BY <1>2, <1>3, EmptySeq
<1> QED  BY <1>1, <1>2, <1>3, <1>4

\* x begins to tell a successor.
Tells(W, W2, x) == \A p \in Tasks : W2[p] = "told" <=> W[p] = "told" \/ p = x
LastPair(R, x, r) == r = <<x, Len(R[x])>> /\ Len(R[x]) \in 1..Len(R[x])
UntoldLess(W, W2, R, r) == \A t : Untold(W2, R, t) = Untold(W, R, t) \ {r}
\* Telling the last successor of x leaves the others untold.
LEMMA UntoldFewer ==
    ASSUME NEW W, NEW W2, NEW R, NEW x \in Tasks, Tells(W, W2, x), W[x] # "told", NEW r, LastPair(R, x, r)
    PROVE  UntoldLess(W, W2, R, r)
<1> SUFFICES ASSUME NEW t PROVE Untold(W2, R, t) = Untold(W, R, t) \ {r}  BY DEF UntoldLess
<1>1. r[1] = x /\ r[2] = Len(R[x]) /\ r = <<x, Len(R[x])>>  BY DEF LastPair
<1>4. ASSUME NEW q \in SuccUses(R, t)
      PROVE  (W2[q[1]] = "told" => q[2] # Len(R[q[1]])) <=> (W[q[1]] = "told" => q[2] # Len(R[q[1]])) /\ q # r
  <2>1. q[1] \in Tasks /\ q = <<q[1], q[2]>>
    <3>1. PICK p \in Tasks : q \in {p} \X (1..Len(R[p]))  BY DEF SuccUses
    <3> QED  BY <3>1
  <2>2. W2[q[1]] = "told" <=> W[q[1]] = "told" \/ q[1] = x  BY <2>1 DEF Tells
  <2>3. CASE q[1] = x
    <3>1. q = r <=> q[2] = Len(R[x])  BY <1>1, <2>1, <2>3
    <3> QED  BY <2>2, <2>3, <3>1
  <2>4. CASE q[1] # x
    <3>1. q # r  BY <1>1, <2>4
    <3> QED  BY <2>2, <2>4, <3>1
  <2> QED  BY <2>3, <2>4
<1> QED  BY <1>4 DEF Untold

\* A task of which a predecessor is left, and which has been counted down to one, is blocked.
LEMMA Releases ==
    ASSUME NEW W, NEW K, Shape(W, K), NEW R, Preds(W, R), Present(W, K), NEW s \in Tasks, Untold(W, R, s) # {},
           node[s].npred = 1, Kind(s) # "if0"
    PROVE  W[s] = "blocked"
<1>1. PredsT(s, W, R) /\ TaskOK(s, W[s])  BY DEF Preds, Shape
<1>2. W[s] \in {"linking", "depwait", "blocked"}  BY <1>1 DEF PredsT
<1>3. W[s] # "depwait"  BY <1>1 DEF TaskOK
<1>4. ASSUME W[s] = "linking" PROVE FALSE
  <2>1. PICK h \in Frames : Makes(h, s)  BY <1>4 DEF Present, HeldBy
  <2>2. h \in FrameRecords /\ FrameOK(h, W, K) /\ h.pc \in Creating /\ h.x = s  BY <2>1, FrameFacts DEF Makes
  <2>3. Making(h.pc) = "linking"  BY <1>4, <2>2 DEF FrameOK
  <2>4. h.pc \in {"link", "count"}  BY <2>2, <2>3 DEF Making, Creating
  <2>5. PredsF(h, W, R)  BY <2>1 DEF Preds
  <2>n. PICK n \in Nat : n = h.n  BY <2>2 DEF FrameRecords
  <2>u. PICK u \in Nat : u = Cardinality(Untold(W, R, s))  BY <1>1, UntoldType
  <2>6. 1 = u - 1 - n /\ u <= n  BY <2>2, <2>4, <2>5, <2>n, <2>u DEF PredsF
  <2> QED  BY <2>6
<1> QED  BY <1>2, <1>3, <1>4

----------------------------------------------------------------------------
(* The count of predecessors goes down with the telling. *)

NpredSet(r, v) == [r EXCEPT !.npred = v]

\* Writing the count of predecessors.
LEMMA NpredSets ==
    ASSUME NEW r \in DepnodeRecords, NEW v \in Int
    PROVE  LET q == NpredSet(r, v)
           IN  q \in DepnodeRecords /\ q.state = r.state /\ q.task = r.task /\ q.npred = v /\ q.nrefs = r.nrefs /\ q.succ = r.succ
BY DEF DepnodeRecords, NpredSet
CountedDown(s) ==
    /\ node'[s].npred = node[s].npred - 1
    /\ \A t \in Tasks : /\ node'[t].state = node[t].state /\ node'[t].task = node[t].task
                        /\ node'[t].nrefs = node[t].nrefs /\ node'[t].succ = node[t].succ
                        /\ t # s => node'[t].npred = node[t].npred

\* What Notify writes.
LEMMA CountsDown ==
    ASSUME node \in [Tasks -> DepnodeRecords], NEW s \in Tasks, node' = [node EXCEPT ![s].npred = @ - 1]
    PROVE  CountedDown(s) /\ node[s].npred \in Int
<1>1. node[s] \in DepnodeRecords  OBVIOUS
<1>v. PICK v \in Int : v = node[s].npred - 1  BY <1>1 DEF DepnodeRecords
<1>q. PICK q : q = NpredSet(node[s], v)  OBVIOUS
<1>2. node' = [node EXCEPT ![s] = q]  BY <1>v, <1>q DEF NpredSet
<1>3. node'[s] = q /\ \A t \in Tasks : t # s => node'[t] = node[t]  BY <1>2
<1>4. q.state = node[s].state /\ q.task = node[s].task /\ q.npred = v /\ q.nrefs = node[s].nrefs /\ q.succ = node[s].succ
  BY <1>1, <1>q, NpredSets
<1>5. node[s].npred \in Int  BY <1>1 DEF DepnodeRecords
<1> QED  BY <1>v, <1>3, <1>4, <1>5 DEF CountedDown

\* One predecessor less.
LEMMA OneLess ==
    /\ \A u, v \in Nat : u = v + 1 => u - 1 = v /\ (v = 0 <=> u = 1)
    /\ \A u, v, n \in Nat : \A k \in Int : u = v + 1 /\ k = u - 1 - n /\ u <= n => k - 1 = v - 1 - n /\ v <= n
OBVIOUS

\* A predecessor less to wait for: x tells s.
Telling(W, W2, x, s) ==
    /\ W2[x] = "told" /\ W[x] = "succ" /\ x # s
    /\ W2[s] = IF node[s].npred = 1 /\ Kind(s) # "if0" THEN "push" ELSE W[s]
    /\ \A t \in Tasks : t # x /\ t # s => W2[t] = W[t]

\* The predecessors after a telling.
LEMMA TellingPreds ==
    ASSUME NEW W, NEW K, Shape(W, K), NEW R, Preds(W, R), Present(W, K), NEW W2, NEW x \in Tasks, NEW s \in Tasks,
           Telling(W, W2, x, s), CountedDown(s), node[s].npred \in Int,
           Len(R[x]) \in 1..Len(R[x]), s = R[x][Len(R[x])],
           NEW f, NEW g, Remade(f, {g}), f.task = x, g.task = x, g.pc \in {"push", "drop"}, Mirror(g.todo, R[x])
    PROVE  Preds(W2, R)'
<1>r. PICK r : r = <<x, Len(R[x])>>  OBVIOUS
<1>w. W[x] # "told" /\ W[x] = "succ" /\ W2[x] = "told" /\ x # s  BY DEF Telling
<1>0. PredsT(x, W, R) /\ PredsT(s, W, R)  BY DEF Preds
<1>1. r \in Untold(W, R, s)
  <2>1. r \in {x} \X (1..Len(R[x]))  BY <1>r
  <2>2. r \in UNION {{p} \X (1..Len(R[p])) : p \in Tasks}  BY <2>1
  <2>3. r \in SuccUses(R, s)  BY <1>r, <2>2 DEF SuccUses
  <2> QED  BY <1>r, <1>w, <2>3 DEF Untold
<1>2. W[s] \in {"linking", "depwait", "blocked"}  BY <1>0, <1>1 DEF PredsT
<1>t. Tells(W, W2, x)  BY <1>2 DEF Tells, Telling
<1>3. \A t : Untold(W2, R, t) = Untold(W, R, t) \ {r}
  <2>1. LastPair(R, x, r)  BY <1>r DEF LastPair
  <2>2. UntoldLess(W, W2, R, r)  BY <1>w, <1>t, <2>1, UntoldFewer
  <2> QED  BY <2>2 DEF UntoldLess
<1>4. \A t \in Tasks : t # s => Untold(W2, R, t) = Untold(W, R, t)
  <2>1. ASSUME NEW t \in Tasks, t # s PROVE r \notin Untold(W, R, t)
    <3>1. ASSUME r \in SuccUses(R, t) PROVE FALSE
      <4>1. R[r[1]][r[2]] = t  BY <3>1, SuccUsesIn
      <4> QED  BY <1>r, <2>1, <4>1
    <3> QED  BY <3>1 DEF Untold
  <2> QED  BY <1>3, <2>1
<1>u. PICK u \in Nat : u = Cardinality(Untold(W, R, s))  BY <1>0, UntoldType
<1>v. PICK v \in Nat : v = Cardinality(Untold(W2, R, s)) /\ u = v + 1
  <2>1. IsFiniteSet(Untold(W, R, s))  BY <1>0, UntoldType
  <2>2. Cardinality(Untold(W, R, s) \ {r}) = Cardinality(Untold(W, R, s)) - 1 /\ IsFiniteSet(Untold(W, R, s) \ {r})
    BY <1>1, <2>1, FS_RemoveElement
  <2>3. Cardinality(Untold(W, R, s) \ {r}) \in Nat  BY <2>2, FS_CardinalityType
  <2>v. PICK v \in Nat : v = Cardinality(Untold(W, R, s) \ {r})  BY <2>3
  <2>4. Untold(W2, R, s) = Untold(W, R, s) \ {r}  BY <1>3
  <2>5. v = u - 1  BY <1>u, <2>2, <2>v
  <2>6. u = v + 1  BY <2>5
  <2> QED  BY <2>v, <2>4, <2>6
<1>c. Untold(W2, R, s) # {} <=> v # 0
  <2>1. IsFiniteSet(Untold(W2, R, s))  BY <1>0, <1>3, UntoldType, FS_RemoveElement, FS_Subset
  <2> QED  BY <2>1, <1>v, FS_EmptySet
<1>5. ASSUME NEW t \in Tasks PROVE PredsT(t, W2, R)'
  <2>0. PredsT(t, W, R)  BY DEF Preds
  <2>1. CASE t = s
    <3>1. W2[s] = W[s] \/ (W2[s] = "push" /\ W[s] = "blocked")
      <4>1. node[s].npred = 1 /\ Kind(s) # "if0" => W[s] = "blocked"  BY <1>1, Releases
      <4> QED  BY <4>1 DEF Telling
    <3>2. Mirror(node'[s].succ, R[s])  BY <1>0, <1>2 DEF PredsT, CountedDown
    <3>3. W2[s] \notin {"free", "gone"}  BY <1>2, <3>1
    <3>4. Tracked(W, s) => node[s].npred = u  BY <1>0, <1>u DEF PredsT
    <3>5. Tracked(W2, s)' => Tracked(W, s)  BY <1>2, <3>1 DEF Tracked, CountedDown
    <3>6. Tracked(W2, s)' => node'[s].npred = Cardinality(Untold(W2, R, s))
      <4>1. u - 1 = v  BY <1>v, OneLess
      <4> QED  BY <1>v, <3>4, <3>5, <4>1 DEF CountedDown
    <3>7. W[s] = "blocked" => Tracked(W, s) /\ Kind(s) # "if0"
      <4>1. TaskOK(s, W[s])  BY DEF Shape
      <4> QED  BY <4>1 DEF TaskOK, Tracked
    <3>8. v = 0 <=> u = 1  BY <1>v, OneLess
    <3>9. Untold(W2, R, s) # {} => W2[s] \in {"linking", "depwait", "blocked"}
      <4>1. W2[s] = "push" => W[s] = "blocked" /\ node[s].npred = 1  BY <1>2, <3>1 DEF Telling
      <4> QED  BY <1>2, <1>c, <3>1, <3>4, <3>7, <3>8, <4>1
    <3>10. W2[s] = "blocked" => Untold(W2, R, s) # {}
      <4>1. W2[s] = "blocked" => W[s] = "blocked" /\ node[s].npred # 1  BY <1>2, <3>1, <3>7 DEF Telling
      <4> QED  BY <1>c, <3>4, <3>7, <3>8, <4>1
    <3>11. IsFiniteSet(SuccUses(R, s))  BY <1>0 DEF PredsT
    <3> QED  BY <2>1, <3>2, <3>3, <3>6, <3>9, <3>10, <3>11 DEF PredsT
  <2>2. CASE t = x
    <3>1. Untold(W2, R, x) = Untold(W, R, x)  BY <1>4, <1>w
    <3>2. Untold(W, R, x) = {}  BY <1>0, <1>w DEF PredsT
    <3>3. Tracked(W2, x)' => node'[x].npred = Cardinality(Untold(W2, R, x))
      <4>1. Tracked(W2, x)' => Tracked(W, x)  BY <1>w DEF Tracked, CountedDown
      <4>2. node'[x].npred = node[x].npred  BY <1>w DEF CountedDown
      <4> QED  BY <1>0, <3>1, <4>1, <4>2 DEF PredsT
    <3>4. IsFiniteSet(SuccUses(R, x))  BY <1>0 DEF PredsT
    <3> QED  BY <1>w, <2>2, <3>1, <3>2, <3>3, <3>4 DEF PredsT
  <2>3. CASE t # s /\ t # x
    <3>1. NodeKeeps(t) /\ W2[t] = W[t]  BY <2>3 DEF NodeKeeps, CountedDown, Telling
    <3> QED  BY <1>4, <2>0, <2>3, <3>1, PredsTStay
  <2> QED  BY <2>1, <2>2, <2>3
<1>6. ASSUME NEW h \in Frames' PROVE PredsF(h, W2, R)'
  <2>1. CASE h = g  BY <2>1 DEF PredsF
  <2>2. CASE h # g
    <3>1. h \in Frames /\ PredsF(h, W, R) /\ h \in FrameRecords /\ LocalOK(h)  BY <2>2, FrameFacts DEF Preds, Remade
    <3>2. h.pc \in {"succ", "push", "drop"} => Mirror(h.todo, R[h.task])  BY <3>1 DEF PredsF
    <3>3. ASSUME h.pc \in {"link", "count"}
          PROVE  /\ node'[h.x].npred = Cardinality(Untold(W2, R, h.x)) - 1 - h.n
                 /\ Cardinality(Untold(W2, R, h.x)) <= h.n
      <4>1. h.x \in Tasks  BY <3>1, <3>3 DEF LocalOK, Creating
      <4>2. /\ node[h.x].npred = Cardinality(Untold(W, R, h.x)) - 1 - h.n
            /\ Cardinality(Untold(W, R, h.x)) <= h.n  BY <3>1, <3>3 DEF PredsF
      <4>3. CASE h.x # s  BY <1>4, <4>1, <4>2, <4>3 DEF CountedDown
      <4>4. CASE h.x = s
        <5>n. PICK n \in Nat : n = h.n  BY <3>1 DEF FrameRecords
        <5>k. PICK k \in Int : k = node[s].npred  OBVIOUS
        <5>1. k = u - 1 - n /\ u <= n  BY <1>u, <4>2, <4>4, <5>n, <5>k
        <5>2. k - 1 = v - 1 - n /\ v <= n  BY <1>v, <5>1, OneLess
        <5> QED  BY <1>v, <4>4, <5>2, <5>n, <5>k DEF CountedDown
      <4> QED  BY <4>3, <4>4
    <3> QED  BY <3>2, <3>3 DEF PredsF
  <2> QED  BY <2>1, <2>2
<1> QED  BY <1>5, <1>6 DEF Preds

----------------------------------------------------------------------------
(* Notify keeps the invariant. *)

NotifyPc(s) == IF node[s].npred = 1 THEN "push" ELSE "drop"

\* Notify tells the successor at the head of the list.
LEMMA NotifiedTelling ==
    ASSUME NEW W, NEW W2, NEW f, Notified(W, W2, f), f.task \in Tasks, W[f.task] = "succ", Head(f.todo) \in Tasks, Head(f.todo) # f.task
    PROVE  Telling(W, W2, f.task, Head(f.todo))
BY DEF Notified, Telling

\* Who is pushed is held by the pushing frame.
LEMMA NotifyPresent ==
    ASSUME NEW W, NEW K, Shape(W, K), Present(W, K), NEW x \in Tasks, NEW s \in Tasks, NEW W2, Telling(W, W2, x, s),
           node[s].npred = 1 /\ Kind(s) # "if0" => W[s] = "blocked",
           NEW f, f.task = x, f.pc = "succ", NEW g, Remade(f, {g}), g.task = x, g.pc = NotifyPc(s), Head(g.todo) = s,
           prog' = prog, deque' = deque
    PROVE  Present(W2, K)'
<1>1. ASSUME NEW t \in Tasks
      PROVE  (W2[t] = W[t] /\ K[t] = K[t] /\ ~Holds(f, t)) \/ HeldBy({g}, t, W2[t], K[t])'
  <2>1. CASE t = x
    <3>1. W2[t] = "told"  BY <2>1 DEF Telling
    <3> QED  BY <2>1, <3>1, HeldTask
  <2>2. CASE t # x /\ W2[t] = W[t]
    <3>1. ~Holds(f, t)  BY <2>2 DEF Holds, Makes, Pushes, Creating
    <3> QED  BY <2>2, <3>1
  <2>3. CASE t # x /\ W2[t] # W[t]
    <3>1. t = s /\ W2[t] = "push" /\ node[s].npred = 1 /\ Kind(s) # "if0"  BY <2>3 DEF Telling
    <3>2. W[s] = "blocked" /\ g.pc = "push"  BY <3>1 DEF NotifyPc
    <3>3. Pushes(g, t)'  BY <3>1, <3>2 DEF Pushes, Kind
    <3>4. K[t] = None  BY <3>1, <3>2, NoClimb
    <3> QED  BY <3>1, <3>3, <3>4 DEF HeldBy, Running
  <2> QED  BY <2>1, <2>2, <2>3
<1>2. \A t \in Tasks : W2[t] = "queue" => InDeque(t)'
  <2>1. \A t \in Tasks : W2[t] = "queue" => W[t] = "queue"  BY DEF Telling
  <2> QED  BY <2>1, DequeSame
<1> QED  BY <1>1, <1>2, PresentStep

\* Notify keeps the invariant.
LEMMA NotifyAgain ==
    ASSUME NEW W, NEW K, NEW R, NEW H, NEW O, NEW B, NEW C, Inv(W, K, R, H, O, B, C), NEW th \in Threads, Notify(th)
    PROVE  Again
<1>f. PICK f : f = Top(th)  OBVIOUS
<1>1. Shape(W, K) /\ Counters(W, K, H, O) /\ Dependences(W, R, B, C) /\ Present(W, K) /\ Types /\ W \in [Tasks -> Places]
  BY InvParts DEF Shape
<1>a. Preds(W, R) /\ Nodes(W, R) /\ Order(W, R, B, C) /\ HashOwners(W)  BY <1>1 DEF Dependences
<1>0. f \in FrameRecords /\ f.pc = "succ" /\ f \in Frames /\ f.todo # <<>> /\ f.todo \in Seq(Tasks)
  BY <1>1, <1>f, TopFacts, TopIn DEF Notify, At, FrameRecords
<1>x. PICK x : x = f.task  OBVIOUS
<1>2. x \in Tasks /\ W[x] = "succ"  BY <1>1, <1>0, <1>f, <1>x, TaskFrame DEF Finishing
<1>s. PICK s : s = Head(f.todo)  OBVIOUS
<1>m. Mirror(f.todo, R[x]) /\ R[x] \in Seq(Tasks)
  <2>1. PredsF(f, W, R)  BY <1>0, <1>a DEF Preds
  <2> QED  BY <1>0, <1>2, <1>a, <1>x, <2>1 DEF PredsF, Preds
<1>3. s \in Tasks /\ s = R[x][Len(R[x])] /\ Len(R[x]) \in 1..Len(R[x])  BY <1>0, <1>m, <1>s, FirstLeft
<1>r. PICK r : r = <<x, Len(R[x])>>  OBVIOUS
<1>4. r \in Untold(W, R, s)
  <2>1. r \in {x} \X (1..Len(R[x]))  BY <1>r, <1>3
  <2>2. r \in UNION {{p} \X (1..Len(R[p])) : p \in Tasks}  BY <1>2, <2>1
  <2>3. r \in SuccUses(R, s)  BY <1>r, <1>3, <2>2 DEF SuccUses
  <2> QED  BY <1>r, <1>2, <2>3 DEF Untold
<1>5. W[s] \in {"linking", "depwait", "blocked"}  BY <1>3, <1>4, <1>a DEF PredsT, Preds
<1>6. node[s].npred = 1 /\ Kind(s) # "if0" => W[s] = "blocked"  BY <1>1, <1>3, <1>4, <1>a, Releases
<1>w. PICK W2 : Notified(W, W2, f)  BY DEF Notified
<1>7. Shape(W2, K)'  BY <1>1, <1>6, <1>f, <1>s, <1>w, NotifyShape
<1>8. \E g : SetTop(th, g) /\ Turn(f, g, IF node[Head(f.todo)].npred = 1 THEN "push" ELSE "drop")
  BY <1>1, <1>6, <1>f, <1>s, <1>w, NotifyShape
<1>g. PICK g : SetTop(th, g) /\ Turn(f, g, NotifyPc(s))  BY <1>8, <1>s DEF NotifyPc
<1>9. SetTop(th, g) /\ g \in FrameRecords /\ g.task = f.task /\ g.ip = f.ip /\ g.pc = NotifyPc(s) /\ g.todo = f.todo  BY <1>g DEF Turn
<1>10. g.pc \in {"push", "drop"}  BY <1>9 DEF NotifyPc
<1>11. Telling(W, W2, x, s)
  <2>1. s # x  BY <1>2, <1>5
  <2> QED  BY <1>2, <1>3, <1>w, <1>x, <1>s, <2>1, NotifiedTelling
<1>r2. Remade(f, {g})  BY <1>1, <1>f, <1>9, SetFrames
<1>12. prog' = prog /\ deque' = deque /\ td' = td /\ groups' = groups /\ hash' = hash /\ proxy' = proxy  BY DEF Notify
<1>n. CountedDown(s) /\ node[s].npred \in Int
  <2>1. node' = [node EXCEPT ![s].npred = @ - 1]  BY <1>f, <1>s DEF Notify
  <2>2. node \in [Tasks -> DepnodeRecords]  BY <1>1 DEF Types, DataTypes
  <2> QED  BY <1>3, <2>1, <2>2, CountsDown
<1>13. SameTd  BY <1>1, <1>12, TdUnchanged DEF Types, DataTypes
<1>14. Counters(W2, K, H, O)' /\ KeepsAbsent(W, W2) /\ ParentTd /\ NodeTd
  <2>1. SamePhase(W, W2)
    <3>1. W2[s] = W[s] \/ (W2[s] = "push" /\ W[s] = "blocked")  BY <1>6, <1>11 DEF Telling
    <3> QED  BY <1>11, <3>1 DEF SamePhase, Makings, Endings, Telling
  <2> QED  BY <1>1, <1>f, <1>9, <1>12, <1>13, <2>1, CountersRest
<1>15. Preds(W2, R)'
  <2>1. Mirror(g.todo, R[x]) /\ g.task = x /\ f.task = x  BY <1>9, <1>m, <1>x
  <2> QED  BY <1>1, <1>a, <1>2, <1>3, <1>11, <1>n, <1>r2, <1>10, <2>1, TellingPreds
<1>16. Nodes(W2, R)'
  <2>1. ASSUME NEW t \in Tasks PROVE NodesT(t, W2, R)'
    <3>0. NodesT(t, W, R) /\ ParentUses(t)' = ParentUses(t)  BY <1>a, <1>12, <1>14, ParentUsesSame DEF Nodes
    <3>1. UsesStay(W, W2, t)
      <4>1. W2[t] = W[t] \/ (W2[t] = "push" /\ W[t] = "blocked") \/ (W2[t] = "told" /\ W[t] = "succ")
        BY <1>6, <1>11 DEF Telling
      <4> QED  BY <4>1 DEF UsesStay
    <3>2. node'[t].state = node[t].state /\ node'[t].nrefs = node[t].nrefs  BY <1>n DEF CountedDown
    <3> QED  BY <1>12, <3>0, <3>1, <3>2, NodesTStay
  <2>2. \A d \in Descriptors : NodesD(d)'  BY <1>a, <1>12, <1>14, NodesDSame DEF Nodes
  <2>3. ASSUME NEW h \in Frames' PROVE NodesF(h)'
    <3>1. CASE h = g  BY <1>10, <3>1 DEF NodesF
    <3>2. CASE h # g
      <4>1. NodesF(h)  BY <1>a, <1>r2, <3>2 DEF Nodes, Remade
      <4> QED  BY <1>12, <4>1, NodesFSame
    <3> QED  BY <3>1, <3>2
  <2> QED  BY <2>1, <2>2, <2>3 DEF Nodes
<1>17. Order(W2, R, B, C)'
  <2>1. g.pc # "link"  BY <1>10
  <2> QED  BY <1>a, <1>14, <1>r2, <2>1, OrderRest
<1>18. HashOwners(W2)'
  <2>1. \A d \in Tasks : W[d] \in Hashing => W2[d] \in Hashing
    <3>1. W[s] \notin Hashing /\ W[x] \notin Hashing  BY <1>2, <1>5 DEF Hashing
    <3> QED  BY <1>11, <3>1 DEF Telling
  <2>2. \A h \in Frames' : h \in Frames \/ h.pc # "barrier"  BY <1>r2, <1>10 DEF Remade
  <2> QED  BY <1>a, <1>12, <2>1, <2>2, HashOwnersStep
<1>19. Present(W2, K)'
  <2>1. g.task = x /\ f.task = x /\ Head(g.todo) = s /\ g.pc = NotifyPc(s)  BY <1>9, <1>s, <1>x
  <2> QED  BY <1>0, <1>1, <1>2, <1>3, <1>6, <1>11, <1>12, <1>r2, <2>1, NotifyPresent
<1> QED  BY <1>7, <1>14, <1>15, <1>16, <1>17, <1>18, <1>19, AgainFrom DEF Dependences

----------------------------------------------------------------------------
(* The list of a finished task loses the successor it has told. *)

\* A list loses its last member.
Cut(r, r2) == /\ r2 \in Seq(Tasks) /\ Len(r) \in Nat /\ Len(r) >= 1 /\ Len(r2) = Len(r) - 1
              /\ \A i \in 1..Len(r) - 1 : r2[i] = r[i]

\* A list without its last element is cut.
LEMMA CutFront ==
    ASSUME NEW r \in Seq(Tasks), r # <<>>
    PROVE  Cut(r, Front(r))
BY QueueEnds DEF Cut

\* Cutting a list, seen from its other end.
LEMMA MirrorCut ==
    ASSUME NEW s \in Seq(Tasks), s # <<>>, NEW r, Mirror(s, r), NEW r2, Cut(r, r2)
    PROVE  Mirror(Tail(s), r2)
<1>1. Len(s) \in Nat /\ Len(s) >= 1 /\ Len(Tail(s)) = Len(s) - 1 /\ \A i \in 1..Len(s) - 1 : Tail(s)[i] = s[i + 1]
  BY ListFacts
<1>n. PICK n \in Nat : n = Len(s)  BY <1>1, Zenon
<1>2. Len(r) = n /\ Len(r2) = n - 1 /\ Len(Tail(s)) = n - 1 /\ n >= 1  BY <1>1, <1>n DEF Mirror, Cut
<1>3. ASSUME NEW i \in 1..n - 1 PROVE Tail(s)[i] = r2[n - 1 + 1 - i]
  <2>1. i + 1 \in 1..n /\ n + 1 - (i + 1) = n - i /\ n - i \in 1..n - 1 /\ n - 1 + 1 - i = n - i  BY <1>2
  <2>2. Tail(s)[i] = s[i + 1]  BY <1>1, <1>n
  <2>3. s[i + 1] = r[n + 1 - (i + 1)]  BY <1>n, <2>1 DEF Mirror
  <2>4. r2[n - i] = r[n - i]  BY <1>2, <2>1 DEF Cut
  <2>5. r[n + 1 - (i + 1)] = r[n - i]  BY <2>1
  <2>6. r2[n - 1 + 1 - i] = r2[n - i]  BY <2>1
  <2> QED  BY <2>2, <2>3, <2>4, <2>5, <2>6
<1> QED  BY <1>2, <1>3 DEF Mirror

CutsAt(R, R2, x) == Cut(R[x], R2[x]) /\ \A p \in Tasks : p # x => R2[p] = R[p]
UsesLess(R, R2, r) == \A t : SuccUses(R2, t) = SuccUses(R, t) \ {r}

\* The cut takes one use away.
LEMMA UsesFewer ==
    ASSUME NEW R, NEW R2, NEW x \in Tasks, CutsAt(R, R2, x), NEW r, LastPair(R, x, r)
    PROVE  UsesLess(R, R2, r)
<1> SUFFICES ASSUME NEW t PROVE SuccUses(R2, t) = SuccUses(R, t) \ {r}  BY DEF UsesLess
<1>n. PICK n \in Nat : n = Len(R[x])  BY DEF CutsAt, Cut
<1>0. r = <<x, n>> /\ n >= 1 /\ Len(R2[x]) = n - 1 /\ \A i \in 1..n - 1 : R2[x][i] = R[x][i]
  BY <1>n DEF LastPair, CutsAt, Cut
<1>1. \A p \in Tasks : \A i : (i \in 1..Len(R2[p]) /\ R2[p][i] = t) <=> (i \in 1..Len(R[p]) /\ R[p][i] = t /\ ~(p = x /\ i = n))
  <2> SUFFICES ASSUME NEW p \in Tasks, NEW i
               PROVE  (i \in 1..Len(R2[p]) /\ R2[p][i] = t) <=> (i \in 1..Len(R[p]) /\ R[p][i] = t /\ ~(p = x /\ i = n))
    OBVIOUS
  <2>1. CASE p = x
    <3>1. i \in 1..n - 1 <=> i \in 1..n /\ i # n  OBVIOUS
    <3> QED  BY <1>0, <1>n, <2>1, <3>1
  <2>2. CASE p # x  BY <2>2 DEF CutsAt
  <2> QED  BY <2>1, <2>2
<1>2. \A S : \A q : q \in UNION {{p} \X (1..Len(S[p])) : p \in Tasks} <=> \E p \in Tasks : \E i \in 1..Len(S[p]) : q = <<p, i>>
  OBVIOUS
<1>3. \A q : q \in SuccUses(R2, t) <=> \E p \in Tasks : \E i \in 1..Len(R2[p]) : q = <<p, i>> /\ R2[p][i] = t
  BY <1>2 DEF SuccUses
<1>4. \A q : q \in SuccUses(R, t) <=> \E p \in Tasks : \E i \in 1..Len(R[p]) : q = <<p, i>> /\ R[p][i] = t
  BY <1>2 DEF SuccUses
<1>5. \A q : q \in SuccUses(R2, t) <=> q \in SuccUses(R, t) /\ q # r  BY <1>0, <1>1, <1>3, <1>4
<1> QED  BY <1>5

UntoldStays(W, W2, R, R2) == \A t : Untold(W2, R2, t) = Untold(W, R, t)

\* The use that is cut had been told.
LEMMA UntoldCut ==
    ASSUME NEW W, NEW W2, NEW R, NEW R2, NEW x \in Tasks, CutsAt(R, R2, x), NEW r, LastPair(R, x, r), W[x] = "told", W2[x] = "succ",
           \A p \in Tasks : p # x => W2[p] = W[p]
    PROVE  UntoldStays(W, W2, R, R2)
<1> SUFFICES ASSUME NEW t PROVE Untold(W2, R2, t) = Untold(W, R, t)  BY DEF UntoldStays
<1>1. SuccUses(R2, t) = SuccUses(R, t) \ {r}  BY UsesFewer DEF UsesLess
<1>2. ASSUME NEW q \in SuccUses(R, t)
      PROVE  (W[q[1]] = "told" => q[2] # Len(R[q[1]])) <=> q # r /\ (W2[q[1]] = "told" => q[2] # Len(R2[q[1]]))
  <2>1. q[1] \in Tasks /\ q = <<q[1], q[2]>>
    <3>1. PICK p \in Tasks : q \in {p} \X (1..Len(R[p]))  BY DEF SuccUses
    <3> QED  BY <3>1
  <2>2. r[1] = x /\ r[2] = Len(R[x]) /\ r = <<x, Len(R[x])>>  BY DEF LastPair
  <2>3. CASE q[1] = x
    <3>1. q = r <=> q[2] = Len(R[x])  BY <2>1, <2>2, <2>3
    <3> QED  BY <2>3, <3>1
  <2>4. CASE q[1] # x
    <3>1. q # r  BY <2>2, <2>4
    <3>2. W2[q[1]] = W[q[1]] /\ R2[q[1]] = R[q[1]]  BY <2>1, <2>4 DEF CutsAt
    <3> QED  BY <3>1, <3>2
  <2> QED  BY <2>3, <2>4
<1> QED  BY <1>1, <1>2 DEF Untold

\* The order stays when a list is cut.
LEMMA OrderCut ==
    ASSUME NEW W2, NEW R, NEW R2, NEW B, NEW C, Order(W2, R, B, C)', NEW x \in Tasks, CutsAt(R, R2, x)
    PROVE  Order(W2, R2, B, C)'
<1>1. \A p \in Tasks : \A k \in 1..Len(R2[p]) : k \in 1..Len(R[p]) /\ R2[p][k] = R[p][k]
  <2> SUFFICES ASSUME NEW p \in Tasks, NEW k \in 1..Len(R2[p]) PROVE k \in 1..Len(R[p]) /\ R2[p][k] = R[p][k]  OBVIOUS
  <2>1. CASE p = x
    <3>n. PICK n \in Nat : n = Len(R[x])  BY DEF CutsAt, Cut
    <3>1. Len(R2[x]) = n - 1 /\ \A i \in 1..n - 1 : R2[x][i] = R[x][i]  BY <3>n DEF CutsAt, Cut
    <3> QED  BY <2>1, <3>n, <3>1
  <2>2. CASE p # x  BY <2>2 DEF CutsAt
  <2> QED  BY <2>1, <2>2
<1> QED  BY <1>1 DEF Order

----------------------------------------------------------------------------
(* The successor's node loses the reference of that list. *)

\* One reference less, of a list.
LEMMA DropCounts ==
    \A e, u, v, p \in Nat : \A n \in Int : n = e + u + p /\ u = v + 1 => n - 1 = e + v + p /\ n # 0 /\ (n - 1 = 0 <=> n = 1)
OBVIOUS

\* A successor's node loses the reference of one list.
LEMMA DropNode ==
    ASSUME NEW W, NEW W2, NEW R, NEW R2, NEW t \in Tasks, NodesT(t, W, R), node[t] \in DepnodeRecords, UsesStay(W, W2, t),
           NEW r, r \in SuccUses(R, t), IsFiniteSet(SuccUses(R, t)), UsesLess(R, R2, r),
           Cardinality(ParentUses(t)) \in Nat, Derefed(node[t], 1, node'[t]), prog' = prog, ParentUses(t)' = ParentUses(t)
    PROVE  NodesT(t, W2, R2)'
<1>1. SuccUses(R2, t) = SuccUses(R, t) \ {r}  BY DEF UsesLess
<1>2. Cardinality(SuccUses(R, t) \ {r}) = Cardinality(SuccUses(R, t)) - 1 /\ IsFiniteSet(SuccUses(R, t) \ {r})
  BY FS_RemoveElement
<1>u. PICK u \in Nat : u = Cardinality(SuccUses(R, t))  BY FS_CardinalityType
<1>v. PICK v \in Nat : v = Cardinality(SuccUses(R, t) \ {r})  BY <1>2, FS_CardinalityType
<1>3. u = v + 1
  <2>1. v = u - 1  BY <1>2, <1>u, <1>v
  <2> QED  BY <2>1
<1>4. Cardinality(SuccUses(R2, t)) = v  BY <1>1, <1>v
<1>p. PICK p \in Nat : p = Cardinality(ParentUses(t))  OBVIOUS
<1>n. PICK n \in Int : n = node[t].nrefs  BY DEF DepnodeRecords
<1>5. node[t].state # "absent"  BY DEF NodesT
<1>e. PICK e \in Nat : e = SelfUse(W, t)  BY DEF SelfUse
<1>6. SelfUse(W2, t)' = e /\ Kind(t)' = Kind(t)  BY <1>e DEF SelfUse, Kind, UsesStay
<1>7. n = e + u + p  BY <1>5, <1>u, <1>p, <1>n, <1>e DEF NodesT
<1>8. n - 1 = e + v + p /\ n # 0 /\ (n - 1 = 0 <=> n = 1)  BY <1>3, <1>7, DropCounts
<1>9. node'[t].nrefs = n - 1 /\ node'[t].state = IF n = 1 THEN "freed" ELSE node[t].state  BY <1>n DEF Derefed
<1>10. Cardinality(ParentUses(t)') = p  BY <1>p
<1>11. node'[t].nrefs = SelfUse(W2, t)' + Cardinality(SuccUses(R2, t)) + Cardinality(ParentUses(t)')
  BY <1>4, <1>6, <1>8, <1>9, <1>10
<1>12. node'[t].state # "absent"  BY <1>5, <1>9
<1>13. CASE Kind(t) # "if0"
  <2>1. node[t].state = "live"  BY <1>5, <1>8, <1>13, <1>n DEF NodesT
  <2>2. node'[t].state = IF node'[t].nrefs = 0 THEN "freed" ELSE "live"  BY <1>8, <1>9, <2>1
  <2> QED  BY <1>6, <1>11, <1>12, <1>13, <2>2 DEF NodesT
<1>14. CASE Kind(t) = "if0"
  <2>1. node[t].state # "freed"  BY <1>5, <1>14 DEF NodesT
  <2>2. W[t] \in {"linking", "depwait"} /\ node[t].state = "live"  BY <1>5, <1>14, <2>1 DEF NodesT
  <2>3. W2[t] \in {"linking", "depwait"}  BY <1>14, <2>2 DEF UsesStay
  <2>4. e = 1  BY <1>14, <1>e DEF SelfUse
  <2>5. n # 1  BY <1>3, <1>7, <2>4
    \* one for itself, one for the list
  <2>6. node'[t].state = "live"  BY <1>9, <2>2, <2>5
  <2> QED  BY <1>6, <1>11, <1>12, <1>14, <2>3, <2>6 DEF NodesT
<1> QED  BY <1>13, <1>14

\* The predecessors after a cut.
LEMMA DropPreds ==
    ASSUME NEW W, NEW K, Shape(W, K), NEW R, Preds(W, R), NEW W2, NEW R2, NEW x \in Tasks, CutsAt(R, R2, x),
           NEW r, LastPair(R, x, r), W[x] = "told", W2[x] = "succ", \A p \in Tasks : p # x => W2[p] = W[p],
           \A t \in Tasks : NodeKeeps(t), R2 \in [Tasks -> Seq(Tasks)],
           NEW f, NEW g, Remade(f, {g}), f.task = x, g.task = x, g.pc = "succ", Mirror(g.todo, R2[x])
    PROVE  Preds(W2, R2)'
<1>0. UntoldStays(W, W2, R, R2)  BY UntoldCut
<1>1. \A t : Untold(W2, R2, t) = Untold(W, R, t)  BY <1>0 DEF UntoldStays
<1>2. \A t : SuccUses(R2, t) = SuccUses(R, t) \ {r}  BY UsesFewer DEF UsesLess
<1>3. ASSUME NEW t \in Tasks PROVE PredsT(t, W2, R2)'
  <2>0. PredsT(t, W, R)  BY DEF Preds
  <2>1. IsFiniteSet(SuccUses(R2, t))
    <3>1. IsFiniteSet(SuccUses(R, t))  BY <2>0 DEF PredsT
    <3> QED  BY <1>2, <3>1, FS_Subset
  <2>k. NodeKeeps(t)  OBVIOUS
  <2>2. Tracked(W2, t)' => Tracked(W, t)  BY <2>k DEF Tracked, NodeKeeps
  <2>3. Tracked(W2, t)' => node'[t].npred = Cardinality(Untold(W2, R2, t))  BY <1>1, <2>0, <2>2, <2>k DEF PredsT, NodeKeeps
  <2>4. CASE t = x
    <3>1. Untold(W2, R2, t) = {}  BY <1>1, <2>0, <2>4 DEF PredsT
    <3> QED  BY <2>1, <2>3, <2>4, <3>1 DEF PredsT
  <2>5. CASE t # x
    <3>1. W2[t] = W[t] /\ R2[t] = R[t]  BY <2>5 DEF CutsAt
    <3>2. Untold(W2, R2, t) = Untold(W, R, t)  BY <1>1
    <3>3. node'[t].succ = node[t].succ  BY <2>k DEF NodeKeeps
    <3> QED  BY <2>0, <2>1, <2>3, <3>1, <3>2, <3>3 DEF PredsT
  <2> QED  BY <2>4, <2>5
<1>4. ASSUME NEW h \in Frames' PROVE PredsF(h, W2, R2)'
  <2>1. CASE h = g  BY <2>1 DEF PredsF
  <2>2. CASE h # g
    <3>1. h \in Frames /\ PredsF(h, W, R) /\ h.task # x /\ LocalOK(h) /\ h.task \in Descriptors
      BY <2>2, Others, FrameFacts DEF Preds
    <3>2. ASSUME h.pc \in {"succ", "push", "drop"} PROVE Mirror(h.todo, R2[h.task])
      <4>1. h.task \notin Threads  BY <3>1, <3>2 DEF LocalOK, Bodily, Creating
      <4>2. R2[h.task] = R[h.task]  BY <3>1, <4>1 DEF Descriptors, CutsAt
      <4> QED  BY <3>1, <3>2, <4>2 DEF PredsF
    <3>3. ASSUME h.pc \in {"link", "count"}
          PROVE  /\ node'[h.x].npred = Cardinality(Untold(W2, R2, h.x)) - 1 - h.n
                 /\ Cardinality(Untold(W2, R2, h.x)) <= h.n
      <4>1. h.x \in Tasks  BY <3>1, <3>3 DEF LocalOK, Creating
      <4>2. node'[h.x].npred = node[h.x].npred  BY <4>1 DEF NodeKeeps
      <4> QED  BY <1>1, <3>1, <3>3, <4>2 DEF PredsF
    <3> QED  BY <3>2, <3>3 DEF PredsF
  <2> QED  BY <2>1, <2>2
<1> QED  BY <1>3, <1>4 DEF Preds

----------------------------------------------------------------------------
(* Drop keeps the invariant. *)

\* A list can be cut.
LEMMA CutMade ==
    ASSUME NEW R, R \in [Tasks -> Seq(Tasks)], NEW x \in Tasks, R[x] # <<>>
    PROVE  \E R2 : CutsAt(R, R2, x) /\ R2 \in [Tasks -> Seq(Tasks)]
<1>q. PICK q : q = Front(R[x])  OBVIOUS
<1>1. Cut(R[x], q)  BY <1>q, CutFront
<1>2. q \in Seq(Tasks)  BY <1>1 DEF Cut
<1>3. CutsAt(R, [R EXCEPT ![x] = q], x) /\ [R EXCEPT ![x] = q] \in [Tasks -> Seq(Tasks)]  BY <1>1, <1>2 DEF CutsAt
<1> QED  BY <1>3

\* Drop keeps the invariant.
LEMMA DropAgain ==
    ASSUME NEW W, NEW K, NEW R, NEW H, NEW O, NEW B, NEW C, Inv(W, K, R, H, O, B, C), NEW th \in Threads, Drop(th)
    PROVE  Again
<1>f. PICK f : f = Top(th)  OBVIOUS
<1>1. Shape(W, K) /\ Counters(W, K, H, O) /\ Dependences(W, R, B, C) /\ Present(W, K) /\ Types /\ W \in [Tasks -> Places]
  BY InvParts DEF Shape
<1>a. Preds(W, R) /\ Nodes(W, R) /\ Order(W, R, B, C) /\ HashOwners(W)  BY <1>1 DEF Dependences
<1>0. f \in FrameRecords /\ f.pc = "drop" /\ f \in Frames /\ LocalOK(f) /\ f.todo \in Seq(Tasks)
  BY <1>1, <1>f, TopFacts, TopIn DEF Drop, At, FrameRecords
<1>y. f.todo # <<>>  BY <1>0 DEF LocalOK
<1>x. PICK x : x = f.task  OBVIOUS
<1>2. x \in Tasks /\ W[x] = "told"  BY <1>1, <1>0, <1>f, <1>x, TaskFrame DEF Finishing
<1>s. PICK s : s = Head(f.todo)  OBVIOUS
<1>m. Mirror(f.todo, R[x]) /\ R[x] \in Seq(Tasks)
  <2>1. PredsF(f, W, R)  BY <1>0, <1>a DEF Preds
  <2> QED  BY <1>0, <1>2, <1>a, <1>x, <2>1 DEF PredsF, Preds
<1>3. s \in Tasks /\ s = R[x][Len(R[x])] /\ Len(R[x]) \in 1..Len(R[x]) /\ R[x] # <<>>  BY <1>0, <1>y, <1>m, <1>s, FirstLeft
<1>r. PICK r : LastPair(R, x, r)  BY <1>3 DEF LastPair
<1>4. r \in SuccUses(R, s)
  <2>1. r \in {x} \X (1..Len(R[x])) /\ r[1] = x /\ r[2] = Len(R[x])  BY <1>r DEF LastPair
  <2>2. r \in UNION {{p} \X (1..Len(R[p])) : p \in Tasks}  BY <1>2, <2>1
  <2> QED  BY <1>3, <2>1, <2>2 DEF SuccUses
<1>5. node[s].state # "absent"
  <2>1. NodesT(s, W, R)  BY <1>3, <1>a DEF Nodes
  <2> QED  BY <1>4, <2>1 DEF NodesT
<1>R. PICK R2 : CutsAt(R, R2, x) /\ R2 \in [Tasks -> Seq(Tasks)]  BY <1>2, <1>3, <1>a, CutMade DEF Preds
<1>w. PICK W2 : Moved(W, W2, x, "succ")  BY DEF Moved
<1>6. W2 = [W EXCEPT ![f.task] = "succ"] /\ node[Head(f.todo)].state # "absent"  BY <1>w, <1>x, <1>s, <1>5 DEF Moved
<1>7. Shape(W2, K)'  BY <1>1, <1>6, <1>f, DropShape
<1>8. \E g : SetTop(th, g) /\ Lists(f, g, "succ", Tail(f.todo))  BY <1>1, <1>6, <1>f, DropShape
<1>n. Derefed(node[s], 1, node'[s]) /\ \A t \in Tasks : t # s => node'[t] = node[t]
  <2>1. node \in [Tasks -> DepnodeRecords]  BY <1>1 DEF Types, DataTypes
  <2>2. node' = [node EXCEPT ![s] = Deref(@, 1)]  BY <1>f, <1>s DEF Drop
  <2> QED  BY <1>3, <2>1, <2>2, DerefWrites
<1>g. PICK g : SetTop(th, g) /\ Lists(f, g, "succ", Tail(f.todo))  BY <1>8
<1>9. SetTop(th, g) /\ g \in FrameRecords /\ g.task = f.task /\ g.ip = f.ip /\ g.pc = "succ" /\ g.todo = Tail(f.todo)
  BY <1>g DEF Lists
<1>r2. Remade(f, {g})  BY <1>1, <1>f, <1>9, SetFrames
<1>v. W2[x] = "succ" /\ \A t \in Tasks : t # x => W2[t] = W[t]  BY <1>1, <1>2, <1>w, MovedFacts
<1>12. prog' = prog /\ deque' = deque /\ td' = td /\ groups' = groups /\ hash' = hash /\ proxy' = proxy  BY DEF Drop
<1>13. SameTd  BY <1>1, <1>12, TdUnchanged DEF Types, DataTypes
<1>14. Counters(W2, K, H, O)' /\ KeepsAbsent(W, W2) /\ ParentTd /\ NodeTd
  <2>1. SamePhase(W, W2)  BY <1>2, <1>v DEF SamePhase, Endings
  <2> QED  BY <1>1, <1>f, <1>9, <1>12, <1>13, <2>1, CountersRest
<1>k. \A t \in Tasks : NodeKeeps(t)  BY <1>5, <1>n DEF NodeKeeps, Derefed
<1>15. Preds(W2, R2)'
  <2>1. Mirror(g.todo, R2[x])  BY <1>0, <1>y, <1>m, <1>9, <1>R, MirrorCut DEF CutsAt
  <2>2. g.task = x /\ f.task = x /\ g.pc = "succ"  BY <1>9, <1>x
  <2> QED  BY <1>1, <1>a, <1>2, <1>r, <1>R, <1>v, <1>k, <1>r2, <2>1, <2>2, DropPreds
<1>16. Nodes(W2, R2)'
  <2>0. UsesLess(R, R2, r)  BY <1>2, <1>r, <1>R, UsesFewer
  <2>1. ASSUME NEW t \in Tasks PROVE NodesT(t, W2, R2)'
    <3>0. NodesT(t, W, R) /\ ParentUses(t)' = ParentUses(t)  BY <1>a, <1>12, <1>14, ParentUsesSame DEF Nodes
    <3>1. UsesStay(W, W2, t)  BY <1>2, <1>v DEF UsesStay
    <3>2. CASE t = s
      <4>1. IsFiniteSet(SuccUses(R, t))  BY <1>a DEF Preds, PredsT
      <4>2. node[t] \in DepnodeRecords  BY <1>1 DEF Types, DataTypes
      <4>3. W[t] # "absent"
        <5>1. TaskOK(t, W[t])  BY <1>1 DEF Shape
        <5> QED  BY <1>5, <3>2, <5>1 DEF TaskOK
      <4>4. Cardinality(ParentUses(t)) \in Nat  BY <1>1, <4>3, ParentUsesType
      <4>5. r \in SuccUses(R, t) /\ Derefed(node[t], 1, node'[t])  BY <1>4, <1>n, <3>2
      <4> QED  BY <1>12, <2>0, <3>0, <3>1, <4>1, <4>2, <4>4, <4>5, DropNode
    <3>3. CASE t # s
      <4>1. r \notin SuccUses(R, t)
        <5>1. ASSUME r \in SuccUses(R, t) PROVE FALSE
          <6>1. R[r[1]][r[2]] = t  BY <5>1, SuccUsesIn
          <6>2. r[1] = x /\ r[2] = Len(R[x])  BY <1>r DEF LastPair
          <6> QED  BY <1>3, <3>3, <6>1, <6>2
        <5> QED  BY <5>1
      <4>2. SuccUses(R2, t) = SuccUses(R, t)  BY <2>0, <4>1 DEF UsesLess
      <4>3. node'[t] = node[t]  BY <1>n, <3>3
      <4>4. NodesT(t, W2, R)'  BY <1>12, <3>0, <3>1, <4>3, NodesTStay
      <4> QED  BY <4>2, <4>4 DEF NodesT
    <3> QED  BY <3>2, <3>3
  <2>2. \A d \in Descriptors : NodesD(d)'  BY <1>a, <1>12, <1>14, NodesDSame DEF Nodes
  <2>3. ASSUME NEW h \in Frames' PROVE NodesF(h)'
    <3>1. CASE h = g  BY <1>9, <3>1 DEF NodesF
    <3>2. CASE h # g
      <4>1. NodesF(h)  BY <1>a, <1>r2, <3>2 DEF Nodes, Remade
      <4> QED  BY <1>12, <4>1, NodesFSame
    <3> QED  BY <3>1, <3>2
  <2> QED  BY <2>1, <2>2, <2>3 DEF Nodes
<1>17. Order(W2, R2, B, C)'
  <2>1. g.pc # "link"  BY <1>9
  <2>2. Order(W2, R, B, C)'  BY <1>a, <1>14, <1>r2, <2>1, OrderRest
  <2> QED  BY <1>2, <1>R, <2>2, OrderCut
<1>18. HashOwners(W2)'
  <2>1. \A d \in Tasks : W[d] \in Hashing => W2[d] \in Hashing  BY <1>2, <1>v DEF Hashing
  <2>2. \A h \in Frames' : h \in Frames \/ h.pc # "barrier"  BY <1>r2, <1>9 DEF Remade
  <2> QED  BY <1>a, <1>12, <2>1, <2>2, HashOwnersStep
<1>19. Present(W2, K)'
  <2>1. Only(f)  BY <1>0, OnlyOwn DEF Creating
  <2>2. \A t \in Tasks : t # f.task => W2[t] = W[t] /\ K[t] = K[t]  BY <1>v, <1>x
  <2>3. f.task \in Tasks => W2[f.task] \notin Makers \union {"queue"}  BY <1>v, <1>x DEF Makers
  <2> QED  BY <1>1, <1>r2, <1>9, <1>12, <2>1, <2>2, <2>3, PresentOwn
<1> QED  BY <1>7, <1>14, <1>15, <1>16, <1>17, <1>18, <1>19, AgainFrom DEF Dependences

----------------------------------------------------------------------------
(* The list of a predecessor grows by the new task. *)

\* A list gets one more member.
Grown(r, r2, x) == /\ r2 \in Seq(Tasks) /\ Len(r) \in Nat /\ Len(r2) = Len(r) + 1 /\ r2[Len(r) + 1] = x
                   /\ \A i \in 1..Len(r) : r2[i] = r[i]

\* A list with one more element has grown.
LEMMA GrownBy ==
    ASSUME NEW r \in Seq(Tasks), NEW x \in Tasks
    PROVE  Grown(r, Append(r, x), x)
BY AppendProperties, LenNat DEF Grown

\* Growing a list, seen from its other end.
LEMMA MirrorGrown ==
    ASSUME NEW s \in Seq(Tasks), NEW x \in Tasks, NEW r, Mirror(s, r), NEW r2, Grown(r, r2, x)
    PROVE  Mirror(<<x>> \o s, r2)
<1>q. PICK q : q = <<x>> \o s  OBVIOUS
<1>n. PICK n \in Nat : n = Len(s)  BY LenNat
<1>1. Len(q) = n + 1 /\ q[1] = x /\ \A i \in 1..n : q[i + 1] = s[i]  BY <1>q, <1>n, Consed
<1>2. Len(r) = n /\ Len(r2) = n + 1 /\ r2[n + 1] = x /\ \A i \in 1..n : r2[i] = r[i]  BY <1>n DEF Mirror, Grown
<1>3. ASSUME NEW i \in 1..n + 1 PROVE q[i] = r2[n + 1 + 1 - i]
  <2>1. CASE i = 1
    <3>1. n + 1 + 1 - 1 = n + 1  OBVIOUS
    <3> QED  BY <1>1, <1>2, <2>1, <3>1
  <2>2. CASE i # 1
    <3>j. PICK j \in 1..n : i = j + 1
      <4>1. i - 1 \in 1..n /\ i = (i - 1) + 1  BY <2>2
      <4> QED  BY <4>1
    <3>1. q[j + 1] = s[j] /\ s[j] = r[n + 1 - j]  BY <1>1, <1>n DEF Mirror
    <3>2. n + 1 - j \in 1..n /\ n + 1 + 1 - (j + 1) = n + 1 - j  OBVIOUS
    <3>3. r2[n + 1 - j] = r[n + 1 - j]  BY <1>2, <3>2
    <3>4. r2[n + 1 + 1 - i] = r2[n + 1 - j]  BY <3>j, <3>2
    <3> QED  BY <3>j, <3>1, <3>3, <3>4
  <2> QED  BY <2>1, <2>2
<1>4. Mirror(q, r2)  BY <1>1, <1>2, <1>3 DEF Mirror
<1> QED  BY <1>q, <1>4

GrowsAt(R, R2, p, x) == Grown(R[p], R2[p], x) /\ \A t \in Tasks : t # p => R2[t] = R[t]
NextPair(R, p, r) == r = <<p, Len(R[p]) + 1>> /\ Len(R[p]) \in Nat
UsesMore(R, R2, r, x) ==
    /\ SuccUses(R2, x) = SuccUses(R, x) \union {r} /\ r \notin SuccUses(R, x)
    /\ \A t : t # x => SuccUses(R2, t) = SuccUses(R, t)

\* The growth adds one use.
LEMMA UsesGrow ==
    ASSUME NEW R, NEW R2, NEW p \in Tasks, NEW x, GrowsAt(R, R2, p, x), NEW r, NextPair(R, p, r)
    PROVE  UsesMore(R, R2, r, x)
<1>n. PICK n \in Nat : n = Len(R[p])  BY DEF NextPair
<1>0. r = <<p, n + 1>> /\ Len(R2[p]) = n + 1 /\ R2[p][n + 1] = x /\ \A i \in 1..n : R2[p][i] = R[p][i]
  BY <1>n DEF NextPair, GrowsAt, Grown
<1>1. \A m \in Tasks : \A i \in 1..Len(R2[m]) : (i \in 1..Len(R[m]) /\ R2[m][i] = R[m][i]) \/ (m = p /\ i = n + 1)
  <2> SUFFICES ASSUME NEW m \in Tasks, NEW i \in 1..Len(R2[m])
               PROVE  (i \in 1..Len(R[m]) /\ R2[m][i] = R[m][i]) \/ (m = p /\ i = n + 1)
    OBVIOUS
  <2>1. CASE m = p
    <3>1. i \in 1..n \/ i = n + 1  BY <1>0, <2>1
    <3> QED  BY <1>0, <1>n, <2>1, <3>1
  <2>2. CASE m # p  BY <2>2 DEF GrowsAt
  <2> QED  BY <2>1, <2>2
<1>a. \A m \in Tasks : \A i \in 1..Len(R[m]) : i \in 1..Len(R2[m]) /\ R2[m][i] = R[m][i]
  <2> SUFFICES ASSUME NEW m \in Tasks, NEW i \in 1..Len(R[m]) PROVE i \in 1..Len(R2[m]) /\ R2[m][i] = R[m][i]  OBVIOUS
  <2>1. CASE m = p
    <3>1. i \in 1..n /\ i \in 1..n + 1  BY <1>n, <2>1
    <3> QED  BY <1>0, <2>1, <3>1
  <2>2. CASE m # p  BY <2>2 DEF GrowsAt
  <2> QED  BY <2>1, <2>2
<1>2. \A S : \A q : q \in UNION {{m} \X (1..Len(S[m])) : m \in Tasks} <=> \E m \in Tasks : \E i \in 1..Len(S[m]) : q = <<m, i>>
  OBVIOUS
<1>3. \A t, q : q \in SuccUses(R2, t) <=> \E m \in Tasks : \E i \in 1..Len(R2[m]) : q = <<m, i>> /\ R2[m][i] = t
  BY <1>2 DEF SuccUses
<1>4. \A t, q : q \in SuccUses(R, t) <=> \E m \in Tasks : \E i \in 1..Len(R[m]) : q = <<m, i>> /\ R[m][i] = t
  BY <1>2 DEF SuccUses
<1>5. \A t, q : q \in SuccUses(R2, t) <=> q \in SuccUses(R, t) \/ (q = r /\ t = x)
  <2> SUFFICES ASSUME NEW t, NEW q PROVE q \in SuccUses(R2, t) <=> q \in SuccUses(R, t) \/ (q = r /\ t = x)  OBVIOUS
  <2>1. ASSUME q \in SuccUses(R2, t) PROVE q \in SuccUses(R, t) \/ (q = r /\ t = x)
    <3>1. PICK m \in Tasks : \E i \in 1..Len(R2[m]) : q = <<m, i>> /\ R2[m][i] = t  BY <1>3, <2>1
    <3>2. PICK i \in 1..Len(R2[m]) : q = <<m, i>> /\ R2[m][i] = t  BY <3>1
    <3>3. (i \in 1..Len(R[m]) /\ R2[m][i] = R[m][i]) \/ (m = p /\ i = n + 1)  BY <1>1
    <3>4. CASE i \in 1..Len(R[m]) /\ R2[m][i] = R[m][i]  BY <1>4, <3>2, <3>4
    <3>5. CASE m = p /\ i = n + 1  BY <1>0, <3>2, <3>5
    <3> QED  BY <3>3, <3>4, <3>5
  <2>2. ASSUME q \in SuccUses(R, t) PROVE q \in SuccUses(R2, t)
    <3>1. PICK m \in Tasks : \E i \in 1..Len(R[m]) : q = <<m, i>> /\ R[m][i] = t  BY <1>4, <2>2
    <3>2. PICK i \in 1..Len(R[m]) : q = <<m, i>> /\ R[m][i] = t  BY <3>1
    <3>3. i \in 1..Len(R2[m]) /\ R2[m][i] = t  BY <1>a, <3>2
    <3> QED  BY <1>3, <3>2, <3>3
  <2>3. ASSUME q = r /\ t = x PROVE q \in SuccUses(R2, t)
    <3>1. n + 1 \in 1..Len(R2[p]) /\ R2[p][n + 1] = t /\ q = <<p, n + 1>>  BY <1>0, <2>3
    <3> QED  BY <1>3, <3>1
  <2> QED  BY <2>1, <2>2, <2>3
<1>6. r \notin SuccUses(R, x)
  <2>1. ASSUME r \in SuccUses(R, x) PROVE FALSE
    <3>1. PICK m \in Tasks : \E i \in 1..Len(R[m]) : r = <<m, i>>  BY <1>4, <2>1
    <3>2. PICK i \in 1..Len(R[m]) : r = <<m, i>>  BY <3>1
    <3>3. m = p /\ i = n + 1 /\ n + 1 \notin 1..n  BY <1>0, <3>2
    <3> QED  BY <1>n, <3>2, <3>3
  <2> QED  BY <2>1
<1>7. SuccUses(R2, x) = SuccUses(R, x) \union {r}  BY <1>5
<1>8. ASSUME NEW t, t # x PROVE SuccUses(R2, t) = SuccUses(R, t)
  <2>1. \A q : q \in SuccUses(R2, t) <=> q \in SuccUses(R, t)  BY <1>5, <1>8
  <2>2. SuccUses(R2, t) \subseteq SuccUses(R, t) /\ SuccUses(R, t) \subseteq SuccUses(R2, t)  BY <2>1
  <2> QED  BY <2>2
<1> QED  BY <1>6, <1>7, <1>8 DEF UsesMore

UntoldMore(W, R, R2, r, x) ==
    /\ Untold(W, R2, x) = Untold(W, R, x) \union {r} /\ r \notin Untold(W, R, x)
    /\ \A t : t # x => Untold(W, R2, t) = Untold(W, R, t)

\* The use added is untold.
LEMMA UntoldGrow ==
    ASSUME NEW W, NEW R, NEW R2, NEW p \in Tasks, NEW x, GrowsAt(R, R2, p, x), NEW r, NextPair(R, p, r), W[p] # "told"
    PROVE  UntoldMore(W, R, R2, r, x)
<1>1. UsesMore(R, R2, r, x)  BY UsesGrow
<1>2. \A q : q[1] \in Tasks =>
        ((W[q[1]] = "told" => q[2] # Len(R2[q[1]])) <=> (W[q[1]] = "told" => q[2] # Len(R[q[1]])))
  BY DEF GrowsAt
<1>3. \A t : \A q \in SuccUses(R, t) : q[1] \in Tasks  BY SuccUsesIn
<1>4. r[1] = p  BY DEF NextPair
<1>5. ASSUME NEW t PROVE Untold(W, R2, t) = {q \in SuccUses(R2, t) : W[q[1]] = "told" => q[2] # Len(R[q[1]])}
  <2>1. \A q \in SuccUses(R2, t) : q[1] \in Tasks  BY SuccUsesIn
  <2> QED  BY <1>2, <2>1 DEF Untold
<1>6. Untold(W, R2, x) = Untold(W, R, x) \union {r}  BY <1>1, <1>4, <1>5 DEF UsesMore, Untold
<1>7. \A t : t # x => Untold(W, R2, t) = Untold(W, R, t)  BY <1>1, <1>5 DEF UsesMore, Untold
<1>8. r \notin Untold(W, R, x)  BY <1>1 DEF UsesMore, Untold
<1> QED  BY <1>6, <1>7, <1>8 DEF UntoldMore

----------------------------------------------------------------------------
(* The new task counts the predecessor and gets the reference of its list. *)

\* One reference and one predecessor more.
LEMMA OneMore ==
    /\ \A e, u, p \in Nat : \A n \in Int : n = e + u + p => n + 1 = e + (u + 1) + p /\ (e = 1 => n # 0 /\ n + 1 # 0)
    /\ \A u, n \in Nat : \A k \in Int : k = u - 1 - n /\ u <= n => k = (u + 1) - 1 - (n + 1) /\ u + 1 <= n + 1
OBVIOUS

\* A node that is being linked gets one more reference from a list.
LEMMA GrowNode ==
    ASSUME NEW W, NEW R, NEW R2, NEW t \in Tasks, NodesT(t, W, R), node[t] \in DepnodeRecords, W[t] = "linking",
           node[t].state # "absent", NEW r, UsesMore(R, R2, r, t), IsFiniteSet(SuccUses(R, t)),
           Cardinality(ParentUses(t)) \in Nat, node'[t].state = node[t].state, node'[t].nrefs = node[t].nrefs + 1,
           prog' = prog, ParentUses(t)' = ParentUses(t)
    PROVE  NodesT(t, W, R2)'
<1>1. SuccUses(R2, t) = SuccUses(R, t) \union {r} /\ r \notin SuccUses(R, t)  BY DEF UsesMore
<1>u. PICK u \in Nat : u = Cardinality(SuccUses(R, t))  BY FS_CardinalityType
<1>2. Cardinality(SuccUses(R2, t)) = u + 1
  <2>1. Cardinality(SuccUses(R, t) \union {r}) = Cardinality(SuccUses(R, t)) + 1  BY <1>1, FS_AddElement
  <2> QED  BY <1>1, <1>u, <2>1
<1>p. PICK p \in Nat : p = Cardinality(ParentUses(t))  OBVIOUS
<1>n. PICK n \in Int : n = node[t].nrefs  BY DEF DepnodeRecords
<1>3. SelfUse(W, t) = 1 /\ SelfUse(W, t)' = 1 /\ Kind(t)' = Kind(t)  BY DEF SelfUse, Kind
<1>4. n = 1 + u + p  BY <1>u, <1>p, <1>n, <1>3 DEF NodesT
<1>5. n + 1 = 1 + (u + 1) + p /\ n # 0 /\ n + 1 # 0  BY <1>4, OneMore
<1>6. node'[t].nrefs = n + 1 /\ Cardinality(ParentUses(t)') = p  BY <1>n, <1>p
<1>7. node'[t].nrefs = SelfUse(W, t)' + Cardinality(SuccUses(R2, t)) + Cardinality(ParentUses(t)')
  BY <1>2, <1>3, <1>5, <1>6
<1>8. CASE Kind(t) # "if0"
  <2>1. node[t].state = "live"  BY <1>5, <1>8, <1>n DEF NodesT
  <2> QED  BY <1>3, <1>5, <1>6, <1>7, <1>8, <2>1 DEF NodesT
<1>9. CASE Kind(t) = "if0"
  <2>1. node[t].state = "live"  BY <1>9 DEF NodesT
  <2> QED  BY <1>3, <1>7, <1>9, <2>1 DEF NodesT
<1> QED  BY <1>8, <1>9

\* The other frames do not hold the task.
LEMMA OtherHolds ==
    ASSUME NEW W, NEW K, Shape(W, K), NEW f, NEW g, Remade(f, {g}), NEW x \in Tasks, Holds(f, x), NEW h \in Frames', h # g
    PROVE  h \in Frames /\ ~Holds(h, x)
BY Others

\* x becomes a successor of p.
LEMMA LinkPreds ==
    ASSUME NEW W, NEW K, Shape(W, K), NEW R, Preds(W, R), NEW p \in Tasks, NEW x \in Tasks, p # x, W[x] = "linking",
           W[p] \notin {"succ", "told", "free", "gone"}, NEW R2 \in [Tasks -> Seq(Tasks)], GrowsAt(R, R2, p, x),
           NEW r, NextPair(R, p, r), LinkedFacts(p, x), node[p].succ \in Seq(Tasks), node[x].npred \in Int,
           NEW f, NEW g, Remade(f, {g}), f.pc = "link", f.x = x, g.pc = "link", g.x = x, f.n \in Nat, g.n = f.n + 1
    PROVE  Preds(W, R2)'
<1>1. UntoldMore(W, R, R2, r, x)  BY UntoldGrow
<1>2. UsesMore(R, R2, r, x)  BY UsesGrow
<1>u. /\ Untold(W, R2, x) = Untold(W, R, x) \union {r} /\ r \notin Untold(W, R, x)
      /\ \A t : t # x => Untold(W, R2, t) = Untold(W, R, t)
  BY <1>1 DEF UntoldMore
<1>s. /\ SuccUses(R2, x) = SuccUses(R, x) \union {r}
      /\ \A t : t # x => SuccUses(R2, t) = SuccUses(R, t)
  BY <1>2 DEF UsesMore
<1>g. Grown(R[p], R2[p], x) /\ \A t \in Tasks : t # p => R2[t] = R[t]  BY DEF GrowsAt
<1>n. \A t \in Tasks : /\ node'[t].npred = node[t].npred /\ node'[t].state = node[t].state
                       /\ node'[t].succ = IF t = p THEN <<x>> \o node[t].succ ELSE node[t].succ
  BY DEF LinkedFacts
<1>3. ASSUME NEW t \in Tasks PROVE PredsT(t, W, R2)'
  <2>0. PredsT(t, W, R)  BY DEF Preds
  <2>1. CASE t = x
    <3>1. R2[t] = R[t] /\ node'[t].succ = node[t].succ  BY <1>g, <1>n, <2>1
    <3>2. Mirror(node[t].succ, R[t])  BY <2>0, <2>1 DEF PredsT
    <3>3. IsFiniteSet(SuccUses(R2, t))
      <4>1. IsFiniteSet(SuccUses(R, t))  BY <2>0 DEF PredsT
      <4>2. IsFiniteSet(SuccUses(R, t) \union {r})  BY <4>1, FS_AddElement
      <4> QED  BY <1>s, <2>1, <4>2
    <3> QED  BY <2>1, <3>1, <3>2, <3>3 DEF PredsT, Tracked
  <2>2. CASE t = p
    <3>1. Mirror(node[t].succ, R[t])  BY <2>0, <2>2 DEF PredsT
    <3>2. Mirror(<<x>> \o node[t].succ, R2[t])  BY <1>g, <2>2, <3>1, MirrorGrown
    <3>3. Mirror(node'[t].succ, R2[t])  BY <1>n, <2>2, <3>2
    <3>4. Untold(W, R2, t) = Untold(W, R, t) /\ SuccUses(R2, t) = SuccUses(R, t)  BY <1>u, <1>s, <2>2
    <3>5. Tracked(W, t)' <=> Tracked(W, t)  BY <1>n DEF Tracked
    <3> QED  BY <1>n, <2>0, <2>2, <3>3, <3>4, <3>5 DEF PredsT
  <2>3. CASE t # x /\ t # p
    <3>1. R2[t] = R[t] /\ node'[t].succ = node[t].succ  BY <1>g, <1>n, <2>3
    <3>2. Untold(W, R2, t) = Untold(W, R, t) /\ SuccUses(R2, t) = SuccUses(R, t)  BY <1>u, <1>s, <2>3
    <3>3. Tracked(W, t)' <=> Tracked(W, t)  BY <1>n DEF Tracked
    <3> QED  BY <1>n, <2>0, <3>1, <3>2, <3>3 DEF PredsT
  <2> QED  BY <2>1, <2>2, <2>3
<1>4. ASSUME NEW h \in Frames' PROVE PredsF(h, W, R2)'
  <2>1. CASE h = g
    <3>0. PredsT(x, W, R)  BY DEF Preds
    <3>u. PICK u \in Nat : u = Cardinality(Untold(W, R, x))  BY <3>0, UntoldType
    <3>1. PredsF(f, W, R)  BY DEF Preds, Remade
    <3>2. node[x].npred = u - 1 - f.n /\ u <= f.n  BY <3>u, <3>1 DEF PredsF
    <3>3. Cardinality(Untold(W, R2, x)) = u + 1
      <4>1. IsFiniteSet(Untold(W, R, x))  BY <3>0, UntoldType
      <4>2. Cardinality(Untold(W, R, x) \union {r}) = Cardinality(Untold(W, R, x)) + 1  BY <1>u, <4>1, FS_AddElement
      <4> QED  BY <1>u, <3>u, <4>2
    <3>k. PICK k \in Int : k = node[x].npred  OBVIOUS
    <3>m. PICK n \in Nat : n = f.n  OBVIOUS
    <3>4. k = u - 1 - n /\ u <= n  BY <3>2, <3>k, <3>m
    <3>5. k = (u + 1) - 1 - (n + 1) /\ u + 1 <= n + 1  BY <3>4, OneMore
    <3>6. g.n = n + 1 /\ node'[x].npred = k  BY <1>n, <3>k, <3>m
    <3> QED  BY <2>1, <3>3, <3>5, <3>6 DEF PredsF
  <2>2. CASE h # g
    <3>1. h \in Frames /\ PredsF(h, W, R) /\ LocalOK(h) /\ FrameOK(h, W, K) /\ h.task \in Descriptors
      BY <2>2, Others, FrameFacts DEF Preds
    <3>2. ASSUME h.pc \in {"succ", "push", "drop"} PROVE Mirror(h.todo, R2[h.task])
      <4>1. h.task \in Tasks  BY <3>1, <3>2 DEF LocalOK, Bodily, Creating, Descriptors
      <4>2. W[h.task] \in {"succ", "told"}  BY <3>1, <3>2, <4>1 DEF FrameOK, Place, Bodily, Creating
      <4>3. R2[h.task] = R[h.task]  BY <1>g, <4>1, <4>2
      <4> QED  BY <3>1, <3>2, <4>3 DEF PredsF
    <3>3. ASSUME h.pc \in {"link", "count"}
          PROVE  /\ node'[h.x].npred = Cardinality(Untold(W, R2, h.x)) - 1 - h.n
                 /\ Cardinality(Untold(W, R2, h.x)) <= h.n
      <4>1. h.x \in Tasks  BY <3>1, <3>3 DEF LocalOK, Creating
      <4>2. h.x # x
        <5>1. Holds(f, x)  BY DEF Holds, Makes, Creating
        <5>2. ~Holds(h, x)  BY <2>2, <5>1, OtherHolds
        <5> QED  BY <3>3, <5>2 DEF Holds, Makes, Creating
      <4>3. Untold(W, R2, h.x) = Untold(W, R, h.x) /\ node'[h.x].npred = node[h.x].npred  BY <1>u, <1>n, <4>1, <4>2
      <4> QED  BY <3>1, <3>3, <4>3 DEF PredsF
    <3> QED  BY <3>2, <3>3 DEF PredsF
  <2> QED  BY <2>1, <2>2
<1> QED  BY <1>3, <1>4 DEF Preds

----------------------------------------------------------------------------
(* Nobody precedes a task that was created before it. *)

\* A list can grow.
LEMMA GrownMade ==
    ASSUME NEW R, R \in [Tasks -> Seq(Tasks)], NEW p \in Tasks, NEW x \in Tasks
    PROVE  \E R2 \in [Tasks -> Seq(Tasks)] : GrowsAt(R, R2, p, x)
<1>q. PICK q : q = Append(R[p], x)  OBVIOUS
<1>0. R[p] \in Seq(Tasks)  OBVIOUS
<1>1. Grown(R[p], q, x)  BY <1>0, <1>q, GrownBy
<1>2. q \in Seq(Tasks)  BY <1>1 DEF Grown
<1>3. GrowsAt(R, [R EXCEPT ![p] = q], p, x) /\ [R EXCEPT ![p] = q] \in [Tasks -> Seq(Tasks)]  BY <1>1, <1>2 DEF GrowsAt
<1> QED  BY <1>3

\* The order stays when a task created later is listed.
LEMMA OrderGrown ==
    ASSUME NEW W, NEW R, NEW R2, NEW B, NEW C, Order(W, R, B, C)', NEW p \in Tasks, NEW x, GrowsAt(R, R2, p, x), B[p] < B[x]
    PROVE  Order(W, R2, B, C)'
<1>1. ASSUME NEW t \in Tasks, NEW k \in 1..Len(R2[t]) PROVE B[t] < B[R2[t][k]]
  <2>0. \A q \in Tasks : \A i \in 1..Len(R[q]) : B[q] < B[R[q][i]]  BY DEF Order
  <2>1. CASE t = p
    <3>n. PICK n \in Nat : n = Len(R[p])  BY DEF GrowsAt, Grown
    <3>1. Len(R2[p]) = n + 1 /\ R2[p][n + 1] = x /\ \A i \in 1..n : R2[p][i] = R[p][i]  BY <3>n DEF GrowsAt, Grown
    <3>2. k \in 1..n \/ k = n + 1  BY <2>1, <3>1
    <3>3. CASE k \in 1..n
      <4>1. k \in 1..Len(R[p]) /\ R2[p][k] = R[p][k]  BY <3>n, <3>1, <3>3
      <4> QED  BY <2>0, <2>1, <4>1
    <3>4. CASE k = n + 1  BY <2>1, <3>1, <3>4
    <3> QED  BY <3>2, <3>3, <3>4
  <2>2. CASE t # p
    <3>1. R2[t] = R[t]  BY <2>2 DEF GrowsAt
    <3> QED  BY <2>0, <3>1
  <2> QED  BY <2>1, <2>2
<1> QED  BY <1>1 DEF Order

\* The rest of the candidates is named too.
LEMMA TailIn ==
    ASSUME NEW todo \in Seq(Tasks), todo # <<>>, NEW e, \A k \in 1..Len(todo) : Names(e, todo[k])
    PROVE  Names(e, Head(todo)) /\ \A k \in 1..Len(Tail(todo)) : Names(e, Tail(todo)[k])
<1>n. PICK n \in Nat : n = Len(todo)  BY LenNat
<1>1. n >= 1 /\ Head(todo) = todo[1] /\ Len(Tail(todo)) = n - 1 /\ \A i \in 1..n - 1 : Tail(todo)[i] = todo[i + 1]
  BY <1>n, ListFacts
<1>2. Names(e, Head(todo))
  <2>1. 1 \in 1..n  BY <1>1
  <2> QED  BY <1>n, <1>1, <2>1
<1>3. ASSUME NEW k \in 1..n - 1 PROVE Names(e, Tail(todo)[k])
  <2>1. k + 1 \in 1..n  OBVIOUS
  <2>2. Tail(todo)[k] = todo[k + 1]  BY <1>1
  <2> QED  BY <1>n, <2>1, <2>2
<1> QED  BY <1>1, <1>2, <1>3

\* The thread goes on with the list of nodes it waits for.
LinkNext(f, g) ==
    /\ f.pc = "link" /\ g \in FrameRecords /\ g.task = f.task /\ g.ip = f.ip /\ g.pc = "link" /\ g.x = f.x
    /\ g.todo = Tail(f.todo) /\ g.dep = f.dep

\* The frame after a link.
LEMMA LinkFrame ==
    ASSUME NEW W, NEW R, NEW B, NEW f \in FrameRecords, NEW g, LinkNext(f, g), f.todo # <<>>, NodesF(f), OrderF(f, W, B),
           prog' = prog, hash' = hash, td' = td
    PROVE  /\ NodesF(g)' /\ OrderF(g, W, B)'
           /\ hash[f.task] # Null /\ Names(hash[f.task][Dep(f.x, f.dep).addr], Head(f.todo))
<1>e. PICK e : e = hash[f.task][Dep(f.x, f.dep).addr]  OBVIOUS
<1>0. f.todo \in Seq(Tasks)  BY DEF FrameRecords
<1>1. hash[f.task] # Null /\ \A k \in 1..Len(f.todo) : Names(e, f.todo[k])  BY <1>e DEF NodesF, LinkNext
<1>2. Names(e, Head(f.todo)) /\ \A k \in 1..Len(Tail(f.todo)) : Names(e, Tail(f.todo)[k])  BY <1>0, <1>1, TailIn
<1>3. Dep(f.x, f.dep)' = Dep(f.x, f.dep)  BY DEF Dep
<1>4. NodesF(g)'
  <2>1. hash'[g.task] = hash[f.task] /\ g.todo = Tail(f.todo) /\ Dep(g.x, g.dep)' = Dep(f.x, f.dep)  BY <1>3 DEF LinkNext, Dep
  <2>2. hash'[g.task][Dep(g.x, g.dep)'.addr] = e  BY <1>e, <2>1
  <2>3. \A k \in 1..Len(g.todo) : Names(e, g.todo[k])'  BY <1>2, <2>1 DEF Names
  <2> QED  BY <1>1, <2>1, <2>2, <2>3 DEF NodesF
<1>5. OrderF(g, W, B)'  BY DEF OrderF, LinkNext
<1> QED  BY <1>1, <1>2, <1>e, <1>4, <1>5

----------------------------------------------------------------------------
(* Link keeps the invariant. *)

\* Link keeps the invariant.
LEMMA LinkAgain ==
    ASSUME NEW W, NEW K, NEW R, NEW H, NEW O, NEW B, NEW C, Inv(W, K, R, H, O, B, C), NEW th \in Threads, Link(th)
    PROVE  Again
<1>f. PICK f : f = Top(th)  OBVIOUS
<1>1. Shape(W, K) /\ Counters(W, K, H, O) /\ Dependences(W, R, B, C) /\ Present(W, K) /\ Types /\ W \in [Tasks -> Places]
  BY InvParts DEF Shape
<1>a. Preds(W, R) /\ Nodes(W, R) /\ Order(W, R, B, C) /\ HashOwners(W)  BY <1>1 DEF Dependences
<1>0. f \in FrameRecords /\ f \in Frames /\ LocalOK(f) /\ f.todo \in Seq(Tasks) /\ f.task \in Descriptors /\ f.n \in Nat
  BY <1>1, <1>f, TopFacts, TopIn DEF FrameRecords
<1>x. PICK x : x = f.x  OBVIOUS
<1>p. PICK p : p = Head(f.todo)  OBVIOUS
<1>2. Shape(W, K)' /\ f.pc = "link" /\ x \in Tasks /\ W[x] = "linking" /\ f.todo # <<>> /\ p \in Tasks
  BY <1>1, <1>f, <1>x, <1>p, LinkShape
<1>3. IF node[p].task THEN LinkedFacts(p, x) /\ p # x ELSE node' = node  BY <1>1, <1>f, <1>x, <1>p, LinkShape
<1>4. \E g : /\ SetTop(th, g) /\ Lists(f, g, f.pc, Tail(f.todo)) /\ g.dep = f.dep
             /\ g.n = IF node[p].task THEN f.n + 1 ELSE f.n
  BY <1>1, <1>f, <1>p, LinkShape
<1>g. PICK g : /\ SetTop(th, g) /\ Lists(f, g, f.pc, Tail(f.todo)) /\ g.dep = f.dep
               /\ g.n = IF node[p].task THEN f.n + 1 ELSE f.n
  BY <1>4
<1>5. /\ SetTop(th, g) /\ g \in FrameRecords /\ g.task = f.task /\ g.ip = f.ip /\ g.x = f.x /\ g.pc = "link"
      /\ g.todo = Tail(f.todo) /\ g.dep = f.dep
  BY <1>2, <1>g DEF Lists
<1>6. prog' = prog /\ deque' = deque /\ td' = td /\ groups' = groups /\ hash' = hash /\ proxy' = proxy  BY DEF Link
<1>r. Remade(f, {g})  BY <1>1, <1>f, <1>5, SetFrames
<1>7. SameTd  BY <1>1, <1>6, TdUnchanged DEF Types, DataTypes
<1>8. Counters(W, K, H, O)' /\ KeepsAbsent(W, W) /\ ParentTd /\ NodeTd
  <2>1. SamePhase(W, W)  BY DEF SamePhase
  <2> QED  BY <1>1, <1>f, <1>5, <1>6, <1>7, <2>1, CountersRest
<1>9. Present(W, K)'
  <2>1. f.pc \in Creating /\ g.pc \in Creating /\ W[f.x] = "linking"  BY <1>2, <1>5, <1>x DEF Creating
  <2> QED  BY <1>1, <1>f, <1>5, <1>6, <2>1, PresentMaker
<1>10. HashOwners(W)'
  <2>1. \A h \in Frames' : h \in Frames \/ h.pc # "barrier"  BY <1>r, <1>5 DEF Remade
  <2> QED  BY <1>a, <1>6, <2>1, HashOwnersStep
<1>11. /\ NodesF(g)' /\ OrderF(g, W, B)'
       /\ hash[f.task] # Null /\ Names(hash[f.task][Dep(f.x, f.dep).addr], p)
  <2>1. NodesF(f) /\ OrderF(f, W, B)  BY <1>0, <1>a DEF Nodes, Order
  <2>2. LinkNext(f, g)  BY <1>2, <1>5 DEF LinkNext
  <2>3. hash[f.task] # Null /\ Names(hash[f.task][Dep(f.x, f.dep).addr], Head(f.todo))
    BY <1>0, <1>2, <1>6, <2>1, <2>2, LinkFrame
  <2>4. NodesF(g)' /\ OrderF(g, W, B)'  BY <1>0, <1>2, <1>6, <2>1, <2>2, LinkFrame
  <2> QED  BY <1>p, <2>3, <2>4
<1>12. Order(W, R, B, C)'
  <2>1. \A h \in Frames' : h \in Frames \/ OrderF(h, W, B)'  BY <1>r, <1>11 DEF Remade
  <2> QED  BY <1>a, <1>8, <2>1, OrderSame
<1>d. \A d \in Descriptors : NodesD(d)'  BY <1>a, <1>6, <1>8, NodesDSame DEF Nodes
<1>e. ASSUME NEW h \in Frames' PROVE NodesF(h)'
  <2>1. CASE h = g  BY <1>11, <2>1
  <2>2. CASE h # g
    <3>1. NodesF(h)  BY <1>a, <1>r, <2>2 DEF Nodes, Remade
    <3> QED  BY <1>6, <3>1, NodesFSame
  <2> QED  BY <2>1, <2>2
<1>n. node \in [Tasks -> DepnodeRecords]
  BY <1>1 DEF Types, DataTypes
<1>13. CASE ~node[p].task
  <2>0. node' = node /\ g.n = f.n  BY <1>3, <1>g, <1>13
  <2>1. Preds(W, R)'
    <3>1. PredsF(f, W, R)  BY <1>0, <1>a DEF Preds
    <3>2. PredsF(g, W, R)'  BY <1>2, <1>5, <2>0, <3>1, <1>x DEF PredsF
    <3>3. SameRank(W, W)  BY DEF SameRank
    <3>4. \A h \in Frames' : h \in Frames \/ PredsF(h, W, R)'  BY <1>r, <3>2 DEF Remade
    <3> QED  BY <1>1, <1>a, <2>0, <3>3, <3>4, PredsSame
  <2>2. Nodes(W, R)'
    <3>1. ASSUME NEW t \in Tasks PROVE NodesT(t, W, R)'
      <4>1. NodesT(t, W, R) /\ ParentUses(t)' = ParentUses(t)  BY <1>a, <1>6, <1>8, ParentUsesSame DEF Nodes
      <4>2. UsesStay(W, W, t)  BY DEF UsesStay
      <4>3. node'[t].state = node[t].state /\ node'[t].nrefs = node[t].nrefs  BY <2>0
      <4> QED  BY <1>6, <4>1, <4>2, <4>3, NodesTStay
    <3> QED  BY <3>1, <1>d, <1>e DEF Nodes
  <2> QED  BY <1>2, <1>8, <1>9, <1>10, <1>12, <2>1, <2>2, AgainFrom DEF Dependences
<1>14. CASE node[p].task
  <2>0. LinkedFacts(p, x) /\ p # x /\ g.n = f.n + 1  BY <1>3, <1>g, <1>14
  <2>1. W[p] \notin {"absent", "succ", "told", "free", "gone"}
    <3>1. TaskOK(p, W[p])  BY <1>1, <1>2 DEF Shape
    <3> QED  BY <1>14, <3>1 DEF TaskOK
  <2>2. B[p] < B[x]
    <3>1. f.dep \in Kept(f.x)  BY <1>0, <1>2 DEF LocalOK
    <3>2. Dep(f.x, f.dep).addr \in Addrs  BY <1>1, <1>2, <1>x, <3>1, DepFacts
    <3>3. NodesD(f.task)  BY <1>0, <1>a DEF Nodes
    <3>4. td[p].parent = f.task  BY <1>2, <1>11, <3>2, <3>3 DEF NodesD
    <3>5. OrderF(f, W, B)  BY <1>0, <1>a DEF Order
    <3> QED  BY <1>2, <1>x, <2>0, <2>1, <3>4, <3>5 DEF OrderF
  <2>R. PICK R2 \in [Tasks -> Seq(Tasks)] : GrowsAt(R, R2, p, x)  BY <1>2, <1>a, GrownMade DEF Preds
  <2>r. PICK r : NextPair(R, p, r)
    <3>1. Len(R[p]) \in Nat  BY <2>R DEF GrowsAt, Grown
    <3> QED  BY <3>1 DEF NextPair
  <2>3. node[p] \in DepnodeRecords /\ node[x] \in DepnodeRecords  BY <1>2, <1>n
  <2>4. node[p].succ \in Seq(Tasks) /\ node[x].npred \in Int  BY <2>3 DEF DepnodeRecords
  <2>5. Preds(W, R2)'
    <3>1. f.pc = "link" /\ f.x = x /\ g.pc = "link" /\ g.x = x /\ f.n \in Nat  BY <1>0, <1>2, <1>5, <1>x
    <3> QED  BY <1>1, <1>a, <1>2, <1>r, <2>0, <2>1, <2>R, <2>r, <2>4, <3>1, LinkPreds
  <2>6. Nodes(W, R2)'
    <3>u. UsesMore(R, R2, r, x)  BY <1>2, <2>R, <2>r, UsesGrow
    <3>1. ASSUME NEW t \in Tasks PROVE NodesT(t, W, R2)'
      <4>1. NodesT(t, W, R) /\ ParentUses(t)' = ParentUses(t)  BY <1>a, <1>6, <1>8, ParentUsesSame DEF Nodes
      <4>2. CASE t = x
        <5>1. IsFiniteSet(SuccUses(R, t))  BY <1>a DEF Preds, PredsT
        <5>2. node'[t].state = node[t].state /\ node'[t].nrefs = node[t].nrefs + 1  BY <2>0, <4>2 DEF LinkedFacts
        <5>3. W[t] = "linking"  BY <1>2, <4>2
        <5>4. node[t].state # "absent"
          <6>1. TaskOK(t, W[t])  BY <1>1 DEF Shape
          <6> QED  BY <5>3, <6>1 DEF TaskOK
        <5>5. Cardinality(ParentUses(t)) \in Nat  BY <1>1, <5>3, ParentUsesType
        <5>6. UsesMore(R, R2, r, t) /\ node[t] \in DepnodeRecords  BY <3>u, <2>3, <4>2
        <5> QED  BY <1>6, <4>1, <5>1, <5>2, <5>3, <5>4, <5>5, <5>6, GrowNode
      <4>3. CASE t # x
        <5>1. SuccUses(R2, t) = SuccUses(R, t)  BY <3>u, <4>3 DEF UsesMore
        <5>2. node'[t].state = node[t].state /\ node'[t].nrefs = node[t].nrefs  BY <2>0, <4>3 DEF LinkedFacts
        <5>3. UsesStay(W, W, t)  BY DEF UsesStay
        <5>4. NodesT(t, W, R)'  BY <1>6, <4>1, <5>2, <5>3, NodesTStay
        <5> QED  BY <5>1, <5>4 DEF NodesT
      <4> QED  BY <4>2, <4>3
    <3> QED  BY <3>1, <1>d, <1>e DEF Nodes
  <2>7. Order(W, R2, B, C)'  BY <1>2, <1>12, <2>2, <2>R, OrderGrown
  <2> QED  BY <1>2, <1>8, <1>9, <1>10, <2>5, <2>6, <2>7, AgainFrom DEF Dependences
<1> QED  BY <1>13, <1>14

----------------------------------------------------------------------------
(* The uses of a task in a hash of which one entry changes. *)

RestUses(h, a, t) == {r \in HashUses(h, t) : r[1] # a}

\* A use in a hash is one in an entry.
LEMMA HashUsesIn ==
    \A h, t, q : q \in HashUses(h, t) <=> \E b \in Addrs : \E i \in Uses(h[b], t) : q = <<b, i>>
<1> SUFFICES ASSUME NEW h, NEW t, NEW q
             PROVE  q \in HashUses(h, t) <=> \E b \in Addrs : \E i \in Uses(h[b], t) : q = <<b, i>>
  OBVIOUS
<1>1. q \in HashUses(h, t) <=> \E b \in Addrs : q \in {b} \X Uses(h[b], t)  BY DEF HashUses
<1>2. \A b, S : q \in {b} \X S <=> \E i \in S : q = <<b, i>>  OBVIOUS
<1> QED  BY <1>1, <1>2

\* The uses in one entry, and those in the others.
LEMMA OneEntry ==
    ASSUME NEW h \in [Addrs -> Entries], NEW a \in Addrs, NEW t, NEW u, u = Cardinality(Uses(h[a], t)),
           NEW r, r = Cardinality(RestUses(h, a, t)), NEW p, p = Cardinality(HashUses(h, t))
    PROVE  u \in Nat /\ r \in Nat /\ p = r + u
<1>S. PICK S : S = {a} \X Uses(h[a], t)  OBVIOUS
<1>T. PICK T : T = RestUses(h, a, t)  OBVIOUS
<1>U. PICK U : U = HashUses(h, t)  OBVIOUS
<1>1. IsFiniteSet(Uses(h[a], t)) /\ u \in Nat  BY UsesFinite
<1>2. IsFiniteSet(U) /\ IsFiniteSet(T)
  <2>1. IsFiniteSet(U)  BY <1>U, HashUsesFinite
  <2>2. T \in SUBSET U  BY <1>T, <1>U DEF RestUses
  <2> QED  BY <2>1, <2>2, FS_Subset
<1>3. IsFiniteSet(S) /\ Cardinality(S) = u
  <2>1. IsFiniteSet({a}) /\ Cardinality({a}) = 1  BY FS_Singleton
  <2>2. IsFiniteSet({a} \X Uses(h[a], t)) /\ Cardinality({a} \X Uses(h[a], t)) = Cardinality({a}) * Cardinality(Uses(h[a], t))
    BY <1>1, <2>1, FS_Product
  <2>3. \A n \in Nat : 1 * n = n  OBVIOUS
  <2> QED  BY <1>1, <1>S, <2>1, <2>2, <2>3
<1>4. U = T \cup S
  <2>1. ASSUME NEW q \in U PROVE q \in T \cup S
    <3>1. PICK b \in Addrs : \E i \in Uses(h[b], t) : q = <<b, i>>  BY <1>U, <2>1, HashUsesIn
    <3>2. PICK i \in Uses(h[b], t) : q = <<b, i>>  BY <3>1
    <3>3. q[1] = b  BY <3>2
    <3>4. CASE b = a  BY <1>S, <3>2, <3>4
    <3>5. CASE b # a  BY <1>T, <1>U, <2>1, <3>3, <3>5 DEF RestUses
    <3> QED  BY <3>4, <3>5
  <2>2. ASSUME NEW q \in S PROVE q \in U
    <3>1. PICK i \in Uses(h[a], t) : q = <<a, i>>  BY <1>S, <2>2
    <3> QED  BY <1>U, <3>1, HashUsesIn
  <2>3. T \subseteq U  BY <1>T, <1>U DEF RestUses
  <2> QED  BY <2>1, <2>2, <2>3
<1>5. T \cap S = {}
  <2>1. \A q \in S : q[1] = a  BY <1>S
  <2>2. \A q \in T : q[1] # a  BY <1>T DEF RestUses
  <2> QED  BY <2>1, <2>2
<1>6. Cardinality(T \cup S) = Cardinality(T) + Cardinality(S) - Cardinality(T \cap S)  BY <1>2, <1>3, FS_Union
<1>7. Cardinality(T \cap S) = 0  BY <1>5, FS_EmptySet
<1>8. r \in Nat /\ r = Cardinality(T)  BY <1>2, <1>T, FS_CardinalityType
<1>9. p = r + u - 0  BY <1>3, <1>4, <1>6, <1>7, <1>8, <1>U
<1> QED  BY <1>1, <1>8, <1>9

EntrySet(h, h2, a, new) == h2 = [h EXCEPT ![a] = new]

\* A hash with one entry written.
LEMMA EntrySets ==
    ASSUME NEW h \in [Addrs -> Entries], NEW a \in Addrs, NEW new \in Entries, NEW h2, EntrySet(h, h2, a, new)
    PROVE  /\ h2 \in [Addrs -> Entries] /\ h2[a] = new /\ \A b \in Addrs : b # a => h2[b] = h[b]
           /\ h2 # Null
<1>1. h2 \in [Addrs -> Entries] /\ h2[a] = new /\ \A b \in Addrs : b # a => h2[b] = h[b]  BY DEF EntrySet
<1>2. a \in DOMAIN h2  BY <1>1
<1>3. h2 # Null
  <2>1. Null \in Seq(Tasks) /\ Len(Null) = 0  BY DEF Null
  <2>2. DOMAIN Null = 1..Len(Null)  BY <2>1
  <2>3. a \notin DOMAIN Null  BY <2>1, <2>2
  <2> QED  BY <1>2, <2>3
<1> QED  BY <1>1, <1>3

\* References move from the old entry to the new.
LEMMA EntryUses ==
    ASSUME NEW h \in [Addrs -> Entries], NEW a \in Addrs, NEW new \in Entries, NEW h2, EntrySet(h, h2, a, new), NEW t,
           NEW u, u = Cardinality(Uses(h[a], t)), NEW v, v = Cardinality(Uses(new, t)),
           NEW p, p = Cardinality(HashUses(h, t)), NEW q, q = Cardinality(HashUses(h2, t))
    PROVE  u \in Nat /\ v \in Nat /\ \E r \in Nat : p = r + u /\ q = r + v
<1>1. h2 \in [Addrs -> Entries] /\ h2[a] = new /\ \A b \in Addrs : b # a => h2[b] = h[b]  BY EntrySets
<1>2. RestUses(h2, a, t) = RestUses(h, a, t)
  <2>1. ASSUME NEW x PROVE x \in RestUses(h2, a, t) <=> x \in RestUses(h, a, t)
    <3>1. \A g : x \in RestUses(g, a, t) <=> \E b \in Addrs : b # a /\ \E i \in Uses(g[b], t) : x = <<b, i>>
      <4> SUFFICES ASSUME NEW g PROVE x \in RestUses(g, a, t) <=> \E b \in Addrs : b # a /\ \E i \in Uses(g[b], t) : x = <<b, i>>
        OBVIOUS
      <4>1. \A b, i : <<b, i>>[1] = b  OBVIOUS
      <4>2. x \in RestUses(g, a, t) <=> x \in HashUses(g, t) /\ x[1] # a  BY DEF RestUses
      <4> QED  BY <4>1, <4>2, HashUsesIn
    <3> QED  BY <1>1, <3>1
  <2> QED  BY <2>1 DEF RestUses
<1>r. PICK r : r = Cardinality(RestUses(h, a, t))  OBVIOUS
<1>3. u \in Nat /\ r \in Nat /\ p = r + u  BY <1>r, OneEntry
<1>4. v = Cardinality(Uses(h2[a], t)) /\ r = Cardinality(RestUses(h2, a, t))  BY <1>1, <1>2, <1>r
<1>5. v \in Nat /\ q = r + v  BY <1>1, <1>4, OneEntry
<1> QED  BY <1>3, <1>5

----------------------------------------------------------------------------
(* References and owners of an entered dependence. *)

\* The references lost by the old entry and gained by the new one.
LEMMA EnterCounts ==
    \A e, s, r, u, v \in Nat : \A n \in Int : n = e + s + (r + u) /\ (v # 0 => e = 1 \/ u # 0) =>
        /\ n - (u - v) = e + s + (r + v)
        /\ n - (u - v) = 0 => n = 0 \/ (u - v > 0 /\ n = u - v)
        /\ n - (u - v) # 0 => n # 0 /\ n # u - v
OBVIOUS

\* The node of a task that the old entry or the new one names.
LEMMA EnterNode ==
    ASSUME NEW W, NEW R, NEW t \in Tasks, NodesT(t, W, R), node[t] \in DepnodeRecords, Cardinality(SuccUses(R, t)) \in Nat,
           Kind(t) # "if0", node[t].state # "absent", NEW u \in Nat, NEW v \in Nat, NEW r \in Nat,
           Cardinality(ParentUses(t)) = r + u, Cardinality(ParentUses(t)') = r + v,
           Derefed(node[t], u - v, node'[t]), v # 0 => SelfUse(W, t) = 1 \/ u # 0, prog' = prog
    PROVE  NodesT(t, W, R)'
<1>e. PICK e \in Nat : e = SelfUse(W, t)  BY DEF SelfUse
<1>s. PICK s \in Nat : s = Cardinality(SuccUses(R, t))  OBVIOUS
<1>n. PICK n \in Int : n = node[t].nrefs  BY DEF DepnodeRecords
<1>1. SelfUse(W, t)' = e /\ Kind(t)' # "if0"  BY <1>e DEF SelfUse, Kind
<1>2. n = e + s + (r + u)  BY <1>e, <1>s, <1>n DEF NodesT
<1>3. v # 0 => e = 1 \/ u # 0  BY <1>e
<1>4. /\ n - (u - v) = e + s + (r + v)
      /\ n - (u - v) = 0 => n = 0 \/ (u - v > 0 /\ n = u - v)
      /\ n - (u - v) # 0 => n # 0 /\ n # u - v
  BY <1>2, <1>3, EnterCounts
<1>5. node[t].state = IF n = 0 THEN "freed" ELSE "live"  BY <1>n DEF NodesT
<1>6. node'[t].nrefs = n - (u - v) /\ node'[t].state = IF u - v > 0 /\ n = u - v THEN "freed" ELSE node[t].state
  BY <1>n DEF Derefed
<1>7. node'[t].state = IF node'[t].nrefs = 0 THEN "freed" ELSE "live"  BY <1>4, <1>5, <1>6
<1>8. node'[t].nrefs = SelfUse(W, t)' + Cardinality(SuccUses(R, t)) + Cardinality(ParentUses(t)')
  BY <1>1, <1>4, <1>6, <1>s
<1> QED  BY <1>1, <1>7, <1>8 DEF NodesT

\* The entries of the hash of d after the dependence of x.
EntersIn(h, a, new, x) ==
    /\ h \in [Addrs -> Entries] /\ a \in Addrs /\ new \in Entries
    /\ \A s \in Tasks : Names(new, s) => Names(h[a], s) \/ (s = x /\ Kind(s) # "if0")
TracksFor(x, d) == td[x].parent = d /\ (Kind(x) # "if0" => td[x].node)
NamesOf(new, d) == \A s \in Tasks : Names(new, s) => td[s].parent = d /\ td[s].node
Rehashed(d, h, h2) == h = hash[d] /\ h # Null /\ hash'[d] = h2 /\ \A e \in Descriptors : e # d => hash'[e] = hash[e]

\* The new entry names children of its owner.
LEMMA EnterD ==
    ASSUME NEW d \in Descriptors, NodesD(d), NEW h, NEW a, NEW new, NEW x \in Tasks, EntersIn(h, a, new, x),
           TracksFor(x, d), NEW h2, EntrySet(h, h2, a, new), Rehashed(d, h, h2), td' = td
    PROVE  NodesD(d)' /\ NamesOf(new, d)
<1>0. /\ td[x].parent = d /\ (Kind(x) # "if0" => td[x].node)
      /\ h = hash[d] /\ h # Null /\ hash'[d] = h2 /\ \A e \in Descriptors : e # d => hash'[e] = hash[e]
  BY DEF TracksFor, Rehashed
<1>1. h2 \in [Addrs -> Entries] /\ h2[a] = new /\ \A b \in Addrs : b # a => h2[b] = h[b]  BY EntrySets DEF EntersIn
<1>2. \A b \in Addrs : \A s \in Tasks : Names(h[b], s) => td[s].parent = d /\ td[s].node  BY <1>0 DEF NodesD
<1>3. \A s \in Tasks : Names(new, s) => td[s].parent = d /\ td[s].node  BY <1>0, <1>2 DEF EntersIn
<1>4. \A b \in Addrs : \A s \in Tasks : Names(h2[b], s) => td[s].parent = d /\ td[s].node  BY <1>1, <1>2, <1>3
<1>5. NodesD(d)'  BY <1>0, <1>4 DEF NodesD, Names
<1> QED  BY <1>3, <1>5 DEF NamesOf

\* The references of each node after Enter.
LEMMA EnterUsesOne ==
    ASSUME NEW W, NEW K, Shape(W, K), NEW R, Nodes(W, R), Preds(W, R), NEW d \in Descriptors, NEW h,
           NEW a, NEW new, NEW x \in Tasks, EntersIn(h, a, new, x), W[x] = "linking", NamesOf(new, d),
           NEW h2, EntrySet(h, h2, a, new), Rehashed(d, h, h2),
           td' = td, prog' = prog, NEW t \in Tasks, NEW k \in Int, k = Cardinality(Uses(h[a], t)) - Cardinality(Uses(new, t)),
           Derefed(node[t], k, node'[t])
    PROVE  NodesT(t, W, R)' /\ (node'[t].state = "absent" <=> node[t].state = "absent")
<1>r. h = hash[d] /\ h # Null /\ hash'[d] = h2 /\ \A e \in Descriptors : e # d => hash'[e] = hash[e]  BY DEF Rehashed
<1>s. \A s \in Tasks : Names(new, s) => td[s].parent = d /\ td[s].node  BY DEF NamesOf
<1>0. h \in [Addrs -> Entries] /\ a \in Addrs /\ new \in Entries /\ node[t] \in DepnodeRecords
  BY DEF EntersIn, Shape, Types, DataTypes
<1>u. PICK u \in Nat : u = Cardinality(Uses(h[a], t))  BY <1>0, UsesFinite
<1>v. PICK v \in Nat : v = Cardinality(Uses(new, t))  BY <1>0, UsesFinite
<1>1. NodesT(t, W, R) /\ NodesD(d) /\ PredsT(t, W, R) /\ TaskOK(t, W[t])  BY DEF Nodes, Preds, Shape
<1>2. u # 0 => Names(h[a], t) /\ td[t].parent = d /\ td[t].node
  <2>1. u # 0 => Names(h[a], t)  BY <1>0, <1>u, UsesFinite
  <2> QED  BY <1>0, <1>1, <1>r, <2>1 DEF NodesD
<1>3. v # 0 => Names(new, t) /\ td[t].parent = d /\ td[t].node
  <2>1. v # 0 => Names(new, t)  BY <1>0, <1>v, UsesFinite
  <2> QED  BY <1>s, <2>1
<1>4. CASE u = 0 /\ v = 0
  <2>0. \A i, j \in Nat : i = 0 /\ j = 0 => i - j = 0  OBVIOUS
  <2>k. k = 0  BY <1>4, <1>u, <1>v, <2>0
  <2>n. \A m \in Int : m - 0 = m  OBVIOUS
  <2>m. node[t].nrefs \in Int  BY <1>0 DEF DepnodeRecords
  <2>1. node'[t].nrefs = node[t].nrefs  BY <2>k, <2>n, <2>m DEF Derefed
  <2>2. node'[t].state = node[t].state  BY <2>k DEF Derefed
  <2>3. node[t].state = "absent" \/ Cardinality(ParentUses(t)') = Cardinality(ParentUses(t))
    <3>1. CASE td[t].parent = d
      <4>p. PICK p : p = Cardinality(HashUses(h, t))  OBVIOUS
      <4>q. PICK q : q = Cardinality(HashUses(h2, t))  OBVIOUS
      <4>1. \E r \in Nat : p = r + u /\ q = r + v  BY <1>0, <1>u, <1>v, <4>p, <4>q, EntryUses
      <4>2. p = q  BY <1>4, <4>1
      <4>3. h2 # Null  BY <1>0, EntrySets
      <4>4. ParentUses(t) = HashUses(h, t)  BY <1>r, <3>1 DEF ParentUses
      <4>5. ParentUses(t)' = HashUses(h2, t)
        <5>1. td'[t].parent = d /\ hash'[d] = h2  BY <1>r, <3>1
        <5> QED  BY <4>3, <5>1 DEF ParentUses, HashUses, Uses
      <4> QED  BY <4>p, <4>q, <4>2, <4>4, <4>5
    <3>2. CASE td[t].parent # d
      <4>1. ASSUME node[t].state # "absent" PROVE td[t].parent \in Descriptors
        <5>1. W[t] # "absent"  BY <1>1, <4>1 DEF TaskOK
        <5> QED  BY <5>1, ParentFacts
      <4>2. node[t].state = "absent" \/ ParentUses(t)' = ParentUses(t)
        <5>1. ASSUME td[t].parent \in Descriptors PROVE ParentUses(t)' = ParentUses(t)
          <6>1. hash'[td[t].parent] = hash[td[t].parent] /\ td'[t].parent = td[t].parent  BY <1>r, <3>2, <5>1
          <6> QED  BY <6>1 DEF ParentUses, HashUses, Uses
        <5> QED  BY <4>1, <5>1
      <4> QED  BY <4>2
    <3> QED  BY <3>1, <3>2
  <2>4. SelfUse(W, t)' = SelfUse(W, t) /\ Kind(t)' = Kind(t)  BY DEF SelfUse, Kind
  <2> QED  BY <1>1, <2>1, <2>2, <2>3, <2>4 DEF NodesT
<1>5. CASE u # 0 \/ v # 0
  <2>1. td[t].parent = d /\ td[t].node  BY <1>2, <1>3, <1>5
  <2>2. node[t].state # "absent" /\ Kind(t) # "if0"  BY <1>1, <2>1 DEF TaskOK
  <2>3. Cardinality(SuccUses(R, t)) \in Nat  BY <1>1, UntoldType
  <2>p. PICK p : p = Cardinality(HashUses(h, t))  OBVIOUS
  <2>q. PICK q : q = Cardinality(HashUses(h2, t))  OBVIOUS
  <2>4. \E r \in Nat : p = r + u /\ q = r + v  BY <1>0, <1>u, <1>v, <2>p, <2>q, EntryUses
  <2>r. PICK r \in Nat : p = r + u /\ q = r + v  BY <2>4
  <2>5. h2 # Null  BY <1>0, EntrySets
  <2>6. ParentUses(t) = HashUses(h, t)  BY <1>r, <2>1 DEF ParentUses
  <2>7. ParentUses(t)' = HashUses(h2, t)
    <3>1. td'[t].parent = d /\ hash'[d] = h2  BY <1>r, <2>1
    <3> QED  BY <2>5, <3>1 DEF ParentUses, HashUses, Uses
  <2>8. Cardinality(ParentUses(t)) = r + u /\ Cardinality(ParentUses(t)') = r + v  BY <2>p, <2>q, <2>r, <2>6, <2>7
  <2>9. v # 0 => SelfUse(W, t) = 1 \/ u # 0
    <3>1. ASSUME v # 0, u = 0 PROVE SelfUse(W, t) = 1
      <4>1. ~Names(h[a], t) \/ t = x
        <5>1. CASE t = x  BY <5>1
        <5>2. CASE t # x
          <6>1. Names(h[a], t)  BY <1>3, <3>1, <5>2 DEF EntersIn
          <6>2. \E i \in Uses(h[a], t) : TRUE
            <7>1. CASE t = h[a].out
              <8>1. 0 \in Uses(h[a], t)  BY <1>0, <7>1 DEF Uses, Entries
              <8> QED  BY <8>1
            <7>2. CASE \E i \in 1..Len(h[a].ins) : t = h[a].ins[i]
              <8>1. PICK i \in 1..Len(h[a].ins) : t = h[a].ins[i]  BY <7>2
              <8>2. i \in 0..Len(h[a].ins) /\ i # 0  OBVIOUS
              <8>3. i \in Uses(h[a], t)  BY <8>1, <8>2 DEF Uses
              <8> QED  BY <8>3
            <7> QED  BY <6>1, <7>1, <7>2 DEF Names
          <6>3. IsFiniteSet(Uses(h[a], t))  BY <1>0, UsesFinite
          <6>4. u # 0  BY <1>u, <6>2, <6>3, FS_EmptySet
          <6> QED  BY <3>1, <6>4
        <5> QED  BY <5>1, <5>2
      <4>2. t = x
        <5>1. CASE t # x
          <6>1. Names(h[a], t)  BY <1>3, <3>1, <5>1 DEF EntersIn
          <6> QED  BY <4>1, <6>1
        <5> QED  BY <5>1
      <4> QED  BY <4>2 DEF SelfUse
    <3> QED  BY <3>1
  <2>10. Derefed(node[t], u - v, node'[t])  BY <1>u, <1>v
  <2>11. NodesT(t, W, R)'  BY <1>0, <1>1, <2>2, <2>3, <2>8, <2>9, <2>10, EnterNode
  <2>12. node'[t].state # "absent"  BY <2>2, <2>10 DEF Derefed
  <2> QED  BY <2>2, <2>11, <2>12
<1> QED  BY <1>4, <1>5

----------------------------------------------------------------------------
(* Enter keeps the invariant. *)

\* What Enter does, with its entries named.
EntryData(f, h, a, new, h2) ==
    /\ h = hash[f.task] /\ a = Dep(f.x, f.dep).addr /\ new = Entered(h[a], Dep(f.x, f.dep), f.x)
    /\ EntersIn(h, a, new, f.x) /\ EntrySet(h, h2, a, new)
    /\ hash' = [hash EXCEPT ![f.task] = h2]
    /\ \A t \in Tasks :
         Derefed(node[t], Cardinality(Uses(h[a], t)) - Cardinality(Uses(new, t)), node'[t])

\* What Enter writes, named.
LEMMA EntersNamed ==
    ASSUME NEW f, EnterFacts(f), f.x \in Tasks
    PROVE  \E h, a, new, h2 : EntryData(f, h, a, new, h2)
<1>h. PICK h : h = hash[f.task]  OBVIOUS
<1>d. PICK d : d = Dep(f.x, f.dep)  OBVIOUS
<1>a. PICK a : a = d.addr  OBVIOUS
<1>n. PICK new : new = Entered(h[a], d, f.x)  OBVIOUS
<1>2. PICK h2 : h2 = [h EXCEPT ![a] = new]  BY Zenon
<1>1. h \in [Addrs -> Entries] /\ a \in Addrs /\ new \in Entries  BY <1>h, <1>d, <1>a, <1>n DEF EnterFacts
<1>3. h[a] \in Entries  BY <1>1
<1>4. \A s \in Tasks : Names(new, s) => Names(h[a], s) \/ (s = f.x /\ Kind(s) # "if0")  BY <1>3, <1>n, EnteredType
<1>5. EntersIn(h, a, new, f.x)  BY <1>1, <1>4 DEF EntersIn
<1>6. hash' = [hash EXCEPT ![f.task] = h2]  BY <1>h, <1>d, <1>a, <1>n, <1>2 DEF EnterFacts
<1>7. \A t \in Tasks : Derefed(node[t], Cardinality(Uses(h[a], t)) - Cardinality(Uses(new, t)), node'[t])
  BY <1>h, <1>d, <1>a, <1>n DEF EnterFacts
<1>8. EntryData(f, h, a, new, h2)  BY <1>h, <1>d, <1>a, <1>n, <1>2, <1>5, <1>6, <1>7 DEF EntryData, EntrySet
<1> QED  BY <1>8

\* Enter keeps the invariant.
LEMMA EnterAgain ==
    ASSUME NEW W, NEW K, NEW R, NEW H, NEW O, NEW B, NEW C, Inv(W, K, R, H, O, B, C), NEW th \in Threads, Enter(th)
    PROVE  Again
<1>f. PICK f : f = Top(th)  OBVIOUS
<1>1. Shape(W, K) /\ Counters(W, K, H, O) /\ Dependences(W, R, B, C) /\ Present(W, K) /\ Types /\ W \in [Tasks -> Places]
  BY InvParts DEF Shape
<1>a. Preds(W, R) /\ Nodes(W, R) /\ Order(W, R, B, C) /\ HashOwners(W)  BY <1>1 DEF Dependences
<1>0. f \in FrameRecords /\ f \in Frames /\ f.task \in Descriptors /\ f.pc = "link"
  BY <1>1, <1>f, TopFacts, TopIn, Zenon DEF Enter, At
<1>h. hash[f.task] # Null
  <2>1. NodesF(f)  BY <1>0, <1>a DEF Nodes
  <2> QED  BY <1>0, <2>1 DEF NodesF
<1>k. HashPresent(f.task)
  <2>1. NodesD(f.task)  BY <1>0, <1>a DEF Nodes
  <2> QED  BY <1>0, <1>1, <2>1, HashKnown
<1>x. PICK x : x = f.x  OBVIOUS
<1>2. Shape(W, K)'  BY <1>1, <1>f, <1>h, <1>k, EnterShape
<1>3. x \in Tasks /\ W[x] = "linking" /\ EnterFacts(f)  BY <1>1, <1>f, <1>x, <1>h, <1>k, EnterShape
<1>4. \E g : SetTop(th, g) /\ Lists(f, g, g.pc, g.todo) /\ EnterGoes(f, g) /\ g.n = f.n  BY <1>1, <1>f, <1>h, <1>k, EnterShape
<1>g. PICK g : SetTop(th, g) /\ Lists(f, g, g.pc, g.todo) /\ EnterGoes(f, g) /\ g.n = f.n  BY <1>4
<1>5. /\ SetTop(th, g) /\ g \in FrameRecords /\ g.task = f.task /\ g.ip = f.ip /\ g.x = f.x /\ g.n = f.n
      /\ g.pc \in {"link", "count"} /\ EnterGoes(f, g)
  BY <1>g DEF Lists, EnterGoes
<1>r. Remade(f, {g})  BY <1>1, <1>f, <1>5, SetFrames
<1>6. prog' = prog /\ deque' = deque /\ td' = td /\ groups' = groups /\ proxy' = proxy  BY Zenon DEF Enter
<1>7. SameTd  BY <1>1, <1>6, TdUnchanged DEF Types, DataTypes
<1>8. Counters(W, K, H, O)' /\ KeepsAbsent(W, W) /\ ParentTd /\ NodeTd
  <2>1. SamePhase(W, W)  BY DEF SamePhase
  <2> QED  BY <1>1, <1>f, <1>5, <1>6, <1>7, <2>1, CountersRest
<1>9. Present(W, K)'
  <2>1. f.pc \in Creating /\ g.pc \in Creating /\ W[f.x] = "linking"  BY <1>0, <1>3, <1>5, <1>x DEF Creating
  <2> QED  BY <1>1, <1>f, <1>5, <1>6, <2>1, PresentMaker
<1>e. \E h, a, new, h2 : EntryData(f, h, a, new, h2)  BY <1>3, <1>x, EntersNamed
<1>m. PICK h, a, new, h2 : EntryData(f, h, a, new, h2)  BY <1>e
<1>10. /\ h = hash[f.task] /\ EntersIn(h, a, new, x) /\ EntrySet(h, h2, a, new)
       /\ hash' = [hash EXCEPT ![f.task] = h2]
       /\ \A t \in Tasks :
             Derefed(node[t], Cardinality(Uses(h[a], t)) - Cardinality(Uses(new, t)), node'[t])
  BY <1>m, <1>x DEF EntryData
<1>11. hash'[f.task] = h2 /\ \A d \in Descriptors : d # f.task => hash'[d] = hash[d]
  <2>1. hash \in [Descriptors -> [Addrs -> Entries] \union {Null}]  BY <1>1 DEF Types, DataTypes
  <2> QED  BY <1>0, <1>10, <2>1
<1>d. PICK d \in Descriptors : d = f.task  BY <1>0
<1>12. TracksFor(x, d) /\ Rehashed(d, h, h2)
  <2>1. FrameOK(f, W, K)  BY <1>0, <1>1, FrameFacts
  <2>2. td[x].parent = f.task  BY <1>0, <1>x, <2>1 DEF FrameOK, Creating
  <2>3. TaskOK(x, W[x])  BY <1>1, <1>3 DEF Shape
  <2>4. TracksFor(x, d)  BY <1>3, <1>d, <2>2, <2>3 DEF TaskOK, TracksFor
  <2>5. Rehashed(d, h, h2)  BY <1>h, <1>d, <1>10, <1>11 DEF Rehashed
  <2> QED  BY <2>4, <2>5
<1>13. NodesD(d)' /\ NamesOf(new, d)
  <2>1. NodesD(d)  BY <1>a DEF Nodes
  <2> QED  BY <1>3, <1>6, <1>10, <1>12, <2>1, EnterD
<1>14. ASSUME NEW t \in Tasks
       PROVE  /\ NodesT(t, W, R)' /\ (node'[t].state = "absent" <=> node[t].state = "absent")
              /\ node'[t].npred = node[t].npred /\ node'[t].succ = node[t].succ
  <2>0. h \in [Addrs -> Entries] /\ h[a] \in Entries /\ new \in Entries  BY <1>10 DEF EntersIn
  <2>u. PICK u \in Nat : u = Cardinality(Uses(h[a], t))  BY <2>0, UsesFinite
  <2>v. PICK v \in Nat : v = Cardinality(Uses(new, t))  BY <2>0, UsesFinite
  <2>k. PICK k \in Int : k = u - v  OBVIOUS
  <2>1. k = Cardinality(Uses(h[a], t)) - Cardinality(Uses(new, t))  BY <2>u, <2>v, <2>k
  <2>2. Derefed(node[t], k, node'[t])  BY <1>10, <2>1
  <2>4. NodesT(t, W, R)' /\ (node'[t].state = "absent" <=> node[t].state = "absent")
    BY <1>1, <1>a, <1>3, <1>6, <1>10, <1>12, <1>13, <2>1, <2>2, EnterUsesOne
  <2> QED  BY <2>2, <2>4 DEF Derefed
<1>15. Preds(W, R)'
  <2>1. PredsF(f, W, R)  BY <1>0, <1>a DEF Preds
  <2>2. node'[x].npred = node[x].npred  BY <1>3, <1>14
  <2>3. PredsF(g, W, R)'  BY <1>0, <1>5, <1>x, <2>1, <2>2 DEF PredsF
  <2>4. SameRank(W, W)  BY DEF SameRank
  <2>5. \A p \in Frames' : p \in Frames \/ PredsF(p, W, R)'  BY <1>r, <2>3 DEF Remade
  <2>6. \A t \in Tasks : /\ node'[t].npred = node[t].npred /\ node'[t].succ = node[t].succ
                         /\ node'[t].state = "absent" <=> node[t].state = "absent"
    BY <1>14
  <2> QED  BY <1>1, <1>a, <2>4, <2>5, <2>6, PredsSame
<1>16. Nodes(W, R)'
  <2>1. \A t \in Tasks : NodesT(t, W, R)'  BY <1>14
  <2>2. ASSUME NEW c \in Descriptors PROVE NodesD(c)'
    <3>1. CASE c = d  BY <1>13, <3>1
    <3>2. CASE c # d
      <4>1. NodesD(c) /\ hash'[c] = hash[c]  BY <1>a, <1>d, <1>11, <3>2 DEF Nodes
      <4> QED  BY <1>8, <4>1, NodesDSame
    <3> QED  BY <3>1, <3>2
  <2>3. ASSUME NEW p \in Frames' PROVE NodesF(p)'
    <3>1. CASE p = g
      <4>1. h2 # Null  BY <1>10, EntrySets DEF EntersIn
      <4>2. hash'[g.task] = h2  BY <1>5, <1>11
      <4>3. Dep(f.x, g.dep)' = Dep(f.x, g.dep)  BY <1>6 DEF Dep
      <4>4. ASSUME g.pc = "link" PROVE \A k \in 1..Len(g.todo) : Names(h2[Dep(g.x, g.dep)'.addr], g.todo[k])
        BY <1>5, <1>11, <4>3, <4>4 DEF EnterGoes
      <4> QED  BY <3>1, <4>1, <4>2, <4>4 DEF NodesF, Names
    <3>2. CASE p # g
      <4>1. p \in Frames /\ p.task # f.task  BY <1>1, <1>r, <3>2, Others
      <4>2. NodesF(p) /\ p.task \in Descriptors  BY <1>1, <1>a, <4>1, FrameFacts DEF Nodes
      <4>3. hash'[p.task] = hash[p.task]  BY <1>11, <4>1, <4>2
      <4> QED  BY <1>6, <4>2, <4>3, NodesFSame
    <3> QED  BY <3>1, <3>2
  <2> QED  BY <2>1, <2>2, <2>3 DEF Nodes
<1>17. Order(W, R, B, C)'
  <2>1. OrderF(f, W, B)  BY <1>0, <1>a DEF Order
  <2>2. OrderF(g, W, B)'  BY <1>0, <1>5, <1>6, <2>1 DEF OrderF
  <2>3. \A p \in Frames' : p \in Frames \/ OrderF(p, W, B)'  BY <1>r, <2>2 DEF Remade
  <2> QED  BY <1>a, <1>8, <2>3, OrderSame
<1>18. HashOwners(W)'
  <2>1. \A p \in Frames' : p \in Frames \/ p.pc # "barrier"  BY <1>r, <1>5 DEF Remade
  <2>2. \A c \in Descriptors : hash'[c] # Null => hash[c] # Null  BY <1>h, <1>11
  <2> QED  BY <1>a, <2>1, <2>2, HashOwnersStep
<1> QED  BY <1>2, <1>8, <1>9, <1>15, <1>16, <1>17, <1>18, AgainFrom DEF Dependences

----------------------------------------------------------------------------
(* Nothing knows a task that does not exist yet; its predecessors once it    *)
(* does.                                                                     *)

\* A task that does not exist is in no list, in no hash, and nobody's predecessor.
Unknown(R, t) ==
    /\ SuccUses(R, t) = {} /\ R[t] = <<>>
    /\ \A e \in Descriptors : hash[e] # Null => \A a \in Addrs : ~Names(hash[e][a], t)

\* A task that does not exist is in no list and no hash.
LEMMA AbsentUnknown ==
    ASSUME NEW W, NEW K, Shape(W, K), NEW R, Preds(W, R), Nodes(W, R), NEW t \in Tasks, W[t] = "absent"
    PROVE  Unknown(R, t) /\ node[t].state = "absent" /\ ~td[t].node /\ \A X : Untold(X, R, t) = {}
<1>1. TaskOK(t, W[t])  BY DEF Shape
<1>2. node[t].state = "absent" /\ ~td[t].node  BY <1>1 DEF TaskOK
<1>3. node[t].succ = <<>>  BY <1>1, <1>2 DEF TaskOK
<1>4. PredsT(t, W, R) /\ R[t] \in Seq(Tasks) /\ NodesT(t, W, R)  BY DEF Preds, Nodes
<1>5. R[t] = <<>>
  <2>1. Mirror(<<>>, R[t])  BY <1>3, <1>4 DEF PredsT
  <2> QED  BY <1>4, <2>1, NothingListed
<1>6. SuccUses(R, t) = {}  BY <1>2, <1>4 DEF NodesT
<1>7. \A X : Untold(X, R, t) = {}  BY <1>6 DEF Untold
<1>8. ASSUME NEW e \in Descriptors, hash[e] # Null, NEW a \in Addrs PROVE ~Names(hash[e][a], t)
  <2>1. NodesD(e)  BY DEF Nodes
  <2> QED  BY <1>2, <1>8, <2>1 DEF NodesD
<1> QED  BY <1>2, <1>5, <1>6, <1>7, <1>8 DEF Unknown

\* Task t comes into being in frame f, which becomes g.
Born(f, g, t, w) ==
    /\ g.task = f.task /\ g.x = t /\ g.pc \in {"link", "begin", "submit"} /\ w \in {"linking", "ready"}
    /\ g.pc = "link" <=> w = "linking"
    /\ \A s \in Tasks : s # t => node'[s] = node[s]
    /\ w = "linking" => NewNode(node'[t]) /\ g.n = 0
    /\ w = "ready" => node'[t] = node[t]

\* The other creators create other tasks.
LEMMA OtherMaker ==
    ASSUME NEW W, NEW K, Shape(W, K), NEW h \in Frames, h.pc \in Creating, NEW t \in Tasks, W[t] = "absent"
    PROVE  h.x \in Tasks /\ h.x # t
<1>1. h \in FrameRecords /\ LocalOK(h) /\ FrameOK(h, W, K)  BY FrameFacts
<1>2. W[h.x] = Making(h.pc) /\ h.x \in Tasks  BY <1>1 DEF FrameOK, LocalOK
<1> QED  BY <1>2 DEF Making

\* A new task has no predecessor yet.
LEMMA BornPreds ==
    ASSUME NEW W, NEW K, Shape(W, K), NEW R, Preds(W, R), NEW t \in Tasks, W[t] = "absent", Unknown(R, t),
           \A X : Untold(X, R, t) = {}, node[t].state = "absent",
           NEW f, NEW g, Remade(f, {g}), NEW w, Born(f, g, t, w), NEW W2, Moved(W, W2, t, w)
    PROVE  Preds(W2, R)'
<1>0. w \in {"linking", "ready"}  BY DEF Born
<1>1. W2[t] = w /\ \A s \in Tasks : s # t => W2[s] = W[s]  BY MovedFacts DEF Shape
<1>2. \A p \in Tasks : W2[p] = "told" <=> W[p] = "told"  BY <1>0, <1>1
<1>3. ASSUME NEW s \in Tasks PROVE PredsT(s, W2, R)'
  <2>1. CASE s # t
    <3>1. PredsT(s, W, R)  BY DEF Preds
    <3>2. Untold(W2, R, s) = Untold(W, R, s)  BY <1>2, UntoldSame
    <3>3. NodeKeeps(s)  BY <2>1 DEF Born, NodeKeeps
    <3> QED  BY <1>1, <2>1, <3>1, <3>2, <3>3, PredsTStay
  <2>2. CASE s = t
    <3>1. SuccUses(R, s) = {} /\ R[s] = <<>> /\ Untold(W2, R, s) = {}  BY <2>2 DEF Unknown
    <3>2. IsFiniteSet(SuccUses(R, s))  BY <3>1, FS_EmptySet
    <3>3. Mirror(node'[s].succ, R[s])
      <4>1. CASE w = "linking"
        <5>1. node'[s].succ = <<>>  BY <2>2, <4>1 DEF Born, NewNode
        <5>2. Len(<<>>) = 0  OBVIOUS
        <5> QED  BY <3>1, <5>1, <5>2 DEF Mirror
      <4>2. CASE w = "ready"
        <5>1. PredsT(s, W, R)  BY DEF Preds
        <5>2. Mirror(node[s].succ, R[s])  BY <2>2, <5>1 DEF PredsT
        <5> QED  BY <2>2, <4>2, <5>2 DEF Born
      <4> QED  BY <1>0, <4>1, <4>2
    <3>4. ~Tracked(W2, s)'
      <4>1. CASE w = "linking"  BY <1>1, <2>2, <4>1 DEF Tracked
      <4>2. CASE w = "ready"  BY <2>2, <4>2 DEF Tracked, Born
      <4> QED  BY <1>0, <4>1, <4>2
    <3>5. W2[s] \in {"linking", "ready"}  BY <1>0, <1>1, <2>2
    <3>6. W2[s] \notin {"free", "gone", "blocked"}  BY <3>5
    <3> QED  BY <3>1, <3>2, <3>3, <3>4, <3>6 DEF PredsT
  <2> QED  BY <2>1, <2>2
<1>4. ASSUME NEW h \in Frames' PROVE PredsF(h, W2, R)'
  <2>1. CASE h = g
    <3>1. h.pc \notin {"succ", "push", "drop", "count"}  BY <2>1 DEF Born
    <3>2. ASSUME h.pc = "link"
          PROVE  /\ node'[h.x].npred = Cardinality(Untold(W2, R, h.x)) - 1 - h.n
                 /\ Cardinality(Untold(W2, R, h.x)) <= h.n
      <4>1. h.x = t /\ h.n = 0 /\ node'[t].npred = -1  BY <2>1, <3>2 DEF Born, NewNode
      <4>2. Cardinality(Untold(W2, R, t)) = 0  BY FS_EmptySet
      <4>3. -1 = 0 - 1 - 0  OBVIOUS
      <4> QED  BY <4>1, <4>2, <4>3
    <3> QED  BY <3>1, <3>2 DEF PredsF
  <2>2. CASE h # g
    <3>1. h \in Frames /\ PredsF(h, W, R)  BY <2>2 DEF Remade, Preds
    <3>2. h.pc \in {"link", "count"} => node'[h.x].npred = node[h.x].npred
      <4>1. ASSUME h.pc \in {"link", "count"} PROVE h.x \in Tasks /\ h.x # t
        <5>1. h.pc \in Creating  BY <4>1 DEF Creating
        <5> QED  BY <3>1, <5>1, OtherMaker
      <4> QED  BY <4>1 DEF Born
    <3> QED  BY <1>2, <3>1, <3>2, PredsFSame
  <2> QED  BY <2>1, <2>2
<1>5. R \in [Tasks -> Seq(Tasks)]  BY DEF Preds
<1> QED  BY <1>3, <1>4, <1>5 DEF Preds

----------------------------------------------------------------------------
(* The nodes, the order and the hashes when a task is created. *)

\* The hash of d exists, with the entries it had; the others stay.
Hashed(d) ==
    \/ hash' = hash
    \/ /\ OldHash(d) \in [Addrs -> Entries] /\ hash'[d] = OldHash(d)
       /\ \A e \in Descriptors : e # d => hash'[e] = hash[e]
Opens(d, w) == w = "linking" => OldHash(d) \in [Addrs -> Entries] /\ hash'[d] = OldHash(d)

\* An empty hash names nobody.
LEMMA NobodyIn ==
    ASSUME NEW a \in Addrs, NEW s \in Tasks
    PROVE  ~Names(NoHash[a], s)
<1>1. NoHash[a] = NoEntry  BY DEF NoHash
<1>2. NoEntry.out = None /\ NoEntry.ins = <<>>  BY DEF NoEntry
<1>3. Len(NoEntry.ins) = 0  BY <1>2
<1>4. s # None  BY TaskNames
<1> QED  BY <1>1, <1>2, <1>3, <1>4 DEF Names

\* A new hash names nobody.
LEMMA HashedIn ==
    ASSUME NEW d \in Descriptors, Hashed(d), NEW e \in Descriptors, hash'[e] # Null, NEW a \in Addrs, NEW s \in Tasks,
           Names(hash'[e][a], s)
    PROVE  hash[e] # Null /\ Names(hash[e][a], s)
<1>1. CASE hash'[e] = hash[e]  BY <1>1
<1>2. CASE hash'[e] # hash[e]
  <2>1. e = d /\ hash'[d] = OldHash(d)  BY <1>2 DEF Hashed
  <2>2. hash[d] = Null  BY <1>2, <2>1 DEF OldHash
  <2>3. hash'[e] = NoHash  BY <2>1, <2>2 DEF OldHash
  <2> QED  BY <2>3, NobodyIn
<1> QED  BY <1>1, <1>2

\* A new hash adds no use.
LEMMA HashedUses ==
    ASSUME NEW W, NEW K, Shape(W, K), NEW d \in Descriptors, Hashed(d), NEW s \in Tasks, td[s].parent \in Descriptors,
           td'[s].parent = td[s].parent
    PROVE  ParentUses(s)' = ParentUses(s)
<1>p. PICK e \in Descriptors : e = td[s].parent  OBVIOUS
<1>1. CASE hash'[e] = hash[e]  BY <1>p, <1>1 DEF ParentUses
<1>2. CASE hash'[e] # hash[e]
  <2>1. e = d /\ hash'[d] = OldHash(d) /\ OldHash(d) \in [Addrs -> Entries]  BY <1>2 DEF Hashed
  <2>2. hash[d] = Null  BY <1>2, <2>1 DEF OldHash
  <2>3. hash'[e] = NoHash /\ NoHash \in [Addrs -> Entries]  BY <2>1, <2>2 DEF OldHash
  <2>4. HashUses(NoHash, s) = {}  BY <2>3, NobodyIn, HashUsesFinite
  <2>5. ParentUses(s)' = {}  BY <1>p, <2>3, <2>4 DEF ParentUses
  <2>6. ParentUses(s) = {}  BY <1>p, <2>1, <2>2 DEF ParentUses
  <2> QED  BY <2>5, <2>6
<1> QED  BY <1>1, <1>2

\* A new node has one reference, its task's.
LEMMA BornNodes ==
    ASSUME NEW W, NEW K, Shape(W, K), NEW R, Preds(W, R), Nodes(W, R), NEW t \in Tasks, W[t] = "absent", Unknown(R, t),
           node[t].state = "absent", ~td[t].node, prog' = prog, NEW d \in Descriptors, NEW nd, Begun(d, t, nd), t # d,
           NEW f, NEW g, Remade(f, {g}), f.task = d, NEW w, Born(f, g, t, w), NEW W2, Moved(W, W2, t, w),
           Hashed(d), Opens(d, w), NodesF(g)'
    PROVE  Nodes(W2, R)'
<1>0. w \in {"linking", "ready"}  BY DEF Born
<1>1. W2[t] = w /\ \A s \in Tasks : s # t => W2[s] = W[s]  BY MovedFacts DEF Shape
<1>b. \A s \in Tasks : s # t => td'[s].parent = td[s].parent /\ td'[s].node = td[s].node  BY DEF Begun, Descriptors
<1>c. td'[t].parent = d  BY DEF Begun, Descriptors
<1>2. ASSUME NEW s \in Tasks PROVE NodesT(s, W2, R)'
  <2>0. NodesT(s, W, R)  BY DEF Nodes
  <2>1. CASE s # t /\ node[s].state = "absent"
    <3>1. node'[s].state = "absent" /\ node'[s].nrefs = node[s].nrefs  BY <2>1 DEF Born
    <3> QED  BY <2>0, <2>1, <3>1 DEF NodesT
  <2>2. CASE s # t /\ node[s].state # "absent"
    <3>1. W[s] # "absent"
      <4>1. TaskOK(s, W[s])  BY DEF Shape
      <4> QED  BY <2>2, <4>1 DEF TaskOK
    <3>2. td[s].parent \in Descriptors  BY <3>1, ParentFacts
    <3>3. ParentUses(s)' = ParentUses(s)  BY <1>b, <2>2, <3>2, HashedUses
    <3>4. node'[s].state = node[s].state /\ node'[s].nrefs = node[s].nrefs  BY <2>2 DEF Born
    <3>5. UsesStay(W, W2, s)  BY <1>1, <2>2 DEF UsesStay
    <3> QED  BY <2>0, <3>3, <3>4, <3>5, NodesTStay
  <2>3. CASE s = t /\ w = "ready"
    <3>1. node'[s] = node[s]  BY <2>3 DEF Born
    <3> QED  BY <2>0, <2>3, <3>1 DEF NodesT
  <2>4. CASE s = t /\ w = "linking"
    <3>1. node'[s].state = "live" /\ node'[s].nrefs = 1  BY <2>4 DEF Born, NewNode
    <3>2. SuccUses(R, s) = {}  BY <2>4 DEF Unknown
    <3>3. Cardinality(SuccUses(R, s)) = 0  BY <3>2, FS_EmptySet
    <3>4. ParentUses(s)' = {}
      <4>1. OldHash(d) \in [Addrs -> Entries] /\ hash'[d] = OldHash(d)  BY <2>4 DEF Opens
      <4>2. \A a \in Addrs : ~Names(OldHash(d)[a], s)
        <5>1. CASE hash[d] = Null  BY <5>1, NobodyIn DEF OldHash
        <5>2. CASE hash[d] # Null  BY <2>4, <5>2 DEF OldHash, Unknown
        <5> QED  BY <5>1, <5>2
      <4>3. HashUses(OldHash(d), s) = {}  BY <4>1, <4>2, HashUsesFinite
      <4> QED  BY <1>c, <2>4, <4>1, <4>3 DEF ParentUses
    <3>5. Cardinality(ParentUses(s)') = 0  BY <3>4, FS_EmptySet
    <3>6. SelfUse(W2, s)' = 1  BY <1>1, <2>4 DEF SelfUse
    <3>7. node'[s].nrefs = SelfUse(W2, s)' + Cardinality(SuccUses(R, s)) + Cardinality(ParentUses(s)')
      BY <3>1, <3>3, <3>5, <3>6
    <3>8. W2[s] = "linking" /\ node'[s].nrefs # 0  BY <1>1, <2>4, <3>1
    <3> QED  BY <3>1, <3>7, <3>8 DEF NodesT
  <2> QED  BY <1>0, <2>1, <2>2, <2>3, <2>4
<1>3. ASSUME NEW e \in Descriptors PROVE NodesD(e)'
  <2>1. ASSUME hash'[e] # Null, NEW a \in Addrs, NEW s \in Tasks, Names(hash'[e][a], s)
        PROVE  td'[s].parent = e /\ td'[s].node
    <3>1. hash[e] # Null /\ Names(hash[e][a], s)  BY <2>1, HashedIn
    <3>2. s # t  BY <3>1 DEF Unknown
    <3>3. NodesD(e)  BY DEF Nodes
    <3>4. td[s].parent = e /\ td[s].node  BY <3>1, <3>3 DEF NodesD
    <3> QED  BY <1>b, <3>2, <3>4
  <2> QED  BY <2>1 DEF NodesD
<1>4. ASSUME NEW h \in Frames' PROVE NodesF(h)'
  <2>1. CASE h = g  BY <2>1
  <2>2. CASE h # g
    <3>1. h \in Frames /\ h.task # d /\ h.task \in Descriptors  BY <2>2, Others, FrameFacts
    <3>2. NodesF(h)  BY <3>1 DEF Nodes
    <3>3. hash'[h.task] = hash[h.task]  BY <3>1 DEF Hashed
    <3> QED  BY <3>2, <3>3, NodesFSame
  <2> QED  BY <2>1, <2>2
<1> QED  BY <1>2, <1>3, <1>4 DEF Nodes

\* A new task is the youngest.
LEMMA BornOrder ==
    ASSUME NEW W, NEW K, Shape(W, K), NEW R, NEW B, NEW C, Order(W, R, B, C), NEW t \in Tasks, W[t] = "absent", Unknown(R, t),
           NEW d \in Descriptors, NEW nd, Begun(d, t, nd), t # d, d \in Tasks => W[d] = "body",
           NEW f, NEW g, Remade(f, {g}), f.task = d, NEW w, Born(f, g, t, w), NEW W2, Moved(W, W2, t, w),
           NEW B2, Moved(B, B2, t, C), NEW C2, C2 = C + 1
    PROVE  Order(W2, R, B2, C2)'
<1>0. w \in {"linking", "ready"} /\ B \in [Tasks -> Nat] /\ C \in Nat  BY DEF Born, Order
<1>1. W2[t] = w /\ \A s \in Tasks : s # t => W2[s] = W[s]  BY MovedFacts DEF Shape
<1>2. B2 \in [Tasks -> Nat] /\ B2[t] = C /\ \A s \in Tasks : s # t => B2[s] = B[s]  BY <1>0 DEF Moved
<1>3. C2 \in Nat /\ C < C2  BY <1>0
<1>b. \A s \in Tasks : s # t => td'[s].parent = td[s].parent  BY DEF Begun, Descriptors
<1>c. td'[t].parent = d  BY DEF Begun, Descriptors
<1>o. \A s \in Tasks : W[s] # "absent" => B[s] < C /\ (td[s].parent \in Tasks => B[td[s].parent] < B[s])  BY DEF Order
<1>4. ASSUME NEW s \in Tasks, W2[s] # "absent"
      PROVE  B2[s] < C2 /\ (td'[s].parent \in Tasks => B2[td'[s].parent] < B2[s])
  <2>1. CASE s = t
    <3>1. d \in Tasks => B[d] < C  BY <1>o
    <3> QED  BY <1>2, <1>3, <1>c, <2>1, <3>1
  <2>2. CASE s # t
    <3>1. W[s] # "absent" /\ td'[s].parent = td[s].parent  BY <1>1, <1>4, <1>b, <2>2
    <3>2. td[s].parent # t  BY <3>1, NoChildren
    <3>3. B2[s] = B[s] /\ B[s] \in Nat  BY <1>0, <1>2, <2>2
    <3>4. B[s] < C /\ (td[s].parent \in Tasks => B[td[s].parent] < B[s])  BY <1>o, <3>1
    <3>5. B2[s] < C2  BY <1>0, <1>3, <3>3, <3>4
    <3>6. td[s].parent \in Tasks => B2[td[s].parent] < B2[s]  BY <1>2, <3>2, <3>3, <3>4
    <3> QED  BY <3>1, <3>5, <3>6
  <2> QED  BY <2>1, <2>2
<1>5. ASSUME NEW p \in Tasks, NEW k \in 1..Len(R[p]) PROVE B2[p] < B2[R[p][k]]
  <2>1. p # t
    <3>1. R[t] = <<>>  BY DEF Unknown
    <3>2. Len(<<>>) = 0  OBVIOUS
    <3> QED  BY <1>5, <3>1, <3>2
  <2>2. R[p][k] # t
    <3>1. <<p, k>> \in {p} \X (1..Len(R[p]))  OBVIOUS
    <3>2. R[p][k] = t => <<p, k>> \in SuccUses(R, t)  BY <3>1 DEF SuccUses
    <3> QED  BY <3>2 DEF Unknown
  <2>3. B[p] < B[R[p][k]]  BY DEF Order
  <2>4. B2[p] = B[p]  BY <1>2, <2>1
  <2>5. CASE R[p][k] \in Tasks  BY <1>2, <2>2, <2>3, <2>4, <2>5
  <2>6. CASE R[p][k] \notin Tasks
    <3>1. B2[R[p][k]] = B[R[p][k]]  BY <2>6 DEF Moved
    <3> QED  BY <2>3, <2>4, <3>1
  <2> QED  BY <2>5, <2>6
<1>6. ASSUME NEW h \in Frames' PROVE OrderF(h, W2, B2)'
  <2>1. CASE h = g
    <3>1. ASSUME h.pc = "link", NEW s \in Tasks, W2[s] # "absent", s # h.x PROVE B2[s] < B2[h.x]
      <4>1. h.x = t  BY <2>1 DEF Born
      <4>2. W[s] # "absent" /\ s # t  BY <1>1, <3>1, <4>1
      <4> QED  BY <1>2, <1>o, <4>1, <4>2
    <3> QED  BY <3>1 DEF OrderF
  <2>2. CASE h # g
    <3>1. h \in Frames /\ h.task # d  BY <2>2, Others
    <3>2. OrderF(h, W, B)  BY <3>1 DEF Order
    <3>3. ASSUME h.pc = "link", NEW s \in Tasks, W2[s] # "absent", td'[s].parent = h.task, s # h.x PROVE B2[s] < B2[h.x]
      <4>1. h.x \in Tasks /\ h.x # t  BY <3>1, <3>3, OtherMaker DEF Creating
      <4>2. s # t  BY <1>c, <3>1, <3>3
      <4>3. W[s] # "absent" /\ td[s].parent = h.task  BY <1>1, <1>b, <3>3, <4>2
      <4>4. B[s] < B[h.x]  BY <3>2, <3>3, <4>3 DEF OrderF
      <4> QED  BY <1>2, <4>1, <4>2, <4>4
    <3> QED  BY <3>3 DEF OrderF
  <2> QED  BY <2>1, <2>2
<1> QED  BY <1>2, <1>3, <1>4, <1>5, <1>6 DEF Order

\* The hash made for the first dependence belongs to a task in its body.
LEMMA BornOwners ==
    ASSUME NEW W, NEW K, Shape(W, K), HashOwners(W), NEW t \in Tasks, W[t] = "absent",
           NEW d \in Descriptors, t # d, d \in Tasks => W[d] = "body", Hashed(d),
           NEW f, NEW g, Remade(f, {g}), f.task = d, NEW w, Born(f, g, t, w), NEW W2, Moved(W, W2, t, w)
    PROVE  HashOwners(W2)'
<1>1. W2[t] = w /\ \A s \in Tasks : s # t => W2[s] = W[s]  BY MovedFacts DEF Shape
<1>2. ASSUME NEW e \in Descriptors, hash'[e] # Null
      PROVE  IF e \in Threads THEN \A h \in Frames' : h.task = e => h.pc # "barrier"
             ELSE W2[e] \in {"body", "group", "release"}
  <2>1. CASE e = d /\ e \in Threads
    <3>1. ASSUME NEW h \in Frames', h.task = e PROVE h.pc # "barrier"
      <4>1. CASE h = g  BY <4>1 DEF Born
      <4>2. CASE h # g  BY <2>1, <3>1, <4>2, Others
      <4> QED  BY <4>1, <4>2
    <3> QED  BY <2>1, <3>1
  <2>2. CASE e = d /\ e \notin Threads  BY <1>1, <2>2 DEF Descriptors
  <2>3. CASE e # d
    <3>1. hash[e] # Null  BY <1>2, <2>3 DEF Hashed
    <3>2. CASE e \in Threads
      <4>1. ASSUME NEW h \in Frames', h.task = e PROVE h.pc # "barrier"
        <5>1. h # g  BY <2>3, <4>1 DEF Born
        <5>2. h \in Frames  BY <5>1 DEF Remade
        <5> QED  BY <3>1, <3>2, <4>1, <5>2 DEF HashOwners
      <4> QED  BY <3>2, <4>1
    <3>3. CASE e \notin Threads
      <4>1. e \in Tasks /\ W[e] \in {"body", "group", "release"}  BY <3>1, <3>3 DEF HashOwners, Descriptors
      <4> QED  BY <1>1, <3>3, <4>1
    <3> QED  BY <3>2, <3>3
  <2> QED  BY <2>1, <2>2, <2>3
<1> QED  BY <1>2 DEF HashOwners

----------------------------------------------------------------------------
(* Create keeps the invariant. *)

\* A new task is held by its creator's frame.
LEMMA BornPresent ==
    ASSUME NEW W, NEW K, Shape(W, K), Present(W, K), NEW t \in Tasks, W[t] = "absent",
           NEW f, f.pc = "body", f.task \in Tasks => W[f.task] = "body", f.task # t, prog' = prog, deque' = deque,
           NEW g, Remade(f, {g}), NEW w, Born(f, g, t, w), NEW W2, Moved(W, W2, t, w)
    PROVE  Present(W2, K)'
<1>0. w \in {"linking", "ready"}  BY DEF Born
<1>1. W2[t] = w /\ \A s \in Tasks : s # t => W2[s] = W[s]  BY MovedFacts DEF Shape
<1>2. Only(f)  BY OnlyOwn DEF Creating
<1>3. ASSUME NEW s \in Tasks
      PROVE  \/ W2[s] = W[s] /\ K[s] = K[s] /\ ~Holds(f, s)
             \/ HeldBy({g}, s, W2[s], K[s])'
  <2>1. CASE s # t /\ ~Holds(f, s)  BY <1>1, <2>1
  <2>2. CASE s # t /\ Holds(f, s)
    <3>1. s = f.task /\ W2[s] = "body"  BY <1>1, <1>2, <2>2 DEF Only
    <3>2. g \in {g} /\ g.task = s  BY <3>1 DEF Born
    <3>3. W2[s] \notin {"linking", "depwait", "ready", "push"}  BY <3>1
    <3> QED  BY <3>2, <3>3, HeldTask
  <2>3. CASE s = t
    <3>1. K[t] = None  BY NoClimb
    <3>2. Makes(g, t)'  BY DEF Born, Makes, Creating
    <3>3. w \notin Running /\ w # "push"  BY <1>0 DEF Running
    <3> QED  BY <1>1, <2>3, <3>1, <3>2, <3>3 DEF HeldBy
  <2> QED  BY <2>1, <2>2, <2>3
<1>4. \A s \in Tasks : W2[s] = "queue" => InDeque(s)'
  <2>1. \A s \in Tasks : W2[s] = "queue" => W[s] = "queue"  BY <1>0, <1>1
  <2> QED  BY <2>1, DequeSame
<1> QED  BY <1>3, <1>4, PresentStep

\* Create keeps the invariant.
LEMMA CreateAgain ==
    ASSUME NEW W, NEW K, NEW R, NEW H, NEW O, NEW B, NEW C, Inv(W, K, R, H, O, B, C), NEW th \in Threads, Create(th)
    PROVE  Again
<1>f. PICK f : f = Top(th)  OBVIOUS
<1>t. PICK t : t = Op(f)[2]  OBVIOUS
<1>1. Shape(W, K) /\ Counters(W, K, H, O) /\ Dependences(W, R, B, C) /\ Present(W, K) /\ Types /\ W \in [Tasks -> Places]
  BY InvParts DEF Shape
<1>a. Preds(W, R) /\ Nodes(W, R) /\ Order(W, R, B, C) /\ HashOwners(W)  BY <1>1 DEF Dependences
<1>b. Kids(W, K) /\ Incs(W) /\ Groups(W, H, O)  BY <1>1 DEF Counters
<1>2. InBody(th, "task") /\ prog' = prog /\ deque' = deque /\ proxy' = proxy  BY DEF Create
<1>3. /\ t \in Tasks /\ W[t] = "absent" /\ t # f.task /\ f \in FrameRecords /\ f.task \in Descriptors
      /\ f.pc = "body" /\ f.ip \in 1..Len(prog.body[f.task])
      /\ f.task \in Tasks => W[f.task] = "body"
  <2>1. t \in Tasks /\ W[t] = "absent" /\ t # f.task /\ f \in FrameRecords /\ f.task \in Descriptors
    BY <1>1, <1>2, <1>f, <1>t, NotYet
  <2>2. f.pc = "body" /\ f.ip \in 1..Len(prog.body[f.task])  BY <1>1, <1>2, <1>f, <1>t, NotYet
  <2>3. f.task \in Tasks => W[f.task] = "body"  BY <1>1, <1>2, <1>f, <1>t, NotYet
  <2> QED  BY <2>1, <2>2, <2>3
<1>at. TaskAt(f, t)  BY <1>1, <1>2, <1>f, <1>t, NotYet
<1>d. PICK d \in Descriptors : d = f.task  BY <1>3
<1>4. t # d /\ (d \in Tasks => W[d] = "body")  BY <1>3, <1>d
<1>n. PICK nd : nd = (Tracks(f, t) /\ Kind(t) # "if0")  OBVIOUS
<1>w. PICK w : w = IF Tracks(f, t) THEN "linking" ELSE "ready"  OBVIOUS
<1>w2. PICK W2 : W2 = [W EXCEPT ![t] = w]  OBVIOUS
<1>5. w \in {"linking", "ready"} /\ Moved(W, W2, t, w)  BY <1>w, <1>w2 DEF Moved
<1>6. Shape(W2, K)'  BY <1>1, <1>f, <1>t, <1>w, <1>w2, CreateShape
<1>7. Begun(d, t, nd)  BY <1>1, <1>f, <1>t, <1>d, <1>n, CreateData
<1>8. IF td[d].group = Null THEN groups' = groups ELSE Counted(td[d].group)  BY <1>1, <1>f, <1>t, <1>d, CreateData
<1>9. \E g : SetTop(th, g) /\ Creates(f, g, t) /\ IF Tracks(f, t) THEN Tracking(f, g, t) ELSE Untracked(f, g, t)
  BY <1>1, <1>f, <1>t, CreateData
<1>g. PICK g : SetTop(th, g) /\ Creates(f, g, t) /\ IF Tracks(f, t) THEN Tracking(f, g, t) ELSE Untracked(f, g, t)
  BY <1>9
<1>10. g \in FrameRecords /\ g.task = d /\ g.ip = f.ip + 1 /\ g.x = t  BY <1>g, <1>d DEF Creates
<1>r. Remade(f, {g}) /\ f \in Frames  BY <1>1, <1>f, <1>g, <1>10, SetFrames, TopIn
<1>11. Born(f, g, t, w)
  <2>1. CASE Tracks(f, t)  BY <1>10, <1>d, <1>g, <1>w, <2>1 DEF Born, Tracking
  <2>2. CASE ~Tracks(f, t)  BY <1>10, <1>d, <1>g, <1>w, <2>2 DEF Born, Untracked
  <2> QED  BY <2>1, <2>2
<1>h. hash \in [Descriptors -> [Addrs -> Entries] \union {Null}]  BY <1>1 DEF Types, DataTypes
<1>12. Hashed(d) /\ Opens(d, w)
  <2>1. CASE Tracks(f, t)
    <3>1. OldHash(d) \in [Addrs -> Entries] /\ hash' = [hash EXCEPT ![d] = OldHash(d)]  BY <1>g, <1>d, <2>1 DEF Tracking
    <3>2. hash'[d] = OldHash(d) /\ \A e \in Descriptors : e # d => hash'[e] = hash[e]  BY <1>h, <3>1
    <3> QED  BY <3>1, <3>2 DEF Hashed, Opens
  <2>2. CASE ~Tracks(f, t)
    <3>1. hash' = hash /\ w = "ready"  BY <1>g, <1>w, <2>2 DEF Untracked
    <3> QED  BY <3>1 DEF Hashed, Opens
  <2> QED  BY <2>1, <2>2
<1>13. Unknown(R, t) /\ node[t].state = "absent" /\ ~td[t].node /\ \A X : Untold(X, R, t) = {}
  BY <1>1, <1>3, <1>a, AbsentUnknown
<1>14. NodesF(g)'
  <2>1. CASE Tracks(f, t)
    <3>1. /\ 1 \in Kept(t) /\ g.dep = 1 /\ OldHash(d) \in [Addrs -> Entries]
          /\ \A k \in 1..Len(g.todo) : Names(OldHash(d)[Dep(t, 1).addr], g.todo[k])
      BY <1>g, <1>d, <2>1 DEF Tracking
    <3>2. hash'[d] = OldHash(d)  BY <1>12, <1>w, <2>1 DEF Opens
    <3>3. Dep(t, 1).addr \in Addrs  BY <1>1, <1>3, <3>1, DepFacts
    <3>4. OldHash(d) # Null
      <4>1. Dep(t, 1).addr \in DOMAIN OldHash(d)  BY <3>1, <3>3
      <4>2. DOMAIN Null = {}  BY DEF Null
      <4> QED  BY <4>1, <4>2
    <3>5. Dep(g.x, g.dep)' = Dep(t, 1)  BY <1>2, <1>10, <3>1 DEF Dep
    <3> QED  BY <1>10, <3>1, <3>2, <3>4, <3>5 DEF NodesF, Names
  <2>2. CASE ~Tracks(f, t)
    <3>1. g.pc # "link"  BY <1>g, <2>2 DEF Untracked
    <3> QED  BY <3>1 DEF NodesF
  <2> QED  BY <2>1, <2>2
<1>15. Preds(W2, R)'  BY <1>1, <1>a, <1>3, <1>13, <1>r, <1>11, <1>5, BornPreds
<1>16. Nodes(W2, R)'
  BY <1>1, <1>a, <1>2, <1>3, <1>4, <1>d, <1>13, <1>7, <1>r, <1>11, <1>5, <1>12, <1>14, BornNodes
<1>B. PICK B2 : Moved(B, B2, t, C)  BY Zenon DEF Moved
<1>C. PICK C2 : C2 = C + 1  OBVIOUS
<1>17. Order(W2, R, B2, C2)'
  BY <1>1, <1>a, <1>3, <1>4, <1>d, <1>13, <1>7, <1>r, <1>11, <1>5, <1>B, <1>C, BornOrder
<1>18. HashOwners(W2)'  BY <1>1, <1>a, <1>3, <1>4, <1>d, <1>12, <1>r, <1>11, <1>5, BornOwners
<1>19. Present(W2, K)'  BY <1>1, <1>2, <1>3, <1>r, <1>11, <1>5, BornPresent
<1>20. Kids(W2, K)'  BY <1>1, <1>b, <1>3, <1>4, <1>7, <1>5, CreateKids
<1>21. Incs(W2)'  BY <1>1, <1>b, <1>2, <1>3, <1>4, <1>7, <1>5, CreateIncs
<1>H. PICK H2 : Moved(H, H2, t, td[d].group)  BY DEF Moved
<1>22. Groups(W2, H2, O)'
  <2>1. GroupsF(f, O) /\ O[f.task] \in Seq(Nat)  BY <1>b, <1>d, <1>r DEF Groups
  <2>2. StepsFrom(f, g)
    <3>1. prog.body[f.task][f.ip][1] = "task"
      <4>1. prog.body[f.task][f.ip] = <<"task", t>>  BY <1>at DEF TaskAt
      <4>2. <<"task", t>>[1] = "task"  OBVIOUS
      <4> QED  BY <4>1, <4>2
    <3>2. f.ip \in Nat  BY <1>3 DEF FrameRecords
    <3> QED  BY <1>3, <1>10, <1>d, <3>1, <3>2 DEF StepsFrom
  <2>3. GroupsF(g, O)  BY <2>1, <2>2, GroupsFStep
  <2>4. \A h \in Frames' : h \in Frames \/ GroupsF(h, O)  BY <1>r, <2>3 DEF Remade
  <2> QED  BY <1>1, <1>b, <1>2, <1>3, <1>4, <1>7, <1>5, <1>8, <1>H, <2>4, CreateGroups
<1>23. Counters(W2, K, H2, O)'  BY <1>20, <1>21, <1>22 DEF Counters
<1>24. Dependences(W2, R, B2, C2)'  BY <1>15, <1>16, <1>17, <1>18 DEF Dependences
<1> QED  BY <1>6, <1>19, <1>23, <1>24, AgainFrom

----------------------------------------------------------------------------
(* The first states: types. *)

(* The initial state. *)
FirstFrame(f, th) ==
    /\ f \in FrameRecords /\ f.task = th /\ f.ip = 1 /\ f.todo = <<>>
    /\ f.pc = IF prog.body[th] = <<>> THEN "barrier" ELSE "body"

\* At first each stack holds the frame of the implicit task.
LEMMA FramesFirst ==
    ASSUME Init, NEW th \in Threads
    PROVE  /\ stack[th] \in Seq(FrameRecords) /\ Len(stack[th]) = 1
           /\ FirstFrame(stack[th][1], th)
<1>p. PICK pc \in Pcs : pc = IF prog.body[th] = <<>> THEN "barrier" ELSE "body"  BY DEF Pcs, Bodily
<1>1. stack[th] = <<Frame(th, pc)>>  BY <1>p DEF Init
<1>f. PICK f : f = Frame(th, pc)  OBVIOUS
<1>2. f \in FrameRecords /\ f.task = th /\ f.ip = 1 /\ f.todo = <<>> /\ f.pc = pc
  BY <1>f DEF Frame, FrameRecords, Descriptors
<1> HIDE <1>p, <1>f
<1>3. stack[th] = <<f>>  BY <1>1, <1>f
<1>4. <<f>> \in Seq(FrameRecords) /\ Len(<<f>>) = 1 /\ <<f>>[1] = f  BY <1>2
<1> QED  BY <1>2, <1>3, <1>4, <1>p DEF FirstFrame

FirstTask(r, s) ==
    /\ r \in TaskdataRecords /\ r.state = s /\ r.parent = None /\ r.inc = 0 /\ r.kids = 1 /\ r.group = Null
    /\ r.complete = FALSE /\ r.node = FALSE
TaskFields(s, x, g, b, c) ==
    [state |-> s, parent |-> x, inc |-> 0, kids |-> 1, group |-> g,
     started |-> b, executing |-> c, complete |-> b, node |-> b]

\* Marking a descriptor of the first states.
LEMMA TaskMarkSets ==
    ASSUME NEW x, NEW g, NEW b \in BOOLEAN, NEW c \in BOOLEAN, NEW r, r = TaskFields("live", x, g, b, b)
    PROVE  [r EXCEPT !.executing = c] = TaskFields("live", x, g, b, c)
BY DEF TaskFields

\* Writing the state of a descriptor of the first states.
LEMMA TaskStateSets ==
    ASSUME NEW x, NEW g, NEW b \in BOOLEAN, NEW w, NEW r, r = TaskFields("live", x, g, b, b)
    PROVE  [r EXCEPT !.state = w] = TaskFields(w, x, g, b, b)
BY DEF TaskFields

\* The descriptors of the first states, by their fields.
LEMMA TaskLiterals ==
    ASSUME NEW b \in BOOLEAN, b = FALSE, NEW c \in BOOLEAN, c = TRUE
    PROVE  /\ Absent = TaskFields("absent", None, Null, b, b)
           /\ [Taskdata(None, Null) EXCEPT !.executing = TRUE] = TaskFields("live", None, Null, b, c)
<1>1. Taskdata(None, Null) = TaskFields("live", None, Null, b, b)  BY DEF Taskdata, TaskFields
<1>2. [TaskFields("live", None, Null, b, b) EXCEPT !.state = "absent"] = TaskFields("absent", None, Null, b, b)
  <2>r. PICK r : r = TaskFields("live", None, Null, b, b)  OBVIOUS
  <2>1. [r EXCEPT !.state = "absent"] = TaskFields("absent", None, Null, b, b)  BY <2>r, TaskStateSets
  <2> QED  BY <2>r, <2>1
<1>3. [TaskFields("live", None, Null, b, b) EXCEPT !.executing = c] = TaskFields("live", None, Null, b, c)
  <2>r. PICK r : r = TaskFields("live", None, Null, b, b)  OBVIOUS
  <2>1. [r EXCEPT !.executing = c] = TaskFields("live", None, Null, b, c)  BY <2>r, TaskMarkSets
  <2> QED  BY <2>r, <2>1
<1>4. [Taskdata(None, Null) EXCEPT !.executing = TRUE] = [TaskFields("live", None, Null, b, b) EXCEPT !.executing = c]
  BY <1>1
<1> QED  BY <1>1, <1>2, <1>3, <1>4 DEF Absent

\* Such a descriptor is one.
LEMMA TaskRecord ==
    ASSUME NEW s \in States, NEW x \in Descriptors \union {None},
           NEW g \in GroupNames \union {Null}, NEW b \in BOOLEAN, NEW c \in BOOLEAN
    PROVE  LET r == TaskFields(s, x, g, b, c)
           IN  /\ r \in TaskdataRecords /\ r.state = s /\ r.parent = x /\ r.inc = 0 /\ r.kids = 1 /\ r.group = g
               /\ r.complete = b /\ r.node = b
BY DEF TaskdataRecords, TaskFields

\* The descriptors of the first states.
LEMMA TaskFirst ==
    /\ FirstTask(Absent, "absent")
    /\ FirstTask([Taskdata(None, Null) EXCEPT !.executing = TRUE], "live")
<1>1. /\ "absent" \in States /\ "live" \in States /\ None \in Descriptors \union {None}
      /\ Null \in GroupNames \union {Null}
  BY DEF States
<1>b. PICK b \in BOOLEAN : b = FALSE  OBVIOUS
<1>c. PICK c \in BOOLEAN : c = TRUE  OBVIOUS
<1>x. PICK x \in Descriptors \union {None} : x = None  OBVIOUS
<1>g. PICK g \in GroupNames \union {Null} : g = Null  OBVIOUS
<1>2. ASSUME NEW s \in States, NEW e \in BOOLEAN PROVE FirstTask(TaskFields(s, x, g, b, e), s)
  <2>r. PICK r : r = TaskFields(s, x, g, b, e)  OBVIOUS
  <2>1. /\ r \in TaskdataRecords /\ r.state = s /\ r.parent = x /\ r.inc = 0 /\ r.kids = 1 /\ r.group = g
        /\ r.complete = b /\ r.node = b
    BY <2>r, TaskRecord
  <2>2. FirstTask(r, s)  BY <2>1, <1>b, <1>x, <1>g DEF FirstTask
  <2> QED  BY <2>r, <2>2
<1>3. FirstTask(TaskFields("absent", None, Null, b, b), "absent")  BY <1>1, <1>2, <1>x, <1>g
<1>4. FirstTask(TaskFields("live", None, Null, b, c), "live")  BY <1>1, <1>2, <1>x, <1>g
<1>5. /\ Absent = TaskFields("absent", None, Null, b, b)
      /\ [Taskdata(None, Null) EXCEPT !.executing = TRUE] = TaskFields("live", None, Null, b, c)
  BY <1>b, <1>c, TaskLiterals
<1> QED  BY <1>3, <1>4, <1>5

FirstNode(n) ==
    n \in DepnodeRecords /\ n.state = "absent" /\ n.task = FALSE /\ n.nrefs = 1 /\ n.succ = <<>>

\* The nodes of the first states.
LEMMA NodeFirst == FirstNode(Depnode("absent"))
<1> PICK s \in States : s = "absent"  BY DEF States
<1>u. PICK u \in Seq(Tasks) : u = <<>>  BY EmptySeq
<1>b. PICK b \in BOOLEAN : b = FALSE  OBVIOUS
<1>m. PICK m \in Int : m = 0  OBVIOUS
<1>k. PICK k \in Int : k = 1  OBVIOUS
<1>1. Depnode("absent") = [state |-> s, task |-> b, npred |-> m, nrefs |-> k, succ |-> u]
  BY <1>u, <1>b, <1>m, <1>k DEF Depnode
<1>2. [state |-> s, task |-> b, npred |-> m, nrefs |-> k, succ |-> u] \in DepnodeRecords  BY DEF DepnodeRecords
<1> QED  BY <1>1, <1>2, <1>u, <1>b, <1>k DEF FirstNode

\* The first states are typed.
LEMMA InitTypes == ASSUME Init PROVE Types
<1>1. stack \in [Threads -> Seq(FrameRecords)]
  <2>1. stack = [th \in Threads |-> stack[th]]  BY DEF Init
  <2> QED  BY <2>1, FramesFirst
<1>2. deque \in [Threads -> Seq(Tasks)] /\ \A th \in Threads : Len(deque[th]) <= QueueSize
  <2>1. \A th \in Threads : deque[th] = <<>>  BY DEF Init
  <2>2. <<>> \in Seq(Tasks) /\ Len(<<>>) = 0  OBVIOUS
  <2>3. deque = [th \in Threads |-> <<>>]  BY DEF Init
  <2> QED  BY <2>1, <2>2, <2>3, QueueAssumption
<1>3. td \in [Descriptors -> TaskdataRecords]  BY TaskFirst DEF Init, FirstTask
<1>4. groups \in [DOMAIN groups -> GroupRecords] /\ DOMAIN groups \subseteq GroupNames  BY DEF Init
<1>5. hash \in [Descriptors -> [Addrs -> Entries] \union {Null}]  BY DEF Init
<1>6. node \in [Tasks -> DepnodeRecords]  BY NodeFirst DEF Init, FirstNode
<1>7. proxy \in [Tasks -> Stages] /\ prog \in Programs  BY DEF Init, Stages
<1> QED  BY <1>1, <1>2, <1>3, <1>4, <1>5, <1>6, <1>7 DEF Types, DataTypes

----------------------------------------------------------------------------
(* The first states: shape. *)

\* The first frames are in order and hold no task.
LEMMA FirstFrameFacts ==
    ASSUME Init, NEW th \in Threads, NEW f, FirstFrame(f, th), NEW W, NEW K
    PROVE  LocalOK(f) /\ FrameOK(f, W, K) /\ \A t \in Tasks : ~Holds(f, t)
<1>1. f.task \in Threads /\ f.task \notin Tasks /\ f.ip = 1 /\ f.todo = <<>> /\ f.pc \in {"body", "barrier"} /\ f.task \in Descriptors
  BY TaskNames DEF FirstFrame, Descriptors
<1>n. PICK n \in Nat : n = Len(prog.body[f.task])  BY <1>1, InitTypes, ProgramFacts
<1>2. f.ip \in 1..Len(prog.body[f.task]) + 1  BY <1>1, <1>n
<1>3. f.pc \notin Bodily => f.ip = Len(prog.body[f.task]) + 1
  <2>1. ASSUME f.pc \notin Bodily PROVE prog.body[f.task] = <<>>  BY <2>1 DEF FirstFrame, Bodily
  <2>2. Len(<<>>) = 0  OBVIOUS
  <2> QED  BY <1>1, <2>1, <2>2
<1>4. LocalOK(f)  BY <1>1, <1>2, <1>3 DEF LocalOK, Bodily, Creating, Proxying
<1>5. \A t \in Tasks : ~Holds(f, t)  BY <1>1 DEF Holds, Makes, Pushes, Creating
<1>6. FrameOK(f, W, K)  BY <1>1 DEF FrameOK, Creating, Pushes
<1> QED  BY <1>4, <1>5, <1>6

InitPlaces(W, K) == W = [t \in Tasks |-> "absent"] /\ K = [t \in Tasks |-> None]

\* The first states have the shape.
LEMMA InitShape ==
    ASSUME Init, NEW W, NEW K, InitPlaces(W, K)
    PROVE  Shape(W, K)
<1>0. /\ W \in [Tasks -> Places] /\ K \in [Tasks -> Tasks \union {None}]
      /\ \A t \in Tasks : W[t] = "absent" /\ K[t] = None
  BY DEF InitPlaces, Places
<1>1. Types  BY InitTypes
<1>2. \A th \in Threads : stack[th] \in Seq(FrameRecords) /\ Len(stack[th]) = 1 /\ FirstFrame(stack[th][1], th)
  BY FramesFirst
<1>3. ASSUME NEW th \in Threads, NEW i \in 1..Len(stack[th]) PROVE i = 1 /\ FirstFrame(stack[th][i], th)
  <2>1. Len(stack[th]) = 1 /\ FirstFrame(stack[th][1], th)  BY <1>2
  <2>2. i \in 1..1  BY <2>1
  <2>3. i = 1  BY <2>2
  <2> QED  BY <2>1, <2>3
<1>4. Stacks
  <2>1. ASSUME NEW th \in Threads PROVE stack[th] # <<>> /\ stack[th][1].task = th
    <3>1. Len(<<>>) = 0  OBVIOUS
    <3> QED  BY <1>2, <3>1 DEF FirstFrame
  <2>2. ASSUME NEW th \in Threads, NEW i \in 1..Len(stack[th]) PROVE i = 1 /\ LocalOK(stack[th][i])
    BY <1>3, FirstFrameFacts
  <2> QED  BY <2>1, <2>2 DEF Stacks
<1>5. Unique
  <2>1. \A th \in Threads : \A i \in 1..Len(stack[th]) : \A t \in Tasks : ~Holds(stack[th][i], t)
    BY <1>3, FirstFrameFacts
  <2> QED  BY <2>1 DEF Unique
<1>6. Queued(W)
  <2>1. \A th \in Threads : Len(deque[th]) = 0
    <3>1. Len(<<>>) = 0  OBVIOUS
    <3> QED  BY <3>1 DEF Init
  <2> QED  BY <2>1 DEF Queued
<1>7. FramesOK(W, K)  BY <1>3, FirstFrameFacts DEF FramesOK
<1>8. ASSUME NEW t \in Tasks PROVE ProxyOK(t, W[t]) /\ TaskOK(t, W[t]) /\ ChildOK(t, W)
  <2>1. proxy[t] = "idle"  BY DEF Init
  <2>2. FirstTask(td[t], "absent")
    <3>1. t \in Descriptors /\ t \notin Threads  BY TaskNames DEF Descriptors
    <3>2. td[t] = Absent  BY <3>1 DEF Init
    <3> QED  BY <3>2, TaskFirst
  <2>3. FirstNode(node[t])  BY NodeFirst DEF Init
  <2>4. Kind(t) \in {"task", "if0", "proxy"}  BY <1>1, ProgramFacts
  <2>5. ProxyOK(t, W[t])  BY <1>0, <2>1, <2>4 DEF ProxyOK, Young, Late
  <2>6. TaskOK(t, W[t])
    <3>1. td[t].state = "absent" /\ ~td[t].complete /\ ~td[t].node /\ td[t].group = Null /\ td[t].inc = 0 /\ td[t].kids = 1
      BY <2>2 DEF FirstTask
    <3>2. node[t].state = "absent" /\ ~node[t].task /\ node[t].succ = <<>>  BY <2>3 DEF FirstNode
    <3> QED  BY <1>0, <2>1, <3>1, <3>2 DEF TaskOK, Late
  <2> QED  BY <1>0, <2>5, <2>6 DEF ChildOK
<1>9. ClimbOK(W, K)  BY <1>0 DEF ClimbOK
<1> QED  BY <1>0, <1>1, <1>4, <1>5, <1>6, <1>7, <1>8, <1>9 DEF Shape

\* At first there is no task.
LEMMA NoneYet ==
    ASSUME Init, NEW W, NEW K, InitPlaces(W, K)
    PROVE  /\ \A t \in Tasks : W[t] = "absent" /\ K[t] = None /\ FirstTask(td[t], "absent") /\ FirstNode(node[t]) /\ proxy[t] = "idle"
           /\ \A th \in Threads : FirstTask(td[th], "live")
           /\ \A f \in Frames : \E th \in Threads : FirstFrame(f, th)
<1>1. ASSUME NEW t \in Tasks PROVE FirstTask(td[t], "absent")
  <2>1. t \in Descriptors /\ t \notin Threads  BY TaskNames DEF Descriptors
  <2>2. td[t] = Absent  BY <2>1 DEF Init
  <2> QED  BY <2>2, TaskFirst
<1>2. ASSUME NEW th \in Threads PROVE FirstTask(td[th], "live")
  <2>1. td[th] = [Taskdata(None, Null) EXCEPT !.executing = TRUE]  BY DEF Init, Descriptors
  <2> QED  BY <2>1, TaskFirst
<1>3. \A t \in Tasks : FirstNode(node[t]) /\ proxy[t] = "idle"  BY NodeFirst DEF Init
<1>4. ASSUME NEW f \in Frames PROVE \E th \in Threads : FirstFrame(f, th)
  <2>1. stack \in [Threads -> Seq(FrameRecords)]  BY InitTypes DEF Types
  <2>2. PICK th \in Threads : \E i \in 1..Len(stack[th]) : stack[th][i] = f  BY <2>1, InFrames
  <2>3. Len(stack[th]) = 1 /\ FirstFrame(stack[th][1], th)  BY FramesFirst
  <2> QED  BY <2>2, <2>3
<1> QED  BY <1>1, <1>2, <1>3, <1>4 DEF InitPlaces

----------------------------------------------------------------------------
(* The first states: counters and dependences; the inductive invariant. *)

InitGhosts(R, H, O, B) ==
    /\ R = [t \in Tasks |-> <<>>] /\ H = [t \in Tasks |-> Null]
    /\ O = [d \in Descriptors |-> <<>>] /\ B = [t \in Tasks |-> 0]

\* At first the counters are right.
LEMMA InitCounters ==
    ASSUME Init, NEW W, NEW K, InitPlaces(W, K), NEW R, NEW H, NEW O, NEW B, InitGhosts(R, H, O, B)
    PROVE  Counters(W, K, H, O)
<1>0. /\ \A t \in Tasks : W[t] = "absent" /\ K[t] = None /\ FirstTask(td[t], "absent") /\ FirstNode(node[t]) /\ proxy[t] = "idle"
      /\ \A th \in Threads : FirstTask(td[th], "live")
      /\ \A f \in Frames : \E th \in Threads : FirstFrame(f, th)
  BY NoneYet
<1>1. Kids(W, K)  BY <1>0 DEF Kids, FirstTask
<1>2. Incs(W)
  <2>1. ASSUME NEW d \in Descriptors, d \in Threads \/ W[d] # "absent"
        PROVE  td[d].inc = Cardinality(Pending(W, d)) + Image(d)
    <3>1. d \in Threads /\ d \notin Tasks  BY <1>0, <2>1, TaskNames DEF Descriptors
    <3>2. td[d].inc = 0  BY <1>0, <3>1 DEF FirstTask
    <3>3. Pending(W, d) = {}  BY <1>0 DEF Pending, Waited
    <3>4. Cardinality(Pending(W, d)) = 0  BY <3>3, FS_EmptySet
    <3>5. Image(d) = 0  BY <3>1 DEF Image
    <3> QED  BY <3>2, <3>4, <3>5
  <2> QED  BY <2>1 DEF Incs
<1>3. Groups(W, H, O)
  <2>0. DOMAIN groups = {}
    <3>1. groups = <<>>  BY DEF Init
    <3> QED  BY <3>1
  <2>1. H \in [Tasks -> GroupNames \union {Null}] /\ \A t \in Tasks : H[t] = Null  BY DEF InitGhosts
  <2>2. O \in [Descriptors -> Seq(Nat)] /\ \A d \in Descriptors : O[d] = <<>>
    <3>1. <<>> \in Seq(Nat)  OBVIOUS
    <3> QED  BY <3>1 DEF InitGhosts
  <2>l. \A d \in Descriptors : Len(O[d]) = 0
    <3>1. Len(<<>>) = 0  OBVIOUS
    <3> QED  BY <2>2, <3>1
  <2>3. ASSUME NEW d \in Descriptors PROVE GroupsD(d, W, H, O)
    <3>1. td[d].group = Null  BY <1>0 DEF FirstTask, Descriptors
    <3>2. Home(H, d) = Null  BY <2>1 DEF Home
    <3> QED  BY <2>2, <2>l, <3>1, <3>2 DEF GroupsD
  <2>4. ASSUME NEW f \in Frames PROVE GroupsF(f, O)
    <3>1. PICK th \in Threads : FirstFrame(f, th)  BY <1>0
    <3>2. f.task \in Descriptors /\ f.ip = 1  BY <3>1 DEF FirstFrame, Descriptors
    <3>3. Depth(f.task, 0) = 0  BY DepthZero
    <3>4. f.ip - 1 = 0  BY <3>2
    <3> QED  BY <2>l, <3>2, <3>3, <3>4 DEF GroupsF
  <2>5. \A t \in Tasks : ~Belongs(t, W[t])  BY <1>0 DEF Belongs
  <2>6. \A t \in Tasks : O[t] = <<>>  BY <2>2 DEF Descriptors
  <2> QED  BY <2>0, <2>1, <2>2, <2>3, <2>4, <2>5, <2>6 DEF Groups
<1> QED  BY <1>1, <1>2, <1>3 DEF Counters

\* At first the dependences are right.
LEMMA InitDependences ==
    ASSUME Init, NEW W, NEW K, InitPlaces(W, K), NEW R, NEW H, NEW O, NEW B, InitGhosts(R, H, O, B)
    PROVE  Dependences(W, R, B, 0)
<1>0. /\ \A t \in Tasks : W[t] = "absent" /\ K[t] = None /\ FirstTask(td[t], "absent") /\ FirstNode(node[t]) /\ proxy[t] = "idle"
      /\ \A f \in Frames : \E th \in Threads : FirstFrame(f, th)
  BY NoneYet
<1>f. ASSUME NEW f \in Frames PROVE f.pc \in {"body", "barrier"}  BY <1>0 DEF FirstFrame
<1>r. R \in [Tasks -> Seq(Tasks)] /\ \A t \in Tasks : R[t] = <<>> /\ Len(R[t]) = 0
  <2>1. <<>> \in Seq(Tasks) /\ Len(<<>>) = 0  OBVIOUS
  <2> QED  BY <2>1 DEF InitGhosts
<1>s. \A t : SuccUses(R, t) = {} /\ Untold(W, R, t) = {}
  <2>1. ASSUME NEW t, NEW r \in SuccUses(R, t) PROVE FALSE
    <3>1. r[1] \in Tasks /\ r[2] \in 1..Len(R[r[1]])  BY <2>1, SuccUsesIn
    <3>2. r[2] \in 1..0  BY <1>r, <3>1
    <3> QED  BY <3>2
  <2> QED  BY <2>1 DEF Untold
<1>1. Preds(W, R)
  <2>1. ASSUME NEW t \in Tasks PROVE PredsT(t, W, R)
    <3>1. Mirror(node[t].succ, R[t])
      <4>1. node[t].succ = <<>>  BY <1>0 DEF FirstNode
      <4>2. Len(<<>>) = 0  OBVIOUS
      <4> QED  BY <1>r, <4>1, <4>2 DEF Mirror
    <3>2. IsFiniteSet(SuccUses(R, t))  BY <1>s, FS_EmptySet
    <3>3. ~Tracked(W, t)  BY <1>0 DEF Tracked, FirstNode
    <3>4. W[t] = "absent"  BY <1>0
    <3> QED  BY <1>s, <3>1, <3>2, <3>3, <3>4 DEF PredsT
  <2>2. \A f \in Frames : PredsF(f, W, R)  BY <1>f DEF PredsF
  <2> QED  BY <1>r, <2>1, <2>2 DEF Preds
<1>h. \A d \in Descriptors : hash[d] = Null  BY DEF Init
<1>2. Nodes(W, R)
  <2>1. ASSUME NEW t \in Tasks PROVE NodesT(t, W, R)  BY <1>0, <1>s DEF NodesT, FirstNode
  <2>2. \A d \in Descriptors : NodesD(d)  BY <1>h DEF NodesD
  <2>3. \A f \in Frames : NodesF(f)  BY <1>f DEF NodesF
  <2> QED  BY <2>1, <2>2, <2>3 DEF Nodes
<1>3. Order(W, R, B, 0)
  <2>1. B \in [Tasks -> Nat]  BY DEF InitGhosts
  <2>2. ASSUME NEW p \in Tasks, NEW k \in 1..Len(R[p]) PROVE FALSE
    <3>1. k \in 1..0  BY <1>r, <2>2
    <3> QED  BY <3>1
  <2>3. \A f \in Frames : OrderF(f, W, B)  BY <1>f DEF OrderF
  <2> QED  BY <1>0, <2>1, <2>2, <2>3 DEF Order
<1>4. HashOwners(W)  BY <1>h DEF HashOwners
<1> QED  BY <1>1, <1>2, <1>3, <1>4 DEF Dependences

\* The first states satisfy the invariant.
LEMMA InitInv == ASSUME Init PROVE IInv
<1>W. PICK W, K : InitPlaces(W, K)  BY DEF InitPlaces
<1>R. PICK R, H, O, B : InitGhosts(R, H, O, B)  BY DEF InitGhosts
<1>1. Shape(W, K)  BY <1>W, InitShape
<1>2. Counters(W, K, H, O)  BY <1>W, <1>R, InitCounters
<1>3. Dependences(W, R, B, 0)  BY <1>W, <1>R, InitDependences
<1>4. Present(W, K)
  <2>1. \A t \in Tasks : W[t] = "absent" /\ K[t] = None  BY <1>W, NoneYet
  <2> QED  BY <2>1 DEF Present, HeldBy, Running
<1> QED  BY <1>1, <1>2, <1>3, <1>4, InvParts DEF IInv

----------------------------------------------------------------------------
(* Every step keeps the invariant. *)

\* Stuttering is hush.
LEMMA StutterQuiet ==
    ASSUME NEW W, NEW K, Shape(W, K), Present(W, K), UNCHANGED vars
    PROVE  Quietly(W, K)
<1>0. /\ prog' = prog /\ stack' = stack /\ deque' = deque /\ td' = td /\ groups' = groups
      /\ hash' = hash /\ node' = node /\ proxy' = proxy
  BY DEF vars
<1>1. SameTd  BY <1>0, TdUnchanged DEF Shape, Types, DataTypes
<1>2. QuietTd  BY <1>1, SameTdQuiet
<1>3. QuietData  BY <1>0 DEF QuietData
<1>4. HushFrames(W)  BY <1>0, HushStill
<1>5. Hush(W, W)  BY <1>0, <1>2, <1>3, <1>4, HushNone
<1>6. \A s \in Tasks : W[s] = "queue" => InDeque(s)'  BY <1>0, DequeSame
<1>7. Present(W, K)'  BY <1>0, <1>6, PresentSame
<1>8. Shape(W, K)'
  <2>1. DataTypes'  BY <1>0 DEF Shape, Types, DataTypes
  <2>2. \A s \in Tasks : Calm(W, s)
    <3>1. \A s \in Tasks : NodeAlike(s)  BY <1>0 DEF NodeAlike
    <3>2. \A s \in Tasks : TdAlike(s)  BY <1>0 DEF TdAlike
    <3> QED  BY <1>0, <3>1, <3>2, CalmFrom
  <2>3. Lawful(W, K, W, K)  BY <1>0, <2>1, <2>2, LawfulSame
  <2> QED  BY <1>0, <2>3, StepOutside
<1> QED  BY <1>5, <1>7, <1>8 DEF Quietly

\* Every step of a thread keeps the invariant.
LEMMA StepAgain ==
    ASSUME Races = {}, NEW W, NEW K, NEW R, NEW H, NEW O, NEW B, NEW C, Inv(W, K, R, H, O, B, C),
           NEW th \in Threads, Step(th)
    PROVE  Again
<1>0. Shape(W, K) /\ Present(W, K) /\ Incs(W)  BY DEF Inv
<1>q. ASSUME Quietly(W, K) PROVE Again  BY <1>q, QuietAgain
<1>1. CASE Create(th)  BY <1>1, CreateAgain
<1>2. CASE Link(th)  BY <1>2, LinkAgain
<1>3. CASE Enter(th)  BY <1>3, EnterAgain
<1>4. CASE Count(th)  BY <1>4, CountAgain
<1>5. CASE DepsMet(th)  BY <1>5, DepsMetAgain
<1>6. CASE SubmitNew(th)  BY <1>0, <1>q, <1>6, SubmitNewQuiet
<1>7. CASE Begin(th)  BY <1>0, <1>q, <1>7, BeginQuiet
<1>8. CASE TakeOwn(th)  BY <1>0, <1>q, <1>8, TakeOwnQuiet
<1>9. CASE \E v \in Threads : StealFrom(th, v)  BY <1>0, <1>q, <1>9, StealQuiet
<1>10. CASE Pass(th)  BY <1>0, <1>q, <1>10, PassQuiet
<1>11. CASE Taskgroup(th)  BY <1>11, TaskgroupAgain
<1>12. CASE EndTaskgroup(th)  BY <1>12, EndTaskgroupAgain
<1>13. CASE EndImplicit(th)  BY <1>13, EndImplicitAgain
<1>14. CASE Complete(th)  BY <1>14, CompleteAgain
<1>15. CASE LeaveGroup(th)  BY <1>15, LeaveGroupAgain
<1>16. CASE Release(th)  BY <1>16, ReleaseAgain
<1>17. CASE Notify(th)  BY <1>17, NotifyAgain
<1>18. CASE SubmitReleased(th)  BY <1>0, <1>q, <1>18, SubmitReleasedQuiet
<1>19. CASE Drop(th)  BY <1>19, DropAgain
<1>20. CASE Released(th)  BY <1>20, ReleasedAgain
<1>21. CASE Free(th)  BY <1>21, FreeAgain
<1>22. CASE Launch(th)  BY <1>0, <1>q, <1>22, LaunchQuiet
<1>23. CASE Returned(th)  BY <1>0, <1>q, <1>23, ReturnedQuiet
<1>24. CASE BottomHalf(th)
  <2>1. proxy[Top(th).task] = "done"  BY <1>0, <1>24, BottomDone
  <2> QED  BY <1>0, <1>q, <1>24, <2>1, BottomHalfQuiet
<1> QED
  BY <1>1, <1>2, <1>3, <1>4, <1>5, <1>6, <1>7, <1>8, <1>9, <1>10, <1>11, <1>12, <1>13, <1>14, <1>15,
     <1>16, <1>17, <1>18, <1>19, <1>20, <1>21, <1>22, <1>23, <1>24 DEF Step

\* Every step outside the team keeps the invariant.
LEMMA OutsideAgain ==
    ASSUME Races = {}, NEW W, NEW K, NEW R, NEW H, NEW O, NEW B, NEW C, Inv(W, K, R, H, O, B, C),
           NEW t \in Tasks, Outside(t)
    PROVE  Again
<1>0. Shape(W, K) /\ Present(W, K)  BY DEF Inv
<1>1. CASE Signal(t)
  <2>1. Quietly(W, K)  BY <1>0, <1>1, SignalQuiet
  <2> QED  BY <2>1, QuietAgain
<1>2. CASE Imagine(t)  BY <1>2, ImagineAgain
<1>3. CASE Give(t)
  <2>1. Quietly(W, K)  BY <1>0, <1>3, GiveQuiet
  <2> QED  BY <2>1, QuietAgain
<1>4. CASE LeaveParent(t)  BY <1>4, LeaveParentAgain
<1>5. CASE Forget(t)  BY <1>5, ForgetAgain
<1> QED  BY <1>1, <1>2, <1>3, <1>4, <1>5 DEF Outside

\* The invariant is inductive.
LEMMA NextInv == ASSUME Races = {}, IInv, [Next]_vars PROVE IInv'
<1>1. PICK W, K, R, H, O, B, C : Inv(W, K, R, H, O, B, C)  BY DEF IInv
<1>2. CASE \E th \in Threads : Step(th)  BY <1>1, <1>2, StepAgain DEF Again, IInv
<1>3. CASE \E t \in Tasks : Outside(t)  BY <1>1, <1>3, OutsideAgain DEF Again, IInv
<1>4. CASE UNCHANGED vars
  <2>1. Shape(W, K) /\ Present(W, K)  BY <1>1 DEF Inv
  <2>2. Quietly(W, K)  BY <1>4, <2>1, StutterQuiet
  <2>3. Again  BY <1>1, <2>2, QuietAgain
  <2> QED  BY <2>3 DEF Again, IInv
<1> QED  BY <1>2, <1>3, <1>4 DEF Next

\* In every behaviour without the windows of Races, the witnesses of the inductive
\* invariant exist in every state: this is what the other theorems follow from.
THEOREM SpecInv == ASSUME Races = {} PROVE Spec => []IInv
<1>1. Init => IInv  BY InitInv
<1>2. IInv /\ [Next]_vars => IInv'  BY NextInv
<1> QED  BY <1>1, <1>2, PTL DEF Spec

----------------------------------------------------------------------------
(* The invariant implies the types: no counter is negative. *)

\* A set with an element has one.
LEMMA AtLeastOne ==
    ASSUME NEW S, IsFiniteSet(S), NEW x \in S
    PROVE  Cardinality(S) \in Nat /\ Cardinality(S) >= 1
<1>1. PICK n \in Nat : n = Cardinality(S)  BY FS_CardinalityType
<1>2. n # 0  BY <1>1, FS_EmptySet
<1> QED  BY <1>1, <1>2

\* A descriptor is live as long as the task, a child or a climber holds it.
LEMMA PresentKids ==
    ASSUME NEW W, NEW K, Shape(W, K), Kids(W, K), NEW d \in Tasks, W[d] # "absent"
    PROVE  /\ td[d].kids \in Nat
           /\ W[d] # "gone" \/ Children(d) # {} \/ Climbers(K, d) # {} => td[d].state = "live"
           /\ W[d] = "gone" /\ Children(d) = {} /\ Climbers(K, d) = {} => td[d].state = "freed"
<1> PICK c \in Nat : c = Cardinality(Children(d))  BY SubTasks DEF Children
<1> PICK k \in Nat : k = Cardinality(Climbers(K, d))  BY SubTasks DEF Climbers
<1> PICK s \in 0..1 : s = IF W[d] = "gone" THEN 0 ELSE 1  OBVIOUS
<1>1. td[d].kids = s + c + k  BY DEF Kids
<1>2. td[d].kids \in Nat  BY <1>1
<1>3. td[d].state = IF td[d].kids = 0 THEN "freed" ELSE "live"  BY DEF Kids
<1>4. IsFiniteSet(Children(d)) /\ IsFiniteSet(Climbers(K, d))  BY SubTasks DEF Children, Climbers
<1>5. c = 0 <=> Children(d) = {}  BY <1>4, FS_EmptySet
<1>6. k = 0 <=> Climbers(K, d) = {}  BY <1>4, FS_EmptySet
<1>7. s = 1 <=> W[d] # "gone"  OBVIOUS
<1>8. td[d].kids = 0 <=> s = 0 /\ c = 0 /\ k = 0  BY <1>1
<1> QED  BY <1>2, <1>3, <1>5, <1>6, <1>7, <1>8

\* A task that is not gone has its descriptor.
LEMMA LiveWhen ==
    ASSUME NEW W, NEW K, Shape(W, K), Kids(W, K), NEW t \in Tasks, W[t] \notin {"absent", "gone"}
    PROVE  Live(t)
BY PresentKids DEF Live

\* The counts of a descriptor are not negative.
LEMMA DescriptorCounts ==
    ASSUME NEW W, NEW K, Shape(W, K), Kids(W, K), Incs(W), NEW d \in Descriptors
    PROVE  td[d].inc \in Nat /\ td[d].kids \in Nat
<1>1. CASE d \in Tasks /\ W[d] = "absent"
  <2>1. TaskOK(d, W[d])  BY <1>1 DEF Shape
  <2> QED  BY <1>1, <2>1 DEF TaskOK
<1>2. CASE d \in Threads \/ W[d] # "absent"
  <2> PICK n \in Nat : n = Cardinality(Pending(W, d))  BY PendingType
  <2> PICK m \in 0..1 : m = Image(d)  BY PendingType
  <2>1. td[d].inc = n + m  BY <1>2 DEF Incs
  <2>2. td[d].kids \in Nat
    <3>1. CASE d \in Threads  BY <3>1 DEF Kids
    <3>2. CASE d \in Tasks  BY <1>2, <3>2, TaskNames, PresentKids
    <3> QED  BY <3>1, <3>2 DEF Descriptors
  <2> QED  BY <2>1, <2>2
<1> QED  BY <1>1, <1>2 DEF Descriptors

\* A task that is not complete is in its group.
LEMMA BelongsOrComplete ==
    ASSUME NEW W, NEW K, Shape(W, K), NEW t \in Tasks, W[t] # "absent", ~td[t].complete
    PROVE  Belongs(t, W[t])
<1>1. TaskOK(t, W[t]) /\ ProxyOK(t, W[t]) /\ proxy[t] \in Stages  BY DEF Shape, Types, DataTypes
<1>2. CASE Kind(t) = "proxy"  BY <1>1, <1>2 DEF TaskOK, Belongs
<1>3. CASE Kind(t) # "proxy"  BY <1>1, <1>3 DEF TaskOK, Belongs
<1> QED  BY <1>2, <1>3

\* The group of a task that will leave it, or that may create in it, exists.
LEMMA GroupExists ==
    ASSUME NEW W, NEW K, Shape(W, K), NEW H, NEW O, Groups(W, H, O), NEW d \in Descriptors,
           d \in Tasks => Belongs(d, W[d]) \/ ~td[d].complete
    PROVE  td[d].group \in DOMAIN groups \union {Null}
<1>1. CASE d \in Tasks /\ W[d] = "absent"
  <2>1. TaskOK(d, W[d])  BY <1>1 DEF Shape
  <2> QED  BY <1>1, <2>1 DEF TaskOK
<1>2. CASE d \in Threads \/ W[d] # "absent"
  <2>1. CASE O[d] # <<>>  BY <1>2, <2>1, GroupOf
  <2>2. CASE O[d] = <<>>
    <3>1. td[d].group = Home(H, d)  BY <1>2, <2>2, GroupOf
    <3>2. CASE d \in Tasks
      <4>1. W[d] # "absent"  BY <1>2, <3>2, TaskNames
      <4>2. Belongs(d, W[d])  BY <3>2, <4>1, BelongsOrComplete
      <4> QED  BY <3>1, <3>2, <4>2 DEF Groups, Home
    <3>3. CASE d \notin Tasks  BY <3>1, <3>3 DEF Home
    <3> QED  BY <3>2, <3>3
  <2> QED  BY <2>1, <2>2
<1> QED  BY <1>1, <1>2 DEF Descriptors

\* The uses in the parent's hash are finitely many.
LEMMA ParentUsesFinite ==
    ASSUME Types, NEW t \in Tasks, td[t].parent \in Descriptors
    PROVE  IsFiniteSet(ParentUses(t)) /\ Cardinality(ParentUses(t)) \in Nat
<1>1. CASE hash[td[t].parent] = Null  BY <1>1, FS_EmptySet DEF ParentUses
<1>2. CASE hash[td[t].parent] # Null
  <2>1. hash[td[t].parent] \in [Addrs -> Entries]  BY <1>2 DEF Types, DataTypes
  <2> QED  BY <1>2, <2>1, HashUsesFinite DEF ParentUses
<1> QED  BY <1>1, <1>2

\* A node with a use left is there.
LEMMA NodeCounts ==
    ASSUME NEW W, NEW K, Shape(W, K), NEW R, Preds(W, R), Nodes(W, R), NEW t \in Tasks
    PROVE  /\ node[t].nrefs \in Nat
           /\ node[t].state # "absent" /\ Kind(t) # "if0" =>
                /\ W[t] \notin {"free", "gone"} \/ SuccUses(R, t) # {} \/ ParentUses(t) # {} => node[t].state = "live"
                /\ W[t] \in {"free", "gone"} /\ SuccUses(R, t) = {} /\ ParentUses(t) = {} => node[t].state = "freed"
<1>n. NodesT(t, W, R)  BY DEF Nodes
<1>1. CASE node[t].state = "absent"  BY <1>1, <1>n DEF NodesT
<1>2. CASE node[t].state # "absent"
  <2>0. TaskOK(t, W[t])  BY DEF Shape
  <2>1. W[t] # "absent"  BY <1>2, <2>0 DEF TaskOK
  <2>2. td[t].parent \in Descriptors  BY <2>1, ParentFacts
  <2>3. IsFiniteSet(ParentUses(t)) /\ Cardinality(ParentUses(t)) \in Nat  BY <2>2, ParentUsesFinite DEF Shape
  <2>4. IsFiniteSet(SuccUses(R, t))  BY DEF Preds, PredsT
  <2> PICK p \in Nat : p = Cardinality(ParentUses(t))  BY <2>3
  <2> PICK s \in Nat : s = Cardinality(SuccUses(R, t))  BY <2>4, FS_CardinalityType
  <2> PICK u \in 0..1 : u = SelfUse(W, t)  BY DEF SelfUse
  <2>5. node[t].nrefs = u + s + p  BY <1>2, <1>n DEF NodesT
  <2>6. p = 0 <=> ParentUses(t) = {}  BY <2>3, FS_EmptySet
  <2>7. s = 0 <=> SuccUses(R, t) = {}  BY <2>4, FS_EmptySet
  <2>8. Kind(t) # "if0" => (u = 0 <=> W[t] \in {"free", "gone"})  BY DEF SelfUse
  <2>9. node[t].nrefs \in Nat /\ (node[t].nrefs = 0 <=> u = 0 /\ s = 0 /\ p = 0)  BY <2>5
  <2>10. Kind(t) # "if0" => node[t].state = IF node[t].nrefs = 0 THEN "freed" ELSE "live"  BY <1>2, <1>n DEF NodesT
  <2> QED  BY <2>6, <2>7, <2>8, <2>9, <2>10
<1> QED  BY <1>1, <1>2

\* The invariant implies the types.
LEMMA InvTypeOK == ASSUME IInv PROVE TypeOK
<1>1. PICK W, K, R, H, O, B, C : Inv(W, K, R, H, O, B, C)  BY DEF IInv
<1>2. Shape(W, K) /\ Kids(W, K) /\ Incs(W) /\ Groups(W, H, O) /\ Preds(W, R) /\ Nodes(W, R)  BY <1>1 DEF Inv
<1>3. Types /\ DataTypes  BY <1>2 DEF Shape, Types
<1>4. ASSUME NEW th \in Threads
      PROVE  /\ \A i \in 1..Len(stack[th]) : stack[th][i].todo \in Seq(Tasks)
             /\ deque[th] \in Seq(Tasks) /\ Len(deque[th]) <= QueueSize
  <2>1. ASSUME NEW i \in 1..Len(stack[th]) PROVE stack[th][i].todo \in Seq(Tasks)
    <3>1. stack[th][i] \in FrameRecords  BY <1>3, FrameTyped DEF Types
    <3> QED  BY <3>1 DEF FrameRecords
  <2> QED  BY <1>3, <2>1 DEF DataTypes
<1>5. ASSUME NEW d \in Descriptors
      PROVE  /\ td[d].inc \in Nat /\ td[d].kids \in Nat
             /\ td[d].group \in DOMAIN groups \union {Null} \/ td[d].complete
  <2>1. td[d].inc \in Nat /\ td[d].kids \in Nat  BY <1>2, DescriptorCounts
  <2>2. td[d].group \in DOMAIN groups \union {Null} \/ td[d].complete  BY <1>2, GroupExists
  <2> QED  BY <2>1, <2>2
<1>6. \A g \in DOMAIN groups : groups[g].count \in Nat  BY <1>2, MembersType DEF Groups, GroupsG
<1>7. ASSUME NEW t \in Tasks PROVE node[t].nrefs \in Nat /\ node[t].npred \in Int
  <2>1. node[t] \in DepnodeRecords  BY <1>3 DEF DataTypes
  <2>2. node[t].npred \in Int  BY <2>1 DEF DepnodeRecords
  <2> QED  BY <1>2, <2>2, NodeCounts
<1> QED  BY <1>4, <1>5, <1>6, <1>7 DEF TypeOK

----------------------------------------------------------------------------
(* The invariant implies that nothing in use has been freed. *)

\* Whoever the node of a successor waits for keeps it; so does an entry of a hash.
LEMMA SuccessorLive ==
    ASSUME NEW W, NEW K, Shape(W, K), NEW R, Preds(W, R), Nodes(W, R), NEW p \in Tasks, NEW k \in 1..Len(R[p])
    PROVE  R[p][k] \in Tasks /\ node[R[p][k]].state = "live"
<1>1. R[p] \in Seq(Tasks)  BY DEF Preds
<1>t. PICK t \in Tasks : t = R[p][k]  BY <1>1, ElementOf
<1>r. PICK r : r = <<p, k>>  OBVIOUS
<1>2. r \in {p} \X (1..Len(R[p])) /\ r[1] = p /\ r[2] = k  BY <1>r
<1>3. r \in SuccUses(R, t)  BY <1>t, <1>2 DEF SuccUses
<1>4. NodesT(t, W, R)  BY DEF Nodes
<1>5. node[t].state # "absent"  BY <1>3, <1>4 DEF NodesT
<1>6. CASE Kind(t) = "if0"
  <2>1. node[t].state # "freed"  BY <1>3, <1>4, <1>5, <1>6 DEF NodesT
  <2> QED  BY <1>t, <1>4, <1>5, <1>6, <2>1 DEF NodesT
<1>7. CASE Kind(t) # "if0"
  <2>1. SuccUses(R, t) # {}  BY <1>3
  <2> QED  BY <1>t, <1>5, <1>7, <2>1, NodeCounts
<1> QED  BY <1>6, <1>7

\* The nodes that a list or a frame on its way along one names are live.
LEMMA ListedLive ==
    ASSUME NEW W, NEW K, Shape(W, K), NEW R, Preds(W, R), Nodes(W, R), NEW p \in Tasks, NEW s, Mirror(s, R[p]),
           NEW i \in 1..Len(s)
    PROVE  node[s[i]].state = "live"
<1>1. R[p] \in Seq(Tasks)  BY DEF Preds
<1>2. PICK n \in Nat : n = Len(R[p])  BY <1>1
<1>3. Len(s) = n /\ s[i] = R[p][n + 1 - i] /\ i \in 1..n  BY <1>2 DEF Mirror
<1>4. PICK k \in 1..n : k = n + 1 - i  BY <1>3
<1> QED  BY <1>2, <1>3, <1>4, SuccessorLive

\* The nodes that a hash names are live.
LEMMA HashedLive ==
    ASSUME NEW W, NEW K, Shape(W, K), NEW R, Preds(W, R), Nodes(W, R), NEW d \in Descriptors, hash[d] # Null,
           NEW a \in Addrs, NEW t \in Tasks, Names(hash[d][a], t)
    PROVE  node[t].state = "live"
<1>1. td[t].parent = d /\ td[t].node  BY DEF Nodes, NodesD
<1>2. TaskOK(t, W[t])  BY DEF Shape
<1>3. node[t].state # "absent" /\ Kind(t) # "if0"  BY <1>1, <1>2 DEF TaskOK
<1>4. PICK i \in 0..Len(hash[d][a].ins) : t = IF i = 0 THEN hash[d][a].out ELSE hash[d][a].ins[i]
  <2>0. hash[d] \in [Addrs -> Entries]  BY DEF Shape, Types, DataTypes
  <2>1. hash[d][a] \in Entries  BY <2>0
  <2>2. hash[d][a].ins \in Seq(Tasks)  BY <2>1 DEF Entries
  <2>3. PICK n \in Nat : n = Len(hash[d][a].ins)  BY <2>2
  <2>4. CASE t = hash[d][a].out
    <3>1. 0 \in 0..n  OBVIOUS
    <3> QED  BY <2>3, <2>4, <3>1
  <2>5. CASE t # hash[d][a].out
    <3>1. PICK i \in 1..n : t = hash[d][a].ins[i]  BY <2>3, <2>5 DEF Names
    <3>2. i \in 0..n /\ i # 0  BY <3>1
    <3> QED  BY <2>3, <3>1, <3>2
  <2> QED  BY <2>4, <2>5
<1>5. i \in Uses(hash[d][a], t)  BY <1>4 DEF Uses
<1>6. <<a, i>> \in HashUses(hash[d], t)  BY <1>5 DEF HashUses
<1>7. ParentUses(t) # {}  BY <1>1, <1>6 DEF ParentUses
<1> QED  BY <1>3, <1>7, NodeCounts

\* The node of a task in the making or at work is live.
LEMMA WorkingNode ==
    ASSUME NEW W, NEW K, Shape(W, K), NEW R, Preds(W, R), Nodes(W, R), NEW t \in Tasks, node[t].state # "absent",
           W[t] \in {"linking", "depwait"} \/ (Kind(t) # "if0" /\ W[t] \notin {"free", "gone"})
    PROVE  node[t].state = "live"
<1>1. CASE Kind(t) # "if0"  BY <1>1, NodeCounts
<1>2. CASE Kind(t) = "if0"
  <2>1. NodesT(t, W, R)  BY DEF Nodes
  <2> QED  BY <1>2, <2>1 DEF NodesT
<1> QED  BY <1>1, <1>2

\* What a frame uses is live.
LEMMA FramesIntact ==
    ASSUME NEW W, NEW K, Shape(W, K), Kids(W, K), NEW R, Preds(W, R), Nodes(W, R), NEW f \in Frames
    PROVE  FrameIntact(f)
<1>1. f \in FrameRecords /\ LocalOK(f) /\ FrameOK(f, W, K)  BY FrameFacts
<1>2. f.task \in Descriptors /\ f.pc \in Pcs /\ f.todo \in Seq(Tasks)  BY <1>1 DEF FrameRecords
<1>3. Live(IF f.pc = "free" THEN f.x ELSE f.task)
  <2>1. CASE f.task \in Threads
    <3>1. f.pc # "free"  BY <1>1, <2>1 DEF LocalOK, Bodily, Creating
    <3> QED  BY <2>1, <3>1 DEF Live
  <2>2. CASE f.task \in Tasks /\ f.pc # "free"
    <3>1. W[f.task] = Place(f.pc)  BY <1>1, <2>2 DEF FrameOK
    <3>2. Place(f.pc) \notin {"absent", "gone"}
      BY <1>1, <1>2, <2>2 DEF Place, Pcs, Bodily, Creating, Proxying, Finishing, LocalOK
    <3> QED  BY <2>2, <3>1, <3>2, LiveWhen
  <2>3. CASE f.task \in Tasks /\ f.pc = "free"
    <3>1. f.x \in Tasks  BY <1>1, <2>3 DEF LocalOK
    <3>2. CASE W[f.task] = "gone"
      <4>1. K[f.task] = f.x  BY <1>1, <2>3, <3>2 DEF FrameOK
      <4>2. f.task \in Climbers(K, f.x)  BY <2>3, <4>1 DEF Climbers
      <4>3. W[f.x] # "absent"
        <5>1. K[f.task] # None  BY <3>1, <4>1, TaskNames
        <5> QED  BY <2>3, <4>1, <5>1 DEF Shape, ClimbOK
      <4> QED  BY <2>3, <3>1, <4>2, <4>3, PresentKids DEF Live
    <3>3. CASE W[f.task] # "gone"
      <4>1. f.x = f.task /\ W[f.task] = "free"  BY <1>1, <2>3, <3>3 DEF FrameOK, Place, Bodily, Creating
      <4> QED  BY <2>3, <4>1, LiveWhen
    <3> QED  BY <3>2, <3>3
  <2> QED  BY <1>2, <2>1, <2>2, <2>3 DEF Descriptors
<1>4. ASSUME f.pc \in Creating PROVE f.x \in Tasks /\ W[f.x] = Making(f.pc) /\ Live(f.x)
  <2>1. f.x \in Tasks /\ W[f.x] = Making(f.pc)  BY <1>1, <1>4 DEF LocalOK, FrameOK
  <2>2. Making(f.pc) \notin {"absent", "gone"}  BY DEF Making
  <2> QED  BY <2>1, <2>2, LiveWhen
<1>5. f.pc \in {"link", "count", "submit", "depwait", "begin"} => Live(f.x)  BY <1>4 DEF Creating
<1>6. ASSUME f.pc \in {"link", "count", "depwait"} PROVE node[f.x].state = "live"
  <2>1. f.x \in Tasks /\ W[f.x] \in {"linking", "depwait"}  BY <1>4, <1>6 DEF Creating, Making
  <2>2. TaskOK(f.x, W[f.x])  BY <2>1 DEF Shape
  <2>3. node[f.x].state # "absent"  BY <2>1, <2>2 DEF TaskOK
  <2> QED  BY <2>1, <2>3, WorkingNode
<1>7. ASSUME NEW i \in 1..Len(f.todo) PROVE node[f.todo[i]].state = "live"
  <2>1. CASE f.pc = "link"
    <3>1. NodesF(f)  BY DEF Nodes
    <3>2. hash[f.task] # Null /\ Names(hash[f.task][Dep(f.x, f.dep).addr], f.todo[i])  BY <2>1, <3>1 DEF NodesF
    <3>3. f.dep \in Kept(f.x) /\ f.x \in Tasks  BY <1>1, <1>4, <2>1 DEF LocalOK, Creating
    <3>4. Dep(f.x, f.dep).addr \in Addrs  BY <3>3, DepFacts DEF Shape
    <3>5. f.todo[i] \in Tasks  BY <1>2, ElementOf
    <3> QED  BY <1>2, <3>2, <3>4, <3>5, HashedLive
  <2>2. CASE f.pc \in {"succ", "push", "drop"}
    <3>1. PredsF(f, W, R)  BY DEF Preds
    <3>2. Mirror(f.todo, R[f.task])  BY <2>2, <3>1 DEF PredsF
    <3>3. f.task \in Tasks  BY <1>1, <1>2, <2>2 DEF LocalOK, Bodily, Creating, Descriptors
    <3> QED  BY <3>2, <3>3, ListedLive
  <2>3. CASE f.pc \notin {"link", "succ", "push", "drop"}
    <3>1. f.todo = <<>>  BY <1>1, <2>3 DEF LocalOK
    <3>2. Len(f.todo) = 0  BY <3>1
    <3>3. i \in 1..0  BY <3>2
    <3> QED  BY <3>3
  <2> QED  BY <2>1, <2>2, <2>3
<1>8. ASSUME f.pc = "push", node[Head(f.todo)].task PROVE Live(Head(f.todo))
  <2>1. f.todo # <<>>  BY <1>1, <1>8 DEF LocalOK
  <2>2. PICK t \in Tasks : t = Head(f.todo)  BY <1>2, <2>1, ListFacts
  <2>3. TaskOK(t, W[t])  BY DEF Shape
  <2>4. Kind(t) # "if0"  BY <1>8, <2>2, <2>3 DEF TaskOK
  <2>5. Pushes(f, t)  BY <1>8, <2>2, <2>4 DEF Pushes
  <2>6. W[t] = "push"  BY <1>1, <2>5 DEF FrameOK
  <2> QED  BY <2>2, <2>6, LiveWhen
<1> QED  BY <1>3, <1>5, <1>6, <1>7, <1>8 DEF FrameIntact

\* What a hash names is live.
LEMMA HashesIntact ==
    ASSUME NEW W, NEW K, Shape(W, K), NEW R, Preds(W, R), Nodes(W, R), NEW d \in Descriptors, hash[d] # Null
    PROVE  HashIntact(hash[d])
<1>0. hash[d] \in [Addrs -> Entries]  BY DEF Shape, Types, DataTypes
<1> SUFFICES ASSUME NEW a \in Addrs, NEW t \in {hash[d][a].out} \union ToSet(hash[d][a].ins), t # None
             PROVE  node[t].state = "live"
  BY DEF HashIntact
<1>1. hash[d][a] \in Entries  BY <1>0
<1>2. hash[d][a].out \in Tasks \union {None} /\ hash[d][a].ins \in Seq(Tasks)  BY <1>1 DEF Entries
<1>3. CASE t = hash[d][a].out  BY <1>2, <1>3, HashedLive DEF Names
<1>4. CASE t \in ToSet(hash[d][a].ins)
  <2>1. PICK i \in DOMAIN hash[d][a].ins : t = hash[d][a].ins[i]  BY <1>4 DEF ToSet
  <2>2. i \in 1..Len(hash[d][a].ins)  BY <1>2, <2>1
  <2>3. t \in Tasks  BY <1>2, <2>1, <2>2, ElementOf
  <2>4. Names(hash[d][a], t)  BY <2>1, <2>2 DEF Names
  <2> QED  BY <2>3, <2>4, HashedLive
<1> QED  BY <1>3, <1>4

\* What a list names is live, and so is the task a node will release.
LEMMA NodesIntact ==
    ASSUME NEW W, NEW K, Shape(W, K), NEW R, Preds(W, R), Nodes(W, R), NEW t \in Tasks
    PROVE  NodeIntact(t)
<1>1. TaskOK(t, W[t])  BY DEF Shape
<1>2. ASSUME td[t].node, td[t].state = "live", ~td[t].complete PROVE node[t].state = "live"
  <2>1. node[t].state # "absent" /\ Kind(t) # "if0"  BY <1>1, <1>2 DEF TaskOK
  <2>2. W[t] # "absent"  BY <1>1, <2>1 DEF TaskOK
  <2>3. Belongs(t, W[t])  BY <1>2, <2>2, BelongsOrComplete
  <2>4. W[t] \notin Late
    <3>1. ProxyOK(t, W[t])  BY DEF Shape
    <3> QED  BY <2>3, <3>1 DEF Belongs, ProxyOK
  <2> QED  BY <2>1, <2>4, WorkingNode DEF Late
<1>3. ASSUME node[t].task, NEW i \in 1..Len(node[t].succ) PROVE node[node[t].succ[i]].state = "live"
  <2>1. W[t] \notin {"succ", "told", "free", "gone"}  BY <1>1, <1>3 DEF TaskOK
  <2>2. PredsT(t, W, R)  BY DEF Preds
  <2>3. Mirror(node[t].succ, R[t])  BY <2>1, <2>2 DEF PredsT
  <2> QED  BY <1>3, <2>3, ListedLive
<1> QED  BY <1>2, <1>3 DEF NodeIntact

\* The parent of a live descriptor is live.
LEMMA ParentLive ==
    ASSUME NEW W, NEW K, Shape(W, K), Kids(W, K), NEW t \in Tasks, td[t].state = "live"
    PROVE  Live(td[t].parent)
<1>1. TaskOK(t, W[t])  BY DEF Shape
<1>2. W[t] # "absent"  BY <1>1 DEF TaskOK
<1>3. PICK d \in Descriptors : d = td[t].parent  BY <1>2, ParentFacts
<1>4. CASE d \in Threads  BY <1>3, <1>4 DEF Live
<1>5. CASE d \in Tasks
  <2>1. W[d] # "absent"  BY <1>2, <1>3, <1>5, ParentFacts DEF Young
  <2>2. t \in Children(d)  BY <1>3 DEF Children
  <2> QED  BY <1>3, <1>5, <2>1, <2>2, PresentKids DEF Live
<1> QED  BY <1>4, <1>5 DEF Descriptors

\* A task that has its group yet to leave belongs to it.
LEMMA LeaverBelongs ==
    ASSUME NEW W, NEW K, Shape(W, K), NEW t \in Tasks, InGroup(t)
    PROVE  Belongs(t, W[t]) \/ ~td[t].complete
<1>1. CASE td[t].state = "live" /\ ~td[t].complete  BY <1>1
<1>2. CASE proxy[t] = "group"
  <2>1. Kind(t) = "proxy" /\ W[t] = "outside"  BY <1>2, ProxyFacts
  <2> QED  BY <1>2, <2>1 DEF Belongs
<1>3. CASE \E f \in Frames : f.task = t /\ f.pc = "group"
  <2>1. PICK f \in Frames : f.task = t /\ f.pc = "group"  BY <1>3
  <2>2. LocalOK(f) /\ FrameOK(f, W, K)  BY FrameFacts
  <2>3. W[t] = "group" /\ Kind(t) # "proxy"  BY <2>1, <2>2 DEF LocalOK, FrameOK, Place, Bodily, Creating
  <2> QED  BY <2>3 DEF Belongs, Late
<1> QED  BY <1>1, <1>2, <1>3 DEF InGroup

\* The invariant implies that nothing in use has been freed.
LEMMA InvNothingDangles == ASSUME IInv PROVE NothingDangles
<1>1. PICK W, K, R, H, O, B, C : Inv(W, K, R, H, O, B, C)  BY DEF IInv
<1>2. Shape(W, K) /\ Kids(W, K) /\ Groups(W, H, O) /\ Preds(W, R) /\ Nodes(W, R)  BY <1>1 DEF Inv
<1>3. \A f \in Frames : FrameIntact(f)  BY <1>2, FramesIntact
<1>4. ASSUME NEW th \in Threads, NEW t \in ToSet(deque[th]) PROVE Live(t)
  <2>1. deque[th] \in Seq(Tasks)  BY <1>2 DEF Shape, Types, DataTypes
  <2>2. PICK i \in DOMAIN deque[th] : t = deque[th][i]  BY <1>4 DEF ToSet
  <2>3. i \in 1..Len(deque[th])  BY <2>1, <2>2
  <2>4. t \in Tasks  BY <2>1, <2>2, <2>3, ElementOf
  <2>5. W[t] = "queue"  BY <1>2, <2>2, <2>3 DEF Shape, Queued
  <2> QED  BY <1>2, <2>4, <2>5, LiveWhen
<1>5. \A d \in Descriptors : hash[d] # Null => HashIntact(hash[d])  BY <1>2, HashesIntact
<1>6. ASSUME NEW t \in Tasks
      PROVE  /\ proxy[t] \notin {"idle", "done"} => Live(t)
             /\ td[t].state = "live" => Live(td[t].parent)
             /\ InGroup(t) => td[t].group \in DOMAIN groups \union {Null}
             /\ NodeIntact(t)
  <2>1. ASSUME proxy[t] \notin {"idle", "done"} PROVE Live(t)
    <3>1. proxy[t] \in Stages  BY <1>2 DEF Shape, Types, DataTypes
    <3>2. W[t] \notin {"absent", "gone"}
      BY <1>2, <2>1, <3>1, ProxyFacts DEF Stages
    <3> QED  BY <1>2, <3>2, LiveWhen
  <2>2. td[t].state = "live" => Live(td[t].parent)  BY <1>2, ParentLive
  <2>3. ASSUME InGroup(t) PROVE td[t].group \in DOMAIN groups \union {Null}
    <3>1. Belongs(t, W[t]) \/ ~td[t].complete  BY <1>2, <2>3, LeaverBelongs
    <3>2. t \in Descriptors  BY DEF Descriptors
    <3> QED  BY <1>2, <3>1, <3>2, GroupExists
  <2>4. NodeIntact(t)  BY <1>2, NodesIntact
  <2> QED  BY <2>1, <2>2, <2>3, <2>4
<1> QED  BY <1>3, <1>4, <1>5, <1>6 DEF NothingDangles

----------------------------------------------------------------------------
(* The invariant implies that a region that is over has freed everything. *)

\* A set of numbers has a least one.
LEMMA Least ==
    ASSUME NEW T, T \subseteq Nat, T # {}
    PROVE  \E x \in T : \A y \in T : x <= y
<1>1. IsWellFoundedOn(OpToRel(<, Nat), Nat)  BY NatLessThanWellFounded
<1>2. PICK x \in T : \A y \in T : ~(<<y, x>> \in OpToRel(<, Nat))  BY <1>1, WFMin
<1>3. \A y \in T : ~(y < x)  BY <1>2 DEF OpToRel
<1> QED  BY <1>3

\* A set of tasks has a least one, by any number given to each.
LEMMA LeastTask ==
    ASSUME NEW S \in SUBSET Tasks, S # {}, NEW F, \A s \in S : F[s] \in Nat
    PROVE  \E s \in S : \A t \in S : F[s] <= F[t]
<1>1. PICK T : T = {F[s] : s \in S}  OBVIOUS
<1>2. T \subseteq Nat /\ T # {}  BY <1>1
<1>3. PICK x \in T : \A y \in T : x <= y  BY <1>2, Least
<1> QED  BY <1>1, <1>3

\* There is one function on nothing.
LEMMA EmptyFunction ==
    ASSUME NEW S, NEW g, g \in [{} -> S]
    PROVE  g = <<>>
<1>1. {} = 1..0  OBVIOUS
<1>2. g \in [1..0 -> S]  BY <1>1
<1>3. g \in Seq(S)  BY <1>2, SeqDef
<1>4. Len(g) = 0  BY <1>2, <1>3
<1> QED  BY <1>3, <1>4, EmptySeq

\* Every frame is that of an implicit task in the barrier.
Idle == \A f \in Frames : f.task \in Threads /\ f.pc = "barrier" /\ f.ip = Len(prog.body[f.task]) + 1
\* At the end the threads are in the barrier.
LEMMA OverFrames ==
    ASSUME NEW W, NEW K, Shape(W, K), RegionOver
    PROVE  /\ Idle
           /\ \A th \in Threads : \E f \in Frames : f.task = th
           /\ \A t \in Tasks : ~InDeque(t)
<1>0. stack \in [Threads -> Seq(FrameRecords)]  BY DEF Shape, Types
<1>1. ASSUME NEW th \in Threads
      PROVE  /\ Len(stack[th]) = 1 /\ 1 \in 1..Len(stack[th]) /\ stack[th][1] = Top(th)
             /\ Top(th).task = th /\ Top(th).pc = "barrier"
  <2>1. Len(stack[th]) = 1 /\ Top(th).pc = "barrier"  BY DEF RegionOver, At
  <2>2. Top(th) = stack[th][1] /\ Top(th).task = th  BY <2>1, TopFacts
  <2>3. 1 \in 1..1  OBVIOUS
  <2> QED  BY <2>1, <2>2, <2>3
<1>2. ASSUME NEW f \in Frames PROVE f.task \in Threads /\ f.pc = "barrier" /\ f.ip = Len(prog.body[f.task]) + 1
  <2>1. PICK th \in Threads : \E i \in 1..Len(stack[th]) : stack[th][i] = f  BY <1>0, InFrames
  <2>2. PICK i \in 1..Len(stack[th]) : stack[th][i] = f  BY <2>1
  <2>3. i \in 1..1  BY <1>1
  <2>4. f = Top(th)  BY <1>1, <2>2, <2>3
  <2>5. LocalOK(f)  BY FrameFacts
  <2>6. f.task = th /\ f.pc = "barrier"  BY <1>1, <2>4
  <2>7. f.pc \notin Bodily  BY <2>6 DEF Bodily, Creating
  <2> QED  BY <2>5, <2>6, <2>7 DEF LocalOK
<1>3. ASSUME NEW th \in Threads PROVE \E f \in Frames : f.task = th
  <2>1. Top(th) \in Frames  BY <1>0, <1>1, InFrames
  <2> QED  BY <1>1, <2>1
<1>4. ASSUME NEW t \in Tasks, InDeque(t) PROVE FALSE
  <2>1. PICK th \in Threads : \E i \in 1..Len(deque[th]) : deque[th][i] = t  BY <1>4 DEF InDeque
  <2>2. deque[th] = <<>>  BY DEF RegionOver
  <2>3. Len(deque[th]) = 0  BY <2>2
  <2>4. PICK i \in 1..0 : deque[th][i] = t  BY <2>1, <2>3
  <2> QED  BY <2>4
<1> QED  BY <1>2, <1>3, <1>4 DEF Idle

\* At the end a task does not exist, is blocked or is gone.
LEMMA OverPlaces ==
    ASSUME NEW W, NEW K, Shape(W, K), Present(W, K), RegionOver, NEW t \in Tasks
    PROVE  W[t] \in {"absent", "blocked", "gone"} /\ K[t] = None
<1>1. HeldBy(Frames, t, W[t], K[t]) /\ (W[t] = "queue" => InDeque(t))  BY DEF Present
<1>2. \A f \in Frames : f.task \in Threads /\ f.pc = "barrier"  BY OverFrames DEF Idle
<1>3. \A f \in Frames : f.task # t /\ ~Makes(f, t) /\ ~Pushes(f, t)  BY <1>2, TaskNames DEF Makes, Pushes, Creating
<1>4. W[t] \notin {"linking", "depwait", "ready", "push"} \union Running /\ K[t] = None  BY <1>1, <1>3 DEF HeldBy
<1>5. W[t] # "queue"  BY <1>1, OverFrames
<1>6. W[t] # "outside"
  <2>1. ProxyOK(t, W[t])  BY DEF Shape
  <2>2. proxy[t] \in {"idle", "done"}  BY DEF RegionOver
  <2> QED  BY <2>1, <2>2 DEF ProxyOK
<1>7. W[t] \in Places  BY DEF Shape
<1> QED  BY <1>4, <1>5, <1>6, <1>7 DEF Places, Running

\* At the end there is no hash.
LEMMA OverHash ==
    ASSUME NEW W, NEW K, Shape(W, K), Present(W, K), HashOwners(W), RegionOver, NEW d \in Descriptors
    PROVE  hash[d] = Null
<1>1. CASE d \in Threads
  <2>1. PICK f \in Frames : f.task = d  BY <1>1, OverFrames
  <2>2. f.pc = "barrier"  BY OverFrames DEF Idle
  <2> QED  BY <1>1, <2>1, <2>2 DEF HashOwners
<1>2. CASE d \in Tasks
  <2>1. W[d] \in {"absent", "blocked", "gone"} /\ d \notin Threads  BY <1>2, OverPlaces, TaskNames
  <2> QED  BY <2>1 DEF HashOwners
<1> QED  BY <1>1, <1>2 DEF Descriptors

\* A task that is freed has no successors left.
LEMMA NoList ==
    ASSUME NEW W, NEW K, Shape(W, K), NEW R, Preds(W, R), NEW p \in Tasks, W[p] \in {"absent", "free", "gone"}
    PROVE  R[p] = <<>>
<1>1. PredsT(p, W, R) /\ R[p] \in Seq(Tasks)  BY DEF Preds
<1>2. CASE W[p] = "absent"
  <2>1. TaskOK(p, W[p])  BY DEF Shape
  <2>2. node[p].succ = <<>>  BY <1>2, <2>1 DEF TaskOK
  <2>3. Mirror(node[p].succ, R[p])  BY <1>1, <1>2 DEF PredsT
  <2>4. Len(R[p]) = 0  BY <2>2, <2>3 DEF Mirror
  <2> QED  BY <1>1, <2>4, EmptySeq
<1>3. CASE W[p] # "absent"  BY <1>1, <1>3 DEF PredsT
<1> QED  BY <1>2, <1>3

\* Nobody is blocked: the oldest blocked task would have a predecessor older still.
LEMMA OverBlocked ==
    ASSUME NEW W, NEW K, Shape(W, K), Present(W, K), NEW R, Preds(W, R), NEW B, NEW C, Order(W, R, B, C), RegionOver,
           NEW t \in Tasks
    PROVE  W[t] \in {"absent", "gone"}
<1> SUFFICES ASSUME W[t] = "blocked" PROVE FALSE  BY OverPlaces
<1>1. PICK S \in SUBSET Tasks : S = {s \in Tasks : W[s] = "blocked"}  OBVIOUS
<1>2. S # {} /\ \A s \in S : B[s] \in Nat  BY <1>1 DEF Order
<1>3. PICK s \in S : \A u \in S : B[s] <= B[u]  BY <1>2, LeastTask
<1>4. PredsT(s, W, R)  BY <1>1 DEF Preds
<1>5. PICK r : r \in Untold(W, R, s)  BY <1>1, <1>4 DEF PredsT
<1>6. r \in SuccUses(R, s)  BY <1>5 DEF Untold
<1>7. PICK p \in Tasks : p = r[1]  BY <1>6, SuccUsesIn
<1>8. PICK k \in 1..Len(R[p]) : R[p][k] = s  BY <1>6, <1>7, SuccUsesIn
<1>9. B[p] < B[s]  BY <1>8 DEF Order
<1>10. B[p] \in Nat /\ B[s] \in Nat  BY <1>1 DEF Order
<1>11. R[p] # <<>>
  <2>1. ASSUME R[p] = <<>> PROVE FALSE
    <3>1. Len(R[p]) = 0  BY <2>1
    <3>2. k \in 1..0  BY <3>1
    <3> QED  BY <3>2
  <2> QED  BY <2>1
<1>12. W[p] = "blocked"  BY <1>11, NoList, OverPlaces
<1>13. B[s] <= B[p]  BY <1>1, <1>3, <1>12
<1> QED  BY <1>9, <1>10, <1>13

\* Nobody is left: the youngest task left would have a child, younger still.
LEMMA OverFreed ==
    ASSUME NEW W, NEW K, Shape(W, K), Kids(W, K), Present(W, K), NEW R, Preds(W, R), NEW B, NEW C, Order(W, R, B, C),
           RegionOver, NEW t \in Tasks
    PROVE  td[t].state \in {"freed", "absent"}
<1>0. \A s \in Tasks : td[s].state = "live" => W[s] = "gone"
  <2>1. \A s \in Tasks : W[s] \in {"absent", "gone"}  BY OverBlocked
  <2>2. \A s \in Tasks : TaskOK(s, W[s])  BY DEF Shape
  <2> QED  BY <2>1, <2>2 DEF TaskOK
<1>s. td[t].state \in States
  <2>1. td[t] \in TaskdataRecords  BY DEF Shape, Types, DataTypes, Descriptors
  <2> QED  BY <2>1 DEF TaskdataRecords
<1> SUFFICES ASSUME td[t].state = "live" PROVE FALSE  BY <1>s DEF States
<1>1. PICK S \in SUBSET Tasks : S = {s \in Tasks : td[s].state = "live"}  OBVIOUS
<1>f. PICK F : F = [s \in Tasks |-> C - B[s]]  OBVIOUS
<1>2. \A s \in S : F[s] \in Nat /\ F[s] = C - B[s] /\ B[s] \in Nat /\ C \in Nat
  <2> SUFFICES ASSUME NEW s \in S PROVE F[s] \in Nat /\ F[s] = C - B[s] /\ B[s] \in Nat /\ C \in Nat  OBVIOUS
  <2>1. W[s] = "gone" /\ s \in Tasks  BY <1>0, <1>1
  <2>2. B[s] < C /\ B[s] \in Nat /\ C \in Nat  BY <2>1 DEF Order
  <2>3. F[s] = C - B[s]  BY <1>f, <2>1
  <2> QED  BY <2>2, <2>3
<1>3. PICK s \in S : \A u \in S : F[s] <= F[u]  BY <1>1, <1>2, LeastTask
<1>4. s \in Tasks /\ W[s] = "gone" /\ td[s].state = "live"  BY <1>0, <1>1
<1>5. Climbers(K, s) = {}
  <2>1. \A c \in Tasks : K[c] # s  BY <1>4, OverPlaces, TaskNames
  <2> QED  BY <2>1 DEF Climbers
<1>6. PICK c : c \in Children(s)  BY <1>4, <1>5, PresentKids
<1>7. c \in Tasks /\ td[c].state = "live" /\ td[c].parent = s  BY <1>6 DEF Children
<1>8. c \in S /\ W[c] = "gone"  BY <1>0, <1>1, <1>7
<1>9. B[s] < B[c]  BY <1>4, <1>7, <1>8 DEF Order
<1>10. F[s] <= F[c]  BY <1>3, <1>8
<1> QED  BY <1>2, <1>8, <1>9, <1>10

\* At the end no node is left.
LEMMA OverNodes ==
    ASSUME NEW W, NEW K, Shape(W, K), Present(W, K), NEW R, Preds(W, R), Nodes(W, R), NEW B, NEW C, Order(W, R, B, C),
           HashOwners(W), RegionOver, NEW t \in Tasks
    PROVE  node[t].state \in {"freed", "absent"}
<1> SUFFICES ASSUME node[t].state # "absent" PROVE node[t].state = "freed"  OBVIOUS
<1>1. TaskOK(t, W[t])  BY DEF Shape
<1>2. W[t] = "gone"  BY <1>1, OverBlocked DEF TaskOK
<1>3. \A p \in Tasks : R[p] = <<>>  BY OverBlocked, NoList
<1>4. SuccUses(R, t) = {}
  <2> SUFFICES ASSUME NEW r \in SuccUses(R, t) PROVE FALSE  OBVIOUS
  <2>1. PICK p \in Tasks : p = r[1]  BY SuccUsesIn
  <2>2. r[2] \in 1..Len(R[p])  BY <2>1, SuccUsesIn
  <2>3. Len(R[p]) = 0  BY <1>3
  <2>4. r[2] \in 1..0  BY <2>2, <2>3
  <2> QED  BY <2>4
<1>5. ParentUses(t) = {}
  <2>1. td[t].parent \in Descriptors  BY <1>2, ParentFacts
  <2> QED  BY <2>1, OverHash DEF ParentUses
<1>6. CASE Kind(t) # "if0"  BY <1>2, <1>4, <1>5, <1>6, NodeCounts
<1>7. CASE Kind(t) = "if0"
  <2>1. NodesT(t, W, R)  BY DEF Nodes
  <2> QED  BY <1>2, <1>7, <2>1 DEF NodesT
<1> QED  BY <1>6, <1>7

\* At the end no group is left.
LEMMA OverGroups ==
    ASSUME NEW W, NEW K, Shape(W, K), Present(W, K), NEW R, Preds(W, R), NEW B, NEW C, Order(W, R, B, C),
           NEW H, NEW O, Groups(W, H, O), RegionOver
    PROVE  groups = <<>>
<1>1. groups \in [DOMAIN groups -> GroupRecords] /\ DOMAIN groups \subseteq GroupNames  BY DEF Shape, Types, DataTypes
<1>2. ASSUME NEW d \in Descriptors PROVE O[d] = <<>>
  <2>1. CASE d \in Tasks
    <3>1. W[d] # "body"  BY <2>1, OverPlaces
    <3> QED  BY <2>1, <3>1 DEF Groups
  <2>2. CASE d \in Threads
    <3>1. PICK f \in Frames : f.task = d  BY <2>2, OverFrames
    <3>2. f.ip = Len(prog.body[f.task]) + 1  BY OverFrames DEF Idle
    <3> QED  BY <3>1, <3>2, OpenEnd
  <2> QED  BY <2>1, <2>2 DEF Descriptors
<1>3. ASSUME NEW g \in DOMAIN groups PROVE FALSE
  <2>1. PICK d \in Descriptors : d = g[1]  BY <1>1 DEF GroupNames
  <2>2. PICK k \in 1..Len(O[d]) : O[d][k] = g[2]  BY <2>1 DEF Groups, GroupsG
  <2>3. Len(O[d]) = 0  BY <1>2
  <2>4. k \in 1..0  BY <2>3
  <2> QED  BY <2>4
<1>4. DOMAIN groups = {}  BY <1>3
<1>5. groups \in [{} -> GroupRecords]  BY <1>1, <1>4
<1> QED  BY <1>5, EmptyFunction

\* At the end no thread waits for a child.
LEMMA OverWaits ==
    ASSUME NEW W, NEW K, Shape(W, K), Incs(W), Present(W, K), NEW R, Preds(W, R), NEW B, NEW C, Order(W, R, B, C),
           RegionOver, NEW th \in Threads
    PROVE  td[th].inc = 0
<1>1. ASSUME NEW c \in Tasks PROVE ~Waited(c, W[c])
  <2>1. W[c] \in {"absent", "gone"}  BY OverBlocked
  <2>2. ProxyOK(c, W[c])  BY DEF Shape
  <2> QED  BY <2>1, <2>2 DEF Waited, ProxyOK, Late
<1>2. Pending(W, th) = {}  BY <1>1 DEF Pending
<1>3. Cardinality(Pending(W, th)) = 0  BY <1>2, FS_EmptySet
<1>4. Image(th) = 0  BY TaskNames DEF Image
<1>5. td[th].inc = Cardinality(Pending(W, th)) + Image(th)  BY DEF Incs, Descriptors
<1> QED  BY <1>3, <1>4, <1>5

\* The invariant implies that a region that is over has freed everything.
LEMMA InvNothingLeaks == ASSUME IInv PROVE NothingLeaks
<1> SUFFICES ASSUME RegionOver
             PROVE  /\ \A t \in Tasks : td[t].state \in {"freed", "absent"} /\ node[t].state \in {"freed", "absent"}
                    /\ groups = <<>>
                    /\ \A th \in Threads : td[th].inc = 0
  BY DEF NothingLeaks
<1>1. PICK W, K, R, H, O, B, C : Inv(W, K, R, H, O, B, C)  BY DEF IInv
<1>2. /\ Shape(W, K) /\ Kids(W, K) /\ Incs(W) /\ Groups(W, H, O) /\ Preds(W, R) /\ Nodes(W, R)
      /\ Present(W, K) /\ Order(W, R, B, C) /\ HashOwners(W)
  BY <1>1 DEF Inv
<1>3. \A t \in Tasks : td[t].state \in {"freed", "absent"}  BY <1>2, OverFreed
<1>4. \A t \in Tasks : node[t].state \in {"freed", "absent"}  BY <1>2, OverNodes
<1>5. groups = <<>>  BY <1>2, OverGroups
<1>6. \A th \in Threads : td[th].inc = 0  BY <1>2, OverWaits
<1> QED  BY <1>3, <1>4, <1>5, <1>6

\* td_incomplete_child_tasks, td_allocated_child_tasks and the nrefs of a depnode never
\* go below zero, no deque grows past its size, and every record keeps its type, for any
\* program, any number of threads and any deque size.
THEOREM TypeCorrect == ASSUME Races = {} PROVE Spec => []TypeOK
<1>1. IInv => TypeOK  BY InvTypeOK
<1> QED  BY <1>1, SpecInv, PTL

\* Nothing that a frame, a descriptor, a dependence hash, a successor list or a deque
\* refers to has been freed: __kmp_free_task, __kmp_node_deref and the end of a taskgroup
\* free descriptors, nodes and groups only when nobody will use them again.
THEOREM NoDangling == ASSUME Races = {} PROVE Spec => []NothingDangles
<1>1. IInv => NothingDangles  BY InvNothingDangles
<1> QED  BY <1>1, SpecInv, PTL

\* When the region is over, every descriptor, every node and every taskgroup has been
\* freed, and no thread counts a child: no reference is kept for ever, and no task stays
\* blocked behind a predecessor that is gone.
THEOREM NoLeak == ASSUME Races = {} PROVE Spec => []NothingLeaks
<1>1. IInv => NothingLeaks  BY InvNothingLeaks
<1> QED  BY <1>1, SpecInv, PTL
=============================================================================
