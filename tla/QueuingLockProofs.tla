-------------------------- MODULE QueuingLockProofs --------------------------
(* Mutual exclusion, the shape of the queue and first come, first served of the *)
(* queuing lock, for any number of threads and any depth of nesting.            *)
EXTENDS QueuingLock, SequenceTheorems, FiniteSetTheorems, TLAPS

(* What a thread's place in the code says of its words and locals. *)
Approaching == {"read", "grab", "enqueueFirst", "readTail", "enqueueLast", "link"}
Releasing == {"relTail", "relLast", "relNext"}
Waking == {"clear", "wake"}
Places ==
    /\ \A t \in Threads : pc[t] \in Approaching => spinHere[t]
    /\ \A t \in Threads : pc[t] = "enqueueLast" => tail[t] \in Threads
    /\ \A t \in Threads : pc[t] = "cs" => depth >= 1
    /\ \A t \in Threads : pc[t] \in Releasing => headId \in Threads /\ head[t] = headId

(* The parts of QueueLinked. *)
Ends ==
    /\ queue = <<>> => headId \in {0, Held} /\ tailId = 0
    /\ queue # <<>> => headId = queue[1] /\ tailId = queue[Len(queue)]
Members ==
    \A i \in 1..Len(queue) :
        /\ pc[queue[i]] \in {"spin", "link"}
        /\ \A j \in 1..Len(queue) : queue[i] = queue[j] => i = j
Linking == \A t \in Threads : pc[t] = "link" => \E i \in 1..(Len(queue) - 1) : queue[i + 1] = t
Links ==
    \A i \in 1..(Len(queue) - 1) :
        \/ nextWaiting[queue[i]] = queue[i + 1] /\ pc[queue[i + 1]] = "spin"
        \/ nextWaiting[queue[i]] = Nobody /\ pc[queue[i + 1]] = "link" /\ tail[queue[i + 1]] = queue[i]
Unlinked ==
    \A t \in Threads : (\A i \in 1..(Len(queue) - 1) : queue[i] # t) =>
        nextWaiting[t] = Nobody \/ \E u \in Threads : pc[u] = "clear" /\ head[u] = t

(* Whoever is on the queue is still told to spin, and its first member does. *)
Spinning ==
    /\ queue # <<>> => pc[queue[1]] = "spin"
    /\ \A i \in 1..Len(queue) : spinHere[queue[i]]

(* One thread at a time wakes another, which it has taken off the queue. *)
HandOver ==
    /\ \A u \in Threads : pc[u] \in Waking =>
          /\ head[u] \in Threads /\ pc[head[u]] = "spin" /\ spinHere[head[u]]
          /\ \A i \in 1..Len(queue) : queue[i] # head[u]
    /\ \A u, v \in Threads : pc[u] \in Waking /\ pc[v] \in Waking => u = v

(* The lock word is zero exactly while nobody holds the lock. *)
OneHolder ==
    /\ \A t \in Threads : Holds(t) => headId # 0
    /\ headId # 0 => \E t \in Threads : Holds(t)
    /\ \A t, u \in Threads : Holds(t) /\ Holds(u) => t = u

IInv == /\ TypeOK /\ Places /\ OwnerNamesHolder
        /\ Ends /\ Members /\ Linking /\ Links /\ Unlinked /\ Spinning /\ HandOver /\ OneHolder
----------------------------------------------------------------------------
LEMMA ThreadsFacts == Nobody \notin Threads /\ Held \notin Threads /\ Threads \subseteq Int
BY NAssumption DEF NAssumption, Threads, Nobody, Held

LEMMA QueueFacts ==
    ASSUME TypeOK
    PROVE  Len(queue) \in Nat /\ \A i \in 1..Len(queue) : queue[i] \in Threads
BY DEF TypeOK

LEMMA EmptyQueue ==
    ASSUME IInv, headId \notin Threads
    PROVE  queue = <<>> /\ Len(queue) = 0
<1>1. queue # <<>> => 1 \in 1..Len(queue)  BY EmptySeq DEF IInv, TypeOK
<1>2. queue = <<>>  BY <1>1, QueueFacts DEF IInv, Ends
<1> QED  BY <1>2, EmptySeq

LEMMA IInvInit == Init => IInv
<1> SUFFICES ASSUME Init PROVE IInv  OBVIOUS
<1>1. queue = <<>> /\ Len(queue) = 0 /\ queue \in Seq(Threads)  BY EmptySeq DEF Init
<1>2. TypeOK
  BY <1>1, ThreadsFacts, NestAssumption DEF Init, TypeOK, NestAssumption
<1>3. Places /\ OwnerNamesHolder
  BY ThreadsFacts DEF Init, Places, OwnerNamesHolder, Approaching, Releasing, At
<1>4. Ends /\ Members /\ Linking /\ Links /\ Unlinked /\ Spinning
  BY <1>1 DEF Init, Ends, Members, Linking, Links, Unlinked, Spinning
<1>5. HandOver /\ OneHolder
  BY <1>1 DEF Init, HandOver, OneHolder, Waking, Holds, Granted, At
<1> QED  BY <1>2, <1>3, <1>4, <1>5 DEF IInv

\* A step of a thread that is neither on the queue nor part of a hand-over leaves both alone.
LEMMA Frame ==
    ASSUME IInv, NEW t \in Threads, queue' = queue, nextWaiting' = nextWaiting,
           \A u \in Threads : u # t => /\ pc'[u] = pc[u] /\ spinHere'[u] = spinHere[u]
                                      /\ head'[u] = head[u] /\ tail'[u] = tail[u],
           \A i \in 1..Len(queue) : queue[i] # t,
           \A u \in Threads : pc[u] \in Waking => head[u] # t,
           pc[t] \notin Waking, pc'[t] \notin Waking, pc'[t] # "link"
    PROVE  /\ Members' /\ Linking' /\ Links' /\ Unlinked' /\ Spinning' /\ HandOver'
           /\ \A u \in Threads : u # t => (Holds(u)' <=> Holds(u))
<1>1. Len(queue) \in Nat /\ \A i \in 1..Len(queue) : queue[i] \in Threads /\ queue[i] # t
  BY QueueFacts DEF IInv
<1>2. Members' /\ Linking'  BY <1>1 DEF IInv, Members, Linking
<1>3. Links'
  <2> SUFFICES ASSUME NEW i \in 1..(Len(queue) - 1)
      PROVE \/ nextWaiting[queue[i]] = queue[i + 1] /\ pc'[queue[i + 1]] = "spin"
            \/ /\ nextWaiting[queue[i]] = Nobody /\ pc'[queue[i + 1]] = "link"
               /\ tail'[queue[i + 1]] = queue[i]
    BY DEF Links
  <2>1. i \in 1..Len(queue) /\ i + 1 \in 1..Len(queue)  BY <1>1
  <2>2. pc'[queue[i + 1]] = pc[queue[i + 1]] /\ tail'[queue[i + 1]] = tail[queue[i + 1]]
    BY <1>1, <2>1
  <2> QED  BY <2>2 DEF IInv, Links
<1>4. Unlinked'
  <2>1. \A u \in Threads : pc[u] = "clear" => u # t  BY DEF Waking
  <2> QED  BY <1>1, <2>1 DEF IInv, Unlinked
<1>5. Spinning'
  <2>1. queue # <<>> => 1 \in 1..Len(queue)  BY <1>1, EmptySeq DEF IInv, TypeOK
  <2> QED  BY <1>1, <2>1 DEF IInv, Spinning
<1>6. \A u \in Threads : pc'[u] \in Waking => u # t /\ pc[u] \in Waking  OBVIOUS
<1>7. HandOver'  BY <1>6 DEF IInv, HandOver
<1>8. ASSUME NEW u \in Threads, u # t PROVE Holds(u)' <=> Holds(u)
  <2>1. \A v \in Threads : Dequeuing(v, u)' <=> Dequeuing(v, u)
    BY <1>6 DEF Dequeuing, Waking
  <2>2. Granted(u)' <=> Granted(u)  BY <1>8, <2>1 DEF Granted, At
  <2> QED  BY <1>8, <2>2 DEF Holds
<1> QED  BY <1>2, <1>3, <1>4, <1>5, <1>7, <1>8

Parked == {"spin", "link", "clear", "wake"}
Holding == {"unspin", "setOwner", "cs", "relRead", "relFree", "relTail", "relLast", "relNext"}

\* The same of a thread that is elsewhere before and after its step; Holds is then read off pc.
LEMMA Elsewhere ==
    ASSUME IInv, NEW t \in Threads, queue' = queue, nextWaiting' = nextWaiting,
           \A u \in Threads : u # t => /\ pc'[u] = pc[u] /\ spinHere'[u] = spinHere[u]
                                      /\ head'[u] = head[u] /\ tail'[u] = tail[u],
           pc[t] \notin Parked, pc'[t] \notin Parked
    PROVE  /\ Members' /\ Linking' /\ Links' /\ Unlinked' /\ Spinning' /\ HandOver'
           /\ \A u \in Threads : u # t => (Holds(u)' <=> Holds(u))
           /\ (Holds(t) <=> pc[t] \in Holding) /\ (Holds(t)' <=> pc'[t] \in Holding)
<1>1. \A i \in 1..Len(queue) : queue[i] # t  BY DEF IInv, Members, Parked
<1>2. \A u \in Threads : pc[u] \in Waking => head[u] # t  BY DEF IInv, HandOver, Parked
<1>3. pc[t] \notin Waking /\ pc'[t] \notin Waking /\ pc'[t] # "link"
  BY DEF Parked, Waking
<1>4. (Holds(t) <=> pc[t] \in Holding) /\ (Holds(t)' <=> pc'[t] \in Holding)
  BY DEF Holds, Granted, At, Holding, Parked
<1> QED  BY <1>1, <1>2, <1>3, <1>4, Frame

\* And of one that leaves the words alone and holds the lock after the step as before it.
LEMMA Within ==
    ASSUME IInv, NEW t \in Threads, queue' = queue, nextWaiting' = nextWaiting,
           headId' = headId, tailId' = tailId,
           \A u \in Threads : u # t => /\ pc'[u] = pc[u] /\ spinHere'[u] = spinHere[u]
                                      /\ head'[u] = head[u] /\ tail'[u] = tail[u],
           pc[t] \notin Parked, pc'[t] \notin Parked, pc[t] \in Holding <=> pc'[t] \in Holding
    PROVE  Ends' /\ Members' /\ Linking' /\ Links' /\ Unlinked' /\ Spinning' /\ HandOver' /\ OneHolder'
<1>1. /\ Members' /\ Linking' /\ Links' /\ Unlinked' /\ Spinning' /\ HandOver'
      /\ \A u \in Threads : u # t => (Holds(u)' <=> Holds(u))
      /\ (Holds(t) <=> pc[t] \in Holding) /\ (Holds(t)' <=> pc'[t] \in Holding)
  BY Elsewhere
<1>2. Ends'  BY DEF IInv, Ends
<1>3. \A u \in Threads : Holds(u)' <=> Holds(u)  BY <1>1
<1>4. OneHolder'  BY <1>3 DEF IInv, OneHolder
<1> QED  BY <1>1, <1>2, <1>4

----------------------------------------------------------------------------
(* The steps of a thread that is on its way to the lock. *)

LEMMA AcquireKeeps == ASSUME NEW t \in Threads PROVE IInv /\ Acquire(t) => IInv'
<1> SUFFICES ASSUME IInv, Acquire(t) PROVE IInv'  OBVIOUS
<1> USE DEF At, Goto, words, nest, locals
<1>1. TypeOK'  BY DEF IInv, TypeOK, Acquire
<1>2. Places'  BY DEF IInv, TypeOK, Places, Approaching, Releasing, Acquire
<1>3. OwnerNamesHolder'  BY DEF IInv, TypeOK, OwnerNamesHolder, Acquire
<1>4. Ends' /\ Members' /\ Linking' /\ Links' /\ Unlinked' /\ Spinning' /\ HandOver' /\ OneHolder'
  BY Within DEF IInv, TypeOK, Acquire, Parked, Holding
<1> QED  BY <1>1, <1>2, <1>3, <1>4 DEF IInv

LEMMA ReadHeadKeeps == ASSUME NEW t \in Threads PROVE IInv /\ ReadHead(t) => IInv'
<1> SUFFICES ASSUME IInv, ReadHead(t) PROVE IInv'  OBVIOUS
<1> USE DEF At, Goto, words, nest, locals
<1>1. TypeOK'  BY DEF IInv, TypeOK, ReadHead
<1>2. Places'  BY DEF IInv, TypeOK, Places, Approaching, Releasing, ReadHead
<1>3. OwnerNamesHolder'  BY DEF IInv, TypeOK, OwnerNamesHolder, ReadHead
<1>4. Ends' /\ Members' /\ Linking' /\ Links' /\ Unlinked' /\ Spinning' /\ HandOver' /\ OneHolder'
  BY Within DEF IInv, TypeOK, ReadHead, Parked, Holding
<1> QED  BY <1>1, <1>2, <1>3, <1>4 DEF IInv

LEMMA UnspinKeeps == ASSUME NEW t \in Threads PROVE IInv /\ Unspin(t) => IInv'
<1> SUFFICES ASSUME IInv, Unspin(t) PROVE IInv'  OBVIOUS
<1> USE DEF At, Goto, words, nest, locals
<1>1. TypeOK'  BY DEF IInv, TypeOK, Unspin
<1>2. Places'  BY DEF IInv, TypeOK, Places, Approaching, Releasing, Unspin
<1>3. OwnerNamesHolder'  BY DEF IInv, TypeOK, OwnerNamesHolder, Unspin
<1>4. Ends' /\ Members' /\ Linking' /\ Links' /\ Unlinked' /\ Spinning' /\ HandOver' /\ OneHolder'
  BY Within DEF IInv, TypeOK, Unspin, Parked, Holding
<1> QED  BY <1>1, <1>2, <1>3, <1>4 DEF IInv

LEMMA ReadTailKeeps == ASSUME NEW t \in Threads PROVE IInv /\ ReadTail(t) => IInv'
<1> SUFFICES ASSUME IInv, ReadTail(t) PROVE IInv'  OBVIOUS
<1> USE DEF At, Goto, words, nest, locals
<1>1. TypeOK'  BY DEF IInv, TypeOK, ReadTail
<1>2. Places'  BY DEF IInv, TypeOK, Places, Approaching, Releasing, ReadTail
<1>3. OwnerNamesHolder'  BY DEF IInv, TypeOK, OwnerNamesHolder, ReadTail
<1>4. Ends' /\ Members' /\ Linking' /\ Links' /\ Unlinked' /\ Spinning' /\ HandOver' /\ OneHolder'
  BY Within DEF IInv, TypeOK, ReadTail, Parked, Holding
<1> QED  BY <1>1, <1>2, <1>3, <1>4 DEF IInv

LEMMA SetOwnerKeeps == ASSUME NEW t \in Threads PROVE IInv /\ SetOwner(t) => IInv'
<1> SUFFICES ASSUME IInv, SetOwner(t) PROVE IInv'  OBVIOUS
<1> USE DEF At, Goto, words, nest, locals
<1>1. TypeOK'  BY NestAssumption DEF NestAssumption, IInv, TypeOK, SetOwner
<1>2. Places'  BY DEF IInv, TypeOK, Places, Approaching, Releasing, SetOwner
<1>3. OwnerNamesHolder'
  <2>1. \A u \in Threads : pc[u] = "cs" => u = t  BY DEF IInv, OneHolder, Holds, SetOwner
  <2> QED  BY <2>1 DEF IInv, TypeOK, OwnerNamesHolder, SetOwner
<1>4. Ends' /\ Members' /\ Linking' /\ Links' /\ Unlinked' /\ Spinning' /\ HandOver' /\ OneHolder'
  BY Within DEF IInv, TypeOK, SetOwner, Parked, Holding
<1> QED  BY <1>1, <1>2, <1>3, <1>4 DEF IInv

LEMMA DeepenKeeps == ASSUME NEW t \in Threads PROVE IInv /\ Deepen(t) => IInv'
<1> SUFFICES ASSUME IInv, Deepen(t) PROVE IInv'  OBVIOUS
<1> USE DEF At, Goto, words, nest, locals
<1>0. pc[t] = "cs" /\ pc' = pc  BY DEF IInv, TypeOK, OwnerNamesHolder, Deepen
<1>1. TypeOK'
  <2>1. depth' \in 0..MaxDepth  BY NestAssumption DEF NestAssumption, IInv, TypeOK, Deepen
  <2> QED  BY <1>0, <2>1 DEF IInv, TypeOK, Deepen
<1>2. Places'  BY <1>0 DEF IInv, TypeOK, Places, Approaching, Releasing, Deepen
<1>3. OwnerNamesHolder'  BY <1>0 DEF IInv, TypeOK, OwnerNamesHolder, Deepen
<1>4. Ends' /\ Members' /\ Linking' /\ Links' /\ Unlinked' /\ Spinning' /\ HandOver' /\ OneHolder'
  BY <1>0, Within DEF IInv, TypeOK, Deepen, Parked, Holding
<1> QED  BY <1>1, <1>2, <1>3, <1>4 DEF IInv

LEMMA TestKeeps == ASSUME NEW t \in Threads PROVE IInv /\ Test(t) => IInv'
<1> SUFFICES ASSUME IInv, Test(t) PROVE IInv'  OBVIOUS
<1> USE DEF At, Goto, words, nest, locals
<1>1. TypeOK'  BY DEF IInv, TypeOK, Test
<1>2. Places'  BY DEF IInv, TypeOK, Places, Approaching, Releasing, Test
<1>3. OwnerNamesHolder'  BY DEF IInv, TypeOK, OwnerNamesHolder, Test
<1>4. Ends' /\ Members' /\ Linking' /\ Links' /\ Unlinked' /\ Spinning' /\ HandOver' /\ OneHolder'
  BY Within DEF IInv, TypeOK, Test, Parked, Holding
<1> QED  BY <1>1, <1>2, <1>3, <1>4 DEF IInv

LEMMA UnsetKeeps == ASSUME NEW t \in Threads PROVE IInv /\ Unset(t) => IInv'
<1> SUFFICES ASSUME IInv, Unset(t) PROVE IInv'  OBVIOUS
<1> USE DEF At, Goto, words, nest, locals
<1>1. depth \in 1..MaxDepth /\ MaxDepth \in Nat
  BY NestAssumption DEF NestAssumption, IInv, TypeOK, Places, Unset
<1>2. \A u \in Threads : pc[u] = "cs" => u = t  BY DEF IInv, OneHolder, Holds, Unset
<1>3. TypeOK'
  <2>1. depth' \in 0..MaxDepth  BY <1>1 DEF Unset
  <2>2. ownerId' \in {Nobody} \union Threads  BY DEF IInv, TypeOK, Unset
  <2>3. pc' = pc \/ pc' = [pc EXCEPT ![t] = "relRead"]  BY DEF Unset
  <2> QED  BY <2>1, <2>2, <2>3 DEF IInv, TypeOK, Unset
<1>4. Places'  BY <1>1, <1>2 DEF IInv, TypeOK, Places, Approaching, Releasing, Unset
<1>5. OwnerNamesHolder'  BY <1>2, ThreadsFacts DEF IInv, TypeOK, OwnerNamesHolder, Unset
<1>6. Ends' /\ Members' /\ Linking' /\ Links' /\ Unlinked' /\ Spinning' /\ HandOver' /\ OneHolder'
  BY Within DEF IInv, TypeOK, Unset, Parked, Holding
<1> QED  BY <1>3, <1>4, <1>5, <1>6 DEF IInv

LEMMA RelReadKeeps == ASSUME NEW t \in Threads PROVE IInv /\ RelRead(t) => IInv'
<1> SUFFICES ASSUME IInv, RelRead(t) PROVE IInv'  OBVIOUS
<1> USE DEF At, Goto, words, nest, locals
<1>1. TypeOK'  BY DEF IInv, TypeOK, RelRead
<1>0. headId # 0  BY DEF IInv, OneHolder, Holds, RelRead
<1>2. Places'  BY <1>0 DEF IInv, TypeOK, Places, Approaching, Releasing, RelRead
<1>3. OwnerNamesHolder'  BY DEF IInv, TypeOK, OwnerNamesHolder, RelRead
<1>4. Ends' /\ Members' /\ Linking' /\ Links' /\ Unlinked' /\ Spinning' /\ HandOver' /\ OneHolder'
  BY Within DEF IInv, TypeOK, RelRead, Parked, Holding
<1> QED  BY <1>1, <1>2, <1>3, <1>4 DEF IInv

LEMMA RelTailKeeps == ASSUME NEW t \in Threads PROVE IInv /\ RelTail(t) => IInv'
<1> SUFFICES ASSUME IInv, RelTail(t) PROVE IInv'  OBVIOUS
<1> USE DEF At, Goto, words, nest, locals
<1>1. TypeOK'  BY DEF IInv, TypeOK, RelTail
<1>2. Places'  BY DEF IInv, TypeOK, Places, Approaching, Releasing, RelTail
<1>3. OwnerNamesHolder'  BY DEF IInv, TypeOK, OwnerNamesHolder, RelTail
<1>4. Ends' /\ Members' /\ Linking' /\ Links' /\ Unlinked' /\ Spinning' /\ HandOver' /\ OneHolder'
  BY Within DEF IInv, TypeOK, RelTail, Parked, Holding
<1> QED  BY <1>1, <1>2, <1>3, <1>4 DEF IInv

LEMMA GrabKeeps == ASSUME NEW t \in Threads PROVE IInv /\ Grab(t) => IInv'
<1> SUFFICES ASSUME IInv, Grab(t) PROVE IInv'  OBVIOUS
<1> USE DEF At, Goto, words, nest, locals
<1>1. TypeOK'  BY DEF IInv, TypeOK, Grab
<1>2. OwnerNamesHolder'  BY DEF IInv, TypeOK, OwnerNamesHolder, Grab
<1>3. CASE headId = 0
  <2>1. \A u \in Threads : ~Holds(u)  BY <1>3 DEF IInv, OneHolder
  <2>2. Places'
    <3>1. \A u \in Threads : pc[u] \notin Releasing  BY <2>1 DEF Holds, Releasing
    <3> QED  BY <1>3, <3>1 DEF IInv, TypeOK, Places, Approaching, Releasing, Grab
  <2>3. Ends'
    <3>1. queue = <<>> /\ tailId = 0  BY <1>3, ThreadsFacts, EmptyQueue DEF IInv, Ends, Nobody
    <3> QED  BY <1>3, <3>1 DEF Ends, Grab
  <2>4. /\ Members' /\ Linking' /\ Links' /\ Unlinked' /\ Spinning' /\ HandOver'
        /\ \A u \in Threads : u # t => (Holds(u)' <=> Holds(u))
        /\ (Holds(t) <=> pc[t] \in Holding) /\ (Holds(t)' <=> pc'[t] \in Holding)
    BY <1>3, Elsewhere DEF IInv, TypeOK, Grab, Parked
  <2>5. Holds(t)'
    <3>1. pc'[t] \in Holding  BY <1>3 DEF IInv, TypeOK, Grab, Holding
    <3> QED  BY <2>4, <3>1
  <2>6. OneHolder'  BY <1>3, <2>1, <2>4, <2>5 DEF OneHolder, Grab, Held
  <2> QED  BY <1>1, <1>2, <2>2, <2>3, <2>4, <2>6 DEF IInv
<1>4. CASE headId # 0
  <2>1. Places'  BY <1>4 DEF IInv, TypeOK, Places, Approaching, Releasing, Grab
  <2>2. Ends' /\ Members' /\ Linking' /\ Links' /\ Unlinked' /\ Spinning' /\ HandOver' /\ OneHolder'
    BY <1>4, Within DEF IInv, TypeOK, Grab, Parked, Holding
  <2> QED  BY <1>1, <1>2, <2>1, <2>2 DEF IInv
<1> QED  BY <1>3, <1>4

LEMMA TryGrabKeeps == ASSUME NEW t \in Threads PROVE IInv /\ TryGrab(t) => IInv'
<1> SUFFICES ASSUME IInv, TryGrab(t) PROVE IInv'  OBVIOUS
<1> USE DEF At, Goto, words, nest, locals
<1>1. TypeOK'  BY DEF IInv, TypeOK, TryGrab
<1>2. OwnerNamesHolder'  BY DEF IInv, TypeOK, OwnerNamesHolder, TryGrab
<1>3. CASE headId = 0
  <2>1. \A u \in Threads : ~Holds(u)  BY <1>3 DEF IInv, OneHolder
  <2>2. Places'
    <3>1. \A u \in Threads : pc[u] \notin Releasing  BY <2>1 DEF Holds, Releasing
    <3> QED  BY <1>3, <3>1 DEF IInv, TypeOK, Places, Approaching, Releasing, TryGrab
  <2>3. Ends'
    <3>1. queue = <<>> /\ tailId = 0  BY <1>3, ThreadsFacts, EmptyQueue DEF IInv, Ends, Nobody
    <3> QED  BY <1>3, <3>1 DEF Ends, TryGrab
  <2>4. /\ Members' /\ Linking' /\ Links' /\ Unlinked' /\ Spinning' /\ HandOver'
        /\ \A u \in Threads : u # t => (Holds(u)' <=> Holds(u))
        /\ (Holds(t) <=> pc[t] \in Holding) /\ (Holds(t)' <=> pc'[t] \in Holding)
    BY <1>3, Elsewhere DEF IInv, TypeOK, TryGrab, Parked
  <2>5. Holds(t)'
    <3>1. pc'[t] \in Holding  BY <1>3 DEF IInv, TypeOK, TryGrab, Holding
    <3> QED  BY <2>4, <3>1
  <2>6. OneHolder'  BY <1>3, <2>1, <2>4, <2>5 DEF OneHolder, TryGrab, Held
  <2> QED  BY <1>1, <1>2, <2>2, <2>3, <2>4, <2>6 DEF IInv
<1>4. CASE headId # 0
  <2>1. Places'  BY <1>4 DEF IInv, TypeOK, Places, Approaching, Releasing, TryGrab
  <2>2. Ends' /\ Members' /\ Linking' /\ Links' /\ Unlinked' /\ Spinning' /\ HandOver' /\ OneHolder'
    BY <1>4, Within DEF IInv, TypeOK, TryGrab, Parked, Holding
  <2> QED  BY <1>1, <1>2, <2>1, <2>2 DEF IInv
<1> QED  BY <1>3, <1>4

----------------------------------------------------------------------------
(* The steps of a thread that is on the queue or puts itself there. *)

LEMMA SpinKeeps == ASSUME NEW t \in Threads PROVE IInv /\ Spin(t) => IInv'
<1> SUFFICES ASSUME IInv, Spin(t) PROVE IInv'  OBVIOUS
<1> USE DEF At, Goto, words, nest, locals
<1>1. TypeOK'  BY DEF IInv, TypeOK, Spin
<1>2. Places'  BY DEF IInv, TypeOK, Places, Approaching, Releasing, Spin
<1>3. OwnerNamesHolder'  BY DEF IInv, TypeOK, OwnerNamesHolder, Spin
<1>4. /\ Members' /\ Linking' /\ Links' /\ Unlinked' /\ Spinning' /\ HandOver'
      /\ \A u \in Threads : u # t => (Holds(u)' <=> Holds(u))
  <2>1. \A i \in 1..Len(queue) : queue[i] # t  BY DEF IInv, Spinning, Spin
  <2>2. \A u \in Threads : pc[u] \in Waking => head[u] # t  BY DEF IInv, HandOver, Spin
  <2> QED  BY <2>1, <2>2, Frame DEF IInv, TypeOK, Spin, Waking
<1>5. Ends'  BY DEF IInv, Ends, Spin
<1>6. OneHolder'
  <2>1. Holds(t) /\ Holds(t)'  BY DEF IInv, TypeOK, Spin, Holds, Granted
  <2>2. \A u \in Threads : Holds(u)' <=> Holds(u)  BY <1>4, <2>1
  <2> QED  BY <2>2 DEF IInv, OneHolder, Spin
<1> QED  BY <1>1, <1>2, <1>3, <1>4, <1>5, <1>6 DEF IInv

\* (-1,0) -> (t,t).
LEMMA EnqueueFirstKeeps == ASSUME NEW t \in Threads PROVE IInv /\ EnqueueFirst(t) => IInv'
<1> SUFFICES ASSUME IInv, EnqueueFirst(t) PROVE IInv'  OBVIOUS
<1> USE DEF At, Goto, words, nest, locals
<1>1. CASE ~(headId = Held /\ tailId = 0)
  <2>1. TypeOK'  BY <1>1 DEF IInv, TypeOK, EnqueueFirst
  <2>2. Places'  BY <1>1 DEF IInv, TypeOK, Places, Approaching, Releasing, EnqueueFirst
  <2>3. OwnerNamesHolder'  BY <1>1 DEF IInv, TypeOK, OwnerNamesHolder, EnqueueFirst
  <2>4. Ends' /\ Members' /\ Linking' /\ Links' /\ Unlinked' /\ Spinning' /\ HandOver' /\ OneHolder'
    BY <1>1, Within DEF IInv, TypeOK, EnqueueFirst, Parked, Holding
  <2> QED  BY <2>1, <2>2, <2>3, <2>4 DEF IInv
<1>2. CASE headId = Held /\ tailId = 0
  <2>1. queue = <<>> /\ Len(queue) = 0  BY <1>2, EmptyQueue, ThreadsFacts
  <2>2. queue' \in Seq(Threads) /\ Len(queue') = 1 /\ queue'[1] = t
    <3>1. queue' = Append(<<>>, t)  BY <1>2, <2>1 DEF EnqueueFirst
    <3>2. <<>> \in Seq(Threads) /\ Len(<<>>) = 0  BY EmptySeq
    <3> QED  BY <3>1, <3>2, AppendProperties
  <2>3. /\ headId' = t /\ tailId' = t /\ tail' = [tail EXCEPT ![t] = 0]
        /\ pc[t] = "enqueueFirst" /\ pc' = [pc EXCEPT ![t] = "spin"]
        /\ UNCHANGED <<ownerId, depth, spinHere, nextWaiting, head>>
    BY <1>2 DEF EnqueueFirst
  <2>4. TypeOK'  BY <2>2, <2>3 DEF IInv, TypeOK
  <2>5. Places'
    <3>1. \A u \in Threads : pc[u] \notin Releasing
      BY <1>2, ThreadsFacts DEF IInv, Places
    <3> QED  BY <2>3, <3>1 DEF IInv, TypeOK, Places, Approaching, Releasing
  <2>6. OwnerNamesHolder'  BY <2>3 DEF IInv, TypeOK, OwnerNamesHolder
  <2>7. spinHere[t]  BY <2>3 DEF IInv, Places, Approaching
  <2>8. Ends' /\ Members' /\ Spinning'
    <3>1. pc'[t] = "spin"  BY <2>3 DEF IInv, TypeOK
    <3>2. queue' # <<>>  BY <2>2, EmptySeq
    <3> QED  BY <2>2, <2>3, <2>7, <3>1, <3>2 DEF Ends, Members, Spinning
  <2>9. Linking' /\ Links'
    <3>1. \A u \in Threads : pc[u] # "link"  BY <2>1 DEF IInv, Linking
    <3> QED  BY <2>2, <2>3, <3>1 DEF IInv, TypeOK, Linking, Links
  <2>10. Unlinked'  BY <2>1, <2>2, <2>3 DEF IInv, TypeOK, Unlinked
  <2>11. HandOver'  BY <2>2, <2>3 DEF IInv, TypeOK, HandOver, Waking
  <2>12. OneHolder'
    <3>1. \A u \in Threads : pc[u] \in Waking => head[u] # t  BY <2>3 DEF IInv, HandOver
    <3>2. ~Holds(t) /\ ~Holds(t)'
      BY <2>3, <2>7, <3>1 DEF IInv, TypeOK, Holds, Granted, Dequeuing, Waking
    <3>3. \A u \in Threads : u # t => (Holds(u)' <=> Holds(u))
      BY <2>3 DEF IInv, TypeOK, Holds, Granted, Dequeuing
    <3>4. headId # 0 /\ headId' # 0  BY <1>2, <2>3, ThreadsFacts DEF Held, Nobody
    <3> QED  BY <3>2, <3>3, <3>4 DEF IInv, OneHolder
  <2> QED  BY <2>4, <2>5, <2>6, <2>8, <2>9, <2>10, <2>11, <2>12 DEF IInv
<1> QED  BY <1>1, <1>2

\* (h,u) -> (h,t): the thread whose id is still in tail_id is still the last on the queue, and
\* nobody has linked itself to it.
LEMMA EnqueueLastKeeps == ASSUME NEW t \in Threads PROVE IInv /\ EnqueueLast(t) => IInv'
<1> SUFFICES ASSUME IInv, EnqueueLast(t) PROVE IInv'  OBVIOUS
<1> USE DEF At, Goto, words, nest, locals
<1>1. CASE tailId # tail[t]
  <2>1. TypeOK'  BY <1>1 DEF IInv, TypeOK, EnqueueLast
  <2>2. Places'  BY <1>1 DEF IInv, TypeOK, Places, Approaching, Releasing, EnqueueLast
  <2>3. OwnerNamesHolder'  BY <1>1 DEF IInv, TypeOK, OwnerNamesHolder, EnqueueLast
  <2>4. Ends' /\ Members' /\ Linking' /\ Links' /\ Unlinked' /\ Spinning' /\ HandOver' /\ OneHolder'
    BY <1>1, Within DEF IInv, TypeOK, EnqueueLast, Parked, Holding
  <2> QED  BY <2>1, <2>2, <2>3, <2>4 DEF IInv
<1>2. CASE tailId = tail[t]
  <2> DEFINE n == Len(queue)
  <2>1. /\ tailId' = t /\ queue' = Append(queue, t)
        /\ pc[t] = "enqueueLast" /\ pc' = [pc EXCEPT ![t] = "link"]
        /\ UNCHANGED <<headId, ownerId, depth, spinHere, nextWaiting, head, tail>>
    BY <1>2 DEF EnqueueLast
  <2>2. tail[t] \in Threads /\ spinHere[t]  BY <2>1 DEF IInv, Places, Approaching
  <2>3. queue # <<>> /\ n \in Nat \ {0} /\ queue[n] = tail[t] /\ headId = queue[1]
    BY <1>2, <2>2, ThreadsFacts, EmptySeq DEF IInv, TypeOK, Ends, Nobody
  <2>4. /\ queue' \in Seq(Threads) /\ Len(queue') = n + 1 /\ queue'[n + 1] = t /\ queue' # <<>>
        /\ \A i \in 1..n : queue'[i] = queue[i]
    BY <2>1, AppendProperties DEF IInv, TypeOK
  <2>5. \A i \in 1..n : queue[i] \in Threads /\ queue[i] # t
    BY <2>1, QueueFacts DEF IInv, Members
  <2>6. \A u \in Threads : u # t => pc'[u] = pc[u]  BY <2>1 DEF IInv, TypeOK
  <2>7. pc'[t] = "link"  BY <2>1 DEF IInv, TypeOK
  <2> HIDE DEF n
  <2>8. TypeOK'  BY <2>1, <2>4 DEF IInv, TypeOK
  <2>9. Places'  BY <2>1, <2>2, <2>6, <2>7 DEF IInv, Places, Approaching, Releasing
  <2>10. OwnerNamesHolder'  BY <2>1, <2>6, <2>7 DEF IInv, OwnerNamesHolder
  <2>11. Ends'  BY <2>1, <2>3, <2>4 DEF Ends
  <2>12. Members' /\ Linking'
    <3>1. \A i \in 1..(n + 1) : i \in 1..n \/ i = n + 1  BY <2>3
    <3>2. Members'  BY <2>4, <2>5, <2>6, <2>7, <3>1 DEF n, IInv, Members
    <3>3. ASSUME NEW u \in Threads, pc'[u] = "link"
          PROVE \E i \in 1..n : queue'[i + 1] = u
      <4>1. CASE u = t  BY <2>3, <2>4, <4>1
      <4>2. CASE u # t
        <5>1. PICK i \in 1..(n - 1) : queue[i + 1] = u  BY <2>6, <3>3, <4>2 DEF n, IInv, Linking
        <5>2. i \in 1..n /\ i + 1 \in 1..n  BY <2>3
        <5> QED  BY <2>4, <5>1, <5>2
      <4> QED  BY <4>1, <4>2
    <3>4. Len(queue') - 1 = n  BY <2>3, <2>4
    <3> QED  BY <3>2, <3>3, <3>4 DEF Linking
  <2>13. nextWaiting[queue[n]] = Nobody
    <3>1. \A i \in 1..(n - 1) : queue[i] # queue[n]  BY <2>3 DEF n, IInv, Members
    <3>2. \A u \in Threads : pc[u] = "clear" => head[u] # queue[n]
      BY <2>3 DEF n, IInv, HandOver, Waking
    <3>3. queue[n] \in Threads  BY <2>2, <2>3
    <3> QED  BY <3>1, <3>2, <3>3 DEF n, IInv, Unlinked
  <2>14. Links'
    <3>1. ASSUME NEW i \in 1..n
          PROVE \/ nextWaiting[queue'[i]] = queue'[i + 1] /\ pc'[queue'[i + 1]] = "spin"
                \/ /\ nextWaiting[queue'[i]] = Nobody
                   /\ pc'[queue'[i + 1]] = "link" /\ tail[queue'[i + 1]] = queue'[i]
      <4>1. CASE i = n  BY <2>3, <2>4, <2>7, <2>13, <4>1
      <4>2. CASE i # n
        <5>1. i \in 1..(n - 1) /\ i + 1 \in 1..n  BY <2>3, <4>2
        <5> QED  BY <2>4, <2>5, <2>6, <5>1 DEF n, IInv, Links
      <4> QED  BY <4>1, <4>2
    <3>2. Len(queue') - 1 = n  BY <2>3, <2>4
    <3> QED  BY <2>1, <3>1, <3>2 DEF Links
  <2>15. Unlinked'
    <3>1. \A i \in 1..(n - 1) : i \in 1..n  BY <2>3
    <3>2. Len(queue') - 1 = n  BY <2>3, <2>4
    <3>3. \A u \in Threads : pc[u] = "clear" => pc'[u] = "clear"  BY <2>1, <2>6
    <3> QED  BY <2>1, <2>4, <3>1, <3>2, <3>3 DEF n, IInv, Unlinked
  <2>16. Spinning'
    <3>1. \A i \in 1..(n + 1) : i \in 1..n \/ i = n + 1  BY <2>3
    <3>2. 1 \in 1..n  BY <2>3
    <3> QED  BY <2>1, <2>2, <2>3, <2>4, <2>5, <2>6, <3>1, <3>2 DEF n, IInv, Spinning
  <2>17. HandOver'
    <3>1. \A i \in 1..(n + 1) : i \in 1..n \/ i = n + 1  BY <2>3
    <3>2. \A u \in Threads : pc'[u] \in Waking => pc[u] \in Waking  BY <2>6, <2>7 DEF Waking
    <3> QED  BY <2>1, <2>4, <2>6, <3>1, <3>2 DEF n, IInv, HandOver
  <2>18. OneHolder'
    <3>1. \A u \in Threads : pc[u] \in Waking => head[u] # t  BY <2>1 DEF IInv, HandOver
    <3>2. ~Holds(t) /\ ~Holds(t)'
      BY <2>1, <2>7 DEF Holds, Granted
    <3>3. \A u \in Threads : u # t => (Holds(u)' <=> Holds(u))
      <4>1. \A u, v \in Threads : Dequeuing(v, u)' <=> Dequeuing(v, u)
        BY <2>1, <2>6, <2>7 DEF Dequeuing
      <4> QED  BY <2>1, <2>6, <4>1 DEF Holds, Granted
    <3> QED  BY <2>1, <3>2, <3>3 DEF IInv, OneHolder
  <2> QED  BY <2>8, <2>9, <2>10, <2>11, <2>12, <2>14, <2>15, <2>16, <2>17, <2>18 DEF IInv
<1> QED  BY <1>1, <1>2

\* A thread on the queue that has not linked itself yet finds its predecessor still there.
LEMMA LinkKeeps == ASSUME NEW t \in Threads PROVE IInv /\ Link(t) => IInv'
<1> SUFFICES ASSUME IInv, Link(t) PROVE IInv'  OBVIOUS
<1> USE DEF At, Goto, words, nest, locals
<1> DEFINE n == Len(queue)
<1>1. n \in Nat /\ \A j \in 1..n : queue[j] \in Threads  BY QueueFacts DEF IInv
<1>2. PICK i \in 1..(n - 1) : queue[i + 1] = t  BY DEF IInv, Linking, Link
<1>3. nextWaiting[queue[i]] = Nobody /\ tail[t] = queue[i] /\ i \in 1..n /\ i + 1 \in 1..n
  BY <1>1, <1>2 DEF IInv, Links, Link
<1>4. /\ nextWaiting' = [nextWaiting EXCEPT ![queue[i]] = t] /\ pc' = [pc EXCEPT ![t] = "spin"]
      /\ pc[t] = "link"
      /\ UNCHANGED <<headId, tailId, ownerId, depth, spinHere, head, tail, queue>>
  BY <1>3 DEF Link
<1>5. pc'[t] = "spin" /\ \A u \in Threads : u # t => pc'[u] = pc[u]  BY <1>4 DEF IInv, TypeOK
<1>6. TypeOK'  BY <1>4 DEF IInv, TypeOK
<1>7. Places'  BY <1>4, <1>5 DEF IInv, Places, Approaching, Releasing
<1>8. OwnerNamesHolder'  BY <1>4, <1>5 DEF IInv, OwnerNamesHolder
<1>9. Ends'  BY <1>4 DEF IInv, Ends
<1>10. Members' /\ Linking'
  <2>1. Members'  BY <1>1, <1>4, <1>5 DEF IInv, Members
  <2>2. Linking'  BY <1>4, <1>5 DEF IInv, Linking
  <2> QED  BY <2>1, <2>2
<1> HIDE DEF n
<1>11. Links'
  <2> SUFFICES ASSUME NEW j \in 1..(n - 1)
      PROVE \/ nextWaiting'[queue[j]] = queue[j + 1] /\ pc'[queue[j + 1]] = "spin"
            \/ /\ nextWaiting'[queue[j]] = Nobody /\ pc'[queue[j + 1]] = "link"
               /\ tail[queue[j + 1]] = queue[j]
    BY <1>4 DEF n, Links
  <2>1. CASE j = i  BY <1>1, <1>2, <1>3, <1>4, <1>5, <2>1 DEF IInv, TypeOK
  <2>2. CASE j # i
    <3>1. j \in 1..n /\ j + 1 \in 1..n /\ j + 1 # i + 1  BY <1>1, <1>2, <2>2
    <3>2. queue[j] # queue[i] /\ queue[j + 1] # t
      BY <1>2, <1>3, <2>2, <3>1 DEF n, IInv, Members
    <3>3. nextWaiting'[queue[j]] = nextWaiting[queue[j]]
      BY <1>1, <1>4, <3>1, <3>2 DEF IInv, TypeOK
    <3> QED  BY <1>1, <1>5, <3>1, <3>2, <3>3 DEF n, IInv, Links
  <2> QED  BY <2>1, <2>2
<1>12. Unlinked'
  <2>1. \A v \in Threads : v # queue[i] => nextWaiting'[v] = nextWaiting[v]
    BY <1>4 DEF IInv, TypeOK
  <2>2. \A u \in Threads : pc[u] = "clear" => pc'[u] = "clear"  BY <1>4, <1>5
  <2> QED  BY <1>2, <1>4, <2>1, <2>2 DEF n, IInv, Unlinked
<1>13. Spinning'
  <2>1. queue # <<>> => 1 \in 1..n  BY <1>1, EmptySeq DEF n, IInv, TypeOK
  <2> QED  BY <1>1, <1>4, <1>5, <2>1 DEF n, IInv, Spinning
<1>14. HandOver'
  <2>1. \A u \in Threads : pc'[u] \in Waking => pc[u] \in Waking  BY <1>5 DEF Waking
  <2> QED  BY <1>4, <1>5, <2>1 DEF IInv, HandOver
<1>15. OneHolder'
  <2>1. \A u \in Threads : pc[u] \in Waking => head[u] # t  BY <1>4 DEF IInv, HandOver
  <2>2. \A u, v \in Threads : Dequeuing(v, u)' <=> Dequeuing(v, u)
    BY <1>4, <1>5 DEF Dequeuing
  <2>3. ~Holds(t) /\ ~Holds(t)'
    <3>1. spinHere[t]  BY <1>4 DEF IInv, Places, Approaching
    <3>2. \A v \in Threads : ~Dequeuing(v, t)  BY <2>1 DEF Dequeuing, Waking
    <3> QED  BY <1>4, <1>5, <2>2, <3>1, <3>2 DEF Holds, Granted
  <2>4. \A u \in Threads : u # t => (Holds(u)' <=> Holds(u))
    BY <1>4, <1>5, <2>2 DEF Holds, Granted
  <2> QED  BY <1>4, <2>3, <2>4 DEF IInv, OneHolder
<1> QED  BY <1>6, <1>7, <1>8, <1>9, <1>10, <1>11, <1>12, <1>13, <1>14, <1>15 DEF IInv

----------------------------------------------------------------------------
(* The steps of a release. *)

LEMMA RelFreeKeeps == ASSUME NEW t \in Threads PROVE IInv /\ RelFree(t) => IInv'
<1> SUFFICES ASSUME IInv, RelFree(t) PROVE IInv'  OBVIOUS
<1> USE DEF At, Goto, words, nest, locals
<1>1. TypeOK'  BY DEF IInv, TypeOK, RelFree
<1>2. OwnerNamesHolder'  BY DEF IInv, TypeOK, OwnerNamesHolder, RelFree
<1>3. CASE headId = Held
  <2>1. \A u \in Threads : Holds(u) => u = t  BY DEF IInv, OneHolder, Holds, RelFree
  <2>2. Places'
    <3>1. \A u \in Threads : pc[u] \notin Releasing  BY <1>3, ThreadsFacts DEF IInv, Places
    <3> QED  BY <1>3, <3>1 DEF IInv, TypeOK, Places, Approaching, Releasing, RelFree
  <2>3. Ends'
    <3>1. queue = <<>> /\ tailId = 0  BY <1>3, ThreadsFacts, EmptyQueue DEF IInv, Ends
    <3> QED  BY <1>3, <3>1 DEF Ends, RelFree
  <2>4. /\ Members' /\ Linking' /\ Links' /\ Unlinked' /\ Spinning' /\ HandOver'
        /\ \A u \in Threads : u # t => (Holds(u)' <=> Holds(u))
        /\ (Holds(t) <=> pc[t] \in Holding) /\ (Holds(t)' <=> pc'[t] \in Holding)
    BY <1>3, Elsewhere DEF IInv, TypeOK, RelFree, Parked
  <2>5. ~Holds(t)'
    <3>1. pc'[t] \notin Holding  BY <1>3 DEF IInv, TypeOK, RelFree, Holding
    <3> QED  BY <2>4, <3>1
  <2>6. OneHolder'  BY <1>3, <2>1, <2>4, <2>5 DEF OneHolder, RelFree
  <2> QED  BY <1>1, <1>2, <2>2, <2>3, <2>4, <2>6 DEF IInv
<1>4. CASE headId # Held
  <2>1. Places'  BY <1>4 DEF IInv, TypeOK, Places, Approaching, Releasing, RelFree
  <2>2. Ends' /\ Members' /\ Linking' /\ Links' /\ Unlinked' /\ Spinning' /\ HandOver' /\ OneHolder'
    BY <1>4, Within DEF IInv, TypeOK, RelFree, Parked, Holding
  <2> QED  BY <1>1, <1>2, <2>1, <2>2 DEF IInv
<1> QED  BY <1>3, <1>4

\* Taking the first off the queue makes it the holder.
LEMMA HandingOver ==
    ASSUME IInv, NEW t \in Threads, pc[t] \in Releasing, pc' = [pc EXCEPT ![t] = "clear"],
           head' = head, spinHere' = spinHere, headId' # 0,
           head[t] \in Threads, pc[head[t]] = "spin", spinHere[head[t]],
           \A i \in 1..Len(queue') : queue'[i] # head[t]
    PROVE  HandOver' /\ OneHolder'
<1>1. Holds(t) /\ head[t] # t  BY DEF Holds, Releasing
<1>2. \A u \in Threads : Holds(u) => u = t  BY <1>1 DEF IInv, OneHolder
<1>3. \A u \in Threads : pc[u] \notin Waking
  <2> SUFFICES ASSUME NEW u \in Threads, pc[u] \in Waking PROVE FALSE  OBVIOUS
  <2>1. Dequeuing(u, head[u]) /\ head[u] \in Threads /\ pc[head[u]] = "spin"
    BY DEF IInv, HandOver, Dequeuing, Waking
  <2>2. Holds(head[u])  BY <2>1 DEF Holds, Granted, At
  <2>3. head[u] = t  BY <1>2, <2>1, <2>2
  <2> QED  BY <2>1, <2>3 DEF Releasing
<1>4. pc'[t] = "clear" /\ \A u \in Threads : u # t => pc'[u] = pc[u]  BY DEF IInv, TypeOK
<1>5. \A u \in Threads : pc'[u] \in Waking => u = t  BY <1>3, <1>4
<1>6. HandOver'  BY <1>1, <1>4, <1>5 DEF HandOver
<1>7. Holds(head[t])'
  <2>1. Dequeuing(t, head[t])'  BY <1>4 DEF Dequeuing
  <2> QED  BY <1>1, <1>4, <2>1 DEF Holds, Granted, At
<1>8. ASSUME NEW u \in Threads, Holds(u)' PROVE u = head[t]
  <2>1. u # t  BY <1>4, <1>8 DEF Holds, Granted, At
  <2>2. ~Holds(u) /\ pc'[u] = pc[u]  BY <1>2, <1>4, <2>1
  <2>3. \E v \in Threads : Dequeuing(v, u)'  BY <1>8, <2>2 DEF Holds, Granted, At
  <2> QED  BY <1>5, <2>3 DEF Dequeuing, Waking
<1>9. OneHolder'  BY <1>7, <1>8 DEF OneHolder
<1> QED  BY <1>6, <1>9

\* (h,h) -> (-1,0).
LEMMA RelLastKeeps == ASSUME NEW t \in Threads PROVE IInv /\ RelLast(t) => IInv'
<1> SUFFICES ASSUME IInv, RelLast(t) PROVE IInv'  OBVIOUS
<1> USE DEF At, Goto, words, nest, locals
<1>1. OwnerNamesHolder'  BY DEF IInv, TypeOK, OwnerNamesHolder, RelLast
<1>2. CASE ~(headId = head[t] /\ tailId = head[t])
  <2>1. TypeOK'  BY <1>2 DEF IInv, TypeOK, RelLast
  <2>2. Places'  BY <1>2 DEF IInv, TypeOK, Places, Approaching, Releasing, RelLast
  <2>3. Ends' /\ Members' /\ Linking' /\ Links' /\ Unlinked' /\ Spinning' /\ HandOver' /\ OneHolder'
    BY <1>2, Within DEF IInv, TypeOK, RelLast, Parked, Holding
  <2> QED  BY <1>1, <2>1, <2>2, <2>3 DEF IInv
<1>3. CASE headId = head[t] /\ tailId = head[t]
  <2>1. /\ headId' = Held /\ tailId' = 0 /\ queue' = Tail(queue) /\ pc[t] = "relLast"
        /\ pc' = [pc EXCEPT ![t] = "clear"]
        /\ UNCHANGED <<ownerId, depth, spinHere, nextWaiting, head, tail>>
    BY <1>3 DEF RelLast
  <2>2. pc[t] \in Releasing /\ head[t] \in Threads  BY <2>1 DEF IInv, Places, Releasing
  <2>3. queue # <<>> /\ queue[1] = head[t] /\ queue[Len(queue)] = head[t] /\ Len(queue) \in Nat \ {0}
    BY <1>3, <2>2, ThreadsFacts, EmptySeq DEF IInv, TypeOK, Ends, Nobody
  <2>4. Len(queue) = 1
    <3>1. 1 \in 1..Len(queue) /\ Len(queue) \in 1..Len(queue)  BY <2>3
    <3> QED  BY <2>3, <3>1 DEF IInv, Members
  <2>5. queue' = <<>> /\ Len(queue') = 0 /\ queue' \in Seq(Threads)
    <3>1. queue' \in Seq(Threads) /\ Len(queue') = 0
      BY <2>1, <2>3, <2>4, HeadTailProperties DEF IInv, TypeOK
    <3> QED  BY <3>1, EmptySeq
  <2>6. pc'[t] = "clear" /\ \A u \in Threads : u # t => pc'[u] = pc[u]  BY <2>1 DEF IInv, TypeOK
  <2>7. \A u \in Threads : pc[u] \in Releasing => u = t
    BY <2>2 DEF IInv, OneHolder, Holds, Releasing
  <2>8. TypeOK'  BY <2>1, <2>5 DEF IInv, TypeOK
  <2>9. Places'  BY <2>1, <2>6, <2>7 DEF IInv, Places, Approaching, Releasing
  <2>10. Ends' /\ Members' /\ Links' /\ Spinning'
    BY <2>1, <2>5 DEF Ends, Members, Links, Spinning
  <2>11. Linking'
    <3>1. \A u \in Threads : pc[u] # "link"  BY <2>4 DEF IInv, Linking
    <3> QED  BY <2>6, <3>1 DEF Linking
  <2>12. Unlinked'  BY <2>1, <2>4, <2>6 DEF IInv, Unlinked
  <2>13. HandOver' /\ OneHolder'
    <3>1. pc[head[t]] = "spin" /\ spinHere[head[t]]  BY <2>3, <2>4 DEF IInv, Spinning
    <3>2. headId' # 0  BY <2>1 DEF Held
    <3>3. \A i \in 1..Len(queue') : queue'[i] # head[t]  BY <2>5
    <3> QED  BY <2>1, <2>2, <3>1, <3>2, <3>3, HandingOver
  <2> QED  BY <1>1, <2>8, <2>9, <2>10, <2>11, <2>12, <2>13 DEF IInv
<1> QED  BY <1>2, <1>3

\* (h,u) -> (h',u): the link a release waits for leads to the second on the queue.
LEMMA RelNextKeeps == ASSUME NEW t \in Threads PROVE IInv /\ RelNext(t) => IInv'
<1> SUFFICES ASSUME IInv, RelNext(t) PROVE IInv'  OBVIOUS
<1> USE DEF At, Goto, words, nest, locals
<1> DEFINE n == Len(queue)
<1>1. /\ headId' = nextWaiting[head[t]] /\ nextWaiting[head[t]] # Nobody
      /\ queue' = Tail(queue) /\ pc[t] = "relNext" /\ pc' = [pc EXCEPT ![t] = "clear"]
      /\ UNCHANGED <<tailId, ownerId, depth, spinHere, nextWaiting, head, tail>>
  BY DEF RelNext
<1>2. pc[t] \in Releasing /\ head[t] \in Threads /\ headId = head[t]
  BY <1>1 DEF IInv, Places, Releasing
<1>3. queue # <<>> /\ queue[1] = head[t] /\ n \in Nat \ {0} /\ tailId = queue[n]
  BY <1>2, ThreadsFacts, EmptySeq DEF IInv, TypeOK, Ends, Nobody, Held
<1>4. n >= 2
  <2>1. 1 \in 1..n  BY <1>3
  <2>2. \A u \in Threads : ~(pc[u] = "clear" /\ head[u] = head[t])
    BY <1>3, <2>1 DEF IInv, HandOver, Waking
  <2>3. \E i \in 1..(n - 1) : queue[i] = head[t]  BY <1>1, <1>2, <2>2 DEF IInv, Unlinked
  <2> HIDE DEF n
  <2> QED  BY <1>3, <2>3
<1>5. nextWaiting[head[t]] = queue[2] /\ pc[queue[2]] = "spin"
  <2>1. 1 \in 1..(n - 1) /\ 1 + 1 = 2  BY <1>3, <1>4
  <2> QED  BY <1>1, <1>3, <2>1 DEF IInv, Links
<1>6. /\ queue' \in Seq(Threads) /\ Len(queue') = n - 1
      /\ \A i \in 1..(n - 1) : queue'[i] = queue[i + 1]
  BY <1>1, <1>3, HeadTailProperties DEF IInv, TypeOK
<1>7. \A i \in 1..n : queue[i] \in Threads /\ queue[i] # t
  BY <1>1, QueueFacts DEF IInv, Members
<1>8. pc'[t] = "clear" /\ \A u \in Threads : u # t => pc'[u] = pc[u]  BY <1>1 DEF IInv, TypeOK
<1>9. \A i \in 1..n : i # 1 => queue[i] # head[t]  BY <1>3 DEF IInv, Members
<1> HIDE DEF n
<1>10. \A u \in Threads : pc[u] \in Releasing => u = t
  BY <1>2 DEF IInv, OneHolder, Holds, Releasing
<1>11. TypeOK'
  <2>1. queue[2] \in Threads  BY <1>3, <1>4, <1>7
  <2> QED  BY <1>1, <1>5, <1>6, <2>1 DEF IInv, TypeOK
<1>12. Places'  BY <1>1, <1>8, <1>10 DEF IInv, Places, Approaching, Releasing
<1>13. OwnerNamesHolder'  BY <1>1, <1>8 DEF IInv, OwnerNamesHolder
<1>14. Ends'
  <2>1. queue' # <<>>  BY <1>3, <1>4, <1>6, EmptySeq
  <2>2. queue'[1] = queue[2] /\ queue'[n - 1] = queue[n]
    <3>1. 1 \in 1..(n - 1) /\ n - 1 \in 1..(n - 1) /\ 1 + 1 = 2 /\ (n - 1) + 1 = n  BY <1>3, <1>4
    <3> QED  BY <1>6, <3>1
  <2> QED  BY <1>1, <1>3, <1>5, <1>6, <2>1, <2>2 DEF Ends
<1>15. \A i \in 1..(n - 1) : i \in 1..n /\ i + 1 \in 1..n /\ i + 1 # 1  BY <1>3
<1>16. Members'
  <2> SUFFICES ASSUME NEW i \in 1..(n - 1)
      PROVE /\ pc'[queue'[i]] \in {"spin", "link"}
            /\ \A j \in 1..(n - 1) : queue'[i] = queue'[j] => i = j
    BY <1>6 DEF Members
  <2>1. pc'[queue'[i]] = pc[queue[i + 1]]  BY <1>6, <1>7, <1>8, <1>15
  <2>2. ASSUME NEW j \in 1..(n - 1), queue[i + 1] = queue[j + 1] PROVE i = j
    <3>1. i + 1 = j + 1  BY <1>15, <2>2 DEF n, IInv, Members
    <3> QED  BY <1>3, <3>1
  <2> QED  BY <1>6, <1>15, <2>1, <2>2 DEF n, IInv, Members
<1>17. Linking'
  <2> SUFFICES ASSUME NEW u \in Threads, pc'[u] = "link"
      PROVE \E i \in 1..(n - 1 - 1) : queue'[i + 1] = u
    BY <1>6 DEF Linking
  <2>1. pc[u] = "link"  BY <1>8
  <2>2. PICK i \in 1..(n - 1) : queue[i + 1] = u  BY <2>1 DEF n, IInv, Linking
  <2>3. i # 1  BY <1>5, <2>1, <2>2
  <2>4. i - 1 \in 1..(n - 1 - 1) /\ (i - 1) + 1 = i /\ i \in 1..(n - 1)  BY <1>3, <2>3
  <2> QED  BY <1>6, <2>2, <2>4
<1>18. Links'
  <2> SUFFICES ASSUME NEW i \in 1..(n - 1 - 1)
      PROVE \/ nextWaiting[queue'[i]] = queue'[i + 1] /\ pc'[queue'[i + 1]] = "spin"
            \/ /\ nextWaiting[queue'[i]] = Nobody /\ pc'[queue'[i + 1]] = "link"
               /\ tail[queue'[i + 1]] = queue'[i]
    BY <1>1, <1>6 DEF Links
  <2>1. i \in 1..(n - 1) /\ i + 1 \in 1..(n - 1) /\ (i + 1) + 1 \in 1..n  BY <1>3
  <2>2. queue'[i] = queue[i + 1] /\ queue'[i + 1] = queue[(i + 1) + 1]  BY <1>6, <2>1
  <2>3. pc'[queue[(i + 1) + 1]] = pc[queue[(i + 1) + 1]]  BY <1>7, <1>8, <2>1
  <2>4. \/ nextWaiting[queue[i + 1]] = queue[(i + 1) + 1] /\ pc[queue[(i + 1) + 1]] = "spin"
        \/ /\ nextWaiting[queue[i + 1]] = Nobody /\ pc[queue[(i + 1) + 1]] = "link"
           /\ tail[queue[(i + 1) + 1]] = queue[i + 1]
    BY <2>1 DEF n, IInv, Links
  <2> QED  BY <2>2, <2>3, <2>4
<1>19. Unlinked'
  <2> SUFFICES ASSUME NEW u \in Threads, \A i \in 1..(n - 1 - 1) : queue'[i] # u
      PROVE nextWaiting[u] = Nobody \/ \E v \in Threads : pc'[v] = "clear" /\ head[v] = u
    BY <1>1, <1>6 DEF Unlinked
  <2>1. CASE u = head[t]  BY <1>8, <2>1
  <2>2. CASE u # head[t]
    <3>1. ASSUME NEW i \in 1..(n - 1) PROVE queue[i] # u
      <4>1. CASE i = 1  BY <1>3, <2>2, <4>1
      <4>2. CASE i # 1
        <5>1. i - 1 \in 1..(n - 1 - 1) /\ i - 1 \in 1..(n - 1) /\ (i - 1) + 1 = i  BY <1>3, <4>2
        <5> QED  BY <1>6, <5>1
      <4> QED  BY <4>1, <4>2
    <3>2. nextWaiting[u] = Nobody \/ \E v \in Threads : pc[v] = "clear" /\ head[v] = u
      BY <3>1 DEF n, IInv, Unlinked
    <3> QED  BY <1>1, <1>8, <3>2
  <2> QED  BY <2>1, <2>2
<1>20. Spinning'
  <2>1. 1 \in 1..(n - 1) /\ 2 \in 1..n /\ 1 + 1 = 2  BY <1>3, <1>4
  <2>2. queue'[1] = queue[2] /\ pc'[queue[2]] = "spin"  BY <1>5, <1>6, <1>7, <1>8, <2>1
  <2> QED  BY <1>1, <1>6, <1>15, <2>2 DEF n, IInv, Spinning
<1>21. HandOver' /\ OneHolder'
  <2>1. pc[head[t]] = "spin" /\ spinHere[head[t]]
    <3>1. 1 \in 1..n  BY <1>3
    <3> QED  BY <1>3, <3>1 DEF n, IInv, Spinning
  <2>2. headId' # 0  BY <1>1 DEF Nobody
  <2>3. \A i \in 1..Len(queue') : queue'[i] # head[t]  BY <1>6, <1>9, <1>15
  <2> QED  BY <1>1, <1>2, <2>1, <2>2, <2>3, HandingOver
<1> QED  BY <1>11, <1>12, <1>13, <1>14, <1>16, <1>17, <1>18, <1>19, <1>20, <1>21 DEF IInv

LEMMA ClearKeeps == ASSUME NEW t \in Threads PROVE IInv /\ Clear(t) => IInv'
<1> SUFFICES ASSUME IInv, Clear(t) PROVE IInv'  OBVIOUS
<1> USE DEF At, Goto, words, nest, locals
<1>1. /\ nextWaiting' = [nextWaiting EXCEPT ![head[t]] = Nobody]
      /\ pc[t] = "clear" /\ pc' = [pc EXCEPT ![t] = "wake"]
      /\ UNCHANGED <<headId, tailId, ownerId, depth, spinHere, head, tail, queue>>
  BY DEF Clear
<1>2. head[t] \in Threads /\ \A i \in 1..Len(queue) : queue[i] # head[t]
  BY <1>1 DEF IInv, HandOver, Waking
<1>3. /\ Len(queue) \in Nat
      /\ \A i \in 1..Len(queue) : queue[i] \in Threads /\ queue[i] # t
  BY <1>1, QueueFacts DEF IInv, Members
<1>4. pc'[t] = "wake" /\ \A u \in Threads : u # t => pc'[u] = pc[u]  BY <1>1 DEF IInv, TypeOK
<1>5. nextWaiting'[head[t]] = Nobody /\ \A u \in Threads : u # head[t] => nextWaiting'[u] = nextWaiting[u]
  BY <1>1, <1>2 DEF IInv, TypeOK
<1>6. TypeOK'  BY <1>1 DEF IInv, TypeOK
<1>7. Places'  BY <1>1, <1>4 DEF IInv, Places, Approaching, Releasing
<1>8. OwnerNamesHolder'  BY <1>1, <1>4 DEF IInv, OwnerNamesHolder
<1>9. Ends'  BY <1>1 DEF IInv, Ends
<1>10. Members' /\ Linking'
  <2>1. Members'  BY <1>1, <1>3, <1>4 DEF IInv, Members
  <2>2. Linking'  BY <1>1, <1>4 DEF IInv, Linking
  <2> QED  BY <2>1, <2>2
<1>11. Links'
  <2> SUFFICES ASSUME NEW i \in 1..(Len(queue) - 1)
      PROVE \/ nextWaiting'[queue[i]] = queue[i + 1] /\ pc'[queue[i + 1]] = "spin"
            \/ /\ nextWaiting'[queue[i]] = Nobody /\ pc'[queue[i + 1]] = "link"
               /\ tail[queue[i + 1]] = queue[i]
    BY <1>1 DEF Links
  <2>1. i \in 1..Len(queue) /\ i + 1 \in 1..Len(queue)  BY <1>3
  <2>2. nextWaiting'[queue[i]] = nextWaiting[queue[i]] /\ pc'[queue[i + 1]] = pc[queue[i + 1]]
    BY <1>2, <1>3, <1>4, <1>5, <2>1
  <2> QED  BY <2>2 DEF IInv, Links
<1>12. Unlinked'  BY <1>1, <1>4, <1>5 DEF IInv, Unlinked
<1>13. Spinning'
  <2>1. queue # <<>> => 1 \in 1..Len(queue)  BY EmptySeq DEF IInv, TypeOK
  <2> QED  BY <1>1, <1>3, <1>4, <2>1 DEF IInv, Spinning
<1>14. HandOver'  BY <1>1, <1>4 DEF IInv, HandOver, Waking
<1>15. OneHolder'
  <2>1. \A u, v \in Threads : Dequeuing(v, u)' <=> Dequeuing(v, u)
    BY <1>1, <1>4 DEF Dequeuing
  <2>2. \A u \in Threads : Holds(u)' <=> Holds(u)  BY <1>1, <1>4, <2>1 DEF Holds, Granted
  <2> QED  BY <1>1, <2>2 DEF IInv, OneHolder
<1> QED  BY <1>6, <1>7, <1>8, <1>9, <1>10, <1>11, <1>12, <1>13, <1>14, <1>15 DEF IInv

LEMMA WakeKeeps == ASSUME NEW t \in Threads PROVE IInv /\ Wake(t) => IInv'
<1> SUFFICES ASSUME IInv, Wake(t) PROVE IInv'  OBVIOUS
<1> USE DEF At, Goto, words, nest, locals
<1>0. PICK h \in Threads : h = head[t]  BY DEF IInv, HandOver, Waking, Wake
<1>1. /\ spinHere' = [spinHere EXCEPT ![h] = FALSE]
      /\ pc[t] = "wake" /\ pc' = [pc EXCEPT ![t] = "out"]
      /\ UNCHANGED <<headId, tailId, ownerId, depth, nextWaiting, head, tail, queue>>
  BY <1>0 DEF Wake
<1>2. pc[h] = "spin" /\ spinHere[h] /\ \A i \in 1..Len(queue) : queue[i] # h
  BY <1>0, <1>1 DEF IInv, HandOver, Waking
<1>3. /\ Len(queue) \in Nat
      /\ \A i \in 1..Len(queue) : queue[i] \in Threads /\ queue[i] # t
  BY <1>1, QueueFacts DEF IInv, Members
<1>4. pc'[t] = "out" /\ \A u \in Threads : u # t => pc'[u] = pc[u]  BY <1>1 DEF IInv, TypeOK
<1>5. \A u \in Threads : pc[u] \in Waking => u = t  BY <1>1 DEF IInv, HandOver, Waking
<1>6. ~spinHere'[h] /\ \A u \in Threads : u # h => spinHere'[u] = spinHere[u]
  BY <1>1, <1>2 DEF IInv, TypeOK
<1>7. TypeOK'  BY <1>1 DEF IInv, TypeOK
<1>8. Places'
  <2>1. \A u \in Threads : pc'[u] \in Approaching => pc[u] \in Approaching /\ u # h
    BY <1>1, <1>2, <1>4 DEF Approaching
  <2> QED  BY <1>1, <1>4, <1>6, <2>1 DEF IInv, Places, Releasing
<1>9. OwnerNamesHolder'  BY <1>1, <1>4 DEF IInv, OwnerNamesHolder
<1>10. Ends'  BY <1>1 DEF IInv, Ends
<1>11. Members' /\ Linking'
  <2>1. Members'  BY <1>1, <1>3, <1>4 DEF IInv, Members
  <2>2. Linking'  BY <1>1, <1>4 DEF IInv, Linking
  <2> QED  BY <2>1, <2>2
<1>12. Links'
  <2>1. \A i \in 1..(Len(queue) - 1) : i \in 1..Len(queue) /\ i + 1 \in 1..Len(queue)  BY <1>3
  <2>2. \A i \in 1..Len(queue) : pc'[queue[i]] = pc[queue[i]]  BY <1>3, <1>4
  <2> QED  BY <1>1, <2>1, <2>2 DEF IInv, Links
<1>13. Unlinked'
  <2>1. \A u \in Threads : pc[u] = "clear" => pc'[u] = "clear"  BY <1>1, <1>4
  <2> QED  BY <1>1, <2>1 DEF IInv, Unlinked
<1>14. Spinning'
  <2>1. queue # <<>> => 1 \in 1..Len(queue)  BY EmptySeq DEF IInv, TypeOK
  <2> QED  BY <1>1, <1>2, <1>3, <1>4, <1>6, <2>1 DEF IInv, Spinning
<1>15. \A u \in Threads : pc'[u] \notin Waking  BY <1>4, <1>5 DEF Waking
<1>16. HandOver'  BY <1>15 DEF HandOver
<1>17. OneHolder'
  <2>1. \A u, v \in Threads : ~Dequeuing(v, u)'  BY <1>15 DEF Dequeuing, Waking
  <2>2. \A u, v \in Threads : Dequeuing(v, u) => u = h  BY <1>0, <1>5 DEF Dequeuing, Waking
  <2>3. Holds(h)
    <3>1. Dequeuing(t, h)  BY <1>0, <1>1 DEF Dequeuing
    <3> QED  BY <1>2, <3>1 DEF Holds, Granted
  <2>4. Holds(h)'
    <3>1. h # t  BY <1>1, <1>2
    <3> QED  BY <1>2, <1>4, <1>6, <3>1 DEF Holds, Granted
  <2>5. ASSUME NEW u \in Threads, u # h PROVE Holds(u)' <=> Holds(u)
    <3>1. CASE u = t  BY <1>1, <1>4, <3>1 DEF Holds, Granted
    <3>2. CASE u # t  BY <1>4, <1>6, <2>1, <2>2, <2>5, <3>2 DEF Holds, Granted
    <3> QED  BY <3>1, <3>2
  <2>6. \A u \in Threads : Holds(u)' <=> Holds(u)  BY <2>3, <2>4, <2>5
  <2> QED  BY <1>1, <2>6 DEF IInv, OneHolder
<1> QED  BY <1>7, <1>8, <1>9, <1>10, <1>11, <1>12, <1>13, <1>14, <1>16, <1>17 DEF IInv

----------------------------------------------------------------------------
LEMMA IInvStep == IInv /\ [Next]_vars => IInv'
<1> SUFFICES ASSUME IInv, [Next]_vars PROVE IInv'  OBVIOUS
<1>1. ASSUME NEW t \in Threads,
             Acquire(t) \/ Deepen(t) \/ Test(t) \/ Unset(t) \/ ReadHead(t) \/ Unspin(t)
                \/ ReadTail(t) \/ SetOwner(t) \/ RelRead(t) \/ RelTail(t)
      PROVE IInv'
  BY <1>1, AcquireKeeps, DeepenKeeps, TestKeeps, UnsetKeeps, ReadHeadKeeps, UnspinKeeps,
     ReadTailKeeps, SetOwnerKeeps, RelReadKeeps, RelTailKeeps
<1>2. ASSUME NEW t \in Threads,
             Grab(t) \/ TryGrab(t) \/ EnqueueFirst(t) \/ EnqueueLast(t) \/ Link(t) \/ Spin(t)
                \/ RelFree(t) \/ RelLast(t) \/ RelNext(t) \/ Clear(t) \/ Wake(t)
      PROVE IInv'
  BY <1>2, GrabKeeps, TryGrabKeeps, EnqueueFirstKeeps, EnqueueLastKeeps, LinkKeeps, SpinKeeps,
     RelFreeKeeps, RelLastKeeps, RelNextKeeps, ClearKeeps, WakeKeeps
<1>3. CASE UNCHANGED vars
  <2> USE <1>3 DEF vars, words, nest, locals, IInv
  <2>1. TypeOK' /\ Places' /\ OwnerNamesHolder' /\ Ends' /\ Members' /\ Linking' /\ Links'
    BY DEF TypeOK, Places, OwnerNamesHolder, Ends, Members, Linking, Links, At
  <2>2. Unlinked' /\ Spinning' /\ HandOver'  BY DEF Unlinked, Spinning, HandOver
  <2>3. OneHolder'  BY DEF OneHolder, Holds, Granted, Dequeuing, At
  <2> QED  BY <2>1, <2>2, <2>3
<1> QED  BY <1>1, <1>2, <1>3 DEF Next, Inside

LEMMA Invariant == Spec => []IInv
BY IInvInit, IInvStep, PTL DEF Spec

----------------------------------------------------------------------------
\* The words and the threads' locals stay in their types, the depth within its bound.
THEOREM TypeCorrect == Spec => []TypeOK
BY Invariant, PTL DEF IInv

\* At most one thread holds the lock, and the lock word is zero exactly while none does.
THEOREM MutualExclusion == Spec => []OneHolder
BY Invariant, PTL DEF IInv

\* However acquire, test and release interleave, owner_id names a thread exactly while it is
\* inside, so the racy test of it for a nested acquire is right.
THEOREM OwnerCorrect == Spec => []OwnerNamesHolder
BY Invariant, PTL DEF IInv

\* The two ids and the links spell the queue, whatever a release overtakes.
THEOREM QueueCorrect == Spec => []QueueLinked
<1>1. IInv => QueueLinked
  BY DEF IInv, QueueLinked, Ends, Members, Links, Unlinked, At
<1> QED  BY <1>1, Invariant, PTL

----------------------------------------------------------------------------
(* The detailed lock implements the abstract one. *)

OwnerFacts ==
    /\ \A t \in Threads : Holds(t) => Owner = t
    /\ headId = 0 => Owner = Nobody

LEMMA OwnerIsHolder == OneHolder => OwnerFacts
<1> SUFFICES ASSUME OneHolder PROVE OwnerFacts  OBVIOUS
<1>1. ASSUME NEW t \in Threads, Holds(t) PROVE Owner = t
  <2>1. Holders = {t}  BY <1>1 DEF OneHolder, Holders
  <2>2. Cardinality(Holders) = 1  BY <2>1, FS_Singleton
  <2>3. \A u \in Threads : Holds(u) <=> u = t  BY <1>1 DEF OneHolder
  <2> QED  BY <2>1, <2>2, <2>3 DEF Owner
<1>2. ASSUME headId = 0 PROVE Owner = Nobody
  <2>1. Holders = {}  BY <1>2 DEF OneHolder, Holders
  <2> QED  BY <2>1 DEF Owner
<1> QED  BY <1>1, <1>2 DEF OwnerFacts

Consistent == IInv /\ OwnerFacts

\* The owner is the same after a step that takes the lock from nobody.
LEMMA SameOwner ==
    ASSUME Consistent, Consistent', headId = 0 <=> headId' = 0,
           \A u \in Threads : Holds(u) => Holds(u)'
    PROVE  Owner' = Owner
<1>1. CASE headId = 0  BY <1>1 DEF Consistent, OwnerFacts
<1>2. CASE headId # 0
  <2>1. PICK t \in Threads : Holds(t)  BY <1>2 DEF Consistent, IInv, OneHolder
  <2> QED  BY <2>1 DEF Consistent, OwnerFacts
<1> QED  BY <1>1, <1>2

\* Most steps take it from nobody.
LEMMA StillHolds ==
    ASSUME IInv, NEW t \in Threads,
           \A u \in Threads : u # t => pc'[u] = pc[u] /\ head'[u] = head[u],
           \A u \in Threads : u # t /\ ~spinHere[u] => ~spinHere'[u],
           pc[t] \notin Waking, pc[t] \in Holding \union {"spin"} => pc'[t] \in Holding
    PROVE  \A u \in Threads : Holds(u) => Holds(u)'
<1>1. CASE pc[t] \in Holding \union {"spin"}
  <2>1. Holds(t)'  BY <1>1 DEF Holds, Holding
  <2>2. ASSUME NEW u \in Threads, u # t, Holds(u) PROVE Holds(u)'
    <3>1. \A v \in Threads : Dequeuing(v, u) => Dequeuing(v, u)'
      BY DEF Dequeuing, Waking
    <3> QED  BY <2>2, <3>1 DEF Holds, Granted, At
  <2> QED  BY <2>1, <2>2
<1>2. CASE pc[t] \notin Holding \union {"spin"}
  <2>1. ~Holds(t)  BY <1>2 DEF Holds, Granted, At, Holding
  <2>2. ASSUME NEW u \in Threads, u # t, Holds(u) PROVE Holds(u)'
    <3>1. \A v \in Threads : Dequeuing(v, u) => Dequeuing(v, u)'
      BY DEF Dequeuing, Waking
    <3> QED  BY <2>2, <3>1 DEF Holds, Granted, At
  <2> QED  BY <2>1, <2>2
<1> QED  BY <1>1, <1>2

\* Taking a free lock.
LEMMA GrabAbs ==
    ASSUME Consistent, Consistent', NEW t \in Threads, headId = 0, queue' = queue,
           pc'[t] \in Holding
    PROVE  Abs!Grab(t)
<1>1. Holds(t)'  BY DEF Holds, Holding
<1> QED  BY <1>1 DEF Consistent, OwnerFacts, Abs!Grab

\* Joining the queue of a lock that somebody else holds.
LEMMA EnqueueAbs ==
    ASSUME Consistent, Consistent', NEW t \in Threads, headId # 0, headId' # 0,
           queue' = Append(queue, t), pc[t] \in {"enqueueFirst", "enqueueLast"},
           \A u \in Threads : Holds(u) => Holds(u)'
    PROVE  Abs!Enqueue(t)
<1>1. PICK h \in Threads : Holds(h)  BY DEF Consistent, IInv, OneHolder
<1>2. h # t  BY <1>1 DEF Holds, Granted, At
<1>3. Owner \notin {Nobody, t}  BY <1>1, <1>2, ThreadsFacts DEF Consistent, OwnerFacts
<1>4. \A i \in 1..Len(queue) : queue[i] # t  BY DEF Consistent, IInv, Members
<1>5. Owner' = Owner  BY SameOwner
<1> QED  BY <1>3, <1>4, <1>5 DEF Abs!Enqueue, Abs!Waiting

\* Giving the lock to the first on the queue.
LEMMA HandOverAbs ==
    ASSUME Consistent, Consistent', NEW t \in Threads, pc[t] \in Releasing, queue # <<>>,
           queue' = Tail(queue), pc' = [pc EXCEPT ![t] = "clear"], head' = head
    PROVE  Abs!Release(t)
<1>1. Owner = t
  <2>1. Holds(t)  BY DEF Holds, Releasing
  <2> QED  BY <2>1 DEF Consistent, OwnerFacts
<1>2. queue[1] = head[t] /\ head[t] \in Threads  BY DEF Consistent, IInv, Places, Ends
<1>3. Holds(head[t])'
  <2>1. pc[head[t]] = "spin" /\ head[t] # t
    BY <1>2 DEF Consistent, IInv, Spinning, Releasing
  <2>2. pc'[t] = "clear" /\ pc'[head[t]] = "spin"  BY <1>2, <2>1 DEF Consistent, IInv, TypeOK
  <2>3. Dequeuing(t, head[t])'  BY <2>2 DEF Dequeuing
  <2> QED  BY <2>2, <2>3 DEF Holds, Granted, At
<1>4. Owner' = head[t]  BY <1>2, <1>3 DEF Consistent, OwnerFacts
<1>5. Head(queue) = queue[1]  BY DEF Consistent, IInv, TypeOK
<1> QED  BY <1>1, <1>2, <1>4, <1>5 DEF Abs!Release

LEMMA StepAbs ==
    ASSUME Consistent, Consistent', [Next]_vars
    PROVE  [Abs!Next]_<<Owner, queue>>
<1> USE DEF At, Goto, words, nest, locals
<1>1. ASSUME NEW t \in Threads,
             Acquire(t) \/ Test(t) \/ ReadHead(t) \/ ReadTail(t) \/ Unspin(t) \/ SetOwner(t)
                \/ Link(t) \/ Spin(t)
      PROVE UNCHANGED <<Owner, queue>>
  <2>1. \A u \in Threads : Holds(u) => Holds(u)'
    <3>1. pc[t] \notin Waking /\ (pc[t] \in Holding \union {"spin"} => pc'[t] \in Holding)
      BY <1>1 DEF Consistent, IInv, TypeOK, Acquire, Test, ReadHead, ReadTail, Unspin, SetOwner,
         Link, Spin, Waking, Holding
    <3>2. \A u \in Threads : u # t => /\ pc'[u] = pc[u] /\ head'[u] = head[u]
                                     /\ spinHere'[u] = spinHere[u]
      BY <1>1 DEF Consistent, IInv, TypeOK, Acquire, Test, ReadHead, ReadTail, Unspin, SetOwner,
         Link, Spin
    <3> QED  BY <3>1, <3>2, StillHolds DEF Consistent
  <2>2. headId' = headId /\ queue' = queue
    BY <1>1 DEF Acquire, Test, ReadHead, ReadTail, Unspin, SetOwner, Link, Spin
  <2> QED  BY <2>1, <2>2, SameOwner
<1>2. ASSUME NEW t \in Threads, Deepen(t) \/ Unset(t) \/ RelRead(t) \/ RelTail(t)
      PROVE UNCHANGED <<Owner, queue>>
  <2>1. \A u \in Threads : Holds(u) => Holds(u)'
    <3>1. pc[t] \in Holding \union {"out"} /\ (pc[t] \in Holding => pc'[t] \in Holding)
      BY <1>2 DEF Consistent, IInv, TypeOK, Deepen, Unset, RelRead, RelTail, Holding
    <3>2. pc[t] \notin Waking \union {"spin"}  BY <3>1 DEF Waking, Holding
    <3>3. /\ \A u \in Threads : u # t => pc'[u] = pc[u] /\ head'[u] = head[u]
          /\ spinHere' = spinHere
      BY <1>2 DEF Consistent, IInv, TypeOK, Deepen, Unset, RelRead, RelTail
    <3> QED  BY <3>1, <3>2, <3>3, StillHolds DEF Consistent
  <2>2. headId' = headId /\ queue' = queue  BY <1>2 DEF Deepen, Unset, RelRead, RelTail
  <2> QED  BY <2>1, <2>2, SameOwner
<1>3. ASSUME NEW t \in Threads, Grab(t) \/ TryGrab(t)
      PROVE Abs!Grab(t) \/ UNCHANGED <<Owner, queue>>
  <2>1. CASE headId = 0
    <3>1. queue' = queue /\ pc'[t] \in Holding
      BY <1>3, <2>1 DEF Consistent, IInv, TypeOK, Grab, TryGrab, Holding
    <3> QED  BY <2>1, <3>1, GrabAbs
  <2>2. CASE headId # 0
    <3>1. \A u \in Threads : Holds(u) => Holds(u)'
      BY <1>3, <2>2, StillHolds
         DEF Consistent, IInv, TypeOK, Grab, TryGrab, Waking, Holding
    <3>2. headId' = headId /\ queue' = queue  BY <1>3, <2>2 DEF Grab, TryGrab
    <3> QED  BY <3>1, <3>2, SameOwner
  <2> QED  BY <2>1, <2>2
<1>4. ASSUME NEW t \in Threads, EnqueueFirst(t) \/ EnqueueLast(t)
      PROVE Abs!Enqueue(t) \/ UNCHANGED <<Owner, queue>>
  <2>1. \A u \in Threads : Holds(u) => Holds(u)'
    <3>1. pc[t] \notin Waking /\ pc[t] \notin Holding \union {"spin"}
      BY <1>4 DEF EnqueueFirst, EnqueueLast, Waking, Holding
    <3>2. /\ \A u \in Threads : u # t => pc'[u] = pc[u]
          /\ head' = head /\ spinHere' = spinHere
      BY <1>4 DEF Consistent, IInv, TypeOK, EnqueueFirst, EnqueueLast
    <3> QED  BY <3>1, <3>2, StillHolds DEF Consistent
  <2>2. CASE queue' = queue
    <3>1. headId' = headId \/ (headId = Held /\ headId' = t)
      BY <1>4 DEF EnqueueFirst, EnqueueLast
    <3>2. headId = 0 <=> headId' = 0  BY <3>1, ThreadsFacts DEF Held, Nobody
    <3> QED  BY <2>1, <2>2, <3>2, SameOwner
  <2>3. CASE queue' # queue
    <3>1. queue' = Append(queue, t) /\ pc[t] \in {"enqueueFirst", "enqueueLast"}
      BY <1>4, <2>3 DEF EnqueueFirst, EnqueueLast
    <3>2. headId # 0 /\ headId' # 0
      <4>1. CASE EnqueueFirst(t)
        BY <2>3, <4>1, ThreadsFacts DEF EnqueueFirst, Held, Nobody
      <4>2. CASE EnqueueLast(t)
        <5>1. tailId \in Threads /\ headId' = headId
          BY <2>3, <4>2 DEF Consistent, IInv, Places, EnqueueLast
        <5>2. queue # <<>> /\ 1 \in 1..Len(queue)
          BY <5>1, ThreadsFacts, EmptySeq DEF Consistent, IInv, TypeOK, Ends, Nobody
        <5>3. headId \in Threads  BY <5>2, QueueFacts DEF Consistent, IInv, Ends
        <5> QED  BY <5>1, <5>3, ThreadsFacts DEF Nobody
      <4> QED  BY <1>4, <4>1, <4>2
    <3> QED  BY <2>1, <3>1, <3>2, EnqueueAbs
  <2> QED  BY <2>2, <2>3
<1>5. ASSUME NEW t \in Threads, RelFree(t)
      PROVE Abs!Release(t) \/ UNCHANGED <<Owner, queue>>
  <2>1. CASE headId = Held
    <3>1. headId' = 0 /\ queue' = queue  BY <1>5, <2>1 DEF RelFree
    <3>2. Holds(t)  BY <1>5 DEF RelFree, Holds
    <3>3. queue = <<>>  BY <2>1, ThreadsFacts, EmptyQueue DEF Consistent
    <3> QED  BY <3>1, <3>2, <3>3 DEF Consistent, OwnerFacts, Abs!Release
  <2>2. CASE headId # Held
    <3>1. \A u \in Threads : Holds(u) => Holds(u)'
      BY <1>5, <2>2, StillHolds DEF Consistent, IInv, TypeOK, RelFree, Waking, Holding
    <3>2. headId' = headId /\ queue' = queue  BY <1>5, <2>2 DEF RelFree
    <3> QED  BY <3>1, <3>2, SameOwner
  <2> QED  BY <2>1, <2>2
<1>6. ASSUME NEW t \in Threads, RelLast(t) \/ RelNext(t)
      PROVE Abs!Release(t) \/ UNCHANGED <<Owner, queue>>
  <2>1. CASE pc' = [pc EXCEPT ![t] = "clear"]
    <3>1. pc[t] \in Releasing /\ head' = head  BY <1>6 DEF RelLast, RelNext, Releasing
    <3>2. queue' = Tail(queue)
      BY <1>6, <2>1 DEF Consistent, IInv, TypeOK, RelLast, RelNext
    <3>3. queue # <<>>
      BY <3>1, ThreadsFacts DEF Consistent, IInv, Places, Ends, Held, Nobody
    <3> QED  BY <2>1, <3>1, <3>2, <3>3, HandOverAbs
  <2>2. CASE pc' # [pc EXCEPT ![t] = "clear"]
    <3>1. RelLast(t) /\ headId' = headId /\ queue' = queue  BY <1>6, <2>2 DEF RelLast, RelNext
    <3>2. pc' = [pc EXCEPT ![t] = "relRead"]  BY <2>2, <3>1 DEF RelLast
    <3>3. \A u \in Threads : Holds(u) => Holds(u)'
      BY <3>1, <3>2, StillHolds DEF Consistent, IInv, TypeOK, RelLast, Waking, Holding
    <3> QED  BY <3>1, <3>3, SameOwner
  <2> QED  BY <2>1, <2>2
<1>7. ASSUME NEW t \in Threads, Clear(t) \/ Wake(t) PROVE UNCHANGED <<Owner, queue>>
  <2>1. headId' = headId /\ queue' = queue /\ head' = head /\ pc[t] \in Waking
    BY <1>7 DEF Clear, Wake, Waking
  <2>2. ASSUME NEW u \in Threads, Holds(u) PROVE Holds(u)'
    <3>1. u # t /\ pc'[u] = pc[u]
      BY <1>7, <2>2 DEF Consistent, IInv, TypeOK, Clear, Wake, Holds, Granted
    <3>2. CASE pc[u] \in Holding  BY <3>1, <3>2 DEF Holds, Holding
    <3>3. CASE pc[u] \notin Holding
      <4>1. pc[u] = "spin" /\ (~spinHere[u] \/ \E v \in Threads : Dequeuing(v, u))
        BY <2>2, <3>3 DEF Holds, Granted, Holding
      <4>2. \A v \in Threads : Dequeuing(v, u) => v = t
        BY <2>1 DEF Consistent, IInv, HandOver, Dequeuing, Waking
      <4>3. ~spinHere'[u] \/ Dequeuing(t, u)'
        BY <1>7, <4>1, <4>2 DEF Consistent, IInv, TypeOK, Clear, Wake, Dequeuing
      <4> QED  BY <3>1, <4>1, <4>3 DEF Holds, Granted
    <3> QED  BY <3>2, <3>3
  <2> QED  BY <2>1, <2>2, SameOwner
<1>8. CASE UNCHANGED vars
  <2>1. \A u \in Threads : Holds(u) => Holds(u)'
    BY <1>8 DEF vars, Holds, Granted, Dequeuing
  <2>2. headId' = headId /\ queue' = queue  BY <1>8 DEF vars
  <2> QED  BY <2>1, <2>2, SameOwner
<1> QED  BY <1>1, <1>2, <1>3, <1>4, <1>5, <1>6, <1>7, <1>8 DEF Next, Inside, Abs!Next

\* Every step of acquire, test and release is one of a lock with a queue, or none: one owner at
\* a time, and those that found it taken are served in the order in which they queued.
THEOREM FirstComeFirstServed == Spec => Abs!Safety
<1>1. Init => Abs!Init
  <2> SUFFICES ASSUME Init PROVE Abs!Init  OBVIOUS
  <2>1. IInv /\ headId = 0 /\ queue = <<>>  BY IInvInit DEF Init
  <2>2. Owner = Nobody  BY <2>1, OwnerIsHolder DEF IInv, OwnerFacts
  <2> QED  BY <2>1, <2>2 DEF Abs!Init
<1>2. IInv => Consistent  BY OwnerIsHolder DEF IInv, Consistent
<1> QED  BY <1>1, <1>2, Invariant, StepAbs, PTL DEF Spec, Abs!Safety, Abs!vars
=============================================================================
