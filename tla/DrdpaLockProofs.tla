-------------------------- MODULE DrdpaLockProofs --------------------------
(* Mutual exclusion, memory safety and first come, first served of the DRDPA lock *)
(* while its polling area only grows and no test reads outside it, for any number  *)
(* of threads and any sequence of reallocations.                                  *)
EXTENDS DrdpaLock, FiniteSetTheorems, SequenceTheorems, TLAPS

(* A test has no ticket, and reads the pointer before the mask; nothing but luck  *)
(* keeps its read inside an area that is still allocated.                         *)
TestsInBounds == \A t \in Threads : At(t, "testPoll") =>
    Valid(loc[t].polls, Slot(loc[t].ticket, loc[t].mask))

Putting == {"putMask", "putCleanup"}
Serving == {"check", "putPolls", "putMask", "putCleanup"}
HasTicket == {"mask", "polls", "poll", "serve", "check", "putPolls", "putMask", "putCleanup"}
Testing == {"testPolls", "testMask", "testPoll", "testTake"}
PC == {"out", "cs"} \union HasTicket \union Testing
Polls == UNION {[0..m -> Nat] : m \in Nat}
AreaType == [poll : Polls, freed : BOOLEAN]
Locals == [ticket : Nat, mask : Nat, polls : Nat, old : Nat]

Bounded(t) ==
    /\ loc[t].ticket <= MaxTicket
    /\ loc[t].polls <= Len(mem)
    /\ pc[t] \in {"testMask", "testPoll"} => loc[t].polls # Null
    /\ pc[t] \in Testing => loc[t].ticket < MaxTicket
Types ==
    /\ mem \in Seq(AreaType)
    /\ polls \in 1..Len(mem) /\ mask \in Nat /\ numPolls \in Nat \ {0}
    /\ oldPolls \in 0..Len(mem) /\ cleanup \in 0..nextTicket
    /\ nextTicket \in 0..MaxTicket /\ nowServing \in 0..MaxTicket
    /\ pc \in [Threads -> PC] /\ loc \in [Threads -> Locals]
    /\ \A t \in Threads : Bounded(t)

(* The tickets from g on are out, each with one thread, and g is served: whoever  *)
(* has got past the wait, or holds the lock, does so with ticket g.               *)
Tickets(g) ==
    /\ g <= nextTicket
    /\ \A t \in Threads : pc[t] \in HasTicket => g <= loc[t].ticket /\ loc[t].ticket < nextTicket
    /\ \A t, u \in Threads : pc[t] \in HasTicket /\ pc[u] \in HasTicket
                             /\ loc[t].ticket = loc[u].ticket => t = u
    /\ \A t \in Threads : pc[t] = "serve" \/ pc[t] \in Serving => loc[t].ticket = g
    /\ \A t \in Threads : pc[t] = "cs" \/ pc[t] \in Serving => nowServing = g /\ g < nextTicket
    /\ \A t, u \in Threads : pc[t] = "cs" /\ pc[u] \in HasTicket => loc[u].ticket # g
    /\ \A t, u \in Threads : pc[t] = "cs" /\ pc[u] = "cs" => t = u
    /\ \A t \in Threads : pc[t] = "testTake" => loc[t].ticket <= g

(* Every ticket that is out is a waiter's or the holder's.                        *)
Accounted(g) ==
    \A k \in Nat : g <= k /\ k < nextTicket =>
        \/ \E t \in Threads : pc[t] \in HasTicket /\ loc[t].ticket = k
        \/ k = g /\ \E t \in Threads : pc[t] = "cs"

(* No word of any area lets a later ticket than g pass, and one of the current     *)
(* area, or of the one about to replace it, lets g.                               *)
Words(g) ==
    /\ \A a \in 1..Len(mem) : \A i \in DOMAIN mem[a].poll : mem[a].poll[i] <= g
    /\ \E i \in DOMAIN mem[polls].poll : mem[polls].poll[i] = g
    /\ \A t \in Threads : pc[t] = "putPolls" =>
          \E i \in DOMAIN mem[loc[t].polls].poll : mem[loc[t].polls].poll[i] = g

(* The area, its mask and its size agree, except between the stores of a holder    *)
(* that replaces them; then the mask is still that of the smaller area.           *)
Layout ==
    /\ ~mem[polls].freed
    /\ oldPolls # Null => ~mem[oldPolls].freed /\ oldPolls # polls
    /\ (\A t \in Threads : pc[t] # "putMask") =>
          DOMAIN mem[polls].poll = 0..mask /\ numPolls = mask + 1
    /\ \A t \in Threads : pc[t] = "putPolls" =>
          /\ oldPolls = Null /\ loc[t].old = polls
          /\ loc[t].polls \in 1..Len(mem) /\ loc[t].polls # polls /\ ~mem[loc[t].polls].freed
          /\ DOMAIN mem[loc[t].polls].poll = 0..loc[t].mask /\ mask <= loc[t].mask
    /\ \A t \in Threads : pc[t] = "putMask" =>
          /\ oldPolls # Null /\ loc[t].polls = polls
          /\ DOMAIN mem[polls].poll = 0..loc[t].mask /\ mask <= loc[t].mask
    /\ \A t \in Threads : pc[t] = "putCleanup" => oldPolls # Null

(* What a thread has read is the lock's present mask and area, or it is one of     *)
(* those for which the old area is kept.                                          *)
Stale(t) == oldPolls # Null /\ ((\E u \in Threads : pc[u] \in Putting) \/ loc[t].ticket < cleanup)
Readers ==
    /\ \A t \in Threads : pc[t] \in {"polls", "poll", "serve", "check"} =>
          loc[t].mask <= mask /\ (loc[t].mask = mask \/ Stale(t))
    /\ \A t \in Threads : pc[t] \in {"poll", "serve", "check"} =>
          /\ loc[t].polls = polls \/ (loc[t].polls = oldPolls /\ Stale(t))
          /\ \A i \in 0..loc[t].mask : i \in DOMAIN mem[loc[t].polls].poll

Granting(g) == Tickets(g) /\ Accounted(g) /\ Words(g)
IInv == Types /\ Layout /\ Readers /\ \E g \in Nat : Granting(g)

----------------------------------------------------------------------------
LEMMA SlotInMask == \A ticket, msk \in Nat : Slot(ticket, msk) \in 0..msk
<1>1. \A a \in Nat, b \in Nat \ {0} : a % b \in 0..(b - 1)
  OBVIOUS
<1>2. \A msk \in Nat : msk + 1 \in Nat \ {0} /\ (msk + 1) - 1 = msk
  OBVIOUS
<1>3. QED
  BY <1>1, <1>2 DEF Slot

\* Every area is a record of words, numbered from zero, and a mark.
LEMMA AreaFacts ==
    ASSUME Types, NEW a \in 1..Len(mem)
    PROVE  /\ mem[a] \in AreaType /\ mem[a].poll \in Polls /\ mem[a].freed \in BOOLEAN
           /\ \A i \in DOMAIN mem[a].poll : i \in Nat /\ mem[a].poll[i] \in Nat
<1>1. mem[a] \in AreaType
  BY DEF Types
<1>2. mem[a].poll \in Polls /\ mem[a].freed \in BOOLEAN
  BY <1>1 DEF AreaType
<1>3. PICK m \in Nat : mem[a].poll \in [0..m -> Nat]
  BY <1>2 DEF Polls
<1>4. QED
  BY <1>1, <1>2, <1>3

\* There is at most one holder.
LEMMA OneHolder ==
    ASSUME NEW g \in Nat, Tickets(g), NEW t \in Holders, NEW u \in Holders
    PROVE  t = u
BY DEF Holders, Tickets, HasTicket, Serving

\* A step that moves one thread and touches nothing shared.  The thread keeps its
\* ticket or has none, and what it carries to a wait or past it is fresh or stale.
LEMMA LocalStep ==
    ASSUME IInv, NEW g \in Nat, Granting(g), NEW t \in Threads, NEW w \in PC, NEW r \in Locals,
           pc' = [pc EXCEPT ![t] = w], loc' = [loc EXCEPT ![t] = r],
           UNCHANGED <<shape, ticks, mem>>,
           pc[t] \notin Serving \/ (pc[t] = "check" /\ w = "cs"), w \notin Serving,
           pc[t] # "cs",
           \/ pc[t] \in HasTicket /\ w \in HasTicket /\ r.ticket = loc[t].ticket
           \/ pc[t] = "check" /\ w = "cs"
           \/ pc[t] \notin HasTicket /\ w \notin HasTicket /\ w # "cs",
           w = "serve" => r.ticket = g,
           w = "testTake" => r.ticket <= g,
           r.ticket <= MaxTicket, r.polls <= Len(mem),
           w \in {"testMask", "testPoll"} => r.polls # Null,
           w \in Testing => r.ticket < MaxTicket,
           w \in {"polls", "poll", "serve"} => r.mask <= mask /\ (r.mask = mask \/ Stale(t)),
           w \in {"poll", "serve"} =>
               /\ r.polls = polls \/ (r.polls = oldPolls /\ Stale(t))
               /\ \A i \in 0..r.mask : i \in DOMAIN mem[r.polls].poll
    PROVE  IInv'
<1>0. UNCHANGED <<polls, mask, numPolls, oldPolls, cleanup, nextTicket, nowServing, mem>>
  BY DEF shape, ticks
<1>t. Types /\ Layout /\ Readers /\ Tickets(g) /\ Accounted(g) /\ Words(g)
  BY DEF IInv, Granting
<1>1. /\ pc'[t] = w /\ loc'[t] = r
      /\ \A u \in Threads : u # t => pc'[u] = pc[u] /\ loc'[u] = loc[u]
      /\ pc' \in [Threads -> PC] /\ loc' \in [Threads -> Locals]
  BY <1>t DEF Types
<1>2. Types'
  <2>1. \A u \in Threads : u # t => Bounded(u)'
    BY <1>0, <1>1, <1>t DEF Types, Bounded
  <2>2. Bounded(t)'
    BY <1>0, <1>1 DEF Bounded
  <2>3. QED
    BY <1>0, <1>1, <1>t, <2>1, <2>2 DEF Types
<1>3. Layout'
  <2>1. w \notin {"putPolls", "putMask", "putCleanup"} /\ pc[t] \notin {"putPolls", "putMask", "putCleanup"}
    BY DEF Serving
  <2>2. \A u \in Threads : pc'[u] \in {"putPolls", "putMask", "putCleanup"} =>
           pc[u] = pc'[u] /\ loc'[u] = loc[u]
    BY <1>1, <2>1
  <2>3. (\A u \in Threads : pc'[u] # "putMask") => (\A u \in Threads : pc[u] # "putMask")
    BY <1>1, <2>1
  <2>4. QED
    BY <1>0, <1>t, <2>2, <2>3 DEF Layout
<1>4. Readers'
  <2>1. \A u \in Threads : pc[u] \in Putting => pc'[u] \in Putting
    BY <1>1 DEF Putting, Serving
  <2>2. \A u \in Threads : Stale(u) /\ loc'[u].ticket = loc[u].ticket => Stale(u)'
    BY <1>0, <2>1 DEF Stale
  <2>3. w \in {"polls", "poll", "serve"} => loc'[t].ticket = loc[t].ticket
    BY <1>1 DEF HasTicket
  <2>4. w # "check"
    BY DEF Serving
  <2>5. QED
    BY <1>0, <1>1, <1>t, <2>2, <2>3, <2>4 DEF Readers
<1>5. Tickets(g)'
  BY <1>0, <1>1, <1>t DEF Tickets, Serving, HasTicket
<1>6. Accounted(g)'
  <2> SUFFICES ASSUME NEW k \in Nat, g <= k, k < nextTicket
               PROVE  \/ \E u \in Threads : pc'[u] \in HasTicket /\ loc'[u].ticket = k
                      \/ k = g /\ \E u \in Threads : pc'[u] = "cs"
    BY <1>0 DEF Accounted
  <2>1. CASE \E u \in Threads : pc[u] \in HasTicket /\ loc[u].ticket = k
    <3>1. PICK u \in Threads : pc[u] \in HasTicket /\ loc[u].ticket = k
      BY <2>1
    <3>2. CASE u # t
      BY <1>1, <3>1, <3>2
    <3>3. CASE u = t /\ w \in HasTicket
      BY <1>1, <3>1, <3>3 DEF HasTicket
    <3>4. CASE u = t /\ pc[t] = "check" /\ w = "cs"
      <4>1. k = g
        BY <1>t, <3>1, <3>4 DEF Tickets, Serving
      <4>2. QED
        BY <1>1, <3>4, <4>1
    <3>5. QED
      BY <3>1, <3>2, <3>3, <3>4
  <2>2. CASE k = g /\ \E u \in Threads : pc[u] = "cs"
    BY <1>1, <2>2
  <2>3. QED
    BY <1>t, <2>1, <2>2 DEF Accounted
<1>7. Words(g)'
  <2>1. \A u \in Threads : pc'[u] = "putPolls" => pc[u] = "putPolls" /\ loc'[u] = loc[u]
    BY <1>1 DEF Serving
  <2>2. QED
    BY <1>0, <1>t, <2>1 DEF Words
<1>8. QED
  BY <1>2, <1>3, <1>4, <1>5, <1>6, <1>7 DEF IInv, Granting

----------------------------------------------------------------------------
(* The steps of one thread that touch nothing shared.  *)
LEMMA LocFacts ==
    ASSUME Types, NEW t \in Threads
    PROVE  /\ pc[t] \in PC /\ loc[t] \in Locals
           /\ loc[t].ticket \in Nat /\ loc[t].mask \in Nat /\ loc[t].polls \in Nat
           /\ loc[t].ticket <= MaxTicket /\ loc[t].polls <= Len(mem)
           /\ pc[t] \in {"testMask", "testPoll"} => loc[t].polls # Null
           /\ pc[t] \in Testing => loc[t].ticket < MaxTicket
           /\ mask \in Nat /\ nextTicket \in Nat /\ nextTicket <= MaxTicket
           /\ polls \in Nat /\ polls # Null /\ polls <= Len(mem)
           /\ MaxTicket \in Nat /\ Len(mem) \in Nat
<1>1. pc[t] \in PC /\ loc[t] \in Locals
  BY DEF Types
<1>2. loc[t].ticket \in Nat /\ loc[t].mask \in Nat /\ loc[t].polls \in Nat
  BY <1>1 DEF Locals
<1>3. MaxTicket \in Nat /\ Len(mem) \in Nat
  BY TicketAssumption DEF Types, TicketAssumption
<1>4. /\ mask \in Nat /\ nextTicket \in Nat /\ nextTicket <= MaxTicket
      /\ polls \in Nat /\ polls # Null /\ polls <= Len(mem)
  BY <1>3 DEF Types, Null
<1>5. /\ loc[t].ticket <= MaxTicket /\ loc[t].polls <= Len(mem)
      /\ pc[t] \in {"testMask", "testPoll"} => loc[t].polls # Null
      /\ pc[t] \in Testing => loc[t].ticket < MaxTicket
  BY DEF Types, Bounded
<1>6. QED
  BY <1>1, <1>2, <1>3, <1>4, <1>5

LEMMA BlankFacts ==
    ASSUME Types PROVE Blank \in Locals /\ Blank.ticket <= MaxTicket /\ Blank.polls <= Len(mem)
<1>1. MaxTicket \in Nat /\ Len(mem) \in Nat
  BY TicketAssumption DEF Types, TicketAssumption
<1>2. Blank = [ticket |-> 0, mask |-> 0, polls |-> 0, old |-> 0]
  BY DEF Blank, Null
<1>3. QED
  BY <1>1, <1>2 DEF Locals

LEMMA ReadMaskStep ==
    ASSUME IInv, NEW t \in Threads, ReadMask(t) PROVE IInv'
<1>t. Types /\ Readers
  BY DEF IInv
<1>1. PICK g \in Nat : Granting(g)
  BY DEF IInv
<1>2. PICK r : r = [loc[t] EXCEPT !.mask = mask]
  OBVIOUS
<1>3. r \in Locals /\ r.ticket = loc[t].ticket /\ r.polls = loc[t].polls /\ r.mask = mask
  BY <1>2, <1>t, LocFacts DEF Locals
<1>4. /\ pc[t] = "mask" /\ pc' = [pc EXCEPT ![t] = "polls"] /\ loc' = [loc EXCEPT ![t] = r]
      /\ UNCHANGED <<shape, ticks, mem>>
  BY <1>2, <1>t DEF ReadMask, At, Goto, Types
<1>5. r.ticket <= MaxTicket /\ r.polls <= Len(mem) /\ r.mask <= mask
  BY <1>3, <1>t, LocFacts
<1>6. /\ "polls" \in PC /\ "polls" \notin Serving /\ "polls" \in HasTicket
      /\ pc[t] \notin Serving /\ pc[t] # "cs" /\ pc[t] \in HasTicket /\ "polls" \notin Testing
  BY <1>4 DEF PC, HasTicket, Serving, Testing
<1>7. QED
  BY <1>1, <1>3, <1>4, <1>5, <1>6, LocalStep

LEMMA ReadPollsStep ==
    ASSUME IInv, NEW t \in Threads, ReadPolls(t) PROVE IInv'
<1>t. Types /\ Readers /\ Layout
  BY DEF IInv
<1>1. PICK g \in Nat : Granting(g)
  BY DEF IInv
<1>2. PICK r : r = [loc[t] EXCEPT !.polls = polls]
  OBVIOUS
<1>3. r \in Locals /\ r.ticket = loc[t].ticket /\ r.polls = polls /\ r.mask = loc[t].mask
  BY <1>2, <1>t, LocFacts DEF Locals
<1>4. /\ pc[t] = "polls" /\ pc' = [pc EXCEPT ![t] = "poll"] /\ loc' = [loc EXCEPT ![t] = r]
      /\ UNCHANGED <<shape, ticks, mem>>
  BY <1>2, <1>t DEF ReadPolls, At, Goto, Types
<1>5. r.mask <= mask /\ (r.mask = mask \/ Stale(t))
  BY <1>3, <1>4, <1>t DEF Readers
<1>6. \A i \in 0..r.mask : i \in DOMAIN mem[polls].poll
  <2>1. r.mask \in Nat /\ mask \in Nat
    BY <1>3, <1>t, LocFacts
  <2>2. CASE \A u \in Threads : pc[u] # "putMask"
    BY <1>5, <1>t, <2>1, <2>2 DEF Layout
  <2>3. CASE \E u \in Threads : pc[u] = "putMask"
    <3>1. PICK u \in Threads : pc[u] = "putMask"
      BY <2>3
    <3>2. DOMAIN mem[polls].poll = 0..loc[u].mask /\ mask <= loc[u].mask /\ loc[u].mask \in Nat
      BY <1>t, <3>1, LocFacts DEF Layout
    <3>3. QED
      BY <1>5, <2>1, <3>2
  <2>4. QED
    BY <2>2, <2>3
<1>7. r.polls <= Len(mem)
  BY <1>3, <1>t, LocFacts
<1>8. /\ "poll" \in PC /\ pc[t] \notin Serving /\ "poll" \notin Serving
      /\ pc[t] \in HasTicket /\ "poll" \in HasTicket /\ "poll" \notin Testing
  BY <1>4 DEF PC, HasTicket, Serving, Testing
<1>9. r \in Locals /\ r.ticket = loc[t].ticket /\ r.polls = polls /\ r.ticket <= MaxTicket
  BY <1>3, <1>t, LocFacts
<1>10. pc[t] # "cs" /\ "poll" \notin {"serve", "testTake", "testMask", "testPoll"}
  BY <1>4
<1>11. \A i \in 0..r.mask : i \in DOMAIN mem[r.polls].poll
  BY <1>6, <1>9
<1>12. QED
  BY <1>1, <1>4, <1>5, <1>7, <1>8, <1>9, <1>10, <1>11, LocalStep

\* A thread polls inside its area, which has not been freed.
LEMMA PollValid ==
    ASSUME IInv, NEW t \in Threads, pc[t] = "poll"
    PROVE  Valid(loc[t].polls, Slot(loc[t].ticket, loc[t].mask))
<1>1. Types /\ Readers /\ Layout
  BY DEF IInv
<1>2. loc[t].ticket \in Nat /\ loc[t].mask \in Nat
  BY <1>1, LocFacts
<1>3. Slot(loc[t].ticket, loc[t].mask) \in 0..loc[t].mask
  BY <1>2, SlotInMask
<1>4. Slot(loc[t].ticket, loc[t].mask) \in DOMAIN mem[loc[t].polls].poll
  BY <1>1, <1>3 DEF Readers
<1>5. ~mem[loc[t].polls].freed
  <2>1. loc[t].polls = polls \/ (loc[t].polls = oldPolls /\ oldPolls # Null)
    BY <1>1 DEF Readers, Stale
  <2>2. QED
    BY <1>1, <2>1 DEF Layout
<1>6. QED
  BY <1>4, <1>5 DEF Valid

LEMMA PollStep ==
    ASSUME IInv, NEW t \in Threads, Poll(t) PROVE IInv'
<1>t. Types /\ Readers /\ Layout
  BY DEF IInv
<1>1. PICK g \in Nat : Granting(g)
  BY DEF IInv
<1>2. PICK r : r = loc[t]
  OBVIOUS
<1>3. r \in Locals /\ loc' = [loc EXCEPT ![t] = r] /\ UNCHANGED <<shape, ticks, mem>> /\ pc[t] = "poll"
  BY <1>2, <1>t DEF Poll, At, Types
<1>4. PICK a, i : a = loc[t].polls /\ i = Slot(loc[t].ticket, loc[t].mask)
  OBVIOUS
<1>5. PICK v \in Seen(a, i) : Goto(t, IF v < loc[t].ticket THEN "mask" ELSE "serve")
  BY <1>4 DEF Poll
<1>6. v \in Nat /\ v <= g
  <2>1. Valid(a, i)
    BY <1>3, <1>4, PollValid
  <2>2. v = mem[a].poll[i] /\ i \in DOMAIN mem[a].poll
    BY <1>5, <2>1 DEF Seen, Valid
  <2>3. a \in 1..Len(mem)
    <3>1. a = polls \/ (a = oldPolls /\ oldPolls # Null)
      BY <1>3, <1>4, <1>t DEF Readers, Stale
    <3>2. QED
      BY <1>t, <3>1 DEF Types, Null
  <2>4. QED
    BY <1>1, <1>t, <2>2, <2>3, AreaFacts DEF Granting, Words
<1>7. PICK w \in {"mask", "serve"} : pc' = [pc EXCEPT ![t] = w] /\ (w = "serve" => ~(v < loc[t].ticket))
  BY <1>5 DEF Goto
<1>8. w = "serve" => r.ticket = g
  <2>1. g <= loc[t].ticket /\ loc[t].ticket \in Nat
    BY <1>1, <1>3, <1>t, LocFacts DEF Granting, Tickets, HasTicket
  <2>2. QED
    BY <1>2, <1>6, <1>7, <2>1
<1>9. /\ r.mask <= mask /\ (r.mask = mask \/ Stale(t))
      /\ r.polls = polls \/ (r.polls = oldPolls /\ Stale(t))
      /\ \A j \in 0..r.mask : j \in DOMAIN mem[r.polls].poll
  BY <1>2, <1>3, <1>t DEF Readers
<1>10. r.polls <= Len(mem) /\ r.ticket <= MaxTicket
  BY <1>2, <1>t, LocFacts
<1>11. /\ w \in PC /\ w \in HasTicket /\ w \notin Serving /\ w # "testTake" /\ w \notin Testing
       /\ w \notin {"testMask", "testPoll"}
       /\ pc[t] \in HasTicket /\ pc[t] \notin Serving /\ pc[t] # "cs"
  BY <1>3, <1>7 DEF PC, HasTicket, Serving, Testing
<1>12. QED
  BY <1>1, <1>2, <1>3, <1>7, <1>8, <1>9, <1>10, <1>11, LocalStep

LEMMA KeepStep ==
    ASSUME IInv, NEW t \in Threads, Keep(t) PROVE IInv'
<1>t. Types
  BY DEF IInv
<1>1. PICK g \in Nat : Granting(g)
  BY DEF IInv
<1>2. /\ pc[t] = "check" /\ pc' = [pc EXCEPT ![t] = "cs"] /\ loc' = [loc EXCEPT ![t] = Blank]
      /\ UNCHANGED <<shape, ticks, mem>>
  BY DEF Keep, At, Return, Goto
<1>3. QED
  BY <1>1, <1>2, <1>t, BlankFacts, LocalStep DEF PC, HasTicket, Serving, Testing

LEMMA TestStep ==
    ASSUME IInv, NEW t \in Threads, Test(t) \/ TestPolls(t) \/ TestMask(t) PROVE IInv'
<1>t. Types
  BY DEF IInv
<1>1. PICK g \in Nat : Granting(g)
  BY DEF IInv
<1>2. CASE Test(t)
  <2>1. PICK r : r = [loc[t] EXCEPT !.ticket = nextTicket]
    OBVIOUS
  <2>2. r \in Locals /\ r.ticket = nextTicket /\ r.polls = loc[t].polls
    BY <2>1, <1>t, LocFacts DEF Locals
  <2>3. /\ pc[t] = "out" /\ pc' = [pc EXCEPT ![t] = "testPolls"] /\ loc' = [loc EXCEPT ![t] = r]
        /\ UNCHANGED <<shape, ticks, mem>>
    BY <1>2, <2>1, <1>t DEF Test, At, Goto, Types
  <2>4. r.ticket < MaxTicket /\ r.ticket <= MaxTicket /\ r.polls <= Len(mem)
    BY <1>2, <2>2, <1>t, LocFacts DEF Test
  <2>5. QED
    BY <1>1, <2>2, <2>3, <2>4, LocalStep DEF PC, HasTicket, Serving, Testing
<1>3. CASE TestPolls(t)
  <2>1. PICK r : r = [loc[t] EXCEPT !.polls = polls]
    OBVIOUS
  <2>2. r \in Locals /\ r.ticket = loc[t].ticket /\ r.polls = polls
    BY <2>1, <1>t, LocFacts DEF Locals
  <2>3. /\ pc[t] = "testPolls" /\ pc' = [pc EXCEPT ![t] = "testMask"] /\ loc' = [loc EXCEPT ![t] = r]
        /\ UNCHANGED <<shape, ticks, mem>>
    BY <1>3, <2>1, <1>t DEF TestPolls, At, Goto, Types
  <2>4. r.ticket < MaxTicket /\ r.ticket <= MaxTicket /\ r.polls <= Len(mem) /\ r.polls # Null
    BY <2>2, <2>3, <1>t, LocFacts DEF Testing
  <2>5. QED
    BY <1>1, <2>2, <2>3, <2>4, LocalStep DEF PC, HasTicket, Serving, Testing
<1>4. CASE TestMask(t)
  <2>1. PICK r : r = [loc[t] EXCEPT !.mask = mask]
    OBVIOUS
  <2>2. r \in Locals /\ r.ticket = loc[t].ticket /\ r.polls = loc[t].polls
    BY <2>1, <1>t, LocFacts DEF Locals
  <2>3. /\ pc[t] = "testMask" /\ pc' = [pc EXCEPT ![t] = "testPoll"] /\ loc' = [loc EXCEPT ![t] = r]
        /\ UNCHANGED <<shape, ticks, mem>>
    BY <1>4, <2>1, <1>t DEF TestMask, At, Goto, Types
  <2>4. r.ticket < MaxTicket /\ r.ticket <= MaxTicket /\ r.polls <= Len(mem) /\ r.polls # Null
    BY <2>2, <2>3, <1>t, LocFacts DEF Testing
  <2>5. QED
    BY <1>1, <2>2, <2>3, <2>4, LocalStep DEF PC, HasTicket, Serving, Testing
<1>5. QED
  BY <1>2, <1>3, <1>4

\* A test that reads inside its area sees at most the ticket being served.
LEMMA TestPollStep ==
    ASSUME IInv, TestsInBounds, NEW t \in Threads, TestPoll(t) PROVE IInv'
<1>t. Types
  BY DEF IInv
<1>1. PICK g \in Nat : Granting(g)
  BY DEF IInv
<1>2. pc[t] = "testPoll" /\ UNCHANGED <<shape, ticks, mem>>
  BY DEF TestPoll, At
<1>3. PICK a, i : a = loc[t].polls /\ i = Slot(loc[t].ticket, loc[t].mask)
  OBVIOUS
<1>4. PICK v \in Seen(a, i) :
         IF v = loc[t].ticket THEN Goto(t, "testTake") /\ UNCHANGED loc ELSE Return(t, "out")
  BY <1>3 DEF TestPoll
<1>5. CASE v # loc[t].ticket
  <2>1. pc' = [pc EXCEPT ![t] = "out"] /\ loc' = [loc EXCEPT ![t] = Blank]
    BY <1>4, <1>5 DEF Return, Goto
  <2>2. QED
    BY <1>1, <1>2, <1>t, <2>1, BlankFacts, LocalStep DEF PC, HasTicket, Serving, Testing
<1>6. CASE v = loc[t].ticket
  <2>1. Valid(a, i)
    BY <1>2, <1>3 DEF TestsInBounds, At
  <2>2. v = mem[a].poll[i] /\ i \in DOMAIN mem[a].poll
    BY <1>4, <2>1 DEF Seen, Valid
  <2>3. PICK r : r = loc[t]
    OBVIOUS
  <2>4. r \in Locals /\ pc' = [pc EXCEPT ![t] = "testTake"] /\ loc' = [loc EXCEPT ![t] = r]
    BY <1>4, <1>6, <2>3, <1>t DEF Goto, Types
  <2>5. r.ticket < MaxTicket /\ r.ticket <= MaxTicket /\ r.polls <= Len(mem)
    BY <1>2, <2>3, <1>t, LocFacts DEF Testing
  <2>6. a \in 1..Len(mem)
    BY <1>2, <1>3, <1>t, LocFacts DEF Null
  <2>7. r.ticket <= g
    BY <1>1, <1>6, <2>2, <2>3, <2>6 DEF Granting, Words
  <2>8. QED
    BY <1>1, <1>2, <2>4, <2>5, <2>7, LocalStep DEF PC, HasTicket, Serving, Testing
<1>7. QED
  BY <1>5, <1>6

----------------------------------------------------------------------------
(* The steps that change the lock, part by part of the invariant.  *)
\* The areas of a step keep their words' numbers and their marks.
SameAreas ==
    /\ Len(mem') \in Nat /\ Len(mem) <= Len(mem')
    /\ \A a \in 1..Len(mem) : DOMAIN mem'[a].poll = DOMAIN mem[a].poll
                              /\ mem'[a].freed = mem[a].freed

LEMMA LayoutKept ==
    ASSUME Types, Layout, UNCHANGED <<polls, mask, numPolls, oldPolls>>, SameAreas,
           \A u \in Threads : pc'[u] \in {"putPolls", "putMask", "putCleanup"} =>
               pc[u] = pc'[u] /\ loc'[u] = loc[u],
           \A u \in Threads : pc[u] = "putMask" => pc'[u] = "putMask"
    PROVE  Layout'
<1>1. polls \in 1..Len(mem) /\ (oldPolls # Null => oldPolls \in 1..Len(mem)) /\ Len(mem) \in Nat
  BY DEF Types, Null
<1>2. \A a \in 1..Len(mem) : a \in 1..Len(mem')
  BY <1>1 DEF SameAreas
<1>3. QED
  BY <1>1, <1>2 DEF Layout, SameAreas

LEMMA ReadersKept ==
    ASSUME Types, Readers, UNCHANGED <<polls, mask, oldPolls, cleanup>>, SameAreas,
           \A u \in Threads : pc[u] \in Putting => \E x \in Threads : pc'[x] \in Putting,
           \A u \in Threads : pc'[u] \in {"polls", "poll", "serve", "check"} =>
               /\ pc'[u] \in {"poll", "serve", "check"} => pc[u] \in {"poll", "serve", "check"}
               /\ pc'[u] = "polls" => pc[u] = "polls"
               /\ loc'[u] = loc[u]
    PROVE  Readers'
<1>1. polls \in 1..Len(mem) /\ (oldPolls # Null => oldPolls \in 1..Len(mem))
  BY DEF Types, Null
<1>2. \A u \in Threads : Stale(u) /\ loc'[u] = loc[u] => Stale(u)'
  BY DEF Stale
<1>3. \A u \in Threads : pc[u] \in {"poll", "serve", "check"} => loc[u].polls \in 1..Len(mem)
  BY <1>1 DEF Readers, Stale
<1>4. ASSUME NEW u \in Threads, pc'[u] \in {"polls", "poll", "serve", "check"}
      PROVE  (loc[u].mask <= mask /\ (loc[u].mask = mask \/ Stale(u)))'
  <2>1. pc[u] \in {"polls", "poll", "serve", "check"} /\ loc'[u] = loc[u]
    BY <1>4
  <2>2. QED
    BY <1>2, <2>1 DEF Readers
<1>5. ASSUME NEW u \in Threads, pc'[u] \in {"poll", "serve", "check"}
      PROVE  (/\ loc[u].polls = polls \/ (loc[u].polls = oldPolls /\ Stale(u))
              /\ \A i \in 0..loc[u].mask : i \in DOMAIN mem[loc[u].polls].poll)'
  <2>1. pc[u] \in {"poll", "serve", "check"} /\ loc'[u] = loc[u]
    BY <1>5
  <2>2. loc[u].polls = polls \/ (loc[u].polls = oldPolls /\ Stale(u))'
    BY <1>2, <2>1 DEF Readers
  <2>3. DOMAIN mem'[loc[u].polls].poll = DOMAIN mem[loc[u].polls].poll
    BY <1>3, <2>1 DEF SameAreas
  <2>4. QED
    BY <2>1, <2>2, <2>3 DEF Readers
<1>6. QED
  BY <1>4, <1>5 DEF Readers

LEMMA AccountedKept ==
    ASSUME NEW g \in Nat, Accounted(g), UNCHANGED nextTicket,
           \A u \in Threads : pc[u] \in HasTicket =>
               \/ pc'[u] \in HasTicket /\ loc'[u].ticket = loc[u].ticket
               \/ loc[u].ticket = g /\ pc'[u] = "cs",
           \A u \in Threads : pc[u] = "cs" => pc'[u] = "cs"
    PROVE  Accounted(g)'
BY DEF Accounted

LEMMA WordsKept ==
    ASSUME NEW g \in Nat, Words(g), UNCHANGED <<polls, mem>>,
           \A u \in Threads : pc'[u] = "putPolls" => pc[u] = "putPolls" /\ loc'[u] = loc[u]
    PROVE  Words(g)'
BY DEF Words

\* A holder that stays one, on the same ticket, while everybody else stands still.
LEMMA HolderTickets ==
    ASSUME Types, NEW g \in Nat, Tickets(g), NEW t \in Threads, NEW w \in HasTicket \ {"serve"},
           pc[t] = "serve" \/ pc[t] \in Serving, w \in Serving,
           pc' = [pc EXCEPT ![t] = w], loc'[t].ticket = loc[t].ticket,
           \A u \in Threads : u # t => loc'[u] = loc[u],
           UNCHANGED nextTicket, nowServing' = g
    PROVE  Tickets(g)'
<1>1. pc'[t] = w /\ \A u \in Threads : u # t => pc'[u] = pc[u]
  BY DEF Types
<1>2. pc[t] \in HasTicket /\ loc[t].ticket = g /\ g < nextTicket
  BY DEF Tickets, HasTicket, Serving
<1>3. w \in HasTicket /\ w # "cs" /\ w # "testTake"
  BY DEF Serving
<1>4. \A u \in Threads : u # t => pc[u] # "cs"
  BY <1>2 DEF Tickets
<1>5. /\ \A u \in Threads : pc'[u] \in HasTicket <=> pc[u] \in HasTicket
      /\ \A u \in Threads : loc'[u].ticket = loc[u].ticket
      /\ \A u \in Threads : pc'[u] # "cs"
      /\ \A u \in Threads : pc'[u] = "testTake" => pc[u] = "testTake"
  BY <1>1, <1>2, <1>3, <1>4
<1>6. \A u \in Threads : pc'[u] = "serve" \/ pc'[u] \in Serving => loc'[u].ticket = g
  BY <1>1, <1>2, <1>5 DEF Tickets
<1>7. QED
  BY <1>2, <1>5, <1>6 DEF Tickets

\* A holder is alone.
LEMMA Alone ==
    ASSUME NEW g \in Nat, Tickets(g), NEW t \in Threads,
           pc[t] = "serve" \/ pc[t] = "cs" \/ pc[t] \in Serving,
           NEW u \in Threads, u # t
    PROVE  pc[u] # "serve" /\ pc[u] # "cs" /\ pc[u] \notin Serving
BY DEF Tickets, HasTicket, Serving

LEMMA TakeStep ==
    ASSUME IInv, NEW t \in Threads, Take(t) PROVE IInv'
<1>t. Types /\ Layout /\ Readers
  BY DEF IInv
<1>1. PICK g \in Nat : Tickets(g) /\ Accounted(g) /\ Words(g)
  BY DEF IInv, Granting
<1>2. /\ pc[t] = "out" /\ nextTicket < MaxTicket /\ nextTicket' = nextTicket + 1
      /\ pc' = [pc EXCEPT ![t] = "mask"]
      /\ loc' = [loc EXCEPT ![t].ticket = nextTicket]
      /\ UNCHANGED <<polls, mask, numPolls, oldPolls, cleanup, nowServing, mem>>
  BY DEF Take, At, Goto, shape
<1>3. /\ nextTicket \in Nat /\ MaxTicket \in Nat /\ cleanup \in 0..nextTicket /\ loc[t] \in Locals
      /\ loc[t].polls <= Len(mem)
  BY <1>t, LocFacts DEF Types
<1>5. pc' \in [Threads -> PC] /\ loc' \in [Threads -> Locals]
      /\ loc'[t] = [loc[t] EXCEPT !.ticket = nextTicket]
  <2>1. pc \in [Threads -> PC] /\ loc \in [Threads -> Locals] /\ "mask" \in PC
    BY <1>t DEF Types, PC, HasTicket
  <2>2. [loc[t] EXCEPT !.ticket = nextTicket] \in Locals
    BY <1>3 DEF Locals
  <2>3. loc' = [loc EXCEPT ![t] = [loc[t] EXCEPT !.ticket = nextTicket]]
    BY <1>2
  <2>4. QED
    BY <1>2, <2>1, <2>2, <2>3
<1>4. /\ pc'[t] = "mask" /\ loc'[t].ticket = nextTicket /\ loc'[t] \in Locals
      /\ loc'[t].polls = loc[t].polls /\ loc'[t].ticket <= MaxTicket
      /\ \A u \in Threads : u # t => pc'[u] = pc[u] /\ loc'[u] = loc[u]
  <2>1. \A u \in Threads : u # t => pc'[u] = pc[u] /\ loc'[u] = loc[u]
    BY <1>2, <1>t DEF Types
  <2>2. loc'[t].ticket = nextTicket /\ loc'[t].polls = loc[t].polls
    BY <1>3, <1>5 DEF Locals
  <2>3. pc'[t] = "mask"
    BY <1>2, <1>t DEF Types
  <2>4. QED
    BY <1>2, <1>3, <1>5, <2>1, <2>2, <2>3
<1>6. Types'
  <2>1. nextTicket' \in 0..MaxTicket /\ cleanup' \in 0..nextTicket'
    BY <1>2, <1>3
  <2>2. \A u \in Threads : u # t => Bounded(u)'
    BY <1>2, <1>4, <1>t DEF Types, Bounded
  <2>t. Bounded(t)'
    BY <1>2, <1>3, <1>4 DEF Bounded, Testing
  <2>3. QED
    BY <1>2, <1>5, <2>1, <2>2, <2>t, <1>t DEF Types
<1>7. SameAreas
  BY <1>2, <1>t DEF SameAreas, Types
<1>8. Layout'
  BY <1>2, <1>4, <1>7, <1>t, LayoutKept
<1>9. Readers'
  <2>1. \A u \in Threads : pc[u] \in Putting => pc'[u] \in Putting
    BY <1>2, <1>4 DEF Putting
  <2>2. QED
    BY <1>2, <1>4, <1>7, <2>1, <1>t, ReadersKept
<1>10. Tickets(g)'
  <2>1. /\ "mask" \in HasTicket /\ "mask" \notin Serving /\ pc[t] \notin HasTicket
        /\ \A u \in Threads : pc[u] \in HasTicket => loc[u].ticket < nextTicket
        /\ loc'[t].ticket = nextTicket /\ pc'[t] = "mask" /\ g <= nextTicket
    BY <1>1, <1>2, <1>4 DEF HasTicket, Serving, Tickets
  <2>2. \A u, w \in Threads : pc'[u] \in HasTicket /\ pc'[w] \in HasTicket
                              /\ loc'[u].ticket = loc'[w].ticket => u = w
    <3>1. \A u \in Threads : u # t /\ pc[u] \in HasTicket => loc[u].ticket # nextTicket
      BY <1>3, <1>t, <2>1, LocFacts
    <3>2. QED
      BY <1>1, <1>4, <2>1, <3>1 DEF Tickets
  <2>3. \A u \in Threads : pc'[u] \in HasTicket => g <= loc'[u].ticket /\ loc'[u].ticket < nextTicket'
    <3>1. \A u \in Threads : u # t /\ pc[u] \in HasTicket => loc[u].ticket < nextTicket + 1
      BY <1>3, <1>t, <2>1, LocFacts
    <3>2. QED
      BY <1>1, <1>2, <1>3, <1>4, <2>1, <3>1 DEF Tickets
  <2>4. \A u, w \in Threads : pc'[u] = "cs" /\ pc'[w] \in HasTicket => loc'[w].ticket # g
    BY <1>1, <1>2, <1>3, <1>4, <2>1 DEF Tickets
  <2>5. QED
    BY <1>1, <1>2, <1>3, <1>4, <2>1, <2>2, <2>3, <2>4 DEF Tickets
<1>11. Accounted(g)'
  <2> SUFFICES ASSUME NEW k \in Nat, g <= k, k < nextTicket'
               PROVE  \/ \E u \in Threads : pc'[u] \in HasTicket /\ loc'[u].ticket = k
                      \/ k = g /\ \E u \in Threads : pc'[u] = "cs"
    BY DEF Accounted
  <2>1. CASE k = nextTicket
    BY <1>4, <2>1 DEF HasTicket
  <2>2. CASE k # nextTicket
    <3>1. k < nextTicket
      BY <1>2, <1>3, <2>2
    <3>2. \A u \in Threads : pc[u] = "cs" \/ pc[u] \in HasTicket => u # t
      BY <1>2 DEF HasTicket
    <3>3. QED
      BY <1>1, <1>4, <3>1, <3>2 DEF Accounted
  <2>3. QED
    BY <2>1, <2>2
<1>12. Words(g)'
  BY <1>1, <1>2, <1>4, WordsKept
<1>13. QED
  BY <1>6, <1>8, <1>9, <1>10, <1>11, <1>12 DEF IInv, Granting

\* A successful test: nobody has a ticket, so the next one is the one being served.
LEMMA TestTakeStep ==
    ASSUME IInv, NEW t \in Threads, TestTake(t) PROVE IInv'
<1>t. Types /\ Layout /\ Readers
  BY DEF IInv
<1>1. PICK g \in Nat : Granting(g)
  BY DEF IInv
<1>g. Tickets(g) /\ Accounted(g) /\ Words(g)
  BY <1>1 DEF Granting
<1>2. CASE nextTicket # loc[t].ticket
  <2>1. /\ pc[t] = "testTake" /\ pc' = [pc EXCEPT ![t] = "out"] /\ loc' = [loc EXCEPT ![t] = Blank]
        /\ UNCHANGED <<shape, ticks, mem>>
    BY <1>2 DEF TestTake, At, Return, Goto
  <2>2. QED
    BY <1>1, <1>t, <2>1, BlankFacts, LocalStep DEF PC, HasTicket, Serving, Testing
<1>3. CASE nextTicket = loc[t].ticket
  <2>1. /\ pc[t] = "testTake" /\ nextTicket' = nextTicket + 1 /\ nowServing' = nextTicket
        /\ pc' = [pc EXCEPT ![t] = "cs"] /\ loc' = [loc EXCEPT ![t] = Blank]
        /\ UNCHANGED <<polls, mask, numPolls, oldPolls, cleanup, mem>>
    BY <1>3 DEF TestTake, At, Return, Goto, shape
  <2>2. nextTicket \in Nat /\ cleanup \in 0..nextTicket /\ nextTicket = g
    BY <1>3, <1>g, <2>1, <1>t, LocFacts DEF Tickets, Types
  <2>3. \A u \in Threads : pc[u] \notin HasTicket /\ pc[u] # "cs"
    BY <1>g, <2>2, <1>t, LocFacts DEF Tickets
  <2>4. /\ pc'[t] = "cs" /\ loc'[t] = Blank
        /\ \A u \in Threads : u # t => pc'[u] = pc[u] /\ loc'[u] = loc[u]
        /\ pc' \in [Threads -> PC] /\ loc' \in [Threads -> Locals]
    BY <2>1, <1>t, BlankFacts DEF Types, PC
  <2>5. Types'
    <3>1. nextTicket' \in 0..MaxTicket
      <4>1. loc[t].ticket < MaxTicket /\ MaxTicket \in Nat
        BY <2>1, <1>t, LocFacts DEF Testing
      <4>2. QED
        BY <1>3, <2>1, <2>2, <4>1
    <3>2. cleanup' \in 0..nextTicket' /\ nowServing' \in 0..MaxTicket
      BY <2>1, <2>2, <1>t DEF Types
    <3>3. \A u \in Threads : Bounded(u)'
      <4>1. \A u \in Threads : u # t => Bounded(u)'
        BY <2>1, <2>4, <1>t DEF Types, Bounded
      <4>2. Bounded(t)'
        BY <2>1, <2>4, <1>t, BlankFacts DEF Bounded, Testing
      <4>3. QED
        BY <4>1, <4>2
    <3>4. QED
      BY <2>1, <2>4, <3>1, <3>2, <3>3, <1>t DEF Types
  <2>6. SameAreas
    BY <2>1, <1>t DEF SameAreas, Types
  <2>7. Layout'
    BY <2>1, <2>4, <2>6, <1>t, LayoutKept
  <2>8. Readers'
    BY <2>1, <2>3, <2>4, <2>6, <1>t, ReadersKept DEF Putting, HasTicket
  <2>9. Tickets(g)'
    BY <1>g, <2>1, <2>2, <2>3, <2>4 DEF Tickets, HasTicket, Serving
  <2>10. Accounted(g)'
    BY <2>1, <2>2, <2>4 DEF Accounted
  <2>11. Words(g)'
    BY <1>g, <2>1, <2>4, WordsKept
  <2>12. QED
    BY <2>5, <2>7, <2>8, <2>9, <2>10, <2>11 DEF IInv, Granting
<1>4. QED
  BY <1>2, <1>3

\* The holder notes that it is served, and frees the old area if no thread that is
\* left can have read the pointer to it.
LEMMA ServeStep ==
    ASSUME IInv, NEW t \in Threads, Serve(t) PROVE IInv'
<1>t. Types /\ Layout /\ Readers
  BY DEF IInv
<1>1. PICK g \in Nat : Tickets(g) /\ Accounted(g) /\ Words(g)
  BY DEF IInv, Granting
<1>2. /\ pc[t] = "serve" /\ pc' = [pc EXCEPT ![t] = "check"] /\ nowServing' = loc[t].ticket
      /\ UNCHANGED <<polls, mask, numPolls, nextTicket, loc>>
  BY DEF Serve, At, Goto
<1>3. loc[t].ticket = g /\ g < nextTicket /\ nowServing' = g /\ nextTicket \in Nat
  BY <1>1, <1>2, <1>t, LocFacts DEF Tickets, HasTicket
<1>4. /\ pc'[t] = "check" /\ \A u \in Threads : u # t => pc'[u] = pc[u]
      /\ pc' \in [Threads -> PC]
  BY <1>2, <1>t DEF Types, PC, HasTicket
<1>5. \A u \in Threads : pc[u] \notin {"putPolls", "putMask", "putCleanup"}
  BY <1>1, <1>2, Alone DEF Serving
<1>6. \A u \in Threads : pc'[u] \notin {"putPolls", "putMask", "putCleanup"}
  BY <1>4, <1>5
<1>7. Tickets(g)'
  BY <1>1, <1>2, <1>3, <1>t, HolderTickets DEF HasTicket, Serving
<1>8. Accounted(g)'
  <2>1. \A u \in Threads : pc[u] \in HasTicket => pc'[u] \in HasTicket
    BY <1>4 DEF HasTicket
  <2>2. \A u \in Threads : pc[u] = "cs" => pc'[u] = "cs"
    BY <1>2, <1>4
  <2>3. QED
    BY <1>1, <1>2, <2>1, <2>2, AccountedKept
<1>9. \A u \in Threads : Bounded(u) /\ Len(mem') = Len(mem) => Bounded(u)'
  BY <1>2, <1>4, <1>t DEF Bounded, Testing
<1>10. CASE oldPolls # Null /\ loc[t].ticket >= cleanup
  <2>1. mem' = [mem EXCEPT ![oldPolls].freed = TRUE] /\ oldPolls' = Null /\ cleanup' = 0
    BY <1>10 DEF Serve
  <2>2. oldPolls \in 1..Len(mem) /\ mem[oldPolls] \in AreaType /\ oldPolls # polls /\ Len(mem) \in Nat
    BY <1>10, <1>t, AreaFacts DEF Types, Layout, Null
  <2>3. /\ mem' \in Seq(AreaType) /\ Len(mem') = Len(mem)
        /\ \A a \in 1..Len(mem) : mem'[a].poll = mem[a].poll /\ (a # oldPolls => mem'[a] = mem[a])
    <3>1. [mem[oldPolls] EXCEPT !.freed = TRUE] \in AreaType
          /\ [mem[oldPolls] EXCEPT !.freed = TRUE].poll = mem[oldPolls].poll
      BY <2>2 DEF AreaType
    <3>2. mem' = [mem EXCEPT ![oldPolls] = [mem[oldPolls] EXCEPT !.freed = TRUE]]
      BY <2>1
    <3>3. QED
      BY <2>2, <3>1, <3>2, <1>t DEF Types
  <2>4. \A u \in Threads : pc[u] \in HasTicket => ~Stale(u)
    <3>1. \A u \in Threads : pc[u] \in HasTicket => ~(loc[u].ticket < cleanup)
      <4>1. \A u \in Threads : pc[u] \in HasTicket => loc[u].ticket >= g /\ loc[u].ticket \in Nat
        BY <1>1, <1>t, LocFacts DEF Tickets
      <4>2. g >= cleanup /\ cleanup \in Nat
        BY <1>3, <1>10, <1>t DEF Types
      <4>3. QED
        BY <4>1, <4>2
    <3>2. QED
      BY <1>5, <3>1 DEF Stale, Putting
  <2>5. Types'
    <3>1. polls' \in 1..Len(mem') /\ oldPolls' \in 0..Len(mem') /\ cleanup' \in 0..nextTicket'
      BY <1>2, <1>3, <2>1, <2>2, <2>3, <1>t DEF Types, Null
    <3>2. nowServing' \in 0..MaxTicket
      BY <1>3, <1>t, LocFacts
    <3>3. QED
      BY <1>2, <1>4, <1>9, <2>3, <3>1, <3>2, <1>t DEF Types
  <2>6. Layout'
    <3>1. polls \in 1..Len(mem) /\ mem'[polls] = mem[polls]
      BY <2>2, <2>3, <1>t DEF Types
    <3>2. DOMAIN mem[polls].poll = 0..mask /\ numPolls = mask + 1 /\ ~mem[polls].freed
      BY <1>5, <1>t DEF Layout
    <3>3. QED
      BY <1>2, <1>6, <2>1, <3>1, <3>2 DEF Layout
  <2>7. Readers'
    <3>1. \A u \in Threads : pc'[u] \in {"polls", "poll", "serve", "check"} =>
             pc[u] \in {"polls", "poll", "serve", "check"} /\ pc[u] \in HasTicket
      BY <1>2, <1>4 DEF HasTicket
    <3>2. \A u \in Threads : pc'[u] \in {"poll", "serve", "check"} =>
             pc[u] \in {"poll", "serve", "check"} /\ pc[u] \in HasTicket
      BY <1>2, <1>4 DEF HasTicket
    <3>3. polls \in 1..Len(mem)
      BY <1>t DEF Types
    <3>4. QED
      BY <1>2, <2>3, <2>4, <3>1, <3>2, <3>3, <1>t DEF Readers
  <2>8. Words(g)'
    <3>1. polls \in 1..Len(mem)
      BY <1>t DEF Types
    <3>2. QED
      BY <1>1, <1>2, <1>6, <2>3, <3>1 DEF Words
  <2>9. QED
    BY <1>7, <1>8, <2>5, <2>6, <2>7, <2>8 DEF IInv, Granting
<1>11. CASE ~(oldPolls # Null /\ loc[t].ticket >= cleanup)
  <2>1. UNCHANGED <<mem, oldPolls, cleanup>>
    BY <1>11 DEF Serve
  <2>2. SameAreas
    BY <2>1, <1>t DEF SameAreas, Types
  <2>3. Types'
    <3>1. nowServing' \in 0..MaxTicket
      BY <1>3, <1>t, LocFacts
    <3>2. QED
      BY <1>2, <1>4, <1>9, <2>1, <3>1, <1>t DEF Types
  <2>4. Layout'
    BY <1>2, <1>5, <1>6, <2>1, <2>2, <1>t, LayoutKept
  <2>5. Readers'
    <3>1. \A u \in Threads : pc[u] \notin Putting
      BY <1>5 DEF Putting
    <3>2. QED
      BY <1>2, <1>4, <2>1, <2>2, <3>1, <1>t, ReadersKept
  <2>6. Words(g)'
    BY <1>1, <1>2, <1>6, <2>1, WordsKept
  <2>7. QED
    BY <1>7, <1>8, <2>3, <2>4, <2>5, <2>6 DEF IInv, Granting
<1>12. QED
  BY <1>10, <1>11

\* A holder that finds no old area has the present mask and pointer.
LEMMA Fresh ==
    ASSUME IInv, NEW t \in Threads, pc[t] = "check", oldPolls = Null
    PROVE  /\ loc[t].mask = mask /\ loc[t].polls = polls
           /\ numPolls = mask + 1 /\ DOMAIN mem[polls].poll = 0..mask
<1>1. PICK g \in Nat : Tickets(g)
  BY DEF IInv, Granting
<1>2. \A u \in Threads : pc[u] # "putMask"
  BY <1>1, Alone DEF Serving
<1>3. QED
  BY <1>2 DEF IInv, Readers, Layout, Stale

\* Growing is the only reconfiguration without oversubscription: the new area has
\* the words of the present one and a mask to match.
LEMMA GrowEffect ==
    ASSUME IInv, TRUE \notin Oversubscribed, NEW t \in Threads, Reconfigure(t)
    PROVE  \E msk \in Nat : \E words \in [0..msk -> Nat] :
             /\ msk >= mask
             /\ \A i \in 0..msk : words[i] = IF i \in 0..mask THEN mem[polls].poll[i] ELSE 0
             /\ mem' = Append(mem, [poll |-> words, freed |-> FALSE])
             /\ loc' \in [Threads -> Locals] /\ \A u \in Threads : u # t => loc'[u] = loc[u]
             /\ loc'[t].ticket = loc[t].ticket /\ loc'[t].mask = msk
             /\ loc'[t].polls = Len(mem) + 1 /\ loc'[t].old = polls
<1>t. Types
  BY DEF IInv
<1>1. /\ pc[t] = "check" /\ oldPolls = Null
      /\ \E over \in Oversubscribed : \E new \in Replacements(t, over) :
         /\ mem' = Append(mem, Area(new.words))
         /\ loc' = [loc EXCEPT ![t].old = loc[t].polls, ![t].polls = Len(mem) + 1,
                                ![t].mask = new.mask]
  BY DEF Reconfigure, At
<1>2. /\ loc[t].mask = mask /\ loc[t].polls = polls
      /\ numPolls = mask + 1 /\ DOMAIN mem[polls].poll = 0..mask
  BY <1>1, Fresh
<1>3. PICK new \in Replacements(t, FALSE) :
         /\ mem' = Append(mem, Area(new.words))
         /\ loc' = [loc EXCEPT ![t].old = loc[t].polls, ![t].polls = Len(mem) + 1,
                                ![t].mask = new.mask]
  BY <1>1, OversubAssumption DEF OversubAssumption
<1>4. PICK c \in Factors(numPolls, NumWaiting(t)) :
         new = [words |-> Copied(t, numPolls * c), mask |-> NewMask(t, c)]
  BY <1>3 DEF Replacements
<1>5. c \in Nat /\ c >= 2 /\ mask \in Nat
  <2>1. c \in 2..(2 * MaxTicket)
    BY <1>4 DEF Factors, PowersOfTwo
  <2>2. QED
    BY <2>1, <1>t, LocFacts
<1>6. PICK msk : msk = (mask + 1) * c - 1
  OBVIOUS
<1>7. msk \in Nat /\ msk >= mask
  <2>1. \A m, n \in Nat : n >= 2 => (m + 1) * n - 1 \in Nat /\ (m + 1) * n - 1 >= m
    OBVIOUS
  <2>2. QED
    BY <1>5, <1>6, <2>1
<1>8. new.mask = msk /\ new.words = Copied(t, msk + 1)
  <2>1. numPolls * c = msk + 1
    BY <1>2, <1>5, <1>6
  <2>2. QED
    BY <1>2, <1>4, <1>6, <2>1 DEF NewMask
<1>9. PICK words : words = new.words
  OBVIOUS
<1>10. words = [i \in 0..msk |-> IF i \in 0..mask THEN mem[polls].poll[i] ELSE 0]
  <2>1. (msk + 1) - 1 = msk
    BY <1>7
  <2>2. QED
    BY <1>2, <1>8, <1>9, <2>1 DEF Copied
<1>11. words \in [0..msk -> Nat]
  <2>1. \A i \in 0..mask : mem[polls].poll[i] \in Nat
    BY <1>2, <1>t, AreaFacts DEF Types
  <2>2. QED
    BY <1>10, <2>1
<1>12. /\ loc' \in [Threads -> Locals] /\ \A u \in Threads : u # t => loc'[u] = loc[u]
       /\ loc'[t].ticket = loc[t].ticket /\ loc'[t].mask = msk
       /\ loc'[t].polls = Len(mem) + 1 /\ loc'[t].old = polls
  <2>1. PICK r : r = [loc[t] EXCEPT !.old = polls, !.polls = Len(mem) + 1, !.mask = msk]
    OBVIOUS
  <2>2. loc[t] \in Locals /\ polls \in Nat /\ Len(mem) + 1 \in Nat
    BY <1>t, LocFacts
  <2>3. /\ r \in Locals
        /\ r.ticket = loc[t].ticket /\ r.mask = msk /\ r.polls = Len(mem) + 1 /\ r.old = polls
    BY <1>7, <2>1, <2>2 DEF Locals
  <2>4. loc' = [loc EXCEPT ![t] = r]
    BY <1>2, <1>3, <1>8, <2>1
  <2>5. QED
    BY <2>3, <2>4, <1>t DEF Types
<1>13. mem' = Append(mem, [poll |-> words, freed |-> FALSE])
  BY <1>3, <1>9 DEF Area
<1>14. QED
  BY <1>7, <1>10, <1>11, <1>12, <1>13

LEMMA ReconfigureStep ==
    ASSUME IInv, TRUE \notin Oversubscribed, NEW t \in Threads, Reconfigure(t)
    PROVE  IInv'
<1>t. Types /\ Layout /\ Readers
  BY DEF IInv
<1>1. PICK g \in Nat : Tickets(g) /\ Accounted(g) /\ Words(g)
  BY DEF IInv, Granting
<1>2. /\ pc[t] = "check" /\ oldPolls = Null /\ pc' = [pc EXCEPT ![t] = "putPolls"]
      /\ UNCHANGED <<polls, mask, numPolls, oldPolls, cleanup, nextTicket, nowServing>>
  BY DEF Reconfigure, At, Goto, shape, ticks
<1>3. PICK msk \in Nat : \E words \in [0..msk -> Nat] :
         /\ msk >= mask
         /\ \A i \in 0..msk : words[i] = IF i \in 0..mask THEN mem[polls].poll[i] ELSE 0
         /\ mem' = Append(mem, [poll |-> words, freed |-> FALSE])
         /\ loc' \in [Threads -> Locals] /\ \A u \in Threads : u # t => loc'[u] = loc[u]
         /\ loc'[t].ticket = loc[t].ticket /\ loc'[t].mask = msk
         /\ loc'[t].polls = Len(mem) + 1 /\ loc'[t].old = polls
  BY GrowEffect
<1>4. PICK words \in [0..msk -> Nat] :
         /\ msk >= mask
         /\ \A i \in 0..msk : words[i] = IF i \in 0..mask THEN mem[polls].poll[i] ELSE 0
         /\ mem' = Append(mem, [poll |-> words, freed |-> FALSE])
         /\ loc' \in [Threads -> Locals] /\ \A u \in Threads : u # t => loc'[u] = loc[u]
         /\ loc'[t].ticket = loc[t].ticket /\ loc'[t].mask = msk
         /\ loc'[t].polls = Len(mem) + 1 /\ loc'[t].old = polls
  BY <1>3
<1>5. PICK area : area = [poll |-> words, freed |-> FALSE]
  OBVIOUS
<1>6. area \in AreaType /\ area.poll = words /\ area.freed = FALSE /\ DOMAIN words = 0..msk
  BY <1>5 DEF AreaType, Polls
<1>7. PICK n \in Nat : n = Len(mem)
  BY <1>t DEF Types
<1>8. /\ mem' \in Seq(AreaType) /\ Len(mem') = n + 1 /\ mem'[n + 1] = area
      /\ \A a \in 1..n : mem'[a] = mem[a]
  BY <1>4, <1>5, <1>6, <1>7, <1>t DEF Types
<1>9. /\ pc'[t] = "putPolls" /\ \A u \in Threads : u # t => pc'[u] = pc[u] /\ loc'[u] = loc[u]
      /\ pc' \in [Threads -> PC]
  BY <1>2, <1>4, <1>t DEF Types, PC, HasTicket
<1>10. /\ loc'[t].ticket = loc[t].ticket /\ loc'[t].mask = msk /\ loc'[t].polls = n + 1
       /\ loc'[t].old = polls
       /\ loc' \in [Threads -> Locals]
  BY <1>4, <1>7
<1>11. \A u \in Threads : pc[u] \notin {"putPolls", "putMask", "putCleanup"}
  BY <1>1, <1>2, Alone DEF Serving
<1>12. SameAreas
  BY <1>7, <1>8 DEF SameAreas
<1>13. polls \in 1..n
  BY <1>7, <1>t DEF Types
<1>14. Types'
  <2>1. \A u \in Threads : u # t => Bounded(u)'
    <3>1. \A u \in Threads : loc[u].polls <= n => loc[u].polls <= n + 1
      BY <1>7, <1>t, LocFacts
    <3>2. QED
      BY <1>7, <1>8, <1>9, <3>1, <1>t DEF Bounded, Types
  <2>2. Bounded(t)'
    <3>1. n + 1 <= n + 1 /\ loc[t].ticket <= MaxTicket
      BY <1>7, <1>t, LocFacts
    <3>2. QED
      BY <1>8, <1>9, <1>10, <3>1 DEF Bounded, Testing
  <2>3. polls' \in 1..Len(mem') /\ oldPolls' \in 0..Len(mem')
    BY <1>2, <1>7, <1>8, <1>13 DEF Null
  <2>4. QED
    BY <1>2, <1>8, <1>9, <1>10, <2>1, <2>2, <2>3, <1>t DEF Types
<1>15. Layout'
  <2>1. /\ mem'[polls] = mem[polls] /\ n + 1 \in 1..Len(mem') /\ n + 1 # polls
        /\ mem'[n + 1].poll = words /\ ~mem'[n + 1].freed
    BY <1>6, <1>7, <1>8, <1>13
  <2>2. DOMAIN mem[polls].poll = 0..mask /\ numPolls = mask + 1 /\ ~mem[polls].freed
    BY <1>11, <1>t DEF Layout
  <2>3. \A u \in Threads : u # t => pc'[u] \notin {"putPolls", "putMask", "putCleanup"}
    BY <1>9, <1>11
  <2>4. DOMAIN mem'[n + 1].poll = 0..msk /\ mask <= msk /\ msk \in Nat /\ mask \in Nat
    <3>1. mask \in Nat
      BY <1>t, LocFacts
    <3>2. mask <= msk
      BY <1>4, <3>1
    <3>3. QED
      BY <1>6, <2>1, <3>1, <3>2
  <2>5. oldPolls' = Null /\ UNCHANGED <<polls, mask, numPolls>>
    BY <1>2
  <2>6. QED
    BY <1>9, <1>10, <2>1, <2>2, <2>3, <2>4, <2>5 DEF Layout
<1>16. Readers'
  BY <1>2, <1>9, <1>11, <1>12, <1>t, ReadersKept DEF Putting
<1>17. Tickets(g)'
  <2>1. /\ pc[t] \in Serving /\ "putPolls" \in Serving /\ "putPolls" \in HasTicket \ {"serve"}
        /\ pc' = [pc EXCEPT ![t] = "putPolls"] /\ UNCHANGED nextTicket
    BY <1>2 DEF HasTicket, Serving
  <2>2. nowServing' = g
    BY <1>1, <1>2, <2>1 DEF Tickets
  <2>3. \A u \in Threads : u # t => loc'[u] = loc[u]
    BY <1>9
  <2>4. QED
    BY <1>1, <1>10, <1>t, <2>1, <2>2, <2>3, HolderTickets
<1>18. Accounted(g)'
  <2>1. \A u \in Threads : pc[u] \in HasTicket => pc'[u] \in HasTicket /\ loc'[u].ticket = loc[u].ticket
    BY <1>9, <1>10 DEF HasTicket
  <2>2. \A u \in Threads : pc[u] = "cs" => pc'[u] = "cs"
    BY <1>2, <1>9
  <2>3. QED
    BY <1>1, <1>2, <2>1, <2>2, AccountedKept
<1>19. Words(g)'
  <2>1. DOMAIN mem[polls].poll = 0..mask
    BY <1>11, <1>t DEF Layout
  <2>2. \A i \in 0..msk : words[i] <= g
    <3>1. \A i \in 0..mask : mem[polls].poll[i] <= g
      BY <1>1, <1>7, <1>13, <2>1 DEF Words
    <3>2. \A i \in 0..msk : words[i] = IF i \in 0..mask THEN mem[polls].poll[i] ELSE 0
      BY <1>4
    <3>3. 0 <= g
      OBVIOUS
    <3>4. QED
      BY <3>1, <3>2, <3>3
  <2>3. \E i \in 0..msk : words[i] = g
    <3>1. PICK i \in 0..mask : mem[polls].poll[i] = g
      BY <1>1, <2>1 DEF Words
    <3>2. i \in 0..msk
      BY <1>4, <1>t, LocFacts
    <3>3. QED
      BY <1>4, <3>1, <3>2
  <2>4. \A a \in 1..Len(mem') : a \in 1..n \/ a = n + 1
    BY <1>8
  <2>5. \A a \in 1..Len(mem') : \A i \in DOMAIN mem'[a].poll : mem'[a].poll[i] <= g
    BY <1>1, <1>6, <1>7, <1>8, <2>2, <2>4 DEF Words
  <2>6. \E i \in DOMAIN mem'[polls'].poll : mem'[polls'].poll[i] = g
    BY <1>1, <1>2, <1>8, <1>13 DEF Words
  <2>7. \A u \in Threads : pc'[u] = "putPolls" => u = t
    BY <1>9, <1>11
  <2>8. QED
    BY <1>6, <1>8, <1>10, <2>3, <2>5, <2>6, <2>7 DEF Words
<1>20. QED
  BY <1>14, <1>15, <1>16, <1>17, <1>18, <1>19 DEF IInv, Granting

\* The new area is published before its mask.  Everybody who reads has the old one, and
\* is from now on a reader of it.
LEMMA PutPollsStep ==
    ASSUME IInv, NEW t \in Threads, PutPolls(t) PROVE IInv'
<1>t. Types /\ Layout /\ Readers
  BY DEF IInv
<1>1. PICK g \in Nat : Tickets(g) /\ Accounted(g) /\ Words(g)
  BY DEF IInv, Granting
<1>2. /\ pc[t] = "putPolls" /\ oldPolls' = loc[t].old /\ polls' = loc[t].polls
      /\ pc' = [pc EXCEPT ![t] = "putMask"]
      /\ UNCHANGED <<mask, numPolls, cleanup, nextTicket, nowServing, mem, loc>>
  BY DEF PutPolls, At, Goto, ticks
<1>3. /\ pc'[t] = "putMask" /\ \A u \in Threads : u # t => pc'[u] = pc[u]
      /\ pc' \in [Threads -> PC]
  BY <1>2, <1>t DEF Types, PC, HasTicket
<1>4. /\ oldPolls = Null /\ oldPolls' = polls /\ polls \in 1..Len(mem)
      /\ polls' \in 1..Len(mem) /\ polls' # polls /\ ~mem[polls'].freed
      /\ DOMAIN mem[polls'].poll = 0..loc[t].mask /\ mask <= loc[t].mask
  BY <1>2, <1>t DEF Layout, Types
<1>5. \A u \in Threads : u # t => pc[u] \notin {"serve", "cs", "check", "putPolls", "putMask", "putCleanup"}
  BY <1>1, <1>2, Alone DEF Serving
<1>6. Types'
  <2>1. \A u \in Threads : Bounded(u)'
    BY <1>2, <1>3, <1>t DEF Bounded, Types, Testing
  <2>2. oldPolls' \in 0..Len(mem)
    BY <1>4
  <2>3. QED
    BY <1>2, <1>3, <1>4, <2>1, <2>2, <1>t DEF Types
<1>7. Layout'
  <2>1. oldPolls' # Null /\ ~mem[oldPolls'].freed /\ oldPolls' # polls'
    BY <1>4, <1>t DEF Layout, Null
  <2>2. \A u \in Threads : u # t => pc'[u] \notin {"putPolls", "putMask", "putCleanup"}
    BY <1>3, <1>5
  <2>3. QED
    BY <1>2, <1>3, <1>4, <2>1, <2>2 DEF Layout
<1>8. Readers'
  <2>1. \A u \in Threads : Stale(u)'
    BY <1>3, <1>4 DEF Stale, Putting, Null
  <2>2. \A u \in Threads : ~Stale(u)
    BY <1>4 DEF Stale
  <2>3. \A u \in Threads : pc'[u] \in {"polls", "poll", "serve", "check"} => pc'[u] = pc[u]
    BY <1>3
  <2>4. QED
    BY <1>2, <1>4, <2>1, <2>2, <2>3, <1>t DEF Readers
<1>9. Tickets(g)'
  BY <1>1, <1>2, <1>t, HolderTickets DEF HasTicket, Serving, Tickets
<1>10. Accounted(g)'
  <2>1. \A u \in Threads : pc[u] \in HasTicket => pc'[u] \in HasTicket
    BY <1>3 DEF HasTicket
  <2>2. \A u \in Threads : pc[u] = "cs" => pc'[u] = "cs"
    BY <1>2, <1>3
  <2>3. QED
    BY <1>1, <1>2, <2>1, <2>2, AccountedKept
<1>11. Words(g)'
  BY <1>1, <1>2, <1>3, <1>5 DEF Words
<1>12. QED
  BY <1>6, <1>7, <1>8, <1>9, <1>10, <1>11 DEF IInv, Granting

\* The mask follows, and the size with it.
LEMMA PutMaskStep ==
    ASSUME IInv, NEW t \in Threads, PutMask(t) PROVE IInv'
<1>t. Types /\ Layout /\ Readers
  BY DEF IInv
<1>1. PICK g \in Nat : Tickets(g) /\ Accounted(g) /\ Words(g)
  BY DEF IInv, Granting
<1>2. /\ pc[t] = "putMask" /\ mask' = loc[t].mask
      /\ numPolls' = Cardinality(DOMAIN mem[loc[t].polls].poll)
      /\ pc' = [pc EXCEPT ![t] = "putCleanup"]
      /\ UNCHANGED <<polls, oldPolls, cleanup, nextTicket, nowServing, mem, loc>>
  BY DEF PutMask, At, Goto, ticks
<1>3. /\ pc'[t] = "putCleanup" /\ \A u \in Threads : u # t => pc'[u] = pc[u]
      /\ pc' \in [Threads -> PC]
  BY <1>2, <1>t DEF Types, PC, HasTicket
<1>4. /\ oldPolls # Null /\ loc[t].polls = polls /\ DOMAIN mem[polls].poll = 0..mask'
      /\ mask <= mask' /\ mask' \in Nat /\ mask \in Nat
  BY <1>2, <1>t, LocFacts DEF Layout
<1>5. numPolls' = mask' + 1
  <2>1. Cardinality(0..mask') = mask' - 0 + 1
    BY <1>4, FS_Interval
  <2>2. QED
    BY <1>2, <1>4, <2>1
<1>6. \A u \in Threads : u # t => pc[u] \notin {"serve", "cs", "check", "putPolls", "putMask", "putCleanup"}
  BY <1>1, <1>2, Alone DEF Serving
<1>7. Types'
  <2>1. \A u \in Threads : Bounded(u)'
    BY <1>2, <1>3, <1>t DEF Bounded, Types, Testing
  <2>2. numPolls' \in Nat \ {0}
    <3>1. \A m \in Nat : m + 1 \in Nat \ {0}
      OBVIOUS
    <3>2. QED
      BY <1>4, <1>5, <3>1
  <2>3. QED
    BY <1>2, <1>3, <1>4, <2>1, <2>2, <1>t DEF Types
<1>8. Layout'
  <2>1. \A u \in Threads : pc'[u] \notin {"putPolls", "putMask"}
    BY <1>3, <1>6
  <2>2. QED
    BY <1>2, <1>4, <1>5, <2>1, <1>t DEF Layout
<1>9. Readers'
  <2>1. \A u \in Threads : Stale(u)'
    BY <1>2, <1>3, <1>4 DEF Stale, Putting
  <2>2. \A u \in Threads : pc'[u] \in {"polls", "poll", "serve", "check"} => pc'[u] = pc[u]
    BY <1>3
  <2>3. \A u \in Threads : Stale(u)
    BY <1>2, <1>4 DEF Stale, Putting
  <2>4. \A u \in Threads : loc[u].mask <= mask => loc[u].mask <= mask'
    BY <1>4, <1>t, LocFacts
  <2>5. QED
    BY <1>2, <2>1, <2>2, <2>3, <2>4, <1>t DEF Readers
<1>10. Tickets(g)'
  BY <1>1, <1>2, <1>t, HolderTickets DEF HasTicket, Serving, Tickets
<1>11. Accounted(g)'
  <2>1. \A u \in Threads : pc[u] \in HasTicket => pc'[u] \in HasTicket
    BY <1>3 DEF HasTicket
  <2>2. \A u \in Threads : pc[u] = "cs" => pc'[u] = "cs"
    BY <1>2, <1>3
  <2>3. QED
    BY <1>1, <1>2, <2>1, <2>2, AccountedKept
<1>12. Words(g)'
  BY <1>1, <1>2, <1>3, WordsKept
<1>13. QED
  BY <1>7, <1>8, <1>9, <1>10, <1>11, <1>12 DEF IInv, Granting

\* Every ticket handed out so far may belong to a reader of the old area: the next one
\* is the first that may free it.
LEMMA PutCleanupStep ==
    ASSUME IInv, NEW t \in Threads, PutCleanup(t) PROVE IInv'
<1>t. Types /\ Layout /\ Readers
  BY DEF IInv
<1>1. PICK g \in Nat : Tickets(g) /\ Accounted(g) /\ Words(g)
  BY DEF IInv, Granting
<1>2. /\ pc[t] = "putCleanup" /\ cleanup' = nextTicket
      /\ pc' = [pc EXCEPT ![t] = "cs"] /\ loc' = [loc EXCEPT ![t] = Blank]
      /\ UNCHANGED <<polls, mask, numPolls, oldPolls, nextTicket, nowServing, mem>>
  BY DEF PutCleanup, At, Return, Goto, ticks
<1>3. /\ pc'[t] = "cs" /\ loc'[t] = Blank
      /\ \A u \in Threads : u # t => pc'[u] = pc[u] /\ loc'[u] = loc[u]
      /\ pc' \in [Threads -> PC] /\ loc' \in [Threads -> Locals]
  BY <1>2, <1>t, BlankFacts DEF Types, PC
<1>4. oldPolls # Null /\ nextTicket \in Nat
  BY <1>2, <1>t, LocFacts DEF Layout
<1>5. \A u \in Threads : u # t => pc[u] \notin {"serve", "cs", "check", "putPolls", "putMask", "putCleanup"}
  BY <1>1, <1>2, Alone DEF Serving
<1>6. Types'
  <2>1. \A u \in Threads : u # t => Bounded(u)'
    BY <1>2, <1>3, <1>t DEF Bounded, Types
  <2>2. Bounded(t)'
    BY <1>2, <1>3, <1>t, BlankFacts DEF Bounded, Testing
  <2>3. cleanup' \in 0..nextTicket'
    BY <1>2, <1>4
  <2>4. QED
    BY <1>2, <1>3, <2>1, <2>2, <2>3, <1>t DEF Types
<1>7. Layout'
  <2>1. SameAreas
    BY <1>2, <1>t DEF SameAreas, Types
  <2>2. QED
    BY <1>2, <1>3, <1>5, <2>1, <1>t, LayoutKept
<1>8. Readers'
  <2>1. \A u \in Threads : pc[u] \in HasTicket /\ u # t => Stale(u)'
    BY <1>1, <1>2, <1>3, <1>4 DEF Stale, Tickets
  <2>2. \A u \in Threads : pc'[u] \in {"polls", "poll", "serve", "check"} =>
           pc'[u] = pc[u] /\ loc'[u] = loc[u] /\ u # t /\ pc[u] \in HasTicket
    BY <1>3 DEF HasTicket
  <2>3. QED
    BY <1>2, <2>1, <2>2, <1>t DEF Readers
<1>9. Tickets(g)'
  <2>1. /\ pc[t] \in HasTicket /\ pc[t] \in Serving /\ loc[t].ticket = g
        /\ "cs" \notin HasTicket /\ "cs" \notin Serving
    BY <1>1, <1>2 DEF Tickets, HasTicket, Serving
  <2>2. \A u \in Threads : pc'[u] = "cs" => u = t
    BY <1>3, <1>5
  <2>3. \A u \in Threads : pc'[u] \in HasTicket => loc'[u].ticket # g
    BY <1>1, <1>3, <2>1 DEF Tickets
  <2>4. QED
    BY <1>1, <1>2, <1>3, <2>1, <2>2, <2>3 DEF Tickets
<1>10. Accounted(g)'
  <2>1. loc[t].ticket = g
    BY <1>1, <1>2 DEF Tickets, Serving
  <2>2. QED
    BY <1>1, <1>2, <1>3, <2>1, AccountedKept
<1>11. Words(g)'
  BY <1>1, <1>2, <1>3, WordsKept
<1>12. QED
  BY <1>6, <1>7, <1>8, <1>9, <1>10, <1>11 DEF IInv, Granting

\* The owner stores into the current area, which nobody replaces meanwhile.
LEMMA ReleaseValid ==
    ASSUME IInv, NEW t \in Threads, pc[t] = "cs"
    PROVE  Valid(polls, Slot(nowServing + 1, mask))
<1>t. Types /\ Layout
  BY DEF IInv
<1>1. PICK g \in Nat : Tickets(g)
  BY DEF IInv, Granting
<1>2. \A u \in Threads : pc[u] # "putMask"
  BY <1>1, Alone DEF Serving
<1>3. DOMAIN mem[polls].poll = 0..mask /\ ~mem[polls].freed
  BY <1>2, <1>t DEF Layout
<1>4. nowServing + 1 \in Nat /\ mask \in Nat
  BY <1>t, LocFacts DEF Types
<1>5. QED
  BY <1>3, <1>4, SlotInMask DEF Valid

LEMMA ReleaseStep ==
    ASSUME IInv, NEW t \in Threads, Release(t) PROVE IInv'
<1>t. Types /\ Layout /\ Readers
  BY DEF IInv
<1>1. PICK g \in Nat : Tickets(g) /\ Accounted(g) /\ Words(g)
  BY DEF IInv, Granting
<1>2. PICK i : i = Slot(nowServing + 1, mask)
  OBVIOUS
<1>3. /\ pc[t] = "cs" /\ pc' = [pc EXCEPT ![t] = "out"] /\ loc' = [loc EXCEPT ![t] = Blank]
      /\ mem' = [mem EXCEPT ![polls].poll[i] = nowServing + 1]
      /\ UNCHANGED <<polls, mask, numPolls, oldPolls, cleanup, nextTicket, nowServing>>
  BY <1>2 DEF Release, At, Return, Goto, shape, ticks
<1>4. nowServing = g /\ g < nextTicket /\ nextTicket \in Nat /\ g + 1 \in Nat
  BY <1>1, <1>3, <1>t, LocFacts DEF Tickets
<1>5. i \in DOMAIN mem[polls].poll /\ polls \in 1..Len(mem) /\ Len(mem) \in Nat
  BY <1>2, <1>3, <1>t, ReleaseValid DEF Valid, Types
<1>6. /\ mem' \in Seq(AreaType) /\ Len(mem') = Len(mem)
      /\ \A a \in 1..Len(mem) : a # polls => mem'[a] = mem[a]
      /\ mem'[polls].freed = mem[polls].freed
      /\ mem'[polls].poll = [mem[polls].poll EXCEPT ![i] = g + 1]
  <2>1. PICK area : area = [mem[polls] EXCEPT !.poll = [mem[polls].poll EXCEPT ![i] = g + 1]]
    OBVIOUS
  <2>2. mem[polls] \in AreaType
    BY <1>5, <1>t, AreaFacts
  <2>3. [mem[polls].poll EXCEPT ![i] = g + 1] \in Polls
    <3>1. PICK m \in Nat : mem[polls].poll \in [0..m -> Nat]
      BY <2>2 DEF AreaType, Polls
    <3>2. [mem[polls].poll EXCEPT ![i] = g + 1] \in [0..m -> Nat]
      BY <1>4, <1>5, <3>1
    <3>3. QED
      BY <3>2 DEF Polls
  <2>4. /\ area \in AreaType /\ area.freed = mem[polls].freed
        /\ area.poll = [mem[polls].poll EXCEPT ![i] = g + 1]
    BY <2>1, <2>2, <2>3 DEF AreaType
  <2>5. mem' = [mem EXCEPT ![polls] = area]
    BY <1>3, <1>4, <2>1
  <2>6. QED
    BY <1>5, <2>4, <2>5, <1>t DEF Types
<1>7. /\ DOMAIN mem'[polls].poll = DOMAIN mem[polls].poll
      /\ mem'[polls].poll[i] = g + 1
      /\ \A j \in DOMAIN mem[polls].poll : j # i => mem'[polls].poll[j] = mem[polls].poll[j]
  <2>1. PICK m \in Nat : mem[polls].poll \in [0..m -> Nat]
    BY <1>5, <1>t, AreaFacts DEF Polls
  <2>2. QED
    BY <1>5, <1>6, <2>1
<1>8. SameAreas
  BY <1>5, <1>6, <1>7 DEF SameAreas
<1>9. /\ pc'[t] = "out" /\ loc'[t] = Blank
      /\ \A u \in Threads : u # t => pc'[u] = pc[u] /\ loc'[u] = loc[u]
      /\ pc' \in [Threads -> PC] /\ loc' \in [Threads -> Locals]
  BY <1>3, <1>t, BlankFacts DEF Types, PC
<1>10. \A u \in Threads : u # t => pc[u] \notin {"serve", "cs", "check", "putPolls", "putMask", "putCleanup"}
  BY <1>1, <1>3, Alone DEF Serving
<1>11. Types'
  <2>1. \A u \in Threads : u # t => Bounded(u)'
    BY <1>6, <1>9, <1>t DEF Bounded, Types
  <2>2. Bounded(t)'
    BY <1>6, <1>9, <1>t, BlankFacts DEF Bounded, Testing
  <2>3. QED
    BY <1>3, <1>6, <1>9, <2>1, <2>2, <1>t DEF Types
<1>12. Layout'
  BY <1>3, <1>8, <1>9, <1>10, <1>t, LayoutKept
<1>13. Readers'
  <2>1. \A u \in Threads : pc[u] \in Putting => pc'[u] \in Putting
    BY <1>3, <1>9 DEF Putting
  <2>2. QED
    BY <1>3, <1>8, <1>9, <2>1, <1>t, ReadersKept
<1>14. Tickets(g + 1)'
  <2>1. \A u \in Threads : pc'[u] \in HasTicket => u # t /\ pc[u] \in HasTicket /\ loc'[u] = loc[u]
    BY <1>9 DEF HasTicket
  <2>2. \A u \in Threads : pc[u] \in HasTicket => g + 1 <= loc[u].ticket /\ loc[u].ticket < nextTicket
    <3>1. \A u \in Threads : pc[u] \in HasTicket =>
             g <= loc[u].ticket /\ loc[u].ticket # g /\ loc[u].ticket < nextTicket /\ loc[u].ticket \in Nat
      BY <1>1, <1>3, <1>t, LocFacts DEF Tickets
    <3>2. QED
      BY <3>1
  <2>3. \A u \in Threads : pc'[u] \notin {"serve", "cs", "check", "putPolls", "putMask", "putCleanup"}
    BY <1>9, <1>10
  <2>4. \A u \in Threads : pc'[u] = "testTake" => loc'[u].ticket <= g + 1
    <3>1. \A u \in Threads : pc[u] = "testTake" => loc[u].ticket <= g /\ loc[u].ticket \in Nat
      BY <1>1, <1>t, LocFacts DEF Tickets
    <3>2. QED
      BY <1>9, <3>1
  <2>5. \A u, w \in Threads : pc'[u] \in HasTicket /\ pc'[w] \in HasTicket
                               /\ loc'[u].ticket = loc'[w].ticket => u = w
    BY <1>1, <2>1 DEF Tickets
  <2>6. g + 1 <= nextTicket
    BY <1>4
  <2>7. QED
    BY <1>3, <2>1, <2>2, <2>3, <2>4, <2>5, <2>6 DEF Tickets, Serving
<1>15. Accounted(g + 1)'
  <2> SUFFICES ASSUME NEW k \in Nat, g + 1 <= k, k < nextTicket
               PROVE  \E u \in Threads : pc'[u] \in HasTicket /\ loc'[u].ticket = k
    BY <1>3 DEF Accounted
  <2>1. k # g /\ g <= k
    OBVIOUS
  <2>2. PICK u \in Threads : pc[u] \in HasTicket /\ loc[u].ticket = k
    BY <1>1, <2>1 DEF Accounted
  <2>3. u # t
    BY <1>3, <2>2 DEF HasTicket
  <2>4. QED
    BY <1>9, <2>2, <2>3
<1>16. Words(g + 1)'
  <2>1. \A a \in 1..Len(mem) : \A j \in DOMAIN mem[a].poll : mem[a].poll[j] <= g + 1
    <3>1. \A a \in 1..Len(mem) : \A j \in DOMAIN mem[a].poll : mem[a].poll[j] <= g /\ mem[a].poll[j] \in Nat
      BY <1>1, <1>t, AreaFacts DEF Words
    <3>2. QED
      BY <3>1
  <2>2. \A a \in 1..Len(mem') : \A j \in DOMAIN mem'[a].poll : mem'[a].poll[j] <= g + 1
    <3>1. \A j \in DOMAIN mem'[polls].poll : mem'[polls].poll[j] <= g + 1
      BY <1>4, <1>5, <1>7, <2>1
    <3>2. QED
      BY <1>6, <2>1, <3>1
  <2>3. \A u \in Threads : pc'[u] # "putPolls"
    BY <1>9, <1>10
  <2>4. \E j \in DOMAIN mem'[polls'].poll : mem'[polls'].poll[j] = g + 1
    BY <1>3, <1>5, <1>7
  <2>5. QED
    BY <2>2, <2>3, <2>4 DEF Words
<1>17. QED
  BY <1>4, <1>11, <1>12, <1>13, <1>14, <1>15, <1>16 DEF IInv, Granting

----------------------------------------------------------------------------
LEMMA InitIInv == Init => IInv
<1> SUFFICES ASSUME Init PROVE IInv
  OBVIOUS
<1>1. /\ polls = 1 /\ mask = 0 /\ numPolls = 1 /\ oldPolls = 0 /\ cleanup = 0
      /\ nextTicket = 0 /\ nowServing = 0 /\ MaxTicket \in Nat
  BY TicketAssumption DEF Init, Null, TicketAssumption
<1>2. PICK words : words = OneWord(0)
  OBVIOUS
<1>3. words \in [0..0 -> Nat] /\ DOMAIN words = 0..0 /\ words[0] = 0 /\ 0..0 = {0}
  BY <1>2 DEF OneWord
<1>4. PICK area : area = [poll |-> words, freed |-> FALSE]
  OBVIOUS
<1>5. area \in AreaType /\ area.poll = words /\ area.freed = FALSE
  BY <1>3, <1>4 DEF AreaType, Polls
<1>6. mem = <<area>>
  BY <1>2, <1>4 DEF Init, Area
<1>7. mem \in Seq(AreaType) /\ Len(mem) = 1 /\ mem[1] = area
  BY <1>5, <1>6
<1>8. /\ pc \in [Threads -> PC] /\ loc \in [Threads -> Locals]
      /\ \A t \in Threads : pc[t] = "out" /\ loc[t].ticket = 0 /\ loc[t].polls = 0
  BY DEF Init, PC, Blank, Locals, Null
<1>9. Types
  <2>1. \A t \in Threads : Bounded(t)
    BY <1>1, <1>7, <1>8 DEF Bounded, Testing
  <2>2. polls \in 1..Len(mem) /\ oldPolls \in 0..Len(mem)
    BY <1>1, <1>7
  <2>3. QED
    BY <1>1, <1>7, <1>8, <2>1, <2>2 DEF Types
<1>10. Layout
  BY <1>1, <1>3, <1>5, <1>7, <1>8 DEF Layout, Null
<1>11. Readers
  BY <1>8 DEF Readers
<1>12. Tickets(0)
  BY <1>1, <1>8 DEF Tickets, HasTicket, Serving
<1>13. Accounted(0)
  BY <1>1 DEF Accounted
<1>14. Words(0)
  BY <1>1, <1>3, <1>5, <1>7, <1>8 DEF Words
<1>15. QED
  BY <1>9, <1>10, <1>11, <1>12, <1>13, <1>14 DEF IInv, Granting

LEMMA StepIInv ==
    ASSUME TRUE \notin Oversubscribed
    PROVE  IInv /\ TestsInBounds /\ [Next]_vars => IInv'
<1> SUFFICES ASSUME IInv, TestsInBounds, [Next]_vars PROVE IInv'
  OBVIOUS
<1>1. ASSUME NEW t \in Threads, Take(t) \/ Test(t) \/ Release(t) PROVE IInv'
  BY <1>1, TakeStep, TestStep, ReleaseStep
<1>2. ASSUME NEW t \in Threads, ReadMask(t) \/ ReadPolls(t) \/ Poll(t) \/ Serve(t) PROVE IInv'
  BY <1>2, ReadMaskStep, ReadPollsStep, PollStep, ServeStep
<1>3. ASSUME NEW t \in Threads, Reconfigure(t) \/ Keep(t) \/ PutPolls(t) \/ PutMask(t) \/ PutCleanup(t)
      PROVE  IInv'
  BY <1>3, ReconfigureStep, KeepStep, PutPollsStep, PutMaskStep, PutCleanupStep
<1>4. ASSUME NEW t \in Threads, TestPolls(t) \/ TestMask(t) \/ TestPoll(t) \/ TestTake(t) PROVE IInv'
  BY <1>4, TestStep, TestPollStep, TestTakeStep
<1>5. CASE Stopped \/ UNCHANGED vars
  <2>1. UNCHANGED vars
    BY <1>5 DEF Stopped
  <2>2. UNCHANGED <<polls, mask, numPolls, oldPolls, cleanup, nextTicket, nowServing, mem, pc, loc>>
    BY <2>1 DEF vars, shape, ticks
  <2>3. Types' /\ Layout'
    BY <2>2 DEF IInv, Types, Bounded, Layout
  <2>4. Readers'
    BY <2>2 DEF IInv, Readers, Stale
  <2>5. PICK g \in Nat : Granting(g)
    BY DEF IInv
  <2>6. Granting(g)'
    BY <2>2, <2>5 DEF Granting, Tickets, Accounted, Words
  <2>7. QED
    BY <2>3, <2>4, <2>6 DEF IInv
<1>6. QED
  BY <1>1, <1>2, <1>3, <1>4, <1>5 DEF Next, Inside

LEMMA AlwaysIInv ==
    ASSUME TRUE \notin Oversubscribed
    PROVE  Spec /\ []TestsInBounds => []IInv
BY InitIInv, StepIInv, PTL DEF Spec

----------------------------------------------------------------------------
\* While no test reads outside the area, the lock and the threads' copies of it have
\* the values their types allow, and no ticket is cleaned up before it is handed out.
THEOREM TypeCorrect ==
    ASSUME TRUE \notin Oversubscribed
    PROVE  Spec /\ []TestsInBounds => []TypeOK
<1>1. IInv => TypeOK
  <2> SUFFICES ASSUME IInv PROVE TypeOK
    OBVIOUS
  <2>t. Types
    BY DEF IInv
  <2>1. PICK g \in Nat : Tickets(g) /\ Words(g)
    BY DEF IInv, Granting
  <2>2. g <= MaxTicket
    BY <2>1, <2>t, TicketAssumption DEF Tickets, Types, TicketAssumption
  <2>3. ASSUME NEW a \in 1..Len(mem) PROVE mem[a].freed \in BOOLEAN
    BY <2>t, AreaFacts
  <2>4. ASSUME NEW a \in 1..Len(mem), NEW i \in DOMAIN mem[a].poll
        PROVE  mem[a].poll[i] \in 0..MaxTicket
    <3>1. mem[a].poll[i] \in Nat /\ mem[a].poll[i] <= g /\ MaxTicket \in Nat
      BY <2>1, <2>t, AreaFacts, TicketAssumption DEF Words, TicketAssumption
    <3>2. QED
      BY <2>2, <3>1
  <2>5. ASSUME NEW t \in Threads
        PROVE  loc[t].ticket \in 0..MaxTicket /\ loc[t].polls \in {Null} \union Areas
    BY <2>t, LocFacts DEF Areas, Null
  <2>6. oldPolls \in {Null} \union Areas
    BY <2>t DEF Types, Areas, Null
  <2>7. QED
    BY <2>3, <2>4, <2>5, <2>6, <2>t DEF TypeOK, Types, Areas
<1>2. QED
  BY <1>1, AlwaysIInv, PTL

\* A waiter never polls, and an owner never releases into, a word outside the area its
\* pointer names or one of an area that has been freed, whatever mixture of mask and
\* pointer it has read.
THEOREM NoWildPolls ==
    ASSUME TRUE \notin Oversubscribed
    PROVE  Spec /\ []TestsInBounds => []PollsInBounds
<1>1. IInv /\ TestsInBounds => PollsInBounds
  BY PollValid, ReleaseValid DEF PollsInBounds, TestsInBounds, At
<1>2. QED
  BY <1>1, AlwaysIInv, PTL

\* The holder that may replace the area has current copies of its mask and pointer.
THEOREM HolderIsUpToDate ==
    ASSUME TRUE \notin Oversubscribed
    PROVE  Spec /\ []TestsInBounds => []HolderUpToDate
<1>1. IInv => HolderUpToDate
  BY Fresh DEF HolderUpToDate, At
<1>2. QED
  BY <1>1, AlwaysIInv, PTL

\* Never two threads past the wait: what a ticket lock is for, through every replacement
\* of the area that they wait on.
AtMostOneHolder == \A t, u \in Holders : t = u
THEOREM MutualExclusion ==
    ASSUME TRUE \notin Oversubscribed
    PROVE  Spec /\ []TestsInBounds => []AtMostOneHolder
<1>1. IInv => AtMostOneHolder
  BY OneHolder DEF IInv, Granting, AtMostOneHolder
<1>2. QED
  BY <1>1, AlwaysIInv, PTL

----------------------------------------------------------------------------
(* The refinement.  Who has a ticket that is out, and the lock's state in terms of it.  *)
Has(t, k) == (pc[t] \in HasTicket /\ loc[t].ticket = k) \/ (pc[t] = "cs" /\ nowServing = k)

LEMMA MaxIs ==
    ASSUME NEW S, NEW m \in S, \A y \in S : m >= y /\ y \in Nat
    PROVE  Max(S) = m
<1>1. \A x \in S : (\A y \in S : x >= y) => x = m
  <2> SUFFICES ASSUME NEW x \in S, \A y \in S : x >= y PROVE x = m
    OBVIOUS
  <2>1. x >= m /\ m >= x /\ x \in Nat /\ m \in Nat
    OBVIOUS
  <2>2. QED
    BY <2>1
<1>2. \E x \in S : \A y \in S : x >= y
  OBVIOUS
<1>3. QED
  BY <1>1, <1>2 DEF Max

\* The ticket that is granted is the ghost of the invariant.
LEMMA GrantedIs ==
    ASSUME Types, NEW g \in Nat, Words(g)
    PROVE  Granted = g
<1>1. polls \in 1..Len(mem)
  BY DEF Types
<1>2. PICK now : now = mem[polls].poll
  OBVIOUS
<1>3. \A i \in DOMAIN now : now[i] <= g /\ now[i] \in Nat
  BY <1>1, <1>2, AreaFacts DEF Words
<1>4. \E i \in DOMAIN now : now[i] = g
  BY <1>2 DEF Words
<1>5. PICK S : S = {now[i] : i \in DOMAIN now}
  OBVIOUS
<1>6. g \in S /\ \A y \in S : g >= y /\ y \in Nat
  BY <1>3, <1>4, <1>5
<1>7. Max(S) = g
  BY <1>6, MaxIs
<1>8. QED
  BY <1>2, <1>5, <1>7 DEF Granted

\* A ticket that is out is one thread's.
LEMMA HasIsUnique ==
    ASSUME NEW g \in Nat, Tickets(g), NEW k, NEW t \in Threads, NEW u \in Threads,
           Has(t, k), Has(u, k)
    PROVE  t = u
BY DEF Has, Tickets

LEMMA HolderIs ==
    ASSUME NEW g \in Nat, Tickets(g), NEW k, NEW t \in Threads, Has(t, k)
    PROVE  HolderOf(k) = t
<1>1. CASE k = nowServing /\ \E u \in Threads : pc[u] = "cs"
  <2>1. \A u \in Threads : pc[u] = "cs" <=> u = t
    BY <1>1, HasIsUnique DEF Has
  <2>2. (CHOOSE u \in Threads : At(u, "cs")) = t
    BY <2>1 DEF At
  <2>3. QED
    BY <1>1, <2>2 DEF HolderOf, At
<1>2. CASE ~(k = nowServing /\ \E u \in Threads : pc[u] = "cs")
  <2>1. Ticketed = {u \in Threads : pc[u] \in HasTicket}
    BY DEF Ticketed, HasTicket
  <2>2. \A u \in Ticketed : loc[u].ticket = k <=> u = t
    BY <1>2, <2>1, HasIsUnique DEF Has
  <2>3. t \in Ticketed
    BY <1>2, <2>1 DEF Has
  <2>4. (CHOOSE u \in Ticketed : loc[u].ticket = k) = t
    BY <2>2, <2>3
  <2>5. QED
    BY <1>2, <2>4 DEF HolderOf, At
<1>3. QED
  BY <1>1, <1>2

LEMMA SomebodyHas ==
    ASSUME NEW g \in Nat, Tickets(g), Accounted(g), NEW k \in Nat, g <= k, k < nextTicket
    PROVE  /\ HolderOf(k) \in Threads /\ Has(HolderOf(k), k)
<1>1. \E t \in Threads : Has(t, k)
  BY DEF Accounted, Has, Tickets
<1>2. QED
  BY <1>1, HolderIs

\* The mapped lock: the owner has the ticket that is granted, the queue the later ones.
LEMMA AbsState ==
    ASSUME Types, NEW g \in Nat, Granting(g)
    PROVE  /\ Owner = IF g = nextTicket THEN NoThread ELSE HolderOf(g)
           /\ Waiters = [i \in 1..(nextTicket - g - 1) |-> HolderOf(g + i)]
<1>1. Granted = g
  BY GrantedIs DEF Granting
<1>2. ~(Cardinality(Holders) > 1)
  <2>1. CASE Holders = {}
    BY <2>1, FS_EmptySet
  <2>2. CASE Holders # {}
    <3>1. PICK t \in Holders : Holders = {t}
      BY <2>2, OneHolder DEF Granting
    <3>2. Cardinality(Holders) = 1
      BY <3>1, FS_Singleton
    <3>3. QED
      BY <3>2
  <2>3. QED
    BY <2>1, <2>2
<1>3. QED
  BY <1>1, <1>2 DEF Owner, Waiters

(* The same as a state predicate, to be used before and after a step.  *)
Mapped(g) ==
    /\ Owner = IF g = nextTicket THEN NoThread ELSE HolderOf(g)
    /\ Waiters = [i \in 1..(nextTicket - g - 1) |-> HolderOf(g + i)]
    /\ \A k \in Nat : g <= k /\ k < nextTicket => HolderOf(k) \in Threads /\ Has(HolderOf(k), k)
    /\ \A t \in Threads : \A k \in Nat : Has(t, k) => HolderOf(k) = t
Consistent == IInv /\ \A g \in Nat : Granting(g) => Mapped(g)

LEMMA IsConsistent == IInv => Consistent
<1> SUFFICES ASSUME IInv, NEW g \in Nat, Granting(g) PROVE Mapped(g)
  BY DEF Consistent
<1>1. Types /\ Tickets(g) /\ Accounted(g)
  BY DEF IInv, Granting
<1>2. QED
  BY <1>1, AbsState, SomebodyHas, HolderIs DEF Mapped

LEMMA SameTicketsSameLock ==
    ASSUME Consistent, Consistent', NEW g \in Nat, Granting(g), Granting(g)', UNCHANGED nextTicket,
           \A u \in Threads : \A k \in Nat : Has(u, k) => Has(u, k)'
    PROVE  UNCHANGED <<Owner, Waiters>>
<1>t. Mapped(g) /\ Mapped(g)' /\ nextTicket \in Nat /\ g <= nextTicket
  <2>1. Mapped(g) /\ Mapped(g)'
    BY DEF Consistent
  <2>2. nextTicket \in Nat /\ g <= nextTicket
    BY TicketAssumption DEF Consistent, IInv, Types, Granting, Tickets, TicketAssumption
  <2>3. QED
    BY <2>1, <2>2
<1>1. \A k \in Nat : g <= k /\ k < nextTicket => HolderOf(k)' = HolderOf(k)
  BY <1>t DEF Mapped
<1>2. UNCHANGED Owner
  <2>1. g # nextTicket => HolderOf(g)' = HolderOf(g)
    BY <1>1, <1>t
  <2>2. QED
    BY <1>t, <2>1 DEF Mapped
<1>3. UNCHANGED Waiters
  <2>1. \A i \in 1..(nextTicket - g - 1) : HolderOf(g + i)' = HolderOf(g + i)
    BY <1>1, <1>t
  <2>2. QED
    BY <1>t, <2>1 DEF Mapped
<1>4. QED
  BY <1>2, <1>3

\* The ticket granted after a step, from the words of the area in use.
LEMMA GrantedAfter ==
    ASSUME IInv', NEW g \in Nat,
           \E i \in DOMAIN mem'[polls'].poll : mem'[polls'].poll[i] = g,
           \A i \in DOMAIN mem'[polls'].poll : mem'[polls'].poll[i] <= g
    PROVE  Granting(g)'
<1>1. PICK h \in Nat : Granting(h)'
  BY DEF IInv
<1>2. /\ polls' \in 1..Len(mem')
      /\ \A i \in DOMAIN mem'[polls'].poll : mem'[polls'].poll[i] <= h
      /\ \E i \in DOMAIN mem'[polls'].poll : mem'[polls'].poll[i] = h
  BY <1>1 DEF IInv, Types, Granting, Words
<1>3. h <= g /\ g <= h
  BY <1>2
<1>4. h = g
  BY <1>3
<1>5. QED
  BY <1>1, <1>4

\* A step in which the words in use stay and nobody's ticket changes hands.
LEMMA Stutter ==
    ASSUME Consistent, Consistent', UNCHANGED nextTicket, NEW g \in Nat, Granting(g),
           mem'[polls'].poll = mem[polls].poll,
           \A u \in Threads : \A k \in Nat : Has(u, k) => Has(u, k)'
    PROVE  UNCHANGED <<Owner, Waiters>>
<1>1. polls \in 1..Len(mem)
  BY DEF Consistent, IInv, Types
<1>2. Granting(g)'
  BY <1>1, GrantedAfter DEF Consistent, Granting, Words
<1>3. QED
  BY <1>2, SameTicketsSameLock

\* A thread that moves on with its ticket, or returns from a lost test, or enters with it.
LEMMA HasKept ==
    ASSUME IInv, NEW g \in Nat, Tickets(g), NEW t \in Threads, NEW w,
           pc' = [pc EXCEPT ![t] = w], \A u \in Threads : u # t => loc'[u] = loc[u],
           pc[t] # "cs" => nowServing' = nowServing \/ pc[t] = "serve",
           pc[t] # "cs",
           \/ pc[t] \notin HasTicket
           \/ w \in HasTicket /\ loc'[t].ticket = loc[t].ticket
           \/ w = "cs" /\ nowServing' = loc[t].ticket
    PROVE  \A u \in Threads : \A k \in Nat : Has(u, k) => Has(u, k)'
<1>1. pc'[t] = w /\ \A u \in Threads : u # t => pc'[u] = pc[u]
  BY DEF IInv, Types
<1>2. pc[t] = "serve" => \A u \in Threads : pc[u] # "cs"
  BY DEF Tickets, HasTicket
<1>3. QED
  BY <1>1, <1>2 DEF Has

LEMMA InsideAbs ==
    ASSUME Consistent, Consistent', NEW t \in Threads,
           Test(t) \/ (Inside(t) /\ ~(TestTake(t) /\ nextTicket = loc[t].ticket))
    PROVE  UNCHANGED <<Owner, Waiters>>
<1>t. IInv /\ Types /\ Layout /\ polls \in 1..Len(mem) /\ mem \in Seq(AreaType)
  BY DEF Consistent, IInv, Types
<1>1. PICK g \in Nat : Granting(g) /\ Tickets(g) /\ Words(g)
  BY <1>t DEF IInv, Granting
<1>2. CASE ReadMask(t) \/ ReadPolls(t)
  <2>1. PICK w \in HasTicket : pc' = [pc EXCEPT ![t] = w]
    BY <1>2 DEF ReadMask, ReadPolls, Goto, HasTicket
  <2>2. /\ loc'[t].ticket = loc[t].ticket /\ \A u \in Threads : u # t => loc'[u] = loc[u]
        /\ pc[t] # "cs"
    BY <1>2, <1>t DEF ReadMask, ReadPolls, At, Types, Locals
  <2>3. UNCHANGED <<polls, nextTicket, nowServing, mem>>
    BY <1>2 DEF ReadMask, ReadPolls, shape, ticks
  <2>4. QED
    BY <1>1, <1>t, <2>1, <2>2, <2>3, HasKept, Stutter
<1>3. CASE Poll(t)
  <2>1. PICK v : Goto(t, IF v < loc[t].ticket THEN "mask" ELSE "serve")
    BY <1>3 DEF Poll
  <2>2. PICK w \in HasTicket : pc' = [pc EXCEPT ![t] = w]
    BY <2>1 DEF Goto, HasTicket
  <2>3. UNCHANGED <<polls, nextTicket, nowServing, mem, loc>> /\ pc[t] # "cs"
    BY <1>3 DEF Poll, At, shape, ticks
  <2>4. QED
    BY <1>1, <1>t, <2>2, <2>3, HasKept, Stutter
<1>4. CASE Serve(t)
  <2>1. pc' = [pc EXCEPT ![t] = "check"] /\ pc[t] = "serve" /\ UNCHANGED <<polls, nextTicket, loc>>
    BY <1>4 DEF Serve, At, Goto
  <2>2. mem'[polls'].poll = mem[polls].poll
    BY <1>4, <1>t DEF Serve, Layout, Types
  <2>3. \A u \in Threads : \A k \in Nat : Has(u, k) => Has(u, k)'
    BY <1>1, <1>t, <2>1, HasKept DEF HasTicket
  <2>4. QED
    BY <1>1, <2>1, <2>2, <2>3, Stutter
<1>5. CASE Reconfigure(t)
  <2>1. /\ pc' = [pc EXCEPT ![t] = "putPolls"] /\ pc[t] = "check"
        /\ UNCHANGED <<polls, nextTicket, nowServing>>
    BY <1>5 DEF Reconfigure, At, Goto, shape, ticks
  <2>2. /\ loc'[t].ticket = loc[t].ticket /\ \A u \in Threads : u # t => loc'[u] = loc[u]
    BY <1>5, <1>t DEF Reconfigure, Types, Locals
  <2>3. mem'[polls'].poll = mem[polls].poll
    <3>1. PICK area : mem' = Append(mem, area)
      BY <1>5 DEF Reconfigure
    <3>2. QED
      BY <1>t, <2>1, <3>1
  <2>4. \A u \in Threads : \A k \in Nat : Has(u, k) => Has(u, k)'
    BY <1>1, <1>t, <2>1, <2>2, HasKept DEF HasTicket
  <2>5. QED
    BY <1>1, <2>1, <2>3, <2>4, Stutter
<1>6. CASE Keep(t) \/ PutCleanup(t)
  <2>1. /\ pc' = [pc EXCEPT ![t] = "cs"] /\ pc[t] \in {"check", "putCleanup"}
        /\ UNCHANGED <<polls, nextTicket, nowServing, mem>>
        /\ loc' = [loc EXCEPT ![t] = Blank]
    BY <1>6 DEF Keep, PutCleanup, At, Return, Goto, shape, ticks
  <2>2. \A u \in Threads : u # t => loc'[u] = loc[u]
    BY <1>t, <2>1 DEF Types
  <2>3. nowServing' = loc[t].ticket
    BY <1>1, <2>1 DEF Tickets, Serving
  <2>4. \A u \in Threads : \A k \in Nat : Has(u, k) => Has(u, k)'
    BY <1>1, <1>t, <2>1, <2>2, <2>3, HasKept
  <2>5. QED
    BY <1>1, <2>1, <2>4, Stutter
<1>7. CASE PutPolls(t)
  <2>1. /\ pc' = [pc EXCEPT ![t] = "putMask"] /\ pc[t] = "putPolls" /\ polls' = loc[t].polls
        /\ UNCHANGED <<nextTicket, nowServing, mem, loc>>
    BY <1>7 DEF PutPolls, At, Goto, ticks
  <2>2. loc[t].polls \in 1..Len(mem)
    BY <1>t, <2>1 DEF Layout
  <2>3. Granting(g)'
    BY <1>1, <2>1, <2>2, GrantedAfter DEF Consistent, Words
  <2>4. \A u \in Threads : \A k \in Nat : Has(u, k) => Has(u, k)'
    BY <1>1, <1>t, <2>1, HasKept DEF HasTicket
  <2>5. QED
    BY <1>1, <2>1, <2>3, <2>4, SameTicketsSameLock
<1>8. CASE PutMask(t)
  <2>1. /\ pc' = [pc EXCEPT ![t] = "putCleanup"] /\ pc[t] = "putMask"
        /\ UNCHANGED <<polls, nextTicket, nowServing, mem, loc>>
    BY <1>8 DEF PutMask, At, Goto, ticks
  <2>2. \A u \in Threads : \A k \in Nat : Has(u, k) => Has(u, k)'
    BY <1>1, <1>t, <2>1, HasKept DEF HasTicket
  <2>3. QED
    BY <1>1, <2>1, <2>2, Stutter
<1>9. CASE Test(t) \/ TestPolls(t) \/ TestMask(t) \/ TestPoll(t)
           \/ (TestTake(t) /\ nextTicket # loc[t].ticket)
  <2>1. pc[t] \in {"out"} \union Testing /\ UNCHANGED <<polls, nextTicket, nowServing, mem>>
    BY <1>9 DEF Test, TestPolls, TestMask, TestPoll, TestTake, At, shape, ticks, Testing
  <2>2. \E w : pc' = [pc EXCEPT ![t] = w]
    BY <1>9 DEF Test, TestPolls, TestMask, TestPoll, TestTake, Goto, Return
  <2>3. \A u \in Threads : u # t => loc'[u] = loc[u]
    BY <1>9, <1>t DEF Test, TestPolls, TestMask, TestPoll, TestTake, Return, Types
  <2>4. pc[t] \notin HasTicket /\ pc[t] # "cs"
    BY <2>1 DEF HasTicket, Testing
  <2>5. \A u \in Threads : \A k \in Nat : Has(u, k) => Has(u, k)'
    BY <1>1, <1>t, <2>1, <2>2, <2>3, <2>4, HasKept
  <2>6. QED
    BY <1>1, <2>1, <2>5, Stutter
<1>10. QED
  BY <1>2, <1>3, <1>4, <1>5, <1>6, <1>7, <1>8, <1>9 DEF Inside

\* The next ticket goes to a thread that has none: it grabs a free lock or joins the queue.
LEMMA TicketAbs ==
    ASSUME Consistent, Consistent', NEW t \in Threads, NEW g \in Nat, Granting(g), Granting(g)',
           NEW n \in Nat, nextTicket = n, nextTicket' = n + 1,
           \A k \in Nat : ~Has(t, k), Has(t, n)',
           \A u \in Threads : \A k \in Nat : Has(u, k) => Has(u, k)'
    PROVE  IF g = nextTicket THEN Abs!Grab(t) ELSE Abs!Enqueue(t)
<1>t. Mapped(g) /\ Mapped(g)' /\ nextTicket \in Nat /\ g <= nextTicket
  <2>1. Mapped(g) /\ Mapped(g)'
    BY DEF Consistent
  <2>2. nextTicket \in Nat /\ g <= nextTicket
    BY TicketAssumption DEF Consistent, IInv, Types, Granting, Tickets, TicketAssumption
  <2>3. QED
    BY <2>1, <2>2
<1>0. n = nextTicket /\ nextTicket' = n + 1 /\ g <= n
  BY <1>t
<1>1. HolderOf(n)' = t
  BY <1>t, <1>0 DEF Mapped
<1>2. \A k \in Nat : g <= k /\ k < n =>
         HolderOf(k)' = HolderOf(k) /\ HolderOf(k) \in Threads /\ HolderOf(k) # t
  BY <1>t, <1>0 DEF Mapped
<1>3. /\ Waiters = [i \in 1..(n - g - 1) |-> HolderOf(g + i)]
      /\ Waiters' = [i \in 1..(n + 1 - g - 1) |-> HolderOf(g + i)']
  BY <1>t, <1>0 DEF Mapped
<1>4. CASE g = n
  <2>1. Owner = NoThread /\ Owner' = t
    BY <1>t, <1>0, <1>1, <1>4 DEF Mapped
  <2>2. 1..(n - g - 1) = {} /\ 1..(n + 1 - g - 1) = {}
    BY <1>4
  <2>3. Waiters' = Waiters
    BY <1>3, <2>2
  <2>4. QED
    BY <1>0, <1>4, <2>1, <2>3 DEF Abs!Grab
<1>5. CASE g # n
  <2>1. Owner = HolderOf(g) /\ Owner' = Owner /\ Owner \in Threads /\ Owner # t
    BY <1>t, <1>0, <1>2, <1>5 DEF Mapped
  <2>2. PICK m \in Nat : m = n - g - 1
    BY <1>0, <1>5
  <2>3. m + 1 = n + 1 - g - 1 /\ g + (m + 1) = n
    BY <1>0, <2>2
  <2>4. \A i \in 1..m : HolderOf(g + i)' = HolderOf(g + i) /\ HolderOf(g + i) \in Threads
                        /\ HolderOf(g + i) # t
    <3>1. \A i \in 1..m : g + i \in Nat /\ g <= g + i /\ g + i < n
      BY <1>0, <2>2
    <3>2. QED
      BY <1>2, <3>1
  <2>5. Waiters = [i \in 1..m |-> HolderOf(g + i)]
    BY <1>3, <2>2
  <2>6. Waiters \in Seq(Threads) /\ Len(Waiters) = m
    BY <2>4, <2>5
  <2>7. \A i \in 1..m : Waiters[i] # t
    BY <2>4, <2>5
  <2>8. t \notin Abs!Waiting
    BY <2>6, <2>7 DEF Abs!Waiting
  <2>9. Waiters' = [i \in 1..(m + 1) |-> IF i = m + 1 THEN t ELSE HolderOf(g + i)]
    <3>1. Waiters' = [i \in 1..(m + 1) |-> HolderOf(g + i)']
      BY <1>3, <2>3
    <3>2. HolderOf(g + (m + 1))' = t
      BY <1>1, <2>3
    <3>3. \A i \in 1..(m + 1) : i # m + 1 => i \in 1..m
      OBVIOUS
    <3>4. QED
      BY <2>4, <3>1, <3>2, <3>3
  <2>10. Waiters' = Append(Waiters, t)
    BY <2>5, <2>6, <2>9
  <2>11. QED
    BY <1>0, <1>5, <2>1, <2>8, <2>10, ThreadAssumption DEF Abs!Enqueue, ThreadAssumption
<1>6. QED
  BY <1>4, <1>5

LEMMA TakeAbs ==
    ASSUME Consistent, Consistent', NEW t \in Threads, Take(t)
    PROVE  Abs!Grab(t) \/ Abs!Enqueue(t)
<1>t. IInv /\ Types /\ polls \in 1..Len(mem)
  BY DEF Consistent, IInv, Types
<1>1. PICK g \in Nat : Granting(g) /\ Tickets(g) /\ Words(g)
  BY <1>t DEF IInv, Granting
<1>2. /\ pc' = [pc EXCEPT ![t] = "mask"] /\ pc[t] = "out" /\ nextTicket' = nextTicket + 1
      /\ UNCHANGED <<polls, nowServing, mem>>
  BY DEF Take, At, Goto, shape
<1>3. loc'[t].ticket = nextTicket /\ \A u \in Threads : u # t => loc'[u] = loc[u]
  BY <1>t DEF Take, Types, Locals
<1>4. Granting(g)'
  BY <1>1, <1>2, <1>t, GrantedAfter DEF Consistent, Words
<1>5. \A u \in Threads : \A k \in Nat : Has(u, k) => Has(u, k)'
  BY <1>1, <1>2, <1>3, <1>t, HasKept DEF HasTicket
<1>6. \A k \in Nat : ~Has(t, k)
  BY <1>2 DEF Has, HasTicket
<1>7. PICK n \in Nat : n = nextTicket
  BY <1>t, LocFacts
<1>8. Has(t, n)'
  <2>1. pc'[t] = "mask"
    BY <1>2, <1>t DEF Types
  <2>2. QED
    BY <1>3, <1>7, <2>1 DEF Has, HasTicket
<1>9. QED
  BY <1>1, <1>2, <1>4, <1>5, <1>6, <1>7, <1>8, TicketAbs

\* A test that wins the swap finds nobody before it: no ticket is out.
LEMMA TestTakeAbs ==
    ASSUME Consistent, Consistent', NEW t \in Threads, TestTake(t), nextTicket = loc[t].ticket
    PROVE  Abs!Grab(t)
<1>t. IInv /\ Types /\ polls \in 1..Len(mem)
  BY DEF Consistent, IInv, Types
<1>1. PICK g \in Nat : Granting(g) /\ Tickets(g) /\ Words(g)
  BY <1>t DEF IInv, Granting
<1>2. PICK n \in Nat : n = nextTicket
  BY <1>t, LocFacts
<1>3. /\ pc' = [pc EXCEPT ![t] = "cs"] /\ pc[t] = "testTake" /\ loc' = [loc EXCEPT ![t] = Blank]
      /\ nextTicket' = n + 1 /\ nowServing' = n /\ UNCHANGED <<polls, mem>>
  BY <1>2 DEF TestTake, At, Return, Goto, shape
<1>4. g = n
  BY <1>1, <1>2, <1>3 DEF Tickets
<1>5. Granting(g)'
  BY <1>1, <1>3, <1>t, GrantedAfter DEF Consistent, Words
<1>6. \A u \in Threads : pc[u] # "cs" /\ pc[u] \notin HasTicket
  BY <1>1, <1>2, <1>4, LocFacts, <1>t DEF Tickets
<1>7. \A u \in Threads : \A k \in Nat : ~Has(u, k)
  BY <1>6 DEF Has
<1>8. Has(t, n)'
  BY <1>3, <1>t DEF Has, Types
<1>9. QED
  BY <1>1, <1>2, <1>3, <1>4, <1>5, <1>7, <1>8, TicketAbs

LEMMA SplitSeq ==
    ASSUME NEW S, NEW m \in Nat, NEW q \in [1..(m + 1) -> S], NEW r \in [1..m -> S],
           \A j \in 1..m : r[j] = q[j + 1]
    PROVE  q # <<>> /\ Head(q) = q[1] /\ Tail(q) = r
<1>1. q \in Seq(S) /\ Len(q) = m + 1 /\ q # <<>>
  OBVIOUS
<1>2. r \in Seq(S) /\ Len(r) = m
  OBVIOUS
<1>3. /\ Tail(q) \in Seq(S) /\ Len(Tail(q)) = Len(r)
      /\ \A j \in 1..Len(Tail(q)) : Tail(q)[j] = r[j]
  BY <1>1, <1>2, HeadTailProperties
<1>4. Tail(q) = r
  BY <1>2, <1>3, SeqEqual
<1>5. Head(q) = q[1]
  BY <1>1
<1>6. QED
  BY <1>1, <1>4, <1>5

\* The next ticket's word is written: its thread, if there is one, owns the lock.
LEMMA ReleaseAbs ==
    ASSUME Consistent, Consistent', NEW t \in Threads, Release(t)
    PROVE  Abs!Release(t)
<1>t. IInv /\ Types /\ polls \in 1..Len(mem) /\ mem \in Seq(AreaType)
  BY DEF Consistent, IInv, Types
<1>1. PICK g \in Nat : Granting(g) /\ Tickets(g) /\ Words(g)
  BY <1>t DEF IInv, Granting
<1>2. PICK n \in Nat : n = nextTicket
  BY <1>t, LocFacts
<1>3. PICK i : i = Slot(nowServing + 1, mask)
  OBVIOUS
<1>4. /\ pc[t] = "cs" /\ pc' = [pc EXCEPT ![t] = "out"] /\ loc' = [loc EXCEPT ![t] = Blank]
      /\ mem' = [mem EXCEPT ![polls].poll[i] = nowServing + 1]
      /\ UNCHANGED <<polls, nextTicket, nowServing>>
  BY <1>3 DEF Release, At, Return, Goto, shape, ticks
<1>5. nowServing = g /\ g < n /\ g + 1 \in Nat
  BY <1>1, <1>2, <1>4 DEF Tickets
<1>6. Granting(g + 1)'
  <2>1. i \in DOMAIN mem[polls].poll
    BY <1>3, <1>4, <1>t, ReleaseValid DEF Valid
  <2>2. PICK m \in Nat : mem[polls].poll \in [0..m -> Nat]
    BY <1>t, AreaFacts DEF Polls
  <2>3. mem[polls] \in AreaType
    BY <1>t
  <2>4. mem'[polls].poll = [mem[polls].poll EXCEPT ![i] = g + 1]
    BY <1>4, <1>5, <1>t, <2>3 DEF AreaType
  <2>5. mem'[polls].poll[i] = g + 1 /\ i \in DOMAIN mem'[polls].poll
    BY <2>1, <2>2, <2>4
  <2>6. \A j \in DOMAIN mem'[polls].poll : mem'[polls].poll[j] <= g + 1
    <3>1. \A j \in DOMAIN mem[polls].poll : mem[polls].poll[j] <= g /\ mem[polls].poll[j] \in Nat
      BY <1>1, <1>t, <2>2 DEF Words
    <3>2. QED
      BY <2>1, <2>2, <2>4, <3>1
  <2>7. QED
    BY <1>4, <1>5, <2>5, <2>6, GrantedAfter DEF Consistent
<1>7. \A u \in Threads : \A k \in Nat : g + 1 <= k /\ Has(u, k) => Has(u, k)'
  <2>1. \A u \in Threads : u # t => pc'[u] = pc[u] /\ loc'[u] = loc[u]
    BY <1>4, <1>t DEF Types
  <2>2. \A k \in Nat : g + 1 <= k => ~Has(t, k)
    BY <1>4, <1>5 DEF Has, HasTicket
  <2>3. QED
    BY <1>4, <2>1, <2>2 DEF Has
<1>m. Mapped(g) /\ Mapped(g + 1)'
  BY <1>1, <1>5, <1>6 DEF Consistent
<1>8. \A k \in Nat : g + 1 <= k /\ k < n => HolderOf(k)' = HolderOf(k)
  BY <1>2, <1>5, <1>7, <1>m DEF Mapped
<1>9. Owner = t
  BY <1>2, <1>4, <1>5, <1>m DEF Mapped, Has
<1>10. /\ Owner' = IF g + 1 = n THEN NoThread ELSE HolderOf(g + 1)'
       /\ Waiters = [j \in 1..(n - g - 1) |-> HolderOf(g + j)]
       /\ Waiters' = [j \in 1..(n - (g + 1) - 1) |-> HolderOf((g + 1) + j)']
  BY <1>2, <1>4, <1>m DEF Mapped
<1>11. CASE g + 1 = n
  <2>1. 1..(n - g - 1) = {} /\ 1..(n - (g + 1) - 1) = {}
    BY <1>5, <1>11
  <2>2. Waiters = <<>> /\ Waiters' = <<>>
    BY <1>10, <2>1
  <2>3. QED
    BY <1>9, <1>10, <1>11, <2>2 DEF Abs!Release
<1>12. CASE g + 1 # n
  <2>1. PICK m \in Nat : m + 1 = n - g - 1 /\ m = n - (g + 1) - 1
    BY <1>5, <1>12
  <2>2. Waiters = [j \in 1..(m + 1) |-> HolderOf(g + j)]
    BY <1>10, <2>1
  <2>3. \A j \in 1..m : g + (j + 1) = (g + 1) + j /\ (g + 1) + j \in Nat
                        /\ g + 1 <= (g + 1) + j /\ (g + 1) + j < n
    BY <2>1
  <2>4. Waiters' = [j \in 1..m |-> HolderOf(g + (j + 1))]
    BY <1>8, <1>10, <2>1, <2>3
  <2>5. HolderOf(g + 1)' = HolderOf(g + 1)
    BY <1>5, <1>8, <1>12
  <2>6. PICK S : S = {HolderOf(g + j) : j \in 1..(m + 1)}
    OBVIOUS
  <2>7. \A j \in 1..m : j + 1 \in 1..(m + 1) /\ HolderOf(g + (j + 1)) \in S
    BY <2>6
  <2>8. Waiters \in [1..(m + 1) -> S] /\ Waiters' \in [1..m -> S]
    BY <2>2, <2>4, <2>6, <2>7
  <2>9. /\ Waiters[1] = HolderOf(g + 1)
        /\ \A j \in 1..m : Waiters'[j] = Waiters[j + 1]
    BY <2>2, <2>4, <2>7
  <2>10. Waiters # <<>> /\ Head(Waiters) = Waiters[1] /\ Tail(Waiters) = Waiters'
    BY <2>8, <2>9, SplitSeq
  <2>11. QED
    BY <1>9, <1>10, <1>12, <2>5, <2>9, <2>10 DEF Abs!Release
<1>13. QED
  BY <1>11, <1>12

LEMMA StepAbs == Consistent /\ Consistent' /\ [Next]_vars => [Abs!Next]_(Abs!vars)
<1> SUFFICES ASSUME Consistent, Consistent', [Next]_vars
             PROVE  Abs!Next \/ UNCHANGED <<Owner, Waiters>>
  BY DEF Abs!vars
<1>1. ASSUME NEW t \in Threads, Take(t) PROVE Abs!Next
  BY <1>1, TakeAbs DEF Abs!Next
<1>2. ASSUME NEW t \in Threads, Release(t) PROVE Abs!Next
  BY <1>2, ReleaseAbs DEF Abs!Next
<1>3. ASSUME NEW t \in Threads, Test(t) \/ Inside(t)
      PROVE  Abs!Next \/ UNCHANGED <<Owner, Waiters>>
  BY <1>3, TestTakeAbs, InsideAbs DEF Abs!Next
<1>4. CASE UNCHANGED vars \/ Stopped
  <2>1. UNCHANGED <<polls, nextTicket, nowServing, mem, pc, loc>>
    BY <1>4 DEF vars, shape, ticks, Stopped
  <2>2. PICK g \in Nat : Granting(g)
    BY DEF Consistent, IInv
  <2>3. \A u \in Threads : \A k \in Nat : Has(u, k) => Has(u, k)'
    BY <2>1 DEF Has
  <2>4. QED
    BY <2>1, <2>2, <2>3, Stutter
<1>5. QED
  BY <1>1, <1>2, <1>3, <1>4 DEF Next

\* Every step of the lock is one of a fair lock with a queue, or none: one owner at a time,
\* served in the order of the tickets, through every replacement of the polling area.
THEOREM FirstComeFirstServed ==
    ASSUME TRUE \notin Oversubscribed
    PROVE  Spec /\ []TestsInBounds => Abs!Safety
<1>1. Init => Abs!Init
  <2> SUFFICES ASSUME Init PROVE Abs!Init
    OBVIOUS
  <2>1. Consistent /\ nextTicket = 0
    BY InitIInv, IsConsistent DEF Init
  <2>2. PICK g \in Nat : Granting(g) /\ g = 0
    BY <2>1 DEF Consistent, IInv, Granting, Tickets
  <2>3. Mapped(g)
    BY <2>1, <2>2 DEF Consistent
  <2>4. 1..(nextTicket - g - 1) = {}
    BY <2>1, <2>2
  <2>5. Owner = NoThread /\ Waiters = <<>>
    BY <2>1, <2>2, <2>3, <2>4 DEF Mapped
  <2>6. QED
    BY <2>5 DEF Abs!Init
<1>2. QED
  BY <1>1, AlwaysIInv, IsConsistent, StepAbs, PTL DEF Spec, Abs!Safety

----------------------------------------------------------------------------
(* Where nobody tests, the hypothesis on tests holds.  *)
NobodyTests == pc \in [Threads -> PC \ Testing]

LEMMA NobodyTestsStep ==
    ASSUME Testers = {}
    PROVE  NobodyTests /\ [Next]_vars => NobodyTests'
<1> SUFFICES ASSUME NobodyTests, [Next]_vars PROVE NobodyTests'
  OBVIOUS
<1>1. CASE UNCHANGED vars \/ Stopped
  BY <1>1 DEF NobodyTests, vars, Stopped
<1>2. ASSUME NEW t \in Threads, Take(t) \/ Test(t) \/ Release(t) \/ Inside(t) PROVE NobodyTests'
  <2>1. ASSUME NEW w \in PC \ Testing, Goto(t, w) PROVE NobodyTests'
    BY <2>1 DEF NobodyTests, Goto
  <2>2. "mask" \in PC \ Testing /\ "polls" \in PC \ Testing /\ "poll" \in PC \ Testing
        /\ "serve" \in PC \ Testing /\ "check" \in PC \ Testing /\ "putPolls" \in PC \ Testing
        /\ "putMask" \in PC \ Testing /\ "putCleanup" \in PC \ Testing /\ "cs" \in PC \ Testing
        /\ "out" \in PC \ Testing
    BY DEF PC, Testing, HasTicket
  <2>3. pc[t] \notin Testing
    BY DEF NobodyTests
  <2>4. CASE Take(t) \/ Test(t) \/ Release(t)
    BY <2>1, <2>2, <2>4 DEF Take, Test, Release, Return
  <2>5. CASE ReadMask(t) \/ ReadPolls(t) \/ Serve(t)
    BY <2>1, <2>2, <2>5 DEF ReadMask, ReadPolls, Serve
  <2>6. CASE Poll(t)
    <3>1. PICK v : Goto(t, IF v < loc[t].ticket THEN "mask" ELSE "serve")
      BY <2>6 DEF Poll
    <3>2. QED
      BY <2>1, <2>2, <3>1
  <2>7. CASE Reconfigure(t) \/ Keep(t) \/ PutPolls(t) \/ PutMask(t) \/ PutCleanup(t)
    BY <2>1, <2>2, <2>7 DEF Reconfigure, Keep, PutPolls, PutMask, PutCleanup, Return
  <2>8. CASE TestPolls(t) \/ TestMask(t) \/ TestPoll(t) \/ TestTake(t)
    BY <2>3, <2>8 DEF TestPolls, TestMask, TestPoll, TestTake, At, Testing
  <2>9. QED
    BY <1>2, <2>4, <2>5, <2>6, <2>7, <2>8 DEF Inside
<1>3. QED
  BY <1>1, <1>2 DEF Next

LEMMA NoTestStrays == ASSUME Testers = {} PROVE Spec => []TestsInBounds
<1>1. Init => NobodyTests
  BY DEF Init, NobodyTests, PC, Testing, HasTicket
<1>2. NobodyTests => TestsInBounds
  BY DEF NobodyTests, TestsInBounds, At, Testing
<1>3. QED
  BY <1>1, <1>2, NobodyTestsStep, PTL DEF Spec

\* A lock that is only acquired and released is a fair lock with a queue and keeps every
\* invariant, for any number of threads.
THEOREM SafeWithoutTests ==
    ASSUME TRUE \notin Oversubscribed, Testers = {}
    PROVE  Spec => Abs!Safety /\ [](TypeOK /\ PollsInBounds /\ HolderUpToDate /\ AtMostOneHolder)
BY NoTestStrays, TypeCorrect, NoWildPolls, HolderIsUpToDate, MutualExclusion,
   FirstComeFirstServed, PTL
=============================================================================
