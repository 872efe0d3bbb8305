------------------------------ MODULE DrdpaLock ------------------------------
(***************************************************************************)
(* The DRDPA ticket lock of kmp_lock.cpp: a ticket lock whose waiters poll   *)
(* different words of an area that the holder reallocates when the number of *)
(* waiters changes.  A waiter reads the mask, the pointer to the area and the *)
(* word it polls in three steps, so it may combine an old pointer with a new *)
(* mask, or poll an area that has been freed.                                *)
(***************************************************************************)
EXTENDS Integers, Sequences, FiniteSets, FiniteSetsExt

CONSTANTS
    Threads, NoThread,
    Testers,        \* the threads that call omp_test_lock
    Oversubscribed, \* subset of BOOLEAN: what a holder may find of __kmp_nth > __kmp_avail_proc
    MaxTicket       \* bound on the tickets handed out

ASSUME ThreadAssumption == NoThread \notin Threads
ASSUME TicketAssumption == MaxTicket \in Nat
ASSUME OversubAssumption == Oversubscribed \subseteq BOOLEAN /\ Oversubscribed # {}

VARIABLES
    polls, mask, numPolls,  \* the lock: pointer to the polling area, mask, size
    oldPolls, cleanup,      \* an area to free, the ticket whose holder may free it
    nextTicket, nowServing,
    mem,                    \* the areas allocated so far: poll words, freed or not
    pc, loc                 \* each thread's control point; ticket, mask, pointers it has read

shape  == <<polls, mask, numPolls, oldPolls, cleanup>>
ticks  == <<nextTicket, nowServing>>
vars   == <<shape, ticks, mem, pc, loc>>

Null == 0
Blank == [ticket |-> 0, mask |-> 0, polls |-> Null, old |-> Null]
OneWord(value) == [i \in {0} |-> value]
Area(words) == [poll |-> words, freed |-> FALSE]
Slot(ticket, msk) == ticket % (msk + 1)     \* ticket & mask: a mask is 2^k - 1
Valid(a, i) == i \in DOMAIN mem[a].poll /\ ~mem[a].freed
\* A read of a poll word; outside the area, or in a freed one, it returns anything.
Seen(a, i) == IF Valid(a, i) THEN {mem[a].poll[i]} ELSE 0..MaxTicket

Init ==
    /\ polls = 1 /\ mask = 0 /\ numPolls = 1
    /\ oldPolls = Null /\ cleanup = 0
    /\ nextTicket = 0 /\ nowServing = 0
    /\ mem = <<Area(OneWord(0))>>
    /\ pc = [t \in Threads |-> "out"]
    /\ loc = [t \in Threads |-> Blank]

At(t, where) == pc[t] = where
Goto(t, where) == pc' = [pc EXCEPT ![t] = where]
Return(t, where) == Goto(t, where) /\ loc' = [loc EXCEPT ![t] = Blank]

----------------------------------------------------------------------------
(* Acquire. *)

Take(t) ==
    /\ At(t, "out") /\ nextTicket < MaxTicket
    /\ nextTicket' = nextTicket + 1
    /\ loc' = [loc EXCEPT ![t].ticket = nextTicket]
    /\ Goto(t, "mask")
    /\ UNCHANGED <<shape, nowServing, mem>>

\* mask is read before polls.
ReadMask(t) ==
    /\ At(t, "mask")
    /\ loc' = [loc EXCEPT ![t].mask = mask]
    /\ Goto(t, "polls")
    /\ UNCHANGED <<shape, ticks, mem>>

ReadPolls(t) ==
    /\ At(t, "polls")
    /\ loc' = [loc EXCEPT ![t].polls = polls]
    /\ Goto(t, "poll")
    /\ UNCHANGED <<shape, ticks, mem>>

PollOffByOne(t) ==
    /\ At(t, "poll")
    /\ \E v \in Seen(loc[t].polls, Slot(loc[t].ticket, loc[t].mask)) :
         Goto(t, IF v + 1 < loc[t].ticket THEN "mask" ELSE "serve")
    /\ UNCHANGED <<shape, ticks, mem, loc>>
PollOnce(t) ==
    /\ At(t, "poll")
    /\ \E v \in Seen(loc[t].polls, Slot(loc[t].ticket, loc[t].mask)) :
         Goto(t, IF v < loc[t].ticket THEN "polls" ELSE "serve")
    /\ UNCHANGED <<shape, ticks, mem, loc>>
\* Not yet: read mask and polls again.
Poll(t) ==
    /\ At(t, "poll")
    /\ \E v \in Seen(loc[t].polls, Slot(loc[t].ticket, loc[t].mask)) :
         Goto(t, IF v < loc[t].ticket THEN "mask" ELSE "serve")
    /\ UNCHANGED <<shape, ticks, mem, loc>>

\* The holder frees the old area once every thread that may have seen it has been served.
Serve(t) ==
    /\ At(t, "serve")
    /\ nowServing' = loc[t].ticket
    /\ IF oldPolls # Null /\ loc[t].ticket >= cleanup
       THEN mem' = [mem EXCEPT ![oldPolls].freed = TRUE] /\ oldPolls' = Null /\ cleanup' = 0
       ELSE UNCHANGED <<mem, oldPolls, cleanup>>
    /\ Goto(t, "check")
    /\ UNCHANGED <<polls, mask, numPolls, nextTicket, loc>>

NumWaiting(t) == nextTicket - loc[t].ticket - 1

\* What the doubling loop multiplies a size of n by: the power of two (its divisors are
\* even) for which the area first exceeds the waiters.
PowersOfTwo == {c \in 2..(2 * MaxTicket) : \A d \in 2..c : c % d = 0 => d % 2 = 0}
Factors(n, waiting) == {c \in PowersOfTwo : n < waiting /\ waiting < n * c /\ n * c <= 2 * waiting}

\* A larger area starts with the words of the old one.
Copied(t, size) ==
    LET old == mem[loc[t].polls].poll
    IN  [i \in 0..(size - 1) |-> IF i \in DOMAIN old THEN old[i] ELSE 0]
MaskOneDoubling(t, c) == loc[t].mask * 2 + 1
NewMask(t, c) == (loc[t].mask + 1) * c - 1

\* The areas, with their masks, that a holder would put in place of the present one: a
\* single word when oversubscribed, otherwise more words than there are waiters.
Replacements(t, oversubscribed) ==
    IF oversubscribed
    THEN {[words |-> OneWord(loc[t].ticket), mask |-> 0] : n \in {numPolls} \ {1}}
    ELSE {[words |-> Copied(t, numPolls * c), mask |-> NewMask(t, c)] :
              c \in Factors(numPolls, NumWaiting(t))}

\* With an old area still to be freed, a later holder reconfigures.
Reconfigure(t) ==
    /\ At(t, "check") /\ oldPolls = Null
    /\ \E over \in Oversubscribed : \E new \in Replacements(t, over) :
         /\ mem' = Append(mem, Area(new.words))
         /\ loc' = [loc EXCEPT ![t].old = loc[t].polls, ![t].polls = Len(mem) + 1,
                                ![t].mask = new.mask]
    /\ Goto(t, "putPolls")
    /\ UNCHANGED <<shape, ticks>>

Keep(t) ==
    /\ At(t, "check")
    /\ oldPolls # Null \/ \E over \in Oversubscribed : Replacements(t, over) = {}
    /\ Return(t, "cs")
    /\ UNCHANGED <<shape, ticks, mem>>

\* polls is written before mask, and cleanup_ticket last.
PutPolls(t) ==
    /\ At(t, "putPolls")
    /\ oldPolls' = loc[t].old /\ polls' = loc[t].polls
    /\ Goto(t, "putMask")
    /\ UNCHANGED <<mask, numPolls, cleanup, ticks, mem, loc>>

PutMask(t) ==
    /\ At(t, "putMask")
    /\ numPolls' = Cardinality(DOMAIN mem[loc[t].polls].poll) /\ mask' = loc[t].mask
    /\ Goto(t, "putCleanup")
    /\ UNCHANGED <<polls, oldPolls, cleanup, ticks, mem, loc>>

CleanupTooLate(t) ==
    /\ At(t, "putCleanup")
    /\ cleanup' = nextTicket + 1
    /\ Return(t, "cs")
    /\ UNCHANGED <<polls, mask, numPolls, oldPolls, ticks, mem>>
CleanupAtOwnTicket(t) ==
    /\ At(t, "putCleanup")
    /\ cleanup' = loc[t].ticket
    /\ Return(t, "cs")
    /\ UNCHANGED <<polls, mask, numPolls, oldPolls, ticks, mem>>

PutCleanup(t) ==
    /\ At(t, "putCleanup")
    /\ cleanup' = nextTicket
    /\ Return(t, "cs")
    /\ UNCHANGED <<polls, mask, numPolls, oldPolls, ticks, mem>>

----------------------------------------------------------------------------
\* All it reads is written by the holder only, which is this thread.
Release(t) ==
    /\ At(t, "cs")
    /\ mem' = [mem EXCEPT ![polls].poll[Slot(nowServing + 1, mask)] = nowServing + 1]
    /\ Return(t, "out")
    /\ UNCHANGED <<shape, ticks>>

(* Test: polls is read before mask. *)

Test(t) ==
    /\ At(t, "out") /\ t \in Testers /\ nextTicket < MaxTicket
    /\ loc' = [loc EXCEPT ![t].ticket = nextTicket]
    /\ Goto(t, "testPolls")
    /\ UNCHANGED <<shape, ticks, mem>>

TestPolls(t) ==
    /\ At(t, "testPolls")
    /\ loc' = [loc EXCEPT ![t].polls = polls]
    /\ Goto(t, "testMask")
    /\ UNCHANGED <<shape, ticks, mem>>

TestMask(t) ==
    /\ At(t, "testMask")
    /\ loc' = [loc EXCEPT ![t].mask = mask]
    /\ Goto(t, "testPoll")
    /\ UNCHANGED <<shape, ticks, mem>>

TestPoll(t) ==
    /\ At(t, "testPoll")
    /\ \E v \in Seen(loc[t].polls, Slot(loc[t].ticket, loc[t].mask)) :
         IF v = loc[t].ticket THEN Goto(t, "testTake") /\ UNCHANGED loc ELSE Return(t, "out")
    /\ UNCHANGED <<shape, ticks, mem>>

\* Compare-and-swap on next_ticket; the winner stores its ticket in now_serving.
TestTake(t) ==
    /\ At(t, "testTake")
    /\ IF nextTicket = loc[t].ticket
       THEN nextTicket' = nextTicket + 1 /\ nowServing' = nextTicket /\ Return(t, "cs")
       ELSE UNCHANGED ticks /\ Return(t, "out")
    /\ UNCHANGED <<shape, mem>>

Inside(t) ==
    \/ ReadMask(t) \/ ReadPolls(t) \/ Poll(t) \/ Serve(t) \/ Reconfigure(t) \/ Keep(t)
    \/ PutPolls(t) \/ PutMask(t) \/ PutCleanup(t)
    \/ TestPolls(t) \/ TestMask(t) \/ TestPoll(t) \/ TestTake(t)
\* The bound on tickets stops the system.
Stopped == nextTicket = MaxTicket /\ (\A t \in Threads : At(t, "out")) /\ UNCHANGED vars
Next == Stopped \/ \E t \in Threads : Take(t) \/ Test(t) \/ Release(t) \/ Inside(t)

Spec == Init /\ [][Next]_vars
\* Threads inside the lock's routines run, and holders release.
FairSpec == Spec /\ \A t \in Threads : WF_vars(Inside(t)) /\ WF_vars(Release(t))
----------------------------------------------------------------------------
Areas == 1..Len(mem)
TypeOK ==
    /\ polls \in Areas /\ mask \in Nat /\ numPolls \in Nat \ {0}
    /\ oldPolls \in {Null} \union Areas /\ cleanup \in 0..nextTicket
    /\ nextTicket \in 0..MaxTicket /\ nowServing \in 0..MaxTicket
    /\ \A a \in Areas : mem[a].freed \in BOOLEAN
    /\ \A a \in Areas : \A i \in DOMAIN mem[a].poll : mem[a].poll[i] \in 0..MaxTicket
    /\ \A t \in Threads : loc[t].ticket \in 0..MaxTicket /\ loc[t].polls \in {Null} \union Areas

Holders == {t \in Threads : pc[t] \in {"serve", "check", "putPolls", "putMask", "putCleanup", "cs"}}

\* Every poll word that a thread reads or writes lies inside the area its pointer names,
\* and that area has not been freed.
PollsInBounds == \A t \in Threads :
    /\ pc[t] \in {"poll", "testPoll"} =>
         Valid(loc[t].polls, Slot(loc[t].ticket, loc[t].mask))
    /\ At(t, "cs") => Valid(polls, Slot(nowServing + 1, mask))

\* A holder that may reconfigure works from fresh copies: the mask and pointer it read
\* while polling are the lock's, and mask, num_polls and the area agree in size.  (The
\* pair it leaves the wait with may mix two generations.)
HolderUpToDate == \A t \in Threads :
    At(t, "check") /\ oldPolls = Null =>
        /\ loc[t].mask = mask /\ loc[t].polls = polls
        /\ numPolls = mask + 1 /\ DOMAIN mem[polls].poll = 0..mask

\* The ticket that has the lock, or will have it when somebody takes it.
Granted == LET now == mem[polls].poll IN Max({now[i] : i \in DOMAIN now})
Ticketed == {t \in Threads : pc[t] \in {"mask", "polls", "poll", "serve", "check",
                                       "putPolls", "putMask", "putCleanup"}}
HolderOf(ticket) ==
    IF ticket = nowServing /\ \E t \in Threads : At(t, "cs")
    THEN CHOOSE t \in Threads : At(t, "cs")
    ELSE CHOOSE t \in Ticketed : loc[t].ticket = ticket
Owner == IF Cardinality(Holders) > 1 THEN Holders \* for which AbsLock has no place
         ELSE IF Granted = nextTicket THEN NoThread ELSE HolderOf(Granted)
Waiters == [i \in 1..(nextTicket - Granted - 1) |-> HolderOf(Granted + i)]
Abs == INSTANCE AbsLock WITH Free <- NoThread, owner <- Owner, queue <- Waiters

\* One holder, tickets served in order, through every reallocation of the area.
Implements == Abs!Spec

\* A thread with a ticket comes to hold the lock.
Served == \A t \in Threads : pc[t] \in {"mask", "polls", "poll"} ~> At(t, "cs")
=============================================================================
