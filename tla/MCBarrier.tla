------------------------------ MODULE MCBarrier ------------------------------
(* Four threads: the smallest team in which the tree and hyper patterns have an *)
(* inner thread other than the master.  Every pattern gathers with every pattern *)
(* releasing.                                                                   *)
EXTENDS Barrier, SequencesExt
T == INSTANCE Topology
Patterns == {"linear", "tree", "hyper"}
Bits == 1
Gathers(p) == [t \in Threads |-> T!GatherOrder(p, t, Bits, N)]
Releases(p) == [t \in Threads |-> T!ReleaseOrder(p, t, Bits, N)]
Below(p) == LET sub[t \in Threads] == {t} \cup UNION {sub[k] : k \in T!Kids(p, t, Bits, N)}
            IN  sub
Topo(g, r) == [gather |-> Gathers(g), release |-> Releases(r), sub |-> Below(g), push |-> r]
AllTopologies == {Topo(g, r) : g \in Patterns, r \in Patterns}
TreeTopology == {Topo("tree", "tree")}
----------------------------------------------------------------------------
\* Properties of the patterns themselves, for every team of at most MaxTeam threads; each
\* pattern is examined in the initial states that gather and release with it.
MaxTeam == 20
MaxBits == 3
StartsWith(p) ==
    /\ kind = "plain" /\ \A t \in Threads : pc[t] = "region" /\ round[t] = 0
    /\ topo = Topo(p, p)
GatherParents(p, k, b, n) == {t \in 0..(n - 1) : k \in T!Kids(p, t, b, n)}
ReleaseParents(p, k, b, n) == {t \in 0..(n - 1) : Contains(T!ReleaseOrder(p, t, b, n), k)}

\* Every worker is waited for by exactly one thread, and that is the thread it names as
\* the one to wake when it sets b_arrived: a different name would leave the real waiter
\* asleep.
ArrivalWakesItsWaiter ==
    \A p \in Patterns : StartsWith(p) =>
      \A b \in 1..MaxBits, n \in 1..MaxTeam : \A k \in 1..(n - 1) :
        GatherParents(p, k, b, n) = {T!Parent(p, k, b, n)}

\* Every worker is let go by exactly one thread, and by one that is let go before it
\* (a smaller tid): the release tree spans the team, the reverse hyper order included.
ReleaseReachesEveryone ==
    \A p \in Patterns : StartsWith(p) =>
      \A b \in 1..MaxBits, n \in 1..MaxTeam : \A k \in 1..(n - 1) :
        \E t \in 0..(k - 1) : ReleaseParents(p, k, b, n) = {t}
=============================================================================
