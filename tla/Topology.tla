------------------------------ MODULE Topology ------------------------------
(***************************************************************************)
(* Who waits for whom in the flat barrier patterns of kmp_barrier.cpp, for a *)
(* team of n threads and branch factor 2^b: the children of a thread in the *)
(* order the gather waits for them and the release lets them go, and the    *)
(* parent a worker names as the waiter of its b_arrived word.               *)
(***************************************************************************)
EXTENDS Integers, FiniteSets, Sequences, SequencesExt

Ascending(S) ==
    [i \in 1..Cardinality(S) |-> CHOOSE x \in S : Cardinality({y \in S : y < x}) = i - 1]

(* bp_linear_bar *)
LinearKids(t, n) == IF t = 0 THEN 1..(n - 1) ELSE {}
LinearParent(t) == 0

(* bp_tree_bar: (tid << bits) + 1 and its next siblings *)
TreeKids(t, b, n) == {t * 2^b + c : c \in 1..2^b} \cap 0..(n - 1)
TreeParentOffByOne(t, b) == t \div 2^b
TreeParent(t, b) == (t - 1) \div 2^b

(* bp_hyper_bar: a thread collects one block of children per level, up to the *)
(* level at which its own digit is not zero, where it is a child itself.      *)
MaxLevel == 12    \* bound: a team has at most 2^12 threads
Levels(b, n) == {l \in 0..MaxLevel : l % b = 0 /\ 2^l < n}
HyperDigit(t, l, b) == (t \div 2^l) % 2^b
HyperKids(t, b, n) ==
    {t + c * 2^l : c \in 1..(2^b - 1),
                   l \in {m \in Levels(b, n) :
                            \A k \in Levels(b, n) : k <= m => HyperDigit(t, k, b) = 0}}
      \cap 0..(n - 1)
HyperParent(t, b, n) ==
    LET l == CHOOSE m \in Levels(b, n) :
                /\ HyperDigit(t, m, b) # 0
                /\ \A k \in Levels(b, n) : k < m => HyperDigit(t, k, b) = 0
    IN  (t \div 2^(l + b)) * 2^(l + b)

(* The reverse hyper release computes, per level, the first child it tries from *)
(* num_threads >> (level - 1), capped by the branch factor, and counts down.    *)
ReverseStartTooLow(l, b, n) ==
    LET c == n \div 2^(l + 1) IN IF c < 2^b - 1 THEN c ELSE 2^b - 1
ReverseStart(l, b, n) ==
    LET c == n \div (IF l = 0 THEN 1 ELSE 2^(l - 1))
    IN  IF c < 2^b - 1 THEN c ELSE 2^b - 1
HyperReleased(t, b, n) ==
    {t + c * 2^l : <<c, l>> \in {<<d, m>> \in (1..(2^b - 1)) \X Levels(b, n) :
                        /\ \A k \in Levels(b, n) : k <= m => HyperDigit(t, k, b) = 0
                        /\ d <= ReverseStart(m, b, n)}}
      \cap 0..(n - 1)

Kids(p, t, b, n) == CASE p = "linear" -> LinearKids(t, n)
                      [] p = "tree"   -> TreeKids(t, b, n)
                      [] p = "hyper"  -> HyperKids(t, b, n)
Parent(p, t, b, n) == CASE p = "linear" -> LinearParent(t)
                        [] p = "tree"   -> TreeParent(t, b)
                        [] p = "hyper"  -> HyperParent(t, b, n)

GatherOrder(p, t, b, n) == Ascending(Kids(p, t, b, n))
ReleaseOrder(p, t, b, n) ==
    IF p = "hyper" THEN Reverse(Ascending(HyperReleased(t, b, n)))
    ELSE Ascending(Kids(p, t, b, n))
=============================================================================
