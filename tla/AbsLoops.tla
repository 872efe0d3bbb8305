------------------------------- MODULE AbsLoops -------------------------------
(***************************************************************************)
(* What a worksharing loop promises to a team: each iteration is handed out   *)
(* to one thread, the loop is not over before all are, ordered sections are    *)
(* executed in the order of the iterations, and nobody goes past the end of a  *)
(* loop without nowait before everybody has left it.                           *)
(***************************************************************************)
EXTENDS Integers, FiniteSets, Bags

CONSTANTS Threads, Programs     \* a program is a sequence of loops
VARIABLES
    prog,
    at,         \* the loop each thread has reached
    inside,     \* is it in that loop?
    given,      \* the iterations of each loop that have been handed out, a bag
    hand,       \* those of an ordered loop that each thread has yet to finish
    sect        \* its ordered section in the first of them: "no" (yet), "in" or "done"

vars == <<prog, at, inside, given, hand, sect>>

Init ==
    /\ prog \in Programs
    /\ at = [t \in Threads |-> 0]
    /\ inside = [t \in Threads |-> FALSE]
    /\ given = [l \in DOMAIN prog |-> EmptyBag]
    /\ hand = [t \in Threads |-> {}]
    /\ sect = [t \in Threads |-> "no"]

Iterations(l) == 0..(prog[l].tc - 1)
First(I) == CHOOSE i \in I : \A j \in I : i <= j
Left(t, l) == at[t] > l \/ (at[t] = l /\ ~inside[t])

Enter(t) ==
    /\ ~inside[t] /\ at[t] + 1 \in DOMAIN prog
    /\ at[t] > 0 /\ ~prog[at[t]].nowait => \A u \in Threads : Left(u, at[t])
    /\ at' = [at EXCEPT ![t] = @ + 1]
    /\ inside' = [inside EXCEPT ![t] = TRUE]
    /\ UNCHANGED <<prog, given, hand, sect>>

Take(t) ==
    /\ inside[t] /\ hand[t] = {} /\ sect[t] = "no"
    /\ \E lo, hi \in Iterations(at[t]) :
         LET I == lo..hi IN
         /\ I # {} /\ I \intersect BagToSet(given[at[t]]) = {}
         /\ given' = [given EXCEPT ![at[t]] = @ (+) SetToBag(I)]
         /\ hand' = [hand EXCEPT ![t] = IF prog[at[t]].ordered = "no" THEN {} ELSE I]
    /\ UNCHANGED <<prog, at, inside, sect>>

\* The iterations of l that still hold back the ordered sections of later ones.
Holding(l) ==
    (Iterations(l) \ BagToSet(given[l])) \union
    UNION {IF sect[t] = "done" THEN hand[t] \ {First(hand[t])} ELSE hand[t] :
             t \in {u \in Threads : at[u] = l /\ hand[u] # {}}}

Section(t) ==
    /\ hand[t] # {} /\ sect[t] = "no"
    /\ \A i \in Holding(at[t]) : First(hand[t]) <= i
    /\ sect' = [sect EXCEPT ![t] = "in"]
    /\ UNCHANGED <<prog, at, inside, given, hand>>

EndSection(t) ==
    /\ sect[t] = "in" /\ sect' = [sect EXCEPT ![t] = "done"]
    /\ UNCHANGED <<prog, at, inside, given, hand>>

\* The thread has executed one iteration; an ordered section ends with its iteration.
Work(t) ==
    /\ hand[t] # {} /\ sect[t] # "in"
    /\ hand' = [hand EXCEPT ![t] = @ \ {First(@)}]
    /\ sect' = [sect EXCEPT ![t] = "no"]
    /\ UNCHANGED <<prog, at, inside, given>>

\* The last one to leave leaves nothing behind.
Leave(t) ==
    /\ inside[t] /\ hand[t] = {}
    /\ (\A u \in Threads \ {t} : Left(u, at[t])) => BagToSet(given[at[t]]) = Iterations(at[t])
    /\ inside' = [inside EXCEPT ![t] = FALSE]
    /\ UNCHANGED <<prog, at, given, hand, sect>>

Next == \E t \in Threads :
    Enter(t) \/ Take(t) \/ Section(t) \/ EndSection(t) \/ Work(t) \/ Leave(t)

Spec == Init /\ [][Next]_vars
=============================================================================
