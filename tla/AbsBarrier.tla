----------------------------- MODULE AbsBarrier -----------------------------
(***************************************************************************)
(* What a barrier promises: nobody leaves its n-th barrier before everybody *)
(* has entered the n-th, and everybody leaves once all have entered.        *)
(***************************************************************************)
EXTENDS Naturals

CONSTANT Threads
VARIABLES entered, left    \* barriers each thread has entered, and left

Init == entered = [t \in Threads |-> 0] /\ left = [t \in Threads |-> 0]

Enter(t) ==
    /\ entered[t] = left[t]
    /\ entered' = [entered EXCEPT ![t] = @ + 1]
    /\ UNCHANGED left

Leave(t) ==
    /\ left[t] < entered[t]
    /\ \A u \in Threads : entered[u] >= entered[t]
    /\ left' = [left EXCEPT ![t] = @ + 1]
    /\ UNCHANGED entered

Next == \E t \in Threads : Enter(t) \/ Leave(t)
Safety == Init /\ [][Next]_<<entered, left>>
Spec == Safety /\ \A t \in Threads : WF_<<entered, left>>(Leave(t))
=============================================================================
