--------------------------- MODULE MCWaitRelease ---------------------------
(* A waiter with one child: it waits on the child's b_arrived, then on its own *)
(* b_go, in two rounds, with one nudger and one model value per flag.          *)
EXTENDS WaitRelease
CONSTANTS arrived, go
MCFlags == {arrived, go}
MCSucc == [f \in MCFlags |-> IF f = arrived THEN go ELSE arrived]
MCFlagType == [f \in MCFlags |-> IF f = arrived THEN "flag32" ELSE "flag64"]
=============================================================================
