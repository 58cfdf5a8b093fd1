------------------------------ MODULE MCJobStore ------------------------------
(* Values for model-checking JobStore.                                     *)
EXTENDS JobStore, TLC

CONSTANTS e1, e2, c1, c2, c3

OneExec == {e1}
TwoExecs == {e1, e2}
TwoCalls == {c1, c2}
ThreeCalls == {c1, c2, c3}
SamePrio == [e \in Execs |-> 0]
AllTenants == {Execs}
Dedicated == {Execs, {e1}}

CallSymmetry == Permutations(Calls)
===============================================================================
