--------------------------------- MODULE Claim ---------------------------------
(***************************************************************************)
(* What the controller sees of a worker that was given an execution: the   *)
(* worker holds the execution, makes up its mind about the outcome once,   *)
(* reports that outcome and no other, perhaps more than once, and is gone. *)
(***************************************************************************)
VARIABLES
    claim,   \* "running", then the verdict "ok" or "bad", then "left"
    heard    \* the last verdict the controller heard, "none" before

vars == <<claim, heard>>
Verdicts == {"ok", "bad"}

Init == claim = "running" /\ heard = "none"

Decide(verdict) ==
    /\ claim = "running"
    /\ claim' = verdict
    /\ UNCHANGED heard

Tell ==
    /\ claim \in Verdicts
    /\ heard' = claim
    /\ claim' \in {claim, "left"}

GiveUp ==
    /\ claim \in Verdicts
    /\ claim' = "left"
    /\ UNCHANGED heard

Next == (\E verdict \in Verdicts : Decide(verdict)) \/ Tell \/ GiveUp

Spec == Init /\ [][Next]_vars
===============================================================================
