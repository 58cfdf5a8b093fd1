----------------------------- MODULE JobLifecycle -----------------------------
(***************************************************************************)
(* What the job store promises to those who submit executions, without     *)
(* its tables and statements: ExecutionStatus of internal/store/models.go  *)
(* with at-least-once delivery (README, Architecture Invariants).          *)
(***************************************************************************)
EXTENDS Naturals

CONSTANT Execs
VARIABLES
    phase,       \* "absent", "waiting", "running", then "ok" or "bad"
    deliveries   \* how often a worker was given the execution

vars == <<phase, deliveries>>
Verdicts == {"ok", "bad"}

Init ==
    /\ phase = [e \in Execs |-> "absent"]
    /\ deliveries = [e \in Execs |-> 0]

Accept(e) ==
    /\ phase[e] = "absent"
    /\ phase' = [phase EXCEPT ![e] = "waiting"]
    /\ UNCHANGED deliveries

(* A batch is delivered at once; nothing finished is delivered.            *)
Deliver(batch) ==
    /\ \A e \in batch : phase[e] \in {"waiting", "running"}
    /\ phase' = [e \in Execs |-> IF e \in batch THEN "running" ELSE phase[e]]
    /\ deliveries' = [e \in Execs |-> IF e \in batch THEN deliveries[e] + 1
                                                     ELSE deliveries[e]]

Finish(e, verdict) ==
    /\ phase[e] = "running"
    /\ phase' = [phase EXCEPT ![e] = verdict]
    /\ UNCHANGED deliveries

(* The verdict of another delivery may come late, and overturn the first.  *)
Overturn(e, verdict) ==
    /\ phase[e] \in Verdicts
    /\ deliveries[e] > 1
    /\ phase' = [phase EXCEPT ![e] = verdict]
    /\ UNCHANGED deliveries

Next ==
    \/ \E e \in Execs : Accept(e)
    \/ \E batch \in SUBSET Execs : Deliver(batch)
    \/ \E e \in Execs, verdict \in Verdicts : Finish(e, verdict) \/ Overturn(e, verdict)

Spec == Init /\ [][Next]_vars
===============================================================================
