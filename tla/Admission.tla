------------------------------- MODULE Admission -------------------------------
(***************************************************************************)
(* RunJob (internal/controller/handlers/jobs.go) behind authentication and *)
(* rate limit, with CountRunningExecutions (store/postgres/execution.go):  *)
(* a transaction that takes the advisory lock of the tenant, counts its    *)
(* RUNNING executions, and creates and enqueues one more.                  *)
(*                                                                         *)
(* What is created is PENDING, which the count does not see, so nothing    *)
(* here depends on it; JobStore has what becomes of it.  Of the executions *)
(* only the number of RUNNING ones is kept, which DequeueBatch raises with *)
(* no regard to the quota.                                                 *)
(***************************************************************************)
EXTENDS Tenants

CONSTANTS
    NoRequest,
    MaxRunning    \* bound: RUNNING executions of the tenant

ASSUME NoRequestAssumption == NoRequest \notin Requests
ASSUME RunningAssumption == MaxRunning \in Nat

VARIABLES
    running,   \* RUNNING executions of the tenant
    lock       \* the request whose transaction has pg_advisory_xact_lock

vars == <<tenantVars, running, lock>>

TypeOK ==
    /\ row \in Rows /\ asked \in Rows
    /\ cache \in Rates \cup {NoLimiter}
    /\ fresh \in BOOLEAN /\ excused \in BOOLEAN
    /\ overtaken \in [Requests -> SUBSET Fields] /\ undone \in SUBSET Fields
    /\ request \in [Requests -> RequestRecords]
    /\ updates \in 0..MaxUpdates
    /\ made \in Nat
    /\ running \in 0..MaxRunning
    /\ lock \in Requests \cup {NoRequest}

Init ==
    /\ TenantsInit
    /\ running = 0
    /\ lock = NoRequest

(* The lock goes with the transaction.                                     *)
Release(r) == lock' = IF lock = r THEN NoRequest ELSE lock

-------------------------------------------------------------------------------
(* With no quota in the tenant it was given, RunJob takes no lock.         *)
RunUnlimited(r) ==
    /\ At(r, "run")
    /\ Tenant(r).quota = 0
    /\ Goto(r, "commit")
    /\ UNCHANGED <<limits, tenant, excused, running, lock>>

TakeLock(r) ==
    /\ At(r, "run")
    /\ Tenant(r).quota > 0
    /\ lock = NoRequest
    /\ lock' = r
    /\ Goto(r, "count")
    /\ UNCHANGED <<limits, tenant, excused, running>>

(* Mutants: the request is refused and its transaction left open; the lock *)
(* is not kept until the commit.                                           *)
CountRunningOpen(r) ==
    /\ At(r, "count")
    /\ IF running >= Tenant(r).quota THEN Ends(r) ELSE Goto(r, "commit")
    /\ UNCHANGED <<limits, tenant, excused, running, lock>>

CountRunningUnlocks(r) ==
    /\ At(r, "count")
    /\ IF running >= Tenant(r).quota THEN Ends(r) ELSE Goto(r, "commit")
    /\ Release(r)
    /\ UNCHANGED <<limits, tenant, excused, running>>

(* 429, and the deferred Rollback, when the limit is reached.              *)
CountRunning(r) ==
    /\ At(r, "count")
    /\ IF running >= Tenant(r).quota
       THEN Ends(r) /\ Release(r)
       ELSE Goto(r, "commit") /\ UNCHANGED lock
    /\ UNCHANGED <<limits, tenant, excused, running>>

(* CreateExecution, Enqueue and the commit.                                *)
Commit(r) ==
    /\ At(r, "commit")
    /\ Ends(r) /\ Release(r)
    /\ UNCHANGED <<limits, tenant, excused, running>>

(* An error or a client that goes away: Rollback.                          *)
Rollback(r) ==
    /\ request[r].pc \in {"run", "count", "commit"}
    /\ Ends(r) /\ Release(r)
    /\ UNCHANGED <<limits, tenant, excused, running>>

(* DequeueBatch; Complete and Fail.                                        *)
Dequeue ==
    /\ running < MaxRunning
    /\ running' = running + 1
    /\ UNCHANGED <<tenantVars, lock>>

Finish ==
    /\ running > 0
    /\ running' = running - 1
    /\ UNCHANGED <<tenantVars, lock>>

Serve(r) ==
    \/ TenantStep(r) /\ UNCHANGED <<running, lock>>
    \/ RunUnlimited(r) \/ TakeLock(r) \/ CountRunning(r) \/ Commit(r)

Next ==
    \/ \E r \in Requests, kind \in Kinds :
         Authenticate(r, kind) /\ UNCHANGED <<running, lock>>
    \/ \E r \in Requests : Serve(r) \/ Rollback(r)
    \/ Expire /\ UNCHANGED <<running, lock>>
    \/ Dequeue \/ Finish

Spec == Init /\ [][Next]_vars

(* Handlers run, PostgreSQL grants a lock in the order of the requests for *)
(* it, and time passes.                                                    *)
Fairness ==
    /\ \A r \in Requests : WF_vars(Serve(r)) /\ SF_vars(TakeLock(r))
    /\ WF_vars(Expire /\ UNCHANGED <<running, lock>>)

FairSpec == Spec /\ Fairness

-------------------------------------------------------------------------------
(* The lock of the tenant is held by the request between its count and its *)
(* commit, so that no other counts meanwhile, and by nobody else.          *)
Admitting(r) == request[r].pc \in {"count", "commit"} /\ Tenant(r).quota > 0

LockedWhileAdmitting == \A r \in Requests : lock = r <=> Admitting(r)

(* Every request is answered: whatever way the one before it ended, the    *)
(* next request gets the lock.                                             *)
RequestsAnswered ==
    \A r \in Requests : ~At(r, "idle") ~> At(r, "idle")
===============================================================================
