------------------------------- MODULE JobStore -------------------------------
(***************************************************************************)
(* The tables executions, execution_queue and execution_dlq and the        *)
(* controller calls that read and write them, at the granularity of SQL    *)
(* statements: internal/store/postgres/{queue,execution}.go as the HTTP    *)
(* handlers call them.  InternalUpdateResult and InternalHeartbeat pass    *)
(* tx = nil, so every statement of Complete, Fail and SetVisibleAfter      *)
(* commits on its own; DequeueBatch, RunJob and RetryFromDLQ run in a      *)
(* transaction and are seen by others only when they commit.               *)
(*                                                                         *)
(* Data left out: payloads, exit codes, messages, time stamps.  Clock      *)
(* values of visible_after are abstracted to whether the row is due, see   *)
(* "queue".  ORDER BY created_at is left open: any row of the highest      *)
(* priority may be taken first.                                            *)
(***************************************************************************)
EXTENDS Naturals, FiniteSets

CONSTANTS
    Execs,        \* identifiers of executions (uuid.New draws an unused one)
    NoExec,       \* "no execution"
    Calls,        \* concurrent requests the controllers can be serving
    Prio,         \* the priority of each execution
    TenantSets,   \* the executions that a dequeue with some tenantIDs may see
    BatchLimit,   \* the largest limit of a dequeue request
    MaxRetries,   \* queue.go MaxRetries
    AttemptCap,   \* bound: no row is delivered more often than this
    MaxFaults,    \* bound: faults of workers and of the network
    MaxCuts       \* bound: controller calls cut short between two statements

ASSUME ExecsAssumption == NoExec \notin Execs
ASSUME PrioAssumption == Prio \in [Execs -> Nat]
ASSUME TenantsAssumption == TenantSets \subseteq SUBSET Execs
ASSUME BoundsAssumption ==
    /\ BatchLimit \in Nat
    /\ MaxRetries \in Nat
    /\ AttemptCap \in Nat
    /\ MaxFaults \in Nat
    /\ MaxCuts \in Nat

VARIABLES
    status,   \* executions.status; "ABSENT" before the row is inserted
    queue,    \* the row of execution_queue, by its visible_after: "none" when
              \* there is no row, "due" when visible_after <= NOW(), "delayed"
              \* by a schedule or a backoff, "leased" by a delivery or heartbeat
    attempt,  \* execution_queue.attempt, copied to executions.attempt
    dlq,      \* execution_dlq.attempts of its row; 0 when there is no row
    origin,   \* executions.retried_from
    call,     \* the requests in flight, one record for each of Calls
    claim,    \* claim[e][n]: what the worker that got delivery n of e does
    faults,   \* faults so far
    cuts      \* cut calls so far

tables == <<status, queue, attempt, dlq, origin>>
vars == <<tables, call, claim, faults, cuts>>

Terminal == {"SUCCEEDED", "FAILED"}
Waiting == {"PENDING", "SCHEDULED"}
Statuses == {"ABSENT", "RUNNING"} \cup Waiting \cup Terminal
RowStates == {"none", "due", "delayed", "leased"}

(* A worker holds a claim while the job runs and while it reports the      *)
(* outcome; then it is done with it, or has died or given up.              *)
ClaimStates == {"none", "running", "ok", "bad", "left"}
Live == {"running", "ok", "bad"}
Deliveries == 1..AttemptCap

(* The statement a call executes next.                                     *)
PCs == {"idle", "dequeue", "complete_delete", "complete_update",
        "fail_select", "fail_backoff", "fail_insert", "fail_delete",
        "fail_update", "heartbeat", "retry"}
CallRecords == [pc: PCs, e: Execs \cup {NoExec}, n: Nat, batch: SUBSET Execs]
Idle == [pc |-> "idle", e |-> NoExec, n |-> 0, batch |-> {}]

TypeOK ==
    /\ status \in [Execs -> Statuses]
    /\ queue \in [Execs -> RowStates]
    /\ attempt \in [Execs -> Nat]
    /\ dlq \in [Execs -> Nat]
    /\ origin \in [Execs -> Execs \cup {NoExec}]
    /\ call \in [Calls -> CallRecords]
    /\ claim \in [Execs -> [Deliveries -> ClaimStates]]
    /\ faults \in 0..MaxFaults
    /\ cuts \in 0..MaxCuts

Init ==
    /\ status = [e \in Execs |-> "ABSENT"]
    /\ queue = [e \in Execs |-> "none"]
    /\ attempt = [e \in Execs |-> 0]
    /\ dlq = [e \in Execs |-> 0]
    /\ origin = [e \in Execs |-> NoExec]
    /\ call = [c \in Calls |-> Idle]
    /\ claim = [e \in Execs |-> [n \in Deliveries |-> "none"]]
    /\ faults = 0
    /\ cuts = 0

-------------------------------------------------------------------------------
At(c, step) == call[c].pc = step

Goto(c, step) == call' = [call EXCEPT ![c].pc = step]

(* Rows locked by SELECT ... FOR UPDATE in a transaction still open.  A    *)
(* write to such a row waits for the commit; a plain SELECT does not.      *)
Locked == UNION {call[c].batch : c \in {d \in Calls : At(d, "dequeue")}}

Fault == faults < MaxFaults /\ faults' = faults + 1

(* The call returns 200.  The worker that hears it is done with its claim; *)
(* when the response is lost it will report again.                         *)
Answer(c) ==
    LET e == call[c].e  n == call[c].n IN
    /\ call' = [call EXCEPT ![c] = Idle]
    /\ \/ claim' = [claim EXCEPT ![e][n] = "left"] /\ UNCHANGED faults
       \/ Fault /\ UNCHANGED claim

(* The call returns 500.  doWithRetry sends the report again until its     *)
(* retries are exhausted, then the worker gives up.                        *)
Refuse(c) ==
    LET e == call[c].e  n == call[c].n IN
    /\ call' = [call EXCEPT ![c] = Idle]
    /\ claim' \in {claim, [claim EXCEPT ![e][n] = "left"]}
    /\ UNCHANGED faults

-------------------------------------------------------------------------------
(* Mutant: Enqueue runs only for executions that start at once.            *)
RunJobUnqueued(e) ==
    /\ status[e] = "ABSENT"
    /\ \/ /\ status' = [status EXCEPT ![e] = "PENDING"]
          /\ queue' = [queue EXCEPT ![e] = "due"]
       \/ status' = [status EXCEPT ![e] = "SCHEDULED"] /\ UNCHANGED queue
    /\ UNCHANGED <<attempt, dlq, origin, call, claim, faults, cuts>>

(* RunJob commits CreateExecution and Enqueue in one transaction.          *)
RunJob(e) ==
    /\ status[e] = "ABSENT"
    /\ \/ /\ status' = [status EXCEPT ![e] = "PENDING"]
          /\ queue' = [queue EXCEPT ![e] = "due"]
       \/ /\ status' = [status EXCEPT ![e] = "SCHEDULED"]
          /\ queue' = [queue EXCEPT ![e] = "delayed"]
    /\ UNCHANGED <<attempt, dlq, origin, call, claim, faults, cuts>>

(* Mutant: a SELECT without FOR UPDATE SKIP LOCKED.                        *)
AvailableUnlocked(visible) == {e \in visible : queue[e] = "due"}

(* The SELECT of DequeueBatch: the first rows, by priority, of those that  *)
(* are due, visible to the tenants asked for and not locked by others.     *)
Available(visible) == {e \in visible : queue[e] = "due"} \ Locked

DequeueSelect(c) ==
    /\ At(c, "idle")
    /\ \E visible \in TenantSets, limit \in 1..BatchLimit :
         LET available == Available(visible) IN
         \E batch \in SUBSET available :
           /\ batch # {}
           /\ \/ batch = available /\ Cardinality(batch) <= limit
              \/ Cardinality(batch) = limit
           /\ \A e \in batch, f \in available \ batch : Prio[f] <= Prio[e]
           /\ \A e \in batch : attempt[e] < AttemptCap
           /\ call' = [call EXCEPT ![c] =
                         [Idle EXCEPT !.pc = "dequeue", !.batch = batch]]
    /\ UNCHANGED <<tables, claim, faults, cuts>>

(* Its two UPDATEs and the commit.  The worker starts the jobs of the      *)
(* response; a lost response leaves rows that are leased to nobody.        *)
DequeueCommit(c) ==
    LET batch == call[c].batch IN
    /\ At(c, "dequeue")
    /\ status' = [e \in Execs |-> IF e \in batch THEN "RUNNING" ELSE status[e]]
    /\ queue' = [e \in Execs |-> IF e \in batch THEN "leased" ELSE queue[e]]
    /\ attempt' = [e \in Execs |-> IF e \in batch THEN attempt[e] + 1
                                                  ELSE attempt[e]]
    /\ call' = [call EXCEPT ![c] = Idle]
    /\ \/ /\ claim' = [e \in Execs |->
                         IF e \in batch
                         THEN [claim[e] EXCEPT ![attempt[e] + 1] = "running"]
                         ELSE claim[e]]
          /\ UNCHANGED faults
       \/ Fault /\ UNCHANGED claim
    /\ UNCHANGED <<dlq, origin, cuts>>

-------------------------------------------------------------------------------
(* Mutants: the history is updated first; a status models.go does not have. *)
CompleteDeleteLate(c) ==
    /\ At(c, "complete_delete")
    /\ status' = [status EXCEPT ![call[c].e] = "SUCCEEDED"]
    /\ Goto(c, "complete_update")
    /\ UNCHANGED <<queue, attempt, dlq, origin, claim, faults, cuts>>

CompleteUpdateMisnamed(c) ==
    /\ At(c, "complete_update")
    /\ status' = [status EXCEPT ![call[c].e] = "COMPLETED"]
    /\ Answer(c)
    /\ UNCHANGED <<queue, attempt, dlq, origin, cuts>>

(* Complete: two statements, each committed on its own.                    *)
CompleteDelete(c) ==
    /\ At(c, "complete_delete")
    /\ call[c].e \notin Locked
    /\ queue' = [queue EXCEPT ![call[c].e] = "none"]
    /\ Goto(c, "complete_update")
    /\ UNCHANGED <<status, attempt, dlq, origin, claim, faults, cuts>>

CompleteUpdate(c) ==
    /\ At(c, "complete_update")
    /\ status' = [status EXCEPT ![call[c].e] = "SUCCEEDED"]
    /\ Answer(c)
    /\ UNCHANGED <<queue, attempt, dlq, origin, cuts>>

(* Mutants: attempt >= MaxRetries, and attempt > MaxRetries + 1, is fatal.  *)
RetriesLeftEarly(e) == queue[e] # "none" /\ attempt[e] < MaxRetries
RetriesLeftLate(e) == queue[e] # "none" /\ attempt[e] <= MaxRetries + 1

(* Fail: SELECT attempt decides between a retry and the DLQ.               *)
RetriesLeft(e) == queue[e] # "none" /\ attempt[e] <= MaxRetries

FailSelect(c) ==
    /\ At(c, "fail_select")
    /\ Goto(c, IF RetriesLeft(call[c].e) THEN "fail_backoff" ELSE "fail_insert")
    /\ UNCHANGED <<tables, claim, faults, cuts>>

FailBackoff(c) ==
    LET e == call[c].e IN
    /\ At(c, "fail_backoff")
    /\ e \notin Locked
    /\ queue' = [queue EXCEPT ![e] = IF @ = "none" THEN "none" ELSE "delayed"]
    /\ Answer(c)
    /\ UNCHANGED <<status, attempt, dlq, origin, cuts>>

(* Mutants: the job is not copied to the DLQ; it is copied and not deleted; *)
(* it is deleted and its outcome not written.                              *)
FailInsertNothing(c) ==
    /\ At(c, "fail_insert")
    /\ Goto(c, "fail_delete")
    /\ UNCHANGED <<tables, claim, faults, cuts>>

FailInsertOnly(c) ==
    LET e == call[c].e IN
    /\ At(c, "fail_insert")
    /\ dlq' = [dlq EXCEPT ![e] = IF queue[e] = "none" THEN @ ELSE attempt[e]]
    /\ Goto(c, "fail_update")
    /\ UNCHANGED <<status, queue, attempt, origin, claim, faults, cuts>>

FailDeleteOnly(c) ==
    /\ At(c, "fail_delete")
    /\ call[c].e \notin Locked
    /\ queue' = [queue EXCEPT ![call[c].e] = "none"]
    /\ Answer(c)
    /\ UNCHANGED <<status, attempt, dlq, origin, cuts>>

(* INSERT INTO execution_dlq SELECT ... FROM execution_queue: no row when  *)
(* the queue has none, an error when the DLQ has one (UNIQUE).             *)
FailInsert(c) ==
    LET e == call[c].e IN
    /\ At(c, "fail_insert")
    /\ \/ /\ queue[e] # "none" /\ dlq[e] # 0
          /\ Refuse(c)
          /\ UNCHANGED dlq
       \/ /\ queue[e] = "none" \/ dlq[e] = 0
          /\ dlq' = [dlq EXCEPT ![e] = IF queue[e] = "none" THEN @ ELSE attempt[e]]
          /\ Goto(c, "fail_delete")
          /\ UNCHANGED <<claim, faults>>
    /\ UNCHANGED <<status, queue, attempt, origin, cuts>>

FailDelete(c) ==
    /\ At(c, "fail_delete")
    /\ call[c].e \notin Locked
    /\ queue' = [queue EXCEPT ![call[c].e] = "none"]
    /\ Goto(c, "fail_update")
    /\ UNCHANGED <<status, attempt, dlq, origin, claim, faults, cuts>>

FailUpdate(c) ==
    /\ At(c, "fail_update")
    /\ status' = [status EXCEPT ![call[c].e] = "FAILED"]
    /\ Answer(c)
    /\ UNCHANGED <<queue, attempt, dlq, origin, cuts>>

(* Mutant: the heartbeat inserts the row when there is none.               *)
SetVisibleAfterUpsert(c) ==
    LET e == call[c].e IN
    /\ At(c, "heartbeat")
    /\ e \notin Locked
    /\ queue' = [queue EXCEPT ![e] = "leased"]
    /\ call' = [call EXCEPT ![c] = Idle]
    /\ UNCHANGED <<status, attempt, dlq, origin, claim, faults, cuts>>

(* SetVisibleAfter, one statement; its response changes nothing.           *)
SetVisibleAfter(c) ==
    LET e == call[c].e IN
    /\ At(c, "heartbeat")
    /\ e \notin Locked
    /\ queue' = [queue EXCEPT ![e] = IF @ = "none" THEN "none" ELSE "leased"]
    /\ call' = [call EXCEPT ![c] = Idle]
    /\ UNCHANGED <<status, attempt, dlq, origin, claim, faults, cuts>>

-------------------------------------------------------------------------------
(* RetryFromDLQ: the SELECT takes no lock; INSERT, Enqueue and DELETE show *)
(* when the transaction commits, and a DELETE of no row is not an error.   *)
RetryRead(c, e) ==
    /\ At(c, "idle")
    /\ dlq[e] # 0
    /\ call' = [call EXCEPT ![c] = [Idle EXCEPT !.pc = "retry", !.e = e]]
    /\ UNCHANGED <<tables, claim, faults, cuts>>

RetryCommit(c, new) ==
    LET e == call[c].e IN
    /\ At(c, "retry")
    /\ status[new] = "ABSENT"
    /\ Prio[new] = Prio[e]
    /\ status' = [status EXCEPT ![new] = "PENDING"]
    /\ queue' = [queue EXCEPT ![new] = "due"]
    /\ origin' = [origin EXCEPT ![new] = e]
    /\ dlq' = [dlq EXCEPT ![e] = 0]
    /\ call' = [call EXCEPT ![c] = Idle]
    /\ UNCHANGED <<attempt, claim, faults, cuts>>

(* Any error before the commit, and the deferred Rollback undoes it all.   *)
RetryRollback(c) ==
    /\ At(c, "retry")
    /\ call' = [call EXCEPT ![c] = Idle]
    /\ UNCHANGED <<tables, claim, faults, cuts>>

-------------------------------------------------------------------------------
(* The worker's side, as processItem shows it to the controller.           *)

(* The job of delivery n ends and the worker knows the outcome to report.  *)
JobEnds(e, n) ==
    /\ claim[e][n] = "running"
    /\ \E outcome \in {"ok", "bad"} : claim' = [claim EXCEPT ![e][n] = outcome]
    /\ UNCHANGED <<tables, call, faults, cuts>>

Reporting(e, n) ==
    \E c \in Calls : call[c].e = e /\ call[c].n = n

(* InternalUpdateResult receives the report.  A report sent again while    *)
(* the first is still being served takes a client time-out, a fault.       *)
Report(c, e, n) ==
    /\ At(c, "idle")
    /\ claim[e][n] \in {"ok", "bad"}
    /\ call' = [call EXCEPT ![c] =
                  [Idle EXCEPT
                     !.pc = IF claim[e][n] = "ok" THEN "complete_delete"
                                                  ELSE "fail_select",
                     !.e = e, !.n = n]]
    /\ IF Reporting(e, n) THEN Fault ELSE UNCHANGED faults
    /\ UNCHANGED <<tables, claim, cuts>>

(* runHeartbeat ticks until processItem returns, so while reporting too.   *)
Heartbeat(c, e, n) ==
    /\ At(c, "idle")
    /\ claim[e][n] \in Live
    /\ call' = [call EXCEPT ![c] =
                  [Idle EXCEPT !.pc = "heartbeat", !.e = e]]
    /\ UNCHANGED <<tables, claim, faults, cuts>>

(* The worker dies, or exhausts its retries against an absent controller.  *)
WorkerDies(e, n) ==
    /\ claim[e][n] \in Live
    /\ claim' = [claim EXCEPT ![e][n] = "left"]
    /\ Fault
    /\ UNCHANGED <<tables, call, cuts>>

-------------------------------------------------------------------------------
(* visible_after passes.  Heartbeats come well before the lease ends, so a *)
(* lease that ends under the worker holding the last delivery is a fault:  *)
(* heartbeats that are lost or late, or a Start that outlasts the lease    *)
(* (pulling an image, say), since the heartbeats begin when Start returns. *)
Held(e) == attempt[e] # 0 /\ claim[e][attempt[e]] \in Live

BecomesDue(e) ==
    /\ \/ queue[e] = "delayed"
       \/ queue[e] = "leased" /\ ~Held(e)
    /\ queue' = [queue EXCEPT ![e] = "due"]
    /\ UNCHANGED <<status, attempt, dlq, origin, call, claim, faults, cuts>>

LeaseLapses(e) ==
    /\ queue[e] = "leased" /\ Held(e)
    /\ queue' = [queue EXCEPT ![e] = "due"]
    /\ Fault
    /\ UNCHANGED <<status, attempt, dlq, origin, call, claim, cuts>>

(* A statement fails, the request context is cancelled because the client  *)
(* timed out, or the controller crashes: the statements that committed     *)
(* stay, an open transaction is rolled back, no response is sent.          *)
Cut(c) ==
    /\ ~At(c, "idle")
    /\ cuts < MaxCuts
    /\ cuts' = cuts + 1
    /\ call' = [call EXCEPT ![c] = Idle]
    /\ UNCHANGED <<tables, claim, faults>>

-------------------------------------------------------------------------------
Complete(c) == CompleteDelete(c) \/ CompleteUpdate(c)
Fail(c) == FailSelect(c) \/ FailBackoff(c) \/ FailInsert(c) \/ FailDelete(c)
             \/ FailUpdate(c)
Serve(c) ==
    \/ DequeueCommit(c) \/ Complete(c) \/ Fail(c) \/ SetVisibleAfter(c)
    \/ RetryRollback(c) \/ \E new \in Execs : RetryCommit(c, new)

Next ==
    \/ \E e \in Execs : RunJob(e) \/ BecomesDue(e) \/ LeaseLapses(e)
    \/ \E c \in Calls : DequeueSelect(c) \/ Serve(c) \/ Cut(c)
    \/ \E c \in Calls, e \in Execs : RetryRead(c, e)
    \/ \E e \in Execs, n \in Deliveries : JobEnds(e, n) \/ WorkerDies(e, n)
    \/ \E c \in Calls, e \in Execs, n \in Deliveries :
         Report(c, e, n) \/ Heartbeat(c, e, n)

Spec == Init /\ [][Next]_vars

(* Workers poll and report until they succeed, jobs end by themselves      *)
(* (JobRun shows what becomes of one that does not), controllers serve     *)
(* what they accepted, and time passes.                                    *)
(* SF where a request may find every slot of Calls taken again and again.  *)
Fairness ==
    /\ \A c \in Calls : WF_vars(Serve(c))
    /\ SF_vars(\E c \in Calls : DequeueSelect(c))
    /\ \A e \in Execs : WF_vars(BecomesDue(e))
    /\ \A e \in Execs, n \in Deliveries :
         /\ WF_vars(JobEnds(e, n))
         /\ SF_vars(\E c \in Calls : Report(c, e, n))

FairSpec == Spec /\ Fairness

-------------------------------------------------------------------------------
(* Safety.                                                                 *)

(* A finished execution has no queue row: once Complete or Fail has written *)
(* the outcome, DequeueBatch never hands the job out again.                *)
FinishedIsDequeued ==
    \A e \in Execs : status[e] \in Terminal => queue[e] = "none"

(* What no worker has been given is in the queue and nowhere else: not in  *)
(* the DLQ, and no report or heartbeat is about it.                        *)
WaitingIsUntouched ==
    \A e \in Execs : status[e] \in Waiting =>
        /\ queue[e] \in {"due", "delayed"}
        /\ attempt[e] = 0 /\ dlq[e] = 0
        /\ \A c \in Calls : call[c].e # e
        /\ \A n \in Deliveries : claim[e][n] = "none"

(* An execution is forgotten that is RUNNING, has no queue row, and has no *)
(* call of Complete or Fail about to write its outcome.  Each call cut     *)
(* short leaves at most one such execution behind.                         *)
Concluding(e) ==
    \E c \in Calls : call[c].pc \in {"complete_update", "fail_update"}
                     /\ call[c].e = e

Forgotten ==
    {e \in Execs : status[e] = "RUNNING" /\ queue[e] = "none" /\ ~Concluding(e)}

NothingLost == Cardinality(Forgotten) <= cuts

(* An execution is in the DLQ and in the queue only while Fail moves it    *)
(* from one to the other.  Each call cut short leaves at most one behind   *)
(* that is in both, or forgotten.                                          *)
Moving(e) == \E c \in Calls : At(c, "fail_delete") /\ call[c].e = e

Doubled == {e \in Execs : dlq[e] # 0 /\ queue[e] # "none" /\ ~Moving(e)}

QueueOrDLQ == Cardinality(Forgotten \cup Doubled) <= cuts

(* Fail moves a job to the DLQ only when it has used up its retries,       *)
(* whatever reports of earlier deliveries arrive late.                     *)
DLQAfterRetries == \A e \in Execs : dlq[e] # 0 => dlq[e] > MaxRetries

(* Without faults, two workers never run one execution at the same time,   *)
(* however dequeues, failures, backoffs and heartbeats interleave.         *)
ExclusiveClaim ==
    faults = 0 => \A e \in Execs : \A m, n \in Deliveries :
        claim[e][m] \in Live /\ claim[e][n] \in Live => m = n

(* Workers that hold one execution at the same time are paid for by faults: *)
(* one, and one more for each report or heartbeat that went astray.        *)
HoldersBounded ==
    \A e \in Execs :
        Cardinality({n \in Deliveries : claim[e][n] \in Live}) <= 1 + faults

(* Deliveries beyond the retry policy of Fail are paid for by faults, until *)
(* the job has been moved to the DLQ; cut calls cost none.                 *)
Retried(e) == \E new \in Execs : origin[new] = e

DeliveriesBounded ==
    \A e \in Execs :
        attempt[e] <= MaxRetries + 1 + faults \/ dlq[e] # 0 \/ Retried(e)

(* A FAILED execution has a DLQ entry until RetryFromDLQ replaces it by a  *)
(* new execution, wherever calls of Fail are cut.  Each fault excuses one  *)
(* execution: the report of a delivery that was not the only one may find  *)
(* no queue row to copy.                                                   *)
FailedIsInDLQ ==
    Cardinality({e \in Execs : status[e] = "FAILED" /\ dlq[e] = 0 /\ ~Retried(e)})
        <= faults

(* A finished execution stays finished: DequeueBatch never makes it        *)
(* RUNNING again.                                                          *)
FinishedStays ==
    [][\A e \in Execs : status[e] \in Terminal => status'[e] \in Terminal]_vars

(* The store implements JobLifecycle: an execution is accepted once, is    *)
(* delivered until it is finished and never after, and its outcome changes *)
(* only by the report of another delivery of the same execution.           *)
Phase(s) ==
    CASE s = "ABSENT" -> "absent"
      [] s \in Waiting -> "waiting"
      [] s = "RUNNING" -> "running"
      [] s = "SUCCEEDED" -> "ok"
      [] OTHER -> "bad"

Lifecycle == INSTANCE JobLifecycle
    WITH phase <- [e \in Execs |-> Phase(status[e])], deliveries <- attempt

KeepsLifecycle == Lifecycle!Spec

(* At-least-once delivery: unless a call is cut short, every submitted     *)
(* execution gets an outcome.                                              *)
EverySubmittedFinishes ==
    \A e \in Execs :
        status[e] # "ABSENT" ~> status[e] \in Terminal \/ cuts > 0

-------------------------------------------------------------------------------
(* What the documentation says and the code does not keep.                 *)

(* README: at-least-once delivery from a transactional queue.  A call of   *)
(* Complete or Fail cut after its DELETE leaves an execution RUNNING that  *)
(* is not in the queue, with nobody left to report its outcome.            *)
SomeoneWillConclude ==
    \A e \in Execs : status[e] = "RUNNING" /\ queue[e] = "none" =>
        \/ \E c \in Calls : call[c].e = e
        \/ \E n \in Deliveries : claim[e][n] \in Live
===============================================================================
