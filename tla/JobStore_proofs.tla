---------------------------- MODULE JobStore_proofs ----------------------------
(***************************************************************************)
(* Machine-checked proofs about JobStore, for every set of executions and  *)
(* calls and every value of the bounds.                                    *)
(***************************************************************************)
EXTENDS JobStore, FiniteSetTheorems, TLAPS

(* An execution that no worker was given has left no trace but its row.    *)
Fresh(e) == status[e] = "ABSENT" \/ status[e] \in Waiting

FreshInv ==
    \A e \in Execs : Fresh(e) =>
        /\ status[e] = "ABSENT" => queue[e] = "none"
        /\ status[e] \in Waiting => queue[e] \in {"due", "delayed"}
        /\ attempt[e] = 0 /\ dlq[e] = 0
        /\ \A c \in Calls : call[c].e # e
        /\ \A n \in Deliveries : claim[e][n] = "none"

(* A transaction of DequeueBatch holds rows that are due and that no other *)
(* transaction holds; no other call holds rows.                            *)
LockInv ==
    /\ \A c \in Calls : ~At(c, "dequeue") => call[c].batch = {}
    /\ \A c \in Calls : \A e \in call[c].batch : queue[e] = "due"
    /\ \A c, d \in Calls : c # d => call[c].batch \cap call[d].batch = {}

(* A call is about an execution unless it dequeues, and once its DELETE    *)
(* committed the row is gone for good.                                     *)
CallInv ==
    \A c \in Calls :
        /\ call[c].e = NoExec <=> call[c].pc \in {"idle", "dequeue"}
        /\ call[c].pc \in {"complete_update", "fail_update"} =>
             queue[call[c].e] = "none"

(* Fail copies to the DLQ only jobs that have used up their retries.       *)
DLQInv ==
    /\ DLQAfterRetries
    /\ \A c \in Calls : At(c, "fail_insert") =>
         queue[call[c].e] = "none" \/ attempt[call[c].e] > MaxRetries

SafeInv ==
    /\ LockInv /\ CallInv /\ FreshInv /\ FinishedIsDequeued
    /\ DLQInv

IInv == TypeOK /\ SafeInv

-------------------------------------------------------------------------------
(* Every step keeps the types.                                             *)

LEMMA IdleRecord == Idle \in CallRecords
  BY DEF Idle, CallRecords, PCs

LEMMA GotoRecord ==
  ASSUME NEW c \in Calls, NEW step \in PCs, call \in [Calls -> CallRecords],
         Goto(c, step)
  PROVE  call' \in [Calls -> CallRecords]
  BY DEF Goto, CallRecords

LEMMA ClaimUpdate ==
  ASSUME claim \in [Execs -> [Deliveries -> ClaimStates]],
         NEW e \in Execs, NEW n, NEW state \in ClaimStates
  PROVE  [claim EXCEPT ![e][n] = state] \in [Execs -> [Deliveries -> ClaimStates]]
  OBVIOUS

LEMMA AnswerType ==
  ASSUME TypeOK, NEW c \in Calls, call[c].e \in Execs, Answer(c)
  PROVE  /\ call' \in [Calls -> CallRecords]
         /\ claim' \in [Execs -> [Deliveries -> ClaimStates]]
         /\ faults' \in 0..MaxFaults
<1>1. call' \in [Calls -> CallRecords]
  BY IdleRecord DEF Answer, TypeOK
<1>2. claim' \in [Execs -> [Deliveries -> ClaimStates]]
  <2>1. "left" \in ClaimStates BY DEF ClaimStates
  <2>2. claim \in [Execs -> [Deliveries -> ClaimStates]] BY DEF TypeOK
  <2>3. [claim EXCEPT ![call[c].e][call[c].n] = "left"]
          \in [Execs -> [Deliveries -> ClaimStates]]
    BY <2>1, <2>2, ClaimUpdate
  <2> QED BY <2>2, <2>3 DEF Answer
<1>3. faults' \in 0..MaxFaults
  BY BoundsAssumption DEF Answer, Fault, TypeOK
<1> QED BY <1>1, <1>2, <1>3

LEMMA RefuseType ==
  ASSUME TypeOK, NEW c \in Calls, call[c].e \in Execs, Refuse(c)
  PROVE  /\ call' \in [Calls -> CallRecords]
         /\ claim' \in [Execs -> [Deliveries -> ClaimStates]]
         /\ faults' \in 0..MaxFaults
<1>1. call' \in [Calls -> CallRecords] /\ faults' \in 0..MaxFaults
  BY IdleRecord DEF Refuse, TypeOK
<1>2. claim' \in [Execs -> [Deliveries -> ClaimStates]]
  <2>1. "left" \in ClaimStates BY DEF ClaimStates
  <2>2. claim \in [Execs -> [Deliveries -> ClaimStates]] BY DEF TypeOK
  <2>3. [claim EXCEPT ![call[c].e][call[c].n] = "left"]
          \in [Execs -> [Deliveries -> ClaimStates]]
    BY <2>1, <2>2, ClaimUpdate
  <2> QED BY <2>2, <2>3 DEF Refuse
<1> QED BY <1>1, <1>2

(* The calls that are about an execution.                                  *)
CallsTyped ==
    \A c \in Calls : call[c].pc \notin {"idle", "dequeue"} => call[c].e \in Execs

LEMMA TypeStep == TypeOK /\ CallsTyped /\ [Next]_vars => TypeOK'
<1> SUFFICES ASSUME TypeOK, CallsTyped, [Next]_vars PROVE TypeOK' OBVIOUS
<1>1. ASSUME NEW e \in Execs, RunJob(e) PROVE TypeOK'
  BY <1>1 DEF RunJob, TypeOK, Statuses, Waiting, RowStates
<1>2. ASSUME NEW e \in Execs, BecomesDue(e) PROVE TypeOK'
  BY <1>2 DEF BecomesDue, TypeOK, RowStates
<1>3. ASSUME NEW e \in Execs, LeaseLapses(e) PROVE TypeOK'
  BY <1>3, BoundsAssumption DEF LeaseLapses, Fault, TypeOK, RowStates
<1>4. ASSUME NEW c \in Calls, DequeueSelect(c) PROVE TypeOK'
  <2>1. PICK batch \in SUBSET Execs :
          call' = [call EXCEPT ![c] = [Idle EXCEPT !.pc = "dequeue", !.batch = batch]]
    BY <1>4, TenantsAssumption DEF DequeueSelect, Available
  <2>2. [Idle EXCEPT !.pc = "dequeue", !.batch = batch] \in CallRecords
    BY DEF Idle, CallRecords, PCs
  <2> QED BY <1>4, <2>1, <2>2 DEF DequeueSelect, TypeOK, tables
<1>5. ASSUME NEW c \in Calls, DequeueCommit(c) PROVE TypeOK'
  <2>1. claim' \in [Execs -> [Deliveries -> ClaimStates]]
    BY <1>5 DEF DequeueCommit, TypeOK, ClaimStates
  <2>2. faults' \in 0..MaxFaults
    BY <1>5, BoundsAssumption DEF DequeueCommit, TypeOK, Fault
  <2>3. status' \in [Execs -> Statuses] /\ queue' \in [Execs -> RowStates]
    BY <1>5 DEF DequeueCommit, TypeOK, Statuses, RowStates
  <2> QED BY <1>5, <2>1, <2>2, <2>3, IdleRecord DEF DequeueCommit, TypeOK
<1>6. ASSUME NEW c \in Calls, CompleteDelete(c) PROVE TypeOK'
  BY <1>6, GotoRecord DEF CompleteDelete, TypeOK, RowStates, PCs
<1>7. ASSUME NEW c \in Calls, CompleteUpdate(c) PROVE TypeOK'
  <2>1. call[c].e \in Execs BY <1>7 DEF CompleteUpdate, At, CallsTyped
  <2> QED BY <1>7, <2>1, AnswerType DEF CompleteUpdate, TypeOK, Statuses, Terminal
<1>8. ASSUME NEW c \in Calls, FailSelect(c) PROVE TypeOK'
  BY <1>8, GotoRecord DEF FailSelect, TypeOK, tables, PCs
<1>9. ASSUME NEW c \in Calls, FailBackoff(c) PROVE TypeOK'
  <2>1. call[c].e \in Execs BY <1>9 DEF FailBackoff, At, CallsTyped
  <2>2. queue' \in [Execs -> RowStates] BY <1>9 DEF FailBackoff, TypeOK, RowStates
  <2> QED BY <1>9, <2>1, <2>2, AnswerType DEF FailBackoff, TypeOK
<1>10. ASSUME NEW c \in Calls, FailInsert(c) PROVE TypeOK'
  <2>1. call[c].e \in Execs BY <1>10 DEF FailInsert, At, CallsTyped
  <2>2. CASE Refuse(c)
    BY <1>10, <2>1, <2>2, RefuseType DEF FailInsert, TypeOK
  <2>3. CASE Goto(c, "fail_delete")
    BY <1>10, <2>1, <2>3, GotoRecord, RefuseType DEF FailInsert, TypeOK, PCs
  <2> QED BY <1>10, <2>2, <2>3 DEF FailInsert
<1>11. ASSUME NEW c \in Calls, FailDelete(c) PROVE TypeOK'
  BY <1>11, GotoRecord DEF FailDelete, TypeOK, RowStates, PCs
<1>12. ASSUME NEW c \in Calls, FailUpdate(c) PROVE TypeOK'
  <2>1. call[c].e \in Execs BY <1>12 DEF FailUpdate, At, CallsTyped
  <2> QED BY <1>12, <2>1, AnswerType DEF FailUpdate, TypeOK, Statuses, Terminal
<1>13. ASSUME NEW c \in Calls, SetVisibleAfter(c) PROVE TypeOK'
  BY <1>13, IdleRecord DEF SetVisibleAfter, TypeOK, RowStates
<1>14. ASSUME NEW c \in Calls, RetryRollback(c) PROVE TypeOK'
  BY <1>14, IdleRecord DEF RetryRollback, TypeOK, tables
<1>15. ASSUME NEW c \in Calls, NEW new \in Execs, RetryCommit(c, new) PROVE TypeOK'
  <2>1. call[c].e \in Execs BY <1>15 DEF RetryCommit, At, CallsTyped
  <2> QED BY <1>15, <2>1, IdleRecord
          DEF RetryCommit, TypeOK, Statuses, Waiting, RowStates
<1>16. ASSUME NEW c \in Calls, Cut(c) PROVE TypeOK'
  BY <1>16, IdleRecord, BoundsAssumption DEF Cut, TypeOK, tables
<1>17. ASSUME NEW c \in Calls, NEW e \in Execs, RetryRead(c, e) PROVE TypeOK'
  <2>1. [Idle EXCEPT !.pc = "retry", !.e = e] \in CallRecords
    BY DEF Idle, CallRecords, PCs
  <2> QED BY <1>17, <2>1 DEF RetryRead, TypeOK, tables
<1>18. ASSUME NEW e \in Execs, NEW n \in Deliveries, JobEnds(e, n) PROVE TypeOK'
  <2>1. {"ok", "bad"} \subseteq ClaimStates BY DEF ClaimStates
  <2> QED BY <1>18, <2>1, ClaimUpdate DEF JobEnds, TypeOK, tables
<1>19. ASSUME NEW e \in Execs, NEW n \in Deliveries, WorkerDies(e, n) PROVE TypeOK'
  <2>1. "left" \in ClaimStates BY DEF ClaimStates
  <2> QED BY <1>19, <2>1, ClaimUpdate, BoundsAssumption
          DEF WorkerDies, Fault, TypeOK, tables
<1>20. ASSUME NEW c \in Calls, NEW e \in Execs, NEW n \in Deliveries, Report(c, e, n)
       PROVE  TypeOK'
  <2>1. \A step \in PCs : [Idle EXCEPT !.pc = step, !.e = e, !.n = n] \in CallRecords
    <3>1. n \in Nat BY BoundsAssumption DEF Deliveries
    <3> QED BY <3>1 DEF Idle, CallRecords
  <2>2. {"complete_delete", "fail_select"} \subseteq PCs BY DEF PCs
  <2>3. call' \in [Calls -> CallRecords]
    <3>1. PICK step \in PCs :
            call' = [call EXCEPT ![c] = [Idle EXCEPT !.pc = step, !.e = e, !.n = n]]
      BY <1>20, <2>2 DEF Report
    <3> QED BY <2>1, <3>1 DEF TypeOK
  <2>4. faults' \in 0..MaxFaults
    BY <1>20, BoundsAssumption DEF Report, Fault, TypeOK
  <2> QED BY <1>20, <2>3, <2>4 DEF Report, TypeOK, tables
<1>21. ASSUME NEW c \in Calls, NEW e \in Execs, NEW n \in Deliveries, Heartbeat(c, e, n)
       PROVE  TypeOK'
  <2>1. [Idle EXCEPT !.pc = "heartbeat", !.e = e] \in CallRecords
    BY DEF Idle, CallRecords, PCs
  <2> QED BY <1>21, <2>1 DEF Heartbeat, TypeOK, tables
<1>22. CASE UNCHANGED vars
  BY <1>22 DEF vars, tables, TypeOK
<1> QED
  BY <1>1, <1>2, <1>3, <1>4, <1>5, <1>6, <1>7, <1>8, <1>9, <1>10, <1>11, <1>12,
     <1>13, <1>14, <1>15, <1>16, <1>17, <1>18, <1>19, <1>20, <1>21, <1>22
  DEF Next, Serve, Complete, Fail

(* CallInv gives the type of the execution a call is about.                *)
LEMMA CallFacts == IInv => CallsTyped
  BY DEF IInv, SafeInv, CallInv, CallsTyped, TypeOK, CallRecords

-------------------------------------------------------------------------------
(* Every action keeps SafeInv.                                              *)

LEMMA RunJobStep ==
  ASSUME IInv, TypeOK', NEW e \in Execs,
         RunJob(e)
  PROVE  SafeInv'
<1>1. LockInv'
  <2>1. \A d \in Calls : e \notin call[d].batch
    BY DEF IInv, SafeInv, LockInv, FreshInv, Fresh, RunJob
  <2> QED BY <2>1 DEF IInv, SafeInv, LockInv, RunJob, TypeOK, CallRecords, At
<1>2. CallInv'
  <2>1. \A d \in Calls : call[d].e # e
    BY DEF IInv, SafeInv, FreshInv, Fresh, RunJob
  <2>2. \A x \in Execs : x # e => queue'[x] = queue[x]
    BY DEF IInv, TypeOK, RunJob
  <2> QED BY <2>1, <2>2, CallFacts DEF IInv, SafeInv, CallInv, CallsTyped,
                                        RunJob
<1>3. FreshInv'
  BY DEF IInv, SafeInv, RunJob, FreshInv, Fresh, Waiting, Terminal, TypeOK
<1>4. FinishedIsDequeued'
  BY DEF IInv, SafeInv, RunJob, FinishedIsDequeued, Terminal, TypeOK
<1>5. DLQInv'
  <2>1. \A d \in Calls : call[d].e # e
    BY DEF IInv, SafeInv, FreshInv, Fresh, RunJob
  <2>2. \A x \in Execs : x # e => queue'[x] = queue[x]
    BY DEF IInv, TypeOK, RunJob
  <2> QED BY <2>1, <2>2, CallFacts
          DEF IInv, SafeInv, DLQInv, DLQAfterRetries, CallsTyped, At, RunJob
<1> QED BY <1>1, <1>2, <1>3, <1>4, <1>5 DEF SafeInv

LEMMA BecomesDueStep ==
  ASSUME IInv, TypeOK', NEW e \in Execs,
         BecomesDue(e)
  PROVE  SafeInv'
<1>1. LockInv'
  BY DEF IInv, SafeInv, BecomesDue, LockInv, At, TypeOK
<1>2. CallInv'
  BY DEF IInv, SafeInv, BecomesDue, CallInv, At, TypeOK
<1>3. FreshInv'
  BY DEF IInv, SafeInv, BecomesDue, FreshInv, Fresh, Waiting, Terminal, TypeOK
<1>4. FinishedIsDequeued'
  BY DEF IInv, SafeInv, BecomesDue, FinishedIsDequeued, Terminal, TypeOK
<1>5. DLQInv'
  BY DEF IInv, SafeInv, BecomesDue, DLQInv, DLQAfterRetries, At, TypeOK
<1> QED BY <1>1, <1>2, <1>3, <1>4, <1>5 DEF SafeInv

LEMMA LeaseLapsesStep ==
  ASSUME IInv, TypeOK', NEW e \in Execs,
         LeaseLapses(e)
  PROVE  SafeInv'
<1>1. LockInv'
  BY DEF IInv, SafeInv, LeaseLapses, LockInv, At, TypeOK
<1>2. CallInv'
  BY DEF IInv, SafeInv, LeaseLapses, CallInv, At, TypeOK
<1>3. FreshInv'
  BY DEF IInv, SafeInv, LeaseLapses, FreshInv, Fresh, Waiting, Terminal,
         TypeOK
<1>4. FinishedIsDequeued'
  BY DEF IInv, SafeInv, LeaseLapses, FinishedIsDequeued, Terminal, TypeOK
<1>5. DLQInv'
  BY DEF IInv, SafeInv, LeaseLapses, DLQInv, DLQAfterRetries, At, TypeOK
<1> QED BY <1>1, <1>2, <1>3, <1>4, <1>5 DEF SafeInv

LEMMA DequeueSelectStep ==
  ASSUME IInv, TypeOK', NEW c \in Calls,
         DequeueSelect(c)
  PROVE  SafeInv'
<1>1. LockInv'
  BY TenantsAssumption DEF IInv, SafeInv, DequeueSelect, LockInv, At, TypeOK,
         tables, Idle, Locked, Available
<1>2. CallInv'
  BY ExecsAssumption DEF IInv, SafeInv, DequeueSelect, CallInv, At, TypeOK,
         tables, Idle
<1>3. FreshInv'
  BY ExecsAssumption DEF IInv, SafeInv, DequeueSelect, FreshInv, Fresh,
         Waiting, Terminal, TypeOK, tables, Idle
<1>4. DLQInv'
  BY ExecsAssumption DEF IInv, SafeInv, DequeueSelect, DLQInv,
         DLQAfterRetries, At, TypeOK, tables, Idle
<1>5. FinishedIsDequeued'
  BY DEF IInv, SafeInv, DequeueSelect, FinishedIsDequeued, Terminal, tables
<1> QED BY <1>1, <1>2, <1>3, <1>4, <1>5 DEF SafeInv

LEMMA DequeueCommitStep ==
  ASSUME IInv, TypeOK', NEW c \in Calls,
         DequeueCommit(c)
  PROVE  SafeInv'
<1>1. LockInv'
  <2>1. \A d \in Calls : d # c => call'[d] = call[d]
    BY DEF IInv, TypeOK, DequeueCommit
  <2>2. call'[c] = Idle
    BY DEF IInv, TypeOK, DequeueCommit
  <2>3. ASSUME NEW d \in Calls, d # c, NEW x \in call[d].batch
        PROVE  queue'[x] = "due"
    <3>1. x \in Execs /\ x \notin call[c].batch /\ queue[x] = "due"
      BY <2>3 DEF IInv, SafeInv, LockInv, TypeOK, CallRecords
    <3> QED BY <3>1 DEF DequeueCommit
  <2> QED BY <2>1, <2>2, <2>3 DEF IInv, SafeInv, LockInv, At, Idle
<1>2. CallInv'
  <2>1. \A x \in Execs : queue[x] = "none" => queue'[x] = "none"
    BY DEF IInv, SafeInv, LockInv, TypeOK, DequeueCommit
  <2> QED BY <2>1, CallFacts
          DEF IInv, SafeInv, CallInv, CallsTyped, TypeOK, DequeueCommit, Idle, At
<1>3. FreshInv'
  BY ExecsAssumption DEF IInv, SafeInv, DequeueCommit, FreshInv, Fresh,
         Waiting, Terminal, TypeOK, Idle
<1>4. FinishedIsDequeued'
  BY DEF IInv, SafeInv, DequeueCommit, FinishedIsDequeued, Terminal, TypeOK
<1>5. DLQInv'
  <2>1. \A x \in Execs : queue[x] = "none" => queue'[x] = "none"
    BY DEF IInv, SafeInv, LockInv, TypeOK, DequeueCommit
  <2>2. \A x \in Execs : attempt[x] > MaxRetries => attempt'[x] > MaxRetries
    BY BoundsAssumption DEF IInv, TypeOK, DequeueCommit
  <2>3. DLQAfterRetries'
    BY DEF IInv, SafeInv, DLQInv, DLQAfterRetries, DequeueCommit
  <2> QED BY <2>1, <2>2, <2>3, CallFacts
          DEF IInv, SafeInv, DLQInv, CallsTyped, TypeOK, DequeueCommit, Idle, At
<1> QED BY <1>1, <1>2, <1>3, <1>4, <1>5 DEF SafeInv

LEMMA CompleteDeleteStep ==
  ASSUME IInv, TypeOK', NEW c \in Calls,
         CompleteDelete(c)
  PROVE  SafeInv'
<1>1. LockInv'
  BY DEF IInv, SafeInv, CompleteDelete, LockInv, At, TypeOK, Goto, Locked
<1>2. CallInv'
  BY ExecsAssumption DEF IInv, SafeInv, CompleteDelete, CallInv, At, TypeOK,
         Goto
<1>3. FreshInv'
  BY ExecsAssumption DEF IInv, SafeInv, CompleteDelete, FreshInv, Fresh,
         Waiting, Terminal, TypeOK, Goto
<1>4. FinishedIsDequeued'
  BY DEF IInv, SafeInv, CompleteDelete, FinishedIsDequeued, Terminal, TypeOK
<1>5. DLQInv'
  BY ExecsAssumption DEF IInv, SafeInv, CompleteDelete, DLQInv,
         DLQAfterRetries, At, TypeOK, Goto
<1> QED BY <1>1, <1>2, <1>3, <1>4, <1>5 DEF SafeInv

LEMMA CompleteUpdateStep ==
  ASSUME IInv, TypeOK', NEW c \in Calls,
         CompleteUpdate(c)
  PROVE  SafeInv'
<1>1. LockInv'
  BY DEF IInv, SafeInv, CompleteUpdate, LockInv, At, TypeOK, Idle, Answer
<1>2. CallInv'
  BY ExecsAssumption DEF IInv, SafeInv, CompleteUpdate, CallInv, At, TypeOK,
         Idle, Answer
<1>3. FreshInv'
  BY ExecsAssumption DEF IInv, SafeInv, CompleteUpdate, FreshInv, Fresh,
         Waiting, Terminal, TypeOK, Idle, Answer
<1>4. FinishedIsDequeued'
  <2>1. queue[call[c].e] = "none"
    BY DEF IInv, SafeInv, CallInv, CompleteUpdate, At
  <2> QED BY <2>1 DEF IInv, SafeInv, FinishedIsDequeued, TypeOK, CompleteUpdate
<1>5. DLQInv'
  BY ExecsAssumption DEF IInv, SafeInv, CompleteUpdate, DLQInv,
         DLQAfterRetries, At, TypeOK, Idle, Answer
<1> QED BY <1>1, <1>2, <1>3, <1>4, <1>5 DEF SafeInv

LEMMA FailSelectStep ==
  ASSUME IInv, TypeOK', NEW c \in Calls,
         FailSelect(c)
  PROVE  SafeInv'
<1>1. LockInv'
  BY DEF IInv, SafeInv, FailSelect, LockInv, At, TypeOK, tables, Goto
<1>2. CallInv'
  BY ExecsAssumption DEF IInv, SafeInv, FailSelect, CallInv, At, TypeOK,
         tables, Goto
<1>3. FreshInv'
  BY ExecsAssumption DEF IInv, SafeInv, FailSelect, FreshInv, Fresh, Waiting,
         Terminal, TypeOK, tables, Goto
<1>4. DLQInv'
  <2>1. call[c].e \in Execs
    BY CallFacts DEF CallsTyped, FailSelect, At
  <2>2. ~RetriesLeft(call[c].e) =>
          queue[call[c].e] = "none" \/ attempt[call[c].e] > MaxRetries
    BY <2>1, BoundsAssumption DEF RetriesLeft, IInv, TypeOK
  <2> QED BY <2>2 DEF IInv, SafeInv, DLQInv, DLQAfterRetries, TypeOK, FailSelect,
                      Goto, tables, At
<1>5. FinishedIsDequeued'
  BY DEF IInv, SafeInv, FailSelect, FinishedIsDequeued, Terminal, tables
<1> QED BY <1>1, <1>2, <1>3, <1>4, <1>5 DEF SafeInv

LEMMA FailBackoffStep ==
  ASSUME IInv, TypeOK', NEW c \in Calls,
         FailBackoff(c)
  PROVE  SafeInv'
<1>1. LockInv'
  BY DEF IInv, SafeInv, FailBackoff, LockInv, At, TypeOK, Idle, Answer, Locked
<1>2. CallInv'
  BY ExecsAssumption DEF IInv, SafeInv, FailBackoff, CallInv, At, TypeOK,
         Idle, Answer
<1>3. FreshInv'
  BY ExecsAssumption DEF IInv, SafeInv, FailBackoff, FreshInv, Fresh, Waiting,
         Terminal, TypeOK, Idle, Answer
<1>4. FinishedIsDequeued'
  BY DEF IInv, SafeInv, FailBackoff, FinishedIsDequeued, Terminal, TypeOK,
         Answer
<1>5. DLQInv'
  BY ExecsAssumption DEF IInv, SafeInv, FailBackoff, DLQInv, DLQAfterRetries,
         At, TypeOK, Idle, Answer
<1> QED BY <1>1, <1>2, <1>3, <1>4, <1>5 DEF SafeInv

LEMMA FailInsertStep ==
  ASSUME IInv, TypeOK', NEW c \in Calls,
         FailInsert(c)
  PROVE  SafeInv'
<1>1. /\ At(c, "fail_insert")
      /\ UNCHANGED <<status, queue, attempt, origin, cuts>>
  BY DEF FailInsert
<1>2. call[c].e \in Execs
  BY <1>1, CallFacts DEF CallsTyped, At
<1>3. CASE Refuse(c) /\ UNCHANGED dlq
  <2>1. LockInv'
    BY <1>1, <1>2, <1>3 DEF IInv, SafeInv, LockInv, At, TypeOK, Refuse, Idle
  <2>2. CallInv'
    BY <1>1, <1>2, <1>3, ExecsAssumption DEF IInv, SafeInv, CallInv, At,
           TypeOK, Refuse, Idle
  <2>3. FreshInv'
    BY <1>1, <1>2, <1>3, ExecsAssumption DEF IInv, SafeInv, FreshInv, Fresh,
           Waiting, Live, TypeOK, Refuse, Idle
  <2>4. FinishedIsDequeued'
    BY <1>1, <1>2, <1>3 DEF IInv, SafeInv, FinishedIsDequeued, TypeOK
  <2>5. DLQInv'
    BY <1>1, <1>2, <1>3 DEF IInv, SafeInv, DLQInv, DLQAfterRetries, At,
           TypeOK, Refuse, Idle
  <2> QED BY <2>1, <2>2, <2>3, <2>4, <2>5 DEF SafeInv
<1>4. CASE /\ queue[call[c].e] = "none" \/ dlq[call[c].e] = 0
           /\ dlq' = [dlq EXCEPT ![call[c].e] = IF queue[call[c].e] = "none"
                                                THEN @ ELSE attempt[call[c].e]]
           /\ Goto(c, "fail_delete")
           /\ UNCHANGED claim
  <2>1. LockInv'
    BY <1>1, <1>2, <1>4 DEF IInv, SafeInv, LockInv, At, TypeOK, Goto
  <2>2. CallInv'
    BY <1>1, <1>2, <1>4 DEF IInv, SafeInv, CallInv, At, TypeOK, Goto
  <2>3. FreshInv'
    BY <1>1, <1>2, <1>4 DEF IInv, SafeInv, FreshInv, Fresh, Waiting, Live,
           TypeOK, Goto
  <2>4. FinishedIsDequeued'
    BY <1>1, <1>2, <1>4 DEF IInv, SafeInv, FinishedIsDequeued, TypeOK
  <2>5. DLQInv'
    BY <1>1, <1>2, <1>4 DEF IInv, SafeInv, DLQInv, DLQAfterRetries, At,
           TypeOK, Goto
  <2> QED BY <2>1, <2>2, <2>3, <2>4, <2>5 DEF SafeInv
<1> QED BY <1>3, <1>4 DEF FailInsert

LEMMA FailDeleteStep ==
  ASSUME IInv, TypeOK', NEW c \in Calls,
         FailDelete(c)
  PROVE  SafeInv'
<1>1. LockInv'
  BY DEF IInv, SafeInv, FailDelete, LockInv, At, TypeOK, Goto, Locked
<1>2. CallInv'
  BY ExecsAssumption DEF IInv, SafeInv, FailDelete, CallInv, At, TypeOK, Goto
<1>3. FreshInv'
  BY ExecsAssumption DEF IInv, SafeInv, FailDelete, FreshInv, Fresh, Waiting,
         Terminal, TypeOK, Goto
<1>4. FinishedIsDequeued'
  BY DEF IInv, SafeInv, FailDelete, FinishedIsDequeued, Terminal, TypeOK
<1>5. DLQInv'
  BY ExecsAssumption DEF IInv, SafeInv, FailDelete, DLQInv, DLQAfterRetries,
         At, TypeOK, Goto
<1> QED BY <1>1, <1>2, <1>3, <1>4, <1>5 DEF SafeInv

LEMMA FailUpdateStep ==
  ASSUME IInv, TypeOK', NEW c \in Calls,
         FailUpdate(c)
  PROVE  SafeInv'
<1>1. LockInv'
  BY DEF IInv, SafeInv, FailUpdate, LockInv, At, TypeOK, Idle, Answer
<1>2. CallInv'
  BY ExecsAssumption DEF IInv, SafeInv, FailUpdate, CallInv, At, TypeOK, Idle,
         Answer
<1>3. FreshInv'
  BY ExecsAssumption DEF IInv, SafeInv, FailUpdate, FreshInv, Fresh, Waiting,
         Terminal, TypeOK, Idle, Answer
<1>4. FinishedIsDequeued'
  <2>1. queue[call[c].e] = "none"
    BY DEF IInv, SafeInv, CallInv, FailUpdate, At
  <2> QED BY <2>1 DEF IInv, SafeInv, FinishedIsDequeued, TypeOK, FailUpdate
<1>5. DLQInv'
  BY ExecsAssumption DEF IInv, SafeInv, FailUpdate, DLQInv, DLQAfterRetries,
         At, TypeOK, Idle, Answer
<1> QED BY <1>1, <1>2, <1>3, <1>4, <1>5 DEF SafeInv

LEMMA SetVisibleAfterStep ==
  ASSUME IInv, TypeOK', NEW c \in Calls,
         SetVisibleAfter(c)
  PROVE  SafeInv'
<1>1. LockInv'
  BY DEF IInv, SafeInv, SetVisibleAfter, LockInv, At, TypeOK, Idle, Locked
<1>2. CallInv'
  BY ExecsAssumption DEF IInv, SafeInv, SetVisibleAfter, CallInv, At, TypeOK,
         Idle
<1>3. FreshInv'
  BY ExecsAssumption DEF IInv, SafeInv, SetVisibleAfter, FreshInv, Fresh,
         Waiting, Terminal, TypeOK, Idle
<1>4. FinishedIsDequeued'
  BY DEF IInv, SafeInv, SetVisibleAfter, FinishedIsDequeued, Terminal, TypeOK
<1>5. DLQInv'
  BY ExecsAssumption DEF IInv, SafeInv, SetVisibleAfter, DLQInv,
         DLQAfterRetries, At, TypeOK, Idle
<1> QED BY <1>1, <1>2, <1>3, <1>4, <1>5 DEF SafeInv

LEMMA RetryRollbackStep ==
  ASSUME IInv, TypeOK', NEW c \in Calls,
         RetryRollback(c)
  PROVE  SafeInv'
<1>1. LockInv'
  BY DEF IInv, SafeInv, RetryRollback, LockInv, At, TypeOK, tables, Idle
<1>2. CallInv'
  BY ExecsAssumption DEF IInv, SafeInv, RetryRollback, CallInv, At, TypeOK,
         tables, Idle
<1>3. FreshInv'
  BY ExecsAssumption DEF IInv, SafeInv, RetryRollback, FreshInv, Fresh,
         Waiting, Terminal, TypeOK, tables, Idle
<1>4. DLQInv'
  BY ExecsAssumption DEF IInv, SafeInv, RetryRollback, DLQInv,
         DLQAfterRetries, At, TypeOK, tables, Idle
<1>5. FinishedIsDequeued'
  BY DEF IInv, SafeInv, RetryRollback, FinishedIsDequeued, Terminal, tables
<1> QED BY <1>1, <1>2, <1>3, <1>4, <1>5 DEF SafeInv

LEMMA RetryCommitStep ==
  ASSUME IInv, TypeOK', NEW c \in Calls, NEW new \in Execs,
         RetryCommit(c, new)
  PROVE  SafeInv'
<1>1. LockInv'
  BY DEF IInv, SafeInv, RetryCommit, LockInv, At, FreshInv, Fresh, TypeOK,
         Idle
<1>2. CallInv'
  BY ExecsAssumption DEF IInv, SafeInv, RetryCommit, CallInv, At, FreshInv,
         Fresh, TypeOK, Idle
<1>3. FreshInv'
  BY ExecsAssumption DEF IInv, SafeInv, RetryCommit, FreshInv, Fresh, Waiting,
         Terminal, TypeOK, Idle
<1>4. FinishedIsDequeued'
  BY DEF IInv, SafeInv, RetryCommit, FinishedIsDequeued, Terminal, TypeOK
<1>5. DLQInv'
  BY ExecsAssumption DEF IInv, SafeInv, RetryCommit, DLQInv, DLQAfterRetries,
         At, FreshInv, Fresh, TypeOK, Idle
<1> QED BY <1>1, <1>2, <1>3, <1>4, <1>5 DEF SafeInv

LEMMA CutStep ==
  ASSUME IInv, TypeOK', NEW c \in Calls,
         Cut(c)
  PROVE  SafeInv'
<1>1. LockInv'
  BY DEF IInv, SafeInv, Cut, LockInv, At, TypeOK, tables, Idle
<1>2. CallInv'
  BY ExecsAssumption DEF IInv, SafeInv, Cut, CallInv, At, TypeOK, tables, Idle
<1>3. FreshInv'
  BY ExecsAssumption DEF IInv, SafeInv, Cut, FreshInv, Fresh, Waiting,
         Terminal, TypeOK, tables, Idle
<1>4. DLQInv'
  BY ExecsAssumption DEF IInv, SafeInv, Cut, DLQInv, DLQAfterRetries, At,
         TypeOK, tables, Idle
<1>5. FinishedIsDequeued'
  BY DEF IInv, SafeInv, Cut, FinishedIsDequeued, Terminal, tables
<1> QED BY <1>1, <1>2, <1>3, <1>4, <1>5 DEF SafeInv

LEMMA RetryReadStep ==
  ASSUME IInv, TypeOK', NEW c \in Calls, NEW e \in Execs,
         RetryRead(c, e)
  PROVE  SafeInv'
<1>1. LockInv'
  BY DEF IInv, SafeInv, RetryRead, LockInv, At, TypeOK, tables, Idle
<1>2. CallInv'
  BY ExecsAssumption DEF IInv, SafeInv, RetryRead, CallInv, At, TypeOK,
         tables, Idle
<1>3. FreshInv'
  BY ExecsAssumption DEF IInv, SafeInv, RetryRead, FreshInv, Fresh, Waiting,
         Terminal, TypeOK, tables, Idle
<1>4. DLQInv'
  BY ExecsAssumption DEF IInv, SafeInv, RetryRead, DLQInv, DLQAfterRetries,
         At, TypeOK, tables, Idle
<1>5. FinishedIsDequeued'
  BY DEF IInv, SafeInv, RetryRead, FinishedIsDequeued, Terminal, tables
<1> QED BY <1>1, <1>2, <1>3, <1>4, <1>5 DEF SafeInv

LEMMA JobEndsStep ==
  ASSUME IInv, TypeOK', NEW e \in Execs, NEW n \in Deliveries,
         JobEnds(e, n)
  PROVE  SafeInv'
<1>1. FreshInv'
  BY DEF IInv, SafeInv, JobEnds, FreshInv, Fresh, Waiting, Terminal, TypeOK,
         tables
<1>2. LockInv' /\ CallInv' /\ FinishedIsDequeued' /\ DLQInv'
  BY DEF IInv, SafeInv, JobEnds, LockInv, At, CallInv, FinishedIsDequeued,
         Terminal, DLQInv, DLQAfterRetries,
         tables
<1> QED BY <1>1, <1>2 DEF SafeInv

LEMMA WorkerDiesStep ==
  ASSUME IInv, TypeOK', NEW e \in Execs, NEW n \in Deliveries,
         WorkerDies(e, n)
  PROVE  SafeInv'
<1>1. FreshInv'
  BY DEF IInv, SafeInv, WorkerDies, FreshInv, Fresh, Waiting, Terminal, Live,
         TypeOK, tables
<1>2. LockInv' /\ CallInv' /\ FinishedIsDequeued' /\ DLQInv'
  BY DEF IInv, SafeInv, WorkerDies, LockInv, At, CallInv, FinishedIsDequeued,
         Terminal, DLQInv, DLQAfterRetries,
         tables
<1> QED BY <1>1, <1>2 DEF SafeInv

LEMMA ReportStep ==
  ASSUME IInv, TypeOK', NEW c \in Calls, NEW e \in Execs, NEW n \in Deliveries,
         Report(c, e, n)
  PROVE  SafeInv'
<1>1. LockInv'
  BY DEF IInv, SafeInv, Report, LockInv, At, TypeOK, tables, Idle
<1>2. CallInv'
  BY ExecsAssumption DEF IInv, SafeInv, Report, CallInv, At, TypeOK, tables,
         Idle
<1>3. FreshInv'
  BY ExecsAssumption DEF IInv, SafeInv, Report, FreshInv, Fresh, Waiting,
         Terminal, TypeOK, tables, Idle
<1>4. DLQInv'
  BY ExecsAssumption DEF IInv, SafeInv, Report, DLQInv, DLQAfterRetries, At,
         TypeOK, tables, Idle
<1>5. FinishedIsDequeued'
  BY DEF IInv, SafeInv, Report, FinishedIsDequeued, Terminal, tables
<1> QED BY <1>1, <1>2, <1>3, <1>4, <1>5 DEF SafeInv

LEMMA HeartbeatStep ==
  ASSUME IInv, TypeOK', NEW c \in Calls, NEW e \in Execs, NEW n \in Deliveries,
         Heartbeat(c, e, n)
  PROVE  SafeInv'
<1>1. LockInv'
  BY DEF IInv, SafeInv, Heartbeat, LockInv, At, TypeOK, tables, Idle
<1>2. CallInv'
  BY ExecsAssumption DEF IInv, SafeInv, Heartbeat, CallInv, At, TypeOK,
         tables, Idle
<1>3. FreshInv'
  BY ExecsAssumption DEF IInv, SafeInv, Heartbeat, FreshInv, Fresh, Waiting,
         Terminal, Live, TypeOK, tables, Idle
<1>4. DLQInv'
  BY ExecsAssumption DEF IInv, SafeInv, Heartbeat, DLQInv, DLQAfterRetries,
         At, TypeOK, tables, Idle
<1>5. FinishedIsDequeued'
  BY DEF IInv, SafeInv, Heartbeat, FinishedIsDequeued, Terminal, tables
<1> QED BY <1>1, <1>2, <1>3, <1>4, <1>5 DEF SafeInv

-------------------------------------------------------------------------------
(* IInv is inductive.                                                      *)

LEMMA InitInv == Init => IInv
  BY ExecsAssumption, BoundsAssumption
  DEF Init, IInv, SafeInv, TypeOK, LockInv, CallInv, FreshInv, Fresh, DLQInv,
      FinishedIsDequeued, DLQAfterRetries, Idle, At,
      Statuses, Waiting, Terminal, RowStates, ClaimStates, CallRecords, PCs

LEMMA StutterInv == IInv /\ UNCHANGED vars => SafeInv'
  BY DEF IInv, SafeInv, vars, tables, LockInv, CallInv, FreshInv, Fresh, DLQInv,
         FinishedIsDequeued, DLQAfterRetries,
         At

LEMMA NextInv == IInv /\ [Next]_vars => IInv'
<1> SUFFICES ASSUME IInv, [Next]_vars PROVE IInv'
  OBVIOUS
<1>1. TypeOK'
  BY CallFacts, TypeStep DEF IInv
<1>2. SafeInv'
  BY <1>1, StutterInv, RunJobStep, BecomesDueStep, LeaseLapsesStep,
     DequeueSelectStep, DequeueCommitStep, CompleteDeleteStep,
     CompleteUpdateStep, FailSelectStep, FailBackoffStep, FailInsertStep,
     FailDeleteStep, FailUpdateStep, SetVisibleAfterStep, RetryRollbackStep,
     RetryCommitStep, CutStep, RetryReadStep, JobEndsStep, WorkerDiesStep,
     ReportStep, HeartbeatStep
  DEF Next, Serve, Complete, Fail
<1> QED BY <1>1, <1>2 DEF IInv

THEOREM Inductive == Spec => []IInv
<1>1. Init => IInv BY InitInv
<1>2. IInv /\ [Next]_vars => IInv' BY NextInv
<1> QED BY <1>1, <1>2, PTL DEF Spec

-------------------------------------------------------------------------------
(* Every variable keeps its type: statuses, rows, claims and calls.        *)
THEOREM TypeCorrect == Spec => []TypeOK
  BY Inductive, PTL DEF IInv

(* What Complete or Fail has finished DequeueBatch never hands out again.  *)
THEOREM NoDeliveryAfterOutcome == Spec => []FinishedIsDequeued
  BY Inductive, PTL DEF IInv, SafeInv

(* Fail dead-letters a job only when its retries are used up.              *)
THEOREM DeadLettersRetried == Spec => []DLQAfterRetries
<1>1. IInv => DLQAfterRetries BY DEF IInv, SafeInv, DLQInv
<1> QED BY <1>1, Inductive, PTL

(* RunJob and RetryFromDLQ leave a new execution in the queue alone, and   *)
(* nothing but a delivery touches it.                                      *)
THEOREM WaitingUntouched == Spec => []WaitingIsUntouched
<1>1. IInv => WaitingIsUntouched
  BY DEF IInv, SafeInv, FreshInv, Fresh, WaitingIsUntouched
<1> QED BY <1>1, Inductive, PTL

(* No statement of any call takes a finished execution back to RUNNING.    *)
THEOREM FinishedForGood == Spec => FinishedStays
<1>1. ASSUME IInv, [Next]_vars, NEW e \in Execs, status[e] \in Terminal
      PROVE  status'[e] \in Terminal
  <2>1. CASE UNCHANGED status
    BY <1>1, <2>1
  <2>2. CASE \E x \in Execs : RunJob(x)
    BY <1>1, <2>2 DEF RunJob, IInv, TypeOK, Terminal
  <2>3. ASSUME NEW c \in Calls, DequeueCommit(c)
        PROVE  status'[e] \in Terminal
    <3>1. e \notin call[c].batch
      BY <1>1 DEF IInv, SafeInv, LockInv, FinishedIsDequeued
    <3> QED BY <1>1, <2>3, <3>1 DEF DequeueCommit
  <2>4. CASE \E c \in Calls : CompleteUpdate(c) \/ FailUpdate(c)
    BY <1>1, <2>4 DEF CompleteUpdate, FailUpdate, IInv, TypeOK, Terminal
  <2>5. CASE \E c \in Calls, new \in Execs : RetryCommit(c, new)
    BY <1>1, <2>5 DEF RetryCommit, IInv, TypeOK, Terminal
  <2> QED
    BY <1>1, <2>1, <2>2, <2>3, <2>4, <2>5
    DEF Next, Serve, Complete, Fail, vars, tables, BecomesDue, LeaseLapses,
        DequeueSelect, CompleteDelete, FailSelect, FailBackoff, FailInsert,
        FailDelete, SetVisibleAfter, RetryRollback, Cut, RetryRead, JobEnds,
        WorkerDies, Report, Heartbeat
<1>2. IInv /\ [Next]_vars =>
        [\A e \in Execs : status[e] \in Terminal => status'[e] \in Terminal]_vars
  BY <1>1
<1> QED BY <1>2, Inductive, PTL DEF Spec, FinishedStays

-------------------------------------------------------------------------------
(* What a cut call costs.                                                  *)

LEMMA Sizes ==
  ASSUME NEW S, NEW T, IsFiniteSet(S), T \subseteq S
  PROVE  /\ IsFiniteSet(T)
         /\ Cardinality(S) \in Nat /\ Cardinality(T) \in Nat
         /\ Cardinality(T) <= Cardinality(S)
  BY FS_Subset, FS_CardinalityType

LEMMA OneMore ==
  ASSUME NEW S, NEW x, NEW T, IsFiniteSet(S), T \subseteq S \cup {x}
  PROVE  /\ IsFiniteSet(T)
         /\ Cardinality(S) \in Nat /\ Cardinality(T) \in Nat
         /\ Cardinality(T) <= Cardinality(S) + 1
<1>1. /\ IsFiniteSet(S \cup {x})
      /\ Cardinality(S \cup {x}) \in {Cardinality(S), Cardinality(S) + 1}
  BY FS_AddElement
<1> QED BY <1>1, Sizes, FS_CardinalityType

(* An execution that is RUNNING without a queue row and with nobody to     *)
(* conclude it, or in both queue and DLQ with nobody moving it.            *)
Stray(e) ==
    \/ status[e] = "RUNNING" /\ queue[e] = "none" /\ ~Concluding(e)
    \/ dlq[e] # 0 /\ queue[e] # "none" /\ ~Moving(e)

Strays == {e \in Execs : Stray(e)}

CutInv == IsFiniteSet(Strays) /\ Cardinality(Strays) <= cuts

(* The calls that answer for an execution between their statements.        *)
Answering == {"complete_update", "fail_update", "fail_delete"}

(* Steps that move no execution between its places, and end no such call.  *)
Steady ==
    /\ \A e \in Execs :
         /\ queue'[e] = "none" <=> queue[e] = "none"
         /\ status'[e] = status[e] /\ dlq'[e] = dlq[e]
    /\ \A c \in Calls : call[c].pc \in Answering => call'[c] = call[c]

LEMMA SteadyStrays ==
  ASSUME Steady, NEW e \in Execs, Stray(e)'
  PROVE  Stray(e)
<1>1. Concluding(e) => Concluding(e)'
  BY DEF Steady, Concluding, Answering
<1>2. Moving(e) => Moving(e)'
  BY DEF Steady, Moving, At, Answering
<1> QED BY <1>1, <1>2 DEF Steady, Stray

LEMMA SteadySteps ==
  ASSUME IInv
  PROVE  /\ UNCHANGED vars => Steady
         /\ \A e \in Execs : BecomesDue(e) \/ LeaseLapses(e) => Steady
         /\ \A c \in Calls :
              DequeueSelect(c) \/ FailSelect(c) \/ FailBackoff(c)
                \/ SetVisibleAfter(c) \/ RetryRollback(c)
              => Steady
         /\ \A c \in Calls, e \in Execs : RetryRead(c, e) => Steady
         /\ \A e \in Execs, n \in Deliveries :
              JobEnds(e, n) \/ WorkerDies(e, n) => Steady
         /\ \A c \in Calls, e \in Execs, n \in Deliveries :
              Report(c, e, n) \/ Heartbeat(c, e, n) => Steady
<1> USE DEF Steady, Answering, IInv, TypeOK
<1>1. UNCHANGED vars => Steady
  BY DEF vars, tables
<1>2. \A e \in Execs : BecomesDue(e) \/ LeaseLapses(e) => Steady
  BY DEF BecomesDue, LeaseLapses
<1>3. \A c \in Calls : DequeueSelect(c) \/ FailSelect(c) => Steady
  BY DEF DequeueSelect, FailSelect, Goto, At, tables
<1>4. \A c \in Calls :
        FailBackoff(c) \/ SetVisibleAfter(c) \/ RetryRollback(c) => Steady
  BY DEF FailBackoff, Answer, SetVisibleAfter, RetryRollback, At, tables
<1>5. \A c \in Calls, e \in Execs : RetryRead(c, e) => Steady
  BY DEF RetryRead, At, tables
<1>6. \A e \in Execs, n \in Deliveries : JobEnds(e, n) \/ WorkerDies(e, n) => Steady
  BY DEF JobEnds, WorkerDies, tables
<1>7. \A c \in Calls, e \in Execs, n \in Deliveries :
        Report(c, e, n) \/ Heartbeat(c, e, n) => Steady
  BY DEF Report, Heartbeat, At, tables
<1> HIDE DEF Steady, Answering, IInv, TypeOK
<1> QED BY <1>1, <1>2, <1>3, <1>4, <1>5, <1>6, <1>7

(* New executions have one row and no DLQ entry.                           *)
LEMMA NewNotStray ==
  ASSUME IInv, NEW e \in Execs, status[e] = "ABSENT", NEW x \in Execs,
         status' = [status EXCEPT ![e] = status'[e]],
         queue' = [queue EXCEPT ![e] = queue'[e]],
         queue'[e] # "none", dlq'[x] \in {dlq[x], 0},
         \A c \in Calls : call[c].pc \in Answering => call'[c] = call[c],
         Stray(x)'
  PROVE  Stray(x)
<1>1. dlq[e] = 0
  BY DEF IInv, SafeInv, FreshInv, Fresh
<1>2. x # e
  BY <1>1 DEF Stray
<1>3. Concluding(x) => Concluding(x)'
  BY DEF Concluding, Answering
<1>4. Moving(x) => Moving(x)'
  BY DEF Moving, At, Answering
<1>5. status'[x] = status[x] /\ queue'[x] = queue[x]
  BY <1>2 DEF IInv, TypeOK
<1> QED BY <1>3, <1>4, <1>5 DEF Stray

LEMMA DequeuedNotStray ==
  ASSUME IInv, NEW c \in Calls, DequeueCommit(c), NEW e \in Execs, Stray(e)'
  PROVE  Stray(e)
<1>1. e \in call[c].batch => queue[e] = "due" /\ queue'[e] = "leased"
  BY DEF DequeueCommit, IInv, SafeInv, LockInv
<1>2. e \notin call[c].batch => queue'[e] = queue[e] /\ status'[e] = status[e]
  BY DEF DequeueCommit
<1>3. \A d \in Calls : call[d].pc \in Answering => call'[d] = call[d]
  BY DEF DequeueCommit, At, IInv, TypeOK, Answering
<1>4. (Concluding(e) => Concluding(e)') /\ (Moving(e) => Moving(e)')
  BY <1>3 DEF Concluding, Moving, At, Answering
<1>5. dlq'[e] = dlq[e]
  BY DEF DequeueCommit
<1> QED BY <1>1, <1>2, <1>4, <1>5 DEF Stray

(* The DELETE and the UPDATE of Complete and Fail, and the INSERT: the     *)
(* execution they are about is the call's business before and after, or it *)
(* has its outcome.                                                        *)
LEMMA ConcludedNotStray ==
  ASSUME IInv, NEW c \in Calls, NEW e \in Execs, Stray(e)',
         \/ CompleteDelete(c) \/ CompleteUpdate(c)
         \/ FailInsert(c) \/ FailDelete(c) \/ FailUpdate(c)
  PROVE  Stray(e)
<1>1. /\ call[c].e \in Execs
      /\ \A d \in Calls : d # c => call'[d] = call[d]
  BY CallFacts
  DEF CompleteDelete, CompleteUpdate, FailInsert, FailDelete, FailUpdate, CallsTyped,
      At, Goto, Answer, Refuse, IInv, TypeOK
<1>2. CASE e # call[c].e
  <2>1. status'[e] = status[e] /\ queue'[e] = queue[e] /\ dlq'[e] = dlq[e]
    BY <1>1, <1>2
    DEF CompleteDelete, CompleteUpdate, FailInsert, FailDelete, FailUpdate, IInv, TypeOK
  <2>2. (Concluding(e) => Concluding(e)') /\ (Moving(e) => Moving(e)')
    BY <1>1, <1>2 DEF Concluding, Moving, At
  <2> QED BY <2>1, <2>2 DEF Stray
<1>3. CASE e = call[c].e /\ (CompleteDelete(c) \/ FailDelete(c))
  <2>1. queue'[e] = "none"
    BY <1>1, <1>3 DEF CompleteDelete, FailDelete, IInv, TypeOK
  <2>2. call'[c].pc \in {"complete_update", "fail_update"} /\ call'[c].e = e
    BY <1>3 DEF CompleteDelete, FailDelete, Goto, IInv, TypeOK, CallRecords
  <2>3. Concluding(e)'
    BY <2>2 DEF Concluding
  <2> QED BY <2>1, <2>3 DEF Stray
<1>4. CASE e = call[c].e /\ (CompleteUpdate(c) \/ FailUpdate(c))
  <2>1. /\ queue[e] = "none" /\ queue'[e] = "none"
        /\ status'[e] # "RUNNING"
    BY <1>1, <1>4
    DEF CompleteUpdate, FailUpdate, At, IInv, TypeOK, SafeInv, CallInv
  <2> QED BY <2>1 DEF Stray
<1>5. CASE e = call[c].e /\ FailInsert(c) /\ call'[c].pc # "fail_delete"
  <2>1. UNCHANGED <<status, queue, dlq>> /\ call[c].pc = "fail_insert"
    BY <1>5 DEF FailInsert, Goto, At, IInv, TypeOK, CallRecords
  <2>2. (Concluding(e) => Concluding(e)') /\ (Moving(e) => Moving(e)')
    BY <1>1, <2>1 DEF Concluding, Moving, At
  <2> QED BY <2>1, <2>2 DEF Stray
<1>6. CASE e = call[c].e /\ FailInsert(c) /\ call'[c].pc = "fail_delete"
  <2>1. UNCHANGED <<status, queue>> /\ call[c].pc = "fail_insert" /\ call'[c].e = e
    BY <1>6 DEF FailInsert, Goto, Refuse, Idle, At, IInv, TypeOK, CallRecords
  <2>2. Moving(e)'
    BY <1>6, <2>1 DEF Moving, At
  <2>3. Concluding(e) => Concluding(e)'
    BY <1>1, <2>1 DEF Concluding
  <2> QED BY <2>1, <2>2, <2>3 DEF Stray
<1> QED BY <1>2, <1>3, <1>4, <1>5, <1>6

LEMMA StraySteps ==
  ASSUME IInv, [Next]_vars, \A c \in Calls : ~Cut(c), NEW e \in Execs, Stray(e)'
  PROVE  Stray(e)
<1>1. ASSUME NEW x \in Execs, RunJob(x) PROVE Stray(e)
  BY <1>1, NewNotStray DEF RunJob, IInv, TypeOK
<1>2. ASSUME NEW c \in Calls, NEW x \in Execs, RetryCommit(c, x) PROVE Stray(e)
  <2>1. call[c].e \in Execs
    BY <1>2, CallFacts DEF RetryCommit, At, CallsTyped
  <2>2. /\ status[x] = "ABSENT" /\ queue'[x] # "none"
        /\ dlq'[e] \in {dlq[e], 0}
        /\ status' = [status EXCEPT ![x] = status'[x]]
        /\ queue' = [queue EXCEPT ![x] = queue'[x]]
        /\ \A d \in Calls : call[d].pc \in Answering => call'[d] = call[d]
    BY <1>2, <2>1 DEF RetryCommit, At, Answering, IInv, TypeOK
  <2> QED BY <2>2, NewNotStray
<1> QED
  BY <1>1, <1>2, SteadySteps, SteadyStrays, DequeuedNotStray, ConcludedNotStray
  DEF Next, Serve, Complete, Fail

(* A cut ends one call, and costs at most the execution it was about.      *)
LEMMA CutStrays ==
  ASSUME IInv, NEW c \in Calls, Cut(c), NEW e \in Execs, e # call[c].e, Stray(e)'
  PROVE  Stray(e)
<1>1. UNCHANGED <<status, queue, dlq>> /\ \A d \in Calls : d # c => call'[d] = call[d]
  BY DEF Cut, tables, IInv, TypeOK
<1>2. (Concluding(e) => Concluding(e)') /\ (Moving(e) => Moving(e)')
  BY <1>1 DEF Concluding, Moving, At
<1> QED BY <1>1, <1>2 DEF Stray

LEMMA CutKeeps == IInv /\ CutInv /\ [Next]_vars => CutInv'
<1> SUFFICES ASSUME IInv, CutInv, [Next]_vars PROVE CutInv'
  OBVIOUS
<1>1. cuts \in Nat
  BY BoundsAssumption DEF IInv, TypeOK
<1>2. ASSUME NEW c \in Calls, Cut(c) PROVE CutInv'
  <2>1. Strays' \subseteq Strays \cup {call[c].e}
    BY <1>2, CutStrays DEF Strays
  <2>2. cuts' = cuts + 1
    BY <1>2 DEF Cut
  <2>3. /\ IsFiniteSet(Strays') /\ Cardinality(Strays') \in Nat
        /\ Cardinality(Strays) \in Nat
        /\ Cardinality(Strays') <= Cardinality(Strays) + 1
    BY <2>1, OneMore DEF CutInv
  <2> QED BY <1>1, <2>2, <2>3 DEF CutInv
<1>3. CASE \A c \in Calls : ~Cut(c)
  <2>1. Strays' \subseteq Strays
    BY <1>3, StraySteps DEF Strays
  <2>2. cuts' = cuts
    BY <1>3
    DEF Next, Serve, Complete, Fail, vars, RunJob, BecomesDue, LeaseLapses,
        DequeueSelect, DequeueCommit, CompleteDelete, CompleteUpdate, FailSelect,
        FailBackoff, FailInsert, FailDelete, FailUpdate, SetVisibleAfter, RetryRead,
        RetryCommit, RetryRollback, JobEnds, WorkerDies, Report, Heartbeat
  <2>3. /\ IsFiniteSet(Strays') /\ Cardinality(Strays') \in Nat
        /\ Cardinality(Strays) \in Nat
        /\ Cardinality(Strays') <= Cardinality(Strays)
    BY <2>1, Sizes DEF CutInv
  <2> QED BY <1>1, <2>2, <2>3 DEF CutInv
<1> QED BY <1>2, <1>3

THEOREM CutsPaid == Spec => []CutInv
<1>1. Init => CutInv
  <2> SUFFICES ASSUME Init PROVE CutInv
    OBVIOUS
  <2>1. Strays = {}
    BY DEF Init, Strays, Stray
  <2>2. cuts = 0
    BY DEF Init
  <2>3. IsFiniteSet(Strays) /\ Cardinality(Strays) = 0
    BY <2>1, FS_EmptySet
  <2> QED BY <2>2, <2>3 DEF CutInv
<1> QED BY <1>1, CutKeeps, Inductive, PTL DEF Spec

(* Each cut call leaves at most one RUNNING execution without a queue row  *)
(* whose outcome no call of Complete or Fail is about to write.            *)
THEOREM NoneLost == Spec => []NothingLost
<1>1. IInv /\ CutInv => NothingLost
  <2> SUFFICES ASSUME IInv, CutInv PROVE NothingLost
    OBVIOUS
  <2>1. Forgotten \subseteq Strays
    BY DEF Forgotten, Strays, Stray
  <2>2. /\ Cardinality(Strays) \in Nat /\ Cardinality(Forgotten) \in Nat
        /\ Cardinality(Forgotten) <= Cardinality(Strays)
    BY <2>1, Sizes DEF CutInv
  <2>3. cuts \in Nat
    BY BoundsAssumption DEF IInv, TypeOK
  <2> QED BY <2>2, <2>3 DEF CutInv, NothingLost
<1> QED BY <1>1, Inductive, CutsPaid, PTL

(* Each cut call leaves at most one execution behind that is in both the   *)
(* queue and the DLQ, or RUNNING out of the queue, with no call about to   *)
(* mend it.                                                                *)
THEOREM OneOfQueueAndDLQ == Spec => []QueueOrDLQ
<1>1. Strays = Forgotten \cup Doubled
  BY DEF Strays, Stray, Forgotten, Doubled
<1>2. CutInv => QueueOrDLQ
  BY <1>1 DEF CutInv, QueueOrDLQ
<1> QED BY <1>2, CutsPaid, PTL
===============================================================================
