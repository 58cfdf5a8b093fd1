----------------------- MODULE JobStore_delivery_proofs -----------------------
(***************************************************************************)
(* Machine-checked proofs about the deliveries of JobStore: who may hold   *)
(* an execution, what becomes of one that failed, what extra deliveries    *)
(* are paid for by, and that the store implements JobLifecycle.            *)
(***************************************************************************)
EXTENDS JobStore_proofs

(* Reports in flight, by the outcome they carry.                           *)
Succeeding == {"complete_delete", "complete_update"}
Failing == {"fail_select", "fail_backoff", "fail_insert", "fail_delete",
            "fail_update"}
Reports == Succeeding \cup Failing

(* Reports are about deliveries that were made.                            *)
MadeInv ==
    /\ \A e \in Execs : ~Fresh(e) => attempt[e] >= 1
    /\ \A e \in Execs, n \in Deliveries : claim[e][n] # "none" => n <= attempt[e]
    /\ \A c \in Calls : call[c].pc \in Reports =>
         call[c].n \in Deliveries /\ claim[call[c].e][call[c].n] # "none"

(* As long as an execution was delivered once, the claim, the reports in   *)
(* flight and the status agree on its outcome.                             *)
Agree(e) ==
    /\ \A c \in Calls : call[c].e = e =>
         /\ call[c].pc \in Succeeding => claim[e][1] \in {"ok", "left"}
         /\ call[c].pc \in Failing => claim[e][1] \in {"bad", "left"}
         /\ status[e] = "SUCCEEDED" => call[c].pc \notin Failing
         /\ status[e] = "FAILED" => call[c].pc \notin Succeeding
    /\ \A c, d \in Calls : call[c].e = e /\ call[d].e = e =>
         ~(call[c].pc \in Succeeding /\ call[d].pc \in Failing)
    /\ status[e] = "SUCCEEDED" => claim[e][1] \in {"ok", "left"}
    /\ status[e] = "FAILED" => claim[e][1] \in {"bad", "left"}

FirstInv == \A e \in Execs : attempt[e] <= 1 => Agree(e)

DeliveryInv == MadeInv /\ FirstInv
-------------------------------------------------------------------------------
(* A report that ends leaves Calls, and its claim at most turns "left".    *)
Dropped(c) ==
    /\ call' = [call EXCEPT ![c] = Idle]
    /\ \A e \in Execs, n \in Deliveries :
         \/ claim'[e][n] = claim[e][n]
         \/ e = call[c].e /\ n = call[c].n /\ claim'[e][n] = "left"

LEMMA ReportEnds ==
  ASSUME IInv, MadeInv, NEW c \in Calls, call[c].pc \in Reports
  PROVE  Refuse(c) \/ Answer(c) => Dropped(c)
<1>1. call[c].e \in Execs /\ call[c].n \in Deliveries
  BY CallFacts DEF CallsTyped, MadeInv, Reports, Succeeding, Failing
<1>2. ASSUME claim' = [claim EXCEPT ![call[c].e][call[c].n] = "left"]
      PROVE  /\ claim'[call[c].e][call[c].n] = "left"
             /\ \A e \in Execs, n \in Deliveries :
                  \/ claim'[e][n] = claim[e][n]
                  \/ e = call[c].e /\ n = call[c].n /\ claim'[e][n] = "left"
  BY <1>1, <1>2 DEF IInv, TypeOK
<1> QED BY <1>2 DEF Refuse, Answer, Dropped

LEMMA DroppedMade ==
  ASSUME IInv, MadeInv, NEW c \in Calls, call[c].pc \in Reports, Dropped(c),
         attempt' = attempt, \A e \in Execs : Fresh(e) => Fresh(e)'
  PROVE  MadeInv'
<1>1. \A d \in Calls : d # c => call'[d] = call[d]
  BY DEF Dropped, IInv, TypeOK
<1>2. call'[c].pc \notin Reports
  BY DEF Dropped, Idle, Reports, Succeeding, Failing, IInv, TypeOK
<1>3. \A d \in Calls : call[d].pc \in Reports => call[d].e \in Execs
  BY CallFacts DEF CallsTyped, Reports, Succeeding, Failing
<1>4. \A e \in Execs, n \in Deliveries :
        claim'[e][n] # "none" => claim[e][n] # "none"
  BY DEF Dropped, MadeInv
<1>5. \A e \in Execs, n \in Deliveries :
        claim[e][n] # "none" => claim'[e][n] # "none"
  BY DEF Dropped
<1> QED BY <1>1, <1>2, <1>3, <1>4, <1>5 DEF MadeInv

LEMMA DroppedFirst ==
  ASSUME IInv, MadeInv, FirstInv, NEW c \in Calls, call[c].pc \in Reports, Dropped(c),
         attempt' = attempt,
         \A e \in Execs : status'[e] # status[e] =>
            /\ e = call[c].e
            /\ status'[e] = "SUCCEEDED" => call[c].pc \in Succeeding
            /\ status'[e] = "FAILED" => call[c].pc \in Failing
  PROVE  FirstInv'
<1>1. \A d \in Calls : d # c => call'[d] = call[d]
  BY DEF Dropped, IInv, TypeOK
<1>2. call'[c].pc \notin Reports
  BY DEF Dropped, Idle, Reports, Succeeding, Failing, IInv, TypeOK
<1>3. 1 \in Deliveries
  BY BoundsAssumption DEF MadeInv, Deliveries
<1>4. ASSUME NEW e \in Execs, attempt[e] <= 1
      PROVE  Agree(e)'
  <2>1. Agree(e)
    BY <1>4 DEF FirstInv
  <2>2. claim'[e][1] = claim[e][1] \/ claim'[e][1] = "left"
    BY <1>3 DEF Dropped
  <2>3. \A d \in Calls : call'[d].pc \in Reports => d # c /\ call'[d] = call[d]
    BY <1>1, <1>2
  <2> QED BY <1>4, <2>1, <2>2, <2>3 DEF Agree, Reports
<1> QED BY <1>4 DEF FirstInv

-------------------------------------------------------------------------------
(* Steps that deliver nothing, settle no claim and start no report.        *)
Quiet ==
    /\ UNCHANGED <<attempt, claim>>
    /\ \A e \in Execs : status'[e] = status[e] \/ (Fresh(e) /\ Fresh(e)')
    /\ \A c \in Calls : call'[c].pc \in Reports =>
         /\ call'[c].e = call[c].e /\ call'[c].n = call[c].n
         /\ call'[c].pc \in Succeeding => call[c].pc \in Succeeding
         /\ call'[c].pc \in Failing => call[c].pc \in Failing

LEMMA QuietKeeps ==
  ASSUME IInv, DeliveryInv, Quiet
  PROVE  DeliveryInv'
<1>1. \A c \in Calls : call'[c].pc \in Reports => call[c].pc \in Reports
  BY DEF Quiet, Reports
<1>2. MadeInv'
  <2>1. \A e \in Execs : ~Fresh(e)' => attempt'[e] >= 1
    BY DEF DeliveryInv, MadeInv, Quiet, Fresh
  <2>2. \A c \in Calls : call'[c].pc \in Reports =>
          call'[c].n \in Deliveries /\ claim'[call'[c].e][call'[c].n] # "none"
    BY <1>1 DEF DeliveryInv, MadeInv, Quiet
  <2> QED BY <2>1, <2>2 DEF DeliveryInv, MadeInv, Quiet
<1>3. FirstInv'
  <2>1. ASSUME NEW e \in Execs, attempt[e] <= 1
        PROVE  Agree(e)'
    <3>1. Agree(e)
      BY <2>1 DEF DeliveryInv, FirstInv
    <3>2. status'[e] \in Terminal => status'[e] = status[e]
      BY DEF Quiet, Fresh, Waiting, Terminal
    <3> QED BY <3>1, <3>2 DEF Agree, Quiet, Reports, Terminal
  <2> QED BY <2>1 DEF FirstInv, Quiet
<1> QED BY <1>2, <1>3 DEF DeliveryInv

LEMMA QuietSteps ==
  ASSUME IInv, IInv', DeliveryInv
  PROVE  /\ \A e \in Execs :
              (RunJob(e) \/ BecomesDue(e) \/ LeaseLapses(e)) => Quiet
         /\ \A c \in Calls :
              (\/ DequeueSelect(c) \/ CompleteDelete(c) \/ FailSelect(c)
               \/ FailDelete(c) \/ SetVisibleAfter(c) \/ RetryRollback(c) \/ Cut(c))
              => Quiet
         /\ \A c \in Calls, e \in Execs :
              (RetryCommit(c, e) \/ RetryRead(c, e)) => Quiet
         /\ \A c \in Calls, e \in Execs, n \in Deliveries :
              Heartbeat(c, e, n) => Quiet
<1> USE DEF Quiet, IInv, TypeOK, DeliveryInv, Reports, Succeeding, Failing
<1>1. ASSUME NEW e \in Execs, RunJob(e) PROVE Quiet
  BY <1>1 DEF RunJob, SafeInv, FreshInv, Fresh, Waiting
<1>2. ASSUME NEW e \in Execs, BecomesDue(e) PROVE Quiet
  BY <1>2 DEF BecomesDue
<1>3. ASSUME NEW e \in Execs, LeaseLapses(e) PROVE Quiet
  BY <1>3, BoundsAssumption DEF LeaseLapses, Fault
<1>4. ASSUME NEW c \in Calls, DequeueSelect(c) PROVE Quiet
  BY <1>4 DEF DequeueSelect, tables, Idle
<1>5. ASSUME NEW c \in Calls, CompleteDelete(c) PROVE Quiet
  BY <1>5 DEF CompleteDelete, Goto, At, CallRecords
<1>6. ASSUME NEW c \in Calls, FailSelect(c) PROVE Quiet
  BY <1>6 DEF FailSelect, Goto, At, tables, CallRecords
<1>7. ASSUME NEW c \in Calls, FailDelete(c) PROVE Quiet
  BY <1>7 DEF FailDelete, Goto, At, CallRecords
<1>8. ASSUME NEW c \in Calls, SetVisibleAfter(c) PROVE Quiet
  BY <1>8 DEF SetVisibleAfter, Idle
<1>9. ASSUME NEW c \in Calls, RetryRollback(c) \/ Cut(c) PROVE Quiet
  BY <1>9 DEF RetryRollback, Cut, Idle, tables
<1>10. ASSUME NEW c \in Calls, NEW e \in Execs, RetryRead(c, e)
       PROVE  Quiet
  BY <1>10 DEF RetryRead, Idle, tables
<1>11. ASSUME NEW c \in Calls, NEW e \in Execs, NEW n \in Deliveries, Heartbeat(c, e, n)
       PROVE  Quiet
  BY <1>11 DEF Heartbeat, Idle, tables
<1>12. ASSUME NEW c \in Calls, NEW e \in Execs, RetryCommit(c, e)
       PROVE  Quiet
  BY <1>12 DEF RetryCommit, Idle, SafeInv, FreshInv, Fresh, Waiting
<1> HIDE DEF Quiet, IInv, TypeOK, DeliveryInv, Reports, Succeeding, Failing
<1> QED
  BY <1>1, <1>2, <1>3, <1>4, <1>5, <1>6, <1>7, <1>8, <1>9, <1>10, <1>11, <1>12
-------------------------------------------------------------------------------
(* The steps of deliveries and claims.                                     *)

LEMMA DequeueCommitDelivers ==
  ASSUME IInv, DeliveryInv, NEW c \in Calls, DequeueCommit(c)
  PROVE  DeliveryInv'
<1> DEFINE batch == call[c].batch
<1>1. /\ \A d \in Calls : d # c => call'[d] = call[d]
      /\ call'[c].pc \notin Reports
  BY DEF DequeueCommit, IInv, TypeOK, Idle, Reports, Succeeding, Failing
<1>2. \A d \in Calls : call'[d].pc \in Reports =>
        /\ call'[d] = call[d]
        /\ call[d].e \in Execs /\ call[d].n \in Deliveries
        /\ claim[call[d].e][call[d].n] # "none"
  BY <1>1, CallFacts
  DEF CallsTyped, DeliveryInv, MadeInv, Reports, Succeeding, Failing
<1>3. \A e \in Execs : attempt'[e] = IF e \in batch THEN attempt[e] + 1 ELSE attempt[e]
  BY DEF DequeueCommit
<1>4. \A e \in Execs, n \in Deliveries :
        \/ claim'[e][n] = claim[e][n]
        \/ claim'[e][n] = "running" /\ e \in batch /\ n = attempt[e] + 1
  BY DEF DequeueCommit, IInv, TypeOK
<1>5. \A e \in Execs, n \in Deliveries : claim[e][n] # "none" => n <= attempt[e]
  BY DEF DeliveryInv, MadeInv
<1>6. \A e \in Execs : attempt[e] \in Nat
  BY DEF IInv, TypeOK
<1>7. \A e \in Execs, n \in Deliveries :
        claim[e][n] # "none" => claim'[e][n] = claim[e][n]
  BY <1>4, <1>5, <1>6, BoundsAssumption DEF Deliveries
<1>8. MadeInv'
  <2>1. ASSUME NEW e \in Execs, ~Fresh(e)' PROVE attempt'[e] >= 1
    BY <1>3, <1>6, <2>1 DEF DeliveryInv, MadeInv, Fresh, DequeueCommit
  <2>2. ASSUME NEW e \in Execs, NEW n \in Deliveries, claim'[e][n] # "none"
        PROVE  n <= attempt'[e]
    BY <1>3, <1>4, <1>5, <1>6, <2>2, BoundsAssumption DEF Deliveries
  <2>3. ASSUME NEW d \in Calls, call'[d].pc \in Reports
        PROVE  call'[d].n \in Deliveries /\ claim'[call'[d].e][call'[d].n] # "none"
    BY <1>2, <1>7, <2>3
  <2> QED BY <2>1, <2>2, <2>3 DEF MadeInv
<1>9. FirstInv'
  <2>1. ASSUME NEW e \in Execs, attempt'[e] <= 1
        PROVE  Agree(e)'
    <3>1. CASE e \in batch
      <4>1. attempt[e] = 0
        BY <1>3, <1>6, <2>1, <3>1
      <4>2. Fresh(e)
        BY <4>1 DEF DeliveryInv, MadeInv
      <4>3. \A d \in Calls : call'[d].e = e => call'[d].pc \notin Reports
        BY <1>2, <4>2 DEF IInv, SafeInv, FreshInv
      <4>4. status'[e] = "RUNNING"
        BY <3>1 DEF DequeueCommit
      <4> QED BY <4>3, <4>4 DEF Agree, Reports
    <3>2. CASE e \notin batch
      <4>1. Agree(e) /\ status'[e] = status[e] /\ claim'[e] = claim[e]
        BY <1>3, <2>1, <3>2 DEF DeliveryInv, FirstInv, DequeueCommit, IInv, TypeOK
      <4> QED BY <1>1, <4>1 DEF Agree, Reports
    <3> QED BY <3>1, <3>2
  <2> QED BY <2>1 DEF FirstInv
<1> QED BY <1>8, <1>9 DEF DeliveryInv

LEMMA JobEndsSettles ==
  ASSUME IInv, DeliveryInv, NEW e \in Execs, NEW n \in Deliveries, JobEnds(e, n)
  PROVE  DeliveryInv'
<1> USE DEF DeliveryInv, IInv, TypeOK, JobEnds, tables
<1>1. MadeInv' BY DEF MadeInv, Fresh
<1>2. FirstInv' BY DEF FirstInv, Agree
<1> QED BY <1>1, <1>2

LEMMA WorkerDiesSettles ==
  ASSUME IInv, DeliveryInv, NEW e \in Execs, NEW n \in Deliveries, WorkerDies(e, n)
  PROVE  DeliveryInv'
<1> USE DEF DeliveryInv, IInv, TypeOK, WorkerDies, tables
<1>1. MadeInv' BY DEF MadeInv, Fresh, Live
<1>2. FirstInv' BY DEF FirstInv, Agree
<1> QED BY <1>1, <1>2

LEMMA ReportStarts ==
  ASSUME IInv, DeliveryInv, NEW c \in Calls, NEW e \in Execs, NEW n \in Deliveries,
         Report(c, e, n)
  PROVE  DeliveryInv'
<1>1. /\ \A d \in Calls : d # c => call'[d] = call[d]
      /\ call'[c].e = e /\ call'[c].n = n
      /\ call'[c].pc = IF claim[e][n] = "ok" THEN "complete_delete" ELSE "fail_select"
  BY DEF Report, IInv, TypeOK, Idle
<1>2. claim[e][n] \in {"ok", "bad"} /\ claim' = claim
  BY DEF Report
<1>3. UNCHANGED tables
  BY DEF Report
<1>4. MadeInv'
  BY <1>1, <1>2, <1>3 DEF DeliveryInv, MadeInv, Fresh, tables
<1>5. FirstInv'
  <2>1. ASSUME NEW x \in Execs, attempt[x] <= 1
        PROVE  Agree(x)'
    <3>1. Agree(x)
      BY <2>1 DEF DeliveryInv, FirstInv
    <3>2. CASE x # e
      BY <1>1, <1>2, <1>3, <3>1, <3>2 DEF Agree, tables
    <3>3. CASE x = e
      <4>1. n = 1
        <5>1. n <= attempt[e] BY <1>2 DEF DeliveryInv, MadeInv
        <5>2. n \in Nat /\ n >= 1 BY BoundsAssumption DEF Deliveries
        <5>3. attempt[e] \in Nat BY DEF IInv, TypeOK
        <5> QED BY <2>1, <3>3, <5>1, <5>2, <5>3
      <4>2. CASE claim[e][1] = "ok"
        <5>1. call'[c].pc = "complete_delete" BY <1>1, <4>1, <4>2
        <5> QED BY <1>1, <1>2, <1>3, <3>1, <3>3, <4>1, <4>2, <5>1
                DEF Agree, tables, Succeeding, Failing
      <4>3. CASE claim[e][1] = "bad"
        <5>1. call'[c].pc = "fail_select" BY <1>1, <4>1, <4>3
        <5> QED BY <1>1, <1>2, <1>3, <3>1, <3>3, <4>1, <4>3, <5>1
                DEF Agree, tables, Succeeding, Failing
      <4> QED BY <1>2, <4>1, <4>2, <4>3
    <3> QED BY <3>2, <3>3
  <2> QED BY <1>3, <2>1 DEF FirstInv, tables
<1> QED BY <1>4, <1>5 DEF DeliveryInv

LEMMA CompleteUpdateSettles ==
  ASSUME IInv, DeliveryInv, NEW c \in Calls, CompleteUpdate(c)
  PROVE  DeliveryInv'
<1>1. /\ call[c].pc \in Reports /\ call[c].pc \in Succeeding
      /\ call[c].e \in Execs /\ ~Fresh(call[c].e)
  BY CallFacts
  DEF CompleteUpdate, At, CallsTyped, Reports, Succeeding, IInv, SafeInv, FreshInv
<1>2. Dropped(c)
  BY <1>1, ReportEnds DEF CompleteUpdate, DeliveryInv
<1>3. \A e \in Execs : status'[e] # status[e] =>
        e = call[c].e /\ status'[e] = "SUCCEEDED"
  BY DEF CompleteUpdate, IInv, TypeOK
<1>4. \A e \in Execs : Fresh(e) => Fresh(e)'
  BY <1>1, <1>3 DEF Fresh
<1>5. MadeInv'
  BY <1>1, <1>2, <1>4, DroppedMade DEF CompleteUpdate, DeliveryInv
<1>6. FirstInv'
  BY <1>1, <1>2, <1>3, DroppedFirst DEF CompleteUpdate, DeliveryInv
<1> QED BY <1>5, <1>6 DEF DeliveryInv

LEMMA FailUpdateSettles ==
  ASSUME IInv, DeliveryInv, NEW c \in Calls, FailUpdate(c)
  PROVE  DeliveryInv'
<1>1. /\ call[c].pc \in Reports /\ call[c].pc \in Failing
      /\ call[c].e \in Execs /\ ~Fresh(call[c].e)
  BY CallFacts
  DEF FailUpdate, At, CallsTyped, Reports, Failing, IInv, SafeInv, FreshInv
<1>2. Dropped(c)
  BY <1>1, ReportEnds DEF FailUpdate, DeliveryInv
<1>3. \A e \in Execs : status'[e] # status[e] =>
        e = call[c].e /\ status'[e] = "FAILED"
  BY DEF FailUpdate, IInv, TypeOK
<1>4. \A e \in Execs : Fresh(e) => Fresh(e)'
  BY <1>1, <1>3 DEF Fresh
<1>5. MadeInv'
  BY <1>1, <1>2, <1>4, DroppedMade DEF FailUpdate, DeliveryInv
<1>6. FirstInv'
  BY <1>1, <1>2, <1>3, DroppedFirst DEF FailUpdate, DeliveryInv
<1> QED BY <1>5, <1>6 DEF DeliveryInv

LEMMA FailBackoffSettles ==
  ASSUME IInv, DeliveryInv, NEW c \in Calls, FailBackoff(c)
  PROVE  DeliveryInv'
<1>1. call[c].pc \in Reports /\ call[c].e \in Execs
  BY CallFacts DEF FailBackoff, At, CallsTyped, Reports, Failing
<1>2. Dropped(c)
  BY <1>1, ReportEnds DEF FailBackoff, DeliveryInv
<1>3. MadeInv'
  BY <1>1, <1>2, DroppedMade DEF FailBackoff, DeliveryInv, Fresh
<1>4. FirstInv'
  BY <1>1, <1>2, DroppedFirst DEF FailBackoff, DeliveryInv
<1> QED BY <1>3, <1>4 DEF DeliveryInv

LEMMA FailInsertSettles ==
  ASSUME IInv, DeliveryInv, NEW c \in Calls, FailInsert(c)
  PROVE  DeliveryInv'
<1>1. call[c].pc \in Reports /\ call[c].e \in Execs
  BY CallFacts DEF FailInsert, At, CallsTyped, Reports, Failing
<1>2. UNCHANGED <<status, queue, attempt, cuts>>
  BY DEF FailInsert
<1>3. CASE Refuse(c)
  <2>1. Dropped(c)
    BY <1>1, <1>3, ReportEnds DEF DeliveryInv
  <2>2. MadeInv' BY <1>1, <1>2, <2>1, DroppedMade DEF DeliveryInv, Fresh
  <2>3. FirstInv' BY <1>1, <1>2, <2>1, DroppedFirst DEF DeliveryInv
  <2> QED BY <2>2, <2>3 DEF DeliveryInv
<1>4. CASE Goto(c, "fail_delete") /\ UNCHANGED <<claim, faults>>
  <2>1. Quiet
    BY <1>2, <1>4
    DEF FailInsert, Quiet, Goto, At, IInv, TypeOK, CallRecords, Reports, Succeeding,
        Failing
  <2> QED BY <2>1, QuietKeeps
<1> QED BY <1>3, <1>4 DEF FailInsert

-------------------------------------------------------------------------------
(* DeliveryInv holds at the start and is kept by every step.               *)

LEMMA InitDelivery == Init => DeliveryInv
  BY BoundsAssumption
  DEF Init, DeliveryInv, MadeInv, FirstInv, Agree, Fresh, Waiting, Live, Idle,
      Reports, Succeeding, Failing, Deliveries

LEMMA NextDelivery == IInv /\ IInv' /\ DeliveryInv /\ [Next]_vars => DeliveryInv'
<1> SUFFICES ASSUME IInv, IInv', DeliveryInv, [Next]_vars PROVE DeliveryInv'
  OBVIOUS
<1>1. CASE UNCHANGED vars
  BY <1>1
  DEF vars, tables, DeliveryInv, MadeInv, FirstInv, Agree, Fresh
<1>2. CASE Next
  BY <1>2, QuietSteps, QuietKeeps, DequeueCommitDelivers, JobEndsSettles,
     WorkerDiesSettles, ReportStarts, CompleteUpdateSettles, FailUpdateSettles,
     FailBackoffSettles, FailInsertSettles
  DEF Next, Serve, Complete, Fail
<1> QED BY <1>1, <1>2

THEOREM DeliveryInductive == Spec => [](IInv /\ DeliveryInv)
<1>1. Init => IInv /\ DeliveryInv
  BY InitInv, InitDelivery
<1>2. IInv /\ DeliveryInv /\ [Next]_vars => (IInv /\ DeliveryInv)'
  BY NextInv, NextDelivery
<1> QED BY <1>1, <1>2, PTL DEF Spec

-------------------------------------------------------------------------------
(* What failed is in the DLQ, or was retried from it; and a claim is the   *)
(* only one, unless a fault befell the execution.                          *)

Buried(e) == dlq[e] # 0 \/ Retried(e)

(* The reports of an execution that are being served.                      *)
Serving(e) == {c \in Calls : call[c].pc \in Reports /\ call[c].e = e}

(* Executions that RetryFromDLQ made exist.                                *)
OriginInv == \A e \in Execs : status[e] = "ABSENT" => origin[e] = NoExec

(* A worker holds only the last delivery, of a row that is not due.  When  *)
(* the row is gone its report has removed it: Complete, or Fail when the   *)
(* DLQ had its entry.                                                      *)
SoleClaim(e) ==
    \A n \in Deliveries : claim[e][n] \in Live =>
        /\ n = attempt[e]
        /\ queue[e] \in {"leased", "none"}
        /\ queue[e] = "none" => claim[e][n] = "ok" \/ Buried(e)

(* It is reported once at a time, and the report tells what the claim is.  *)
SoleReport(e) ==
    \A c \in Serving(e) :
        /\ claim[e][call[c].n] = IF call[c].pc \in Succeeding THEN "ok" ELSE "bad"
        /\ call[c].pc \in {"fail_delete", "fail_update"} => Buried(e)
        /\ \A d \in Serving(e) : c = d

Sound(e) == SoleClaim(e) /\ SoleReport(e) /\ (status[e] = "FAILED" => Buried(e))

(* Each fault befalls one execution.                                       *)
Unsound == {e \in Execs : ~Sound(e)}
FaultInv == OriginInv /\ IsFiniteSet(Unsound) /\ Cardinality(Unsound) <= faults

LEMMA NextOrigin == IInv /\ OriginInv /\ [Next]_vars => OriginInv'
<1> SUFFICES ASSUME IInv, OriginInv, [Next]_vars PROVE OriginInv'
  OBVIOUS
<1>1. ASSUME NEW c \in Calls, NEW new \in Execs, RetryCommit(c, new)
      PROVE  OriginInv'
  BY <1>1 DEF RetryCommit, OriginInv, IInv, TypeOK
<1>2. CASE /\ origin' = origin
           /\ \A e \in Execs : status'[e] = "ABSENT" => status[e] = "ABSENT"
  BY <1>2 DEF OriginInv
<1> QED
  BY <1>1, <1>2
  DEF Next, vars, tables, Serve, Complete, Fail, RunJob, BecomesDue, LeaseLapses,
      DequeueSelect, DequeueCommit, CompleteDelete, CompleteUpdate, FailSelect,
      FailBackoff, FailInsert, FailDelete, FailUpdate, SetVisibleAfter, RetryRead,
      RetryRollback, Cut, JobEnds, WorkerDies, Report, Heartbeat, IInv, TypeOK

(* What is in the DLQ stays there until a new execution replaces it.       *)
LEMMA BuriedForGood ==
  ASSUME IInv, OriginInv, Next, NEW e \in Execs, Buried(e)
  PROVE  Buried(e)'
<1>1. CASE UNCHANGED <<dlq, origin>>
  BY <1>1 DEF Buried, Retried
<1>2. ASSUME NEW c \in Calls, FailInsert(c) PROVE Buried(e)'
  <2>1. call[c].e \in Execs
    BY <1>2, CallFacts DEF FailInsert, At, CallsTyped
  <2>2. dlq[e] # 0 => dlq'[e] # 0
    BY <1>2, <2>1 DEF FailInsert, IInv, TypeOK
  <2> QED BY <1>2, <2>2 DEF FailInsert, Buried, Retried
<1>3. ASSUME NEW c \in Calls, NEW new \in Execs, RetryCommit(c, new)
      PROVE  Buried(e)'
  <2>1. /\ dlq' = [dlq EXCEPT ![call[c].e] = 0]
        /\ origin' = [origin EXCEPT ![new] = call[c].e]
        /\ origin[new] = NoExec
    BY <1>3 DEF RetryCommit, OriginInv
  <2>2. origin'[new] = call[c].e /\ \A x \in Execs : x # new => origin'[x] = origin[x]
    BY <2>1 DEF IInv, TypeOK
  <2>3. CASE e = call[c].e
    BY <2>2, <2>3 DEF Buried, Retried
  <2>4. CASE e # call[c].e /\ dlq[e] # 0
    BY <2>1, <2>4 DEF Buried, IInv, TypeOK
  <2>5. CASE Retried(e)
    BY <2>1, <2>2, <2>5, ExecsAssumption DEF Buried, Retried
  <2> QED BY <2>3, <2>4, <2>5 DEF Buried
<1> QED
  BY <1>1, <1>2, <1>3
  DEF Next, Serve, Complete, Fail, tables, RunJob, BecomesDue, LeaseLapses,
      DequeueSelect, DequeueCommit, CompleteDelete, CompleteUpdate, FailSelect,
      FailBackoff, FailDelete, FailUpdate, SetVisibleAfter, RetryRead,
      RetryRollback, Cut, JobEnds, WorkerDies, Report, Heartbeat

(* The statement of a report finds its claim.                              *)
LEMMA ReportFacts ==
  ASSUME IInv, MadeInv, NEW c \in Calls, call[c].pc \in Reports
  PROVE  /\ call[c].e \in Execs /\ call[c].n \in Deliveries
         /\ c \in Serving(call[c].e)
         /\ attempt[call[c].e] >= 1
         /\ Sound(call[c].e) =>
              /\ Serving(call[c].e) = {c}
              /\ claim[call[c].e][call[c].n] \in {"ok", "bad"}
              /\ call[c].n = attempt[call[c].e]
<1>1. /\ call[c].e \in Execs /\ call[c].n \in Deliveries /\ c \in Serving(call[c].e)
      /\ ~Fresh(call[c].e)
  BY CallFacts
  DEF CallsTyped, MadeInv, Reports, Succeeding, Failing, Serving, IInv, SafeInv, FreshInv
<1>2. Sound(call[c].e) => claim[call[c].e][call[c].n] \in {"ok", "bad"}
  BY <1>1 DEF Sound, SoleReport
<1>3. Sound(call[c].e) => Serving(call[c].e) = {c}
  BY <1>1 DEF Sound, SoleReport
<1>4. Sound(call[c].e) => call[c].n = attempt[call[c].e]
  BY <1>1, <1>2 DEF Sound, SoleClaim, Live
<1> QED BY <1>1, <1>2, <1>3, <1>4 DEF MadeInv

(* Executions that a step does not concern.                                *)
Untouched(e) ==
    /\ attempt'[e] = attempt[e] /\ claim'[e] = claim[e]
    /\ queue'[e] = queue[e] /\ status'[e] = status[e]
    /\ Buried(e) => Buried(e)'
    /\ \A c \in Calls : call'[c].pc \in Reports /\ call'[c].e = e => call'[c] = call[c]

LEMMA UntouchedSound ==
  ASSUME NEW e \in Execs, Untouched(e), Sound(e)
  PROVE  Sound(e)'
<1>1. \A c \in Serving(e)' : c \in Serving(e) /\ call'[c] = call[c]
  BY DEF Serving, Untouched
<1>2. SoleClaim(e)'
  BY DEF Sound, SoleClaim, Untouched
<1>3. SoleReport(e)'
  BY <1>1 DEF Sound, SoleReport, Untouched
<1> QED BY <1>2, <1>3 DEF Sound, Untouched

(* New executions: nobody holds them.                                      *)
LEMMA FreshSound ==
  ASSUME IInv', NEW e \in Execs, Fresh(e)'
  PROVE  Sound(e)'
<1>1. /\ \A c \in Calls : call'[c].e # e
      /\ \A n \in Deliveries : claim'[e][n] = "none"
      /\ status'[e] # "FAILED"
  BY DEF IInv, SafeInv, FreshInv, Fresh, Waiting
<1>2. SoleClaim(e)'
  BY <1>1 DEF SoleClaim, Live
<1>3. SoleReport(e)'
  BY <1>1 DEF SoleReport, Serving
<1> QED BY <1>1, <1>2, <1>3 DEF Sound

(* All executions a step leaves sound, but the one its fault befalls.      *)
Keeps == \A e \in Execs : Sound(e) => Sound(e)'
Befalls ==
    faults' = faults + 1 /\ \E x \in Execs : \A e \in Execs \ {x} : Sound(e) => Sound(e)'

(* A step of a call about one execution.                                   *)
LEMMA AboutOne ==
  ASSUME NEW c \in Calls, NEW x \in Execs,
         \A d \in Calls : d # c => call'[d] = call[d],
         call'[c].pc \in Reports => call'[c].e = x,
         \A e \in Execs : Buried(e) => Buried(e)',
         \A e \in Execs \ {x} :
           /\ attempt'[e] = attempt[e] /\ claim'[e] = claim[e]
           /\ queue'[e] = queue[e] /\ status'[e] = status[e]
  PROVE  /\ (Sound(x) => Sound(x)') => Keeps
         /\ faults' = faults + 1 => Befalls
<1>1. ASSUME NEW e \in Execs, e # x, Sound(e) PROVE Sound(e)'
  <2>1. Untouched(e)
    BY <1>1 DEF Untouched
  <2> QED BY <1>1, <2>1, UntouchedSound
<1> QED BY <1>1 DEF Keeps, Befalls

(* The report has ended and its claim with it.                             *)
LEMMA EndedSound ==
  ASSUME IInv, MadeInv, NEW c \in Calls, call[c].pc \in Reports,
         NEW e \in Execs, e = call[c].e, Sound(e),
         \A d \in Calls : d # c => call'[d] = call[d], call'[c] = Idle,
         claim'[e][call[c].n] = "left",
         \A n \in Deliveries : claim'[e][n] \in Live => claim'[e][n] = claim[e][n],
         status'[e] = "FAILED" => Buried(e)'
  PROVE  Sound(e)'
<1>1. Serving(e) = {c} /\ call[c].n = attempt[e]
  BY ReportFacts
<1>2. ASSUME NEW n \in Deliveries, claim'[e][n] \in Live PROVE FALSE
  <2>1. n # call[c].n
    BY <1>2 DEF Live
  <2>2. claim[e][n] \in Live
    BY <1>2
  <2>3. n = attempt[e]
    BY <1>1, <2>2 DEF Sound, SoleClaim
  <2> QED BY <1>1, <2>1, <2>3
<1>3. \A d \in Calls : ~(call'[d].pc \in Reports /\ call'[d].e = e)
  <2> SUFFICES ASSUME NEW d \in Calls, call'[d].pc \in Reports, call'[d].e = e
               PROVE  FALSE
    OBVIOUS
  <2>1. d # c
    BY DEF Idle, Reports, Succeeding, Failing
  <2>2. d \in Serving(e)
    BY <2>1 DEF Serving
  <2> QED BY <1>1, <2>1, <2>2
<1> QED BY <1>1, <1>2, <1>3 DEF Sound, SoleClaim, SoleReport, Serving

-------------------------------------------------------------------------------
(* What the steps of reports make of the execution they are about.         *)

(* Statements between the first and the last: the claim is as before.      *)
LEMMA StatementSound ==
  ASSUME IInv, MadeInv, NEW c \in Calls, call[c].pc \in Reports,
         NEW e \in Execs, e = call[c].e, Sound(e),
         \A d \in Calls : d # c => call'[d] = call[d],
         call'[c].e = e, call'[c].n = call[c].n,
         call[c].pc \in Succeeding <=> call'[c].pc \in Succeeding,
         UNCHANGED <<status, attempt, claim>>,
         queue'[e] \in {queue[e], "none"},
         Buried(e) => Buried(e)',
         \/ call[c].pc \in Succeeding
         \/ Buried(e)'
         \/ call'[c].pc \notin {"fail_delete", "fail_update"}
            /\ queue'[e] = queue[e]
  PROVE  Sound(e)'
<1> DEFINE n == call[c].n
<1>1. /\ n \in Deliveries /\ Serving(e) = {c} /\ n = attempt[e]
      /\ claim[e][n] = IF call[c].pc \in Succeeding THEN "ok" ELSE "bad"
  BY ReportFacts DEF Sound, SoleReport
<1>2. SoleClaim(e)'
  <2> SUFFICES ASSUME NEW m \in Deliveries, claim'[e][m] \in Live
               PROVE  /\ m = attempt'[e] /\ queue'[e] \in {"leased", "none"}
                      /\ queue'[e] = "none" => claim'[e][m] = "ok" \/ Buried(e)'
    BY DEF SoleClaim
  <2>1. /\ m = attempt[e] /\ queue[e] \in {"leased", "none"} /\ claim'[e][m] = claim[e][m]
        /\ queue[e] = "none" => claim[e][m] = "ok" \/ Buried(e)
    BY DEF Sound, SoleClaim
  <2>2. m = n
    BY <1>1, <2>1
  <2> QED BY <1>1, <2>1, <2>2
<1>3. \A d \in Serving(e)' : d = c
  BY <1>1 DEF Serving
<1>4. call'[c].pc \in {"fail_delete", "fail_update"} => Buried(e)'
  BY DEF Succeeding
<1>5. SoleReport(e)'
  BY <1>1, <1>3, <1>4 DEF SoleReport
<1> QED BY <1>2, <1>5 DEF Sound

(* The last statement of a report, unless its answer is lost.              *)
LEMMA AnswerSound ==
  ASSUME IInv, MadeInv, NEW c \in Calls, call[c].pc \in Reports, Answer(c),
         \A e \in Execs : Buried(e) => Buried(e)',
         \A e \in Execs \ {call[c].e} :
           attempt'[e] = attempt[e] /\ queue'[e] = queue[e] /\ status'[e] = status[e],
         Sound(call[c].e) /\ status'[call[c].e] = "FAILED" => Buried(call[c].e)
  PROVE  Keeps \/ Befalls
<1> PICK x \in Execs : x = call[c].e
  BY ReportFacts
<1>1. call[c].n \in Deliveries
  BY ReportFacts
<1>2. /\ call'[c] = Idle /\ \A d \in Calls : d # c => call'[d] = call[d]
      /\ \A e \in Execs \ {x} : claim'[e] = claim[e]
  BY <1>1 DEF Answer, IInv, TypeOK
<1>3. call'[c].pc \notin Reports
  BY <1>2 DEF Idle, Reports, Succeeding, Failing
<1>4. CASE faults' = faults + 1
  BY <1>1, <1>2, <1>3, <1>4, AboutOne
<1>5. CASE faults' # faults + 1
  <2>1. claim' = [claim EXCEPT ![x][call[c].n] = "left"]
    BY <1>5, ZenonT(30) DEF Answer, Fault
  <2>2. claim'[x][call[c].n] = "left"
    BY <1>1, <2>1 DEF IInv, TypeOK
  <2>3. \A n \in Deliveries : claim'[x][n] \in Live => claim'[x][n] = claim[x][n]
    BY <1>1, <2>1 DEF IInv, TypeOK, Live
  <2>4. Sound(x) => Sound(x)'
    BY <1>1, <1>2, <2>2, <2>3, EndedSound
  <2> QED BY <1>1, <1>2, <1>3, <2>4, AboutOne
<1> QED BY <1>4, <1>5

LEMMA StatementsKeep ==
  ASSUME IInv, MadeInv, NEW c \in Calls, \A e \in Execs : Buried(e) => Buried(e)',
         CompleteDelete(c) \/ FailSelect(c) \/ FailDelete(c)
  PROVE  Keeps
<1>0. call[c].pc \in Reports
  BY DEF CompleteDelete, FailSelect, FailDelete, At, Reports, Succeeding, Failing
<1> PICK x \in Execs : x = call[c].e
  BY <1>0, ReportFacts
<1>1. /\ call[c].pc \in Reports
      /\ \A d \in Calls : d # c => call'[d] = call[d]
      /\ call'[c].e = x /\ call'[c].n = call[c].n
      /\ call[c].pc \in Succeeding <=> call'[c].pc \in Succeeding
  BY DEF CompleteDelete, FailSelect, FailDelete, Goto, At, IInv, TypeOK, CallRecords,
         Reports, Succeeding, Failing
<1>2. UNCHANGED <<status, attempt, claim>>
  BY DEF CompleteDelete, FailSelect, FailDelete, tables
<1>4. /\ queue'[x] \in {queue[x], "none"}
      /\ \A e \in Execs \ {x} : queue'[e] = queue[e]
  BY DEF CompleteDelete, FailSelect, FailDelete, tables, IInv, TypeOK
<1>5. Sound(x) =>
        \/ call[c].pc \in Succeeding
        \/ Buried(x)
        \/ call'[c].pc \notin {"fail_delete", "fail_update"} /\ queue'[x] = queue[x]
  <2>1. CASE CompleteDelete(c)
    BY <2>1 DEF CompleteDelete, At, Succeeding
  <2>2. CASE FailSelect(c)
    BY <2>2 DEF FailSelect, Goto, tables, IInv, TypeOK, CallRecords
  <2>3. CASE FailDelete(c)
    <3>1. call[c].pc = "fail_delete" /\ c \in Serving(x)
      BY <1>1, <2>3, ReportFacts DEF FailDelete, At
    <3> QED BY <3>1 DEF Sound, SoleReport
  <2> QED BY <2>1, <2>2, <2>3
<1>6. Sound(x) => Sound(x)'
  BY <1>1, <1>2, <1>4, <1>5, StatementSound
<1> QED BY <1>1, <1>2, <1>4, <1>6, AboutOne

LEMMA LastStatementsKeep ==
  ASSUME IInv, MadeInv, NEW c \in Calls, \A e \in Execs : Buried(e) => Buried(e)',
         CompleteUpdate(c) \/ FailUpdate(c) \/ FailBackoff(c)
  PROVE  Keeps \/ Befalls
<1>1. call[c].pc \in Reports /\ Answer(c)
  BY DEF CompleteUpdate, FailUpdate, FailBackoff, At, Reports, Succeeding, Failing
<1> PICK x \in Execs : x = call[c].e
  BY <1>1, ReportFacts
<1>2. c \in Serving(x)
  BY <1>1, ReportFacts
<1>3. \A e \in Execs \ {x} :
        attempt'[e] = attempt[e] /\ queue'[e] = queue[e] /\ status'[e] = status[e]
  BY <1>2 DEF CompleteUpdate, FailUpdate, FailBackoff, IInv, TypeOK
<1>4. Sound(x) /\ status'[x] = "FAILED" => Buried(x)
  <2>1. CASE CompleteUpdate(c)
    BY <1>2, <2>1 DEF CompleteUpdate, IInv, TypeOK
  <2>2. CASE FailUpdate(c)
    BY <1>2, <2>2 DEF FailUpdate, At, Sound, SoleReport
  <2>3. CASE FailBackoff(c)
    BY <1>2, <2>3 DEF FailBackoff, Sound
  <2> QED BY <2>1, <2>2, <2>3
<1> QED BY <1>1, <1>3, <1>4, AnswerSound

(* Fail finds the row to copy, or the DLQ has it already.                  *)
LEMMA FailInsertKeeps ==
  ASSUME IInv, MadeInv, NEW c \in Calls, \A e \in Execs : Buried(e) => Buried(e)',
         FailInsert(c)
  PROVE  Keeps
<1>1. /\ call[c].pc = "fail_insert" /\ call[c].pc \in Reports
      /\ UNCHANGED <<status, queue, attempt, origin>>
  BY DEF FailInsert, At, Reports, Succeeding, Failing
<1> PICK x \in Execs : x = call[c].e
  BY <1>1, ReportFacts
<1>2. call[c].n \in Deliveries /\ c \in Serving(x) /\ attempt[x] >= 1
  BY <1>1, ReportFacts
<1>3. CASE Refuse(c)
  <2>1. /\ call'[c] = Idle /\ \A d \in Calls : d # c => call'[d] = call[d]
        /\ call'[c].pc \notin Reports
    BY <1>3 DEF Refuse, IInv, TypeOK, Idle, Reports, Succeeding, Failing
  <2>2. CASE claim' = claim
    <3>1. \A e \in Execs : Untouched(e)
      BY <1>1, <2>1, <2>2 DEF Untouched
    <3> QED BY <3>1, UntouchedSound DEF Keeps
  <2>3. CASE claim' = [claim EXCEPT ![x][call[c].n] = "left"]
    <3>1. /\ claim'[x][call[c].n] = "left"
          /\ \A n \in Deliveries : claim'[x][n] \in Live => claim'[x][n] = claim[x][n]
          /\ \A e \in Execs \ {x} : claim'[e] = claim[e]
      BY <1>2, <2>3 DEF IInv, TypeOK, Live
    <3>2. Sound(x) /\ status'[x] = "FAILED" => Buried(x)
      BY <1>1 DEF Sound
    <3>3. Sound(x) => Sound(x)'
      BY <1>1, <1>2, <2>1, <3>1, <3>2, EndedSound
    <3> QED BY <1>1, <1>2, <2>1, <3>1, <3>3, AboutOne
  <2> QED BY <1>3, <2>2, <2>3 DEF Refuse
<1>4. CASE /\ dlq' = [dlq EXCEPT ![x] = IF queue[x] = "none" THEN @ ELSE attempt[x]]
           /\ Goto(c, "fail_delete") /\ UNCHANGED claim
  <2>1. /\ \A d \in Calls : d # c => call'[d] = call[d]
        /\ call'[c].pc = "fail_delete" /\ call'[c].e = x /\ call'[c].n = call[c].n
    BY <1>4 DEF Goto, IInv, TypeOK, CallRecords
  <2>2. ASSUME Sound(x) PROVE Buried(x)'
    <3>1. CASE queue[x] # "none"
      <4>1. dlq'[x] # 0
        BY <1>2, <1>4, <3>1 DEF IInv, TypeOK
      <4> QED BY <4>1 DEF Buried
    <3>2. CASE queue[x] = "none"
      <4>1. claim[x][call[c].n] = "bad"
        BY <1>1, <1>2, <2>2 DEF Sound, SoleReport, Succeeding
      <4>2. Buried(x)
        BY <1>2, <2>2, <3>2, <4>1 DEF Sound, SoleClaim, Live
      <4> QED BY <1>2, <4>2
    <3> QED BY <3>1, <3>2
  <2>3. call[c].pc \in Succeeding <=> call'[c].pc \in Succeeding
    BY <1>1, <2>1 DEF Succeeding
  <2>4. Sound(x) => Sound(x)'
    BY <1>1, <1>2, <1>4, <2>1, <2>2, <2>3, StatementSound
  <2> QED BY <1>1, <1>2, <1>4, <2>1, <2>4, AboutOne
<1> QED BY <1>3, <1>4 DEF FailInsert

-------------------------------------------------------------------------------
(* The other steps.                                                        *)

LEMMA ReportKeeps ==
  ASSUME IInv, MadeInv, NEW c \in Calls, NEW x \in Execs, NEW n \in Deliveries,
         \A e \in Execs : Buried(e) => Buried(e)', Report(c, x, n)
  PROVE  Keeps \/ Befalls
<1>1. /\ \A d \in Calls : d # c => call'[d] = call[d]
      /\ call'[c].e = x /\ call'[c].n = n /\ call[c].pc = "idle"
      /\ call'[c].pc = IF claim[x][n] = "ok" THEN "complete_delete" ELSE "fail_select"
      /\ claim[x][n] \in {"ok", "bad"} /\ claim' = claim
      /\ UNCHANGED <<status, queue, attempt>>
  BY DEF Report, At, IInv, TypeOK, Idle, tables
<1>2. CASE Reporting(x, n)
  <2>1. faults' = faults + 1
    BY <1>2 DEF Report, Fault
  <2> QED BY <1>1, <2>1, AboutOne
<1>3. ASSUME ~Reporting(x, n), Sound(x) PROVE Sound(x)'
  <2>1. n = attempt[x]
    BY <1>1, <1>3 DEF Sound, SoleClaim, Live
  <2>2. ASSUME NEW d \in Serving(x) PROVE FALSE
    <3>1. d \in Calls /\ call[d].pc \in Reports /\ call[d].e = x
      BY DEF Serving
    <3>2. call[d].n = attempt[x]
      BY <1>3, <3>1, ReportFacts
    <3> QED BY <1>3, <2>1, <3>1, <3>2 DEF Reporting
  <2>3. \A d \in Serving(x)' : d = c
    BY <1>1, <2>2 DEF Serving
  <2>4. SoleReport(x)'
    BY <1>1, <2>3 DEF SoleReport, Succeeding
  <2>5. SoleClaim(x)'
    BY <1>1, <1>3 DEF Sound, SoleClaim
  <2> QED BY <1>1, <1>3, <2>4, <2>5 DEF Sound
<1> QED BY <1>1, <1>2, <1>3, AboutOne

LEMMA WorkersKeep ==
  ASSUME IInv, MadeInv, NEW x \in Execs, NEW n \in Deliveries,
         \A e \in Execs : Buried(e) => Buried(e)', JobEnds(x, n) \/ WorkerDies(x, n)
  PROVE  Keeps \/ Befalls
<1>1. /\ UNCHANGED <<status, queue, attempt, call>>
      /\ \A e \in Execs \ {x} : claim'[e] = claim[e]
  BY DEF JobEnds, WorkerDies, tables, IInv, TypeOK
<1>2. \A e \in Execs \ {x} : Sound(e) => Sound(e)'
  BY <1>1, UntouchedSound DEF Untouched
<1>3. CASE WorkerDies(x, n)
  BY <1>2, <1>3 DEF WorkerDies, Fault, Befalls
<1>4. ASSUME JobEnds(x, n), Sound(x) PROVE Sound(x)'
  <2>1. /\ claim[x][n] = "running" /\ claim'[x][n] \in {"ok", "bad"}
        /\ \A m \in Deliveries : m # n => claim'[x][m] = claim[x][m]
    BY <1>4 DEF JobEnds, IInv, TypeOK
  <2>2. /\ n = attempt[x] /\ queue[x] \in {"leased", "none"}
        /\ queue[x] = "none" => Buried(x)
    BY <1>4, <2>1 DEF Sound, SoleClaim, Live
  <2>3. \A d \in Serving(x) : FALSE
    <3> SUFFICES ASSUME NEW d \in Serving(x) PROVE FALSE
      OBVIOUS
    <3>1. d \in Calls /\ call[d].pc \in Reports /\ call[d].e = x
      BY DEF Serving
    <3>2. call[d].n = attempt[x] /\ claim[x][call[d].n] \in {"ok", "bad"}
      BY <1>4, <3>1, ReportFacts
    <3> QED BY <2>1, <2>2, <3>2
  <2>4. SoleReport(x)'
    BY <1>1, <2>3 DEF SoleReport, Serving
  <2>5. SoleClaim(x)'
    BY <1>1, <1>4, <2>1, <2>2 DEF Sound, SoleClaim, Live
  <2> QED BY <1>1, <1>4, <2>4, <2>5 DEF Sound
<1> QED BY <1>2, <1>3, <1>4 DEF Keeps

LEMMA RowsKeep ==
  ASSUME IInv, MadeInv, NEW x \in Execs, \A e \in Execs : Buried(e) => Buried(e)',
         \/ BecomesDue(x) \/ LeaseLapses(x)
         \/ \E c \in Calls : SetVisibleAfter(c) /\ x = call[c].e
  PROVE  Keeps \/ Befalls
<1>1. /\ UNCHANGED <<status, attempt, claim>>
      /\ \A e \in Execs \ {x} : queue'[e] = queue[e]
      /\ \A d \in Calls : call'[d].pc \in Reports => call'[d] = call[d]
  BY DEF BecomesDue, LeaseLapses, SetVisibleAfter, IInv, TypeOK, Idle, Reports,
         Succeeding, Failing
<1>2. \A e \in Execs \ {x} : Sound(e) => Sound(e)'
  BY <1>1, UntouchedSound DEF Untouched
<1>3. CASE LeaseLapses(x)
  BY <1>2, <1>3 DEF LeaseLapses, Fault, Befalls
<1>4. ASSUME Sound(x), ~LeaseLapses(x) PROVE Sound(x)'
  <2>1. \A n \in Deliveries : claim[x][n] \in Live =>
          /\ queue'[x] \in {"leased", "none"}
          /\ queue'[x] = "none" => queue[x] = "none"
    <3>1. CASE BecomesDue(x)
      <4> SUFFICES ASSUME NEW n \in Deliveries, claim[x][n] \in Live PROVE FALSE
        OBVIOUS
      <4>1. n = attempt[x] /\ queue[x] \in {"leased", "none"} /\ n # 0
        BY <1>4, BoundsAssumption DEF Sound, SoleClaim, Deliveries
      <4>2. Held(x)
        BY <4>1 DEF Held
      <4> QED BY <3>1, <4>1, <4>2 DEF BecomesDue
    <3>2. CASE \E c \in Calls : SetVisibleAfter(c) /\ x = call[c].e
      BY <3>2 DEF SetVisibleAfter, IInv, TypeOK
    <3> QED BY <1>4, <3>1, <3>2
  <2>2. SoleClaim(x)'
    BY <1>1, <1>4, <2>1 DEF Sound, SoleClaim
  <2>3. \A d \in Serving(x)' : d \in Serving(x) /\ call'[d] = call[d]
    BY <1>1 DEF Serving
  <2>4. SoleReport(x)'
    BY <1>1, <1>4, <2>3 DEF Sound, SoleReport
  <2> QED BY <1>1, <1>4, <2>2, <2>4 DEF Sound
<1> QED BY <1>2, <1>3, <1>4 DEF Keeps

LEMMA DequeueKeeps ==
  ASSUME IInv, MadeInv, NEW c \in Calls, \A e \in Execs : Buried(e) => Buried(e)',
         DequeueCommit(c)
  PROVE  Keeps
<1>1. \A d \in Calls : call'[d].pc \in Reports => call'[d] = call[d]
  BY DEF DequeueCommit, IInv, TypeOK, Idle, Reports, Succeeding, Failing
<1>2. ASSUME NEW e \in Execs, e \notin call[c].batch PROVE Untouched(e)
  BY <1>1, <1>2 DEF DequeueCommit, Untouched
<1>3. ASSUME NEW e \in Execs, e \in call[c].batch, Sound(e) PROVE Sound(e)'
  <2>1. /\ queue[e] = "due" /\ queue'[e] = "leased" /\ status'[e] = "RUNNING"
        /\ attempt'[e] = attempt[e] + 1
    BY <1>3 DEF DequeueCommit, IInv, SafeInv, LockInv
  <2>2. \A n \in Deliveries : claim[e][n] \notin Live
    BY <1>3, <2>1 DEF Sound, SoleClaim
  <2>3. \A n \in Deliveries :
          claim'[e][n] = claim[e][n] \/ n = attempt[e] + 1
    BY DEF DequeueCommit, IInv, TypeOK
  <2>4. SoleClaim(e)'
    BY <2>1, <2>2, <2>3 DEF SoleClaim
  <2>5. \A d \in Serving(e)' : FALSE
    <3> SUFFICES ASSUME NEW d \in Serving(e)' PROVE FALSE
      OBVIOUS
    <3>1. d \in Calls /\ call[d].pc \in Reports /\ call[d].e = e
      BY <1>1 DEF Serving
    <3>2. claim[e][call[d].n] \in {"ok", "bad"} /\ call[d].n \in Deliveries
      BY <1>3, <3>1, ReportFacts
    <3> QED BY <2>2, <3>2 DEF Live
  <2> QED BY <2>1, <2>4, <2>5 DEF Sound, SoleReport
<1> QED BY <1>2, <1>3, UntouchedSound DEF Keeps

(* Submissions, retries from the DLQ, heartbeats, cuts.                    *)
LEMMA RestKeeps ==
  ASSUME IInv, IInv', \A e \in Execs : Buried(e) => Buried(e)',
         \/ \E e \in Execs : RunJob(e)
         \/ \E c \in Calls : DequeueSelect(c) \/ RetryRollback(c) \/ Cut(c)
         \/ \E c \in Calls, e \in Execs : RetryRead(c, e) \/ RetryCommit(c, e)
         \/ \E c \in Calls, e \in Execs, n \in Deliveries : Heartbeat(c, e, n)
         \/ UNCHANGED vars
  PROVE  Keeps
<1> DEFINE same == \A d \in Calls : call'[d].pc \in Reports => call'[d] = call[d]
<1>1. same
  <2> USE DEF IInv, TypeOK, Idle, Reports, Succeeding, Failing
  <2>1. ASSUME NEW c \in Calls, DequeueSelect(c) PROVE same
    BY <2>1 DEF DequeueSelect
  <2>2. ASSUME NEW c \in Calls, NEW e \in Execs, RetryRead(c, e) PROVE same
    BY <2>2 DEF RetryRead
  <2>3. ASSUME NEW c \in Calls, NEW e \in Execs, NEW n \in Deliveries, Heartbeat(c, e, n)
        PROVE  same
    BY <2>3 DEF Heartbeat
  <2>4. ASSUME NEW c \in Calls, call' = [call EXCEPT ![c] = Idle] PROVE same
    BY <2>4
  <2>5. CASE call' = call
    BY <2>5
  <2> HIDE DEF same, IInv, TypeOK, Idle, Reports, Succeeding, Failing
  <2> QED BY <2>1, <2>2, <2>3, <2>4, <2>5
          DEF RunJob, RetryRollback, Cut, RetryCommit, vars
<1>2. UNCHANGED <<attempt, claim>>
  BY DEF RunJob, DequeueSelect, RetryRollback, Cut, RetryRead, RetryCommit, Heartbeat,
         vars, tables
<1>3. \A e \in Execs : Fresh(e)' \/ (queue'[e] = queue[e] /\ status'[e] = status[e])
  BY DEF RunJob, DequeueSelect, RetryRollback, Cut, RetryRead, RetryCommit, Heartbeat,
         vars, tables, IInv, TypeOK, Fresh, Waiting
<1>4. \A e \in Execs : Fresh(e)' \/ Untouched(e)
  BY <1>1, <1>2, <1>3 DEF Untouched
<1> QED BY <1>4, FreshSound, UntouchedSound DEF Keeps

-------------------------------------------------------------------------------
LEMMA NextKeeps ==
  ASSUME IInv, IInv', MadeInv, OriginInv, [Next]_vars
  PROVE  Keeps \/ Befalls
<1>1. \A e \in Execs : Buried(e) => Buried(e)'
  <2>1. CASE UNCHANGED vars
    BY <2>1 DEF vars, tables, Buried, Retried
  <2> QED BY <2>1, BuriedForGood
<1>2. ASSUME NEW c \in Calls, SetVisibleAfter(c) PROVE Keeps \/ Befalls
  <2>1. call[c].e \in Execs
    BY <1>2, CallFacts DEF SetVisibleAfter, At, CallsTyped
  <2> QED BY <1>1, <1>2, <2>1, RowsKeep
<1>3. CASE UNCHANGED vars
  BY <1>1, <1>3, RestKeeps
<1>4. CASE Next
  <2>1. CASE \E e \in Execs : RunJob(e) \/ BecomesDue(e) \/ LeaseLapses(e)
    BY <1>1, <2>1, RowsKeep, RestKeeps
  <2>2. CASE \E c \in Calls : DequeueSelect(c) \/ Serve(c) \/ Cut(c)
    BY <1>1, <1>2, <2>2, DequeueKeeps, StatementsKeep, LastStatementsKeep,
       FailInsertKeeps, RestKeeps
    DEF Serve, Complete, Fail
  <2>3. CASE \E c \in Calls, e \in Execs : RetryRead(c, e)
    BY <1>1, <2>3, RestKeeps
  <2>4. CASE \E e \in Execs, n \in Deliveries : JobEnds(e, n) \/ WorkerDies(e, n)
    BY <1>1, <2>4, WorkersKeep
  <2>5. CASE \E c \in Calls, e \in Execs, n \in Deliveries :
               Report(c, e, n) \/ Heartbeat(c, e, n)
    BY <1>1, <2>5, ReportKeeps, RestKeeps
  <2> QED BY <1>4, <2>1, <2>2, <2>3, <2>4, <2>5 DEF Next
<1> QED BY <1>3, <1>4

LEMMA FaultsGrow == IInv /\ Next => faults' \in {faults, faults + 1}
  BY DEF Next, Serve, Complete, Fail, RunJob, BecomesDue, LeaseLapses, DequeueSelect,
         DequeueCommit, CompleteDelete, CompleteUpdate, FailSelect, FailBackoff,
         FailInsert, FailDelete, FailUpdate, SetVisibleAfter, RetryRead, RetryCommit,
         RetryRollback, Cut, JobEnds, WorkerDies, Report, Heartbeat, Answer, Refuse,
         Fault

LEMMA NextFault == IInv /\ IInv' /\ MadeInv /\ FaultInv /\ [Next]_vars => FaultInv'
<1> SUFFICES ASSUME IInv, IInv', MadeInv, FaultInv, [Next]_vars PROVE FaultInv'
  OBVIOUS
<1>1. OriginInv'
  BY NextOrigin DEF FaultInv
<1>2. faults \in Nat /\ faults' \in {faults, faults + 1}
  BY FaultsGrow, BoundsAssumption DEF IInv, TypeOK, vars
<1>3. CASE Keeps
  <2>1. Unsound' \subseteq Unsound
    BY <1>3 DEF Keeps, Unsound
  <2>2. /\ IsFiniteSet(Unsound') /\ Cardinality(Unsound') \in Nat
        /\ Cardinality(Unsound) \in Nat
        /\ Cardinality(Unsound') <= Cardinality(Unsound)
    BY <2>1, Sizes DEF FaultInv
  <2> QED BY <1>1, <1>2, <2>2 DEF FaultInv
<1>4. CASE Befalls
  <2>1. PICK x \in Execs : \A e \in Execs \ {x} : Sound(e) => Sound(e)'
    BY <1>4 DEF Befalls
  <2>2. Unsound' \subseteq Unsound \cup {x}
    BY <2>1 DEF Unsound
  <2>3. /\ IsFiniteSet(Unsound') /\ Cardinality(Unsound') \in Nat
        /\ Cardinality(Unsound) \in Nat
        /\ Cardinality(Unsound') <= Cardinality(Unsound) + 1
    BY <2>2, OneMore DEF FaultInv
  <2>4. faults' = faults + 1
    BY <1>4 DEF Befalls
  <2> QED BY <1>1, <1>2, <2>3, <2>4 DEF FaultInv
<1> QED BY <1>3, <1>4, NextKeeps DEF FaultInv

LEMMA InitOrigin == Init => OriginInv
  BY DEF Init, OriginInv

LEMMA InitFault == Init => FaultInv
<1> SUFFICES ASSUME Init PROVE FaultInv
  OBVIOUS
<1>1. OriginInv /\ faults = 0
  BY InitOrigin DEF Init
<1>2. \A e \in Execs : Sound(e)
  BY DEF Init, Idle, Sound, SoleClaim, SoleReport, Serving, Live, Reports, Succeeding,
         Failing
<1>3. Unsound = {}
  BY <1>2 DEF Unsound
<1>4. IsFiniteSet(Unsound) /\ Cardinality(Unsound) = 0
  BY <1>3, FS_EmptySet
<1> QED BY <1>1, <1>4 DEF FaultInv

(* All but one execution per fault are held by one worker at most, are     *)
(* reported once at a time, and are in the DLQ when FAILED.                *)
LEMMA FaultInductive == Spec => [](IInv /\ DeliveryInv /\ FaultInv)
<1>1. Init => IInv /\ DeliveryInv /\ FaultInv
  BY InitInv, InitDelivery, InitFault
<1>2. IInv /\ DeliveryInv /\ FaultInv /\ [Next]_vars
        => (IInv /\ DeliveryInv /\ FaultInv)'
  BY NextInv, NextDelivery, NextFault DEF DeliveryInv
<1> QED BY <1>1, <1>2, PTL DEF Spec

(* While no fault occurred, two workers never hold one execution: neither  *)
(* concurrent DequeueBatch calls nor Fail and heartbeats give it away.     *)
THEOREM OneHolder == Spec => []ExclusiveClaim
<1>1. FaultInv => ExclusiveClaim
  <2> SUFFICES ASSUME FaultInv, faults = 0 PROVE \A e \in Execs : Sound(e)
    BY DEF Sound, SoleClaim, ExclusiveClaim
  <2>1. Cardinality(Unsound) = 0
    BY FS_CardinalityType DEF FaultInv
  <2>2. Unsound = {}
    BY <2>1, FS_EmptySet DEF FaultInv
  <2> QED BY <2>2 DEF Unsound
<1> QED BY <1>1, FaultInductive, PTL

(* Fail leaves at most one FAILED execution per fault outside the DLQ, but *)
(* for those RetryFromDLQ took out of it, wherever it is cut.              *)
THEOREM FailuresBuried == Spec => []FailedIsInDLQ
<1>1. IInv /\ FaultInv => FailedIsInDLQ
  <2> SUFFICES ASSUME IInv, FaultInv PROVE FailedIsInDLQ
    OBVIOUS
  <2> DEFINE missing ==
        {e \in Execs : status[e] = "FAILED" /\ dlq[e] = 0 /\ ~Retried(e)}
  <2>1. missing \subseteq Unsound
    BY DEF Unsound, Sound, Buried
  <2>2. /\ Cardinality(Unsound) \in Nat /\ Cardinality(missing) \in Nat
        /\ Cardinality(missing) <= Cardinality(Unsound)
    BY <2>1, Sizes DEF FaultInv
  <2>3. faults \in Nat
    BY BoundsAssumption DEF IInv, TypeOK
  <2> QED BY <2>2, <2>3 DEF FaultInv, FailedIsInDLQ
<1> QED BY <1>1, FaultInductive, PTL

-------------------------------------------------------------------------------
(* What deliveries and faults pay for.                                     *)

(* What is out and about of an execution: the reports being served, those  *)
(* of them that will make the row deliverable again, the claims that are   *)
(* not being reported, and the row if no fault is needed to deliver it.    *)
BackingOff(e) == {c \in Serving(e) : At(c, "fail_backoff")}
Unreported(e) ==
    {n \in Deliveries : claim[e][n] \in Live /\ \A c \in Serving(e) : call[c].n # n}
Deliverable(e) ==
    \/ queue[e] \in {"due", "delayed"}
    \/ queue[e] = "leased" /\ ~Held(e)
Row(e) == IF Deliverable(e) THEN 1 ELSE 0

(* There is one of all these, and one more for each fault.                 *)
Paid(e) ==
    /\ IsFiniteSet(Serving(e))
    /\ Cardinality(Serving(e)) + Cardinality(Unreported(e)) + Row(e) <= 1 + faults

(* Past the last retry, what may still deliver the execution counts as a   *)
(* delivery, and each is paid for by a fault.                              *)
Spent(e) ==
    attempt[e] > MaxRetries =>
        \/ Buried(e)
        \/ attempt[e] + Cardinality(BackingOff(e)) + Row(e) <= MaxRetries + 1 + faults

BudgetInv ==
    /\ \A e \in Execs : Paid(e) /\ Spent(e)
    /\ \A c \in Calls : \A e \in call[c].batch : attempt[e] < AttemptCap

LEMMA OneLess ==
  ASSUME NEW S, NEW x \in S, NEW T, IsFiniteSet(S), T \subseteq S \ {x}
  PROVE  /\ IsFiniteSet(T)
         /\ Cardinality(S) \in Nat /\ Cardinality(T) \in Nat
         /\ Cardinality(T) <= Cardinality(S) - 1
<1>1. IsFiniteSet(S \ {x}) /\ Cardinality(S \ {x}) = Cardinality(S) - 1
  BY FS_RemoveElement
<1> QED BY <1>1, Sizes, FS_CardinalityType

LEMMA DeliveriesFinite == IsFiniteSet(Deliveries)
  BY FS_Interval, BoundsAssumption DEF Deliveries

(* All these counts are numbers.                                           *)
LEMMA Counts ==
  ASSUME NEW e, IsFiniteSet(Serving(e))
  PROVE  /\ IsFiniteSet(BackingOff(e)) /\ IsFiniteSet(Unreported(e))
         /\ Cardinality(Serving(e)) \in Nat /\ Cardinality(Unreported(e)) \in Nat
         /\ Cardinality(BackingOff(e)) \in Nat
         /\ Cardinality(BackingOff(e)) <= Cardinality(Serving(e))
         /\ Row(e) \in {0, 1}
<1>1. BackingOff(e) \subseteq Serving(e) /\ Unreported(e) \subseteq Deliveries
  BY DEF BackingOff, Unreported
<1> QED BY <1>1, Sizes, DeliveriesFinite DEF Row

-------------------------------------------------------------------------------
(* Steps that give an execution no report, claim or delivery it had not,   *)
(* and make its row deliverable only at the price of a fault.              *)
Cheap(e) ==
    /\ attempt'[e] = attempt[e] /\ (Buried(e) => Buried(e)')
    /\ faults' \in {faults, faults + 1}
    /\ Serving(e)' \subseteq Serving(e)
    /\ Unreported(e)' \subseteq Unreported(e)
    /\ attempt[e] > MaxRetries => BackingOff(e)' \subseteq BackingOff(e)
    /\ Deliverable(e)' => Deliverable(e) \/ faults' = faults + 1

LEMMA CheapKeeps ==
  ASSUME IInv, NEW e \in Execs, Paid(e), Spent(e), Cheap(e)
  PROVE  Paid(e)' /\ Spent(e)'
<1>1. /\ IsFiniteSet(Serving(e)) /\ IsFiniteSet(Unreported(e))
      /\ IsFiniteSet(BackingOff(e))
      /\ Cardinality(Serving(e)) \in Nat /\ Cardinality(Unreported(e)) \in Nat
      /\ Cardinality(BackingOff(e)) \in Nat
  BY Counts DEF Paid
<1>2. /\ IsFiniteSet(Serving(e)')
      /\ Cardinality(Serving(e)') \in Nat
      /\ Cardinality(Serving(e)') <= Cardinality(Serving(e))
  BY <1>1, Sizes DEF Cheap
<1>3. /\ Cardinality(Unreported(e)') \in Nat
      /\ Cardinality(Unreported(e)') <= Cardinality(Unreported(e))
  BY <1>1, Sizes DEF Cheap
<1>4. Row(e)' <= Row(e) + (faults' - faults) /\ Row(e)' \in {0, 1} /\ Row(e) \in {0, 1}
  <2>1. Row(e)' = 0 \/ Row(e) = 1 \/ faults' = faults + 1
    BY ZenonT(30) DEF Cheap, Row
  <2>2. Row(e)' \in {0, 1} /\ Row(e) \in {0, 1}
    BY DEF Row
  <2>3. faults \in Nat /\ faults' \in {faults, faults + 1}
    BY BoundsAssumption DEF IInv, TypeOK, Cheap
  <2> QED BY <2>1, <2>2, <2>3
<1>5. faults \in Nat /\ faults' \in Nat /\ attempt[e] \in Nat /\ MaxRetries \in Nat
  BY BoundsAssumption DEF IInv, TypeOK, Cheap
<1>6. Paid(e)'
  BY <1>1, <1>2, <1>3, <1>4, <1>5 DEF Paid
<1>7. ASSUME attempt'[e] > MaxRetries, ~Buried(e)'
      PROVE  attempt'[e] + Cardinality(BackingOff(e)') + Row(e)'
               <= MaxRetries + 1 + faults'
  <2>1. /\ Cardinality(BackingOff(e)') \in Nat
        /\ Cardinality(BackingOff(e)') <= Cardinality(BackingOff(e))
    BY <1>1, <1>7, Sizes DEF Cheap
  <2>2. /\ attempt[e] + Cardinality(BackingOff(e)) + Row(e) <= MaxRetries + 1 + faults
        /\ attempt'[e] = attempt[e]
    BY <1>7 DEF Cheap, Spent
  <2> QED BY <1>1, <1>4, <1>5, <2>1, <2>2
<1> QED BY <1>6, <1>7 DEF Spent
(* An execution that no worker was given has nothing to pay for but its row. *)
LEMMA FreshCounts ==
  ASSUME IInv', faults' \in Nat, NEW e \in Execs, Fresh(e)'
  PROVE  Paid(e)' /\ Spent(e)'
<1>1. /\ attempt'[e] = 0
      /\ \A c \in Calls : call'[c].e # e
      /\ \A n \in Deliveries : claim'[e][n] = "none"
  BY DEF IInv, SafeInv, FreshInv
<1>2. Serving(e)' = {} /\ Unreported(e)' = {}
  BY <1>1 DEF Serving, Unreported, Live, Deliveries
<1>3. /\ IsFiniteSet(Serving(e)')
      /\ Cardinality(Serving(e)') = 0 /\ Cardinality(Unreported(e)') = 0
  BY <1>2, FS_EmptySet
<1>4. Row(e)' \in {0, 1}
  BY DEF Row
<1>5. Paid(e)'
  BY <1>3, <1>4 DEF Paid
<1>6. Spent(e)'
  BY <1>1, BoundsAssumption DEF Spent
<1> QED BY <1>5, <1>6

(* The executions that a step of call c is not about.                      *)
LEMMA OthersCheap ==
  ASSUME NEW c \in Calls, NEW e \in Execs,
         \A d \in Calls : d # c => call'[d] = call[d],
         call'[c].pc \in Reports => call'[c].e # e,
         attempt'[e] = attempt[e], claim'[e] = claim[e], queue'[e] = queue[e],
         faults' \in {faults, faults + 1}, Buried(e) => Buried(e)',
         call[c].pc \in Reports => call[c].e # e
  PROVE  Cheap(e)
<1>1. Serving(e)' = Serving(e)
  BY DEF Serving
<1>2. Unreported(e)' = Unreported(e)
  BY <1>1 DEF Unreported, Deliveries, Serving
<1>3. BackingOff(e)' = BackingOff(e)
  BY <1>1 DEF BackingOff, At, Serving
<1>4. Deliverable(e)' <=> Deliverable(e)
  BY DEF Deliverable, Held
<1> QED BY <1>1, <1>2, <1>3, <1>4 DEF Cheap

-------------------------------------------------------------------------------
(* The report of c ends: with its claim, or at the price of a fault if it  *)
(* makes the row deliverable.                                              *)
LEMMA DroppedKeeps ==
  ASSUME IInv, NEW c \in Calls, NEW e \in Execs,
         call[c].pc \in Reports, call[c].e = e, Paid(e), Spent(e),
         Dropped(c), attempt' = attempt, faults' \in {faults, faults + 1},
         Buried(e) => Buried(e)',
         \/ claim'[e][call[c].n] = "left"
         \/ Deliverable(e)' => Deliverable(e) \/ faults' = faults + 1,
         \/ At(c, "fail_backoff")
         \/ Deliverable(e)' => Deliverable(e) \/ faults' = faults + 1
         \/ Buried(e)'
  PROVE  Paid(e)' /\ Spent(e)'
<1> DEFINE n == call[c].n
<1>1. /\ \A d \in Calls : d # c => call'[d] = call[d]
      /\ call'[c].pc \notin Reports /\ call'[c].pc # "fail_backoff"
  BY DEF Dropped, IInv, TypeOK, Idle, Reports, Succeeding, Failing
<1>2. c \in Serving(e) /\ Serving(e)' \subseteq Serving(e) \ {c}
  BY <1>1 DEF Serving
<1>3. Unreported(e)' \subseteq Unreported(e) \cup {n}
  BY <1>1 DEF Unreported, Serving, Dropped, Live, Deliveries
<1>4. claim'[e][n] = "left" => Unreported(e)' \subseteq Unreported(e)
  BY <1>1 DEF Unreported, Serving, Dropped, Live, Deliveries
<1>5. /\ BackingOff(e)' \subseteq BackingOff(e)
      /\ At(c, "fail_backoff") =>
           c \in BackingOff(e) /\ BackingOff(e)' \subseteq BackingOff(e) \ {c}
  BY <1>1, <1>2 DEF BackingOff, Serving, At
<1>6. /\ IsFiniteSet(Serving(e)) /\ IsFiniteSet(Unreported(e))
      /\ IsFiniteSet(BackingOff(e))
  BY Counts DEF Paid
<1>7. /\ IsFiniteSet(Serving(e)')
      /\ Cardinality(Serving(e)) \in Nat /\ Cardinality(Serving(e)') \in Nat
      /\ Cardinality(Serving(e)') <= Cardinality(Serving(e)) - 1
  BY <1>2, <1>6, OneLess
<1>8. /\ Cardinality(Unreported(e)) \in Nat /\ Cardinality(Unreported(e)') \in Nat
      /\ Cardinality(Unreported(e)') <= Cardinality(Unreported(e)) + 1
  BY <1>3, <1>6, OneMore
<1>9. claim'[e][n] = "left" =>
        Cardinality(Unreported(e)') <= Cardinality(Unreported(e))
  BY <1>4, <1>6, Sizes
<1>10. /\ Cardinality(BackingOff(e)) \in Nat /\ Cardinality(BackingOff(e)') \in Nat
       /\ Cardinality(BackingOff(e)') <= Cardinality(BackingOff(e))
  BY <1>5, <1>6, Sizes
<1>11. At(c, "fail_backoff") =>
         Cardinality(BackingOff(e)') <= Cardinality(BackingOff(e)) - 1
  BY <1>5, <1>6, OneLess
<1>12. /\ faults \in Nat /\ faults' \in Nat /\ faults <= faults'
       /\ attempt[e] \in Nat /\ MaxRetries \in Nat
       /\ Row(e) \in {0, 1} /\ Row(e)' \in {0, 1}
  BY BoundsAssumption DEF IInv, TypeOK, Row
<1> DEFINE cheap == Row(e)' = 0 \/ Row(e) = 1 \/ faults' = faults + 1
<1>13. (Deliverable(e)' => Deliverable(e) \/ faults' = faults + 1) => cheap
  BY ZenonT(30) DEF Row
<1>14. Paid(e)'
  <2>1. CASE claim'[e][n] = "left"
    BY <1>7, <1>8, <1>9, <1>12, <2>1 DEF Paid
  <2>2. CASE cheap
    BY <1>7, <1>8, <1>12, <2>2 DEF Paid
  <2> QED BY <1>13, <2>1, <2>2
<1>15. ASSUME attempt'[e] > MaxRetries, ~Buried(e)'
       PROVE  attempt'[e] + Cardinality(BackingOff(e)') + Row(e)'
                <= MaxRetries + 1 + faults'
  <2>1. attempt[e] + Cardinality(BackingOff(e)) + Row(e) <= MaxRetries + 1 + faults
    BY <1>15 DEF Spent
  <2>2. CASE At(c, "fail_backoff")
    BY <1>10, <1>11, <1>12, <2>1, <2>2
  <2>3. CASE cheap
    BY <1>10, <1>12, <2>1, <2>3
  <2> QED BY <1>13, <1>15, <2>2, <2>3
<1> QED BY <1>14, <1>15 DEF Spent
-------------------------------------------------------------------------------
(* A report takes the place of the claim it is about.                      *)
LEMMA ReportPaid ==
  ASSUME IInv, NEW c \in Calls, NEW e \in Execs, NEW n \in Deliveries,
         Report(c, e, n), Paid(e), Spent(e)
  PROVE  Paid(e)' /\ Spent(e)'
<1>1. /\ \A d \in Calls : d # c => call'[d] = call[d]
      /\ call'[c].e = e /\ call'[c].n = n
      /\ call'[c].pc \in Reports /\ call'[c].pc # "fail_backoff"
      /\ call[c].pc \notin Reports
  BY DEF Report, At, IInv, TypeOK, Idle, Reports, Succeeding, Failing
<1>2. claim[e][n] \in Live /\ UNCHANGED <<claim, tables>>
  BY DEF Report, Live
<1>3. Serving(e)' \subseteq Serving(e) \cup {c} /\ Serving(e) \subseteq Serving(e)'
  BY <1>1 DEF Serving
<1>4. c \in Serving(e)'
  BY <1>1 DEF Serving
<1>5. Unreported(e)' \subseteq Unreported(e) \ {n}
  <2>1. \A m \in Unreported(e)' : m # n
    BY <1>1, <1>4 DEF Unreported
  <2>2. Unreported(e)' \subseteq Unreported(e)
    <3>1. \A d \in Serving(e) : d # c /\ call'[d].n = call[d].n
      BY <1>1 DEF Serving
    <3> QED BY <1>2, <1>3, <3>1 DEF Unreported, Deliveries
  <2> QED BY <2>1, <2>2
<1>6. BackingOff(e)' \subseteq BackingOff(e)
  BY <1>1, <1>3 DEF BackingOff, Serving, At
<1>7. Row(e)' = Row(e)
  BY <1>2 DEF Row, Deliverable, Held, tables
<1>8. n \in Unreported(e) \/ Reporting(e, n)
  BY <1>2 DEF Unreported, Serving, Reporting
<1>9. /\ IsFiniteSet(Serving(e)) /\ IsFiniteSet(Unreported(e))
      /\ IsFiniteSet(BackingOff(e))
  BY Counts DEF Paid
<1>10. /\ IsFiniteSet(Serving(e)')
       /\ Cardinality(Serving(e)) \in Nat /\ Cardinality(Serving(e)') \in Nat
       /\ Cardinality(Serving(e)') <= Cardinality(Serving(e)) + 1
  BY <1>3, <1>9, OneMore
<1>11. /\ Cardinality(Unreported(e)) \in Nat /\ Cardinality(Unreported(e)') \in Nat
       /\ Cardinality(Unreported(e)') <= Cardinality(Unreported(e))
  BY <1>5, <1>9, Sizes
<1>12. n \in Unreported(e) =>
         Cardinality(Unreported(e)') <= Cardinality(Unreported(e)) - 1
  BY <1>5, <1>9, OneLess
<1>13. /\ Cardinality(BackingOff(e)) \in Nat /\ Cardinality(BackingOff(e)') \in Nat
       /\ Cardinality(BackingOff(e)') <= Cardinality(BackingOff(e))
  BY <1>6, <1>9, Sizes
<1>14. /\ faults \in Nat /\ faults' \in {faults, faults + 1}
       /\ Reporting(e, n) => faults' = faults + 1
       /\ attempt[e] \in Nat /\ attempt'[e] = attempt[e] /\ MaxRetries \in Nat
       /\ Row(e) \in {0, 1}
  BY <1>2, BoundsAssumption DEF Report, Fault, IInv, TypeOK, Row, tables
<1>15. Paid(e)'
  <2>1. CASE n \in Unreported(e)
    BY <1>7, <1>10, <1>11, <1>12, <1>14, <2>1 DEF Paid
  <2>2. CASE Reporting(e, n)
    BY <1>7, <1>10, <1>11, <1>14, <2>2 DEF Paid
  <2> QED BY <1>8, <2>1, <2>2
<1>16. ASSUME attempt'[e] > MaxRetries, ~Buried(e)'
       PROVE  attempt'[e] + Cardinality(BackingOff(e)') + Row(e)'
                <= MaxRetries + 1 + faults'
  <2>1. ~Buried(e)
    BY <1>2, <1>16 DEF Buried, Retried, tables
  <2>2. attempt[e] + Cardinality(BackingOff(e)) + Row(e) <= MaxRetries + 1 + faults
    BY <1>14, <1>16, <2>1 DEF Spent
  <2> QED BY <1>7, <1>13, <1>14, <2>2
<1> QED BY <1>15, <1>16 DEF Spent

(* A delivery takes the place of the row.                                  *)
LEMMA DeliveryPaid ==
  ASSUME IInv, MadeInv, BudgetInv, NEW c \in Calls, DequeueCommit(c),
         NEW e \in call[c].batch, Buried(e) => Buried(e)'
  PROVE  Paid(e)' /\ Spent(e)'
<1> DEFINE k == attempt[e] + 1
<1>1. /\ e \in Execs /\ queue[e] = "due" /\ Paid(e) /\ Spent(e)
      /\ attempt[e] \in Nat /\ attempt[e] < AttemptCap
  BY DEF IInv, TypeOK, CallRecords, SafeInv, LockInv, BudgetInv
<1>2. k \in Deliveries /\ k \in Nat /\ claim[e][k] = "none"
  <2>1. k \in Deliveries /\ k \in Nat
    BY <1>1, BoundsAssumption DEF Deliveries
  <2>2. claim[e][k] # "none" => k <= attempt[e]
    BY <1>1, <2>1 DEF MadeInv
  <2> QED BY <1>1, <2>1, <2>2
<1>3. attempt'[e] = k /\ queue'[e] = "leased"
  BY <1>1 DEF DequeueCommit
<1>4. /\ \A d \in Calls : d # c => call'[d] = call[d]
      /\ call'[c].pc \notin Reports /\ call[c].pc \notin Reports
  BY DEF DequeueCommit, At, Idle, Reports, Succeeding, Failing, IInv, TypeOK
<1>5. /\ Serving(e)' = Serving(e) /\ \A d \in Serving(e) : call'[d] = call[d]
      /\ BackingOff(e)' = BackingOff(e)
  <2>1. Serving(e)' = Serving(e) /\ \A d \in Serving(e) : call'[d] = call[d]
    BY <1>4 DEF Serving
  <2> QED BY <2>1 DEF BackingOff, At
<1>6. Row(e) = 1
  BY <1>1 DEF Row, Deliverable
<1>7. /\ IsFiniteSet(Serving(e)) /\ IsFiniteSet(Unreported(e))
      /\ Cardinality(Serving(e)) \in Nat /\ Cardinality(Unreported(e)) \in Nat
      /\ Cardinality(BackingOff(e)) \in Nat
      /\ Cardinality(BackingOff(e)) <= Cardinality(Serving(e))
  BY <1>1, Counts DEF Paid
<1>8. faults \in Nat /\ MaxRetries \in Nat
  BY BoundsAssumption DEF IInv, TypeOK
<1>9. Cardinality(Serving(e)) + Cardinality(Unreported(e)) + 1 <= 1 + faults
  BY <1>1, <1>6 DEF Paid
<1>10. attempt[e] > MaxRetries =>
         \/ Buried(e)
         \/ attempt[e] + Cardinality(BackingOff(e)) + 1 <= MaxRetries + 1 + faults
  BY <1>1, <1>6 DEF Spent
<1> DEFINE given == /\ claim'[e] = [claim[e] EXCEPT ![k] = "running"]
                    /\ faults' = faults
<1>11. CASE given
  <2>1. Row(e)' = 0
    <3>1. claim'[e][k] = "running"
      BY <1>1, <1>2, <1>11 DEF IInv, TypeOK
    <3>2. ~Deliverable(e)'
      BY <1>1, <1>3, <3>1 DEF Deliverable, Held, Live
    <3> QED BY <3>2 DEF Row
  <2>2. Unreported(e)' \subseteq Unreported(e) \cup {k}
    <3>1. \A n \in Deliveries : n # k => claim'[e][n] = claim[e][n]
      BY <1>1, <1>11 DEF IInv, TypeOK
    <3> QED BY <1>5, <3>1 DEF Unreported, Deliveries
  <2>3. /\ Cardinality(Unreported(e)') \in Nat
        /\ Cardinality(Unreported(e)') <= Cardinality(Unreported(e)) + 1
    BY <1>7, <2>2, OneMore
  <2>4. Paid(e)'
    BY <1>5, <1>7, <1>8, <1>9, <1>11, <2>1, <2>3 DEF Paid
  <2>5. ASSUME attempt'[e] > MaxRetries, ~Buried(e)'
        PROVE  attempt'[e] + Cardinality(BackingOff(e)') + Row(e)'
                 <= MaxRetries + 1 + faults'
    <3>1. CASE attempt[e] > MaxRetries
      <4>1. attempt[e] + Cardinality(BackingOff(e)) + 1 <= MaxRetries + 1 + faults
        BY <1>10, <2>5, <3>1
      <4> QED BY <1>1, <1>3, <1>5, <1>7, <1>8, <1>11, <2>1, <4>1
    <3>2. CASE attempt[e] <= MaxRetries
      BY <1>1, <1>3, <1>5, <1>7, <1>8, <1>9, <1>11, <2>1, <2>5, <3>2
    <3> QED BY <1>1, <1>8, <3>1, <3>2
  <2> QED BY <2>4, <2>5 DEF Spent
<1>12. CASE claim' = claim /\ faults' = faults + 1
  <2>1. Row(e)' \in {0, 1}
    BY DEF Row
  <2>2. Unreported(e)' = Unreported(e)
    BY <1>5, <1>12 DEF Unreported, Deliveries
  <2>3. Paid(e)'
    BY <1>5, <1>7, <1>8, <1>9, <1>12, <2>1, <2>2 DEF Paid
  <2>4. ASSUME attempt'[e] > MaxRetries, ~Buried(e)'
        PROVE  attempt'[e] + Cardinality(BackingOff(e)') + Row(e)'
                 <= MaxRetries + 1 + faults'
    <3>1. CASE attempt[e] > MaxRetries
      <4>1. attempt[e] + Cardinality(BackingOff(e)) + 1 <= MaxRetries + 1 + faults
        BY <1>10, <2>4, <3>1
      <4> QED BY <1>1, <1>3, <1>5, <1>7, <1>8, <1>12, <2>1, <4>1
    <3>2. CASE attempt[e] <= MaxRetries
      BY <1>1, <1>3, <1>5, <1>7, <1>8, <1>9, <1>12, <2>1, <2>4, <3>2
    <3> QED BY <1>1, <1>8, <3>1, <3>2
  <2> QED BY <2>3, <2>4 DEF Spent
<1>13. given \/ (claim' = claim /\ faults' = faults + 1)
  BY <1>1 DEF DequeueCommit, Fault
<1> QED BY <1>11, <1>12, <1>13
-------------------------------------------------------------------------------
(* Steps that deliver nothing and neither start nor end a report.          *)
Even ==
    /\ attempt' = attempt
    /\ \A c \in Calls :
         /\ call'[c].pc \in Reports <=> call[c].pc \in Reports
         /\ call[c].pc \in Reports => call'[c].e = call[c].e /\ call'[c].n = call[c].n
         /\ call'[c].pc = "fail_backoff" =>
              call[c].pc = "fail_backoff" \/ attempt[call[c].e] <= MaxRetries
    /\ \A e \in Execs, n \in Deliveries : claim'[e][n] \in Live => claim[e][n] \in Live
    /\ \A e \in Execs :
         \/ Fresh(e)'
         \/ Deliverable(e)' => Deliverable(e) \/ faults' = faults + 1

LEMMA EvenCheap ==
  ASSUME IInv, Even, faults' \in {faults, faults + 1}, NEW e \in Execs,
         Buried(e) => Buried(e)'
  PROVE  Cheap(e) \/ Fresh(e)'
<1>1. Serving(e)' = Serving(e) /\ \A c \in Serving(e) : call'[c].n = call[c].n
  BY DEF Serving, Even
<1>2. Unreported(e)' \subseteq Unreported(e)
  BY <1>1 DEF Unreported, Deliveries, Even
<1>3. attempt[e] > MaxRetries => BackingOff(e)' \subseteq BackingOff(e)
  <2> SUFFICES ASSUME attempt[e] > MaxRetries, NEW c \in BackingOff(e)'
               PROVE  c \in BackingOff(e)
    OBVIOUS
  <2>1. c \in Serving(e) /\ call'[c].pc = "fail_backoff"
    BY <1>1 DEF BackingOff, At
  <2>2. c \in Calls /\ call[c].e = e
    BY <2>1 DEF Serving
  <2>3. ~(attempt[e] <= MaxRetries)
    BY BoundsAssumption DEF IInv, TypeOK
  <2>4. call[c].pc = "fail_backoff"
    BY <2>1, <2>2, <2>3 DEF Even
  <2> QED BY <2>1, <2>4 DEF BackingOff, At
<1> QED BY <1>1, <1>2, <1>3 DEF Even, Cheap

LEMMA EvenSteps ==
  ASSUME IInv, DeliveryInv
  PROVE  /\ \A e \in Execs : (RunJob(e) \/ BecomesDue(e) \/ LeaseLapses(e)) => Even
         /\ \A c \in Calls :
              (\/ DequeueSelect(c) \/ CompleteDelete(c) \/ FailSelect(c)
               \/ FailDelete(c) \/ SetVisibleAfter(c) \/ RetryRollback(c)) => Even
         /\ \A c \in Calls :
              (\/ FailInsert(c) /\ Goto(c, "fail_delete") /\ UNCHANGED <<claim, faults>>
               \/ Cut(c) /\ call[c].pc \notin Reports) => Even
         /\ \A c \in Calls, e \in Execs : (RetryCommit(c, e) \/ RetryRead(c, e)) => Even
         /\ \A e \in Execs, n \in Deliveries : (JobEnds(e, n) \/ WorkerDies(e, n)) => Even
         /\ \A c \in Calls, e \in Execs, n \in Deliveries : Heartbeat(c, e, n) => Even
<1> USE DEF Even, IInv, TypeOK, Reports, Succeeding, Failing
<1>1. ASSUME NEW e \in Execs, RunJob(e) PROVE Even
  BY <1>1 DEF RunJob, Deliverable, Held, Fresh, Waiting
<1>2. ASSUME NEW e \in Execs, BecomesDue(e) PROVE Even
  BY <1>2 DEF BecomesDue, Deliverable, Held
<1>3. ASSUME NEW e \in Execs, LeaseLapses(e) PROVE Even
  BY <1>3 DEF LeaseLapses, Deliverable, Held, Fault
<1>4. ASSUME NEW c \in Calls, DequeueSelect(c) PROVE Even
  BY <1>4 DEF DequeueSelect, At, tables, Idle, Deliverable, Held
<1>5. ASSUME NEW c \in Calls, CompleteDelete(c) PROVE Even
  BY <1>5 DEF CompleteDelete, Goto, At, CallRecords, Deliverable, Held
<1>6. ASSUME NEW c \in Calls, FailSelect(c) PROVE Even
  BY <1>6 DEF FailSelect, RetriesLeft, Goto, At, tables, CallRecords, Deliverable, Held
<1>7. ASSUME NEW c \in Calls, FailDelete(c) PROVE Even
  BY <1>7 DEF FailDelete, Goto, At, CallRecords, Deliverable, Held
<1>8. ASSUME NEW c \in Calls, SetVisibleAfter(c) PROVE Even
  BY <1>8 DEF SetVisibleAfter, At, Idle, Deliverable, Held, RowStates
<1>9. ASSUME NEW c \in Calls, RetryRollback(c) PROVE Even
  BY <1>9 DEF RetryRollback, At, Idle, tables, Deliverable, Held
<1>10. ASSUME NEW c \in Calls, FailInsert(c), Goto(c, "fail_delete"),
              UNCHANGED <<claim, faults>>
       PROVE  Even
  BY <1>10 DEF FailInsert, Goto, At, CallRecords, Deliverable, Held
<1>11. ASSUME NEW c \in Calls, Cut(c), call[c].pc \notin Reports PROVE Even
  BY <1>11 DEF Cut, At, Idle, tables, Deliverable, Held
<1>12. ASSUME NEW c \in Calls, NEW e \in Execs, RetryCommit(c, e) PROVE Even
  BY <1>12 DEF RetryCommit, At, Idle, Deliverable, Held, Fresh, Waiting
<1>13. ASSUME NEW c \in Calls, NEW e \in Execs, RetryRead(c, e) PROVE Even
  BY <1>13 DEF RetryRead, At, Idle, tables, Deliverable, Held
<1>14. ASSUME NEW e \in Execs, NEW n \in Deliveries, JobEnds(e, n) PROVE Even
  BY <1>14 DEF JobEnds, tables, Live, Deliverable, Held
<1>15. ASSUME NEW e \in Execs, NEW n \in Deliveries, WorkerDies(e, n) PROVE Even
  BY <1>15 DEF WorkerDies, Fault, tables, Live
<1>16. ASSUME NEW c \in Calls, NEW e \in Execs, NEW n \in Deliveries, Heartbeat(c, e, n)
       PROVE  Even
  BY <1>16 DEF Heartbeat, At, Idle, tables, Deliverable, Held
<1> HIDE DEF Even, IInv, TypeOK, Reports, Succeeding, Failing
<1> QED
  BY <1>1, <1>2, <1>3, <1>4, <1>5, <1>6, <1>7, <1>8, <1>9, <1>10, <1>11, <1>12,
     <1>13, <1>14, <1>15, <1>16
(* Steps that end the report of c.                                         *)
Ends(c) ==
    \/ CompleteUpdate(c) \/ FailBackoff(c) \/ FailUpdate(c)
    \/ FailInsert(c) /\ Refuse(c) /\ UNCHANGED dlq /\ dlq[call[c].e] # 0
    \/ Cut(c) /\ call[c].pc \in Reports

LEMMA EndsFacts ==
  ASSUME IInv, MadeInv, NEW c \in Calls, Ends(c)
  PROVE  /\ call[c].pc \in Reports /\ call[c].e \in Execs
         /\ Dropped(c) /\ attempt' = attempt
         /\ \A e \in Execs : e # call[c].e => queue'[e] = queue[e]
<1>1. call[c].pc \in Reports /\ call[c].e \in Execs
  BY CallFacts
  DEF Ends, CompleteUpdate, FailBackoff, FailUpdate, FailInsert, At, CallsTyped,
      Reports, Succeeding, Failing
<1>2. Answer(c) \/ Refuse(c) => Dropped(c)
  BY <1>1, ReportEnds
<1>3. Cut(c) => Dropped(c)
  BY DEF Cut, Dropped
<1> QED
  BY <1>1, <1>2, <1>3
  DEF Ends, CompleteUpdate, FailBackoff, FailUpdate, FailInsert, Cut, tables, IInv, TypeOK

LEMMA EndsPaid ==
  ASSUME IInv, MadeInv, NEW c \in Calls, Ends(c), faults' \in {faults, faults + 1},
         NEW e \in Execs, e = call[c].e, Paid(e), Spent(e), Buried(e) => Buried(e)'
  PROVE  Paid(e)' /\ Spent(e)'
<1> DEFINE cheap == Deliverable(e)' => Deliverable(e) \/ faults' = faults + 1
           settled == claim'[e][call[c].n] = "left"
<1>1. /\ call[c].pc \in Reports /\ call[c].e \in Execs /\ call[c].n \in Deliveries
      /\ Dropped(c) /\ attempt' = attempt
  BY EndsFacts DEF MadeInv
<1>2. Answer(c) => settled \/ (claim' = claim /\ faults' = faults + 1)
  BY <1>1 DEF Answer, Fault, IInv, TypeOK
<1>3. Refuse(c) => settled \/ claim' = claim
  BY <1>1 DEF Refuse, IInv, TypeOK
<1>4. claim' = claim /\ queue' = queue => cheap
  BY <1>1 DEF Deliverable, Held
<1>5. CASE CompleteUpdate(c) \/ FailUpdate(c)
  <2>1. queue[e] = "none" /\ queue' = queue
    BY <1>5 DEF CompleteUpdate, FailUpdate, At, IInv, SafeInv, CallInv
  <2>2. cheap
    BY <2>1 DEF Deliverable
  <2> QED BY <1>1, <2>2, DroppedKeeps
<1>6. CASE FailBackoff(c)
  <2>1. At(c, "fail_backoff") /\ (settled \/ cheap)
    BY <1>2, <1>6 DEF FailBackoff
  <2> QED BY <1>1, <2>1, DroppedKeeps
<1>7. CASE FailInsert(c) /\ Refuse(c) /\ UNCHANGED dlq /\ dlq[call[c].e] # 0
  <2>1. queue' = queue /\ Buried(e)
    BY <1>7 DEF FailInsert, Buried
  <2>2. settled \/ cheap
    BY <1>3, <1>4, <1>7, <2>1
  <2> QED BY <1>1, <2>1, <2>2, DroppedKeeps
<1>8. CASE Cut(c)
  <2>1. cheap
    BY <1>4, <1>8 DEF Cut, tables
  <2> QED BY <1>1, <2>1, DroppedKeeps
<1> QED BY <1>5, <1>6, <1>7, <1>8 DEF Ends

LEMMA EndsOthers ==
  ASSUME IInv, MadeInv, NEW c \in Calls, Ends(c), faults' \in {faults, faults + 1},
         NEW e \in Execs, e # call[c].e, Buried(e) => Buried(e)'
  PROVE  Cheap(e)
<1>1. Dropped(c) /\ attempt' = attempt /\ queue'[e] = queue[e]
  BY EndsFacts
<1>2. claim'[e] = claim[e]
  <2>1. \A n \in Deliveries : claim'[e][n] = claim[e][n]
    BY <1>1 DEF Dropped
  <2>2. claim'[e] \in [Deliveries -> ClaimStates]
    BY AnswerType, RefuseType, EndsFacts
    DEF Ends, CompleteUpdate, FailBackoff, FailUpdate, Cut, IInv, TypeOK
  <2> QED BY <2>1, <2>2 DEF IInv, TypeOK
<1>3. /\ \A d \in Calls : d # c => call'[d] = call[d]
      /\ call'[c].pc \notin Reports
  BY <1>1 DEF Dropped, IInv, TypeOK, Idle, Reports, Succeeding, Failing
<1> QED BY <1>1, <1>2, <1>3, OthersCheap

LEMMA DeliveryOthers ==
  ASSUME IInv, NEW c \in Calls, DequeueCommit(c), NEW e \in Execs \ call[c].batch,
         Buried(e) => Buried(e)'
  PROVE  Cheap(e)
<1>1. /\ \A d \in Calls : d # c => call'[d] = call[d]
      /\ call'[c].pc \notin Reports /\ call[c].pc \notin Reports
  BY DEF DequeueCommit, At, IInv, TypeOK, Idle, Reports, Succeeding, Failing
<1>2. attempt'[e] = attempt[e] /\ claim'[e] = claim[e] /\ queue'[e] = queue[e]
  BY DEF DequeueCommit
<1>3. faults' \in {faults, faults + 1}
  BY DEF DequeueCommit, Fault
<1> QED BY <1>1, <1>2, <1>3, OthersCheap

LEMMA ReportOthers ==
  ASSUME IInv, NEW c \in Calls, NEW x \in Execs, NEW n \in Deliveries, Report(c, x, n),
         NEW e \in Execs, e # x, Buried(e) => Buried(e)'
  PROVE  Cheap(e)
<1>1. /\ \A d \in Calls : d # c => call'[d] = call[d]
      /\ call'[c].e = x /\ call[c].pc \notin Reports
  BY DEF Report, At, IInv, TypeOK, Idle, Reports, Succeeding, Failing
<1>2. attempt' = attempt /\ claim' = claim /\ queue' = queue
  BY DEF Report, tables
<1>3. faults' \in {faults, faults + 1}
  BY DEF Report, Fault
<1> QED BY <1>1, <1>2, <1>3, OthersCheap

(* A transaction of DequeueBatch keeps others off the rows it has locked.  *)
LEMMA BatchesKept ==
  ASSUME IInv, BudgetInv, Next
  PROVE  \A c \in Calls : \A e \in call'[c].batch : attempt'[e] < AttemptCap
<1>1. ASSUME NEW c \in Calls, DequeueCommit(c), NEW d \in Calls, NEW e \in call'[d].batch
      PROVE  attempt'[e] < AttemptCap
  <2>1. d # c /\ call'[d] = call[d]
    BY <1>1 DEF DequeueCommit, Idle, IInv, TypeOK
  <2>2. e \notin call[c].batch /\ e \in Execs
    BY <1>1, <2>1 DEF IInv, TypeOK, CallRecords, SafeInv, LockInv
  <2> QED BY <1>1, <2>1, <2>2 DEF DequeueCommit, BudgetInv
<1>2. ASSUME NEW c \in Calls, DequeueSelect(c), NEW d \in Calls, NEW e \in call'[d].batch
      PROVE  attempt'[e] < AttemptCap
  <2>1. PICK batch : /\ \A x \in batch : attempt[x] < AttemptCap
                     /\ call' = [call EXCEPT ![c] =
                                   [Idle EXCEPT !.pc = "dequeue", !.batch = batch]]
    BY <1>2 DEF DequeueSelect
  <2>2. call'[d].batch = batch \/ call'[d] = call[d]
    BY <2>1 DEF Idle, IInv, TypeOK
  <2> QED BY <1>2, <2>1, <2>2 DEF DequeueSelect, tables, BudgetInv
<1>3. ASSUME attempt' = attempt,
             \A c \in Calls : call'[c].batch \subseteq call[c].batch
      PROVE  \A c \in Calls : \A e \in call'[c].batch : attempt'[e] < AttemptCap
  BY <1>3 DEF BudgetInv
<1>4. ASSUME NEW c \in Calls, call' = [call EXCEPT ![c] = Idle]
      PROVE  \A d \in Calls : call'[d].batch \subseteq call[d].batch
  BY <1>4 DEF Idle, IInv, TypeOK
<1>5. ASSUME NEW c \in Calls, NEW step, Goto(c, step)
      PROVE  \A d \in Calls : call'[d].batch \subseteq call[d].batch
  BY <1>5 DEF Goto, IInv, TypeOK, CallRecords
<1>6. ASSUME NEW c \in Calls, NEW e \in Execs, RetryRead(c, e)
      PROVE  \A d \in Calls : call'[d].batch \subseteq call[d].batch
  BY <1>6 DEF RetryRead, Idle, IInv, TypeOK
<1>7. ASSUME NEW c \in Calls, NEW e \in Execs, NEW n \in Deliveries,
             Report(c, e, n) \/ Heartbeat(c, e, n)
      PROVE  \A d \in Calls : call'[d].batch \subseteq call[d].batch
  BY <1>7 DEF Report, Heartbeat, Idle, IInv, TypeOK
<1>8. ASSUME NEW c \in Calls, FailInsert(c)
      PROVE  \A d \in Calls : call'[d].batch \subseteq call[d].batch
  BY <1>4, <1>5, <1>8 DEF FailInsert, Refuse
<1>9. ASSUME NEW c \in Calls, FailSelect(c)
      PROVE  \A d \in Calls : call'[d].batch \subseteq call[d].batch
  BY <1>5, <1>9 DEF FailSelect
<1>10. CASE \E e \in Execs : RunJob(e) \/ BecomesDue(e) \/ LeaseLapses(e)
  BY <1>3, <1>10 DEF RunJob, BecomesDue, LeaseLapses
<1>11. CASE \E e \in Execs, n \in Deliveries : JobEnds(e, n) \/ WorkerDies(e, n)
  BY <1>3, <1>11 DEF JobEnds, WorkerDies, tables
<1>12. CASE \E c \in Calls : Cut(c) \/ \E e \in Execs : RetryRead(c, e)
  BY <1>3, <1>4, <1>6, <1>12 DEF Cut, RetryRead, tables
<1>13. CASE \E c \in Calls, e \in Execs, n \in Deliveries :
              Report(c, e, n) \/ Heartbeat(c, e, n)
  BY <1>3, <1>7, <1>13 DEF Report, Heartbeat, tables
<1>14. ASSUME NEW c \in Calls, Complete(c) \/ Fail(c)
       PROVE  \A d \in Calls : \A e \in call'[d].batch : attempt'[e] < AttemptCap
  BY <1>3, <1>4, <1>5, <1>8, <1>9, <1>14
  DEF Complete, Fail, CompleteDelete, CompleteUpdate, FailSelect, FailBackoff,
      FailInsert, FailDelete, FailUpdate, Answer, tables
<1>15. ASSUME NEW c \in Calls, SetVisibleAfter(c) \/ RetryRollback(c)
                               \/ \E new \in Execs : RetryCommit(c, new)
       PROVE  \A d \in Calls : \A e \in call'[d].batch : attempt'[e] < AttemptCap
  BY <1>3, <1>4, <1>15 DEF SetVisibleAfter, RetryRollback, RetryCommit, tables
<1> QED
  BY <1>1, <1>2, <1>10, <1>11, <1>12, <1>13, <1>14, <1>15 DEF Next, Serve
-------------------------------------------------------------------------------
LEMMA InitBudget == Init => BudgetInv
<1> SUFFICES ASSUME Init PROVE BudgetInv
  OBVIOUS
<1>1. ASSUME NEW e \in Execs PROVE Paid(e) /\ Spent(e)
  <2>1. Serving(e) = {} /\ Unreported(e) = {}
    BY DEF Init, Idle, Serving, Unreported, Reports, Succeeding, Failing, Live
  <2>2. Row(e) = 0
    BY DEF Init, Row, Deliverable
  <2>3. Paid(e)
    BY <2>1, <2>2, FS_EmptySet DEF Paid, Init
  <2>4. Spent(e)
    BY BoundsAssumption DEF Spent, Init
  <2> QED BY <2>3, <2>4
<1>2. \A c \in Calls : call[c].batch = {}
  BY DEF Init, Idle
<1> QED BY <1>1, <1>2 DEF BudgetInv

LEMMA NextBudget ==
  IInv /\ IInv' /\ DeliveryInv /\ OriginInv /\ BudgetInv /\ [Next]_vars => BudgetInv'
<1> SUFFICES ASSUME IInv, IInv', DeliveryInv, OriginInv, BudgetInv, [Next]_vars
             PROVE  BudgetInv'
  OBVIOUS
<1>1. CASE UNCHANGED vars
  BY <1>1
  DEF vars, tables, BudgetInv, Paid, Spent, Buried, Retried, Row, Deliverable, Held,
      BackingOff, Unreported, Serving, At
<1>2. CASE Next
  <2>1. faults' \in {faults, faults + 1} /\ faults' \in Nat
    BY <1>2, FaultsGrow, BoundsAssumption DEF IInv, TypeOK
  <2>2. \A e \in Execs : Buried(e) => Buried(e)'
    BY <1>2, BuriedForGood
  <2>3. \A e \in Execs : Paid(e) /\ Spent(e)
    BY DEF BudgetInv
  <2>4. \A e \in Execs : Cheap(e) => Paid(e)' /\ Spent(e)'
    BY <2>3, CheapKeeps
  <2>5. ASSUME Even, NEW e \in Execs PROVE Paid(e)' /\ Spent(e)'
    BY <2>1, <2>2, <2>4, <2>5, EvenCheap, FreshCounts
  <2>6. ASSUME NEW c \in Calls, Ends(c), NEW e \in Execs PROVE Paid(e)' /\ Spent(e)'
    BY <2>1, <2>2, <2>3, <2>4, <2>6, EndsPaid, EndsOthers DEF DeliveryInv
  <2>7. ASSUME NEW c \in Calls, DequeueCommit(c), NEW e \in Execs
        PROVE  Paid(e)' /\ Spent(e)'
    BY <2>2, <2>4, <2>7, DeliveryPaid, DeliveryOthers DEF DeliveryInv
  <2>8. ASSUME NEW c \in Calls, NEW x \in Execs, NEW n \in Deliveries, Report(c, x, n),
               NEW e \in Execs
        PROVE  Paid(e)' /\ Spent(e)'
    BY <2>2, <2>3, <2>4, <2>8, ReportPaid, ReportOthers
  <2>9. \/ Even
        \/ \E c \in Calls : Ends(c) \/ DequeueCommit(c)
        \/ \E c \in Calls, e \in Execs, n \in Deliveries : Report(c, e, n)
    <3>1. ASSUME NEW c \in Calls, FailInsert(c) PROVE Even \/ Ends(c)
      BY <3>1, EvenSteps DEF Ends, FailInsert
    <3>2. ASSUME NEW c \in Calls, Cut(c) PROVE Even \/ Ends(c)
      BY <3>2, EvenSteps DEF Ends
    <3> QED
      BY <1>2, <3>1, <3>2, EvenSteps DEF Next, Serve, Complete, Fail, Ends
  <2>10. \A e \in Execs : Paid(e)' /\ Spent(e)'
    BY <2>5, <2>6, <2>7, <2>8, <2>9
  <2> QED BY <1>2, <2>10, BatchesKept DEF BudgetInv
<1> QED BY <1>1, <1>2

LEMMA BudgetInductive == Spec => [](IInv /\ DeliveryInv /\ OriginInv /\ BudgetInv)
<1>1. Init => IInv /\ DeliveryInv /\ OriginInv /\ BudgetInv
  BY InitInv, InitDelivery, InitOrigin, InitBudget
<1>2. IInv /\ DeliveryInv /\ OriginInv /\ BudgetInv /\ [Next]_vars
        => (IInv /\ DeliveryInv /\ OriginInv /\ BudgetInv)'
  BY NextInv, NextDelivery, NextOrigin, NextBudget
<1> QED BY <1>1, <1>2, PTL DEF Spec

(* However calls, heartbeats and late reports interleave and wherever they *)
(* are cut, DequeueBatch gives an execution more often than Fail's retry   *)
(* policy allows only as often as workers or the network failed.           *)
THEOREM DeliveriesPaid == Spec => []DeliveriesBounded
<1>1. IInv /\ BudgetInv => DeliveriesBounded
  <2> SUFFICES ASSUME IInv, BudgetInv, NEW e \in Execs, ~Buried(e)
               PROVE  attempt[e] <= MaxRetries + 1 + faults
    BY DEF DeliveriesBounded, Buried
  <2>1. Cardinality(BackingOff(e)) \in Nat /\ Row(e) \in {0, 1}
    BY Counts DEF BudgetInv, Paid
  <2>2. attempt[e] \in Nat /\ faults \in Nat /\ MaxRetries \in Nat
    BY BoundsAssumption DEF IInv, TypeOK
  <2>3. CASE attempt[e] > MaxRetries
    <3>1. attempt[e] + Cardinality(BackingOff(e)) + Row(e) <= MaxRetries + 1 + faults
      BY <2>3 DEF BudgetInv, Spent
    <3> QED BY <2>1, <2>2, <3>1
  <2>4. CASE attempt[e] <= MaxRetries
    BY <2>2, <2>4
  <2> QED BY <2>2, <2>3, <2>4
<1> QED BY <1>1, BudgetInductive, PTL

(* A claim is being reported, by a call of its own, or it is not.          *)
LEMMA HeldOrReported ==
  ASSUME IInv, NEW e \in Execs, Paid(e)
  PROVE  Cardinality({n \in Deliveries : claim[e][n] \in Live}) <= 1 + faults
<1> DEFINE held == {n \in Deliveries : claim[e][n] \in Live}
           busy == held \ Unreported(e)
           by == [n \in busy |-> CHOOSE c \in Serving(e) : call[c].n = n]
<1>1. \A n \in busy : by[n] \in Serving(e) /\ call[by[n]].n = n
  BY DEF Unreported
<1>2. by \in Injection(busy, Serving(e))
  BY <1>1 DEF Injection, IsInjective
<1>3. /\ IsFiniteSet(Serving(e)) /\ IsFiniteSet(Unreported(e))
      /\ Cardinality(Serving(e)) \in Nat /\ Cardinality(Unreported(e)) \in Nat
      /\ Row(e) \in {0, 1}
  BY Counts DEF Paid
<1>4. IsFiniteSet(busy) /\ Cardinality(busy) <= Cardinality(Serving(e))
  <2> HIDE DEF by, busy
  <2> QED BY <1>2, <1>3, FS_Injection
<1>5. Cardinality(busy) \in Nat
  BY <1>4, FS_CardinalityType
<1>6. held = busy \cup Unreported(e) /\ busy \cap Unreported(e) = {}
  BY DEF Unreported
<1>7. Cardinality(held) = Cardinality(busy) + Cardinality(Unreported(e))
  <2>1. Cardinality(busy \cup Unreported(e))
          = Cardinality(busy) + Cardinality(Unreported(e))
              - Cardinality(busy \cap Unreported(e))
    BY <1>3, <1>4, FS_Union
  <2>2. Cardinality(busy \cap Unreported(e)) = 0
    BY <1>6, FS_EmptySet
  <2>3. Cardinality(held) = Cardinality(busy \cup Unreported(e))
    BY <1>6
  <2> HIDE DEF held, busy
  <2> QED BY <1>3, <1>5, <2>1, <2>2, <2>3
<1>8. faults \in Nat
  BY BoundsAssumption DEF IInv, TypeOK
<1> HIDE DEF held, busy, by
<1>9. Cardinality(held) <= 1 + faults
  BY <1>3, <1>4, <1>5, <1>7, <1>8 DEF Paid
<1> QED BY <1>9 DEF held

(* However leases lapse and reports are sent again, DequeueBatch gives an  *)
(* execution to one worker more than something went wrong at most.         *)
THEOREM HoldersPaid == Spec => []HoldersBounded
<1>1. IInv /\ BudgetInv => HoldersBounded
  BY HeldOrReported DEF BudgetInv, HoldersBounded
<1> QED BY <1>1, BudgetInductive, PTL

-------------------------------------------------------------------------------
(* Every step of the store is a step of JobLifecycle or leaves it alone.   *)

LEMMA OutcomeStep ==
  ASSUME IInv, DeliveryInv, NEW c \in Calls,
         \/ CompleteUpdate(c)
         \/ FailUpdate(c)
  PROVE  [Lifecycle!Next]_(Lifecycle!vars)
<1> DEFINE e == call[c].e
           s == IF At(c, "complete_update") THEN "SUCCEEDED" ELSE "FAILED"
           verdict == IF At(c, "complete_update") THEN "ok" ELSE "bad"
<1>1. e \in Execs /\ status' = [status EXCEPT ![e] = s] /\ attempt' = attempt
  BY CallFacts DEF CompleteUpdate, FailUpdate, At, CallsTyped
<1>2. status[e] \in {"RUNNING", "SUCCEEDED", "FAILED"}
  BY <1>1 DEF IInv, SafeInv, FreshInv, Fresh, TypeOK, Statuses, Waiting, Terminal
<1>3. Phase(s) = verdict /\ verdict \in Lifecycle!Verdicts
  BY DEF Phase, Waiting, Lifecycle!Verdicts
<1>4. [x \in Execs |-> Phase(status[x])]'
        = [[x \in Execs |-> Phase(status[x])] EXCEPT ![e] = verdict]
  BY <1>1, <1>3 DEF IInv, TypeOK
<1>5. CASE status[e] = "RUNNING"
  <2>1. Phase(status[e]) = "running" BY <1>5 DEF Phase, Waiting
  <2>2. Lifecycle!Finish(e, verdict)
    BY <1>1, <1>4, <2>1 DEF Lifecycle!Finish
  <2> QED BY <1>1, <1>3, <2>2 DEF Lifecycle!Next
<1>6. CASE status[e] = s
  BY <1>1, <1>6 DEF Lifecycle!vars, IInv, TypeOK
<1>7. CASE status[e] \in {"SUCCEEDED", "FAILED"} /\ status[e] # s
  <2>1. call[c].pc = IF s = "SUCCEEDED" THEN "complete_update" ELSE "fail_update"
    BY DEF CompleteUpdate, FailUpdate, At
  <2>2. attempt[e] > 1
    BY <1>1, <1>7, <2>1
    DEF DeliveryInv, FirstInv, Agree, Succeeding, Failing, IInv, TypeOK
  <2>3. Phase(status[e]) \in Lifecycle!Verdicts
    BY <1>7 DEF Phase, Waiting, Lifecycle!Verdicts
  <2>4. Lifecycle!Overturn(e, verdict)
    BY <1>1, <1>4, <2>2, <2>3 DEF Lifecycle!Overturn
  <2> QED BY <1>1, <1>3, <2>4 DEF Lifecycle!Next
<1> QED BY <1>2, <1>5, <1>6, <1>7

LEMMA AcceptStep ==
  ASSUME IInv, NEW e \in Execs, NEW s \in Waiting, status[e] = "ABSENT",
         status' = [status EXCEPT ![e] = s], attempt' = attempt
  PROVE  Lifecycle!Next
<1>1. Phase(status[e]) = "absent" /\ Phase(s) = "waiting"
  BY DEF Phase, Waiting
<1>2. [x \in Execs |-> Phase(status[x])]'
        = [[x \in Execs |-> Phase(status[x])] EXCEPT ![e] = "waiting"]
  BY <1>1 DEF IInv, TypeOK
<1> QED BY <1>1, <1>2 DEF Lifecycle!Next, Lifecycle!Accept

LEMMA DeliverStep ==
  ASSUME IInv, NEW c \in Calls, DequeueCommit(c)
  PROVE  Lifecycle!Next
<1> DEFINE batch == call[c].batch
<1>1. batch \in SUBSET Execs
  BY DEF IInv, TypeOK, CallRecords
<1>2. \A e \in batch : status[e] \in Waiting \cup {"RUNNING"}
  BY <1>1 DEF IInv, SafeInv, LockInv, FinishedIsDequeued, FreshInv, Fresh, TypeOK,
              Statuses, Terminal
<1>3. \A e \in batch : Phase(status[e]) \in {"waiting", "running"}
  BY <1>2 DEF Phase, Waiting
<1>4. Phase("RUNNING") = "running"
  BY DEF Phase, Waiting
<1>5. [x \in Execs |-> Phase(status[x])]'
        = [x \in Execs |-> IF x \in batch THEN "running" ELSE Phase(status[x])]
  BY <1>4 DEF DequeueCommit
<1>6. Lifecycle!Deliver(batch)
  BY <1>1, <1>3, <1>5 DEF Lifecycle!Deliver, DequeueCommit
<1> QED BY <1>1, <1>6 DEF Lifecycle!Next

(* The tables, statement by statement, keep the promise of JobLifecycle:   *)
(* no delivery after an outcome, and no outcome overturned but by the late *)
(* report of another delivery of the same execution.                       *)
THEOREM ImplementsLifecycle == Spec => KeepsLifecycle
<1>1. Init => Lifecycle!Init
  <2>1. Phase("ABSENT") = "absent"
    BY DEF Phase, Waiting
  <2> QED BY <2>1 DEF Init, Lifecycle!Init
<1>2. IInv /\ DeliveryInv /\ [Next]_vars => [Lifecycle!Next]_(Lifecycle!vars)
  <2> SUFFICES ASSUME IInv, DeliveryInv, [Next]_vars
               PROVE  [Lifecycle!Next]_(Lifecycle!vars)
    OBVIOUS
  <2>1. CASE UNCHANGED <<status, attempt>>
    BY <2>1 DEF Lifecycle!vars
  <2>2. ASSUME NEW e \in Execs, RunJob(e) PROVE Lifecycle!Next
    <3>1. PICK s \in Waiting : status' = [status EXCEPT ![e] = s]
      BY <2>2 DEF RunJob, Waiting
    <3> QED BY <2>2, <3>1, AcceptStep DEF RunJob
  <2>3. ASSUME NEW c \in Calls, NEW e \in Execs, RetryCommit(c, e)
        PROVE  Lifecycle!Next
    BY <2>3, AcceptStep DEF RetryCommit, Waiting
  <2>4. ASSUME NEW c \in Calls, DequeueCommit(c) PROVE Lifecycle!Next
    BY <2>4, DeliverStep
  <2>5. ASSUME NEW c \in Calls, CompleteUpdate(c) \/ FailUpdate(c)
        PROVE  [Lifecycle!Next]_(Lifecycle!vars)
    BY <2>5, OutcomeStep
  <2> QED
    BY <2>1, <2>2, <2>3, <2>4, <2>5
    DEF Next, Serve, Complete, Fail, vars, tables, BecomesDue, LeaseLapses,
        DequeueSelect, CompleteDelete, FailSelect, FailBackoff, FailInsert,
        FailDelete, SetVisibleAfter, RetryRollback, Cut, RetryRead, JobEnds,
        WorkerDies, Report, Heartbeat
<1> QED
  BY <1>1, <1>2, DeliveryInductive, PTL DEF Spec, KeepsLifecycle, Lifecycle!Spec
===============================================================================
