----------------------------- MODULE JobRun_proofs -----------------------------
(***************************************************************************)
(* Proofs about one execution on a worker, for every runtime, any number   *)
(* of attempts and any number of faults.  The properties speak of what was *)
(* told; the inductive invariant traces it back from the report to the     *)
(* verdict, to what Wait returned, to the job.                             *)
(***************************************************************************)
EXTENDS JobRun, TLAPS

(* A job is made by Start only, and what was waited for is waited for once. *)
Stages ==
    /\ main = "start" => job = "none" /\ logs = "off"
    /\ main = "complain" => job = "none"
    /\ main \in {"start", "complain", "wait"} => waited = "none"
    /\ main = "drain" => waited # "none"
    /\ main \in {"start", "wait", "drain"} => verdict = "none"
    /\ main \in {"wait", "drain", "stop"} => logs # "off"
    /\ main = "stop" => waited = "error" /\ context = "deadline"
    /\ main \in {"complain", "stop", "report"} => verdict \in {"ok", "bad"}

(* What Wait returned, in terms of the job.                                *)
WaitIsTrue ==
    /\ job = "killed" => context # "open"
    /\ waited = "ok" => job = "ok"
    /\ waited = "bad" => job = "bad" \/ runtime = "kubernetes"
    /\ waited = "error" => context # "open" \/ faults > 0
    /\ runtime = "exec" /\ waited # "none" => job \in Ended

(* What is reported, in terms of the job.                                  *)
Founded == job \in {"none", "bad"} \/ context # "open" \/ faults > 0

VerdictIsTrue ==
    /\ verdict = "ok" => waited = "ok"
    /\ runtime # "kubernetes" /\ verdict = "bad" => main # "start" /\ Founded
    /\ told \in {"none", verdict}

(* NoneLeftRunning from the moment processItem turns to its report.        *)
Disposed ==
    main \in {"report", "done"} /\ job = "running" => Abandoned \/ faults > 0

(* A report that is under way has attempts left.                           *)
TriesLeft == main # "done" => tries < MaxTries

IInv ==
    /\ TypeOK /\ Stages /\ WaitIsTrue /\ VerdictIsTrue /\ Disposed
    /\ TriesLeft /\ HeldUntilReported

(* The types in two halves, values and flags: no prover does both.         *)
Values ==
    /\ main \in Places /\ runtime \in Runtimes
    /\ job \in {"none", "running"} \cup Ended
    /\ context \in {"open", "deadline", "cancelled"}
    /\ logs \in {"off", "following", "ended"}
    /\ waited \in {"none", "ok", "bad", "error"}
    /\ verdict \in {"none", "ok", "bad"} /\ told \in {"none", "ok", "bad"}
    /\ tries \in 0..MaxTries /\ faults \in 0..MaxFaults

Flags == heart \in BOOLEAN /\ sigterm \in BOOLEAN

LEMMA Halves == TypeOK <=> Values /\ Flags
  BY DEF TypeOK, Values, Flags


USE TriesAssumption, FaultsAssumption
USE DEF TriesAssumption, FaultsAssumption

(* The three forms of Wait, in the terms they share.                       *)
Returned ==
    /\ main = "wait" /\ main' = "drain"
    /\ UNCHANGED <<job, context, logs, heart, verdict, told, tries,
                   runtime, sigterm>>
    /\ faults' \in faults..MaxFaults
    /\ waited' \in {"ok", "bad", "error"}
    /\ waited' = "ok" => job = "ok"
    /\ waited' = "bad" => job = "bad" \/ runtime = "kubernetes"
    /\ waited' = "error" => context # "open" \/ faults' > 0
    /\ runtime = "exec" => job \in Ended

LEMMA WaitReturned ==
  ASSUME Values, WaitIsTrue, WaitReturns
  PROVE  Returned
<1> USE DEF Values, WaitIsTrue, Ended, Returned, report
<1>1. CASE runtime = "exec"
  <2>1. ExecWaits
    BY <1>1 DEF WaitReturns
  <2> QED BY <1>1, <2>1 DEF WaitReturns, ExecWaits
<1>2. CASE runtime = "docker"
  <2>1. DockerWaits
    BY <1>2 DEF WaitReturns
  <2> QED BY <1>2, <2>1 DEF WaitReturns, DockerWaits, Fault
<1>3. CASE runtime = "kubernetes"
  <2>1. KubernetesWaits
    BY <1>3 DEF WaitReturns
  <2> QED BY <1>3, <2>1 DEF WaitReturns, KubernetesWaits, Fault
<1> QED BY <1>1, <1>2, <1>3 DEF Runtimes

(* So for the three forms of Start when it fails, and of Stop.             *)
NotStarted ==
    /\ main = "start" /\ main' = "report" /\ verdict' = "bad"
    /\ UNCHANGED <<context, logs, heart, waited, told, tries,
                   runtime, sigterm>>
    /\ faults' \in faults..MaxFaults
    /\ \/ job' = job
       \/ /\ job' = "running" /\ runtime # "exec"
          /\ context # "open" \/ faults' > 0

LEMMA StartFailed ==
  ASSUME Values, RuntimeStartFails
  PROVE  NotStarted
<1> USE DEF Values, NotStarted, RuntimeStartFails, Unconfirmed, Fault
<1>1. CASE runtime = "exec"
  <2>1. ExecStartFails
    BY <1>1
  <2> QED BY <2>1 DEF ExecStartFails
<1>2. CASE runtime = "docker"
  <2>1. DockerStartFails
    BY <1>2
  <2> QED BY <1>2, <2>1 DEF DockerStartFails
<1>3. CASE runtime = "kubernetes"
  <2>1. KubernetesStartFails
    BY <1>3
  <2> QED BY <1>3, <2>1 DEF KubernetesStartFails
<1> QED BY <1>1, <1>2, <1>3 DEF Runtimes

Stopped ==
    /\ main = "stop" /\ main' = "report"
    /\ UNCHANGED <<context, logs, heart, waited, verdict, told, tries,
                   runtime, sigterm>>
    /\ faults' \in faults..MaxFaults
    /\ \/ job' = IF job = "running" THEN "killed" ELSE job
       \/ job' = job /\ faults' > 0

LEMMA StopReturned ==
  ASSUME Values, StopReturns
  PROVE  Stopped
<1> USE DEF Values, Stopped, StopReturns, Killed, Fault, report
<1>1. CASE runtime = "exec"
  <2>1. ExecStops
    BY <1>1
  <2> QED BY <2>1 DEF ExecStops
<1>2. CASE runtime = "docker"
  <2>1. DockerStops
    BY <1>2
  <2> QED BY <2>1 DEF DockerStops
<1>3. CASE runtime = "kubernetes"
  <2>1. KubernetesStops
    BY <1>3
  <2> QED BY <2>1 DEF KubernetesStops
<1> QED BY <1>1, <1>2, <1>3 DEF Runtimes

(* Only a report that has attempts left uses one up.                       *)
LEMMA ValuesStep ==
  ASSUME Values, TriesLeft, Stages, WaitIsTrue, [Next]_vars
  PROVE  Values' /\ TriesLeft'
<1> USE DEF Values, TriesLeft, Stages, Places, Ended
<1>1. CASE PayloadInvalid \/ RuntimeStarts \/ RuntimeStartFails
  BY <1>1, StartFailed DEF PayloadInvalid, RuntimeStarts, NotStarted, report,
      world
<1>2. CASE WaitReturns
  BY <1>2, WaitReturned DEF Returned
<1>3. CASE Drained
  BY <1>3 DEF Drained, report, world
<1>4. CASE StopReturns
  BY <1>4, StopReturned DEF Stopped
<1>5. CASE Answered \/ Refused \/ ComplaintAborted
  BY <1>5 DEF Answered, Reporting, Return, Refused, Fault,
      ComplaintAborted, report, world
<1>6. CASE Unanswered
  BY <1>6 DEF Unanswered, Reporting, Return, Fault, report, world
<1>7. CASE LogsEnd \/ LogsBreak
  BY <1>7 DEF LogsEnd, LogsBreak, report, world
<1>8. CASE JobEnds \/ CommandKilled
  BY <1>8 DEF JobEnds, CommandKilled, report, world
<1>9. CASE Deadline \/ Sigterm
  BY <1>9 DEF Deadline, Sigterm, report, world
<1>10. CASE UNCHANGED vars
  BY <1>10 DEF vars, report, world
<1> QED BY <1>1, <1>2, <1>3, <1>4, <1>5, <1>6, <1>7, <1>8, <1>9, <1>10 DEF
      Next, Main, Start

(* The flags keep their type.                                              *)
LEMMA FlagsStep ==
  ASSUME Flags, [Next]_vars
  PROVE  Flags'
<1> USE DEF Flags
<1>1. CASE PayloadInvalid \/ RuntimeStarts \/ RuntimeStartFails
  BY <1>1, Zenon DEF PayloadInvalid, RuntimeStarts, RuntimeStartFails,
      report, world
<1>2. CASE WaitReturns
  BY <1>2, Zenon DEF WaitReturns, report
<1>3. CASE Drained
  BY <1>3, Zenon DEF Drained, report, world
<1>4. CASE StopReturns
  BY <1>4, Zenon DEF StopReturns, report
<1>5. CASE Answered \/ Refused \/ ComplaintAborted
  BY <1>5, Zenon DEF Answered, Reporting, Return, Refused, Fault,
      ComplaintAborted, report, world
<1>6. CASE Unanswered
  BY <1>6, Zenon DEF Unanswered, Reporting, Return, Fault, report, world
<1>7. CASE LogsEnd \/ LogsBreak
  BY <1>7, Zenon DEF LogsEnd, LogsBreak, report, world
<1>8. CASE JobEnds \/ CommandKilled
  BY <1>8, Zenon DEF JobEnds, CommandKilled, report, world
<1>9. CASE Deadline \/ Sigterm
  BY <1>9, Zenon DEF Deadline, Sigterm, report, world
<1>10. CASE UNCHANGED vars
  BY <1>10, Zenon DEF vars, report, world
<1> QED BY <1>1, <1>2, <1>3, <1>4, <1>5, <1>6, <1>7, <1>8, <1>9, <1>10 DEF
      Next, Main, Start

(* processItem goes through its stages in order.                           *)
LEMMA StagesStep ==
  ASSUME Values, Stages, WaitIsTrue, [Next]_vars
  PROVE  Stages'
<1> USE DEF Values, Stages, Places, Ended
<1>1. CASE PayloadInvalid \/ RuntimeStarts \/ RuntimeStartFails
  BY <1>1, StartFailed DEF PayloadInvalid, RuntimeStarts, NotStarted, report,
      world
<1>2. CASE WaitReturns
  BY <1>2, WaitReturned DEF Returned
<1>3. CASE Drained
  BY <1>3 DEF Drained, report, world
<1>4. CASE StopReturns
  BY <1>4, StopReturned DEF Stopped
<1>5. CASE Answered \/ Refused \/ ComplaintAborted
  BY <1>5 DEF Answered, Reporting, Return, Refused, Fault,
      ComplaintAborted, report, world
<1>6. CASE Unanswered
  BY <1>6 DEF Unanswered, Reporting, Return, Fault, report, world
<1>7. CASE LogsEnd \/ LogsBreak
  BY <1>7 DEF LogsEnd, LogsBreak, report, world
<1>8. CASE JobEnds \/ CommandKilled
  BY <1>8 DEF JobEnds, CommandKilled, report, world
<1>9. CASE Deadline \/ Sigterm
  BY <1>9 DEF Deadline, Sigterm, report, world
<1>10. CASE UNCHANGED vars
  BY <1>10 DEF vars, report, world
<1> QED BY <1>1, <1>2, <1>3, <1>4, <1>5, <1>6, <1>7, <1>8, <1>9, <1>10 DEF
      Next, Main, Start

(* What Wait returned stays true: an ended job does not change.            *)
LEMMA WaitStep ==
  ASSUME Values, Stages, WaitIsTrue, [Next]_vars
  PROVE  WaitIsTrue'
<1> USE DEF Values, Stages, WaitIsTrue, Places, Ended, Runtimes
<1>1. CASE PayloadInvalid \/ RuntimeStarts \/ RuntimeStartFails
  BY <1>1, StartFailed DEF PayloadInvalid, RuntimeStarts, NotStarted, report,
      world
<1>2. CASE WaitReturns
  BY <1>2, WaitReturned DEF Returned
<1>3. CASE Drained
  BY <1>3 DEF Drained, report, world
<1>4. CASE StopReturns
  BY <1>4, StopReturned DEF Stopped
<1>5. CASE Answered \/ Refused \/ ComplaintAborted
  BY <1>5 DEF Answered, Reporting, Return, Refused, Fault,
      ComplaintAborted, report, world
<1>6. CASE Unanswered
  BY <1>6 DEF Unanswered, Reporting, Return, Fault, report, world
<1>7. CASE LogsEnd \/ LogsBreak
  BY <1>7 DEF LogsEnd, LogsBreak, report, world
<1>8. CASE JobEnds \/ CommandKilled
  BY <1>8 DEF JobEnds, CommandKilled, report, world
<1>9. CASE Deadline \/ Sigterm
  BY <1>9 DEF Deadline, Sigterm, report, world
<1>10. CASE UNCHANGED vars
  BY <1>10 DEF vars, report, world
<1> QED BY <1>1, <1>2, <1>3, <1>4, <1>5, <1>6, <1>7, <1>8, <1>9, <1>10 DEF
      Next, Main, Start

(* A verdict follows from what Wait returned, and is not changed.          *)
LEMMA VerdictStep ==
  ASSUME Values, Stages, WaitIsTrue, VerdictIsTrue, [Next]_vars
  PROVE  VerdictIsTrue'
<1> USE DEF Values, Stages, WaitIsTrue, VerdictIsTrue, Founded, Places, Ended, Runtimes
<1>1. CASE PayloadInvalid \/ RuntimeStarts \/ RuntimeStartFails
  BY <1>1, StartFailed DEF PayloadInvalid, RuntimeStarts, NotStarted, report,
      world
<1>2. CASE WaitReturns
  BY <1>2, WaitReturned DEF Returned
<1>3. CASE Drained
  BY <1>3 DEF Drained, report, world
<1>4. CASE StopReturns
  BY <1>4, StopReturned DEF Stopped
<1>5. CASE Answered \/ Refused \/ ComplaintAborted
  BY <1>5 DEF Answered, Reporting, Return, Refused, Fault,
      ComplaintAborted, report, world
<1>6. CASE Unanswered
  BY <1>6 DEF Unanswered, Reporting, Return, Fault, report, world
<1>7. CASE LogsEnd \/ LogsBreak
  BY <1>7 DEF LogsEnd, LogsBreak, report, world
<1>8. CASE JobEnds \/ CommandKilled
  BY <1>8 DEF JobEnds, CommandKilled, report, world
<1>9. CASE Deadline \/ Sigterm
  BY <1>9 DEF Deadline, Sigterm, report, world
<1>10. CASE UNCHANGED vars
  BY <1>10 DEF vars, report, world
<1> QED BY <1>1, <1>2, <1>3, <1>4, <1>5, <1>6, <1>7, <1>8, <1>9, <1>10 DEF
      Next, Main, Start

(* A report begins when the job has ended, or is abandoned.                *)
LEMMA DisposedStep ==
  ASSUME Values, Stages, WaitIsTrue, VerdictIsTrue, Disposed, [Next]_vars
  PROVE  Disposed'
<1> USE DEF Values, Stages, WaitIsTrue, VerdictIsTrue, Disposed, Abandoned, Places, Ended, Runtimes
<1>1. CASE PayloadInvalid \/ RuntimeStarts \/ RuntimeStartFails
  BY <1>1, StartFailed DEF PayloadInvalid, RuntimeStarts, NotStarted, report,
      world
<1>2. CASE WaitReturns
  BY <1>2, WaitReturned DEF Returned
<1>3. CASE Drained
  BY <1>3 DEF Drained, report, world
<1>4. CASE StopReturns
  BY <1>4, StopReturned DEF Stopped
<1>5. CASE Answered \/ Refused \/ ComplaintAborted
  BY <1>5 DEF Answered, Reporting, Return, Refused, Fault,
      ComplaintAborted, report, world
<1>6. CASE Unanswered
  BY <1>6 DEF Unanswered, Reporting, Return, Fault, report, world
<1>7. CASE LogsEnd \/ LogsBreak
  BY <1>7 DEF LogsEnd, LogsBreak, report, world
<1>8. CASE JobEnds \/ CommandKilled
  BY <1>8 DEF JobEnds, CommandKilled, report, world
<1>9. CASE Deadline \/ Sigterm
  BY <1>9 DEF Deadline, Sigterm, report, world
<1>10. CASE UNCHANGED vars
  BY <1>10 DEF vars, report, world
<1> QED BY <1>1, <1>2, <1>3, <1>4, <1>5, <1>6, <1>7, <1>8, <1>9, <1>10 DEF
      Next, Main, Start

(* The heartbeats begin with the logs and end with processItem.            *)
LEMMA HeldStep ==
  ASSUME Values, Flags, Stages, WaitIsTrue, HeldUntilReported, [Next]_vars
  PROVE  HeldUntilReported'
<1> USE DEF Values, Stages, Flags, HeldUntilReported
<1>1. CASE PayloadInvalid \/ RuntimeStarts \/ RuntimeStartFails
  BY <1>1, StartFailed DEF PayloadInvalid, RuntimeStarts, NotStarted, report,
      world
<1>2. CASE WaitReturns
  BY <1>2, WaitReturned DEF Returned
<1>3. CASE Drained
  BY <1>3 DEF Drained, report, world
<1>4. CASE StopReturns
  BY <1>4, StopReturned DEF Stopped
<1>5. CASE Answered \/ Refused \/ ComplaintAborted
  BY <1>5 DEF Answered, Reporting, Return, Refused, Fault,
      ComplaintAborted, report, world
<1>6. CASE Unanswered
  BY <1>6 DEF Unanswered, Reporting, Return, Fault, report, world
<1>7. CASE LogsEnd \/ LogsBreak
  BY <1>7 DEF LogsEnd, LogsBreak, report, world
<1>8. CASE JobEnds \/ CommandKilled
  BY <1>8 DEF JobEnds, CommandKilled, report, world
<1>9. CASE Deadline \/ Sigterm
  BY <1>9 DEF Deadline, Sigterm, report, world
<1>10. CASE UNCHANGED vars
  BY <1>10 DEF vars, report, world
<1> QED BY <1>1, <1>2, <1>3, <1>4, <1>5, <1>6, <1>7, <1>8, <1>9, <1>10 DEF
      Next, Main, Start

LEMMA Starts == Init => IInv
<1> SUFFICES ASSUME Init PROVE IInv
  OBVIOUS
<1> USE DEF Init
<1>1. Values
  BY DEF Values, Places, Ended, Runtimes
<1>2. Flags
  BY Zenon DEF Flags
<1> QED BY <1>1, <1>2, Halves DEF IInv, Stages, WaitIsTrue, VerdictIsTrue,
           Disposed, TriesLeft, HeldUntilReported

LEMMA Continues == IInv /\ [Next]_vars => IInv'
<1> SUFFICES ASSUME IInv, [Next]_vars PROVE IInv'
  OBVIOUS
<1>1. Values /\ Flags
  BY Halves DEF IInv
<1>2. Values' /\ Flags' /\ TriesLeft'
  BY <1>1, ValuesStep, FlagsStep DEF IInv
<1>3. TypeOK'
  BY <1>2 DEF TypeOK, Values, Flags
<1>4. Stages' /\ WaitIsTrue' /\ VerdictIsTrue'
  BY <1>1, StagesStep, WaitStep, VerdictStep DEF IInv
<1>5. Disposed' /\ HeldUntilReported'
  BY <1>1, DisposedStep, HeldStep DEF IInv
<1> QED BY <1>2, <1>3, <1>4, <1>5 DEF IInv

(* The inductive invariant of processItem.                                 *)
THEOREM Inductive == Spec => []IInv
  BY Starts, Continues, PTL DEF Spec

(* The variables of JobRun keep their types.                               *)
THEOREM TypeCorrect == Spec => []TypeOK
<1>1. IInv => TypeOK
  BY DEF IInv
<1> QED BY <1>1, Inductive, PTL

(* processItem never reports success for a job that did not end well,      *)
(* whatever the runtime, the network and the signals do.                   *)
THEOREM SuccessReported == Spec => []SuccessIsTrue
<1>1. IInv => SuccessIsTrue
  BY DEF IInv, VerdictIsTrue, WaitIsTrue, SuccessIsTrue
<1> QED BY <1>1, Inductive, PTL

(* But for Kubernetes, processItem reports failure only for a job that     *)
(* failed, was ended with its context, or met a fault.                     *)
THEOREM FailureReported == Spec => []FailureIsFounded
<1>1. IInv => FailureIsFounded
  BY DEF IInv, VerdictIsTrue, Founded, FailureIsFounded
<1> QED BY <1>1, Inductive, PTL

(* processItem leaves a job running only where it abandons it.             *)
THEOREM LeftRunning == Spec => []NoneLeftRunning
<1>1. IInv => NoneLeftRunning
  BY DEF IInv, Disposed, NoneLeftRunning
<1> QED BY <1>1, Inductive, PTL

(* The lease is refreshed until the report is over.                        *)
THEOREM LeaseHeld == Spec => []HeldUntilReported
<1>1. IInv => HeldUntilReported
  BY DEF IInv
<1> QED BY <1>1, Inductive, PTL

LEMMA ClaimStep == IInv /\ [Next]_vars => [View!Next]_(View!vars)
<1> SUFFICES ASSUME IInv, [Next]_vars PROVE [View!Next]_(View!vars)
  OBVIOUS
<1> USE DEF View!Next, View!vars, View!Decide, View!Tell, View!GiveUp,
            View!Verdicts
<1> Values /\ Stages /\ VerdictIsTrue
  BY Halves DEF IInv
<1> USE DEF Values, Stages, VerdictIsTrue, Places
<1>1. CASE PayloadInvalid \/ RuntimeStartFails
  BY <1>1 DEF PayloadInvalid, RuntimeStartFails, world
<1>2. CASE RuntimeStarts \/ LogsEnd \/ LogsBreak \/ JobEnds \/ CommandKilled
           \/ Deadline \/ Sigterm
  BY <1>2 DEF RuntimeStarts, LogsEnd, LogsBreak, JobEnds, CommandKilled,
              Deadline, Sigterm, report, world
<1>3. CASE WaitReturns
  BY <1>3 DEF WaitReturns, report
<1>4. CASE Drained
  BY <1>4 DEF Drained, world
<1>5. CASE StopReturns
  BY <1>5 DEF StopReturns, report
<1>6. CASE Answered
  BY <1>6 DEF Answered, Reporting, Return, world
<1>7. CASE Unanswered
  BY <1>7 DEF Unanswered, Reporting, Return
<1>8. CASE Refused
  BY <1>8 DEF Refused, Reporting, Return, report
<1>9. CASE ComplaintAborted
  BY <1>9 DEF ComplaintAborted, Return, world
<1>10. CASE UNCHANGED vars
  BY <1>10 DEF vars, report, world
<1> QED BY <1>1, <1>2, <1>3, <1>4, <1>5, <1>6, <1>7, <1>8, <1>9, <1>10
        DEF Next, Main, Start

(* What the controller is told of an execution is a Claim: one verdict,    *)
(* told while it is held and never revised.                                *)
THEOREM TellsOneVerdict == Spec => KeepsClaim
<1>1. Init => View!Init
  BY DEF Init, View!Init
<1> QED BY <1>1, ClaimStep, Inductive, PTL DEF Spec, KeepsClaim, View!Spec
===============================================================================
