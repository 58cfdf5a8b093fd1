--------------------------------- MODULE JobRun --------------------------------
(***************************************************************************)
(* One execution on a worker: processItem of internal/worker/agent.go, the *)
(* goroutines runHeartbeat and streamLogs it starts, doWithRetry, and the  *)
(* handles of the three runtimes in internal/worker/runtime.               *)
(*                                                                         *)
(* execContext is derived from the context of Run (through the span        *)
(* context), so SIGTERM cancels it; logs are streamed under the context of *)
(* Run, reports are sent under context.Background().                       *)
(* Left out: lines of output, result.json, metrics and spans.              *)
(***************************************************************************)
EXTENDS Naturals

CONSTANTS
    MaxTries,    \* doWithRetry sends a request 1 + maxRetries times
    MaxFaults    \* bound: failures of the network, the daemon or the cluster

ASSUME TriesAssumption == MaxTries \in Nat \ {0}
ASSUME FaultsAssumption == MaxFaults \in Nat

VARIABLES
    runtime,   \* the runtime, chosen when the worker starts
    main,      \* where processItem is
    job,       \* the process, container or pod
    context,   \* execContext.Err()
    sigterm,   \* the context of Run is cancelled
    logs,      \* the goroutine of streamLogs
    heart,     \* whether runHeartbeat ticks
    waited,    \* what handle.Wait returned: an exit code or an error
    verdict,   \* what is reported, "ok" for exit code 0 and no error
    told,      \* the last report InternalUpdateResult received
    tries,     \* requests for the report that failed
    faults

report == <<verdict, told, tries>>
world == <<runtime, sigterm, faults>>
vars == <<main, job, context, logs, heart, waited, report, world>>

Runtimes == {"exec", "docker", "kubernetes"}
Places == {"start", "complain", "wait", "drain", "stop", "report", "done"}
Ended == {"ok", "bad", "killed"}

TypeOK ==
    /\ main \in Places
    /\ job \in {"none", "running"} \cup Ended
    /\ context \in {"open", "deadline", "cancelled"}
    /\ logs \in {"off", "following", "ended"}
    /\ waited \in {"none", "ok", "bad", "error"}
    /\ verdict \in {"none", "ok", "bad"} /\ told \in {"none", "ok", "bad"}
    /\ tries \in 0..MaxTries /\ faults \in 0..MaxFaults
    /\ runtime \in Runtimes /\ heart \in BOOLEAN /\ sigterm \in BOOLEAN

Init ==
    /\ main = "start" /\ job = "none" /\ context = "open"
    /\ logs = "off" /\ heart = FALSE /\ waited = "none"
    /\ verdict = "none" /\ told = "none" /\ tries = 0
    /\ runtime \in Runtimes /\ sigterm = FALSE /\ faults = 0

Fault == faults < MaxFaults /\ faults' = faults + 1

-------------------------------------------------------------------------------
(* Neither form of payload unmarshals: reported under the context of Run.  *)
PayloadInvalid ==
    /\ main = "start"
    /\ main' = "complain" /\ verdict' = "bad"
    /\ UNCHANGED <<job, context, logs, heart, waited, told, tries, world>>

RuntimeStarts ==
    /\ main = "start" /\ context = "open"
    /\ main' = "wait" /\ job' = "running"
    /\ logs' = "following" /\ heart' = TRUE
    /\ UNCHANGED <<context, waited, report, world>>

(* Start of the exec runtime undoes what it did when a step of it fails.   *)
ExecStartFails == UNCHANGED <<job, faults>>

(* A request that is abandoned because the context ended, or whose answer  *)
(* is lost, may have been carried out: of the requests to Docker (pull,    *)
(* create, start) the last matters, of those to Kubernetes the only one.   *)
Unconfirmed ==
    \/ context # "open" /\ UNCHANGED faults
    \/ Fault

DockerStartFails ==
    \/ UNCHANGED <<job, faults>>
    \/ Unconfirmed /\ job' = "running"

KubernetesStartFails ==
    \/ UNCHANGED <<job, faults>>
    \/ Unconfirmed /\ job' = "running"

RuntimeStartFails ==
    /\ main = "start"
    /\ CASE runtime = "exec" -> ExecStartFails
         [] runtime = "docker" -> DockerStartFails
         [] runtime = "kubernetes" -> KubernetesStartFails
    /\ main' = "report" /\ verdict' = "bad"
    /\ UNCHANGED <<context, logs, heart, waited, told, tries, runtime, sigterm>>

JobEnds ==
    /\ job = "running"
    /\ job' \in {"ok", "bad"}
    /\ UNCHANGED <<main, context, logs, heart, waited, report, world>>

Deadline ==
    /\ context = "open" /\ main \in {"start", "wait", "drain"}
    /\ context' = "deadline"
    /\ UNCHANGED <<main, job, logs, heart, waited, report, world>>

Sigterm ==
    /\ ~sigterm /\ sigterm' = TRUE
    /\ context' = IF context = "open" THEN "cancelled" ELSE context
    /\ UNCHANGED <<main, job, logs, heart, waited, report, runtime, faults>>

-------------------------------------------------------------------------------
(* handle.Wait                                                             *)

(* exec.CommandContext kills the process when its context ends.            *)
CommandKilled ==
    /\ runtime = "exec" /\ context # "open" /\ job = "running"
    /\ job' = "killed"
    /\ UNCHANGED <<main, context, logs, heart, waited, report, world>>

(* cmd.Wait reports a process that ended well while it was being killed    *)
(* either way; any other end after the context's is an error.              *)
ExecWaits ==
    /\ job \in Ended
    /\ \/ waited' = job /\ (context = "open" \/ job = "ok")
       \/ waited' = "error" /\ context # "open"
    /\ UNCHANGED faults

(* Mutant: the exit code is read before the container has exited.          *)
DockerWaitsAtOnce ==
    \/ job # "none" /\ waited' \in {"ok", "bad"} /\ UNCHANGED faults
    \/ waited' = "error" /\ context # "open" /\ UNCHANGED faults
    \/ waited' = "error" /\ Fault

(* A select among the exit status, the client's errors and the context.    *)
DockerWaits ==
    \/ job \in {"ok", "bad"} /\ waited' = job /\ UNCHANGED faults
    \/ waited' = "error" /\ context # "open" /\ UNCHANGED faults
    \/ waited' = "error" /\ Fault

(* The watch ends with the pod, with the context, with an error event, or  *)
(* because the API server closes it, as it does with every watch some      *)
(* time: then Wait returns exit code -1 and no error.                      *)
KubernetesWaits ==
    \/ job \in {"ok", "bad"} /\ waited' = job /\ UNCHANGED faults
    \/ waited' = "error" /\ context # "open" /\ UNCHANGED faults
    \/ waited' = "bad" /\ context = "open" /\ UNCHANGED faults
    \/ waited' = "error" /\ Fault

(* Mutant: the heartbeats end with Wait.                                   *)
WaitReturnsSilent ==
    /\ main = "wait"
    /\ CASE runtime = "exec" -> ExecWaits
         [] runtime = "docker" -> DockerWaits
         [] runtime = "kubernetes" -> KubernetesWaits
    /\ main' = "drain" /\ heart' = FALSE
    /\ UNCHANGED <<job, context, logs, report, runtime, sigterm>>

WaitReturns ==
    /\ main = "wait"
    /\ CASE runtime = "exec" -> ExecWaits
         [] runtime = "docker" -> DockerWaits
         [] runtime = "kubernetes" -> KubernetesWaits
    /\ main' = "drain"
    /\ UNCHANGED <<job, context, logs, heart, report, runtime, sigterm>>

-------------------------------------------------------------------------------
(* Mutant: the stream is followed until the worker shuts down.             *)
LogsEndLate ==
    /\ logs = "following" /\ sigterm
    /\ logs' = "ended"
    /\ UNCHANGED <<main, job, context, heart, waited, report, world>>

(* streamLogs returns when the stream is at its end: a followed stream when *)
(* the job has ended, the pipes of a command also when cmd.Wait has closed *)
(* them; when the context of Run is cancelled; when the stream breaks.     *)
LogsEnd ==
    /\ logs = "following"
    /\ job \in Ended \/ sigterm \/ (runtime = "exec" /\ main # "wait")
    /\ logs' = "ended"
    /\ UNCHANGED <<main, job, context, heart, waited, report, world>>

(* A line longer than the buffer of the Scanner ends the stream as well.   *)
LogsBreak ==
    /\ logs = "following"
    /\ logs' = "ended"
    /\ UNCHANGED <<main, job, context, heart, waited, report, world>>

(* Mutants: a time-out is reported without Stop; the error of Wait is not  *)
(* looked at.                                                              *)
DrainedUnstopped ==
    /\ main = "drain" /\ logs = "ended"
    /\ verdict' = IF waited = "ok" THEN "ok" ELSE "bad"
    /\ main' = "report"
    /\ UNCHANGED <<job, context, logs, heart, waited, told, tries, world>>

DrainedBlindly ==
    /\ main = "drain" /\ logs = "ended"
    /\ verdict' = IF waited \in {"ok", "error"} THEN "ok" ELSE "bad"
    /\ main' = IF waited = "error" /\ context = "deadline" THEN "stop" ELSE "report"
    /\ UNCHANGED <<job, context, logs, heart, waited, told, tries, world>>

(* wg.Wait returns, and processItem looks at what Wait returned.           *)
Drained ==
    /\ main = "drain" /\ logs = "ended"
    /\ verdict' = IF waited = "ok" THEN "ok" ELSE "bad"
    /\ main' = IF waited = "error" /\ context = "deadline" THEN "stop" ELSE "report"
    /\ UNCHANGED <<job, context, logs, heart, waited, told, tries, world>>

Killed == job' = IF job = "running" THEN "killed" ELSE job

(* Stop of the three runtimes: the process has ended already; the          *)
(* container is stopped, or killed after five seconds; the deletion of the *)
(* pod is accepted and will be carried out.  A request may fail.           *)
ExecStops == Killed /\ UNCHANGED faults
DockerStops ==
    \/ Killed /\ UNCHANGED faults
    \/ Fault /\ UNCHANGED job
KubernetesStops ==
    \/ Killed /\ UNCHANGED faults
    \/ Fault /\ UNCHANGED job

StopReturns ==
    /\ main = "stop"
    /\ CASE runtime = "exec" -> ExecStops
         [] runtime = "docker" -> DockerStops
         [] runtime = "kubernetes" -> KubernetesStops
    /\ main' = "report"
    /\ UNCHANGED <<context, logs, heart, waited, report, runtime, sigterm>>

-------------------------------------------------------------------------------
(* doWithRetry with the report.                                            *)
Reporting == main \in {"complain", "report"}

(* processItem returns; its deferred calls end the heartbeats and clean up. *)
Return == main' = "done" /\ heart' = FALSE

Answered ==
    /\ Reporting
    /\ told' = verdict
    /\ Return
    /\ UNCHANGED <<job, context, logs, waited, verdict, tries, world>>

(* No response, or a 5xx one, whether or not the controller acted on it.   *)
Unanswered ==
    /\ Reporting /\ Fault
    /\ told' \in {told, verdict}
    /\ tries' = tries + 1
    /\ IF tries' = MaxTries THEN Return ELSE UNCHANGED <<main, heart>>
    /\ UNCHANGED <<job, context, logs, waited, verdict, runtime, sigterm>>

(* Mutant: a refused report is sent as a failure.                          *)
RefusedTwice ==
    /\ Reporting /\ Fault
    /\ verdict' = "bad"
    /\ UNCHANGED <<main, job, context, logs, heart, waited, told, tries, runtime, sigterm>>

(* A 4xx response ends the attempts.                                       *)
Refused ==
    /\ Reporting /\ Fault
    /\ Return
    /\ UNCHANGED <<job, context, logs, waited, report, runtime, sigterm>>

ComplaintAborted ==
    /\ main = "complain" /\ sigterm
    /\ told' \in {told, verdict}
    /\ Return
    /\ UNCHANGED <<job, context, logs, waited, verdict, tries, world>>

Start == PayloadInvalid \/ RuntimeStarts \/ RuntimeStartFails
Main == Start \/ WaitReturns \/ Drained \/ StopReturns \/ Answered

Next ==
    \/ Main \/ Unanswered \/ Refused \/ ComplaintAborted
    \/ LogsEnd \/ LogsBreak \/ CommandKilled
    \/ JobEnds \/ Deadline \/ Sigterm

Spec == Init /\ [][Next]_vars

(* The worker's goroutines run, the timer of the context fires and the     *)
(* operating system carries out the kill.  Jobs need not end.              *)
FairSpec ==
    Spec /\ WF_vars(Main) /\ WF_vars(LogsEnd) /\ WF_vars(CommandKilled)
         /\ WF_vars(Deadline)

(* Jobs in containers and pods end by themselves, processes need not.      *)
EndingSpec == FairSpec /\ WF_vars(runtime # "exec" /\ JobEnds)

-------------------------------------------------------------------------------
(* Success is reported only for a job that ended well.                     *)
SuccessIsTrue == told = "ok" => job = "ok"

(* Failure is reported only for a job that failed or was ended with its    *)
(* context, unless something broke.  Not so on Kubernetes, where Wait      *)
(* returns an exit code when the API server closes the watch.              *)
FailureIsFounded ==
    runtime # "kubernetes" /\ told = "bad" =>
        job \in {"none", "bad"} \/ context # "open" \/ faults > 0

(* No job is left running by a worker that is done with it: except on      *)
(* Docker and Kubernetes when the context ended during Start or by         *)
(* SIGTERM (nobody stops the container), and on Kubernetes after a watch   *)
(* that was closed.                                                        *)
Abandoned ==
    \/ runtime # "exec" /\ context = "cancelled"
    \/ runtime # "exec" /\ context # "open" /\ waited = "none"
    \/ runtime = "kubernetes" /\ waited = "bad"

NoneLeftRunning == main = "done" /\ job = "running" => Abandoned \/ faults > 0

(* The lease is kept alive for as long as the outcome is not reported,     *)
(* however long draining, stopping and retrying take, and no longer.       *)
HeldUntilReported == logs # "off" => (heart <=> main # "done")

(* What the controller is told is a Claim: one verdict, never revised.     *)
View == INSTANCE Claim
    WITH claim <- CASE main = "done" -> "left"
                    [] main \in {"report", "complain"} -> verdict
                    [] OTHER -> "running",
         heard <- told

KeepsClaim == View!Spec

(* The slot of the execution becomes free again, although processItem      *)
(* waits for the logs and the logs for the job: a process dies at its time *)
(* limit whatever it does, a container has to end by itself.               *)
Returns == main = "wait" ~> main = "done"

-------------------------------------------------------------------------------
(* What the documentation says and the code does not keep.                 *)

(* README: hard deadlines.  On Docker processItem stops the container only *)
(* after its log stream has ended, which it does when the container has.   *)
HardDeadline == context = "deadline" /\ job = "running" ~> job # "running"

(* agent.go: the context of a job does not depend on SIGTERM, its job      *)
(* completes.  The context is derived from the one SIGTERM cancels.        *)
SigtermSparesJobs == job = "killed" => context = "deadline"
===============================================================================
