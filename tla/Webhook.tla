-------------------------------- MODULE Webhook --------------------------------
(***************************************************************************)
(* The callbacks of a controller: InternalUpdateResult and triggerWebhook  *)
(* (internal/controller/handlers/executions.go), GetExecutionByID and      *)
(* UpdateCallbackStatus (internal/store/postgres/execution.go), the        *)
(* Dispatcher (internal/controller/webhook/webhook.go) and the shutdown of *)
(* the server.                                                             *)
(*                                                                         *)
(* Every report an InternalUpdateResult accepts starts a goroutine that    *)
(* reads the execution and hands it to the Dispatcher, whose goroutine     *)
(* takes a slot of sem, posts, and writes callback_status.  Both           *)
(* goroutines are one task here.  JobStore models the tables; here a       *)
(* report has just its effect on the row.  Left out: executions without a  *)
(* callback_url (Deliver returns), payload, headers and metrics.           *)
(***************************************************************************)
EXTENDS FiniteSets, Naturals

CONSTANTS
    Execs,          \* executions
    Resubmitted,    \* those made by RetryFromDLQ: callback_headers is NULL
    Tasks,          \* bound: reports accepted
    MaxConcurrent,  \* maxConcurrent, the capacity of sem
    MaxRetries,     \* maxRetries
    MaxFaults       \* bound: queries that fail

ASSUME ExecsAssumption == Execs # {} /\ Resubmitted \subseteq Execs
ASSUME LimitsAssumption == MaxConcurrent \in Nat \ {0} /\ MaxRetries \in Nat
ASSUME FaultsAssumption == MaxFaults \in Nat

VARIABLES
    status,    \* executions.status
    result,    \* whether executions.result is not NULL
    callback,  \* executions.callback_status
    task,      \* per task, its stage, execution, event or outcome, and posts
    server,    \* where the shutdown of the process is
    faults,
    past,      \* history: the outcomes an execution has had
    received,  \* history: the events a receiver has answered with 2xx
    wrote,     \* history: the tasks that have written callback_status
    after      \* history: for each task, those that had when it got its slot

row == <<status, result, callback, past>>
history == <<received, wrote, after>>
vars == <<row, task, server, faults, history>>

Outcomes == {"SUCCEEDED", "FAILED"}
Events == {"execution.completed", "execution.failed"}
Stages == {"none", "trigger", "queued", "posting", "update", "done"}
Results == {"PENDING", "DELIVERED", "FAILED"}

TypeOK ==
    /\ status \in [Execs -> {"RUNNING"} \cup Outcomes]
    /\ result \in [Execs -> BOOLEAN]
    /\ callback \in [Execs -> Results]
    /\ past \in [Execs -> SUBSET Outcomes]
    /\ received \in [Execs -> SUBSET Events]
    /\ wrote \in SUBSET Tasks /\ after \in [Tasks -> SUBSET Tasks]
    /\ task \in [Tasks -> [stage : Stages, exec : Execs,
                           event : Events, outcome : Results,
                           posts : 0..MaxRetries + 1]]
    /\ server \in {"up", "closing", "waiting", "returned", "exited", "forced"}
    /\ faults \in 0..MaxFaults

Init ==
    /\ status = [e \in Execs |-> "RUNNING"]
    /\ result = [e \in Execs |-> FALSE]
    /\ callback = [e \in Execs |-> "PENDING"]
    /\ past = [e \in Execs |-> {}] /\ received = [e \in Execs |-> {}]
    /\ wrote = {} /\ after = [t \in Tasks |-> {}]
    /\ task \in [Tasks -> [stage : {"none"}, exec : {CHOOSE e \in Execs : TRUE},
                           event : {"execution.completed"},
                           outcome : {"PENDING"}, posts : {0}]]
    /\ server = "up" /\ faults = 0

Alive == server \notin {"exited", "forced"}
Fault == faults < MaxFaults /\ faults' = faults + 1
At(t, stage) == Alive /\ task[t].stage = stage
Move(t, stage) == task' = [task EXCEPT ![t].stage = stage]

-------------------------------------------------------------------------------
(* InternalUpdateResult: Complete, or Fail with or without a retry left.   *)
Concludes(e, outcome) ==
    /\ status' = [status EXCEPT ![e] = outcome]
    /\ past' = [past EXCEPT ![e] = @ \cup {outcome}]

InternalUpdateResult(t, e) ==
    /\ server \in {"up", "closing"} /\ task[t].stage = "none"
    /\ \/ Concludes(e, "SUCCEEDED") /\ result' = [result EXCEPT ![e] = TRUE]
       \/ Concludes(e, "FAILED") /\ UNCHANGED result
       \/ status[e] = "RUNNING" /\ UNCHANGED <<status, past, result>>
    /\ task' = [task EXCEPT ![t].stage = "trigger", ![t].exec = e]
    /\ UNCHANGED <<callback, server, faults, history>>

(* Mutant: NULL is read into a json.RawMessage as nil.                     *)
ReadableAlways(e) == TRUE

(* GetExecutionByID scans result and callback_headers into fields of type  *)
(* json.RawMessage, and database/sql refuses to put NULL there.  Only      *)
(* Complete writes result; the worker sends it as JSON null at least.      *)
Readable(e) == result[e] /\ e \notin Resubmitted

(* buildPayload                                                            *)
EventOf(s) == IF s = "FAILED" THEN "execution.failed" ELSE "execution.completed"

(* Deliver adds to wg and starts the goroutine, which fixes the payload:   *)
(* of the row nothing is read later.                                       *)
TriggerWebhook(t) ==
    /\ At(t, "trigger")
    /\ \/ /\ Readable(task[t].exec)
          /\ task' = [task EXCEPT ![t].stage = "queued",
                                  ![t].event = EventOf(status[task[t].exec])]
          /\ UNCHANGED faults
       \/ ~Readable(task[t].exec) /\ Move(t, "done") /\ UNCHANGED faults
    /\ UNCHANGED <<row, server, history>>

TriggerFails(t) ==
    /\ At(t, "trigger") /\ Fault
    /\ Move(t, "done")
    /\ UNCHANGED <<row, server, history>>

-------------------------------------------------------------------------------
(* A slot is held while posting, waiting to retry and updating.            *)
Holders == {t \in Tasks : task[t].stage \in {"posting", "update"}}

(* Mutant: the slot is not given back.                                     *)
AcquireSlotForGood(t) ==
    /\ At(t, "queued")
    /\ Cardinality(Holders \cup {u \in Tasks : task[u].outcome # "PENDING"})
         < MaxConcurrent
    /\ Move(t, "posting")
    /\ after' = [after EXCEPT ![t] = wrote]
    /\ UNCHANGED <<row, server, faults, received, wrote>>

AcquireSlot(t) ==
    /\ At(t, "queued") /\ Cardinality(Holders) < MaxConcurrent
    /\ Move(t, "posting")
    /\ after' = [after EXCEPT ![t] = wrote]
    /\ UNCHANGED <<row, server, faults, received, wrote>>

(* doPost: a 2xx response                                                  *)
PostAccepted(t) ==
    /\ At(t, "posting")
    /\ task' = [task EXCEPT ![t].stage = "update", ![t].outcome = "DELIVERED",
                            ![t].posts = @ + 1]
    /\ received' = [received EXCEPT ![task[t].exec] = @ \cup {task[t].event}]
    /\ UNCHANGED <<row, server, faults, wrote, after>>

(* doPost: no response, 5xx or 429                                         *)
PostFails(t) ==
    /\ At(t, "posting")
    /\ IF task[t].posts < MaxRetries
         THEN task' = [task EXCEPT ![t].posts = @ + 1]
         ELSE task' = [task EXCEPT ![t].stage = "update", ![t].posts = @ + 1,
                                   ![t].outcome = "FAILED"]
    /\ UNCHANGED <<row, server, faults, history>>

(* doPost: any other response                                              *)
PostRefused(t) ==
    /\ At(t, "posting")
    /\ task' = [task EXCEPT ![t].stage = "update", ![t].posts = @ + 1,
                            ![t].outcome = "FAILED"]
    /\ UNCHANGED <<row, server, faults, history>>

(* Mutant: only a callback_status that is still PENDING is replaced.       *)
UpdateCallbackStatusOnce(t) ==
    /\ At(t, "update")
    /\ Move(t, "done")
    /\ callback' = [callback EXCEPT ![task[t].exec] =
                      IF @ = "PENDING" THEN task[t].outcome ELSE @]
    /\ wrote' = wrote \cup {t}
    /\ UNCHANGED <<status, result, past, server, faults, received, after>>

(* The row is overwritten, whatever another delivery has written there.    *)
UpdateCallbackStatus(t) ==
    /\ At(t, "update")
    /\ Move(t, "done")
    /\ \/ /\ callback' = [callback EXCEPT ![task[t].exec] = task[t].outcome]
          /\ wrote' = wrote \cup {t}
          /\ UNCHANGED faults
       \/ Fault /\ UNCHANGED <<callback, wrote>>
    /\ UNCHANGED <<status, result, past, server, received, after>>

-------------------------------------------------------------------------------
(* The shutdown: httpServer.Shutdown waits for the handlers, not for the   *)
(* goroutines they started; Dispatcher.Shutdown waits for wg; main exits.  *)
Moves(from, to) ==
    /\ server = from /\ server' = to
    /\ UNCHANGED <<row, task, faults, history>>

Shutdown == Moves("up", "closing")
HandlersReturn == Moves("closing", "waiting")

InFlight == {t \in Tasks : task[t].stage \in {"queued", "posting", "update"}}

DispatcherShutdown == InFlight = {} /\ Moves("waiting", "returned")
MainReturns == Moves("returned", "exited")

(* The five seconds of main are over.                                      *)
ShutdownTimesOut == Moves("closing", "forced") \/ Moves("waiting", "forced")

Task(t) ==
    \/ TriggerWebhook(t) \/ AcquireSlot(t)
    \/ PostAccepted(t) \/ PostFails(t) \/ PostRefused(t)
    \/ UpdateCallbackStatus(t)

Server ==
    \/ Shutdown \/ HandlersReturn \/ DispatcherShutdown \/ MainReturns
    \/ ShutdownTimesOut

Next ==
    \/ \E t \in Tasks, e \in Execs : InternalUpdateResult(t, e)
    \/ \E t \in Tasks : Task(t) \/ TriggerFails(t)
    \/ Server

Spec == Init /\ [][Next]_vars

(* Goroutines run, senders on a full channel are served in turn, and every *)
(* post has an answer or a time-out.                                       *)
FairSpec == Spec /\ \A t \in Tasks : SF_vars(Task(t))

-------------------------------------------------------------------------------
(* A receiver hears execution.completed only of an execution that          *)
(* succeeded and execution.failed only of one that failed.  buildPayload   *)
(* names every status but FAILED "completed", and a report that leads to a *)
(* retry triggers a callback too: it is stopped because such a row cannot  *)
(* be read.                                                                *)
EventsAreTrue ==
    \A e \in Execs, s \in Outcomes :
        EventOf(s) \in received[e] => s \in past[e]

(* Of the deliveries of one execution the last decides callback_status:    *)
(* it is the outcome of one that no other has followed, begun when it was  *)
(* over; of two that overlap either may decide.  DELIVERED is written only *)
(* if the receiver has accepted an event.                                  *)
Deliveries(e) == {t \in wrote : task[t].exec = e}

Decides(t, e) ==
    /\ callback[e] = task[t].outcome
    /\ \A u \in Deliveries(e) : t \notin after[u]

LastDecides ==
    \A e \in Execs :
        /\ callback[e] = "DELIVERED" => received[e] # {}
        /\ IF Deliveries(e) = {} THEN callback[e] = "PENDING"
           ELSE \E t \in Deliveries(e) : Decides(t, e)

(* The callback of an execution that succeeded is concluded, however slow  *)
(* or broken the receivers of others are, unless the controller stops.     *)
SuccessAnswered ==
    \A e \in Execs \ Resubmitted :
        status[e] = "SUCCEEDED" ~>
            callback[e] # "PENDING" \/ server # "up" \/ faults > 0

-------------------------------------------------------------------------------
(* What the documentation says and the code does not keep.                 *)

(* api.go: the event is execution.completed or execution.failed.  A FAILED *)
(* execution with no result cannot be read, so its event is never sent.    *)
FailureAnswered ==
    \A e \in Execs \ Resubmitted :
        status[e] = "FAILED" ~>
            callback[e] # "PENDING" \/ server # "up" \/ faults > 0
===============================================================================
