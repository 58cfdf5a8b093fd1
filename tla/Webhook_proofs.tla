----------------------------- MODULE Webhook_proofs ----------------------------
(***************************************************************************)
(* Proofs about callbacks, for any number of executions, reports and slots *)
(* and any number of retries.  What a receiver hears was fixed when a task *)
(* read the row; the inductive invariant carries the truth of the row into *)
(* the task, and the answer of the receiver into callback_status.          *)
(***************************************************************************)
EXTENDS Webhook, TLAPS

(* A row tells what happened: only Complete writes result, and a status is *)
(* an outcome the execution has had.                                       *)
RowIsTrue ==
    \A e \in Execs :
        /\ result[e] => "SUCCEEDED" \in past[e]
        /\ status[e] \in Outcomes => status[e] \in past[e]

(* The event of e, if it is true, has this outcome behind it.              *)
Happened(e, event) == \A s \in Outcomes : EventOf(s) = event => s \in past[e]

(* A task carries the event of its execution from the row to the receiver. *)
Carries(t) ==
    task[t].stage \in {"queued", "posting"}
        => Happened(task[t].exec, task[t].event)

(* The outcome of a task is DELIVERED only if the receiver answered.       *)
Answered(t) ==
    task[t].outcome = "DELIVERED" => received[task[t].exec] # {}

(* A task that has not reached the row has no outcome, and posts are left. *)
UnderWay(t) ==
    task[t].stage \in {"none", "trigger", "queued", "posting"}
        => task[t].outcome = "PENDING" /\ task[t].posts <= MaxRetries

EventCarried == \A t \in Tasks : Carries(t)
OutcomeIsTrue == \A t \in Tasks : Answered(t)
Untouched == \A t \in Tasks : UnderWay(t)

(* What has written is over, and was before what began after it.           *)
WritesAreOver ==
    /\ \A t \in wrote : task[t].stage = "done"
    /\ \A t \in Tasks : after[t] \subseteq wrote

IInv ==
    /\ TypeOK /\ RowIsTrue /\ EventCarried /\ OutcomeIsTrue /\ Untouched
    /\ WritesAreOver /\ EventsAreTrue /\ LastDecides

USE ExecsAssumption, LimitsAssumption, FaultsAssumption
USE DEF ExecsAssumption, LimitsAssumption, FaultsAssumption

(* The type of a task, and that a task keeps it when it is given a report. *)
TaskType == [stage : Stages, exec : Execs, event : Events,
             outcome : Results, posts : 0..MaxRetries + 1]

LEMMA Assigned ==
  ASSUME NEW S, NEW X, NEW V, NEW O, NEW P,
         NEW r \in [stage : S, exec : X, event : V, outcome : O, posts : P],
         NEW s \in S, NEW e \in X
  PROVE  [r EXCEPT !.stage = s, !.exec = e]
           \in [stage : S, exec : X, event : V, outcome : O, posts : P]
  OBVIOUS

LEMMA AssignedTask ==
  ASSUME NEW r \in TaskType, NEW e \in Execs
  PROVE  [r EXCEPT !.stage = "trigger", !.exec = e] \in TaskType
<1>1. "trigger" \in Stages
  BY DEF Stages
<1> QED BY <1>1, Assigned DEF TaskType

(* So it does when its event is fixed.                                     *)
LEMMA QueuedTask ==
  ASSUME NEW r \in TaskType, NEW v \in Events
  PROVE  [r EXCEPT !.stage = "queued", !.event = v] \in TaskType
<1>1. "queued" \in Stages
  BY DEF Stages
<1> QED BY <1>1 DEF TaskType

(* A step of a task keeps the types if these are of theirs.                *)
LEMMA TypeKept ==
  ASSUME TypeOK, UNCHANGED <<status, result, past, server>>,
         task' \in [Tasks -> TaskType], callback' \in [Execs -> Results],
         received' \in [Execs -> SUBSET Events],
         wrote' \in SUBSET Tasks, after' \in [Tasks -> SUBSET Tasks],
         faults' \in 0..MaxFaults
  PROVE  TypeOK'
<1>1. UNCHANGED result
  BY Zenon
<1>2. result' \in [Execs -> BOOLEAN]
  BY <1>1, Zenon DEF TypeOK
<1> QED BY <1>2 DEF TypeOK, TaskType

LEMMA TypeStep == TypeOK /\ Untouched /\ [Next]_vars => TypeOK'
<1> SUFFICES ASSUME TypeOK, Untouched, [Next]_vars PROVE TypeOK'
  OBVIOUS
<1> USE DEF TypeOK, row, history, Outcomes, Stages, Results
<1>1. ASSUME NEW t \in Tasks, NEW e \in Execs, InternalUpdateResult(t, e)
      PROVE  TypeOK'
  <2>1. result' \in [Execs -> BOOLEAN]
    <3>1. result' = result \/ result' = [result EXCEPT ![e] = TRUE]
      BY <1>1 DEF InternalUpdateResult
    <3> QED BY <3>1, Zenon
  <2>2. status' \in [Execs -> {"RUNNING"} \cup Outcomes]
    BY <1>1 DEF InternalUpdateResult, Concludes
  <2>3. past' \in [Execs -> SUBSET Outcomes]
    BY <1>1 DEF InternalUpdateResult, Concludes
  <2>4. task' \in [Tasks -> [stage : Stages, exec : Execs, event : Events,
                            outcome : Results, posts : 0..MaxRetries + 1]]
    <3> DEFINE new == [task[t] EXCEPT !.stage = "trigger", !.exec = e]
    <3>1. task' = [task EXCEPT ![t] = new]
      BY <1>1 DEF InternalUpdateResult
    <3>2. task[t] \in TaskType
      BY DEF TaskType
    <3>3. new \in TaskType
      BY <3>2, AssignedTask
    <3> HIDE DEF new
    <3> QED BY <3>1, <3>3 DEF TaskType
  <2> QED BY <1>1, <2>1, <2>2, <2>3, <2>4 DEF InternalUpdateResult
<1>2. ASSUME NEW t \in Tasks, TriggerWebhook(t) \/ TriggerFails(t)
      PROVE  TypeOK'
  <2>1. task' \in [Tasks -> TaskType]
    <3>1. task[t] \in TaskType /\ EventOf(status[task[t].exec]) \in Events
      BY DEF TaskType, EventOf, Events
    <3>2. CASE Move(t, "done")
      BY <3>2 DEF Move, TaskType
    <3>3. CASE task' = [task EXCEPT ![t].stage = "queued",
                                    ![t].event = EventOf(status[task[t].exec])]
      <4> DEFINE new == [task[t] EXCEPT !.stage = "queued",
                                        !.event = EventOf(status[task[t].exec])]
      <4>1. task' = [task EXCEPT ![t] = new]
        BY <3>3
      <4>2. new \in TaskType
        BY <3>1, QueuedTask
      <4> HIDE DEF new
      <4> QED BY <4>1, <4>2 DEF TaskType
    <3> QED BY <1>2, <3>2, <3>3 DEF TriggerWebhook, TriggerFails
  <2>2. faults' \in 0..MaxFaults /\ UNCHANGED <<row, server, history>>
    BY <1>2 DEF TriggerWebhook, TriggerFails, Fault
  <2> QED BY <2>1, <2>2, TypeKept
<1>3. ASSUME NEW t \in Tasks, AcquireSlot(t) PROVE TypeOK'
  <2>1. task' \in [Tasks -> TaskType]
    BY <1>3 DEF AcquireSlot, Move, TaskType
  <2>2. /\ after' \in [Tasks -> SUBSET Tasks]
        /\ UNCHANGED <<row, server, faults, received, wrote>>
    BY <1>3 DEF AcquireSlot
  <2> QED BY <2>1, <2>2, TypeKept
<1>4. ASSUME NEW t \in Tasks, PostAccepted(t) PROVE TypeOK'
  <2>1. task' \in [Tasks -> TaskType]
    BY <1>4 DEF PostAccepted, At, Untouched, UnderWay, TaskType
  <2>2. /\ received' \in [Execs -> SUBSET Events]
        /\ UNCHANGED <<row, server, faults, wrote, after>>
    BY <1>4 DEF PostAccepted
  <2> QED BY <2>1, <2>2, TypeKept
<1>5. ASSUME NEW t \in Tasks, PostFails(t) \/ PostRefused(t) PROVE TypeOK'
  <2>1. task[t].posts + 1 \in 0..MaxRetries + 1
    BY <1>5 DEF PostFails, PostRefused, At, Untouched, UnderWay
  <2>2. task' \in [Tasks -> TaskType]
    BY <1>5, <2>1 DEF PostFails, PostRefused, TaskType
  <2>3. UNCHANGED <<row, server, faults, history>>
    BY <1>5 DEF PostFails, PostRefused
  <2> QED BY <2>2, <2>3, TypeKept
<1>6. ASSUME NEW t \in Tasks, UpdateCallbackStatus(t) PROVE TypeOK'
  <2>1. task' \in [Tasks -> TaskType]
    BY <1>6 DEF UpdateCallbackStatus, Move, TaskType
  <2>2. /\ callback' \in [Execs -> Results] /\ wrote' \in SUBSET Tasks
        /\ faults' \in 0..MaxFaults
        /\ UNCHANGED <<status, result, past, server, received, after>>
    BY <1>6 DEF UpdateCallbackStatus, Fault
  <2> QED BY <2>1, <2>2, TypeKept
<1>7. CASE Server
  BY <1>7 DEF Server, Shutdown, HandlersReturn, DispatcherShutdown,
      MainReturns, ShutdownTimesOut, Moves
<1>8. CASE UNCHANGED vars
  BY <1>8 DEF vars
<1> QED BY <1>1, <1>2, <1>3, <1>4, <1>5, <1>6, <1>7, <1>8 DEF Next, Task

(* What an execution has been only grows, and with it what happened.       *)
LEMMA HistoryGrows ==
  ASSUME TypeOK, [Next]_vars
  PROVE  \A e \in Execs : past[e] \subseteq past'[e] /\ received[e] \subseteq received'[e]
<1> USE DEF TypeOK
<1>1. ASSUME NEW t \in Tasks, NEW e \in Execs, InternalUpdateResult(t, e)
      PROVE  \A x \in Execs :
               past[x] \subseteq past'[x] /\ received[x] \subseteq received'[x]
  BY <1>1 DEF InternalUpdateResult, Concludes, history
<1>2. ASSUME NEW t \in Tasks, PostAccepted(t)
      PROVE  \A x \in Execs :
               past[x] \subseteq past'[x] /\ received[x] \subseteq received'[x]
  BY <1>2 DEF PostAccepted, row
<1>3. ASSUME UNCHANGED <<past, received>>
      PROVE  \A x \in Execs :
               past[x] \subseteq past'[x] /\ received[x] \subseteq received'[x]
  BY <1>3
<1>4. ASSUME NEW t \in Tasks,
             \/ TriggerWebhook(t) \/ TriggerFails(t) \/ AcquireSlot(t)
             \/ PostFails(t) \/ PostRefused(t) \/ UpdateCallbackStatus(t)
      PROVE  UNCHANGED <<past, received>>
  BY <1>4 DEF TriggerWebhook, TriggerFails, AcquireSlot, PostFails,
      PostRefused, UpdateCallbackStatus, row, history
<1>5. Server \/ UNCHANGED vars => UNCHANGED <<past, received>>
  BY DEF Server, Shutdown, HandlersReturn, DispatcherShutdown,
      MainReturns, ShutdownTimesOut, Moves, vars, row, history
<1> QED BY <1>1, <1>2, <1>3, <1>4, <1>5 DEF Next, Task

LEMMA RowStep == TypeOK /\ RowIsTrue /\ [Next]_vars => RowIsTrue'
<1> SUFFICES ASSUME TypeOK, RowIsTrue, [Next]_vars PROVE RowIsTrue'
  OBVIOUS
<1>1. ASSUME NEW t \in Tasks, NEW e \in Execs, InternalUpdateResult(t, e),
             NEW x \in Execs
      PROVE  /\ result'[x] => "SUCCEEDED" \in past'[x]
             /\ status'[x] \in Outcomes => status'[x] \in past'[x]
  <2> USE DEF TypeOK, RowIsTrue, Outcomes
  <2>1. CASE Concludes(e, "SUCCEEDED") /\ result' = [result EXCEPT ![e] = TRUE]
    <3>1. CASE x = e
      BY <2>1, <3>1 DEF Concludes
    <3>2. CASE x # e
      BY <2>1, <3>2 DEF Concludes
    <3> QED BY <3>1, <3>2
  <2>2. CASE Concludes(e, "FAILED") /\ UNCHANGED result
    <3>1. CASE x = e
      BY <2>2, <3>1 DEF Concludes
    <3>2. CASE x # e
      BY <2>2, <3>2 DEF Concludes
    <3> QED BY <3>1, <3>2
  <2>3. CASE UNCHANGED <<status, past, result>>
    BY <2>3
  <2> QED BY <1>1, <2>1, <2>2, <2>3 DEF InternalUpdateResult
<1>2. ASSUME NEW t \in Tasks, NEW e \in Execs, InternalUpdateResult(t, e)
      PROVE  RowIsTrue'
  BY <1>1, <1>2 DEF RowIsTrue
<1>3. UNCHANGED <<status, result, past>> => RowIsTrue'
  BY DEF RowIsTrue
<1>4. ASSUME NEW t \in Tasks, Task(t) \/ TriggerFails(t)
      PROVE  UNCHANGED <<status, result, past>>
  BY <1>4, Zenon DEF Task, TriggerWebhook, TriggerFails, AcquireSlot,
      PostAccepted, PostFails, PostRefused, UpdateCallbackStatus, row
<1>5. Server \/ UNCHANGED vars => UNCHANGED <<status, result, past>>
  BY Zenon DEF Server, Shutdown, HandlersReturn, DispatcherShutdown,
      MainReturns, ShutdownTimesOut, Moves, vars, row
<1> QED BY <1>2, <1>3, <1>4, <1>5 DEF Next

(* A row that can be read, of an execution that has any status, names an   *)
(* event that happened.                                                    *)
LEMMA ReadIsTrue ==
  ASSUME TypeOK, RowIsTrue, NEW e \in Execs, Readable(e)
  PROVE  Happened(e, EventOf(status[e]))
<1>1. "SUCCEEDED" \in past[e]
  BY Zenon DEF Readable, RowIsTrue
<1>2. status[e] = "FAILED" => "FAILED" \in past[e]
  BY Zenon DEF RowIsTrue, Outcomes
<1>3. status[e] \in {"RUNNING", "SUCCEEDED", "FAILED"}
  BY DEF TypeOK, Outcomes
<1> QED BY <1>1, <1>2, <1>3 DEF Happened, EventOf, Outcomes

(* The shutdown touches no task and no row.                                *)
LEMMA ServerStep ==
  ASSUME Server \/ UNCHANGED vars
  PROVE  UNCHANGED <<status, result, callback, past, received, wrote, after, task>>
  BY Zenon DEF Server, Shutdown, HandlersReturn, DispatcherShutdown,
      MainReturns, ShutdownTimesOut, Moves, vars, row, history

(* A step of one task leaves the others as they are.                       *)
LEMMA OneTaskMoves ==
  ASSUME TypeOK, NEW t \in Tasks, NEW u \in Tasks, u # t,
         \/ \E e \in Execs : InternalUpdateResult(t, e)
         \/ Task(t) \/ TriggerFails(t)
  PROVE  task'[u] = task[u]
  BY DEF TypeOK, InternalUpdateResult, Task, TriggerWebhook, TriggerFails,
      AcquireSlot, PostAccepted, PostFails, PostRefused,
      UpdateCallbackStatus, Move

(* Where a step of a task takes it, stage by stage.                        *)
Same(t, fields) == \A f \in fields : task'[t][f] = task[t][f]

Read(t) ==
    /\ task'[t].stage = "queued" /\ Readable(task[t].exec)
    /\ task'[t].event = EventOf(status[task[t].exec])

Posted(t) ==
    \/ /\ task'[t].stage = "update" /\ task'[t].outcome = "DELIVERED"
       /\ received'[task[t].exec] # {}
    \/ task'[t].stage = "update" /\ task'[t].outcome = "FAILED"
    \/ /\ task'[t].stage = "posting" /\ Same(t, {"outcome"})
       /\ task[t].posts < MaxRetries /\ task'[t].posts = task[t].posts + 1

Stepped(t) ==
    \/ /\ task[t].stage = "none" /\ task'[t].stage = "trigger"
       /\ Same(t, {"outcome", "posts"})
    \/ /\ task[t].stage = "trigger" /\ Same(t, {"exec", "outcome", "posts"})
       /\ task'[t].stage = "done" \/ Read(t)
    \/ /\ task[t].stage = "queued" /\ task'[t].stage = "posting"
       /\ Same(t, {"exec", "event", "outcome", "posts"})
    \/ /\ task[t].stage = "posting" /\ Posted(t)
       /\ Same(t, {"exec", "event"})
    \/ /\ task[t].stage = "update" /\ task'[t].stage = "done"
       /\ Same(t, {"exec", "outcome"})

LEMMA TaskMoves ==
  ASSUME TypeOK, NEW t \in Tasks,
         \/ \E e \in Execs : InternalUpdateResult(t, e)
         \/ Task(t) \/ TriggerFails(t)
  PROVE  Stepped(t)
<1> USE DEF TypeOK, Stepped, Same, Read, Posted
<1>1. ASSUME NEW e \in Execs, InternalUpdateResult(t, e) PROVE Stepped(t)
  BY <1>1 DEF InternalUpdateResult
<1>2. CASE TriggerWebhook(t) \/ TriggerFails(t)
  BY <1>2 DEF TriggerWebhook, TriggerFails, Move, At
<1>3. CASE AcquireSlot(t) \/ UpdateCallbackStatus(t)
  BY <1>3 DEF AcquireSlot, UpdateCallbackStatus, Move, At
<1>4. CASE PostAccepted(t)
  BY <1>4 DEF PostAccepted, At
<1>5. CASE PostFails(t) \/ PostRefused(t)
  BY <1>5 DEF PostFails, PostRefused, At
<1> QED BY <1>1, <1>2, <1>3, <1>4, <1>5 DEF Task

(* The three parts of the invariant about tasks, one task at a time.       *)
LEMMA TasksStep ==
  ASSUME TypeOK, RowIsTrue, EventCarried, OutcomeIsTrue, Untouched, [Next]_vars
  PROVE  EventCarried' /\ OutcomeIsTrue' /\ Untouched'
<1>1. ASSUME NEW u \in Tasks, task'[u] = task[u]
      PROVE  Carries(u)' /\ Answered(u)' /\ UnderWay(u)'
  <2>1. task[u].exec \in Execs
    BY DEF TypeOK
  <2>2. Carries(u)'
    BY <1>1, <2>1, HistoryGrows DEF EventCarried, Carries, Happened
  <2>3. Answered(u)'
    BY <1>1, <2>1, HistoryGrows DEF OutcomeIsTrue, Answered
  <2>4. UnderWay(u)'
    BY <1>1 DEF Untouched, UnderWay
  <2> QED BY <2>2, <2>3, <2>4
<1>2. ASSUME NEW t \in Tasks, Stepped(t)
      PROVE  Carries(t)' /\ Answered(t)' /\ UnderWay(t)'
  <2>1. task[t].exec \in Execs /\ task[t].posts \in Nat
    BY DEF TypeOK
  <2> USE DEF Same, Stepped, Read, Posted
  <2>2. Carries(t)'
    <3>1. CASE task[t].stage = "trigger" /\ task'[t].stage = "queued"
      <4>1. /\ Readable(task[t].exec) /\ task'[t].exec = task[t].exec
            /\ task'[t].event = EventOf(status[task[t].exec])
        BY <1>2, <3>1
      <4>2. Happened(task[t].exec, task'[t].event)
        BY <2>1, <4>1, ReadIsTrue
      <4> QED BY <2>1, <4>1, <4>2, HistoryGrows DEF Carries, Happened
    <3>2. CASE /\ task[t].stage \in {"queued", "posting"}
               /\ task'[t].stage \in {"queued", "posting"}
      <4>1. task'[t].exec = task[t].exec /\ task'[t].event = task[t].event
        BY <1>2, <3>2
      <4>2. Happened(task[t].exec, task[t].event)
        BY <3>2 DEF EventCarried, Carries
      <4> QED BY <2>1, <4>1, <4>2, HistoryGrows DEF Carries, Happened
    <3>3. CASE task'[t].stage \notin {"queued", "posting"}
      BY <3>3 DEF Carries
    <3> QED BY <1>2, <3>1, <3>2, <3>3
  <2>3. Answered(t)'
    BY <1>2, <2>1, HistoryGrows DEF OutcomeIsTrue, Answered, Untouched, UnderWay
  <2>4. UnderWay(t)'
    BY <1>2, <2>1 DEF Untouched, UnderWay
  <2> QED BY <2>2, <2>3, <2>4
<1>3. \A u \in Tasks : task'[u] = task[u] \/ Stepped(u)
  <2>1. CASE Server \/ UNCHANGED vars
    BY <2>1, ServerStep
  <2>2. ASSUME NEW t \in Tasks,
               \/ \E e \in Execs : InternalUpdateResult(t, e)
               \/ Task(t) \/ TriggerFails(t)
        PROVE  \A u \in Tasks : task'[u] = task[u] \/ Stepped(u)
    <3>1. Stepped(t)
      BY <2>2, TaskMoves
    <3>2. \A u \in Tasks \ {t} : task'[u] = task[u]
      BY <2>2, OneTaskMoves
    <3> QED BY <3>1, <3>2
  <2>3. CASE Next
    <3>1. Server \/ \E t \in Tasks : \/ \E e \in Execs : InternalUpdateResult(t, e)
                                    \/ Task(t) \/ TriggerFails(t)
      BY <2>3, Zenon DEF Next
    <3> QED BY <2>1, <2>2, <3>1, Zenon
  <2> QED BY <2>1, <2>3
<1> QED BY <1>1, <1>2, <1>3 DEF EventCarried, OutcomeIsTrue, Untouched

(* A receiver hears what a task carries.                                   *)
LEMMA EventsStep ==
  ASSUME TypeOK, EventCarried, EventsAreTrue, [Next]_vars
  PROVE  EventsAreTrue'
<1>1. ASSUME UNCHANGED received PROVE EventsAreTrue'
  BY <1>1, HistoryGrows DEF EventsAreTrue
<1>2. ASSUME NEW t \in Tasks, PostAccepted(t) PROVE EventsAreTrue'
  <2>1. /\ task[t].stage = "posting" /\ task[t].exec \in Execs
        /\ UNCHANGED past
        /\ received' = [received EXCEPT ![task[t].exec] = @ \cup {task[t].event}]
    BY <1>2 DEF PostAccepted, At, TypeOK, row
  <2>2. Happened(task[t].exec, task[t].event)
    BY <2>1 DEF EventCarried, Carries
  <2> SUFFICES ASSUME NEW e \in Execs, NEW s \in Outcomes,
                      EventOf(s) \in received'[e]
               PROVE  s \in past[e]
    BY <2>1 DEF EventsAreTrue
  <2>3. CASE e = task[t].exec /\ EventOf(s) = task[t].event
    BY <2>2, <2>3 DEF Happened
  <2>4. CASE ~(e = task[t].exec /\ EventOf(s) = task[t].event)
    <3>1. EventOf(s) \in received[e]
      BY <2>1, <2>4 DEF TypeOK
    <3> QED BY <3>1 DEF EventsAreTrue
  <2> QED BY <2>3, <2>4
<1>3. (\E t \in Tasks : PostAccepted(t)) \/ UNCHANGED received
  BY Zenon, ServerStep DEF Next, Task, InternalUpdateResult, TriggerWebhook,
      TriggerFails, AcquireSlot, PostFails, PostRefused, UpdateCallbackStatus,
      history
<1> QED BY <1>1, <1>2, <1>3

(* Only AcquireSlot and UpdateCallbackStatus touch what the deliveries are *)
(* told apart by.                                                          *)
LEMMA Writers ==
  ASSUME TypeOK, [Next]_vars
  PROVE  \/ \E t \in Tasks : AcquireSlot(t)
         \/ \E t \in Tasks : UpdateCallbackStatus(t)
         \/ UNCHANGED <<callback, wrote, after>>
  BY Zenon, ServerStep DEF Next, Task, InternalUpdateResult, TriggerWebhook,
      TriggerFails, PostAccepted, PostFails, PostRefused, row, history

(* A task that is over stays as it is.                                     *)
LEMMA OverStays ==
  ASSUME TypeOK, [Next]_vars, NEW t \in Tasks, task[t].stage = "done"
  PROVE  task'[t] = task[t]
<1>1. CASE Server \/ UNCHANGED vars
  BY <1>1, ServerStep
<1>2. ASSUME NEW u \in Tasks,
             \/ \E e \in Execs : InternalUpdateResult(u, e)
             \/ Task(u) \/ TriggerFails(u)
      PROVE  task'[t] = task[t]
  <2>1. Stepped(u)
    BY <1>2, TaskMoves
  <2>2. u # t
    BY <2>1 DEF Stepped, Posted, Read
  <2> QED BY <1>2, <2>2, OneTaskMoves
<1>3. CASE Next
  <2>1. Server \/ \E u \in Tasks : \/ \E e \in Execs : InternalUpdateResult(u, e)
                                  \/ Task(u) \/ TriggerFails(u)
    BY <1>3, Zenon DEF Next
  <2> QED BY <1>1, <1>2, <2>1, Zenon
<1> QED BY <1>1, <1>3

(* What UpdateCallbackStatus leaves behind.                                *)
LEMMA UpdateWrites ==
  ASSUME TypeOK, NEW t \in Tasks, UpdateCallbackStatus(t)
  PROVE  /\ task[t].stage = "update" /\ task[t].exec \in Execs
         /\ task'[t].stage = "done"
         /\ task'[t].exec = task[t].exec /\ task'[t].outcome = task[t].outcome
         /\ UNCHANGED <<received, after>>
         /\ \/ /\ callback' = [callback EXCEPT ![task[t].exec] = task[t].outcome]
               /\ wrote' = wrote \cup {t}
            \/ UNCHANGED <<callback, wrote>>
  BY DEF TypeOK, UpdateCallbackStatus, Move, At

LEMMA WritesStep ==
  ASSUME TypeOK, WritesAreOver, [Next]_vars
  PROVE  WritesAreOver'
<1>0. wrote \subseteq Tasks
  BY DEF TypeOK
<1>1. \A t \in wrote : task'[t].stage = "done"
  BY <1>0, OverStays DEF WritesAreOver
<1>2. ASSUME NEW t \in Tasks, AcquireSlot(t) PROVE WritesAreOver'
  <2>1. after' = [after EXCEPT ![t] = wrote] /\ UNCHANGED wrote
    BY <1>2 DEF AcquireSlot
  <2>2. \A u \in Tasks : after'[u] = after[u] \/ after'[u] = wrote
    BY <2>1 DEF TypeOK
  <2> QED BY <1>1, <2>1, <2>2 DEF WritesAreOver
<1>3. ASSUME NEW t \in Tasks, UpdateCallbackStatus(t) PROVE WritesAreOver'
  BY <1>1, <1>3, UpdateWrites DEF WritesAreOver
<1>4. ASSUME UNCHANGED <<callback, wrote, after>> PROVE WritesAreOver'
  BY <1>1, <1>4 DEF WritesAreOver
<1> QED BY <1>2, <1>3, <1>4, Writers

(* The last delivery decides: one that has written is followed by none but *)
(* those that began after it, and these write later.                       *)
LEMMA DecidesStep ==
  ASSUME TypeOK, OutcomeIsTrue, WritesAreOver, LastDecides, [Next]_vars
  PROVE  LastDecides'
<1>0. /\ wrote \subseteq Tasks
      /\ \A t \in wrote : task'[t] = task[t]
  BY OverStays DEF TypeOK, WritesAreOver
<1>1. ASSUME UNCHANGED <<callback, wrote>>,
             \A u \in wrote : after'[u] = after[u]
      PROVE  LastDecides'
  <2> SUFFICES ASSUME NEW e \in Execs
               PROVE  /\ callback'[e] = "DELIVERED" => received'[e] # {}
                      /\ IF Deliveries(e)' = {} THEN callback'[e] = "PENDING"
                         ELSE \E t \in Deliveries(e)' : Decides(t, e)'
    BY Zenon DEF LastDecides
  <2>1. callback'[e] = "DELIVERED" => received'[e] # {}
    BY <1>1, HistoryGrows DEF LastDecides
  <2>2. Deliveries(e)' = Deliveries(e)
    BY <1>0, <1>1 DEF Deliveries
  <2>3. CASE Deliveries(e) = {}
    BY <1>1, <2>1, <2>2, <2>3 DEF LastDecides
  <2>4. CASE Deliveries(e) # {}
    <3>1. PICK t \in Deliveries(e) : Decides(t, e)
      BY <2>4 DEF LastDecides
    <3>2. Decides(t, e)'
      BY <1>0, <1>1, <2>2, <3>1 DEF Decides, Deliveries
    <3> QED BY <2>1, <2>2, <2>4, <3>1, <3>2
  <2> QED BY <2>3, <2>4
<1>2. ASSUME NEW t \in Tasks, AcquireSlot(t) PROVE LastDecides'
  <2>1. /\ UNCHANGED <<callback, wrote>> /\ task[t].stage = "queued"
        /\ after' = [after EXCEPT ![t] = wrote]
    BY <1>2 DEF AcquireSlot, At, row
  <2>2. \A u \in wrote : u # t
    BY <2>1 DEF WritesAreOver
  <2>3. \A u \in wrote : after'[u] = after[u]
    BY <1>0, <2>1, <2>2 DEF TypeOK
  <2> QED BY <1>1, <2>1, <2>3
<1>3. ASSUME NEW t \in Tasks, UpdateCallbackStatus(t) PROVE LastDecides'
  <2>1. CASE UNCHANGED <<callback, wrote>>
    BY <1>1, <1>3, <2>1, UpdateWrites
  <2>2. CASE /\ callback' = [callback EXCEPT ![task[t].exec] = task[t].outcome]
             /\ wrote' = wrote \cup {t}
    <3> SUFFICES ASSUME NEW e \in Execs
                 PROVE  /\ callback'[e] = "DELIVERED" => received'[e] # {}
                        /\ IF Deliveries(e)' = {} THEN callback'[e] = "PENDING"
                           ELSE \E u \in Deliveries(e)' : Decides(u, e)'
      BY Zenon DEF LastDecides
    <3>0. /\ task[t].stage = "update" /\ task[t].exec \in Execs
          /\ task'[t].exec = task[t].exec /\ task'[t].outcome = task[t].outcome
          /\ UNCHANGED <<received, after>>
      BY <1>3, UpdateWrites
    <3>1. CASE e = task[t].exec
      <4>1. callback'[e] = task[t].outcome
        BY <2>2, <3>1 DEF TypeOK
      <4>2. callback'[e] = "DELIVERED" => received'[e] # {}
        BY <3>0, <3>1, <4>1 DEF OutcomeIsTrue, Answered
      <4>3. t \in Deliveries(e)'
        BY <2>2, <3>0, <3>1 DEF Deliveries
      <4>4. \A u \in Tasks : t \notin after[u]
        BY <3>0 DEF WritesAreOver
      <4>5. Decides(t, e)'
        BY <1>0, <2>2, <3>0, <4>1, <4>4 DEF Decides, Deliveries
      <4> QED BY <4>2, <4>3, <4>5
    <3>2. CASE e # task[t].exec
      <4>1. callback'[e] = callback[e] /\ UNCHANGED <<received, after>>
        BY <2>2, <3>0, <3>2 DEF TypeOK
      <4>2. Deliveries(e)' = Deliveries(e)
        BY <1>0, <2>2, <3>0, <3>2 DEF Deliveries
      <4>3. callback'[e] = "DELIVERED" => received'[e] # {}
        BY <4>1 DEF LastDecides
      <4>4. CASE Deliveries(e) = {}
        BY <4>1, <4>2, <4>3, <4>4 DEF LastDecides
      <4>5. CASE Deliveries(e) # {}
        <5>1. PICK u \in Deliveries(e) : Decides(u, e)
          BY <4>5 DEF LastDecides
        <5>2. Decides(u, e)'
          BY <1>0, <4>1, <4>2, <5>1 DEF Decides, Deliveries
        <5> QED BY <4>2, <4>3, <4>5, <5>1, <5>2
      <4> QED BY <4>4, <4>5
    <3> QED BY <3>1, <3>2
  <2> QED BY <1>3, <2>1, <2>2, UpdateWrites
<1>4. ASSUME UNCHANGED <<callback, wrote, after>> PROVE LastDecides'
  BY <1>1, <1>4
<1> QED BY <1>2, <1>3, <1>4, Writers

LEMMA Starts == Init => IInv
<1> SUFFICES ASSUME Init PROVE IInv
  OBVIOUS
<1> USE DEF Init
<1>1. (CHOOSE e \in Execs : TRUE) \in Execs
  BY Zenon
<1>2. TypeOK
  <2>1. result \in [Execs -> BOOLEAN]
    BY Zenon
  <2> QED BY <1>1, <2>1 DEF TypeOK, Stages, Events, Results
<1>3. RowIsTrue
  <2>1. \A e \in Execs : ~result[e]
    BY Zenon
  <2>2. \A e \in Execs : status[e] \notin Outcomes
    BY DEF Outcomes
  <2> QED BY <2>1, <2>2, Zenon DEF RowIsTrue
<1>4. EventCarried /\ OutcomeIsTrue /\ Untouched
  BY DEF EventCarried, Carries, OutcomeIsTrue, Answered, Untouched, UnderWay
<1>5. EventsAreTrue /\ WritesAreOver /\ LastDecides
  BY DEF EventsAreTrue, WritesAreOver, LastDecides, Deliveries
<1> QED BY <1>2, <1>3, <1>4, <1>5 DEF IInv

(* The inductive invariant of the callbacks.                               *)
THEOREM Inductive == Spec => []IInv
<1>1. IInv /\ [Next]_vars => IInv'
  BY TypeStep, RowStep, TasksStep, EventsStep, WritesStep,
     DecidesStep DEF IInv
<1> QED BY <1>1, Starts, PTL DEF Spec

(* The variables of Webhook keep their types.                              *)
THEOREM TypeCorrect == Spec => []TypeOK
<1>1. IInv => TypeOK
  BY DEF IInv
<1> QED BY <1>1, Inductive, PTL

(* A receiver hears execution.completed only of an execution that          *)
(* succeeded, execution.failed only of one that failed: triggerWebhook     *)
(* announces nothing that did not happen.                                  *)
THEOREM EventsTrue == Spec => []EventsAreTrue
<1>1. IInv => EventsAreTrue
  BY DEF IInv
<1> QED BY <1>1, Inductive, PTL

(* Of the deliveries of an execution the last one decides its              *)
(* callback_status, which is DELIVERED only if the receiver answered with  *)
(* 2xx; it is PENDING until one has been written.                          *)
THEOREM LastDecidesAlways == Spec => []LastDecides
<1>1. IInv => LastDecides
  BY DEF IInv
<1> QED BY <1>1, Inductive, PTL
===============================================================================
