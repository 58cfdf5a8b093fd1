--------------------------------- MODULE Agent ---------------------------------
(***************************************************************************)
(* The pull loop of a worker: Run and fetchWork of internal/worker/agent.go *)
(* with the goroutines it starts for the executions it claims.  What a     *)
(* goroutine does with its execution is JobRun; here it returns some time. *)
(* The tokens in sem are those of the running goroutines, so len(sem) is   *)
(* "jobs"; the wait group counts "jobs" and "leaving".                     *)
(***************************************************************************)
EXTENDS Naturals

CONSTANTS
    Concurrency,   \* AgentConfig.Concurrency, at least 1 (New sees to it)
    MaxBackoff,    \* AgentConfig.MaxBackoff, in poll intervals
    MaxWork,       \* bound: executions ever submitted
    MaxFaults      \* bound: fetches that fail although the worker goes on

ASSUME ConcurrencyAssumption == Concurrency \in Nat \ {0}
ASSUME BackoffAssumption == MaxBackoff \in Nat \ {0}
ASSUME BoundsAssumption == MaxWork \in Nat /\ MaxFaults \in Nat

VARIABLES
    loop,      \* where Run is
    slots,     \* availableSlots of the poll in progress
    size,      \* len(items) of the last response
    claimed,   \* items of it not yet handed to a goroutine
    jobs,      \* goroutines inside processItem
    leaving,   \* goroutines between <-sem and triggerPoll
    pollNow,   \* the channel of capacity 1: whether a poll is pending
    backoff,   \* currentBackoff, in poll intervals
    freed,     \* history: a slot was freed since slots were last counted
    shutdown,  \* ctx is cancelled
    work,      \* executions waiting at the controller
    submitted, \* executions submitted so far
    faults

jobVars == <<jobs, leaving, freed>>
batchVars == <<slots, size, claimed>>
worldVars == <<shutdown, work, submitted, faults>>
vars == <<loop, pollNow, backoff, jobVars, batchVars, worldVars>>

Places == {"select", "poll", "fetch", "dispatch", "draining", "stopped"}

TypeOK ==
    /\ loop \in Places
    /\ slots \in 0..Concurrency /\ size \in 0..Concurrency
    /\ claimed \in 0..Concurrency
    /\ jobs \in Nat /\ leaving \in Nat
    /\ pollNow \in BOOLEAN /\ freed \in BOOLEAN /\ shutdown \in BOOLEAN
    /\ backoff \in 1..MaxBackoff
    /\ work \in 0..MaxWork /\ submitted \in 0..MaxWork
    /\ faults \in 0..MaxFaults

Init ==
    /\ loop = "select" /\ pollNow = TRUE /\ backoff = 1
    /\ slots = 0 /\ size = 0 /\ claimed = 0
    /\ jobs = 0 /\ leaving = 0 /\ freed = FALSE
    /\ shutdown = FALSE /\ work = 0 /\ submitted = 0 /\ faults = 0

Least(m, n) == IF m <= n THEN m ELSE n

-------------------------------------------------------------------------------
(* The select of Run; when several of its cases are ready any is taken.    *)

(* Mutant: the timer does not trigger a poll.                              *)
TimerFiresIdle == loop = "select" /\ UNCHANGED vars

TimerFires ==
    /\ loop = "select"
    /\ pollNow' = TRUE
    /\ UNCHANGED <<loop, backoff, jobVars, batchVars, worldVars>>

PollSelected ==
    /\ loop = "select" /\ pollNow
    /\ pollNow' = FALSE
    /\ loop' = "poll"
    /\ UNCHANGED <<backoff, jobVars, batchVars, worldVars>>

ShutdownSelected ==
    /\ loop = "select" /\ shutdown
    /\ loop' = "draining"
    /\ UNCHANGED <<pollNow, backoff, jobVars, batchVars, worldVars>>

(* Mutant: every poll asks for Concurrency executions.                     *)
CountSlotsAll ==
    /\ loop = "poll"
    /\ slots' = IF jobs < Concurrency THEN Concurrency ELSE 0
    /\ loop' = IF jobs < Concurrency THEN "fetch" ELSE "select"
    /\ freed' = FALSE
    /\ UNCHANGED <<size, claimed, jobs, leaving, pollNow, backoff, worldVars>>

CountSlots ==
    /\ loop = "poll"
    /\ slots' = Concurrency - jobs
    /\ loop' = IF slots' = 0 THEN "select" ELSE "fetch"
    /\ freed' = FALSE
    /\ UNCHANGED <<size, claimed, jobs, leaving, pollNow, backoff, worldVars>>

-------------------------------------------------------------------------------
Longer == Least(2 * backoff, MaxBackoff)

(* fetchWork returns: DequeueBatch has handed out at most slots executions. *)
FetchWork ==
    LET n == Least(slots, work) IN
    /\ loop = "fetch"
    /\ work' = work - n
    /\ IF n = 0
       THEN /\ backoff' = Longer
            /\ loop' = "select"
            /\ UNCHANGED <<size, claimed>>
       ELSE /\ backoff' = 1
            /\ loop' = "dispatch"
            /\ size' = n /\ claimed' = n
    /\ UNCHANGED <<slots, pollNow, jobVars, shutdown, submitted, faults>>

(* It fails, before or after the controller has handed out executions: the *)
(* worker knows nothing of those, their leases end some time.              *)
FetchFails ==
    /\ loop = "fetch"
    /\ \E n \in {0, Least(slots, work)} : work' = work - n
    /\ \/ shutdown /\ UNCHANGED faults
       \/ faults < MaxFaults /\ faults' = faults + 1
    /\ loop' = "select"
    /\ UNCHANGED <<pollNow, backoff, jobVars, batchVars, shutdown, submitted>>

(* sem <- struct{}{} blocks without a free slot; then the goroutine starts. *)
Dispatch ==
    /\ loop = "dispatch" /\ claimed > 0
    /\ jobs < Concurrency
    /\ jobs' = jobs + 1
    /\ claimed' = claimed - 1
    /\ UNCHANGED <<loop, slots, size, leaving, freed, pollNow, backoff, worldVars>>

Dispatched ==
    /\ loop = "dispatch" /\ claimed = 0
    /\ pollNow' = (pollNow \/ size < slots)
    /\ loop' = "select"
    /\ UNCHANGED <<backoff, jobVars, batchVars, worldVars>>

(* Mutant: a goroutine triggers the poll before it frees its slot.         *)
JobReturnsLate ==
    /\ jobs > 0
    /\ \/ pollNow' = TRUE /\ leaving' = leaving + 1 /\ UNCHANGED <<jobs, freed>>
       \/ /\ leaving > 0 /\ leaving' = leaving - 1
          /\ jobs' = jobs - 1 /\ freed' = TRUE
          /\ UNCHANGED pollNow
    /\ UNCHANGED <<loop, backoff, batchVars, worldVars>>

(* The deferred calls of a goroutine: <-sem, triggerPoll, wg.Done.         *)
JobReturns ==
    /\ jobs > 0
    /\ jobs' = jobs - 1
    /\ leaving' = leaving + 1
    /\ freed' = TRUE
    /\ UNCHANGED <<loop, pollNow, backoff, batchVars, worldVars>>

(* Mutant: wg.Done is forgotten.                                           *)
JobTriggersOnly ==
    /\ leaving > 0
    /\ pollNow' = TRUE
    /\ UNCHANGED <<loop, jobVars, backoff, batchVars, worldVars>>

JobTriggers ==
    /\ leaving > 0
    /\ leaving' = leaving - 1
    /\ pollNow' = TRUE
    /\ UNCHANGED <<loop, jobs, freed, backoff, batchVars, worldVars>>

(* Mutant: Run returns without waiting for the goroutines.                 *)
StopsAtOnce ==
    /\ loop = "draining"
    /\ loop' = "stopped"
    /\ UNCHANGED <<pollNow, backoff, jobVars, batchVars, worldVars>>

(* wg.Wait returns; Run closes done and the process exits.                 *)
Stops ==
    /\ loop = "draining" /\ jobs = 0 /\ leaving = 0
    /\ loop' = "stopped"
    /\ UNCHANGED <<pollNow, backoff, jobVars, batchVars, worldVars>>

-------------------------------------------------------------------------------
(* The world: executions are submitted, the worker receives SIGTERM.       *)
Submit ==
    /\ submitted < MaxWork
    /\ submitted' = submitted + 1
    /\ work' = work + 1
    /\ UNCHANGED <<loop, pollNow, backoff, jobVars, batchVars, shutdown, faults>>

Sigterm ==
    /\ ~shutdown /\ shutdown' = TRUE
    /\ UNCHANGED <<loop, pollNow, backoff, jobVars, batchVars, work, submitted, faults>>

Poll == PollSelected \/ CountSlots \/ FetchWork \/ Dispatch \/ Dispatched

Next ==
    \/ TimerFires \/ ShutdownSelected \/ Poll \/ FetchFails \/ Stops
    \/ JobReturns \/ JobTriggers \/ Submit \/ Sigterm

Spec == Init /\ [][Next]_vars

(* The loop runs and executions end; timers fire and a ready case of the   *)
(* select is not passed over for ever (select draws among them).           *)
FairSpec ==
    /\ Spec
    /\ WF_vars(Poll) /\ WF_vars(TimerFires) /\ SF_vars(PollSelected)
    /\ SF_vars(ShutdownSelected) /\ WF_vars(Stops)
    /\ WF_vars(JobReturns) /\ WF_vars(JobTriggers)

-------------------------------------------------------------------------------
(* What was claimed fits in the free slots: the send on sem never blocks,  *)
(* so no execution sits in the worker with its lease running and nobody    *)
(* sending heartbeats, and the concurrency limit holds.                    *)
ClaimedFits == jobs + claimed <= Concurrency

(* No wake-up is lost: when a slot was freed after slots were counted, and *)
(* Run goes back to wait, a poll is pending or about to be triggered.      *)
NoMissedSlot == loop = "select" /\ freed => pollNow \/ leaving > 0

(* Done is closed only after every goroutine has returned, with nothing    *)
(* claimed left undispatched.                                              *)
StopsClean == loop = "stopped" => jobs = 0 /\ leaving = 0 /\ claimed = 0

(* Waiting executions are fetched until there are none, whatever backoff   *)
(* and failed fetches do, unless the worker is told to stop.               *)
WorkIsFetched == work > 0 ~> work = 0 \/ shutdown

(* After SIGTERM the worker stops once its executions have ended.          *)
ShutdownEnds == shutdown ~> loop = "stopped"
===============================================================================
