# jobplane: a verification project in TLA+

jobplane is a distributed job execution platform: tenants submit jobs to a
stateless controller, PostgreSQL holds the queue and the history, workers pull
executions, run them as processes, containers or pods, and report. This
directory models that system in TLA+, checks the models with TLC on small
instances, and proves the most important properties with TLAPS for all values
of the constants.

All paths below are relative to `src/`.

## The system

| Component | State | Operations | Interacts with |
|---|---|---|---|
| Job store, `internal/store/postgres` | tables `executions`, `execution_queue`, `execution_dlq` | `Enqueue`, `DequeueBatch`, `Complete`, `Fail`, `SetVisibleAfter`, `RetryFromDLQ` | called by every handler; several controllers share one database |
| Job API, `handlers/jobs.go` | job definitions | `CreateJob`, `RunJob` (create and enqueue in one transaction, after the concurrency limit) | job store |
| Execution API, `handlers/executions.go` | none | `InternalDequeue`, `InternalHeartbeat`, `InternalUpdateResult`, `triggerWebhook`, `GetExecution`, DLQ listing and retry | job store, webhook dispatcher |
| Webhook dispatcher, `controller/webhook` | slots (`sem`), goroutines (`wg`), column `callback_status` | `Deliver`, `deliverWithRetry`, `Shutdown` | receivers, job store |
| Worker pull loop, `worker/agent.go` `Run` | slots (`sem`), `pollNow`, backoff, `done` | select over shutdown, timer and `pollNow`; `fetchWork`; dispatch | controller, its own executions |
| Worker execution, `processItem` | context, log goroutine, heartbeat goroutine, verdict | start, wait, drain logs, stop, report with retries | runtime, controller |
| Runtimes, `worker/runtime` | process, container, pod | `Start`, `Wait`, `Stop`, `StreamLogs` | operating system, Docker, Kubernetes |
| Rate limiter and tenants, `controller/middleware`, `handlers/tenants.go` | `sync.Map` of limiters with expiry, table `tenants` | `AuthMiddleware`, `Limit`, `getOrCreateLimiter`, `InvalidateTenant`, `UpdateTenant` | every public request; one cache per replica, one table for all |
| Admission, `RunJob`, `CountRunningExecutions` | advisory lock of the tenant | lock, count, create and enqueue, commit | tenant as read by the middleware, job store |
| Log stream, `agent.go` `streamLogs`, `runtime/exec.go` | two pipes, scanner, `lineChan`, batch | read, batch, flush by size or ticker, `sendLogs` | the command, `cmd.Wait`, controller |
| Log table, `handlers/logs.go`, `postgres/log.go`, `jobctl logs` | table `execution_logs`, `lastID` of the command | `InternalAddLogs`, `GetExecutionLogs`, paging and `--follow` | worker, command line |
| Server, other commands, configuration, keys, observability, migrations | wiring | | |

What is hard in it:

- `Complete` and `Fail` run without a transaction, so calls interleave
  statement by statement, and a call whose request is cancelled stops between
  two statements. A worker that has no answer in 5 s reports again while the
  first report is still served.
- A lease (`visible_after`) that lapses leads to a second delivery while the
  first worker still runs and will still report.
- The pull loop counts free slots, asks for as many executions and dispatches
  them while goroutines return and trigger polls.
- `processItem` lives on four clocks: the job, its time limit, SIGTERM, and
  the log stream it waits for.
- Callbacks are sent by goroutines that outlive the request and may not
  outlive the process.
- A request acts on the tenant as the middleware read it, while another one
  updates it; limiters are cached in each replica and dropped in one.
- Output goes through pipes, a scanner, a channel and a batch, each with an end
  of its own: the pipes are closed by `cmd.Wait` and by `streamLogs`, whoever is
  first.
- Ids of log rows are drawn before the rows can be seen, and pages go by id.

Correctness of each component, in a sentence: an accepted execution is
delivered until it has an outcome and never after (store); the worker never
claims more than it can run at once and misses no free slot (pull loop); what is
reported is true of the job and the job does not outlive the worker's interest
in it (execution); receivers hear only what happened (webhook); limits that an
operator sets are kept and come into force (tenants); one submission at a time
is counted and admitted (admission); lines are stored once and none is lost
without a cause (log stream); a reader sees every entry once, in order, but for
INSERTs that overlapped (log table).

The full list of places where this can go wrong is `hazards` in `PROJECT.json`.

## Modules

| Module | Models | Checked by | Proofs |
|---|---|---|---|
| `JobLifecycle` | what the store promises: an execution is accepted, delivered, concluded | (abstract) | |
| `JobStore` | the tables and all calls on them, a statement at a time | `MCJobStore` | `JobStore_proofs`, `JobStore_delivery_proofs` |
| `Agent` | the pull loop | `Agent` | `Agent_proofs` |
| `Claim` | what a controller sees of one delivery: one verdict, told while it is held | (abstract) | |
| `JobRun` | one execution on a worker, for the three runtimes | `JobRun` | `JobRun_proofs` |
| `Webhook` | callbacks from report to receiver, and shutdown | `Webhook` | `Webhook_proofs` |
| `Tenants` | authentication, limiter cache, updates of the limits | through `Admission` | through `Admission_proofs` |
| `Admission` | extends `Tenants` by the transaction of `RunJob` | `Admission` | `Admission_proofs` |
| `Log` | what readers of `execution_logs` may rely on: rows are added, apart, in sequence until lines are lost | (abstract) | |
| `LogStream` | output of a command on its way to `execution_logs` | `LogStream` | `LogStream_proofs` |
| `LogTable` | the rows of `execution_logs`, and `jobctl logs` reading them | `LogTable` | `LogTable_proofs` |

`JobStore` has the work of a worker as claims; `JobRun` refines one claim
(`Claim`) and says which reports a worker makes. `Webhook` begins where a report
of `JobStore` ends. `Admission` composes the middleware of `Tenants` with the
handler behind it; what it admits is a `RunJob` of `JobStore`. `LogStream` is the
log goroutine that `JobRun` has as one value (`logs`); it implements `Log`, and
its posts are the posts that `LogTable` receives.

### JobStore

`status`, `queue`, `attempt`, `dlq`, `origin` are the columns that matter.
`queue[e]` abstracts `visible_after` to what a dequeue can tell: no row, due,
delayed (a schedule or a backoff), leased (a delivery or a heartbeat). `call`
holds the requests in flight, one record per element of `Calls`, whose `pc` is
the next statement; `claim[e][n]` is the worker that has delivery `n` of `e`
(the abstraction of `JobRun` and `Agent` that the store needs).

- `RunJob` is the transaction of the handler of that name (one step, it touches
  new rows only).
- `DequeueSelect` takes row locks (`SKIP LOCKED`: rows in the batch of another
  call are passed over, in order of priority), `DequeueCommit` is the two
  UPDATEs and the commit.
- `CompleteDelete`, `CompleteUpdate`; `FailSelect`, `FailBackoff` or
  `FailInsert`, `FailDelete`, `FailUpdate`; `SetVisibleAfter`: one action per
  statement, because `InternalUpdateResult` and `InternalHeartbeat` pass no
  transaction.
- `RetryRead`, `RetryCommit`, `RetryRollback`: `RetryFromDLQ` reads with no
  lock, so two of them can hold the same entry. It is modelled for every caller
  of the store; its one HTTP caller reads the execution first (see
  `Readable` below).
- `Report`, `Heartbeat`, `JobEnds`, `WorkerDies`: the workers. A report may
  be made again, refused or not answered.
- `BecomesDue`, `LeaseLapses`: time. A lease that lapses under a live worker is
  a fault: heartbeats lost or late, or a `Start` (pulling an image) longer
  than the lease, because heartbeats begin after `Start`.
- `Cut`: the request context is cancelled between two statements.

`MaxFaults` counts lapsed leases, dead workers and lost or repeated requests;
`MaxCuts` counts cut calls. Properties say what each of them costs:
`NothingLost` and `QueueOrDLQ` allow one execution per cut call, whatever the
faults; `FailedIsInDLQ` one per fault, `HoldersBounded` one holder and
`DeliveriesBounded` one delivery per fault, whatever is cut. The others depend
on neither.

### Agent

`loop` is the program counter of `Run`; `jobs` is `len(sem)`, `leaving` counts
goroutines between `<-sem` and `triggerPoll`; `work` is what the controller
could hand out. `backoff` counts in units of `PollInterval`. The `select` is
three actions of which any ready one may be taken. `freed` is a history
variable: a slot was freed since slots were last counted.

### JobRun and Claim

`main` is where `processItem` is, `context` is `execContext.Err()`, `logs` and
`heart` the two goroutines, `waited` what `Wait` returned, `verdict` what is to
be reported and `told` the last report the controller received. `runtime` is
chosen when the worker starts; `ExecWaits`, `DockerWaits`, `KubernetesWaits` are
the three forms of `Wait`, and so for `Start` and `Stop`. On Kubernetes
`Stop` deletes the job and does not wait: "killed" then means that the deletion was
accepted. Faults are failures of the network, the Docker daemon or the
Kubernetes API; a time limit and SIGTERM are not faults.

`KeepsClaim` maps `main` and `verdict` to the state of `Claim`, which is the
view `JobStore` has of a worker (`claim[e][n]`): decide once, tell that,
perhaps repeatedly, and be gone.

### Webhook

One task per accepted report: the goroutine of `InternalUpdateResult` that
reads the execution (`TriggerWebhook`), then the goroutine of the Dispatcher
(`AcquireSlot`, posts, `UpdateCallbackStatus`). The rows are reduced to the
status, whether `result` is NULL, and `callback_status`. `Readable` is
where `GetExecutionByID` meets `database/sql`: a NULL cannot be scanned into a
`json.RawMessage`, the type of `Result` and `CallbackHeaders`, so the query
fails for such a row. History variables: `past` (the outcomes an execution has
had), `received` (the events a receiver accepted), `wrote` (the tasks that have
written `callback_status`), `after` (for a task, those that had when it got its slot).

### Tenants and Admission

One controller and one tenant. `row` is what of `tenants` limits anything,
`cache` and `fresh` the entry of the `sync.Map` and whether it has expired.
`request[r].tenant` is the row as `Authenticate` read it: `StoreLimiter`
makes a limiter of it, `UpdateTenant` fills in from it what the body leaves out,
and `CountRunning` takes the quota from it. `LoadLimiter` and `StoreLimiter`
are two actions because `getOrCreateLimiter` calls `Load` and `Store`, not
`LoadOrStore`. Tokens are not counted: `Allow` may answer either way.

Another replica shares the database and not the cache; a request of kind
"remote" is an `UpdateTenant` it serves. `UpdateTenant` may end after the
UPDATE and before `OnTenantUpdated` (the answer of the database was lost).
`InvalidateTenant` is a step of its own.

`Admission` adds the transaction of `RunJob`: `TakeLock`, `CountRunning`,
`Commit` or `Rollback`, or `RunUnlimited` without a quota. `Dequeue` and
`Finish` move the number that is counted. What is created is PENDING and not
counted; so the model does not keep it.

History variables: `asked` (each limit as last asked for), `overtaken` (for an
update in flight, the limits that others have asked for since it read the row),
`undone` (limits that an overtaken update wrote back), `excused` (the cached
limiter may be old, for one of the reasons), `made` (limiters made since one was
dropped or expired).

### LogStream

The exec runtime. `written`, `taken`, `got`, `flushed` count lines at each station:
pipe, `lineChan`, batch, post. Lines are numbered in the order in which
`combinedReader` reads them, all of stdout before stderr, so that a batch
is an interval. `Write` blocks on a full pipe, `WriteFails` is SIGPIPE. `Scan`,
`ScanEnds` are the scanner goroutine (it ends at a line of more than 64 KB as
well); `Receive`, `Tick`, `ChannelClosed`, `ContextDone` are the `select` of
`streamLogs`, whose deferred `Close` closes the pipes; `WaitCloses` is
`cmd.Wait`, which does so as soon as the command has exited. `Exit` may leave a
child behind that keeps the pipes open. `PostFails` clears the batch like a
post that went through, and the INSERT of a post that was given up may still
commit (`LateInsert`). `lost` is a history variable: a cause for loss was met.

`KeepsLog` maps the stream to `Log`: what was written is `Total(written)`, the log
is sound while nothing is `lost`, and it has ended when `streamLogs` has
returned (`loop = "done"`). The rows are the same. `Log` says nothing of pipes,
channel and batches; it allows a late row, of lines no other row has, only when
the log is no longer sound, and an end that is sound only when all is stored.

### LogTable

`Begin`, `Draw`, `Commit` are the points of one INSERT that a reader can tell
apart: `created_at` is the start of the transaction, the id comes from the
sequence, the row can be seen at the end. `SendLogs` sends a post when the
one before was answered or given up after 5 s, so INSERTs overlap only
after a timeout. `GetLogs` is one page: the first rows, `Limit` at most, with
`id > lastID` in the order of `created_at`, printed, `lastID` raised to the
greatest id. `GetExecutionLogs` does not look at `rows.Err`, so a query that breaks
after its first row is a page as well, a short one; a page is empty only if there
was nothing to read.
`Complete` makes the execution readable; before, the handler answers 404
(`Readable` of `Webhook`).

## Runs

Runs that pass:

| Run | Instance | What it shows |
|---|---|---|
| `store_races` | one execution, 3 calls, 1 retry, 1 fault, 1 cut | the life of an execution through all deliveries with three requests interleaving: `TypeOK`, `NothingLost`, `DLQAfterRetries`, at most one worker more than faults occurred holds an execution (`HoldersBounded`) and it is delivered at most `MaxRetries + 1` times, plus once per fault (`DeliveriesBounded`), wherever calls are cut, at most one execution forgotten by a cut call, `JobLifecycle` implemented (`KeepsLifecycle`), and an outcome for every submitted execution unless a call was cut (`EverySubmittedFinishes`) |
| `store_retry` | 2 executions, a dedicated worker, 2 calls, no retry, 2 faults, 1 cut | batches, row locks of dequeues with different selections, and `RetryFromDLQ` with the execution it creates: queue, DLQ and history agree (`FinishedIsDequeued`), but for one execution the cut call leaves in both or forgets (`QueueOrDLQ`), and one per fault that failed without a dead letter (`FailedIsInDLQ`) |
| `agent` | 2 slots, 4 executions, 1 failed fetch | slots, wake-ups, shutdown; waiting work is fetched, SIGTERM ends the worker |
| `job` | the three runtimes, 2 attempts, 3 faults | success and failure are told with a reason (`SuccessIsTrue`, `FailureIsFounded`), nothing is left running without a cause (`NoneLeftRunning`), the lease is held until the report (`HeldUntilReported`), the slot becomes free although `processItem` waits for the logs and they for the job (`Returns`), `Claim` is implemented (`KeepsClaim`) |
| `webhook` | 3 executions (one made by `RetryFromDLQ`), 2 reports, 1 slot, 1 retry, 1 failed query | receivers hear only of outcomes that happened (`EventsAreTrue`); the last delivery of an execution decides its `callback_status` (`LastDecides`); the callback of a success is concluded (`SuccessAnswered`) |
| `requests` | 2 requests, rates none and two others, quota none or 1, 2 updates, 1 running execution | a cached limiter is old only for one of the reasons named (`OldLimiterExcused`), racing first requests make few of them (`LimitersBounded`), each limit is what was last asked for, unless an update that had read the row before, and does not name it, wrote it back (`UpdatesKept`), the lock lasts from count to commit (`LockedWhileAdmitting`); new limits come into force (`UpdatesTakeEffect`), every request is answered (`RequestsAnswered`) |
| `log_stream` | 4 lines, pipes and channel of 1, batches of 2, 1 failed post | the abstract log implemented (`KeepsLog`: rows only grow, share no line, and follow each other until a line is lost), every line stored if nothing that costs lines was met (`AllStored`); the stream ends after the command (`StreamEnds`), a command is not stuck in its writes (`WritesFlow`), and what it has written to stdout is stored without waiting for more, or for its end (`LinesArrive`) |
| `log_table` | 3 posts, 2 given up, pages of 2, any of them short | `PrintedOnce`, `PrintedInOrder`, `SkippedOverlapped`: what is skipped or out of order overlapped; the command stops caught up (`StopsCaughtUp`), `--follow` prints all (`StoredIsPrinted`) |

Runs that end in a violation show where the code does not do what the
repository says of it; the sentence is quoted in `findings`:

| Run | Property | What happens |
|---|---|---|
| `store_stranded` | `SomeoneWillConclude` | a `Complete` cut after its DELETE leaves an execution RUNNING for ever |
| `job_limit` | `HardDeadline` | on Docker the time limit does not end a job that does not end by itself |
| `job_sigterm` | `SigtermSparesJobs` | SIGTERM kills running jobs |
| `webhook_failure` | `FailureAnswered` | the callback of a failed execution is never sent |

Behaviours the models have that the properties leave room for, because the code
has them too:

- A `Fail` that finds no queue row (a report after another one concluded the
  execution) writes FAILED without a DLQ entry (`FailUpdate`); `FailedIsInDLQ`
  says that each such execution takes a fault.
- A late report, of a delivery whose lease had lapsed, overturns the outcome of
  another one (`Overturn` of `JobLifecycle`), where `store/models.go:39` draws a
  lifecycle that ends with its outcome. `KeepsLifecycle` says that nothing else does.
- A `Fail` cut after its INSERT leaves a dead letter that is still in the queue and
  is delivered again; a later `Fail` of it stops at the UNIQUE
  constraint. `QueueOrDLQ` counts one such execution per cut call.
- Two concurrent `RetryFromDLQ` of one entry both commit (`RetryCommit`).
- On Kubernetes `Wait` returns exit code -1 and no error when the API server
  closes the watch (`KubernetesWaits`), so a running pod is reported as a failure;
  `FailureIsFounded` leaves that runtime out and `NoneLeftRunning` names the case.
- An orderly shutdown can lose a callback: the goroutine between a report and
  `Deliver` is in no `WaitGroup` (a task at "trigger" when `server` is
  "exited"); `SuccessAnswered` speaks of a server that stays up.
- `middleware/ratelimit.go:83-85` says that dropping the entry makes new limits
  effective at once. A request that had read the tenant before the UPDATE
  stores a limiter with the old ones afterwards; other replicas, and this one
  when the answer to the UPDATE is lost, keep theirs until they expire.
  `OldLimiterExcused` lists these cases.
- An `UpdateTenant` writes back the row the middleware had read, so it undoes what
  others were asked for in between, in the limits it does not name. `UpdatesKept`
  says that nothing else is undone, and that an update which names the limit
  mends it.
- The quota is compared with what is RUNNING; what is PENDING counts for nothing,
  so more than the quota may be RUNNING later (`Dequeue` of `Admission`).
- A job that fills stderr while its stdout is open blocks until its time limit;
  `WritesFlow` speaks of stdout, and of stderr after stdout was closed. What such
  a job had written to stdout is stored (`LinesArrive`), because the ticker posts
  batches that are not full.
- A line of more than 64 KB ends the log, and a command that goes on writing is
  ended by SIGPIPE (`ScanEnds`, `WriteFails`).
- `cmd.Wait` closes the pipes of a command that has exited, so its last lines may
  be lost (`WaitCloses`; `AllStored` names the case).
- Log rows whose INSERTs overlapped may be printed in another order or skipped.
- A page may be short because the query broke (`IsPage`). The command is safe from it,
  because only an empty page is the last one to it (`AfterPage`).
- `GetExecutionByID` fails for an execution with a NULL result, FAILED ones
  included (`Readable`), so `GetExecution`, `GetExecutionLogs` and
  `RetryDQLExecution` answer 404 for them.

### Bounds, and why they are enough

- Executions are independent but for batches and for the pair an execution and
  its retry, so two of them meet every interaction in `JobStore`; one is enough
  to interleave its own calls, and then three calls are used. `AttemptCap`
  leaves room for the deliveries of the policy plus those paid for by faults
  (`store_races`: 1 + `MaxRetries` + `MaxFaults` = 3 of 4).
- Priorities are equal in the runs (an execution made by `RetryFromDLQ` keeps the
  priority of its origin); `HoldersBounded` is proved for any.
- `MaxRetries` is 5 in the code and 0 or 1 here: the code only compares with it.
- In `Agent`, two slots are the least with which a batch can be smaller than
  the number of free slots and a job can return during a dispatch.
- `JobRun` is one execution; `MaxTries` is 6 in the code, 2 here: enough for an
  attempt to fail and another to follow. Three faults let every attempt fail
  and the runtime fail once.
- `Webhook` has one slot for two tasks, so tasks queue, and one retry; the two
  reports may be of one execution, and contradict each other. With one slot its
  deliveries follow each other; for those that overlap, `LastDecides` is proved.
- In `Admission`, two requests are the least that can overlap, and three rates
  (none and two) tell an old limiter from a new one and from none. Two updates
  can race, and one can follow a limiter that another left behind; a request for
  an update is not sent once the bound on updates is reached. `UpdatesTakeEffect` would
  be void with no bound on updates: limits that change for ever never settle.
- In `LogStream`, with four lines and batches of two there is a full batch, a
  short one, and one more behind a failed post; capacities of one make every
  station block.
- In `LogTable`, three posts fill a page of two and leave one over, and with two given
  up all three INSERTs can overlap.
- `TypeOK` of a module other than `JobStore` is not in a run: it is a theorem of
  the module's proofs.
- All bounds are constants with `Max` or `Cap` in their names, and every one is
  a guard. The proofs do not depend on their values.
- Deadlock is not checked (`CHECK_DEADLOCK FALSE`) because every model may
  really stop: everything finished, the worker or the controller gone, or a
  bound of the model reached.

### Fairness

- `JobStore`: controllers serve what they accepted and time passes (weak);
  dequeues and reports (strong, since all slots of `Calls` may be taken again
  and again; workers poll for ever). `JobEnds` is fair: that jobs end is an
  assumption there; `JobRun` shows what becomes of one that does not.
- `Agent`: goroutines run (weak). `pollNow` and shutdown are strong: Go's
  `select` draws among the ready cases, so a case that is ready again and again
  is taken some time.
- `JobRun`: `FairSpec` has the worker's goroutines, the timer and the kill by
  the operating system, not the end of jobs. `EndingSpec`, used by `job`, adds
  that containers and pods end by themselves (a pod that is never scheduled does
  not); a process may hang, and the time limit must end it.
- `Admission`: handlers run (weak), PostgreSQL grants an advisory lock to those who
  wait for it in turn (strong for `TakeLock`), entries expire (weak).
- `LogStream`: scanner, `streamLogs`, `cmd.Wait` run and posts return, with an
  answer or after the 5 s of the client (weak); a command that runs does what it
  is about to do (weak), but need not exit.
- `LogTable`: a command that polls goes on polling (weak); nothing of the INSERTs.
- `Webhook`: tasks run (strong for the slots: senders blocked on a channel are
  served in turn); `http.Client.Timeout` makes every post end. No fairness
  for reports or shutdown.

## Proofs

No theorem restricts the constants beyond the named assumptions of the modules
(types; at least one slot; at least one attempt).

- `JobStore_proofs`: `Inductive` proves an inductive invariant of named parts:
  untouched executions have left no trace (`FreshInv`), row locks are disjoint
  and on due rows (`LockInv`), a call past its DELETE has no queue row to come
  back (`CallInv`), DLQ entries were tired out (`DLQInv`). It is needed because each
  property is about tables while what threatens it is in the calls in flight.
  From it: `TypeOK`, `FinishedIsDequeued`, `DLQAfterRetries`,
  `WaitingIsUntouched`, and the action property `FinishedStays`.
  `NothingLost` and `QueueOrDLQ` count: `CutInv` says that there are at most
  as many stray executions (`Stray`: RUNNING without a queue row and with nobody
  about to write the outcome, or in both queue and DLQ with nobody moving it) as cut calls.
  A stray execution may settle; only `Cut` makes one, and no more than the one
  its call was about, by a fact about cardinalities (`OneMore`).
- `JobStore_delivery_proofs`: the refinement `Spec => KeepsLifecycle`: each step
  of the tables is a step of `JobLifecycle` or a stutter. `Overturn` needs that a
  late report implies a second delivery, which is why claims are numbered.
  `FailedIsInDLQ` needs `FaultInv`: all executions but one per fault are
  `Sound`. A sound execution is held by its last delivery only, whose row is
  leased, or gone because the report of this delivery removed it (`SoleClaim`); it is
  reported by one call at a time, with the outcome of that claim, and when `Fail`
  is past its INSERT the dead letter exists (`SoleReport`); and if it is FAILED,
  it is in the DLQ or was retried from it. So `Fail`, wherever a former call of it
  was cut, finds the row to copy, or the dead letter. Each step keeps all
  executions sound (`Keeps`) or is a fault and spoils one (`Befalls`). With no
  fault all are sound, hence `ExclusiveClaim`.
  `HoldersBounded` and `DeliveriesBounded` need a budget (`BudgetInv`), kept through
  cut calls as well: for each execution, the reports being served
  (`Serving`), the claims not being reported (`Unreported`) and the row a
  dequeue can take (`Row`) are together at most 1 + `faults` (`Paid`); and past the
  last retry, its attempt, the backoffs still to be written (`BackingOff`) and that
  row are at most `MaxRetries` + 1 + `faults` (`Spent`), unless it is in the DLQ
  or was retried from it. A step either adds nothing to these sums, or pays for
  what it adds with a fault, or trades: a report turns a claim into a call,
  the end of the call turns it into a row or nothing, and the dequeue that
  commits turns the row into a claim.
- `Agent_proofs`: `ClaimedFits` rests on slots counted at "poll" being still
  free at "fetch", because only the loop itself takes tokens; `NoMissedSlot` on a
  slot being freed before its poll is triggered.
- `JobRun_proofs`: the invariant traces what was told back to the verdict, to
  what `Wait` returned, to the job. `SuccessIsTrue`, `NoneLeftRunning` and
  `HeldUntilReported`, `FailureIsFounded`, and the refinement of `Claim`.
- `Webhook_proofs`: `EventsAreTrue` and `LastDecides`. The first rests on
  `result` being written by `Complete` only: a row that can be read belongs to
  an execution that succeeded at least once (`ReadIsTrue`), and a task carries what
  it read until it posts it (`EventCarried`); a step of one task moves no other
  (`OneTaskMoves`). The second is its own invariant with `WritesAreOver`: a delivery
  that wrote is over, and so is every one that another came after. So the
  delivery that writes now comes before none that has written, and decides.
- `Admission_proofs`, about `Tenants` and `Admission` together: an old limiter in
  the cache has its reason, because every step that makes it old or stores it is
  one of those that set `excused` or stand before `InvalidateTenant`
  (`OldLimiterExcused`); limiters made, with the requests between `Load` and
  `Store`, are no more than the requests there are, by counting in the finite set
  `Requests` (`LimitersBounded`); a limit in the tenant of an update that has not written yet is the
  one last asked for, or the update is overtaken in it, or it was undone before
  (`Carries`), hence `UpdatesKept`; `LockedWhileAdmitting`.
- `LogStream_proofs`: rows and late INSERTs end at or before `flushed`, which gives
  `LinesOnce`; with nothing lost, they cover all up to `flushed`, and
  at the end all that was written, `AllStored`. `ImplementsLog` is the refinement
  `Spec => KeepsLog`; it needs `FollowInv`: while nothing is lost no INSERT is late
  and the last row ends where the batch begins.
- `LogTable_proofs`: of two INSERTs that did not overlap, the one that began first
  was over when the other drew its id, so ids and `created_at` agree in their
  order; what lies under `lastID` unprinted was passed over for an entry printed
  in its place. From it `PrintedOnce`,
  `SkippedOverlapped`, `PrintedInOrder` and the action property `StopsCaughtUp`.

Only model-checked: liveness (`EverySubmittedFinishes`, `WorkIsFetched`,
`ShutdownEnds`, `Returns`, `SuccessAnswered`,
`UpdatesTakeEffect`, `RequestsAnswered`, `StreamEnds`, `WritesFlow`,
`LinesArrive`, `StoredIsPrinted`), which is out of the prover's reach. Every invariant, action
property and refinement the passing runs check is a theorem as well.

## Not modelled

Payloads, log contents, exit codes, time stamps and formatting; `ListDLQ`,
`Count` and `GetExecution` as reads; job definitions; name, callback and key of
a tenant; the number of tokens in a limiter; the log streams of Docker and
Kubernetes, which have one stream and no pipes of the worker's; directories,
result files and images; configuration, key hashing, metrics, tracing,
migrations, and the commands of `jobctl` that send one request and print the
answer: they keep no state, or compute a value from one input.
`ORDER BY created_at` of a dequeue is left open (any row of the highest
priority may be first), which allows more than the code does. Time is abstract:
leases, delays and limits end, when is not said, so nothing here speaks of
`TIMESTAMP` without a time zone.

## Plan

Done: the store with its refinement, the pull loop, one execution on the three
runtimes, callbacks, tenants with limiter and admission, the log stream and the
log table with the abstract log. Left:

1. The composition of `JobStore` with workers built from `Agent` and `Claim`. It
   would restate what the refinement of `Claim` already gives for one worker, in a
   state space that leaves room for little else; it comes last.
