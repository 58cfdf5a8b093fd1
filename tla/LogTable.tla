------------------------------- MODULE LogTable --------------------------------
(***************************************************************************)
(* The rows of execution_logs of one execution: InternalAddLogs and        *)
(* GetExecutionLogs (internal/controller/handlers/logs.go), AddLogEntry    *)
(* and GetExecutionLogs of the store (store/postgres/log.go), and the      *)
(* command "jobctl logs" that reads them page by page (cmd/cli/cmd).       *)
(*                                                                         *)
(* An INSERT takes its created_at when its transaction begins and its id   *)
(* from the sequence when it runs, and can be seen when it has committed.  *)
(* The worker posts one batch after the other (LogStream), but the INSERT  *)
(* of a post it has given up may still be running when the next begins.    *)
(***************************************************************************)
EXTENDS Naturals, Sequences

CONSTANTS
    MaxEntries,    \* bound: posts
    Limit,         \* rows of a page (1000)
    MaxTimeouts    \* bound: posts the worker gives up

ASSUME EntriesAssumption == MaxEntries \in Nat /\ MaxTimeouts \in Nat
ASSUME LimitAssumption == Limit \in Nat \ {0}

Entries == 1..MaxEntries

VARIABLES
    sent,       \* posts the worker has sent
    timeouts,   \* posts it has given up
    stage,      \* of the INSERT of an entry
    created,    \* created_at, as a number in the order of the transactions
    id,         \* the id from the sequence
    clock,      \* transactions so far
    sequence,   \* ids so far
    met,        \* history: entries whose INSERT ran when this one began
    readable,   \* the execution has a result, so that it can be read
    follow,     \* the command was given --follow
    lastID,     \* its lastID
    printed,    \* entries it has printed
    reader      \* whether it goes on

inserts == <<sent, timeouts, stage, created, id, clock, sequence, met>>
command == <<follow, lastID, printed, reader>>
vars == <<inserts, readable, command>>

Stages == {"none", "begun", "drawn", "stored", "failed"}

TypeOK ==
    /\ sent \in 0..MaxEntries /\ timeouts \in 0..MaxTimeouts
    /\ stage \in [Entries -> Stages]
    /\ created \in [Entries -> Nat] /\ id \in [Entries -> Nat]
    /\ clock \in Nat /\ sequence \in Nat
    /\ met \in [Entries -> SUBSET Entries]
    /\ readable \in BOOLEAN /\ follow \in BOOLEAN
    /\ lastID \in Nat
    /\ printed \in Seq(Entries)
    /\ reader \in {"fetch", "done", "error"}

Init ==
    /\ sent = 0 /\ timeouts = 0
    /\ stage = [e \in Entries |-> "none"]
    /\ created = [e \in Entries |-> 0] /\ id = [e \in Entries |-> 0]
    /\ clock = 0 /\ sequence = 0
    /\ met = [e \in Entries |-> {}]
    /\ readable = FALSE
    /\ follow \in BOOLEAN
    /\ lastID = 0 /\ printed = <<>> /\ reader = "fetch"

Step(e, from, to) == stage[e] = from /\ stage' = [stage EXCEPT ![e] = to]
InFlight == {e \in Entries : stage[e] \in {"begun", "drawn"}}
Stored == {e \in Entries : stage[e] = "stored"}

-------------------------------------------------------------------------------
(* sendLogs sends the next post when the one before it was answered, or    *)
(* its 5 s have passed.                                                    *)
Answered == \A e \in 1..sent : stage[e] \in {"stored", "failed"}

SendLogs ==
    /\ sent < MaxEntries
    /\ \/ Answered /\ UNCHANGED timeouts
       \/ ~Answered /\ timeouts < MaxTimeouts /\ timeouts' = timeouts + 1
    /\ sent' = sent + 1
    /\ UNCHANGED <<stage, created, id, clock, sequence, met, readable, command>>

(* AddLogEntry: one INSERT, in a transaction of its own.                   *)
Begin(e) ==
    /\ e <= sent
    /\ Step(e, "none", "begun")
    /\ clock' = clock + 1
    /\ created' = [created EXCEPT ![e] = clock']
    /\ met' = [met EXCEPT ![e] = InFlight]
    /\ UNCHANGED <<sent, timeouts, id, sequence, readable, command>>

Draw(e) ==
    /\ Step(e, "begun", "drawn")
    /\ sequence' = sequence + 1
    /\ id' = [id EXCEPT ![e] = sequence']
    /\ UNCHANGED <<sent, timeouts, created, clock, met, readable, command>>

Commit(e) ==
    /\ Step(e, "drawn", "stored")
    /\ UNCHANGED <<sent, timeouts, created, id, clock, sequence, met, readable, command>>

(* The post does not reach the controller, or the INSERT is cancelled or   *)
(* fails.                                                                  *)
Abort(e) ==
    /\ e <= sent
    /\ \E from \in {"none", "begun", "drawn"} : Step(e, from, "failed")
    /\ UNCHANGED <<sent, timeouts, created, id, clock, sequence, met, readable, command>>

(* Complete gives the execution its result (JobStore): GetExecutionByID,   *)
(* which the handler calls first, cannot read one without.                 *)
Complete ==
    /\ ~readable
    /\ readable' = TRUE
    /\ UNCHANGED <<inserts, command>>

-------------------------------------------------------------------------------
(* Mutants: the last page first; no order.                                 *)
BeforeLatest(e, f) == created[e] > created[f]
BeforeAny(e, f) == TRUE

(* ORDER BY created_at.                                                    *)
Before(e, f) == created[e] < created[f]

(* The first rows with an id greater than lastID, at most Limit of them.   *)
(* GetExecutionLogs does not look at rows.Err: a query that breaks between *)
(* two rows returns those before as a success.  Before the first row the   *)
(* driver returns the error from the query itself, so that no row means    *)
(* that there is none.                                                     *)
New == {e \in Stored : id[e] > lastID}
Held(page) == {page[i] : i \in 1..Len(page)}

IsPage(page) ==
    /\ \A i, j \in 1..Len(page) : i < j => page[i] # page[j] /\ Before(page[i], page[j])
    /\ \A e \in New \ Held(page) :
         page # <<>> /\ \A i \in 1..Len(page) : Before(page[i], e)

Pages == UNION {[1..n -> New] : n \in 0..Limit}

(* Mutant: the id of the last entry of the page.                           *)
IsHighestLast(n, page) == n = IF page = <<>> THEN lastID ELSE id[page[Len(page)]]

(* The greatest id the command has seen.                                   *)
IsHighest(n, page) == \A e \in Held(page) : id[e] <= n

(* Mutants: a page that is not full is the last; an empty page ends        *)
(* --follow as well.                                                       *)
AfterPageShort(page) == IF follow \/ Len(page) = Limit THEN "fetch" ELSE "done"
AfterPageStops(page) == IF page # <<>> THEN "fetch" ELSE "done"

AfterPage(page) == IF follow \/ page # <<>> THEN "fetch" ELSE "done"

(* The command prints a page; without --follow an empty one is the last.   *)
GetLogs ==
    /\ reader = "fetch" /\ readable
    /\ \E page \in Pages :
         /\ IsPage(page)
         /\ printed' = printed \o page
         /\ lastID' \in {lastID} \cup {id[e] : e \in Held(page)}
         /\ IsHighest(lastID', page)
         /\ reader' = AfterPage(page)
    /\ UNCHANGED <<inserts, readable, follow>>

(* An error, and the 404 of an execution that cannot be read.              *)
GetLogsFails ==
    /\ reader = "fetch" /\ ~follow
    /\ reader' = "error"
    /\ UNCHANGED <<inserts, readable, follow, lastID, printed>>

Next ==
    \/ SendLogs \/ Complete
    \/ \E e \in Entries : Begin(e) \/ Draw(e) \/ Commit(e) \/ Abort(e)
    \/ GetLogs \/ GetLogsFails

Spec == Init /\ [][Next]_vars

(* A command that follows polls again and again.                           *)
FairSpec == Spec /\ WF_vars(GetLogs)

-------------------------------------------------------------------------------
Met(e, f) == e \in met[f] \/ f \in met[e]

(* No entry is printed twice.                                              *)
PrintedOnce ==
    \A i, j \in 1..Len(printed) : i # j => printed[i] # printed[j]

(* An entry that lastID has passed was printed, unless its INSERT and that *)
(* of one printed in its place ran at the same time.                       *)
SkippedOverlapped ==
    \A e \in Stored :
        id[e] <= lastID /\ e \notin Held(printed)
            => \E f \in Held(printed) : Met(e, f)

(* Entries are printed in the order of their INSERTs.                      *)
PrintedInOrder ==
    \A i, j \in 1..Len(printed) :
        i < j /\ id[printed[i]] > id[printed[j]] => Met(printed[i], printed[j])

(* When the command stops, all that is there has been printed, but for     *)
(* what was skipped as above.                                              *)
StopsCaughtUp ==
    [][reader = "fetch" /\ reader' = "done" =>
         \A e \in Stored :
             e \in Held(printed) \/ \E f \in Held(printed) : Met(e, f)]_vars

(* A command that follows prints, once the execution has a result, every   *)
(* entry whose INSERT ran alone.                                           *)
Alone(e) == met[e] = {} /\ \A f \in Entries : e \notin met[f]

StoredIsPrinted ==
    \A e \in Entries :
        follow /\ readable /\ e \in Stored ~> e \in Held(printed) \/ ~Alone(e)
===============================================================================
