------------------------------- MODULE LogStream -------------------------------
(***************************************************************************)
(* The log of one execution of the exec runtime on its way from the        *)
(* command to the rows of execution_logs: the two pipes of the command     *)
(* (internal/worker/runtime/exec.go, combinedReader), the scanner          *)
(* goroutine, lineChan and the batching loop of streamLogs, and sendLogs   *)
(* (internal/worker/agent.go).                                             *)
(*                                                                         *)
(* Lines are numbered in the order in which they are read: all of stdout,  *)
(* then all of stderr.  Channel, batch and rows are then intervals of      *)
(* numbers, and what a line says is left out.  The buffer of bufio.Scanner *)
(* counts as part of the pipe.                                             *)
(***************************************************************************)
EXTENDS Naturals, Sequences

CONSTANTS
    MaxLines,    \* bound: lines the command writes
    PipeCap,     \* lines that a pipe holds
    ChanCap,     \* capacity of lineChan (100)
    BatchSize,   \* logBatchSize (100)
    MaxFaults    \* bound: posts that fail

ASSUME SizesAssumption ==
    /\ MaxLines \in Nat /\ MaxFaults \in Nat
    /\ PipeCap \in Nat \ {0} /\ ChanCap \in Nat \ {0} /\ BatchSize \in Nat \ {0}

VARIABLES
    alive,       \* the command runs
    wants,       \* what the command does next
    open,        \* the pipes that somebody can still write to
    written,     \* lines written to each pipe
    taken,       \* lines read from each pipe
    readable,    \* the read ends of the pipes are open
    scanning,    \* the scanner goroutine runs: lineChan is not closed
    got,         \* lines received from lineChan
    flushed,     \* lines of the batches that were cleared
    loop,        \* where the loop of streamLogs is
    cancelled,   \* the context of Run is done
    rows,        \* rows of execution_logs, in the order of their commits
    late,        \* posts given up by the worker whose INSERT still runs
    faults,      \* posts that failed
    lost         \* history: something happened that costs lines

command == <<alive, wants, open, written>>
scanner == <<taken, scanning>>
batching == <<got, flushed, loop>>
table == <<rows, late, faults>>
vars == <<command, readable, scanner, batching, cancelled, table, lost>>

Streams == {"out", "err"}
Acts == Streams \cup {"shut", "exit"}
Total(f) == f["out"] + f["err"]
Unread(s) == written[s] - taken[s]
sent == Total(taken)
Interval == [from : 1..MaxLines, to : 1..MaxLines]
batch == [from |-> flushed + 1, to |-> got]

TypeOK ==
    /\ alive \in BOOLEAN /\ readable \in BOOLEAN /\ scanning \in BOOLEAN
    /\ cancelled \in BOOLEAN /\ lost \in BOOLEAN
    /\ wants \in Acts
    /\ open \subseteq Streams
    /\ written \in [Streams -> 0..MaxLines] /\ Total(written) <= MaxLines
    /\ taken \in [Streams -> 0..MaxLines]
    /\ \A s \in Streams : taken[s] <= written[s] /\ Unread(s) <= PipeCap
    /\ got \in 0..MaxLines /\ flushed \in 0..MaxLines
    /\ flushed <= got /\ got <= sent /\ sent - got <= ChanCap
    /\ got - flushed <= BatchSize
    /\ loop \in {"select", "post", "last", "done"}
    /\ rows \in Seq(Interval)
    /\ late \subseteq Interval
    /\ faults \in 0..MaxFaults

Init ==
    /\ alive = TRUE
    /\ wants \in Acts /\ (wants \in Streams => MaxLines > 0)
    /\ open = Streams
    /\ written = [s \in Streams |-> 0]
    /\ taken = [s \in Streams |-> 0]
    /\ readable = TRUE /\ scanning = TRUE
    /\ got = 0 /\ flushed = 0 /\ loop = "select"
    /\ cancelled = FALSE
    /\ rows = <<>> /\ late = {} /\ faults = 0
    /\ lost = FALSE

-------------------------------------------------------------------------------
(* The command writes lines to either pipe, closes its stdout or exits, in *)
(* an order of its own.                                                    *)
Proceeds ==
    /\ wants' \in Acts
    /\ wants' \in Streams => wants' \in open' /\ Total(written') < MaxLines
    /\ wants' = "shut" => "out" \in open'

(* A write blocks while the pipe is full.                                  *)
Write(s) ==
    /\ alive /\ wants = s /\ readable
    /\ Unread(s) < PipeCap
    /\ written' = [written EXCEPT ![s] = @ + 1]
    /\ UNCHANGED <<alive, open>>
    /\ Proceeds
    /\ UNCHANGED <<readable, scanner, batching, cancelled, table, lost>>

(* When nobody can read it the write fails, and a command that does not    *)
(* handle SIGPIPE is killed by it.                                         *)
WriteFails(s) ==
    /\ alive /\ wants = s /\ ~readable
    /\ lost' = TRUE
    /\ UNCHANGED <<open, written>>
    /\ \/ alive' = FALSE /\ UNCHANGED wants
       \/ alive' = alive /\ Proceeds
    /\ UNCHANGED <<readable, scanner, batching, cancelled, table>>

CloseStdout ==
    /\ alive /\ wants = "shut"
    /\ open' = open \ {"out"}
    /\ UNCHANGED <<alive, written>>
    /\ Proceeds
    /\ UNCHANGED <<readable, scanner, batching, cancelled, table, lost>>

(* The command exits, or is killed because its context is done.  Children  *)
(* it leaves behind may keep the pipes open.                               *)
Exit ==
    /\ alive
    /\ alive' = FALSE
    /\ open' \in {{}, open}
    /\ UNCHANGED <<wants, written>>
    /\ UNCHANGED <<readable, scanner, batching, cancelled, table, lost>>

(* The read ends of the pipes are closed; what is in them is gone.         *)
CloseReaders ==
    /\ readable' = FALSE
    /\ lost' = (lost \/ \E s \in Streams : Unread(s) > 0)

(* Mutant: Wait returns when all who hold the pipes are gone.              *)
WaitClosesLate ==
    /\ ~alive /\ open = {} /\ readable
    /\ CloseReaders
    /\ UNCHANGED <<command, scanner, batching, cancelled, table>>

(* cmd.Wait, which runs beside streamLogs, closes them when the command    *)
(* has exited, whether or not all has been read.                           *)
WaitCloses ==
    /\ ~alive /\ readable
    /\ CloseReaders
    /\ UNCHANGED <<command, scanner, batching, cancelled, table>>

(* SIGTERM: the context that Run passes on is done.                        *)
Sigterm ==
    /\ ~cancelled
    /\ cancelled' = TRUE
    /\ UNCHANGED <<command, readable, scanner, batching, table, lost>>

-------------------------------------------------------------------------------
(* io.MultiReader reads stderr when stdout has ended.                      *)
Ended(s) == s \notin open /\ Unread(s) = 0

(* Mutant: stderr is read first.                                           *)
ReadingErrFirst(s) == s = "err" \/ Ended("err")

Reading(s) == s = "out" \/ Ended("out")

(* A line goes from its pipe to lineChan.                                  *)
Scan(s) ==
    /\ scanning /\ readable
    /\ Reading(s) /\ Unread(s) > 0
    /\ sent - got < ChanCap
    /\ taken' = [taken EXCEPT ![s] = @ + 1]
    /\ UNCHANGED scanning
    /\ UNCHANGED <<command, readable, batching, cancelled, table, lost>>

(* The scanner ends at the end of both streams, when the read ends have    *)
(* been closed or the context is done; and at a line of more than 64 KB.   *)
ScanEnds ==
    /\ scanning
    /\ scanning' = FALSE
    /\ \/ ~readable /\ UNCHANGED lost
       \/ (\A s \in Streams : Ended(s)) /\ UNCHANGED lost
       \/ (cancelled \/ \E s \in Streams : Reading(s) /\ Unread(s) > 0) /\ lost' = TRUE
    /\ UNCHANGED taken
    /\ UNCHANGED <<command, readable, batching, cancelled, table>>

-------------------------------------------------------------------------------
Full(n) == n >= BatchSize

(* The loop of streamLogs: a line, the ticker, the closed lineChan, or the *)
(* end of the context, which leaves the flush no chance.                   *)
Receive ==
    /\ loop = "select" /\ got < sent
    /\ got' = got + 1
    /\ loop' = IF Full(got' - flushed) THEN "post" ELSE "select"
    /\ UNCHANGED flushed
    /\ UNCHANGED <<command, readable, scanner, cancelled, table, lost>>

(* Mutant: the ticker only flushes full batches.                           *)
TickFull ==
    /\ loop = "select" /\ Full(got - flushed)
    /\ loop' = "post"
    /\ UNCHANGED <<got, flushed>>
    /\ UNCHANGED <<command, readable, scanner, cancelled, table, lost>>

Tick ==
    /\ loop = "select" /\ flushed < got
    /\ loop' = "post"
    /\ UNCHANGED <<got, flushed>>
    /\ UNCHANGED <<command, readable, scanner, cancelled, table, lost>>

Finished == loop = "select" /\ ~scanning /\ got = sent

(* Mutant: what is left of the batch is not flushed.                       *)
ChannelClosedAtOnce ==
    /\ Finished
    /\ loop' = "done" /\ CloseReaders
    /\ UNCHANGED <<got, flushed>>
    /\ UNCHANGED <<command, scanner, cancelled, table>>

ChannelClosed ==
    /\ Finished
    /\ IF flushed < got
       THEN loop' = "last" /\ UNCHANGED <<readable, lost>>
       ELSE loop' = "done" /\ CloseReaders
    /\ UNCHANGED <<got, flushed>>
    /\ UNCHANGED <<command, scanner, cancelled, table>>

ContextDone ==
    /\ loop = "select" /\ cancelled
    /\ loop' = "done"
    /\ readable' = FALSE /\ lost' = TRUE
    /\ UNCHANGED <<got, flushed>>
    /\ UNCHANGED <<command, scanner, cancelled, table>>

(* Mutant: the batch is not cleared.                                       *)
Unclear == flushed' = flushed

(* sendLogs has returned: the batch is cleared whatever it returned.  The  *)
(* loop goes on, or streamLogs returns and closes the pipes.               *)
Clear == flushed' = got

AfterPost == IF loop = "post" THEN "select" ELSE "done"

(* The row is in the table, whether or not the worker gets the 202.        *)
PostStored ==
    /\ loop \in {"post", "last"}
    /\ rows' = Append(rows, batch)
    /\ Clear
    /\ loop' = AfterPost
    /\ IF loop = "last" THEN CloseReaders ELSE UNCHANGED <<readable, lost>>
    /\ UNCHANGED <<got, late, faults>>
    /\ UNCHANGED <<command, scanner, cancelled>>

(* An error, the 5 s of the client or the end of the context: there is no  *)
(* second post, but the INSERT of the first may still commit.              *)
PostFails ==
    /\ loop \in {"post", "last"}
    /\ cancelled \/ faults < MaxFaults
    /\ faults' = IF cancelled THEN faults ELSE faults + 1
    /\ late' \in {late, late \cup {batch}}
    /\ Clear
    /\ loop' = AfterPost
    /\ lost' = TRUE
    /\ readable' = (readable /\ loop # "last")
    /\ UNCHANGED <<got, rows>>
    /\ UNCHANGED <<command, scanner, cancelled>>

LateInsert(x) ==
    /\ rows' = Append(rows, x)
    /\ late' = late \ {x}
    /\ UNCHANGED faults
    /\ UNCHANGED <<command, readable, scanner, batching, cancelled, lost>>

Command == CloseStdout \/ \E s \in Streams : Write(s) \/ WriteFails(s)
Scanner == ScanEnds \/ \E s \in Streams : Scan(s)
StreamLogs == Receive \/ Tick \/ ChannelClosed \/ ContextDone \/ PostStored \/ PostFails

Next ==
    \/ Command \/ Exit \/ WaitCloses \/ Sigterm
    \/ Scanner \/ StreamLogs
    \/ \E x \in late : LateInsert(x)

Spec == Init /\ [][Next]_vars

(* Goroutines run, posts return, and a command does what it is about to do.*)
Fairness ==
    /\ WF_vars(Command) /\ WF_vars(WaitCloses)
    /\ WF_vars(Scanner) /\ WF_vars(StreamLogs)

FairSpec == Spec /\ Fairness

-------------------------------------------------------------------------------
(* No line is in two rows, late INSERTs included: a batch is posted once.  *)
Apart(x, y) == x.to < y.from \/ y.to < x.from

LinesOnce ==
    /\ \A i, j \in 1..Len(rows) : i # j => Apart(rows[i], rows[j])
    /\ \A i \in 1..Len(rows) : \A x \in late : Apart(rows[i], x)

(* When streamLogs has returned, every line the command has written is in  *)
(* a row, unless something is known to have cost lines: a post that        *)
(* failed, the end of the context, a line too long, or cmd.Wait, which     *)
(* closed the pipes before the last lines were read.                       *)
AllStored ==
    loop = "done" /\ ~lost =>
        \A n \in 1..Total(written) :
            \E i \in 1..Len(rows) : n \in rows[i].from..rows[i].to

(* The stream implements Log: rows are only added, of lines that no row    *)
(* has, late INSERTs included; they follow each other until something that *)
(* costs lines is met, and if nothing was they are all lines at the end.   *)
Kept == INSTANCE Log
    WITH written <- Total(written), sound <- ~lost, ended <- (loop = "done")

KeepsLog == Kept!Spec

(* streamLogs returns when the command has exited, even if a child of the  *)
(* command holds the pipes, so that the worker can report the execution.   *)
StreamEnds == ~alive ~> loop = "done"

(* A command is not stuck for ever in a write to stdout, nor in one to     *)
(* stderr after it has closed stdout: whatever befalls scanner and posts,  *)
(* the pipe is read or its read end is closed.                             *)
Stuck(s, n) == alive /\ readable /\ wants = s /\ written[s] = n

WritesFlow ==
    \A s \in Streams, n \in 0..MaxLines :
        Stuck(s, n) /\ (s = "err" => "out" \notin open) ~> ~Stuck(s, n)

(* What the command has written to stdout, or to stderr after it closed    *)
(* stdout, becomes a row, or a loss is known: no line waits for the next   *)
(* ones, nor for the end of a command that goes on, or that blocks on a    *)
(* stderr which is not read.                                               *)
Readable(n) ==
    n <= written["out"] \/ ("out" \notin open /\ n <= Total(written))

LinesArrive ==
    \A n \in 1..MaxLines :
        Readable(n) ~> lost \/ \E i \in 1..Len(rows) : n \in rows[i].from..rows[i].to
===============================================================================
