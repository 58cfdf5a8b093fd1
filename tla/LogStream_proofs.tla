--------------------------- MODULE LogStream_proofs ----------------------------
(***************************************************************************)
(* The rows of a log, proved for any number of lines and of failures and   *)
(* any size of pipe, channel and batch.  As lines are numbers, the         *)
(* inductive invariant says where the loop is: how much of what was read   *)
(* it has received, and that the rows lie below what it has cleared.       *)
(***************************************************************************)
EXTENDS LogStream, TLAPS

(* A batch that is posted is not empty, one that is filled is not full; on *)
(* the way out nothing is left in lineChan.                                *)
LoopInv ==
    /\ loop \in {"post", "last"} => flushed < got
    /\ loop = "select" => got - flushed < BatchSize
    /\ loop = "last" => ~scanning /\ got = sent

(* Rows, those to come included, are of lines that have been cleared.      *)
Below(x, n) == x.from <= x.to /\ x.to <= n

RowsInv ==
    /\ \A i \in 1..Len(rows) : Below(rows[i], flushed)
    /\ \A x \in late : Below(x, flushed)
    /\ \A x, y \in late : x = y \/ Apart(x, y)
    /\ LinesOnce

(* Nothing is missing of what has been cleared; at the end that is all.    *)
Covered(n) == \E i \in 1..Len(rows) : n \in rows[i].from..rows[i].to

CoverInv == lost \/ \A n \in 1..flushed : Covered(n)

DoneInv ==
    loop = "done" =>
        /\ ~readable
        /\ lost \/ flushed = Total(written)

(* MaxLines is room for what the command wants to write.                   *)
RoomInv == wants \in Streams => Total(written) < MaxLines

IInv == TypeOK /\ RoomInv /\ LoopInv /\ RowsInv /\ CoverInv /\ DoneInv

USE SizesAssumption DEF SizesAssumption

-------------------------------------------------------------------------------
LEMMA Numbers ==
    ASSUME TypeOK
    PROVE  /\ sent \in Nat /\ sent <= MaxLines /\ sent <= Total(written)
           /\ got \in Nat /\ flushed \in Nat /\ got <= MaxLines
<1>1. /\ taken["out"] \in Nat /\ taken["err"] \in Nat
      /\ written["out"] \in Nat /\ written["err"] \in Nat
      /\ taken["out"] <= written["out"] /\ taken["err"] <= written["err"]
  BY DEF TypeOK, Streams
<1> QED BY <1>1 DEF TypeOK, sent, Total

LEMMA InitInv == Init => IInv
<1> SUFFICES ASSUME Init PROVE IInv
  OBVIOUS
<1>1. /\ written \in [Streams -> 0..MaxLines] /\ Total(written) <= MaxLines
      /\ taken \in [Streams -> 0..MaxLines] /\ sent = 0
      /\ \A s \in Streams : taken[s] <= written[s] /\ Unread(s) <= PipeCap
  BY DEF Init, Streams, Total, sent, Unread
<1>2. rows \in Seq(Interval) /\ Len(rows) = 0
  BY DEF Init
<1>3. TypeOK
  <2>1. /\ wants \in Acts /\ open \subseteq Streams
        /\ loop \in {"select", "post", "last", "done"} /\ late \subseteq Interval
    BY DEF Init
  <2>2. /\ alive \in BOOLEAN /\ readable \in BOOLEAN /\ scanning \in BOOLEAN
        /\ cancelled \in BOOLEAN /\ lost \in BOOLEAN
    BY DEF Init
  <2>3. /\ got \in 0..MaxLines /\ flushed \in 0..MaxLines /\ faults \in 0..MaxFaults
        /\ flushed <= got /\ got <= sent /\ sent - got <= ChanCap
        /\ got - flushed <= BatchSize
    BY <1>1 DEF Init
  <2> QED BY <1>1, <1>2, <2>1, <2>2, <2>3 DEF TypeOK
<1>4. RoomInv /\ LoopInv /\ DoneInv
  BY DEF Init, RoomInv, LoopInv, DoneInv, Total, Streams
<1>5. RowsInv
  BY <1>2 DEF Init, RowsInv, LinesOnce
<1>6. CoverInv
  BY DEF Init, CoverInv
<1> QED BY <1>3, <1>4, <1>5, <1>6 DEF IInv

-------------------------------------------------------------------------------
(* The types, part by part.                                                *)
Flags ==
    /\ alive \in BOOLEAN /\ readable \in BOOLEAN /\ scanning \in BOOLEAN
    /\ cancelled \in BOOLEAN /\ lost \in BOOLEAN

Pipes ==
    /\ written \in [Streams -> 0..MaxLines] /\ Total(written) <= MaxLines
    /\ taken \in [Streams -> 0..MaxLines]
    /\ \A s \in Streams : taken[s] <= written[s] /\ Unread(s) <= PipeCap

Counts ==
    /\ got \in 0..MaxLines /\ flushed \in 0..MaxLines
    /\ flushed <= got /\ got <= sent /\ sent - got <= ChanCap
    /\ got - flushed <= BatchSize

Table == rows \in Seq(Interval) /\ late \subseteq Interval /\ faults \in 0..MaxFaults

LEMMA TypeParts ==
    TypeOK <=> /\ Flags /\ Pipes /\ Counts /\ Table
               /\ wants \in Acts /\ open \subseteq Streams
               /\ loop \in {"select", "post", "last", "done"}
BY DEF TypeOK, Flags, Pipes, Counts, Table

LEMMA FlagsStep == TypeOK /\ [Next]_vars => Flags'
<1> SUFFICES ASSUME TypeOK, [Next]_vars PROVE Flags'
  OBVIOUS
<1> USE DEF Flags, TypeOK, scanner, batching, table, command
<1>1. CASE Command
  BY <1>1 DEF Command, CloseStdout, Write, WriteFails
<1>2. CASE Exit \/ WaitCloses \/ Sigterm
  BY <1>2 DEF Exit, WaitCloses, CloseReaders, Sigterm
<1>3. CASE Scanner
  BY <1>3 DEF Scanner, Scan, ScanEnds
<1>4. CASE Receive \/ Tick
  BY <1>4 DEF Receive, Tick
<1>5. CASE ChannelClosed \/ ContextDone
  BY <1>5 DEF ChannelClosed, ContextDone, CloseReaders
<1>6. CASE PostStored
  BY <1>6 DEF PostStored, CloseReaders
<1>7. CASE PostFails
  BY <1>7 DEF PostFails
<1>8. ASSUME NEW x \in late, LateInsert(x) PROVE Flags'
  BY <1>8 DEF LateInsert
<1>9. CASE UNCHANGED vars
  BY <1>9 DEF vars
<1> QED
  BY <1>1, <1>2, <1>3, <1>4, <1>5, <1>6, <1>7, <1>8, <1>9 DEF Next, StreamLogs

(* What the steps touch.                                                   *)
LEMMA Touches ==
    ASSUME [Next]_vars
    PROVE  \/ \E s \in Streams : Write(s)
           \/ \E s \in Streams : Scan(s)
           \/ Receive
           \/ PostStored \/ PostFails
           \/ \E x \in late : LateInsert(x)
           \/ UNCHANGED <<written, taken, got, flushed, table>>
<1> USE DEF command, scanner, batching, table
<1> DEFINE Same == UNCHANGED <<written, taken, got, flushed, table>>
<1>1. CloseStdout \/ Exit \/ Sigterm => Same
  BY DEF CloseStdout, Exit, Sigterm
<1>2. WaitCloses => Same
  BY DEF WaitCloses
<1>3. ASSUME NEW s \in Streams, WriteFails(s) PROVE Same
  BY <1>3 DEF WriteFails
<1>4. ScanEnds \/ Tick \/ ContextDone => Same
  BY DEF ScanEnds, Tick, ContextDone
<1>5. ChannelClosed => Same
  BY DEF ChannelClosed
<1>6. UNCHANGED vars => Same
  BY DEF vars
<1> QED
  BY <1>1, <1>2, <1>3, <1>4, <1>5, <1>6 DEF Next, Command, Scanner, StreamLogs

LEMMA PipesStep == TypeOK /\ RoomInv /\ [Next]_vars => Pipes'
<1> SUFFICES ASSUME TypeOK, RoomInv, [Next]_vars PROVE Pipes'
  OBVIOUS
<1>0. Pipes
  BY TypeParts
<1>1. ASSUME NEW s \in Streams, Write(s) PROVE Pipes'
  <2>1. /\ written' = [written EXCEPT ![s] = @ + 1] /\ taken' = taken
        /\ Unread(s) < PipeCap
    BY <1>1 DEF Write, scanner
  <2>2. Total(written) < MaxLines
    BY <1>1 DEF Write, RoomInv
  <2> QED BY <1>0, <2>1, <2>2 DEF Pipes, Total, Unread, Streams
<1>2. ASSUME NEW s \in Streams, Scan(s) PROVE Pipes'
  BY <1>0, <1>2 DEF Scan, Pipes, Unread, Total, command
<1>3. CASE UNCHANGED <<written, taken>>
  BY <1>0, <1>3 DEF Pipes, Unread, Total
<1> QED
  BY <1>1, <1>2, <1>3, Touches
  DEF Receive, PostStored, PostFails, LateInsert, command, scanner

LEMMA RoomStep ==
    TypeOK /\ RoomInv /\ [Next]_vars =>
        RoomInv' /\ wants' \in Acts /\ open' \subseteq Streams
<1> SUFFICES ASSUME TypeOK, RoomInv, [Next]_vars
             PROVE  RoomInv' /\ wants' \in Acts /\ open' \subseteq Streams
  OBVIOUS
<1>1. CASE Proceeds /\ open' \subseteq Streams
  BY <1>1 DEF Proceeds, RoomInv
<1>2. CASE UNCHANGED <<wants, written>> /\ open' \subseteq Streams
  BY <1>2 DEF RoomInv, TypeOK, Total
<1>3. open' \in {{}, open, open \ {"out"}} => open' \subseteq Streams
  BY DEF TypeOK
<1>4. CASE Command
  BY <1>1, <1>2, <1>3, <1>4 DEF Command, CloseStdout, Write, WriteFails
<1>5. CASE Exit
  BY <1>2, <1>3, <1>5 DEF Exit
<1>6. CASE UNCHANGED command
  BY <1>2, <1>3, <1>6 DEF command
<1>7. Scanner \/ WaitCloses \/ Sigterm => UNCHANGED command
  BY DEF Scanner, Scan, ScanEnds, WaitCloses, Sigterm
<1>8. StreamLogs => UNCHANGED command
  BY DEF StreamLogs, Receive, Tick, ChannelClosed, ContextDone, PostStored, PostFails
<1>9. \A x \in late : LateInsert(x) => UNCHANGED command
  BY DEF LateInsert
<1> QED BY <1>4, <1>5, <1>6, <1>7, <1>8, <1>9 DEF Next, vars

LEMMA SentGrows ==
    ASSUME TypeOK, [Next]_vars
    PROVE  /\ sent' = sent \/ (sent' = sent + 1 /\ scanning /\ sent - got < ChanCap
                                /\ UNCHANGED <<got, flushed, loop, scanning>>)
<1>1. ASSUME NEW s \in Streams, Scan(s)
      PROVE  /\ sent' = sent + 1 /\ scanning /\ sent - got < ChanCap
             /\ UNCHANGED <<got, flushed, loop, scanning>>
  <2>1. /\ taken' = [taken EXCEPT ![s] = @ + 1] /\ scanning /\ sent - got < ChanCap
        /\ UNCHANGED <<got, flushed, loop, scanning>>
    BY <1>1 DEF Scan, batching
  <2>2. sent' = sent + 1
    BY <2>1 DEF TypeOK, sent, Total, Streams
  <2> QED BY <2>1, <2>2
<1>2. UNCHANGED taken => sent' = sent
  BY DEF sent, Total
<1> QED
  BY <1>1, <1>2, Touches
  DEF Write, Receive, PostStored, PostFails, LateInsert, scanner

(* The loop, and how much it has received and cleared.                     *)
Loops(to) == loop' = to /\ UNCHANGED <<got, flushed>>

LEMMA LoopMoves ==
    ASSUME [Next]_vars
    PROVE  \/ UNCHANGED <<got, flushed, loop>>
           \/ /\ loop = "select" /\ got < sent /\ got' = got + 1 /\ flushed' = flushed
              /\ loop' = IF got' - flushed >= BatchSize THEN "post" ELSE "select"
           \/ loop = "select" /\ flushed < got /\ Loops("post")
           \/ loop = "select" /\ ~scanning /\ got = sent /\ flushed < got /\ Loops("last")
           \/ Loops("done")
           \/ /\ loop \in {"post", "last"} /\ flushed' = got /\ got' = got
              /\ loop' \in {"select", "done"}
<1> DEFINE Goal == \/ UNCHANGED <<got, flushed, loop>>
                   \/ /\ loop = "select" /\ got < sent /\ got' = got + 1
                      /\ flushed' = flushed
                      /\ loop' = IF got' - flushed >= BatchSize THEN "post" ELSE "select"
                   \/ loop = "select" /\ flushed < got /\ Loops("post")
                   \/ /\ loop = "select" /\ ~scanning /\ got = sent /\ flushed < got
                      /\ Loops("last")
                   \/ Loops("done")
                   \/ /\ loop \in {"post", "last"} /\ flushed' = got /\ got' = got
                      /\ loop' \in {"select", "done"}
<1>1. Receive => Goal
  BY DEF Receive, Full
<1>2. Tick => Goal
  BY DEF Tick, Loops
<1>3. ChannelClosed => Goal
  BY DEF ChannelClosed, Finished, Loops
<1>4. ContextDone => Goal
  BY DEF ContextDone, Loops
<1>5. PostStored \/ PostFails => Goal
  BY DEF PostStored, PostFails, Clear, AfterPost
<1>6. Command \/ Exit \/ WaitCloses \/ Sigterm \/ Scanner => UNCHANGED batching
  BY DEF Command, CloseStdout, Write, WriteFails, Exit, WaitCloses, Sigterm,
         Scanner, Scan, ScanEnds
<1>7. \A x \in late : LateInsert(x) => UNCHANGED batching
  BY DEF LateInsert
<1>8. UNCHANGED batching \/ UNCHANGED vars => Goal
  BY DEF vars, batching
<1> HIDE DEF Goal
<1>9. Goal
  BY <1>1, <1>2, <1>3, <1>4, <1>5, <1>6, <1>7, <1>8 DEF Next, StreamLogs
<1> QED BY <1>9 DEF Goal

LEMMA CountsStep ==
    TypeOK /\ RoomInv /\ LoopInv /\ [Next]_vars =>
        /\ Counts'
        /\ loop' \in {"select", "post", "last", "done"}
<1> SUFFICES ASSUME TypeOK, RoomInv, LoopInv, [Next]_vars
             PROVE  Counts' /\ loop' \in {"select", "post", "last", "done"}
  OBVIOUS
<1>1. Counts /\ loop \in {"select", "post", "last", "done"}
  BY TypeParts
<1>2. /\ sent \in Nat /\ sent' \in Nat /\ sent' <= MaxLines
      /\ got \in Nat /\ flushed \in Nat
  <2>1. Pipes' /\ TypeOK
    BY PipesStep
  <2>2. sent' \in Nat /\ sent' <= Total(written')
    BY <2>1 DEF Pipes, sent, Total, Streams
  <2>3. Total(written') <= MaxLines /\ Total(written') \in Nat
    BY <2>1 DEF Pipes, Total, Streams
  <2> QED BY <2>2, <2>3, Numbers
<1>3. \/ sent' = sent
      \/ sent' = sent + 1 /\ sent - got < ChanCap /\ UNCHANGED <<got, flushed, loop>>
  BY SentGrows
<1> QED BY <1>1, <1>2, <1>3, LoopMoves DEF Counts, LoopInv, Loops

LEMMA ScanningFalls ==
    ASSUME [Next]_vars, ~scanning
    PROVE  ~scanning'
<1>1. StreamLogs => UNCHANGED scanning
  BY DEF StreamLogs, Receive, Tick, ChannelClosed, ContextDone, PostStored, PostFails, scanner
<1>2. Command \/ Exit \/ WaitCloses \/ Sigterm => UNCHANGED scanning
  BY DEF Command, CloseStdout, Write, WriteFails, Exit, WaitCloses, Sigterm, scanner
<1>3. ~Scanner \/ UNCHANGED scanning
  BY DEF Scanner, Scan, ScanEnds
<1>4. \A x \in late : LateInsert(x) => UNCHANGED scanning
  BY DEF LateInsert, scanner
<1> QED BY <1>1, <1>2, <1>3, <1>4 DEF Next, vars, scanner

LEMMA LoopStep == TypeOK /\ RoomInv /\ LoopInv /\ [Next]_vars => LoopInv'
<1> SUFFICES ASSUME TypeOK, RoomInv, LoopInv, [Next]_vars PROVE LoopInv'
  OBVIOUS
<1>1. /\ sent \in Nat /\ got \in Nat /\ flushed \in Nat
  BY Numbers
<1>2. ASSUME loop' = "last" PROVE ~scanning' /\ got' = sent'
  <2>1. ~scanning /\ got = sent /\ got' = got
    BY <1>2, LoopMoves DEF LoopInv, Loops
  <2>2. sent' = sent
    BY <2>1, SentGrows
  <2> QED BY <2>1, <2>2, ScanningFalls
<1>3. /\ loop' \in {"post", "last"} => flushed' < got'
      /\ loop' = "select" => got' - flushed' < BatchSize
  BY <1>1, LoopMoves DEF LoopInv, Loops
<1> QED BY <1>2, <1>3 DEF LoopInv

-------------------------------------------------------------------------------
(* The batch, when there is one to post.                                   *)
LEMMA BatchType ==
    ASSUME TypeOK, flushed < got
    PROVE  /\ batch \in Interval
           /\ batch.from = flushed + 1 /\ batch.to = got
<1>1. flushed + 1 \in 1..MaxLines /\ got \in 1..MaxLines
  BY Numbers DEF TypeOK
<1> QED BY <1>1 DEF batch, Interval

LEMMA Appended ==
    ASSUME NEW S, NEW p \in Seq(S), NEW x \in S
    PROVE  /\ Append(p, x) \in Seq(S) /\ Len(Append(p, x)) = Len(p) + 1
           /\ \A i \in 1..Len(p) : Append(p, x)[i] = p[i]
           /\ Append(p, x)[Len(p) + 1] = x
OBVIOUS

(* Rows are added by a post or by an INSERT that is late.                  *)
LEMMA TableMoves ==
    ASSUME TypeOK, LoopInv, [Next]_vars
    PROVE  \/ UNCHANGED <<rows, late, flushed>>
           \/ /\ flushed < got /\ flushed' = got
              /\ \/ rows' = Append(rows, batch) /\ late' = late
                 \/ rows' = rows /\ late' \in {late, late \cup {batch}} /\ lost'
           \/ \E x \in late : /\ rows' = Append(rows, x) /\ late' = late \ {x}
                             /\ UNCHANGED <<flushed, lost>>
<1>1. PostStored => /\ flushed < got /\ flushed' = got
                    /\ rows' = Append(rows, batch) /\ late' = late
  BY DEF PostStored, Clear, LoopInv
<1>2. PostFails => /\ flushed < got /\ flushed' = got
                   /\ rows' = rows /\ late' \in {late, late \cup {batch}} /\ lost'
  BY DEF PostFails, Clear, LoopInv
<1>3. \A x \in late : LateInsert(x) =>
        /\ rows' = Append(rows, x) /\ late' = late \ {x} /\ UNCHANGED <<flushed, lost>>
  BY DEF LateInsert, batching
<1>4. Receive => UNCHANGED <<rows, late, flushed>>
  BY DEF Receive, table
<1>5. \A s \in Streams : Write(s) \/ Scan(s) => UNCHANGED <<rows, late, flushed>>
  BY DEF Write, Scan, table, batching
<1> QED BY <1>1, <1>2, <1>3, <1>4, <1>5, Touches DEF table

LEMMA TableStep ==
    TypeOK /\ LoopInv /\ [Next]_vars => Table'
<1> SUFFICES ASSUME TypeOK, LoopInv, [Next]_vars PROVE Table'
  OBVIOUS
<1>1. rows \in Seq(Interval) /\ late \subseteq Interval
  BY DEF TypeOK
<1>2. rows' \in Seq(Interval) /\ late' \subseteq Interval
  BY <1>1, TableMoves, BatchType, Appended
<1>3. faults' \in 0..MaxFaults
  <2>1. CASE PostFails
    BY <2>1 DEF PostFails, TypeOK
  <2>2. CASE UNCHANGED faults
    BY <2>2 DEF TypeOK
  <2> QED
    BY <2>1, <2>2, Touches
    DEF Write, Scan, Receive, PostStored, LateInsert, table
<1> QED BY <1>2, <1>3 DEF Table

LEMMA RowsStep ==
    TypeOK /\ LoopInv /\ RowsInv /\ [Next]_vars => RowsInv'
<1> SUFFICES ASSUME TypeOK, LoopInv, RowsInv, [Next]_vars PROVE RowsInv'
  OBVIOUS
<1>1. /\ rows \in Seq(Interval) /\ late \subseteq Interval
      /\ got \in Nat /\ flushed \in Nat
      /\ \A i \in 1..Len(rows) : rows[i] \in Interval
  BY Numbers DEF TypeOK
<1>2. \A x \in Interval : x.from \in Nat /\ x.to \in Nat
  BY DEF Interval
<1>3. CASE UNCHANGED <<rows, late, flushed>>
  BY <1>3 DEF RowsInv, LinesOnce, Below
<1>4. CASE flushed < got /\ flushed' = got
  <2>1. batch \in Interval /\ batch.from = flushed + 1 /\ batch.to = got
    BY <1>4, BatchType
  (* What was below what was cleared still is, and is apart from the batch.*)
  <2>2. \A x \in Interval :
            Below(x, flushed) => Below(x, got) /\ Apart(x, batch) /\ Apart(batch, x)
    BY <1>1, <1>2, <1>4, <2>1 DEF Below, Apart
  <2>3. Below(batch, got)
    BY <1>1, <1>4, <2>1 DEF Below
  <2>4. CASE rows' = Append(rows, batch) /\ late' = late
    <3>1. /\ Len(rows') = Len(rows) + 1 /\ rows'[Len(rows) + 1] = batch
          /\ \A i \in 1..Len(rows) : rows'[i] = rows[i]
      BY <1>1, <2>1, <2>4, Appended
    <3>2. \A i \in 1..Len(rows') : i \in 1..Len(rows) \/ i = Len(rows) + 1
      BY <1>1, <3>1
    <3>3. \A i \in 1..Len(rows') : Below(rows'[i], flushed')
      BY <1>1, <1>4, <2>2, <2>3, <3>1, <3>2 DEF RowsInv
    <3>4. \A i, j \in 1..Len(rows') : i # j => Apart(rows'[i], rows'[j])
      BY <1>1, <2>2, <3>1, <3>2 DEF RowsInv, LinesOnce
    <3>5. \A i \in 1..Len(rows'), x \in late : Apart(rows'[i], x)
      BY <1>1, <2>2, <3>1, <3>2 DEF RowsInv, LinesOnce
    <3> QED BY <1>1, <1>4, <2>2, <2>4, <3>3, <3>4, <3>5 DEF RowsInv, LinesOnce
  <2>5. CASE rows' = rows /\ late' \in {late, late \cup {batch}}
    BY <1>1, <1>4, <2>2, <2>3, <2>5 DEF RowsInv, LinesOnce
  <2> QED
    <3>1. \/ rows' = Append(rows, batch) /\ late' = late
          \/ rows' = rows /\ late' \in {late, late \cup {batch}}
      BY <1>1, <1>4, TableMoves
    <3> QED BY <2>4, <2>5, <3>1
<1>5. ASSUME NEW y \in late, rows' = Append(rows, y), late' = late \ {y},
             UNCHANGED flushed
      PROVE  RowsInv'
  <2>1. /\ Len(rows') = Len(rows) + 1 /\ rows'[Len(rows) + 1] = y
        /\ \A i \in 1..Len(rows) : rows'[i] = rows[i]
    BY <1>1, <1>5, Appended
  <2>2. \A i \in 1..Len(rows') : i \in 1..Len(rows) \/ i = Len(rows) + 1
    BY <1>1, <2>1
  <2>4. \A i \in 1..Len(rows') : Below(rows'[i], flushed')
    BY <1>1, <1>5, <2>1, <2>2 DEF RowsInv
  <2>5. \A i, j \in 1..Len(rows') : i # j => Apart(rows'[i], rows'[j])
    BY <1>1, <1>5, <2>1, <2>2 DEF RowsInv, LinesOnce, Apart
  <2>6. \A i \in 1..Len(rows'), x \in late' : Apart(rows'[i], x)
    BY <1>1, <1>5, <2>1, <2>2 DEF RowsInv, LinesOnce, Apart
  <2> QED BY <1>1, <1>5, <2>4, <2>5, <2>6 DEF RowsInv, LinesOnce
<1> QED BY <1>3, <1>4, <1>5, TableMoves

-------------------------------------------------------------------------------
LEMMA LostStays == [Next]_vars /\ lost => lost'
<1> SUFFICES ASSUME [Next]_vars, lost PROVE lost'
  OBVIOUS
<1>1. Command \/ Exit \/ WaitCloses \/ Sigterm => lost'
  BY DEF Command, CloseStdout, Write, WriteFails, Exit, WaitCloses, CloseReaders, Sigterm
<1>2. Scanner \/ Receive \/ Tick => lost'
  BY DEF Scanner, Scan, ScanEnds, Receive, Tick
<1>3. ChannelClosed \/ ContextDone \/ PostStored \/ PostFails => lost'
  BY DEF ChannelClosed, ContextDone, PostStored, PostFails, CloseReaders
<1>4. \A x \in late : LateInsert(x) => lost'
  BY DEF LateInsert
<1> QED BY <1>1, <1>2, <1>3, <1>4 DEF Next, StreamLogs, vars

LEMMA CoverStep ==
    TypeOK /\ LoopInv /\ CoverInv /\ [Next]_vars => CoverInv'
<1> SUFFICES ASSUME TypeOK, LoopInv, CoverInv, [Next]_vars, ~lost'
             PROVE  \A n \in 1..flushed' : Covered(n)'
  BY DEF CoverInv
<1>1. ~lost
  BY LostStays
<1>2. \A n \in 1..flushed : Covered(n)
  BY <1>1 DEF CoverInv
<1>3. rows \in Seq(Interval) /\ got \in Nat /\ flushed \in Nat
  BY Numbers DEF TypeOK
(* A row more covers what was covered.                                     *)
<1>4. ASSUME NEW x \in Interval, rows' = Append(rows, x)
      PROVE  /\ \A n \in 1..flushed : Covered(n)'
             /\ \A n \in x.from..x.to : Covered(n)'
  <2>1. /\ Len(rows') = Len(rows) + 1 /\ rows'[Len(rows) + 1] = x
        /\ \A i \in 1..Len(rows) : rows'[i] = rows[i]
    BY <1>3, <1>4, Appended
  <2>2. 1..Len(rows) \subseteq 1..Len(rows') /\ Len(rows) + 1 \in 1..Len(rows')
    BY <1>3, <2>1
  <2>3. \A n \in 1..flushed : Covered(n)'
    BY <1>2, <2>1, <2>2 DEF Covered
  <2>4. \A n \in x.from..x.to : Covered(n)'
    BY <2>1, <2>2 DEF Covered
  <2> QED BY <2>3, <2>4
<1>5. CASE flushed < got /\ flushed' = got /\ rows' = Append(rows, batch)
  <2>1. batch \in Interval /\ batch.from = flushed + 1 /\ batch.to = got
    BY <1>5, BatchType
  <2>2. \A n \in 1..got : n \in 1..flushed \/ n \in flushed + 1..got
    BY <1>3
  <2> QED BY <1>4, <1>5, <2>1, <2>2
<1>6. CASE UNCHANGED <<rows, flushed>>
  BY <1>2, <1>6 DEF Covered
<1>7. ASSUME NEW x \in late, rows' = Append(rows, x), UNCHANGED flushed
      PROVE  \A n \in 1..flushed' : Covered(n)'
  <2>1. x \in Interval
    BY DEF TypeOK
  <2> QED BY <1>4, <1>7, <2>1
<1> QED BY <1>5, <1>6, <1>7, TableMoves

(* On the way out the pipes are closed; what they held is known to be lost.*)
LEMMA DoneMoves ==
    ASSUME TypeOK, LoopInv, [Next]_vars, loop # "done", loop' = "done"
    PROVE  /\ ~readable' /\ written' = written
           /\ lost' \/ (flushed' = got /\ got = sent /\ \A s \in Streams : Unread(s) = 0)
<1> DEFINE Goal == /\ ~readable' /\ written' = written
                   /\ \/ lost'
                      \/ flushed' = got /\ got = sent /\ \A s \in Streams : Unread(s) = 0
<1>0. \A s \in Streams : Unread(s) \in Nat
  BY DEF TypeOK, Unread, Streams
<1>1. CloseReaders => ~readable' /\ (lost' \/ \A s \in Streams : Unread(s) = 0)
  <2>1. ASSUME CloseReaders, ~lost' PROVE \A s \in Streams : Unread(s) = 0
    <3>1. ~\E s \in Streams : Unread(s) > 0
      BY <2>1 DEF CloseReaders
    <3> QED BY <1>0, <3>1
  <2> QED BY <2>1 DEF CloseReaders
<1>2. CASE ChannelClosed
  <2>1. got = sent /\ flushed' = flushed /\ written' = written
    BY <1>2 DEF ChannelClosed, Finished, command
  <2>2. ~(flushed < got) /\ CloseReaders
    BY <1>2 DEF ChannelClosed
  <2>3. flushed = got
    BY <2>2, Numbers DEF TypeOK
  <2> QED BY <1>1, <2>1, <2>2, <2>3
<1>3. CASE ContextDone
  BY <1>3 DEF ContextDone, command
<1>4. CASE PostStored
  <2>1. loop = "last" /\ CloseReaders /\ flushed' = got /\ written' = written
    BY <1>4 DEF PostStored, AfterPost, Clear, command
  <2> QED BY <1>1, <2>1 DEF LoopInv
<1>5. CASE PostFails
  <2>1. loop = "last"
    BY <1>5 DEF PostFails, AfterPost
  <2> QED BY <1>5, <2>1 DEF PostFails, command
<1>6. CASE Receive \/ Tick
  BY <1>6 DEF Receive, Tick
<1>7. Command \/ Exit \/ WaitCloses \/ Sigterm \/ Scanner => UNCHANGED loop
  BY DEF Command, CloseStdout, Write, WriteFails, Exit, WaitCloses, Sigterm,
         Scanner, Scan, ScanEnds, batching
<1>8. \A x \in late : LateInsert(x) => UNCHANGED loop
  BY DEF LateInsert, batching
<1> QED
  BY <1>2, <1>3, <1>4, <1>5, <1>6, <1>7, <1>8 DEF Next, StreamLogs, vars, batching

LEMMA ReadableFalls == [Next]_vars /\ ~readable => ~readable' /\ written' = written
<1> SUFFICES ASSUME [Next]_vars, ~readable PROVE ~readable' /\ written' = written
  OBVIOUS
<1> USE DEF command
<1>1. CASE Command
  BY <1>1 DEF Command, CloseStdout, Write, WriteFails
<1>2. CASE Exit \/ WaitCloses \/ Sigterm
  BY <1>2 DEF Exit, WaitCloses, Sigterm
<1>3. CASE Scanner
  BY <1>3 DEF Scanner, Scan, ScanEnds
<1>4. CASE Receive \/ Tick \/ ContextDone
  BY <1>4 DEF Receive, Tick, ContextDone
<1>5. CASE ChannelClosed \/ PostStored
  BY <1>5 DEF ChannelClosed, PostStored, CloseReaders
<1>6. CASE PostFails
  BY <1>6 DEF PostFails
<1>7. ASSUME NEW x \in late, LateInsert(x) PROVE ~readable' /\ written' = written
  BY <1>7 DEF LateInsert
<1>8. CASE UNCHANGED vars
  BY <1>8 DEF vars
<1> QED BY <1>1, <1>2, <1>3, <1>4, <1>5, <1>6, <1>7, <1>8 DEF Next, StreamLogs

LEMMA DoneStep ==
    TypeOK /\ LoopInv /\ DoneInv /\ [Next]_vars => DoneInv'
<1> SUFFICES ASSUME TypeOK, LoopInv, DoneInv, [Next]_vars, loop' = "done"
             PROVE  ~readable' /\ (lost' \/ flushed' = Total(written)')
  BY DEF DoneInv
<1>1. CASE loop # "done"
  <2>1. ASSUME \A s \in Streams : Unread(s) = 0 PROVE sent = Total(written)
    <3>1. /\ written["out"] \in Nat /\ taken["out"] \in Nat
          /\ written["err"] \in Nat /\ taken["err"] \in Nat
      BY DEF TypeOK, Streams
    <3> QED BY <2>1, <3>1 DEF Unread, Streams, sent, Total
  <2>2. written' = written => Total(written)' = Total(written)
    BY DEF Total
  <2> QED BY <1>1, <2>1, <2>2, DoneMoves
<1>2. CASE loop = "done"
  <2>1. ~readable' /\ Total(written)' = Total(written)
    BY <1>2, ReadableFalls DEF DoneInv, Total
  <2>2. lost => lost'
    BY LostStays
  <2>3. UNCHANGED flushed
    BY <1>2, LoopMoves DEF Loops
  <2> QED BY <1>2, <2>1, <2>2, <2>3 DEF DoneInv
<1> QED BY <1>1, <1>2

-------------------------------------------------------------------------------
LEMMA Invariance == Spec => []IInv
<1>1. IInv /\ [Next]_vars => IInv'
  <2> SUFFICES ASSUME IInv, [Next]_vars PROVE IInv'
    OBVIOUS
  <2>1. TypeOK'
    <3>1. Flags' /\ Pipes' /\ Counts' /\ Table'
      BY FlagsStep, PipesStep, CountsStep, TableStep DEF IInv
    <3>2. /\ wants' \in Acts /\ open' \subseteq Streams
          /\ loop' \in {"select", "post", "last", "done"}
      BY RoomStep, CountsStep DEF IInv
    <3> QED BY <3>1, <3>2 DEF TypeOK, Flags, Pipes, Counts, Table
  <2> QED BY <2>1, RoomStep, LoopStep, RowsStep, CoverStep, DoneStep DEF IInv
<1> QED BY <1>1, InitInv, PTL DEF Spec

(* Every value is of its kind: pipe, lineChan and batch keep to their size.*)
THEOREM TypeCorrect == Spec => []TypeOK
<1>1. IInv => TypeOK
  BY DEF IInv
<1> QED BY <1>1, Invariance, PTL

(* flush clears the batch whatever sendLogs returns, so no line is in two  *)
(* rows, however late an INSERT commits.                                   *)
THEOREM LinesStoredOnce == Spec => []LinesOnce
<1>1. IInv => LinesOnce
  BY DEF IInv, RowsInv
<1> QED BY <1>1, Invariance, PTL

(* When streamLogs returns with nothing known to be lost, all that the     *)
(* command wrote is in the table.                                          *)
THEOREM AllLinesStored == Spec => []AllStored
<1>1. IInv => AllStored
  BY DEF IInv, CoverInv, DoneInv, AllStored, Covered
<1> QED BY <1>1, Invariance, PTL

-------------------------------------------------------------------------------
(* While nothing was lost no INSERT is late, and the last row ends where   *)
(* the batch begins.                                                       *)
FollowInv == lost \/ (late = {} /\ Kept!Stored = flushed)

LEMMA StoredAppended ==
    ASSUME TypeOK, NEW x \in Interval, rows' = Append(rows, x)
    PROVE  Kept!Stored' = x.to
<1>1. rows \in Seq(Interval)
  BY DEF TypeOK
<1>2. Len(rows') = Len(rows) + 1 /\ rows'[Len(rows) + 1] = x /\ Len(rows) \in Nat
  BY <1>1, Appended
<1>3. rows' # <<>>
  BY <1>2
<1> QED BY <1>2, <1>3 DEF Kept!Stored

LEMMA FollowStep == TypeOK /\ LoopInv /\ FollowInv /\ [Next]_vars => FollowInv'
<1> SUFFICES ASSUME TypeOK, LoopInv, FollowInv, [Next]_vars, ~lost'
             PROVE  late' = {} /\ Kept!Stored' = flushed'
  BY DEF FollowInv
<1>1. late = {} /\ Kept!Stored = flushed
  BY LostStays DEF FollowInv
<1>2. CASE UNCHANGED <<rows, late, flushed>>
  BY <1>1, <1>2 DEF Kept!Stored
<1>3. CASE flushed < got /\ flushed' = got /\ rows' = Append(rows, batch) /\ late' = late
  BY <1>1, <1>3, BatchType, StoredAppended
<1> QED BY <1>1, <1>2, <1>3, TableMoves

(* A row of lines that are read and in no row yet is one that Log may add. *)
LEMMA RowAdded ==
    ASSUME IInv, NEW x \in Interval, Below(x, got), rows' = Append(rows, x),
           \A i \in 1..Len(rows) : Apart(x, rows[i]),
           lost \/ x.from = Kept!Stored + 1
    PROVE  Kept!AddRow
<1>1. /\ sent \in Nat /\ sent <= Total(written) /\ got \in Nat /\ got <= sent
      /\ Total(written) \in Nat
  <2>1. written["out"] \in Nat /\ written["err"] \in Nat
    BY DEF IInv, TypeOK, Streams
  <2> QED BY <2>1, Numbers DEF IInv, TypeOK, Total
<1>2. /\ x.from \in Nat /\ x.to \in Nat /\ 1 <= x.from
      /\ x.from <= x.to /\ x.to <= got
      /\ x = [from |-> x.from, to |-> x.to]
  BY DEF Interval, Below
<1>3. x.from \in 1..Total(written) /\ x.to \in 1..Total(written)
  BY <1>1, <1>2
<1>4. x \in [from : 1..Total(written), to : 1..Total(written)]
  BY <1>2, <1>3
<1> QED BY <1>2, <1>4 DEF Kept!AddRow, Apart, Kept!Apart

(* streamLogs returns: if nothing was lost, all that was written is stored.*)
LEMMA EndAdded ==
    ASSUME IInv, IInv', FollowInv', [Next]_vars, loop # "done", loop' = "done",
           Kept!AddRow \/ rows' = rows
    PROVE  Kept!End
<1>1. written' = written
  BY DoneMoves DEF IInv
<1>2. lost => lost'
  BY LostStays
<1>3. ~lost' => Kept!Stored' = Total(written)
  BY <1>1 DEF IInv, DoneInv, FollowInv, Total
<1> QED BY <1>1, <1>2, <1>3 DEF Kept!End, Total

LEMMA LogStep ==
    IInv /\ IInv' /\ FollowInv /\ FollowInv' /\ [Next]_vars => [Kept!Next]_(Kept!vars)
<1> SUFFICES ASSUME IInv, IInv', FollowInv, FollowInv', [Next]_vars
             PROVE  [Kept!Next]_(Kept!vars)
  OBVIOUS
<1>1. /\ TypeOK /\ LoopInv /\ DoneInv /\ (lost => lost')
      /\ \A i \in 1..Len(rows) : Below(rows[i], flushed)
      /\ rows \in Seq(Interval) /\ got \in Nat /\ flushed \in Nat /\ flushed <= got
  BY LostStays, Numbers DEF IInv, RowsInv, TypeOK
<1>2. CASE UNCHANGED <<written, rows, loop>>
  <2>1. UNCHANGED Kept!vars \/ Kept!Lose
    BY <1>1, <1>2 DEF Kept!vars, Kept!Lose, Total
  <2> QED BY <2>1 DEF Kept!Next
<1>3. ASSUME NEW s \in Streams, Write(s) PROVE Kept!Write
  <2>1. /\ readable /\ written' = [written EXCEPT ![s] = @ + 1]
        /\ UNCHANGED <<rows, lost, loop>>
    BY <1>3 DEF Write, batching, table
  <2>2. Total(written)' = Total(written) + 1
    BY <1>1, <2>1 DEF TypeOK, Total, Streams
  <2>3. loop # "done"
    BY <1>1, <2>1 DEF DoneInv
  <2> QED BY <2>1, <2>2, <2>3 DEF Kept!Write
<1>4. CASE Receive \/ Tick
  BY <1>1, <1>4
  DEF Receive, Tick, Kept!vars, command, table, Total
<1>5. CASE ChannelClosed \/ ContextDone
  <2>1. UNCHANGED <<written, rows>> /\ loop = "select" /\ loop' \in {"last", "done"}
    BY <1>5 DEF ChannelClosed, Finished, ContextDone, command, table
  <2>2. CASE loop' = "done"
    BY <2>1, <2>2, EndAdded DEF Kept!Next
  <2>3. CASE loop' = "last"
    BY <1>1, <1>5, <2>1, <2>3 DEF ChannelClosed, ContextDone, Kept!vars, Total
  <2> QED BY <2>1, <2>2, <2>3
<1>6. CASE PostStored
  <2>1. /\ loop \in {"post", "last"} /\ rows' = Append(rows, batch)
        /\ written' = written /\ loop' = AfterPost
        /\ loop = "post" => lost' = lost
    BY <1>6 DEF PostStored, command
  <2>2. batch \in Interval /\ batch.from = flushed + 1 /\ batch.to = got
    BY <1>1, <2>1, BatchType DEF LoopInv
  <2>3. \A i \in 1..Len(rows) : Apart(batch, rows[i])
    <3> SUFFICES ASSUME NEW i \in 1..Len(rows) PROVE Apart(batch, rows[i])
      OBVIOUS
    <3>1. rows[i] \in Interval
      <4> HIDE DEF Interval
      <4> QED BY <1>1
    <3>2. rows[i].to \in Nat
      BY <3>1 DEF Interval
    <3>3. rows[i].to <= flushed
      BY <1>1 DEF Below
    <3> QED BY <1>1, <2>2, <3>2, <3>3 DEF Apart
  <2>4. Below(batch, got)
    BY <1>1, <2>1, <2>2 DEF Below, LoopInv
  <2>5. lost \/ batch.from = Kept!Stored + 1
    BY <2>2 DEF FollowInv
  <2>6. Kept!AddRow
    BY <2>1, <2>2, <2>3, <2>4, <2>5, RowAdded
  <2>7. CASE loop = "post"
    BY <2>1, <2>6, <2>7 DEF AfterPost, Kept!Store, Kept!Next, Total
  <2>8. CASE loop = "last"
    BY <2>1, <2>6, <2>8, EndAdded DEF AfterPost, Kept!Next
  <2> QED BY <2>1, <2>7, <2>8
<1>7. CASE PostFails
  <2>1. /\ loop \in {"post", "last"} /\ UNCHANGED <<rows, written>>
        /\ loop' = AfterPost /\ lost'
    BY <1>7 DEF PostFails, command
  <2>2. CASE loop = "post"
    BY <2>1, <2>2 DEF AfterPost, Kept!Lose, Kept!Next, Total
  <2>3. CASE loop = "last"
    BY <2>1, <2>3, EndAdded DEF AfterPost, Kept!Next
  <2> QED BY <2>1, <2>2, <2>3
<1>8. ASSUME NEW x \in late, LateInsert(x) PROVE Kept!Store
  <2>1. /\ rows' = Append(rows, x) /\ UNCHANGED <<written, lost, loop>>
    BY <1>8 DEF LateInsert, command, batching
  <2>2. lost
    BY DEF FollowInv
  <2>3. x \in Interval /\ Below(x, got)
    <3>1. x \in Interval /\ x.from <= x.to /\ x.to <= flushed
      BY <1>1 DEF TypeOK, IInv, RowsInv, Below
    <3>2. x.to \in Nat
      BY <3>1 DEF Interval
    <3> QED BY <1>1, <3>1, <3>2 DEF Below
  <2>4. \A i \in 1..Len(rows) : Apart(x, rows[i])
    BY DEF IInv, RowsInv, LinesOnce, Apart
  <2>5. Kept!AddRow
    BY <2>1, <2>2, <2>3, <2>4, RowAdded
  <2> QED BY <2>1, <2>5 DEF Kept!Store, Total
<1>9. CloseStdout \/ Exit \/ WaitCloses \/ Sigterm \/ Scanner =>
        UNCHANGED <<written, rows, loop>>
  BY DEF CloseStdout, Exit, WaitCloses, Sigterm, Scanner, Scan, ScanEnds,
         command, batching, table
<1>10. \A s \in Streams : WriteFails(s) => UNCHANGED <<written, rows, loop>>
  BY DEF WriteFails, batching, table
<1>11. UNCHANGED vars => UNCHANGED <<written, rows, loop>>
  BY DEF vars, command, batching, table
<1> QED
  BY <1>2, <1>3, <1>4, <1>5, <1>6, <1>7, <1>8, <1>9, <1>10, <1>11
  DEF Next, Command, StreamLogs, Kept!Next

(* Readers of execution_logs see rows that are only added and never        *)
(* overlap, in the order of the output until something that costs lines is *)
(* met; without that, all of the output when streamLogs has returned.      *)
THEOREM ImplementsLog == Spec => KeepsLog
<1>1. Init => Kept!Init /\ FollowInv
  BY DEF Init, Kept!Init, FollowInv, Kept!Stored, Total, Streams
<1>2. IInv /\ FollowInv /\ [Next]_vars => FollowInv'
  BY FollowStep DEF IInv
<1> QED
  BY <1>1, <1>2, Invariance, LogStep, PTL DEF Spec, KeepsLog, Kept!Spec
================================================================================
