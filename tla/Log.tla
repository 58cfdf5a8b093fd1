---------------------------------- MODULE Log ----------------------------------
(***************************************************************************)
(* What the worker promises to those who read execution_logs: rows are     *)
(* only added, none has a line of another, and until something happens     *)
(* that costs lines each row has the lines that follow those of the row    *)
(* before it (internal/worker/agent.go streamLogs, internal/store/postgres *)
(* log.go).  Lines are numbered in the order in which they are read.       *)
(***************************************************************************)
EXTENDS Naturals, Sequences

VARIABLES
    written,   \* lines the command has written
    rows,      \* the rows, each the lines from "from" to "to"
    sound,     \* nothing happened that costs lines
    ended      \* streamLogs has returned

vars == <<written, rows, sound, ended>>

Stored == IF rows = <<>> THEN 0 ELSE rows[Len(rows)].to
Apart(x, y) == x.to < y.from \/ y.to < x.from

Init == written = 0 /\ rows = <<>> /\ sound = TRUE /\ ended = FALSE

Write ==
    /\ ~ended
    /\ written' = written + 1
    /\ UNCHANGED <<rows, sound, ended>>

(* Lines that were written and that no row has; the next ones, if sound.   *)
AddRow ==
    \E x \in [from : 1..written, to : 1..written] :
        /\ x.from <= x.to
        /\ \A i \in 1..Len(rows) : Apart(x, rows[i])
        /\ sound => x.from = Stored + 1
        /\ rows' = Append(rows, x)

Store == AddRow /\ UNCHANGED <<written, sound, ended>>

Lose == sound' = FALSE /\ UNCHANGED <<written, rows, ended>>

(* A last row may be stored; a log that is still sound is complete.        *)
End ==
    /\ ~ended /\ ended' = TRUE
    /\ AddRow \/ UNCHANGED rows
    /\ sound' \in {sound, FALSE}
    /\ sound' => Stored' = written
    /\ UNCHANGED written

Next == Write \/ Store \/ Lose \/ End

Spec == Init /\ [][Next]_vars
===============================================================================
