----------------------------- MODULE LogRotate ------------------------------
(***************************************************************************)
(* Rotation of the file server's log (linux-file-server/src/log.c).  A     *)
(* line has size 1, the limits are small numbers; lines are numbered as    *)
(* they are written.  The mutex is held from writing a line to the end of  *)
(* the rotation, so writers are one; but the removing and each renaming    *)
(* are steps of their own, because the program may be killed between them, *)
(* leaving what a reader of the directory then finds.                      *)
(***************************************************************************)
EXTENDS Integers, SequencesExt

CONSTANTS
    Limits,     \* pairs <<max_size, max_files>> log_set_rotate is called with
    MaxLines,   \* bound on the lines written
    OpenFails   \* whether fopen after a rotation may fail

VARIABLES
    file,       \* file[0] is the current file, file[k] is "<path>.k"
    open,       \* log_fp # NULL
    maxSize, maxFiles,
    step,       \* "write", "remove", "shift", "first", "reopen", "killed"
    k,          \* the loop index of the renaming
    written,    \* lines that went to the file
    least,      \* history: the fewest files that were to be kept
    rotations   \* history: rotations done

vars == <<file, open, maxSize, maxFiles, step, k, written, least, rotations>>

TopFiles == 3    \* stands for the default 5 of rotate_max_files
None == <<0>>   \* no such file
Lines(n) == IF file[n] = None THEN <<>> ELSE file[n]

Init ==
    /\ file = [n \in 0 .. TopFiles |-> IF n = 0 THEN <<>> ELSE None]
    /\ open = TRUE
    /\ maxSize = 0 /\ maxFiles = TopFiles
    /\ step = "write" /\ k = 0
    /\ written = 0
    /\ least = TopFiles /\ rotations = 0

\* log_set_rotate
SetRotate ==
    /\ step = "write"
    /\ \E l \in Limits : maxSize' = l[1] /\ maxFiles' = l[2] /\ least' = IF l[2] < least THEN l[2] ELSE least
    /\ UNCHANGED <<file, open, step, k, written, rotations>>

\* log_write_impl, and log_check_rotate up to its test.
WriteLine ==
    /\ step = "write" /\ open
    /\ written < MaxLines
    /\ written' = written + 1
    /\ file' = [file EXCEPT ![0] = Append(@, written + 1)]
    /\ step' = IF maxSize > 0 /\ Len(file'[0]) >= maxSize THEN "remove" ELSE "write"
    /\ UNCHANGED <<open, maxSize, maxFiles, k, least, rotations>>

\* log_check_rotate: the current file is closed, the oldest removed.
RemoveOldest ==
    /\ step = "remove"
    /\ open' = FALSE
    /\ file' = IF maxFiles > 0 THEN [file EXCEPT ![maxFiles] = None] ELSE file
    /\ k' = maxFiles - 1
    /\ step' = "shift"
    /\ UNCHANGED <<maxSize, maxFiles, written, least, rotations>>

Renamed(from, to) ==
    IF file[from] = None THEN file ELSE [file EXCEPT ![to] = file[from], ![from] = None]

\* Mutant: the last renaming is left out.
ShiftShort ==
    /\ step = "shift"
    /\ IF k > 1
       THEN file' = Renamed(k, k + 1) /\ k' = k - 1 /\ UNCHANGED step
       ELSE step' = "first" /\ UNCHANGED <<file, k>>
    /\ UNCHANGED <<open, maxSize, maxFiles, written, least, rotations>>

Shift ==
    /\ step = "shift"
    /\ IF k >= 1
       THEN file' = Renamed(k, k + 1) /\ k' = k - 1 /\ UNCHANGED step
       ELSE step' = "first" /\ UNCHANGED <<file, k>>
    /\ UNCHANGED <<open, maxSize, maxFiles, written, least, rotations>>

First ==
    /\ step = "first"
    /\ file' = Renamed(0, 1)
    /\ step' = "reopen"
    /\ UNCHANGED <<open, maxSize, maxFiles, k, written, least, rotations>>

\* A failure leaves the log without a file for good.
Reopen ==
    /\ step = "reopen"
    /\ \/ open' = TRUE /\ file' = [file EXCEPT ![0] = Lines(0)]
       \/ OpenFails /\ open' = FALSE /\ UNCHANGED file
    /\ step' = "write" /\ k' = 0
    /\ rotations' = rotations + 1
    /\ UNCHANGED <<maxSize, maxFiles, written, least>>

\* log_close
CloseLog ==
    /\ step = "write" /\ open
    /\ open' = FALSE
    /\ UNCHANGED <<file, maxSize, maxFiles, step, k, written, least, rotations>>

Kill ==
    /\ step # "killed"
    /\ step' = "killed"
    /\ UNCHANGED <<file, open, maxSize, maxFiles, k, written, least, rotations>>

Next == SetRotate \/ WriteLine \/ RemoveOldest \/ Shift \/ First \/ Reopen \/ CloseLog \/ Kill

Spec == Init /\ [][Next]_vars

-----------------------------------------------------------------------------
\* The newest lines are all there: the current file and as many rotated ones as
\* were at all times to be kept hold the lines up to the last without a gap, and
\* after a rotation none of these files is missing.
NewestKept ==
    LET newest == FlattenSeq([n \in 1 .. least + 1 |-> Lines(least + 1 - n)])
    IN  /\ \A x \in DOMAIN newest : newest[x] = written - Len(newest) + x
        /\ step = "write" => \A n \in 1 .. least : n <= rotations => file[n] # None
=============================================================================
