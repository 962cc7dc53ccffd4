----------------------------- MODULE JobControl -----------------------------
(***************************************************************************)
(* Job control of mini-shell: the job table (job.c), the waits of          *)
(* executor_run and job_wait, fg, bg and jobs, against processes that exit, *)
(* stop and continue at any time.  The kernel keeps one unreported change  *)
(* of each child for waitpid; a continue replaces an unreported stop, an   *)
(* exit replaces both.  Signals reach whole process groups: from the       *)
(* terminal, from kill(-pgid, SIGCONT), or a background read.  Forking a   *)
(* pipeline is one step; process numbers are not reused.                   *)
(***************************************************************************)
EXTENDS Integers, FiniteSetsExt, SequencesExt

CONSTANTS
    MaxProcs,   \* bound on the processes started
    MaxJobs,    \* slots of the job table (MAX_JOBS)
    MaxStops    \* bound on stop signals

VARIABLES
    proc,       \* state of each process: "none", "run", "stop", "zombie", "gone"
    event,      \* its unreported change: "none", "stopped", "continued"
    group,      \* its process group
    started,    \* processes started so far
    jobs,       \* shell->jobs
    numJobs,    \* shell->num_jobs
    tty,        \* the group that owns the terminal
    shell,      \* what the shell is doing: "prompt", "update", "run", "fg"
    waiting,    \* the pids of its wait loop that are still to be waited for
    pids,       \* all pids of the pipeline or job it waits for
    jobId,      \* the job of fg
    stops,
    slipped,    \* history: groups whose continue a wait loop took for an end
    twice,      \* history: groups entered into the table more than once
    refused     \* history: groups for which the table was full

kernel == <<proc, event, group, started, stops>>
table == <<jobs, numJobs>>
history == <<slipped, twice, refused>>
wait == <<waiting, pids, jobId>>
vars == <<kernel, table, tty, shell, wait, history>>

Procs == 1 .. MaxProcs
Slots == 1 .. MaxJobs
Shell == 0
NoJob == [id |-> 0, pgid |-> 0, pids |-> <<>>, state |-> "RUNNING"]

Init ==
    /\ proc = [p \in Procs |-> "none"]
    /\ event = [p \in Procs |-> "none"]
    /\ group = [p \in Procs |-> 0]
    /\ started = 0 /\ stops = 0
    /\ jobs = [s \in Slots |-> NoJob] /\ numJobs = 0
    /\ tty = Shell
    /\ shell = "prompt"
    /\ waiting = <<>> /\ pids = <<>> /\ jobId = 0
    /\ slipped = {} /\ twice = {} /\ refused = {}

Alive(p) == proc[p] \in {"run", "stop"}
Members(g) == {p \in Procs : group[p] = g /\ Alive(p)}
\* A group lasts until its last process has been waited for.
Exists(g) == \E p \in Procs : group[p] = g /\ proc[p] \notin {"none", "gone"}

-----------------------------------------------------------------------------
(* The processes and the terminal.                                         *)

Exit(p) ==
    /\ proc[p] = "run"
    /\ proc' = [proc EXCEPT ![p] = "zombie"]
    /\ event' = [event EXCEPT ![p] = "none"]
    /\ UNCHANGED <<group, started, stops, table, tty, shell, wait, history>>

\* Ctrl-Z on the foreground group, or a background group reads the terminal.
Stop(g) ==
    /\ stops < MaxStops
    /\ \E p \in Members(g) : proc[p] = "run"
    /\ stops' = stops + 1
    /\ proc' = [p \in Procs |-> IF p \in Members(g) THEN "stop" ELSE proc[p]]
    /\ event' = [p \in Procs |-> IF p \in Members(g) /\ proc[p] = "run" THEN "stopped" ELSE event[p]]
    /\ UNCHANGED <<group, started, table, tty, shell, wait, history>>

\* kill(-g, SIGCONT).
Continue(g) ==
    /\ proc' = [p \in Procs |-> IF p \in Members(g) THEN "run" ELSE proc[p]]
    /\ event' = [p \in Procs |-> IF p \in Members(g) /\ proc[p] = "stop" THEN "continued" ELSE event[p]]

\* What waitpid(p, WUNTRACED | WCONTINUED) can report; for a child that is gone
\* it fails and leaves the status of the turn before, which has been acted on.
Reports(p) ==
    IF proc[p] = "zombie" THEN "exited" ELSE IF proc[p] = "gone" THEN "error" ELSE event[p]

\* The report is taken.
Reap(p) ==
    /\ proc' = [proc EXCEPT ![p] = IF @ = "zombie" THEN "gone" ELSE @]
    /\ event' = [event EXCEPT ![p] = "none"]

-----------------------------------------------------------------------------
(* job.c: the table.                                                       *)

Used == {s \in Slots : jobs[s].id # 0}

\* job_add and the copying of the pids after it.
JobAdd(g, ps, st) ==
    IF Used = Slots
    THEN /\ refused' = refused \cup {g}
         /\ UNCHANGED <<table, twice>>
    ELSE /\ LET slot == Min(Slots \ Used)
                id == Max({jobs[s].id : s \in Slots}) + 1
            IN  jobs' = [jobs EXCEPT ![slot] = [id |-> id, pgid |-> g, pids |-> ps, state |-> st]]
         /\ numJobs' = numJobs + 1
         /\ twice' = IF \E s \in Used : jobs[s].pgid = g THEN twice \cup {g} ELSE twice
         /\ UNCHANGED refused

JobRemove(slot) ==
    /\ jobs' = [jobs EXCEPT ![slot] = NoJob]
    /\ numJobs' = numJobs - 1

\* job_update: one turn of its loop.  Only the first job that knows the process
\* is updated; a process that is dead but not yet waited for counts as alive.
JobOf(p) == {s \in Used : jobs[s].pgid = p \/ \E j \in DOMAIN jobs[s].pids : jobs[s].pids[j] = p}
AliveToKill(p) == p > 0 /\ proc'[p] \notin {"none", "gone"}

\* Mutant: the job is removed as soon as one of its processes has ended.
UpdateTableEarly(s, p, report) ==
    \/ report = "exited" /\ JobRemove(s)
    \/ /\ report = "stopped"
       /\ jobs' = [jobs EXCEPT ![s].state = "STOPPED"] /\ UNCHANGED numJobs
    \/ /\ report = "continued"
       /\ jobs' = [jobs EXCEPT ![s].state = "RUNNING"] /\ UNCHANGED numJobs

\* Mutant: the job is removed only when its last process is the one that ends.
UpdateTableLast(s, p, report) ==
    \/ /\ report = "exited"
       /\ IF Last(jobs[s].pids) = p THEN JobRemove(s) ELSE UNCHANGED table
    \/ /\ report = "stopped"
       /\ jobs' = [jobs EXCEPT ![s].state = "STOPPED"] /\ UNCHANGED numJobs
    \/ /\ report = "continued"
       /\ jobs' = [jobs EXCEPT ![s].state = "RUNNING"] /\ UNCHANGED numJobs

UpdateTable(s, p, report) ==
    \/ /\ report = "exited"
       /\ LET left == [j \in DOMAIN jobs[s].pids |->
                         IF jobs[s].pids[j] # p /\ AliveToKill(jobs[s].pids[j]) THEN jobs[s].pids[j] ELSE -1]
          IN  IF \A j \in DOMAIN left : left[j] = -1
              THEN JobRemove(s)
              ELSE jobs' = [jobs EXCEPT ![s].pids = left] /\ UNCHANGED numJobs
    \/ /\ report = "stopped"
       /\ jobs' = [jobs EXCEPT ![s].state = "STOPPED"] /\ UNCHANGED numJobs
    \/ /\ report = "continued"
       /\ jobs' = [jobs EXCEPT ![s].state = "RUNNING"] /\ UNCHANGED numJobs

UpdateOne(p) ==
    /\ shell = "update"
    /\ Reports(p) \in {"exited", "stopped", "continued"}
    /\ Reap(p)
    /\ IF JobOf(p) = {} THEN UNCHANGED table ELSE UpdateTable(Min(JobOf(p)), p, Reports(p))
    /\ UNCHANGED <<group, started, stops, tty, shell, wait, history>>

UpdateDone ==
    /\ shell = "update"
    /\ \A p \in Procs : Reports(p) \notin {"exited", "stopped", "continued"}
    /\ shell' = "prompt"
    /\ UNCHANGED <<kernel, table, tty, wait, history>>

-----------------------------------------------------------------------------
(* The commands; each is followed by job_update in the main loop.          *)

\* executor_run of a pipeline of n commands.
Run(n, background) ==
    /\ shell = "prompt"
    /\ started + n <= MaxProcs
    /\ LET ps == [i \in 1 .. n |-> started + i]
           g == started + 1
       IN  /\ proc' = [p \in Procs |-> IF p \in Range(ps) THEN "run" ELSE proc[p]]
           /\ group' = [p \in Procs |-> IF p \in Range(ps) THEN g ELSE group[p]]
           /\ \/ /\ background
                 /\ JobAdd(g, ps, "RUNNING")
                 /\ shell' = "update"
                 /\ UNCHANGED <<tty, wait>>
              \/ /\ ~background
                 /\ tty' = g
                 /\ waiting' = ps /\ pids' = ps
                 /\ shell' = "run"
                 /\ UNCHANGED <<table, twice, refused, jobId>>
    /\ started' = started + n
    /\ UNCHANGED <<event, stops, slipped>>

Slip(p) == slipped' = IF Reports(p) = "continued" THEN slipped \cup {group[p]} ELSE slipped

\* Mutant: waitpid is called without WUNTRACED.
RunWaitNoStop ==
    /\ shell = "run" /\ waiting # <<>>
    /\ LET p == Head(waiting)
       IN  /\ Reports(p) = "exited"
           /\ Reap(p)
    /\ waiting' = Tail(waiting)
    /\ UNCHANGED <<group, started, stops, table, tty, shell, pids, jobId, history>>

\* One turn of executor_run's wait loop: each stopped process makes a job.
RunWait ==
    /\ shell = "run" /\ waiting # <<>>
    /\ LET p == Head(waiting)
       IN  /\ Reports(p) # "none"
           /\ Reap(p)
           /\ Slip(p)
           /\ IF Reports(p) = "stopped" THEN JobAdd(group[p], pids, "STOPPED")
              ELSE UNCHANGED <<table, twice, refused>>
    /\ waiting' = Tail(waiting)
    /\ UNCHANGED <<group, started, stops, tty, shell, pids, jobId>>

RunDone ==
    /\ shell = "run" /\ waiting = <<>>
    /\ tty' = Shell
    /\ shell' = "update"
    /\ pids' = <<>>
    /\ UNCHANGED <<kernel, table, waiting, jobId, history>>

\* fg: builtin_fg and job_wait up to the loop.
Fg(s) ==
    /\ shell = "prompt"
    /\ jobs[s].id # 0
    /\ tty' = IF Exists(jobs[s].pgid) THEN jobs[s].pgid ELSE tty
    /\ IF jobs[s].state = "STOPPED" THEN Continue(jobs[s].pgid) ELSE UNCHANGED <<proc, event>>
    /\ jobs' = [jobs EXCEPT ![s].state = "RUNNING"]
    /\ jobId' = jobs[s].id
    /\ waiting' = SelectSeq(jobs[s].pids, LAMBDA p : p > 0)
    /\ pids' = jobs[s].pids
    /\ shell' = "fg"
    /\ UNCHANGED <<group, started, stops, numJobs, history>>

Slot == CHOOSE s \in Slots : jobs[s].id = jobId

\* One turn of job_wait's loop: any report ends the wait for a process.
FgWait ==
    /\ shell = "fg" /\ waiting # <<>>
    /\ LET p == Head(waiting)
       IN  /\ Reports(p) # "none"
           /\ Reap(p)
           /\ Slip(p)
           /\ jobs' = IF Reports(p) = "stopped" THEN [jobs EXCEPT ![Slot].state = "STOPPED"] ELSE jobs
    /\ waiting' = Tail(waiting)
    /\ UNCHANGED <<group, started, stops, numJobs, tty, shell, pids, jobId, twice, refused>>

FgDone ==
    /\ shell = "fg" /\ waiting = <<>>
    /\ tty' = Shell
    /\ IF jobs[Slot].state # "STOPPED" THEN JobRemove(Slot) ELSE UNCHANGED table
    /\ shell' = "update"
    /\ jobId' = 0 /\ pids' = <<>>
    /\ UNCHANGED <<kernel, waiting, history>>

\* bg: kill fails when the whole group is gone.
Bg(s) ==
    /\ shell = "prompt"
    /\ jobs[s].id # 0
    /\ Continue(jobs[s].pgid)
    /\ jobs' = IF Exists(jobs[s].pgid)
               THEN [jobs EXCEPT ![s].state = "RUNNING"] ELSE jobs
    /\ shell' = "update"
    /\ UNCHANGED <<group, started, stops, numJobs, tty, wait, history>>

\* jobs, any other builtin, or a line that does not parse.
Other ==
    /\ shell = "prompt"
    /\ \E p \in Procs : Reports(p) \in {"exited", "stopped", "continued"}
    /\ shell' = "update"
    /\ UNCHANGED <<kernel, table, tty, wait, history>>

ShellStep == RunWait \/ RunDone \/ FgWait \/ FgDone \/ UpdateDone \/ \E p \in Procs : UpdateOne(p)
Next ==
    \/ \E p \in Procs : Exit(p)
    \/ \E g \in Procs : Stop(g)
    \/ \E n \in 1 .. 2, b \in BOOLEAN : Run(n, b)
    \/ \E s \in Slots : Fg(s) \/ Bg(s)
    \/ Other
    \/ ShellStep

Spec == Init /\ [][Next]_vars
\* Processes that run end or are stopped, sooner or later.
FairSpec == Spec /\ WF_vars(ShellStep) /\ \A p \in Procs : WF_vars(Exit(p))

-----------------------------------------------------------------------------
Quiet == \A p \in Procs : Reports(p) \in {"none", "error"}

\* At the prompt every process that lives is in the table, so that fg and bg can
\* reach it, unless its group found the table full or a wait loop took its
\* continuing for its end.
LiveIsTracked ==
    shell = "prompt" =>
        \A p \in Procs : Alive(p) => \/ \E s \in Used : jobs[s].pgid = group[p]
                                     \/ group[p] \in refused \cup slipped

\* At the prompt, once all changes are reported, every job in the table has a
\* process that lives, unless its group was entered twice.
NoGhostJobs ==
    shell = "prompt" /\ Quiet =>
        \A s \in Used : Members(jobs[s].pgid) # {} \/ jobs[s].pgid \in twice

\* The shell comes back to its prompt with the terminal, unless fg was given a
\* group that was entered twice: its second entry may say RUNNING of stopped
\* processes, which fg then waits for without continuing them.
PromptReturns ==
    shell # "prompt" ~> \/ shell = "prompt" /\ tty = Shell
                        \/ shell = "fg" /\ tty \in twice
=============================================================================
