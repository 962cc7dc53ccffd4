--------------------------- MODULE HelperThreads ----------------------------
(***************************************************************************)
(* The two helper threads of the file server and how they are stopped: the *)
(* directory watcher (file_watch.c), which waits in poll for events and a  *)
(* stop pipe, and the admin interface (http_server.c), which waits in      *)
(* accept.  stop clears running, wakes the watcher by the pipe or closes   *)
(* the admin interface's socket, joins the thread and frees the struct.    *)
(* Closing a socket does not wake a thread that waits in accept on it: only *)
(* a connection does, since the wait keeps the socket alive.               *)
(***************************************************************************)
EXTENDS Integers, SequencesExt

CONSTANTS
    MaxEvents,   \* bound on file events
    MaxVisits    \* bound on connections to the admin interface

VARIABLES
    kind,        \* "watch" or "http"
    thread,      \* "none", "test", "enter", "wait", "busy", "gone"
    caller,      \* "start", "up", "wake", "join", "freed", "failed"
    running,
    woken,       \* a byte is in the stop pipe; listen_fd is closed
    pending,     \* events in the inotify queue; connections not yet accepted
    batch,       \* events read and not yet handed to the callback
    made         \* events, or connections, so far

vars == <<kind, thread, caller, running, woken, pending, batch, made>>

Bound == IF kind = "watch" THEN MaxEvents ELSE MaxVisits

Init ==
    /\ kind \in {"watch", "http"}
    /\ thread = "none" /\ caller = "start"
    /\ running = FALSE /\ woken = FALSE
    /\ pending = <<>> /\ batch = <<>> /\ made = 0

\* file_watch_start, http_server_start
Start ==
    /\ caller = "start"
    /\ running' = TRUE
    /\ thread' = "test" /\ caller' = "up"
    /\ UNCHANGED <<kind, woken, pending, batch, made>>

\* A step of starting fails: everything opened before is closed again.
StartFails ==
    /\ caller = "start"
    /\ caller' = "failed"
    /\ UNCHANGED <<kind, thread, running, woken, pending, batch, made>>

\* A file changes, or somebody connects; the socket takes connections while it
\* is open or somebody waits in accept.
Happens ==
    /\ thread # "none" /\ thread # "gone" /\ made < Bound
    /\ kind = "http" => ~woken \/ thread = "wait"
    /\ made' = made + 1
    /\ pending' = Append(pending, made + 1)
    /\ UNCHANGED <<kind, thread, caller, running, woken, batch>>

\* The loop condition.
Test ==
    /\ thread = "test"
    /\ thread' = IF ~running THEN "gone" ELSE IF kind = "http" THEN "enter" ELSE "wait"
    /\ UNCHANGED <<kind, caller, running, woken, pending, batch, made>>

\* poll in the watcher, and the read that follows.
Poll ==
    /\ kind = "watch" /\ thread = "wait"
    /\ woken \/ pending # <<>>
    /\ IF woken THEN thread' = "gone" /\ UNCHANGED <<pending, batch>>
       ELSE batch' = pending /\ pending' = <<>> /\ thread' = "busy"
    /\ UNCHANGED <<kind, caller, running, woken, made>>

\* One event of the read is handed to the callback.
Callback ==
    /\ kind = "watch" /\ thread = "busy"
    /\ batch' = Tail(batch)
    /\ thread' = IF Len(batch) = 1 THEN "test" ELSE "busy"
    /\ UNCHANGED <<kind, caller, running, woken, pending, made>>

\* The thread calls accept; if the socket is closed by then accept fails, and
\* since running was cleared before, the loop is left.
EnterAccept ==
    /\ thread = "enter"
    /\ thread' = IF woken THEN "gone" ELSE "wait"
    /\ UNCHANGED <<kind, caller, running, woken, pending, batch, made>>

Accept ==
    /\ kind = "http" /\ thread = "wait"
    /\ pending # <<>>
    /\ batch' = <<Head(pending)>> /\ pending' = Tail(pending)
    /\ thread' = "busy"
    /\ UNCHANGED <<kind, caller, running, woken, made>>

\* handle_http_connection: the visitor has sent a request or left.
Served ==
    /\ kind = "http" /\ thread = "busy"
    /\ batch' = <<>>
    /\ thread' = "test"
    /\ UNCHANGED <<kind, caller, running, woken, pending, made>>

StopFlag ==
    /\ caller = "up"
    /\ caller' = "wake" /\ running' = FALSE
    /\ UNCHANGED <<kind, thread, woken, pending, batch, made>>

\* Mutant: nothing is written to the stop pipe.
StopWakeNot ==
    /\ caller = "wake"
    /\ caller' = "join"
    /\ UNCHANGED <<kind, thread, running, woken, pending, batch, made>>

StopWake ==
    /\ caller = "wake"
    /\ caller' = "join" /\ woken' = TRUE
    /\ UNCHANGED <<kind, thread, running, pending, batch, made>>

StopJoin ==
    /\ caller = "join" /\ thread = "gone"
    /\ caller' = "freed"
    /\ UNCHANGED <<kind, thread, running, woken, pending, batch, made>>

ThreadStep == Test \/ Poll \/ Callback \/ EnterAccept \/ Accept \/ Served
Next == Start \/ StartFails \/ Happens \/ ThreadStep \/ StopFlag \/ StopWake \/ StopJoin

Spec == Init /\ [][Next]_vars
Fairness == WF_vars(ThreadStep) /\ WF_vars(StopWake) /\ WF_vars(StopJoin)

-----------------------------------------------------------------------------
\* stop returns: the watcher's always, the admin interface's unless its thread
\* already waits in accept and nobody connects.
StopReturns ==
    caller = "wake" ~> caller = "freed" \/ (kind = "http" /\ thread = "wait" /\ pending = <<>>)
=============================================================================
