--------------------------- MODULE ServerSignals ----------------------------
(***************************************************************************)
(* Signals and the main loop of linux-file-server: SIGINT and SIGTERM      *)
(* (signal_handler in src/server.c) clear ctx->running after writing a log *)
(* line; SIGHUP (sighup_handler in src/main_server.c) sets reload_flag,    *)
(* which server_start consumes at the top of its loop.  A handler runs in  *)
(* the main thread, which makes no step of its own until the handler has   *)
(* returned.  Writing a log line holds log_mutex, which is not recursive   *)
(* and is shared with the worker threads.                                  *)
(***************************************************************************)
EXTENDS Naturals

CONSTANTS MaxEdits,     \* bound: versions the configuration file goes through
          StopSignals   \* BOOLEAN: SIGINT or SIGTERM may arrive

VARIABLES
    pc,           \* where the main thread is
    running,      \* ctx->running
    log_mutex,    \* who holds it: "none", "main" or "worker"
    handler,      \* signal_handler: "none" or "logging"
    asked,        \* history: a stop signal has been delivered
    reload_flag,
    config,       \* version of the configuration file on disk
    level,        \* version whose log_level is in force
    tried,        \* version on disk at the last attempt to reload
    wanted        \* version on disk at the last SIGHUP

vars == <<pc, running, log_mutex, handler, asked, reload_flag, config, level, tried, wanted>>
conf == <<reload_flag, config, level, tried, wanted>>

Init ==
    /\ pc = "init" /\ running = FALSE
    /\ log_mutex = "none" /\ handler = "none" /\ asked = FALSE
    /\ reload_flag = FALSE
    /\ config = 0 /\ level = 0 /\ tried = 0 /\ wanted = 0

\* The log calls of the main thread and what follows each of them.
After == [initialized |-> "start", started |-> "test",
          reloading |-> "read", reloaded |-> "poll"]

MainRuns == handler = "none"

(***************************************************************************)
(* Main thread.                                                            *)
(***************************************************************************)
\* The end of server_init: g_ctx is set and the handlers are installed.
Install ==
    /\ MainRuns /\ pc = "init"
    /\ pc' = "initialized"
    /\ UNCHANGED <<running, log_mutex, handler, asked, conf>>

LogBegin ==
    /\ MainRuns /\ pc \in DOMAIN After
    /\ log_mutex = "none"
    /\ log_mutex' = "main"
    /\ UNCHANGED <<pc, running, handler, asked, conf>>

\* Mutant: the flag is cleared when the reload is over.
LogEndClears ==
    /\ MainRuns /\ log_mutex = "main"
    /\ log_mutex' = "none"
    /\ pc' = After[pc]
    /\ reload_flag' = (reload_flag /\ pc # "reloaded")
    /\ UNCHANGED <<running, handler, asked, config, level, tried, wanted>>

LogEnd ==
    /\ MainRuns /\ log_mutex = "main"
    /\ log_mutex' = "none"
    /\ pc' = After[pc]
    /\ UNCHANGED <<running, handler, asked, conf>>

Start ==
    /\ MainRuns /\ pc = "start"
    /\ running' = TRUE
    /\ pc' = "started"
    /\ UNCHANGED <<log_mutex, handler, asked, conf>>

Test ==
    /\ MainRuns /\ pc = "test"
    /\ pc' = IF running THEN "check_reload" ELSE "stopped"
    /\ UNCHANGED <<running, log_mutex, handler, asked, conf>>

\* The flag is cleared before the file is read.
CheckReload ==
    /\ MainRuns /\ pc = "check_reload"
    /\ pc' = IF reload_flag THEN "reloading" ELSE "poll"
    /\ reload_flag' = FALSE
    /\ UNCHANGED <<running, log_mutex, handler, asked, config, level, tried, wanted>>

\* fopen fails, or log_level is taken from the file.
ReadConfig ==
    /\ MainRuns /\ pc = "read"
    /\ level' \in {level, config}
    /\ tried' = config
    /\ pc' = "reloaded"
    /\ UNCHANGED <<running, log_mutex, handler, asked, reload_flag, config, wanted>>

\* epoll_wait returns after an event, after 1000 ms or on EINTR.
Poll ==
    /\ MainRuns /\ pc = "poll"
    /\ pc' = "test"
    /\ UNCHANGED <<running, log_mutex, handler, asked, conf>>

(***************************************************************************)
(* Signals, the other threads and the administrator.                       *)
(***************************************************************************)
StopSignal ==
    /\ StopSignals /\ pc \notin {"init", "stopped"} /\ handler = "none"
    /\ handler' = "logging"
    /\ asked' = TRUE
    /\ UNCHANGED <<pc, running, log_mutex, conf>>

\* log_info takes log_mutex, so the handler waits while it is held; then
\* running is cleared and the interrupted code goes on.
HandlerLogs ==
    /\ handler = "logging" /\ log_mutex = "none"
    /\ running' = FALSE
    /\ handler' = "none"
    /\ UNCHANGED <<pc, log_mutex, asked, conf>>

Hup ==
    /\ pc # "stopped"
    /\ reload_flag' = TRUE
    /\ wanted' = config
    /\ UNCHANGED <<pc, running, log_mutex, handler, asked, config, level, tried>>

WorkerLogs ==
    /\ log_mutex \in {"none", "worker"}
    /\ log_mutex' = IF log_mutex = "none" THEN "worker" ELSE "none"
    /\ UNCHANGED <<pc, running, handler, asked, conf>>

Edit ==
    /\ config < MaxEdits
    /\ config' = config + 1
    /\ UNCHANGED <<pc, running, log_mutex, handler, asked, reload_flag, level, tried, wanted>>

MainStep ==
    \/ Install \/ LogBegin \/ LogEnd \/ Start
    \/ Test \/ CheckReload \/ ReadConfig \/ Poll

Next == MainStep \/ StopSignal \/ HandlerLogs \/ Hup \/ WorkerLogs \/ Edit

Spec == Init /\ [][Next]_vars

\* The main thread and the handler get to run and get log_mutex when it
\* keeps being released; a worker that holds it releases it.
Fairness ==
    /\ SF_vars(MainStep) /\ SF_vars(LogBegin) /\ SF_vars(HandlerLogs)
    /\ WF_vars(WorkerLogs /\ log_mutex = "worker")

FairSpec == Spec /\ Fairness

(***************************************************************************)
(* Properties.                                                             *)
(***************************************************************************)
\* Every SIGHUP is followed by a read of the file as it was then or later,
\* unless the server is asked to stop.
ReloadHappens == (tried < wanted) ~> (tried >= wanted \/ asked)
=============================================================================
