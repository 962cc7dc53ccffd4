----------------------------- MODULE MCServices -----------------------------
(***************************************************************************)
(* The parts of the file server beside its connections: signals and        *)
(* reload, the block pool, the worker processes and their shared           *)
(* statistics, the rate limit, the rotating log, the module table and the  *)
(* helper threads.  They share no state, so a behaviour is one of any of   *)
(* them.                                                                   *)
(***************************************************************************)
EXTENDS Integers, Sequences

CONSTANTS
    MaxEdits, StopSignals,
    BlockCount, Threads,
    Count, MaxClients,
    Callers, Rates, Bytes, PerSecond, MaxCalls, MaxSets, Window,
    MaxLines, OpenFails,
    Names, Paths, MaxModules,
    MaxEvents, MaxVisits

VARIABLES
    which,   \* the component that runs
    sig_pc, sig_running, sig_log_mutex, sig_handler, sig_asked, sig_reload_flag, sig_config,
    sig_level, sig_tried, sig_wanted,
    lfs_word, lfs_freeList, lfs_freeCount, lfs_held,
    wp_proc, wp_pids, wp_parent, wp_i, wp_op, wp_at, wp_seen, wp_inside, wp_served, wp_holder,
    wp_clients, wp_requests, wp_sent, wp_recv, wp_reader,
    rate_tokens, rate_rate, rate_elapsed, rate_want, rate_sleep, rate_calls, rate_sets,
    rate_granted,
    rot_file, rot_open, rot_maxSize, rot_maxFiles, rot_step, rot_k, rot_written, rot_least,
    rot_rotations,
    mod_modules, mod_count, mod_users, mod_lives,
    help_kind, help_thread, help_caller, help_running, help_woken, help_pending, help_batch,
    help_made

\* What log_set_rotate is called with: max_size and max_files.
Limits == {<<1, 3>>, <<2, 3>>, <<2, 2>>, <<2, 0>>}

ServerSignals == INSTANCE ServerSignals WITH
    pc <- sig_pc, running <- sig_running, log_mutex <- sig_log_mutex, handler <- sig_handler,
    asked <- sig_asked, reload_flag <- sig_reload_flag, config <- sig_config,
    level <- sig_level, tried <- sig_tried, wanted <- sig_wanted
LfsPool == INSTANCE LfsPool WITH
    word <- lfs_word, freeList <- lfs_freeList, freeCount <- lfs_freeCount, held <- lfs_held
WorkerProcs == INSTANCE WorkerProcs WITH
    proc <- wp_proc, pids <- wp_pids, parent <- wp_parent, i <- wp_i, op <- wp_op, at <- wp_at,
    seen <- wp_seen, inside <- wp_inside, served <- wp_served, holder <- wp_holder,
    clients <- wp_clients, requests <- wp_requests, sent <- wp_sent, recv <- wp_recv,
    reader <- wp_reader
RateLimit == INSTANCE RateLimit WITH
    tokens <- rate_tokens, rate <- rate_rate, elapsed <- rate_elapsed, want <- rate_want,
    sleep <- rate_sleep, calls <- rate_calls, sets <- rate_sets, granted <- rate_granted
LogRotate == INSTANCE LogRotate WITH
    file <- rot_file, open <- rot_open, maxSize <- rot_maxSize, maxFiles <- rot_maxFiles,
    step <- rot_step, k <- rot_k, written <- rot_written, least <- rot_least,
    rotations <- rot_rotations
ModuleTable == INSTANCE ModuleTable WITH
    modules <- mod_modules, count <- mod_count, users <- mod_users, lives <- mod_lives
HelperThreads == INSTANCE HelperThreads WITH
    kind <- help_kind, thread <- help_thread, caller <- help_caller, running <- help_running,
    woken <- help_woken, pending <- help_pending, batch <- help_batch, made <- help_made

sig == <<sig_pc, sig_running, sig_log_mutex, sig_handler, sig_asked, sig_reload_flag,
         sig_config, sig_level, sig_tried, sig_wanted>>
lfs == <<lfs_word, lfs_freeList, lfs_freeCount, lfs_held>>
wp == <<wp_proc, wp_pids, wp_parent, wp_i, wp_op, wp_at, wp_seen, wp_inside, wp_served,
        wp_holder, wp_clients, wp_requests, wp_sent, wp_recv, wp_reader>>
rate == <<rate_tokens, rate_rate, rate_elapsed, rate_want, rate_sleep, rate_calls, rate_sets,
          rate_granted>>
rot == <<rot_file, rot_open, rot_maxSize, rot_maxFiles, rot_step, rot_k, rot_written, rot_least,
         rot_rotations>>
mod == <<mod_modules, mod_count, mod_users, mod_lives>>
help == <<help_kind, help_thread, help_caller, help_running, help_woken, help_pending,
          help_batch, help_made>>
vars == <<which, sig, lfs, wp, rate, rot, mod, help>>

Runs(component) == which = component

\* Those that do not run stay in an initial state, always the same one.
Init ==
    /\ which \in {"ServerSignals", "LfsPool", "WorkerProcs", "RateLimit", "LogRotate",
                  "ModuleTable", "HelperThreads"}
    /\ ServerSignals!Init
    /\ LfsPool!Init
    /\ WorkerProcs!Init
    /\ RateLimit!Init
    /\ LogRotate!Init
    /\ ModuleTable!Init
    /\ HelperThreads!Init
    /\ Runs("RateLimit") \/ rate_rate = 1
    /\ Runs("HelperThreads") \/ help_kind = "watch"

Next ==
    \/ Runs("ServerSignals") /\ ServerSignals!Next /\ UNCHANGED <<which, lfs, wp, rate, rot, mod, help>>
    \/ Runs("LfsPool") /\ LfsPool!Next /\ UNCHANGED <<which, sig, wp, rate, rot, mod, help>>
    \/ Runs("WorkerProcs") /\ WorkerProcs!Next /\ UNCHANGED <<which, sig, lfs, rate, rot, mod, help>>
    \/ Runs("RateLimit") /\ RateLimit!Next /\ UNCHANGED <<which, sig, lfs, wp, rot, mod, help>>
    \/ Runs("LogRotate") /\ LogRotate!Next /\ UNCHANGED <<which, sig, lfs, wp, rate, mod, help>>
    \/ Runs("ModuleTable") /\ ModuleTable!Next /\ UNCHANGED <<which, sig, lfs, wp, rate, rot, help>>
    \/ Runs("HelperThreads") /\ HelperThreads!Next /\ UNCHANGED <<which, sig, lfs, wp, rate, rot, mod>>

\* Each has the fairness its module states.
FairSpec ==
    /\ Init /\ [][Next]_vars
    /\ SF_sig(Runs("ServerSignals") /\ ServerSignals!MainStep)
    /\ SF_sig(Runs("ServerSignals") /\ ServerSignals!LogBegin)
    /\ SF_sig(Runs("ServerSignals") /\ ServerSignals!HandlerLogs)
    /\ WF_sig(Runs("ServerSignals") /\ ServerSignals!WorkerLogs /\ sig_log_mutex = "worker")
    /\ WF_wp(Runs("WorkerProcs") /\ WorkerProcs!ParentStep)
    /\ SF_wp(Runs("WorkerProcs") /\ WorkerProcs!GetStats)
    /\ \A w \in 1 .. Count : WF_wp(Runs("WorkerProcs") /\ WorkerProcs!WorkerStep(w))
    /\ WF_rate(Runs("RateLimit") /\ RateLimit!Tick)
    /\ \A c \in Callers : WF_rate(Runs("RateLimit") /\ RateLimit!Awake(c))
    /\ WF_help(Runs("HelperThreads") /\ HelperThreads!ThreadStep)
    /\ WF_help(Runs("HelperThreads") /\ HelperThreads!StopWake)
    /\ WF_help(Runs("HelperThreads") /\ HelperThreads!StopJoin)

-----------------------------------------------------------------------------
\* Every SIGHUP leads to a read of the file as it was then or later, unless the
\* server is asked to stop.
ReloadHappens == ServerSignals!ReloadHappens

\* Whatever users write into their blocks, mempool_alloc gives each block to
\* one thread at a time.
ImplementsPool == LfsPool!ImplementsPool

\* Whenever the shared statistics can be read they are exact, wherever SIGTERM
\* has hit the workers that update them.
StatsExact == WorkerProcs!StatsExact

\* A failed process_pool_create and a process_pool_destroy leave no child
\* running or unwaited for.
NoChildLeft == WorkerProcs!NoChildLeft

\* In every stretch of time no more is granted than a full bucket and what
\* flows in at the highest rate.
NeverAboveRate == RateLimit!NeverAboveRate

\* The newest lines are kept without a gap in as many files as were at all
\* times to be kept.
NewestKept == LogRotate!NewestKept

\* The modules in the table are those initialised and not cleaned up, and their
\* libraries are open.
TableMatchesLibraries == ModuleTable!TableMatchesLibraries

\* file_watch_stop returns, and http_server_stop unless its thread waits in
\* accept and nobody connects.
StopReturns == HelperThreads!StopReturns
=============================================================================
