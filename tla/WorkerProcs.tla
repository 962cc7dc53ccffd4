---------------------------- MODULE WorkerProcs -----------------------------
(***************************************************************************)
(* The process pool of the file server (process_pool.c) and the statistics *)
(* its workers share (shm_ipc.c).  The rwlock in the shared memory is      *)
(* process-shared but not robust: SIGTERM kills a worker anywhere, and the *)
(* lock it may hold stays locked.  The worker function is the caller's: it *)
(* serves clients, counting each in and out, and returns at will.          *)
(***************************************************************************)
EXTENDS Integers, FiniteSets

CONSTANTS
    Count,      \* process_count
    MaxClients  \* bound on the clients one worker serves

VARIABLES
    proc,       \* "none", "run", "dead" (not waited for yet), "gone"
    pids,       \* pool->pids: whether an entry is set
    parent, i,  \* where the parent is, and its loop index
    op, at,     \* what each worker does to the statistics, and how far it is
    seen,       \* the value it has read
    inside,     \* whether it has counted in a client
    served,
    holder,     \* who has the write lock
    clients, requests, sent, recv,
    reader      \* shm_get_stats in the parent: "idle", "asking", "got"

lockAndStats == <<holder, clients, requests, sent, recv>>
worker == <<op, at, seen, inside, served>>
vars == <<proc, pids, parent, i, worker, lockAndStats, reader>>

Workers == 1 .. Count
Nobody == 0

Init ==
    /\ proc = [w \in Workers |-> "none"]
    /\ pids = [w \in Workers |-> FALSE]
    /\ parent = "fork" /\ i = 1
    /\ op = [w \in Workers |-> "none"] /\ at = [w \in Workers |-> "idle"]
    /\ seen = [w \in Workers |-> 0]
    /\ inside = [w \in Workers |-> FALSE]
    /\ served = [w \in Workers |-> 0]
    /\ holder = Nobody
    /\ clients = 0 /\ requests = 0 /\ sent = 0 /\ recv = 0
    /\ reader = "idle"

-----------------------------------------------------------------------------
(* The workers.                                                            *)

\* For a client: shm_inc_clients, shm_add_bytes, shm_inc_requests, shm_dec_clients,
\* the middle ones once at most.
Call(w, o) ==
    /\ proc[w] = "run" /\ at[w] = "idle"
    /\ CASE o = "inc" -> ~inside[w] /\ served[w] < MaxClients
         [] o = "dec" -> inside[w]
         [] o = "bytes" -> inside[w] /\ op[w] = "inc"
         [] o = "request" -> inside[w] /\ op[w] \in {"inc", "bytes"}
    /\ op' = [op EXCEPT ![w] = o]
    /\ at' = [at EXCEPT ![w] = "lock"]
    /\ UNCHANGED <<proc, pids, parent, i, seen, inside, served, lockAndStats, reader>>

\* Mutant: the read lock is taken, which others may hold too.
AcquireShared(w) ==
    /\ proc[w] = "run" /\ at[w] = "lock"
    /\ at' = [at EXCEPT ![w] = "read"]
    /\ UNCHANGED <<proc, pids, parent, i, op, seen, inside, served, lockAndStats, reader>>

Acquire(w) ==
    /\ proc[w] = "run" /\ at[w] = "lock"
    /\ holder = Nobody
    /\ holder' = w
    /\ at' = [at EXCEPT ![w] = "read"]
    /\ UNCHANGED <<proc, pids, parent, i, op, seen, inside, served, clients, requests, sent, recv, reader>>

\* The counter is loaded; of the two byte counts the first is done.
ReadCounter(w) ==
    /\ proc[w] = "run" /\ at[w] = "read"
    /\ at' = [at EXCEPT ![w] = "write"]
    /\ seen' = [seen EXCEPT ![w] = CASE op[w] \in {"inc", "dec"} -> clients
                                     [] op[w] = "request" -> requests
                                     [] op[w] = "bytes" -> recv]
    /\ sent' = IF op[w] = "bytes" THEN sent + 1 ELSE sent
    /\ UNCHANGED <<proc, pids, parent, i, op, inside, served, holder, clients, requests, recv, reader>>

WriteCounter(w) ==
    /\ proc[w] = "run" /\ at[w] = "write"
    /\ at' = [at EXCEPT ![w] = "unlock"]
    /\ clients' = CASE op[w] = "inc" -> seen[w] + 1 [] op[w] = "dec" -> seen[w] - 1 [] OTHER -> clients
    /\ requests' = IF op[w] = "request" THEN seen[w] + 1 ELSE requests
    /\ recv' = IF op[w] = "bytes" THEN seen[w] + 1 ELSE recv
    /\ inside' = [inside EXCEPT ![w] = CASE op[w] = "inc" -> TRUE [] op[w] = "dec" -> FALSE [] OTHER -> @]
    /\ served' = [served EXCEPT ![w] = IF op[w] = "inc" THEN @ + 1 ELSE @]
    /\ seen' = [seen EXCEPT ![w] = 0]
    /\ UNCHANGED <<proc, pids, parent, i, op, holder, sent, reader>>

Release(w) ==
    /\ proc[w] = "run" /\ at[w] = "unlock"
    /\ holder' = Nobody
    /\ at' = [at EXCEPT ![w] = "idle"]
    /\ UNCHANGED <<proc, pids, parent, i, op, seen, inside, served, clients, requests, sent, recv, reader>>

\* worker() returns and the child exits.
Return(w) ==
    /\ proc[w] = "run" /\ at[w] = "idle" /\ ~inside[w]
    /\ proc' = [proc EXCEPT ![w] = "dead"]
    /\ UNCHANGED <<pids, parent, i, worker, lockAndStats, reader>>

-----------------------------------------------------------------------------
(* The parent.                                                             *)

Fork ==
    /\ parent = "fork"
    /\ proc' = [proc EXCEPT ![i] = "run"]
    /\ pids' = [pids EXCEPT ![i] = TRUE]
    /\ IF i = Count THEN parent' = "ready" /\ i' = 1 ELSE i' = i + 1 /\ UNCHANGED parent
    /\ UNCHANGED <<worker, lockAndStats, reader>>

\* fork fails: the children there are are killed and waited for.
ForkFails ==
    /\ parent = "fork"
    /\ parent' = "undoKill" /\ i' = 1
    /\ UNCHANGED <<proc, pids, worker, lockAndStats, reader>>

Killed(w) == proc' = [proc EXCEPT ![w] = IF @ = "run" THEN "dead" ELSE @]

\* Where the parent goes after its loop over the children.
After(p) == CASE p = "undoKill" -> "undoWait" [] p = "undoWait" -> "failed"
              [] p = "kill" -> "wait" [] p = "wait" -> "done" [] p = "poolWait" -> "ready"

Advance == IF i = Count THEN parent' = After(parent) /\ i' = 1 ELSE i' = i + 1 /\ UNCHANGED parent

KillOne ==
    /\ parent \in {"kill", "undoKill"}
    /\ IF pids[i] THEN Killed(i) ELSE UNCHANGED proc
    /\ Advance
    /\ UNCHANGED <<pids, worker, lockAndStats, reader>>

\* Mutant: waitpid is called with WNOHANG.
WaitOneNoHang ==
    /\ parent \in {"wait", "undoWait", "poolWait"}
    /\ proc' = [proc EXCEPT ![i] = IF @ = "dead" THEN "gone" ELSE @]
    /\ pids' = [pids EXCEPT ![i] = FALSE]
    /\ Advance
    /\ UNCHANGED <<worker, lockAndStats, reader>>

WaitOne ==
    /\ parent \in {"wait", "undoWait", "poolWait"}
    /\ pids[i] => proc[i] = "dead"
    /\ proc' = [proc EXCEPT ![i] = IF pids[i] THEN "gone" ELSE @]
    /\ pids' = [pids EXCEPT ![i] = FALSE]
    /\ Advance
    /\ UNCHANGED <<worker, lockAndStats, reader>>

\* process_pool_destroy, or process_pool_wait by itself.
Begin(p) ==
    /\ parent = "ready" /\ reader # "asking"
    /\ parent' = p
    /\ UNCHANGED <<proc, pids, i, worker, lockAndStats, reader>>

Ask ==
    /\ parent \in {"ready", "done"} /\ reader = "idle"
    /\ reader' = "asking"
    /\ UNCHANGED <<proc, pids, parent, i, worker, lockAndStats>>

\* shm_get_stats: the read lock is granted while nobody has the write lock.
GetStats ==
    /\ reader = "asking" /\ holder = Nobody
    /\ reader' = "got"
    /\ UNCHANGED <<proc, pids, parent, i, worker, lockAndStats>>

WorkerStep(w) == Acquire(w) \/ ReadCounter(w) \/ WriteCounter(w) \/ Release(w)
ParentStep == KillOne \/ WaitOne
Next ==
    \/ \E w \in Workers : \/ WorkerStep(w) \/ Return(w)
                          \/ \E o \in {"inc", "request", "bytes", "dec"} : Call(w, o)
    \/ Fork \/ ForkFails \/ ParentStep \/ Ask \/ GetStats
    \/ Begin("kill") \/ Begin("poolWait")

Spec == Init /\ [][Next]_vars
Fairness == WF_vars(ParentStep) /\ SF_vars(GetStats) /\ \A w \in Workers : WF_vars(WorkerStep(w))

-----------------------------------------------------------------------------
\* Whenever the statistics can be read they are exact: client_count is the number
\* of clients counted in, by workers alive or killed since, and both byte counts
\* of a transfer are there, wherever SIGTERM has hit.
StatsExact ==
    holder = Nobody =>
        /\ clients = Cardinality({w \in Workers : inside[w]})
        /\ sent = recv

\* After a failed create, and after destroy, no child is left running or unwaited
\* for.
NoChildLeft == parent \in {"failed", "done"} => \A w \in Workers : proc[w] \in {"none", "gone"}
=============================================================================
