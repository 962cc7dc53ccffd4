----------------------------- MODULE ThreadPool -----------------------------
(***************************************************************************)
(* The thread pool of linux-file-server (src/thread_pool.c): worker        *)
(* threads that sleep on not_empty, callers of thread_pool_add_task that   *)
(* sleep on not_full, and the owner that creates and destroys the pool.    *)
(*                                                                         *)
(* Grain of atomicity.  Code between pthread_mutex_lock and the next       *)
(* unlock or cond_wait is one step whenever everything it can race with    *)
(* takes the lock too.  The rollback in thread_pool_create does not take   *)
(* it, so a worker's test of its wait condition and its going to sleep are *)
(* two steps, with `lock' held in between.  A thread asleep on a condition *)
(* variable is one whose program counter is "asleep"; a signal moves some  *)
(* sleeper, a broadcast all of them, back to acquiring the lock, and POSIX *)
(* lets a sleeper wake for no reason at all.  Calling add_task on a pool   *)
(* whose destroy has begun is the client's error and is not modelled;      *)
(* being inside add_task when destroy begins is.                           *)
(***************************************************************************)
EXTENDS Naturals, Sequences, FiniteSets

CONSTANTS
    Workers,      \* the threads thread_pool_create is asked for (thread_count)
    Producers,    \* threads that call thread_pool_add_task
    Tasks,        \* the (function, arg) pairs submitted, each at most once
    MaxTasks,     \* max_tasks
    Null,         \* the NULL pointer, and "nobody" for the lock
    CreateFails,  \* BOOLEAN: pthread_create may fail
    MallocFails,  \* BOOLEAN: malloc may fail in thread_pool_add_task
    Quiesce       \* BOOLEAN: destroy is called only with no add_task in progress

ASSUME PoolAssumption ==
    /\ Workers # {} /\ IsFiniteSet(Workers)
    /\ MaxTasks \in Nat \ {0}
    /\ Null \notin Tasks /\ Null \notin Workers
    /\ CreateFails \in BOOLEAN /\ MallocFails \in BOOLEAN /\ Quiesce \in BOOLEAN

VARIABLES
    owner,        \* where the creating and destroying thread is
    lock,         \* the worker that holds pool->lock between two steps, or Null
    shutdown,     \* pool->shutdown
    queue,        \* the chain of task_t reachable from pool->task_head
    task_tail,    \* pool->task_tail
    task_count,   \* pool->task_count
    wpc,          \* per worker: where it is in worker_thread
    task,         \* per worker: the local `task'
    ppc,          \* per producer: where it is in thread_pool_add_task
    arg,          \* per producer: the task it is submitting
    accepted,     \* history: tasks for which add_task returned 0, in order
    started,      \* history: tasks taken off the queue, in order
    finished      \* history: tasks whose function has returned

pool  == <<shutdown, queue, task_tail, task_count>>
hist  == <<accepted, started, finished>>
vars  == <<owner, lock, pool, wpc, task, ppc, arg, hist>>

OwnerStates == {"creating", "unwinding", "joining_created", "failed",
                "open", "joining", "freed"}
WorkerStates ==
    {"unborn", "locking", "to_sleep", "asleep", "woken", "running", "exited"}
ProducerStates == {"out", "locking", "asleep", "woken"}
Acquiring == {"locking", "woken"}         \* in mutex_lock, or leaving cond_wait

Live == owner \in {"open", "joining"}     \* add_task may touch the pool

Init ==
    /\ owner = "creating"
    /\ lock = Null
    /\ shutdown = FALSE
    /\ queue = <<>> /\ task_tail = Null /\ task_count = 0
    /\ wpc = [w \in Workers |-> "unborn"]
    /\ task = [w \in Workers |-> Null]
    /\ ppc = [p \in Producers |-> "out"]
    /\ arg = [p \in Producers |-> Null]
    /\ accepted = <<>> /\ started = <<>> /\ finished = {}

(***************************************************************************)
(* Condition variables.                                                    *)
(***************************************************************************)
Sleepers(pc) == {x \in DOMAIN pc : pc[x] = "asleep"}

\* pthread_cond_signal: wakes one sleeper if there is one.
Signalled(pc) ==
    IF Sleepers(pc) = {}
    THEN {pc}
    ELSE {[pc EXCEPT ![x] = "woken"] : x \in Sleepers(pc)}

\* pthread_cond_broadcast: wakes every sleeper.
Broadcast(pc) ==
    [x \in DOMAIN pc |-> IF pc[x] = "asleep" THEN "woken" ELSE pc[x]]

(***************************************************************************)
(* thread_pool_create                                                      *)
(***************************************************************************)
\* Parameters rejected, or no memory, mutex or condition variable: nothing
\* has been started and NULL is returned.
CreateNothing ==
    /\ owner = "creating" /\ CreateFails
    /\ \A w \in Workers : wpc[w] = "unborn"
    /\ owner' = "failed"
    /\ UNCHANGED <<lock, pool, wpc, task, ppc, arg, hist>>

Spawn(w) ==
    /\ owner = "creating"
    /\ wpc[w] = "unborn"
    /\ wpc' = [wpc EXCEPT ![w] = "locking"]
    /\ owner' = IF \A v \in Workers \ {w} : wpc[v] # "unborn"
                THEN "open" ELSE "creating"
    /\ UNCHANGED <<lock, pool, task, ppc, arg, hist>>

\* pthread_create failed: shutdown is set without taking the lock.
SpawnFailed ==
    /\ owner = "creating" /\ CreateFails
    /\ shutdown' = TRUE
    /\ owner' = "unwinding"
    /\ UNCHANGED <<lock, queue, task_tail, task_count, wpc, task, ppc, arg, hist>>

\* ... and so is the broadcast.
UnwindBroadcast ==
    /\ owner = "unwinding"
    /\ wpc' = Broadcast(wpc)
    /\ owner' = "joining_created"
    /\ UNCHANGED <<lock, pool, task, ppc, arg, hist>>

UnwindJoined ==
    /\ owner = "joining_created"
    /\ \A w \in Workers : wpc[w] \in {"unborn", "exited"}
    /\ owner' = "failed"
    /\ UNCHANGED <<lock, pool, wpc, task, ppc, arg, hist>>

(***************************************************************************)
(* worker_thread                                                           *)
(***************************************************************************)
\* Lock taken (for the first time or on return from cond_wait), no task and
\* no shutdown: the worker is going to sleep and still holds the lock.
FindNothing(w) ==
    /\ wpc[w] \in Acquiring /\ lock = Null
    /\ task_count = 0 /\ ~shutdown
    /\ lock' = w
    /\ wpc' = [wpc EXCEPT ![w] = "to_sleep"]
    /\ UNCHANGED <<owner, pool, task, ppc, arg, hist>>

\* pthread_cond_wait releases the lock and sleeps in one step.
Sleep(w) ==
    /\ wpc[w] = "to_sleep"
    /\ lock' = Null
    /\ wpc' = [wpc EXCEPT ![w] = "asleep"]
    /\ UNCHANGED <<owner, pool, task, ppc, arg, hist>>

\* Mutant: the worker leaves on shutdown although tasks are queued.
WorkerExitEarly(w) ==
    /\ wpc[w] \in Acquiring /\ lock = Null
    /\ shutdown
    /\ wpc' = [wpc EXCEPT ![w] = "exited"]
    /\ UNCHANGED <<owner, lock, pool, task, ppc, arg, hist>>

WorkerExit(w) ==
    /\ wpc[w] \in Acquiring /\ lock = Null
    /\ shutdown /\ task_count = 0
    /\ wpc' = [wpc EXCEPT ![w] = "exited"]
    /\ UNCHANGED <<owner, lock, pool, task, ppc, arg, hist>>

\* Unlink the head; the list that becomes empty has no tail.  A NULL head
\* with a positive count would leave everything as it is.
Unlink ==
    IF queue = <<>>
    THEN UNCHANGED <<queue, task_tail, task_count, started>>
    ELSE /\ queue' = Tail(queue)
         /\ task_tail' = IF Tail(queue) = <<>> THEN Null ELSE task_tail
         /\ task_count' = task_count - 1
         /\ started' = Append(started, Head(queue))

\* Mutant: no signal of not_full.
TakeTaskSilently(w) ==
    /\ wpc[w] \in Acquiring /\ lock = Null
    /\ task_count > 0
    /\ Unlink
    /\ task' = [task EXCEPT ![w] = Head(queue)]
    /\ wpc' = [wpc EXCEPT ![w] = "running"]
    /\ UNCHANGED <<owner, lock, shutdown, ppc, arg, accepted, finished>>

TakeTask(w) ==
    /\ wpc[w] \in Acquiring /\ lock = Null
    /\ task_count > 0
    /\ Unlink
    /\ task' = [task EXCEPT ![w] = IF queue = <<>> THEN Null ELSE Head(queue)]
    /\ ppc' \in Signalled(ppc)
    /\ wpc' = [wpc EXCEPT ![w] = IF queue = <<>> THEN "locking" ELSE "running"]
    /\ UNCHANGED <<owner, lock, shutdown, arg, accepted, finished>>

\* task->function(task->arg) returns and the task is freed.
RunTask(w) ==
    /\ wpc[w] = "running"
    /\ finished' = finished \cup {task[w]}
    /\ task' = [task EXCEPT ![w] = Null]
    /\ wpc' = [wpc EXCEPT ![w] = "locking"]
    /\ UNCHANGED <<owner, lock, pool, ppc, arg, accepted, started>>

(***************************************************************************)
(* thread_pool_add_task                                                    *)
(***************************************************************************)
Submitted == {accepted[i] : i \in DOMAIN accepted} \cup {arg[p] : p \in Producers}

CallAdd(p, t) ==
    /\ ppc[p] = "out" /\ owner = "open"
    /\ t \notin Submitted
    /\ ppc' = [ppc EXCEPT ![p] = "locking"]
    /\ arg' = [arg EXCEPT ![p] = t]
    /\ UNCHANGED <<owner, lock, pool, wpc, task, hist>>

Return(p) ==
    /\ ppc' = [ppc EXCEPT ![p] = "out"]
    /\ arg' = [arg EXCEPT ![p] = Null]

\* The lock is taken, at the call or on return from cond_wait; either way
\* shutdown is tested first.
AddRefused(p) ==
    /\ ppc[p] \in Acquiring /\ lock = Null /\ Live
    /\ shutdown
    /\ Return(p)
    /\ UNCHANGED <<owner, lock, pool, wpc, task, hist>>

AddWaits(p) ==
    /\ ppc[p] \in Acquiring /\ lock = Null /\ Live
    /\ ~shutdown
    /\ task_count >= MaxTasks
    /\ ppc' = [ppc EXCEPT ![p] = "asleep"]
    /\ UNCHANGED <<owner, lock, pool, wpc, task, arg, hist>>

AddNoMemory(p) ==
    /\ ppc[p] \in Acquiring /\ lock = Null /\ Live /\ MallocFails
    /\ ~shutdown
    /\ task_count < MaxTasks
    /\ Return(p)
    /\ UNCHANGED <<owner, lock, pool, wpc, task, hist>>

\* Mutant: the new task is linked at the head.
LinkFirst(t) ==
    /\ queue' = <<t>> \o queue
    /\ task_tail' = IF task_tail = Null THEN t ELSE task_tail
    /\ task_count' = task_count + 1

\* Link t after task_tail, or make it the head when there is no tail.  A
\* tail outside the chain would hang t where no worker finds it.
LinkLast(t) ==
    /\ queue' = IF task_tail = Null THEN <<t>>
                ELSE IF queue # <<>> /\ task_tail = queue[Len(queue)]
                     THEN Append(queue, t) ELSE queue
    /\ task_tail' = t
    /\ task_count' = task_count + 1

\* Mutant: no signal of not_empty.
AddTaskSilently(p) ==
    /\ ppc[p] \in Acquiring /\ lock = Null /\ Live
    /\ ~shutdown
    /\ task_count < MaxTasks
    /\ LinkLast(arg[p])
    /\ accepted' = Append(accepted, arg[p])
    /\ Return(p)
    /\ UNCHANGED <<owner, lock, shutdown, wpc, task, started, finished>>

AddTask(p) ==
    /\ ppc[p] \in Acquiring /\ lock = Null /\ Live
    /\ ~shutdown
    /\ task_count < MaxTasks
    /\ LinkLast(arg[p])
    /\ accepted' = Append(accepted, arg[p])
    /\ wpc' \in Signalled(wpc)
    /\ Return(p)
    /\ UNCHANGED <<owner, lock, shutdown, task, started, finished>>

(***************************************************************************)
(* thread_pool_destroy                                                     *)
(***************************************************************************)
\* Mutant: one waiter is woken instead of all of them.
DestroySignalOne ==
    /\ owner = "open" /\ lock = Null
    /\ Quiesce => \A p \in Producers : ppc[p] = "out"
    /\ shutdown' = TRUE
    /\ wpc' \in Signalled(wpc)
    /\ ppc' \in Signalled(ppc)
    /\ owner' = "joining"
    /\ UNCHANGED <<lock, queue, task_tail, task_count, task, arg, hist>>

DestroySignal ==
    /\ owner = "open" /\ lock = Null
    /\ Quiesce => \A p \in Producers : ppc[p] = "out"
    /\ shutdown' = TRUE
    /\ wpc' = Broadcast(wpc)
    /\ ppc' = Broadcast(ppc)
    /\ owner' = "joining"
    /\ UNCHANGED <<lock, queue, task_tail, task_count, task, arg, hist>>

\* All workers joined: leftover tasks, the lock and the pool are freed.
DestroyFree ==
    /\ owner = "joining"
    /\ \A w \in Workers : wpc[w] = "exited"
    /\ owner' = "freed"
    /\ queue' = <<>>
    /\ UNCHANGED <<lock, shutdown, task_tail, task_count, wpc, task, ppc, arg, hist>>

(***************************************************************************)
(* Spurious wakeups, which pthread_cond_wait permits.                      *)
(***************************************************************************)
WorkerWakes(w) ==
    /\ wpc[w] = "asleep"
    /\ wpc' = [wpc EXCEPT ![w] = "woken"]
    /\ UNCHANGED <<owner, lock, pool, task, ppc, arg, hist>>

ProducerWakes(p) ==
    /\ ppc[p] = "asleep"
    /\ ppc' = [ppc EXCEPT ![p] = "woken"]
    /\ UNCHANGED <<owner, lock, pool, wpc, task, arg, hist>>

WorkerLocks(w) == FindNothing(w) \/ WorkerExit(w) \/ TakeTask(w)
AddLocks(p) == AddRefused(p) \/ AddWaits(p) \/ AddNoMemory(p) \/ AddTask(p)
OwnerStep ==
    \/ CreateNothing \/ SpawnFailed \/ (\E w \in Workers : Spawn(w))
    \/ UnwindBroadcast \/ UnwindJoined
    \/ DestroySignal \/ DestroyFree

Next ==
    \/ OwnerStep
    \/ \E w \in Workers : WorkerLocks(w) \/ Sleep(w) \/ RunTask(w) \/ WorkerWakes(w)
    \/ \E p \in Producers : \/ \E t \in Tasks : CallAdd(p, t)
                            \/ AddLocks(p)
                            \/ ProducerWakes(p)

Spec == Init /\ [][Next]_vars

(***************************************************************************)
(* Fairness.  A thread that can run does (WF), a task's function returns   *)
(* (WF on RunTask), and a thread that keeps finding the mutex free at some *)
(* later time eventually gets it (SF on the steps that take it).  No call, *)
(* failure or spurious wakeup is ever required to happen; the owner is not *)
(* required to call destroy.                                               *)
(***************************************************************************)
Fairness ==
    /\ \A w \in Workers : /\ WF_vars(Spawn(w) \/ Sleep(w) \/ RunTask(w))
                          /\ SF_vars(WorkerLocks(w))
    /\ \A p \in Producers : SF_vars(AddLocks(p))
    /\ WF_vars(UnwindBroadcast \/ UnwindJoined \/ DestroyFree)

FairSpec == Spec /\ Fairness

(***************************************************************************)
(* Properties.                                                             *)
(***************************************************************************)
RangeOf(s) == {s[i] : i \in DOMAIN s}
InHand == {task[w] : w \in {v \in Workers : wpc[v] = "running"}}

\* Every variable stays in its type; task_count stays between 0 and max_tasks.
TypeOK ==
    /\ owner \in OwnerStates
    /\ lock \in Workers \cup {Null}
    /\ shutdown \in BOOLEAN
    /\ queue \in Seq(Tasks)
    /\ task_tail \in Tasks \cup {Null}
    /\ task_count \in 0..MaxTasks
    /\ wpc \in [Workers -> WorkerStates]
    /\ task \in [Workers -> Tasks \cup {Null}]
    /\ ppc \in [Producers -> ProducerStates]
    /\ arg \in [Producers -> Tasks \cup {Null}]
    /\ accepted \in Seq(Tasks)
    /\ started \in Seq(Tasks)
    /\ finished \subseteq Tasks

\* The linked list behind the queue stays consistent across workers and
\* callers: task_count is the length of the chain from task_head, and
\* task_tail is its last node, or NULL exactly when the chain is empty
\* (worker_thread's unlink against thread_pool_add_task's append).
ListShape ==
    /\ task_count = Len(queue)
    /\ task_tail = IF queue = <<>> THEN Null ELSE queue[Len(queue)]

\* Every task add_task accepted is taken once, in the order of acceptance,
\* and once taken is either in exactly one worker's hands or finished; none
\* is dropped, not even by the cleanup loop of thread_pool_destroy.
ExactlyOnceInOrder ==
    /\ accepted = started \o queue
    /\ RangeOf(started) = finished \cup InHand
    /\ finished \cap InHand = {}
    /\ \A v, w \in Workers :
          (wpc[v] = "running" /\ wpc[w] = "running" /\ task[v] = task[w]) => v = w

\* What the proofs need besides: no task is accepted twice, and the calls
\* in progress submit tasks that are new and different from one another;
Fresh ==
    /\ \A i, j \in DOMAIN accepted : accepted[i] = accepted[j] => i = j
    /\ \A p \in Producers :
          /\ ppc[p] = "out" <=> arg[p] = Null
          /\ arg[p] \notin RangeOf(accepted)
    /\ \A p, q \in Producers : (arg[p] = arg[q] /\ arg[p] # Null) => p = q
    /\ \A w \in Workers : IF wpc[w] = "running" THEN task[w] \in Tasks ELSE task[w] = Null
\* the lock is held across steps exactly by a worker about to sleep, and the
\* queue is then empty;
LockHeld ==
    \A w \in Workers : /\ wpc[w] = "to_sleep" <=> lock = w
                       /\ wpc[w] = "to_sleep" => task_count = 0
\* workers leave only after shutdown with the queue drained, and destroy
\* joins only after shutdown.
ExitDrained ==
    /\ \A w \in Workers : wpc[w] = "exited" => shutdown /\ task_count = 0
    /\ owner \in {"joining", "freed"} => shutdown
    /\ owner = "freed" => \A w \in Workers : wpc[w] = "exited"
    /\ owner \in {"open", "joining"} => \A w \in Workers : wpc[w] # "unborn"

\* The inductive invariant behind ExactlyOnceInOrder: list shape, lock and
\* exit conditions together keep every accepted task accounted for.
IInv == TypeOK /\ ListShape /\ ExactlyOnceInOrder /\ Fresh /\ LockHeld /\ ExitDrained

\* No wakeup of a worker is lost: while some worker sleeps on not_empty, the
\* idle workers already awake are enough to take every queued task (one
\* signal per append suffices, whatever the interleaving).
WakeupsCoverQueue ==
    Sleepers(wpc) # {} =>
        Len(queue) <= Cardinality({w \in Workers : wpc[w] \in Acquiring})

\* No wakeup of a caller is lost while malloc succeeds: while some caller
\* sleeps on not_full, the callers already awake are enough to fill every
\* free place of the queue.
WakeupsCoverRoom ==
    Sleepers(ppc) # {} =>
        MaxTasks - Len(queue) <= Cardinality({p \in Producers : ppc[p] \in Acquiring})

\* A task that was accepted is eventually run to completion, also when the
\* pool is destroyed before a worker got to it.
AcceptedRuns ==
    \A t \in Tasks : (t \in RangeOf(accepted)) ~> (t \in finished)

\* thread_pool_destroy returns: every worker leaves worker_thread and is
\* joined.
DestroyReturns == (owner = "joining") ~> (owner = "freed")

PoolState == CASE owner = "freed" -> "closed"
               [] owner = "joining" -> "closing"
               [] OTHER -> "open"

\* The pool as the bounded FIFO executor of TaskExecutor.
Executor ==
    INSTANCE TaskExecutor WITH
        Threads <- Workers, NoTask <- Null,
        pending <- queue, hand <- task, done <- finished, state <- PoolState

\* Steps of worker_thread, add_task and destroy are steps of the executor.
ImplementsExecutor == Executor!Spec
=============================================================================
