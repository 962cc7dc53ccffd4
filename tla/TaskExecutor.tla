---------------------------- MODULE TaskExecutor ----------------------------
(***************************************************************************)
(* What the file server's thread pool promises its callers, whatever its   *)
(* mutex and condition variables do: a bounded FIFO of tasks, each started *)
(* once, in the order it was accepted, by one of a fixed set of threads,   *)
(* and a close that completes only when everything accepted has been run.  *)
(***************************************************************************)
EXTENDS Naturals, Sequences

CONSTANTS Threads,    \* the worker threads
          Tasks,      \* the calls thread_pool_add_task may be given
          MaxTasks,   \* max_tasks, the capacity of the task queue
          NoTask      \* what an idle thread has in hand

VARIABLES pending,    \* accepted and not started, oldest first
          hand,       \* per thread: the task it runs, or NoTask
          done,       \* finished
          state       \* "open", "closing" or "closed"

evars == <<pending, hand, done, state>>

Init ==
    /\ pending = <<>>
    /\ hand = [w \in Threads |-> NoTask]
    /\ done = {}
    /\ state = "open"

\* A task is accepted only while the pool is open and the queue has room.
Accept(t) ==
    /\ state = "open"
    /\ Len(pending) < MaxTasks
    /\ t \notin done
    /\ \A w \in Threads : hand[w] # t
    /\ \A i \in DOMAIN pending : pending[i] # t
    /\ pending' = Append(pending, t)
    /\ UNCHANGED <<hand, done, state>>

\* Only the oldest task starts, on an idle thread; closing does not stop it
\* from starting.
Start(w) ==
    /\ pending # <<>>
    /\ hand[w] = NoTask
    /\ state # "closed"
    /\ pending' = Tail(pending)
    /\ hand' = [hand EXCEPT ![w] = Head(pending)]
    /\ UNCHANGED <<done, state>>

Finish(w) ==
    /\ hand[w] # NoTask
    /\ hand' = [hand EXCEPT ![w] = NoTask]
    /\ done' = done \cup {hand[w]}
    /\ UNCHANGED <<pending, state>>

Close ==
    /\ state = "open"
    /\ state' = "closing"
    /\ UNCHANGED <<pending, hand, done>>

\* The close completes only once the queue is drained and every thread idle.
Closed ==
    /\ state = "closing"
    /\ pending = <<>>
    /\ \A w \in Threads : hand[w] = NoTask
    /\ state' = "closed"
    /\ UNCHANGED <<pending, hand, done>>

Next ==
    \/ \E t \in Tasks : Accept(t)
    \/ \E w \in Threads : Start(w) \/ Finish(w)
    \/ Close
    \/ Closed

Spec == Init /\ [][Next]_evars
=============================================================================
