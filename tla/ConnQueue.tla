----------------------------- MODULE ConnQueue ------------------------------
(***************************************************************************)
(* The connection queue between the accepting thread and the workers of    *)
(* the web server (web-server/src/http.c) and of the proxy                 *)
(* (network-proxy/src/proxy.c), which are the same code: a ring of         *)
(* max_connections descriptors under one mutex, and a stop function that   *)
(* clears `running' and broadcasts without taking the mutex.  Because of   *)
(* that a worker's test and its going to sleep are two steps, with the     *)
(* mutex held in between.  The web server calls stop from a signal handler *)
(* on the accepting thread (InHandler), the proxy's users from a thread of *)
(* their own.  signal(2) restarts an interrupted accept.                   *)
(***************************************************************************)
EXTENDS Integers, Sequences, FiniteSets

CONSTANTS
    Workers,         \* threads[0..thread_count-1]
    Conns,           \* connections peers make
    MaxConnections,  \* config.max_connections
    Main, Null,      \* the accepting thread; nobody
    Stops,           \* BOOLEAN: stop may be called
    InHandler        \* BOOLEAN: stop runs on the accepting thread

ASSUME QueueAssumption ==
    /\ MaxConnections \in Nat \ {0} /\ IsFiniteSet(Workers)
    /\ Null \notin Conns \cup Workers /\ Main \notin Workers /\ Main # Null
    /\ Stops \in BOOLEAN /\ InHandler \in BOOLEAN

VARIABLES
    running,
    mutex,                            \* its holder, or Null
    queue,                            \* connection_queue[0..MaxConnections-1]
    queue_head, queue_tail, queue_size,
    acc,         \* the accepting thread: "test", "accept", "lock", "locked", "done"
    client_fd,   \* its local: the connection just accepted
    wpc,         \* per worker
    fd,          \* per worker: the connection it handles
    stop,        \* the stop function: "idle", "broadcast", "join", "returned"
    queued,      \* history: connections put into the ring, in order
    taken,       \* history: connections taken from it, in order
    refused      \* history: connections answered 503

ring == <<queue, queue_head, queue_tail, queue_size>>
main == <<acc, client_fd>>
work == <<wpc, fd>>
hist == <<queued, taken, refused>>
vars == <<running, mutex, ring, main, work, stop, hist>>

Slots == 0..(MaxConnections - 1)

Init ==
    /\ running = TRUE /\ mutex = Null
    /\ queue = [i \in Slots |-> Null]
    /\ queue_head = 0 /\ queue_tail = 0 /\ queue_size = 0
    /\ acc = "test" /\ client_fd = Null
    /\ wpc = [w \in Workers |-> "test"]
    /\ fd = [w \in Workers |-> Null]
    /\ stop = "idle"
    /\ queued = <<>> /\ taken = <<>> /\ refused = {}

(***************************************************************************)
(* The accept loop.  It stands still while a handler runs on its thread.   *)
(***************************************************************************)
MainRuns == InHandler => stop \in {"idle", "returned"}
Known == {queued[i] : i \in DOMAIN queued} \cup refused \cup {client_fd}

TestMain ==
    /\ MainRuns /\ acc = "test"
    /\ acc' = IF running THEN "accept" ELSE "done"
    /\ UNCHANGED <<running, mutex, ring, client_fd, work, stop, hist>>

Accept(c) ==
    /\ MainRuns /\ acc = "accept" /\ c \notin Known
    /\ client_fd' = c
    /\ acc' = "lock"
    /\ UNCHANGED <<running, mutex, ring, work, stop, hist>>

\* accept fails with anything but EINTR: the loop is left.
AcceptFails ==
    /\ MainRuns /\ acc = "accept"
    /\ acc' = "done"
    /\ UNCHANGED <<running, mutex, ring, client_fd, work, stop, hist>>

LockMain ==
    /\ MainRuns /\ acc = "lock" /\ mutex = Null
    /\ mutex' = Main
    /\ acc' = "locked"
    /\ UNCHANGED <<running, ring, client_fd, work, stop, hist>>

Sleepers == {w \in Workers : wpc[w] = "asleep"}

\* Mutant: the connection is queued without a signal.
EnqueueSilently ==
    /\ MainRuns /\ acc = "locked"
    /\ queue_size < MaxConnections
    /\ queue' = [queue EXCEPT ![queue_tail] = client_fd]
    /\ queue_tail' = (queue_tail + 1) % MaxConnections
    /\ queue_size' = queue_size + 1
    /\ queued' = Append(queued, client_fd)
    /\ mutex' = Null /\ acc' = "test" /\ client_fd' = Null
    /\ UNCHANGED <<running, queue_head, work, stop, taken, refused>>

\* Put the connection into the ring and wake one worker.
Enqueue ==
    /\ MainRuns /\ acc = "locked"
    /\ queue_size < MaxConnections
    /\ queue' = [queue EXCEPT ![queue_tail] = client_fd]
    /\ queue_tail' = (queue_tail + 1) % MaxConnections
    /\ queue_size' = queue_size + 1
    /\ queued' = Append(queued, client_fd)
    /\ IF Sleepers = {} THEN UNCHANGED wpc
       ELSE \E w \in Sleepers : wpc' = [wpc EXCEPT ![w] = "lock"]
    /\ mutex' = Null /\ acc' = "test" /\ client_fd' = Null
    /\ UNCHANGED <<running, queue_head, fd, stop, taken, refused>>

\* The ring is full: answer 503 and close, with the mutex held.
Refuse ==
    /\ MainRuns /\ acc = "locked"
    /\ queue_size >= MaxConnections
    /\ refused' = refused \cup {client_fd}
    /\ mutex' = Null /\ acc' = "test" /\ client_fd' = Null
    /\ UNCHANGED <<running, ring, work, stop, queued, taken>>

(***************************************************************************)
(* worker_thread                                                           *)
(***************************************************************************)
Step(w, where) == wpc' = [wpc EXCEPT ![w] = where]

TestWorker(w) ==
    /\ wpc[w] = "test"
    /\ Step(w, IF running THEN "lock" ELSE "exited")
    /\ UNCHANGED <<running, mutex, ring, main, fd, stop, hist>>

\* Nothing queued and running: about to sleep, holding the mutex.
FindNothing(w) ==
    /\ wpc[w] = "lock" /\ mutex = Null
    /\ queue_size = 0 /\ running
    /\ mutex' = w
    /\ Step(w, "to_sleep")
    /\ UNCHANGED <<running, ring, main, fd, stop, hist>>

Sleep(w) ==
    /\ wpc[w] = "to_sleep"
    /\ mutex' = Null
    /\ Step(w, "asleep")
    /\ UNCHANGED <<running, ring, main, fd, stop, hist>>

\* Mutant: the wait loop does not look at running.
GiveUpNever(w) ==
    /\ wpc[w] = "lock" /\ mutex = Null
    /\ queue_size = 0 /\ ~running
    /\ Step(w, "asleep")
    /\ UNCHANGED <<running, mutex, ring, main, fd, stop, hist>>

\* Nothing queued and no longer running.
GiveUp(w) ==
    /\ wpc[w] = "lock" /\ mutex = Null
    /\ queue_size = 0 /\ ~running
    /\ Step(w, "test")
    /\ UNCHANGED <<running, mutex, ring, main, fd, stop, hist>>

\* Mutant: the head does not wrap around.
DequeueStays(w) ==
    /\ wpc[w] = "lock" /\ mutex = Null
    /\ queue_size > 0
    /\ fd' = [fd EXCEPT ![w] = queue[queue_head]]
    /\ queue_head' = IF queue_head + 1 < MaxConnections THEN queue_head + 1 ELSE queue_head
    /\ queue_size' = queue_size - 1
    /\ taken' = Append(taken, queue[queue_head])
    /\ Step(w, "handling")
    /\ UNCHANGED <<running, mutex, queue, queue_tail, main, stop, queued, refused>>

Dequeue(w) ==
    /\ wpc[w] = "lock" /\ mutex = Null
    /\ queue_size > 0
    /\ fd' = [fd EXCEPT ![w] = queue[queue_head]]
    /\ queue_head' = (queue_head + 1) % MaxConnections
    /\ queue_size' = queue_size - 1
    /\ taken' = Append(taken, queue[queue_head])
    /\ Step(w, "handling")
    /\ UNCHANGED <<running, mutex, queue, queue_tail, main, stop, queued, refused>>

\* handle_client returns, having closed the connection.
Handled(w) ==
    /\ wpc[w] = "handling"
    /\ fd' = [fd EXCEPT ![w] = Null]
    /\ Step(w, "test")
    /\ UNCHANGED <<running, mutex, ring, main, stop, hist>>

SpuriousWakeup(w) ==
    /\ wpc[w] = "asleep"
    /\ Step(w, "lock")
    /\ UNCHANGED <<running, mutex, ring, main, fd, stop, hist>>

(***************************************************************************)
(* http_server_stop, proxy_stop.                                           *)
(***************************************************************************)
StopFlag ==
    /\ Stops /\ stop = "idle" /\ acc # "done"
    /\ running' = FALSE
    /\ stop' = "broadcast"
    /\ UNCHANGED <<mutex, ring, main, work, hist>>

StopBroadcast ==
    /\ stop = "broadcast"
    /\ wpc' = [w \in Workers |-> IF wpc[w] = "asleep" THEN "lock" ELSE wpc[w]]
    /\ stop' = "join"
    /\ UNCHANGED <<running, mutex, ring, main, fd, hist>>

StopJoined ==
    /\ stop = "join"
    /\ \A w \in Workers : wpc[w] = "exited"
    /\ stop' = "returned"
    /\ UNCHANGED <<running, mutex, ring, main, work, hist>>

MainStep == TestMain \/ LockMain \/ Enqueue \/ Refuse
WorkerLocks(w) == FindNothing(w) \/ GiveUp(w) \/ Dequeue(w)
WorkerStep(w) == TestWorker(w) \/ Sleep(w) \/ Handled(w)

Next ==
    \/ MainStep \/ AcceptFails \/ \E c \in Conns : Accept(c)
    \/ \E w \in Workers : WorkerLocks(w) \/ WorkerStep(w) \/ SpuriousWakeup(w)
    \/ StopFlag \/ StopBroadcast \/ StopJoined

Spec == Init /\ [][Next]_vars

(***************************************************************************)
(* Fairness: threads run, handle_client returns, and a thread that keeps   *)
(* finding the mutex free gets it.  Nothing makes peers connect, stop be   *)
(* called or a spurious wakeup happen.                                     *)
(***************************************************************************)
Fairness ==
    /\ SF_vars(MainStep)
    /\ \A w \in Workers : SF_vars(WorkerLocks(w)) /\ WF_vars(WorkerStep(w))
    /\ WF_vars(StopBroadcast \/ StopJoined)

FairSpec == Spec /\ Fairness

(***************************************************************************)
(* Properties.                                                             *)
(***************************************************************************)
InRing == [i \in 1..queue_size |-> queue[(queue_head + i - 1) % MaxConnections]]

\* The ring is a queue: connections are taken in the order they were put in
\* and none is lost, duplicated or overwritten when the indices wrap around,
\* whichever worker takes them.
RingIsFifo ==
    /\ queued = taken \o InRing
    /\ queue_tail = (queue_head + queue_size) % MaxConnections

\* A queued connection is handled, unless the server is stopped.
QueuedHandled ==
    \A c \in Conns :
        (\E i \in DOMAIN queued : queued[i] = c)
            ~> ((\E i \in DOMAIN taken : taken[i] = c) \/ ~running)

\* A worker that is not asleep or falling asleep when stop has broadcast
\* leaves its loop, whatever is still queued.
AwakeWorkersLeave ==
    \A w \in Workers :
        (stop = "join" /\ wpc[w] \notin {"asleep", "to_sleep"}) ~> (wpc[w] = "exited")

\* The stop function returns: all workers are woken and can be joined.
StopReturns == (stop = "broadcast") ~> (stop = "returned")
=============================================================================
