----------------------------- MODULE FileServer -----------------------------
(***************************************************************************)
(* The connection life cycle of linux-file-server (src/server.c): the main *)
(* thread's accept loop and server_stop, the client slots, the process's   *)
(* descriptor table, and one server_handle_client task per connection run  *)
(* by the thread pool, here its abstract specification TaskExecutor.       *)
(*                                                                         *)
(* Descriptors are numbers that the kernel hands out lowest first and      *)
(* reuses after close, because the code compares and closes them by number *)
(* from two places (the slot and the handler's local copy).  The content   *)
(* of requests is abstracted to whether serving one opens a file.          *)
(***************************************************************************)
EXTENDS Integers, Sequences, FiniteSets, FiniteSetsExt

CONSTANTS
    Conns,        \* connections clients may make
    Threads,      \* the pool's worker threads (config.thread_num)
    MaxClients,   \* config.max_clients
    MaxFd,        \* descriptors 1..MaxFd are available to the process
    MaxRequests,  \* bound: requests one client sends before quitting
    Nobody,       \* no connection / no task
    Signals       \* BOOLEAN: SIGINT or SIGTERM may arrive

ASSUME ServerAssumption ==
    /\ MaxClients \in Nat \ {0} /\ MaxFd \in Nat \ {0} /\ MaxRequests \in Nat
    /\ Nobody \notin Conns
    /\ Signals \in BOOLEAN

VARIABLES
    main,         \* where the main thread is
    running,      \* ctx->running
    newfd, newidx, \* main's locals client_fd and idx
    fds,          \* the process's descriptor table
    slot_fd, slot_active, \* ctx->clients[i].fd and .active
    client_count, \* ctx->client_count
    pending, hand, done, state, \* the pool (TaskExecutor)
    slotOf,       \* per connection: the slot passed to its task
    hpc,          \* per connection: where its handler is
    hfd,          \* per connection: the handler's local fd
    file,         \* per connection: the handler's local file_fd
    client,       \* per connection: what the peer has done last
    sent          \* per connection: requests sent so far

loop  == <<main, running, newfd, newidx>>
slots == <<slot_fd, slot_active, client_count>>
tasks == <<pending, hand, done, state>>
hands == <<slotOf, hpc, hfd, file>>
peers == <<client, sent>>
vars  == <<loop, fds, slots, tasks, hands, peers>>

Slots == 1..MaxClients
Free == [kind |-> "free", of |-> Nobody]
Sock(c) == [kind |-> "socket", of |-> c]
File(c) == [kind |-> "file", of |-> c]
Lowest(S) == Min(S)

Pool == INSTANCE TaskExecutor WITH
            Tasks <- Conns, MaxTasks <- 2 * MaxClients, NoTask <- Nobody

Init ==
    /\ main = "starting" /\ running = FALSE
    /\ newfd = -1 /\ newidx = 0
    /\ fds = [n \in 1..MaxFd |-> Free]
    /\ slot_fd = [i \in Slots |-> -1]
    /\ slot_active = [i \in Slots |-> FALSE]
    /\ client_count = 0
    /\ Pool!Init
    /\ slotOf = [c \in Conns |-> 0]
    /\ hpc = [c \in Conns |-> "none"]
    /\ hfd = [c \in Conns |-> -1]
    /\ file = [c \in Conns |-> -1]
    /\ client = [c \in Conns |-> "new"]
    /\ sent = [c \in Conns |-> 0]

(***************************************************************************)
(* Descriptors.                                                            *)
(***************************************************************************)
FreeFds == {n \in 1..MaxFd : fds[n] = Free}

\* close(2) by number: whatever the number now stands for is closed; a
\* number that is not open gives EBADF and nothing happens (SAFE_CLOSE skips -1).
Closing(n) == IF n \in 1..MaxFd THEN [fds EXCEPT ![n] = Free] ELSE fds

(***************************************************************************)
(* Peers.                                                                  *)
(***************************************************************************)
Connect(c) ==
    /\ client[c] = "new" /\ main \notin {"stopping", "destroying", "draining", "exited"}
    /\ client' = [client EXCEPT ![c] = "backlog"]
    /\ UNCHANGED <<loop, fds, slots, tasks, hands, sent>>

\* A request whose handling opens a file ("file") or does not ("plain").
Request(c, kind) ==
    /\ client[c] = "idle" /\ sent[c] < MaxRequests
    /\ client' = [client EXCEPT ![c] = kind]
    /\ sent' = [sent EXCEPT ![c] = @ + 1]
    /\ UNCHANGED <<loop, fds, slots, tasks, hands>>

\* CMD_QUIT, or the peer disconnects.
Leave(c, how) ==
    /\ client[c] = "idle"
    /\ client' = [client EXCEPT ![c] = how]
    /\ UNCHANGED <<loop, fds, slots, tasks, hands, sent>>

\* SIGINT or SIGTERM after the handlers are installed.
Signal ==
    /\ Signals /\ main # "starting" /\ running
    /\ running' = FALSE
    /\ UNCHANGED <<main, newfd, newidx, fds, slots, tasks, hands, peers>>

(***************************************************************************)
(* Main thread: server_init's outcome, server_start.                       *)
(***************************************************************************)
\* socket, bind, listen or epoll failed: the pool is destroyed again.
InitFails ==
    /\ main = "starting"
    /\ Pool!Close
    /\ main' = "draining"
    /\ UNCHANGED <<running, newfd, newidx, fds, slots, hands, peers>>

StartLoop ==
    /\ main = "starting"
    /\ running' = TRUE
    /\ main' = "testing"
    /\ UNCHANGED <<newfd, newidx, fds, slots, tasks, hands, peers>>

TestRunning ==
    /\ main = "testing"
    /\ main' = IF running THEN "polling" ELSE "stopping"
    /\ UNCHANGED <<running, newfd, newidx, fds, slots, tasks, hands, peers>>

\* epoll_wait timed out, was interrupted or failed; or accept failed.
PollNothing ==
    /\ main = "polling"
    /\ main' = "testing"
    /\ UNCHANGED <<running, newfd, newidx, fds, slots, tasks, hands, peers>>

Accept(c) ==
    /\ main = "polling"
    /\ client[c] = "backlog" /\ FreeFds # {}
    /\ newfd' = Lowest(FreeFds)
    /\ fds' = [fds EXCEPT ![newfd'] = Sock(c)]
    /\ client' = [client EXCEPT ![c] = "idle"]
    /\ main' = "adding"
    /\ UNCHANGED <<running, newidx, slots, tasks, hands, sent>>

\* Mutant: the slot is filled in but never marked active.
AddClientInactive ==
    /\ main = "adding"
    /\ \E i \in Slots : ~slot_active[i]
    /\ newidx' = Lowest({i \in Slots : ~slot_active[i]})
    /\ slot_fd' = [slot_fd EXCEPT ![newidx'] = newfd]
    /\ client_count' = client_count + 1
    /\ main' = "submitting"
    /\ UNCHANGED <<running, newfd, fds, slot_active, tasks, hands, peers>>

\* add_client, under client_lock: the first inactive slot.
AddClient ==
    /\ main = "adding"
    /\ \E i \in Slots : ~slot_active[i]
    /\ newidx' = Lowest({i \in Slots : ~slot_active[i]})
    /\ slot_fd' = [slot_fd EXCEPT ![newidx'] = newfd]
    /\ slot_active' = [slot_active EXCEPT ![newidx'] = TRUE]
    /\ client_count' = client_count + 1
    /\ main' = "submitting"
    /\ UNCHANGED <<running, newfd, fds, tasks, hands, peers>>

\* "Server full": respond and close.
RejectClient ==
    /\ main = "adding"
    /\ \A i \in Slots : slot_active[i]
    /\ fds' = Closing(newfd)
    /\ newfd' = -1
    /\ main' = "testing"
    /\ UNCHANGED <<running, newidx, slots, tasks, hands, peers>>

\* thread_pool_add_task: waits while the queue is full.
Submit ==
    /\ main = "submitting"
    /\ LET c == fds[newfd].of IN
        /\ Pool!Accept(c)
        /\ slotOf' = [slotOf EXCEPT ![c] = newidx]
        /\ hpc' = [hpc EXCEPT ![c] = "queued"]
    /\ newfd' = -1
    /\ main' = "testing"
    /\ UNCHANGED <<running, newidx, fds, slots, hfd, file, peers>>

\* remove_client, under client_lock: the active slot with this descriptor
\* number, if any, is given up.
Release(fd) ==
    LET S == {i \in Slots : slot_active[i] /\ slot_fd[i] = fd} IN
    IF S = {} THEN UNCHANGED slots
    ELSE /\ slot_active' = [slot_active EXCEPT ![Lowest(S)] = FALSE]
         /\ slot_fd' = [slot_fd EXCEPT ![Lowest(S)] = -1]
         /\ client_count' = client_count - 1

\* thread_pool_add_task returned -1: remove_client, then its close.
SubmitFails ==
    /\ main = "submitting"
    /\ Release(newfd)
    /\ main' = "dropping"
    /\ UNCHANGED <<running, newfd, newidx, fds, tasks, hands, peers>>

DropClose ==
    /\ main = "dropping"
    /\ fds' = Closing(newfd)
    /\ newfd' = -1
    /\ main' = "testing"
    /\ UNCHANGED <<running, newidx, slots, tasks, hands, peers>>

(***************************************************************************)
(* server_stop.                                                            *)
(***************************************************************************)
\* Under client_lock every active slot's descriptor is closed; client_count
\* is left as it is.
StopClients ==
    /\ main = "stopping"
    /\ running' = FALSE
    /\ fds' = [n \in 1..MaxFd |->
                 IF \E i \in Slots : slot_active[i] /\ slot_fd[i] = n THEN Free ELSE fds[n]]
    /\ slot_fd' = [i \in Slots |-> IF slot_active[i] THEN -1 ELSE slot_fd[i]]
    /\ slot_active' = [i \in Slots |-> FALSE]
    /\ main' = "destroying"
    /\ UNCHANGED <<newfd, newidx, client_count, tasks, hands, peers>>

StopPool ==
    /\ main = "destroying"
    /\ Pool!Close
    /\ main' = "draining"
    /\ UNCHANGED <<running, newfd, newidx, fds, slots, hands, peers>>

\* thread_pool_destroy has joined the workers; the slots are freed.
StopDone ==
    /\ main = "draining"
    /\ Pool!Closed
    /\ main' = "exited"
    /\ UNCHANGED <<running, newfd, newidx, fds, slots, hands, peers>>

(***************************************************************************)
(* server_handle_client, for connection c on worker w.                     *)
(***************************************************************************)
\* A worker takes the task and reads client->fd from the slot.
HandlerStart(w) ==
    /\ Pool!Start(w)
    /\ LET c == Head(pending) IN
        /\ hfd' = [hfd EXCEPT ![c] = slot_fd[slotOf[c]]]
        /\ hpc' = [hpc EXCEPT ![c] = "testing"]
    /\ UNCHANGED <<loop, fds, slots, slotOf, file, peers>>

Goto(c, where) == hpc' = [hpc EXCEPT ![c] = where]

HandlerTest(c) ==
    /\ hpc[c] = "testing"
    /\ Goto(c, IF running THEN "calling" ELSE "leaving")
    /\ UNCHANGED <<loop, fds, slots, tasks, slotOf, hfd, file, peers>>

\* recv_all on the local descriptor: it blocks if the number still stands
\* for this connection and fails at once if it does not.
HandlerCall(c) ==
    /\ hpc[c] = "calling"
    /\ Goto(c, IF hfd[c] \in 1..MaxFd /\ fds[hfd[c]] = Sock(c) THEN "blocked" ELSE "leaving")
    /\ UNCHANGED <<loop, fds, slots, tasks, slotOf, hfd, file, peers>>

\* Mutant: end of file is not taken for the end of the connection.
HandlerRecvNoEof(c) ==
    /\ hpc[c] = "blocked"
    /\ client[c] \in {"plain", "file", "quit"}
    /\ Goto(c, IF client[c] \in {"plain", "file"} THEN "serving" ELSE "leaving")
    /\ UNCHANGED <<loop, fds, slots, tasks, slotOf, hfd, file, peers>>

\* A handler blocked in recv is woken only by its peer: closing the number
\* in server_stop does not end a recv in progress.
HandlerRecv(c) ==
    /\ hpc[c] = "blocked"
    /\ client[c] \in {"plain", "file", "quit", "gone"}
    /\ Goto(c, IF client[c] \in {"plain", "file"} THEN "serving" ELSE "leaving")
    /\ UNCHANGED <<loop, fds, slots, tasks, slotOf, hfd, file, peers>>

\* A command without a file, or whose file cannot be opened.
ServePlain(c) ==
    /\ hpc[c] = "serving"
    /\ client' = [client EXCEPT ![c] = "idle"]
    /\ Goto(c, "testing")
    /\ UNCHANGED <<loop, fds, slots, tasks, slotOf, hfd, file, sent>>

ServeOpen(c) ==
    /\ hpc[c] = "serving" /\ client[c] = "file" /\ FreeFds # {}
    /\ file' = [file EXCEPT ![c] = Lowest(FreeFds)]
    /\ fds' = [fds EXCEPT ![file'[c]] = File(c)]
    /\ Goto(c, "transferring")
    /\ UNCHANGED <<loop, slots, tasks, slotOf, hfd, peers>>

\* The transfer ends, complete or not, and file_fd is closed.
ServeClose(c) ==
    /\ hpc[c] = "transferring"
    /\ fds' = Closing(file[c])
    /\ file' = [file EXCEPT ![c] = -1]
    /\ client' = [client EXCEPT ![c] = "idle"]
    /\ Goto(c, "testing")
    /\ UNCHANGED <<loop, slots, tasks, slotOf, hfd, sent>>

\* Mutants: the slot is not given up; the descriptor is closed twice.
HandlerLeaveKeepsSlot(c) ==
    /\ hpc[c] = "leaving"
    /\ Goto(c, "closing")
    /\ UNCHANGED <<loop, fds, slots, tasks, slotOf, hfd, file, peers>>
HandlerLeaveCloses(c) ==
    /\ hpc[c] = "leaving"
    /\ Release(hfd[c])
    /\ fds' = Closing(hfd[c])
    /\ Goto(c, "closing")
    /\ UNCHANGED <<loop, tasks, slotOf, hfd, file, peers>>

\* remove_client: the slot is given up first, the descriptor closed after.
HandlerLeave(c) ==
    /\ hpc[c] = "leaving"
    /\ Release(hfd[c])
    /\ Goto(c, "closing")
    /\ UNCHANGED <<loop, fds, tasks, slotOf, hfd, file, peers>>

HandlerClose(w) ==
    /\ hand[w] # Nobody /\ hpc[hand[w]] = "closing"
    /\ Pool!Finish(w)
    /\ fds' = Closing(hfd[hand[w]])
    /\ Goto(hand[w], "done")
    /\ UNCHANGED <<loop, slots, slotOf, hfd, file, peers>>

MainStep ==
    \/ InitFails \/ StartLoop \/ TestRunning \/ PollNothing
    \/ (\E c \in Conns : Accept(c)) \/ AddClient \/ RejectClient
    \/ Submit \/ SubmitFails \/ DropClose
    \/ StopClients \/ StopPool \/ StopDone

HandlerStep(c) ==
    \/ HandlerTest(c) \/ HandlerCall(c) \/ HandlerRecv(c)
    \/ ServePlain(c) \/ ServeOpen(c) \/ ServeClose(c) \/ HandlerLeave(c)

PeerStep(c) ==
    \/ Connect(c)
    \/ \E kind \in {"plain", "file"} : Request(c, kind)
    \/ \E how \in {"quit", "gone"} : Leave(c, how)

Next ==
    \/ MainStep
    \/ Signal
    \/ \E c \in Conns : HandlerStep(c) \/ PeerStep(c)
    \/ \E w \in Threads : HandlerStart(w) \/ HandlerClose(w)

Spec == Init /\ [][Next]_vars

(***************************************************************************)
(* Fairness.  Threads that can run do.  epoll_wait reports a connection in *)
(* the backlog, so one that keeps being reportable is accepted (SF), and a *)
(* submission that keeps being possible is not refused forever.  Peers owe *)
(* the server nothing: PeersLeave, that each eventually finishes the       *)
(* transfer it takes part in and disconnects, is a separate assumption.    *)
(***************************************************************************)
Fairness ==
    /\ WF_vars(MainStep)
    /\ \A c \in Conns : /\ SF_vars(Accept(c))
                        /\ WF_vars(HandlerStep(c) /\ hpc[c] # "transferring")
    /\ \A w \in Threads : SF_vars(HandlerStart(w)) /\ WF_vars(HandlerClose(w))
PeersLeave ==
    \A c \in Conns : WF_vars(ServeClose(c)) /\ WF_vars(Leave(c, "gone"))

FairSpec == Spec /\ Fairness
FairPeersSpec == FairSpec /\ PeersLeave

(***************************************************************************)
(* Properties.                                                             *)
(***************************************************************************)
InHandler == {"queued", "testing", "calling", "blocked", "serving", "transferring",
              "leaving"}
Serving == main \notin {"destroying", "draining", "exited"}

\* Until server_stop runs, slots and handlers correspond one to one: every
\* handler between submission and remove_client owns the slot it was given,
\* the slot names its own open socket, no other slot is active, and
\* client_count counts them (add_client and remove_client run in different
\* threads and find slots by descriptor number).
SlotsMatchHandlers ==
    Serving =>
        /\ \A c \in Conns : hpc[c] \in InHandler =>
              /\ slot_active[slotOf[c]]
              /\ fds[slot_fd[slotOf[c]]] = Sock(c)
              /\ hpc[c] # "queued" => hfd[c] = slot_fd[slotOf[c]]
        /\ \A i \in Slots : slot_active[i] =>
              \/ main = "submitting" /\ newidx = i
              \/ \E c \in Conns : hpc[c] \in InHandler /\ slotOf[c] = i
        /\ client_count = Cardinality({i \in Slots : slot_active[i]})

\* The accept loop never blocks in thread_pool_add_task: the queue holds
\* fewer than max_clients tasks whenever one is submitted, half of the
\* capacity max_clients * 2 the pool is created with.
SubmitNeverWaits == main = "submitting" => Len(pending) < MaxClients

\* A descriptor is closed only by the connection it belongs to: when
\* remove_client or a transfer closes a number, the number has not been
\* handed to somebody else since.
ClosesOwnDescriptor ==
    \A c \in Conns :
        /\ hpc[c] = "closing" /\ hfd[c] # -1 => fds[hfd[c]] \in {Sock(c), Free}
        /\ hpc[c] = "transferring" => fds[file[c]] = File(c)

\* Until server_stop begins to close the clients' descriptors, no number
\* that remove_client or a transfer is about to close has been reused.
OwnUntilStop == Serving => ClosesOwnDescriptor

\* A connection handed to the pool is handled to its end, although each
\* handler keeps a worker until its peer leaves.
QueuedIsServed == \A c \in Conns : (hpc[c] = "queued") ~> (hpc[c] = "done")

\* server_stop returns: after the accept loop has ended, the handlers come
\* to an end and the pool is destroyed.
StopReturns == (main = "stopping") ~> (main = "exited")
=============================================================================
