-------------------------- MODULE FileServerProofs --------------------------
(***************************************************************************)
(* Proofs about the connections of the file server, for any number of      *)
(* connections, slots, threads and descriptors: what holds of slots,       *)
(* descriptors and the pool's queue until server_stop closes the clients.  *)
(***************************************************************************)
EXTENDS FileServer, FiniteSetTheorems, SequenceTheorems, WellFoundedInduction, TLAPS

(***************************************************************************)
(* The inductive invariant.                                                *)
(***************************************************************************)
Nums == 1..MaxFd
Active == {i \in Slots : slot_active[i]}

Table == [Nums -> {Free} \cup {Sock(c) : c \in Conns} \cup {File(c) : c \in Conns}]

Types ==
    /\ newfd \in Int /\ newidx \in Int
    /\ fds \in Table
    /\ slot_fd \in [Slots -> Int] /\ slot_active \in [Slots -> BOOLEAN]
    /\ client_count \in Int
    /\ pending \in Seq(Conns) /\ hand \in [Threads -> Conns \cup {Nobody}]
    /\ slotOf \in [Conns -> Int]
    /\ hpc \in [Conns -> InHandler \cup {"none", "closing", "done"}]
    /\ hfd \in [Conns -> Int] /\ file \in [Conns -> Int]
    /\ client \in [Conns -> {"new", "backlog", "idle", "plain", "file", "quit", "gone"}]

\* A connection has no handler before it is accepted.
NotYet == \A c \in Conns : client[c] \in {"new", "backlog"} => hpc[c] = "none"

\* The connection between accept and submission or refusal: its descriptor is
\* open, it has no handler, and once add_client has returned it has a slot.
NewClient ==
    /\ main \in {"adding", "submitting", "dropping"} =>
          /\ newfd \in Nums
          /\ \E c \in Conns : fds[newfd] = Sock(c) /\ hpc[c] = "none"
                              /\ client[c] \notin {"new", "backlog"}
    /\ main = "submitting" =>
          newidx \in Slots /\ slot_active[newidx] /\ slot_fd[newidx] = newfd

\* A handler up to remove_client owns its slot, which names its socket.
Handlers ==
    \A c \in Conns : hpc[c] \in InHandler =>
        /\ slotOf[c] \in Slots /\ slot_active[slotOf[c]]
        /\ slot_fd[slotOf[c]] \in Nums
        /\ fds[slot_fd[slotOf[c]]] = Sock(c)
        /\ hpc[c] # "queued" => hfd[c] = slot_fd[slotOf[c]]

\* A handler that is about to close its socket, or transfers a file, has it open.
Descriptors ==
    \A c \in Conns :
        /\ hpc[c] = "closing" => hfd[c] \in Nums /\ fds[hfd[c]] = Sock(c)
        /\ hpc[c] = "transferring" => file[c] \in Nums /\ fds[file[c]] = File(c)

\* No slot is active without a connection.
NoSlotLost ==
    \A i \in Slots : slot_active[i] =>
        \/ main = "submitting" /\ newidx = i
        \/ \E c \in Conns : hpc[c] \in InHandler /\ slotOf[c] = i

Counted == client_count = Cardinality(Active)

\* The pool's queue holds submitted connections, each once.
Queue ==
    /\ \A i \in 1..Len(pending) : hpc[pending[i]] = "queued"
    /\ \A i, j \in 1..Len(pending) : pending[i] = pending[j] => i = j

Body ==
    /\ Types /\ NotYet /\ NewClient /\ Handlers /\ Descriptors /\ NoSlotLost
    /\ Counted /\ Queue
IInv == Serving => Body

(***************************************************************************)
(* Least elements, descriptors.                                            *)
(***************************************************************************)
\* Every non-empty set of naturals has a least element, which Min chooses.
LEMMA LeastNatural ==
    ASSUME NEW T \in SUBSET Nat, T # {}
    PROVE  Lowest(T) \in T /\ \A y \in T : Lowest(T) <= y
  <1>1. PICK x \in T : \A y \in T : ~ (<<y, x>> \in OpToRel(<, Nat))
    BY NatLessThanWellFounded, WFMin
  <1>2. \A y \in T : /\ <<y, x>> \in Nat \X Nat
                     /\ <<y, x>>[1] = y /\ <<y, x>>[2] = x
    OBVIOUS
  <1>3. \A y \in T : ~(y < x)
    BY <1>1, <1>2 DEF OpToRel
  <1>4. \A y \in T : x <= y
    BY <1>3
  <1> QED  BY <1>4 DEF Lowest, Min

\* What a descriptor stands for determines whose it is.
LEMMA Objects ==
    /\ \A c, d : Sock(c) = Sock(d) => c = d
    /\ \A c, d : Sock(c) # File(d)
    /\ \A c : Sock(c) # Free /\ File(c) # Free
    /\ \A c, d : File(c) = File(d) => c = d
    /\ \A c : Sock(c).of = c
  BY DEF Sock, File, Free

\* Until server_stop has closed the clients, nothing leads back from it.
LEMMA ServingBefore == [Next]_vars /\ Serving' => Serving
  BY DEF Next, vars, Serving, loop, MainStep, HandlerStep, PeerStep,
     InitFails, StartLoop, TestRunning, PollNothing, Accept, AddClient, RejectClient, Submit,
     SubmitFails, DropClose, StopClients, StopPool, StopDone, Signal, Connect, Request, Leave,
     HandlerStart, HandlerTest, HandlerCall, HandlerRecv, ServePlain, ServeOpen, ServeClose,
     HandlerLeave, HandlerClose

\* The lowest free descriptor is a descriptor and free.
LEMMA FreshFd ==
    ASSUME FreeFds # {}
    PROVE  Lowest(FreeFds) \in Nums /\ fds[Lowest(FreeFds)] = Free
  <1>1. FreeFds \in SUBSET Nat
    BY ServerAssumption DEF FreeFds
  <1> QED  BY <1>1, LeastNatural DEF FreeFds, Nums

LEMMA InitIInv == Init => IInv
  <1> SUFFICES ASSUME Init PROVE Body
    BY DEF IInv
  <1> USE ServerAssumption
  <1>1. Types
    BY DEF Init, Pool!Init, Types, Table, Slots, InHandler, Nums
  <1>2. Active = {}
    BY DEF Init, Active, Slots
  <1>3. Counted
    BY <1>2, FS_EmptySet DEF Init, Counted
  <1>4. NotYet /\ NewClient /\ Handlers /\ Descriptors /\ NoSlotLost
    BY DEF Init, NotYet, NewClient, Handlers, Descriptors, NoSlotLost, InHandler, Slots
  <1>5. Queue
    BY DEF Init, Pool!Init, Queue
  <1> QED  BY <1>1, <1>3, <1>4, <1>5 DEF Body

\* Whoever waits in the pool's queue still does.
LEMMA QueueKept ==
    ASSUME Body, pending' = pending,
           \A c \in Conns : hpc[c] = "queued" => hpc'[c] = "queued"
    PROVE  Queue'
  <1>1. \A i \in 1..Len(pending) : pending[i] \in Conns
    BY DEF Body, Types
  <1> QED  BY <1>1 DEF Body, Queue

(***************************************************************************)
(* Steps that change no slot, descriptor or queue.                         *)
(***************************************************************************)
\* Peers, and the main loop between connections.
LEMMA PeerMoves ==
    ASSUME Body, UNCHANGED <<newfd, newidx, fds, slots, tasks, hands>>,
           main' \notin {"adding", "submitting", "dropping"} \/ main' = main,
           main = "submitting" => main' = main,
           client' \in [Conns -> {"new", "backlog", "idle", "plain", "file", "quit", "gone"}],
           \A c \in Conns : client[c] = "new" \/ client'[c] = client[c]
                            \/ client'[c] \notin {"new", "backlog"},
           \A c \in Conns : client[c] \notin {"new", "backlog"} => client'[c] \notin {"new", "backlog"}
    PROVE  Body'
  <1> USE DEF Body, slots, tasks, hands
  <1>1. Types'
    BY DEF Types, InHandler, Slots
  <1>2. NotYet'
    BY DEF NotYet
  <1>3. NewClient'
    BY DEF NewClient
  <1>4. Handlers' /\ Descriptors' /\ Queue'
    BY DEF Handlers, Descriptors, Queue
  <1>5. NoSlotLost'
    BY DEF NoSlotLost
  <1>6. Counted'
    BY DEF Counted, Active
  <1> QED  BY <1>1, <1>2, <1>3, <1>4, <1>5, <1>6

\* A handler between two blocking calls.
LEMMA HandlerMoves ==
    ASSUME Body, NEW c \in Conns, NEW to \in InHandler \ {"queued", "transferring"},
           hpc[c] \in InHandler \ {"queued", "transferring"},
           hpc' = [hpc EXCEPT ![c] = to],
           UNCHANGED <<loop, fds, slots, tasks, slotOf, hfd, file>>,
           client' = client \/ client' = [client EXCEPT ![c] = "idle"]
    PROVE  Body'
  <1> USE DEF Body, loop, slots, tasks
  <1>0. hpc \in [Conns -> InHandler \cup {"none", "closing", "done"}]
    BY DEF Types
  <1>1. Types'
    BY DEF Types, InHandler, Slots
  <1>2. NotYet'
    BY DEF NotYet, Types, InHandler
  <1>3. NewClient'
    BY DEF NewClient, Types, InHandler
  <1>4. Handlers'
    BY <1>0 DEF Handlers
  <1>5. Descriptors'
    BY <1>0 DEF Descriptors, InHandler
  <1>6. NoSlotLost'
    BY <1>0 DEF NoSlotLost
  <1>7. Queue'
    BY <1>0, QueueKept
  <1>8. Counted'
    BY DEF Counted, Active
  <1> QED  BY <1>1, <1>2, <1>3, <1>4, <1>5, <1>6, <1>7, <1>8

(***************************************************************************)
(* Descriptors are opened and closed.                                      *)
(***************************************************************************)
\* Opening a free descriptor disturbs nobody.
LEMMA OpeningKeeps ==
    ASSUME Body, NEW n \in Nums, fds[n] = Free, NEW o
    PROVE  /\ \A m \in Nums : \A c \in Conns :
                 fds[m] \in {Sock(c), File(c)} => [fds EXCEPT ![n] = o][m] = fds[m]
           /\ [fds EXCEPT ![n] = o][n] = o
           /\ \A c \in Conns : o \in {Sock(c), File(c)} => [fds EXCEPT ![n] = o] \in Table
  <1>1. fds \in Table
    BY DEF Body, Types
  <1> QED  BY <1>1, Objects DEF Table

\* Closing a descriptor frees it and no other.
LEMMA ClosingOne ==
    ASSUME Body, NEW n \in Nums
    PROVE  /\ Closing(n) \in Table
           /\ \A m \in Nums : m # n => Closing(n)[m] = fds[m]
  BY DEF Body, Types, Table, Closing, Nums

LEMMA AcceptStep ==
    ASSUME Body, NEW c \in Conns, Accept(c)
    PROVE  Body'
  <1> USE DEF Body, slots, tasks, hands
  <1> DEFINE n == Lowest(FreeFds)
  <1>1. /\ n \in Nums /\ fds[n] = Free /\ newfd' = n /\ fds' = [fds EXCEPT ![n] = Sock(c)]
        /\ client[c] = "backlog" /\ client' = [client EXCEPT ![c] = "idle"]
        /\ main = "polling" /\ main' = "adding"
        /\ UNCHANGED <<newidx, slots, tasks, hands>>
    BY FreshFd DEF Accept
  <1> HIDE DEF n
  <1>2. \A m \in Nums : \A d \in Conns : fds[m] \in {Sock(d), File(d)} => fds'[m] = fds[m]
    BY <1>1, OpeningKeeps
  <1>3. fds'[n] = Sock(c) /\ fds' \in Table
    BY <1>1, OpeningKeeps
  <1>4. Types'
    <2>1. n \in Int
      BY <1>1, ServerAssumption DEF Nums
    <2> QED  BY <1>1, <1>3, <2>1 DEF Types, Slots, InHandler
  <1>5. NotYet'
    BY <1>1 DEF NotYet, Types
  <1>6. NewClient'
    BY <1>1, <1>3 DEF NewClient, NotYet, Types
  <1>7. Handlers' /\ Descriptors'
    BY <1>1, <1>2 DEF Handlers, Descriptors
  <1>8. NoSlotLost' /\ Queue'
    BY <1>1 DEF NoSlotLost, Queue
  <1>9. Counted'
    BY <1>1 DEF Counted, Active
  <1> QED  BY <1>4, <1>5, <1>6, <1>7, <1>8, <1>9

\* The connection main is about to submit or to refuse.
LEMMA NewConn ==
    ASSUME Body, main \in {"adding", "submitting", "dropping"}
    PROVE  /\ newfd \in Nums
           /\ \E c \in Conns : fds[newfd] = Sock(c) /\ hpc[c] = "none"
                               /\ client[c] \notin {"new", "backlog"}
           /\ \A d \in Conns : \A m \in Nums :
                 hpc[d] # "none" /\ fds[m] \in {Sock(d), File(d)} => m # newfd
  BY Objects DEF Body, NewClient

\* RejectClient, DropClose: the new connection's descriptor is closed.
LEMMA RefuseStep ==
    ASSUME Body, RejectClient \/ DropClose
    PROVE  Body'
  <1> USE DEF Body, slots, tasks, hands, peers
  <1>1. /\ main \in {"adding", "dropping"} /\ main' = "testing" /\ newfd' = -1 /\ fds' = Closing(newfd)
        /\ UNCHANGED <<newidx, slots, tasks, hands, peers>>
    BY DEF RejectClient, DropClose
  <1>2. \A d \in Conns : \A m \in Nums :
            hpc[d] # "none" /\ fds[m] \in {Sock(d), File(d)} => fds'[m] = fds[m]
    BY <1>1, NewConn, ClosingOne
  <1>3. Types'
    <2>1. fds' \in Table
      BY <1>1, NewConn, ClosingOne
    <2> QED  BY <1>1, <2>1 DEF Types, Slots, InHandler
  <1>4. NotYet' /\ NewClient' /\ NoSlotLost' /\ Queue'
    BY <1>1 DEF NotYet, NewClient, NoSlotLost, Queue
  <1>5. Handlers'
    BY <1>1, <1>2 DEF Handlers, InHandler
  <1>6. Descriptors'
    BY <1>1, <1>2 DEF Descriptors
  <1>7. Counted'
    BY <1>1 DEF Counted, Active
  <1> QED  BY <1>3, <1>4, <1>5, <1>6, <1>7

LEMMA OpenStep ==
    ASSUME Body, NEW c \in Conns, ServeOpen(c)
    PROVE  Body'
  <1> USE DEF Body, loop, slots, tasks, peers
  <1> DEFINE n == Lowest(FreeFds)
  <1>0. n \in Nums /\ fds[n] = Free
    BY FreshFd DEF ServeOpen
  <1>1. /\ file' = [file EXCEPT ![c] = n] /\ fds' = [fds EXCEPT ![file'[c]] = File(c)]
        /\ hpc[c] = "serving" /\ hpc' = [hpc EXCEPT ![c] = "transferring"]
        /\ UNCHANGED <<loop, slots, tasks, slotOf, hfd, peers>>
    BY DEF ServeOpen, Goto
  <1> HIDE DEF n
  <1>2. file'[c] = n /\ fds' = [fds EXCEPT ![n] = File(c)]
    BY <1>1 DEF Types
  <1>3. \A m \in Nums : \A d \in Conns : fds[m] \in {Sock(d), File(d)} => fds'[m] = fds[m]
    BY <1>0, <1>2, OpeningKeeps
  <1>4. fds'[n] = File(c) /\ fds' \in Table
    <2>1. [fds EXCEPT ![n] = File(c)][n] = File(c) /\ [fds EXCEPT ![n] = File(c)] \in Table
      BY <1>0, OpeningKeeps
    <2> QED  BY <1>2, <2>1
  <1>5. Types'
    <2>1. n \in Int
      BY <1>0, ServerAssumption DEF Nums
    <2> QED  BY <1>1, <1>4, <2>1 DEF Types, Slots, InHandler
  <1>6. hpc \in [Conns -> InHandler \cup {"none", "closing", "done"}] /\ file \in [Conns -> Int]
    BY DEF Types
  <1>7. NotYet'
    BY <1>1, <1>6 DEF NotYet
  <1>8. NewClient'
    <2>1. \A d \in Conns : hpc[d] = "none" => hpc'[d] = "none"
      BY <1>1, <1>6
    <2> QED  BY <2>1, <1>1, <1>3 DEF NewClient
  <1>9. Handlers'
    BY <1>1, <1>3, <1>6 DEF Handlers, InHandler
  <1>10. Descriptors'
    BY <1>0, <1>1, <1>2, <1>3, <1>4, <1>6 DEF Descriptors
  <1>11. NoSlotLost'
    BY <1>1, <1>6 DEF NoSlotLost, InHandler
  <1>12. Queue'
    BY <1>1, <1>6, QueueKept
  <1>13. Counted'
    BY <1>1 DEF Counted, Active
  <1> QED  BY <1>5, <1>7, <1>8, <1>9, <1>10, <1>11, <1>12, <1>13

LEMMA CloseStep ==
    ASSUME Body, NEW c \in Conns, ServeClose(c)
    PROVE  Body'
  <1> USE DEF Body, loop, slots, tasks
  <1>1. /\ hpc[c] = "transferring" /\ hpc' = [hpc EXCEPT ![c] = "testing"]
        /\ fds' = Closing(file[c]) /\ file' = [file EXCEPT ![c] = -1]
        /\ client' = [client EXCEPT ![c] = "idle"]
        /\ UNCHANGED <<loop, slots, tasks, slotOf, hfd>>
    BY DEF ServeClose, Goto
  <1>2. file[c] \in Nums /\ fds[file[c]] = File(c)
    BY <1>1 DEF Descriptors
  <1>3. /\ \A m \in Nums : \A d \in Conns : fds[m] = Sock(d) => fds'[m] = fds[m]
        /\ \A m \in Nums : \A d \in Conns : d # c /\ fds[m] = File(d) => fds'[m] = fds[m]
    BY <1>1, <1>2, ClosingOne, Objects
  <1>4. Types'
    <2>1. fds' \in Table
      BY <1>1, <1>2, ClosingOne
    <2> QED  BY <1>1, <2>1 DEF Types, Slots, InHandler
  <1>5. /\ hpc \in [Conns -> InHandler \cup {"none", "closing", "done"}] /\ file \in [Conns -> Int]
        /\ client \in [Conns -> {"new", "backlog", "idle", "plain", "file", "quit", "gone"}]
    BY DEF Types
  <1>6. NotYet'
    BY <1>1, <1>5 DEF NotYet
  <1>7. NewClient'
    <2>1. \A d \in Conns : hpc[d] = "none" => hpc'[d] = "none" /\ client'[d] = client[d]
      BY <1>1, <1>5
    <2> QED  BY <2>1, <1>1, <1>3 DEF NewClient
  <1>8. Handlers'
    BY <1>1, <1>3, <1>5 DEF Handlers, InHandler
  <1>9. Descriptors'
    BY <1>1, <1>3, <1>5 DEF Descriptors
  <1>10. NoSlotLost'
    BY <1>1, <1>5 DEF NoSlotLost, InHandler
  <1>11. Queue'
    BY <1>1, <1>5, QueueKept
  <1>12. Counted'
    BY <1>1 DEF Counted, Active
  <1> QED  BY <1>4, <1>6, <1>7, <1>8, <1>9, <1>10, <1>11, <1>12

(***************************************************************************)
(* Slots are taken and given up.                                           *)
(***************************************************************************)
\* Active slots name open sockets of their own.
LEMMA DistinctFds ==
    ASSUME Body, NEW i \in Slots, NEW j \in Slots, slot_active[i], slot_active[j],
           slot_fd[i] = slot_fd[j]
    PROVE  i = j
  <1> USE DEF Body
  <1>1. \A k \in Slots : slot_active[k] =>
            \/ main = "submitting" /\ newidx = k
            \/ \E c \in Conns : hpc[c] \in InHandler /\ slotOf[c] = k /\ fds[slot_fd[k]] = Sock(c)
    BY DEF NoSlotLost, Handlers
  <1>2. main = "submitting" => slot_fd[newidx] = newfd
                               /\ \E c \in Conns : fds[newfd] = Sock(c) /\ hpc[c] = "none"
    BY DEF NewClient
  <1>3. "none" \notin InHandler
    BY DEF InHandler
  <1> QED  BY <1>1, <1>2, <1>3, Objects

\* remove_client finds the one slot with this descriptor.
LEMMA ReleaseOne ==
    ASSUME Body, NEW i \in Slots, slot_active[i], Release(slot_fd[i])
    PROVE  /\ slot_active' = [slot_active EXCEPT ![i] = FALSE]
           /\ slot_fd' = [slot_fd EXCEPT ![i] = -1]
           /\ client_count' = client_count - 1
  <1> DEFINE S == {j \in Slots : slot_active[j] /\ slot_fd[j] = slot_fd[i]}
  <1>1. S = {i}
    BY DistinctFds
  <1>2. {i} \in SUBSET Nat
    BY ServerAssumption DEF Slots
  <1>3. Lowest(S) = i
    BY <1>1, <1>2, LeastNatural
  <1>4. S # {}
    BY <1>1
  <1>5. IF S = {} THEN UNCHANGED slots
        ELSE /\ slot_active' = [slot_active EXCEPT ![Lowest(S)] = FALSE]
             /\ slot_fd' = [slot_fd EXCEPT ![Lowest(S)] = -1]
             /\ client_count' = client_count - 1
    BY DEF Release
  <1> HIDE DEF S
  <1> QED  BY <1>3, <1>4, <1>5

\* Giving up a slot leaves the slots well formed.
LEMMA ReleasedTypes ==
    ASSUME Body, NEW i \in Slots, slot_active' = [slot_active EXCEPT ![i] = FALSE],
           slot_fd' = [slot_fd EXCEPT ![i] = -1], client_count' = client_count - 1
    PROVE  /\ slot_fd' \in [Slots -> Int] /\ slot_active' \in [Slots -> BOOLEAN]
           /\ client_count' \in Int
  <1>1. slot_fd \in [Slots -> Int] /\ slot_active \in [Slots -> BOOLEAN] /\ client_count \in Int
    BY DEF Body, Types
  <1>2. slot_active' \in [Slots -> BOOLEAN]
    <2>1. FALSE \in BOOLEAN
      OBVIOUS
    <2> QED  BY <1>1, <2>1, Zenon
  <1>3. -1 \in Int /\ client_count' \in Int
    BY <1>1
  <1>4. slot_fd' \in [Slots -> Int]
    BY <1>1, <1>3
  <1> QED  BY <1>2, <1>3, <1>4

\* Slots can be counted.
LEMMA ActiveCount ==
    ASSUME Body, NEW i \in Slots
    PROVE  /\ IsFiniteSet(Active) /\ Cardinality(Active) \in Nat
           /\ ~slot_active[i] /\ slot_active' = [slot_active EXCEPT ![i] = TRUE]
                 => Cardinality(Active') = Cardinality(Active) + 1
           /\ slot_active[i] /\ slot_active' = [slot_active EXCEPT ![i] = FALSE]
                 => Cardinality(Active') = Cardinality(Active) - 1
  <1>0. slot_active \in [Slots -> BOOLEAN]
    BY DEF Body, Types
  <1>1. IsFiniteSet(Slots)
    BY FS_Interval, ServerAssumption DEF Slots
  <1>2. IsFiniteSet(Active) /\ Cardinality(Active) \in Nat
    BY <1>1, FS_Subset, FS_CardinalityType DEF Active
  <1>3. ASSUME ~slot_active[i], slot_active' = [slot_active EXCEPT ![i] = TRUE]
        PROVE  Cardinality(Active') = Cardinality(Active) + 1
    <2>1. i \notin Active /\ Active' = Active \cup {i}
      BY <1>0, <1>3 DEF Active, Slots
    <2> QED  BY <2>1, <1>2, FS_AddElement
  <1>4. ASSUME slot_active[i], slot_active' = [slot_active EXCEPT ![i] = FALSE]
        PROVE  Cardinality(Active') = Cardinality(Active) - 1
    <2>1. i \in Active /\ Active' = Active \ {i}
      BY <1>0, <1>4 DEF Active, Slots
    <2> QED  BY <2>1, <1>2, FS_RemoveElement
  <1> QED  BY <1>2, <1>3, <1>4

LEMMA AddStep ==
    ASSUME Body, AddClient
    PROVE  Body'
  <1> USE DEF Body, tasks, hands, peers
  <1> DEFINE i == Lowest({j \in Slots : ~slot_active[j]})
  <1>1. /\ main = "adding" /\ main' = "submitting"
        /\ newidx' = i /\ slot_fd' = [slot_fd EXCEPT ![newidx'] = newfd]
        /\ slot_active' = [slot_active EXCEPT ![newidx'] = TRUE]
        /\ client_count' = client_count + 1
        /\ UNCHANGED <<newfd, fds, tasks, hands, peers>>
    BY DEF AddClient
  <1>2. i \in Slots /\ ~slot_active[i]
    <2>1. {j \in Slots : ~slot_active[j]} \in SUBSET Nat /\ {j \in Slots : ~slot_active[j]} # {}
      BY ServerAssumption DEF AddClient, Slots
    <2>2. i \in {j \in Slots : ~slot_active[j]}
      BY <2>1, LeastNatural
    <2> QED  BY <2>2
  <1> HIDE DEF i
  <1>3. /\ slot_fd' = [slot_fd EXCEPT ![i] = newfd] /\ slot_active' = [slot_active EXCEPT ![i] = TRUE]
        /\ slot_fd \in [Slots -> Int] /\ slot_active \in [Slots -> BOOLEAN] /\ newfd \in Nums
    BY <1>1 DEF Types, NewClient
  <1>4. Types'
    <2>1. i \in Int /\ newfd \in Int /\ client_count' \in Int
      BY <1>1, <1>2, <1>3, ServerAssumption DEF Slots, Types
    <2> QED  BY <1>1, <1>3, <2>1 DEF Types, Slots, InHandler
  <1>5. NotYet' /\ Queue' /\ Descriptors'
    BY <1>1 DEF NotYet, Queue, Descriptors
  <1>6. NewClient'
    BY <1>1, <1>2, <1>3 DEF NewClient
  <1>7. Handlers'
    BY <1>1, <1>2, <1>3 DEF Handlers
  <1>8. NoSlotLost'
    BY <1>1, <1>2, <1>3 DEF NoSlotLost
  <1>9. Counted'
    BY <1>1, <1>2, <1>3, ActiveCount DEF Counted
  <1> QED  BY <1>4, <1>5, <1>6, <1>7, <1>8, <1>9

LEMMA SubmitFailsStep ==
    ASSUME Body, SubmitFails
    PROVE  Body'
  <1> USE DEF Body, tasks, hands, peers
  <1>1. /\ main = "submitting" /\ main' = "dropping" /\ Release(newfd)
        /\ UNCHANGED <<newfd, newidx, fds, tasks, hands, peers>>
    BY DEF SubmitFails
  <1>2. newidx \in Slots /\ slot_active[newidx] /\ slot_fd[newidx] = newfd
    BY <1>1 DEF NewClient
  <1>3. /\ slot_active' = [slot_active EXCEPT ![newidx] = FALSE]
        /\ slot_fd' = [slot_fd EXCEPT ![newidx] = -1]
        /\ client_count' = client_count - 1
    BY <1>1, <1>2, ReleaseOne
  <1>4. slot_fd \in [Slots -> Int] /\ slot_active \in [Slots -> BOOLEAN]
    BY DEF Types
  <1>5. Types'
    <2>1. slot_fd' \in [Slots -> Int] /\ slot_active' \in [Slots -> BOOLEAN] /\ client_count' \in Int
      BY <1>2, <1>3, ReleasedTypes
    <2> QED  BY <1>1, <2>1 DEF Types
  <1>6. NotYet' /\ Queue' /\ Descriptors' /\ NewClient'
    BY <1>1 DEF NotYet, Queue, Descriptors, NewClient
  <1>7. \A c \in Conns : hpc[c] \in InHandler => slotOf[c] # newidx
    <2>1. \E c \in Conns : fds[newfd] = Sock(c) /\ hpc[c] = "none"
      BY <1>1 DEF NewClient
    <2> QED  BY <1>2, <2>1, Objects DEF Handlers, InHandler
  <1>8. Handlers'
    BY <1>1, <1>3, <1>4, <1>7 DEF Handlers
  <1>9. NoSlotLost'
    BY <1>1, <1>2, <1>3, <1>4 DEF NoSlotLost
  <1>10. Counted'
    BY <1>2, <1>3, ActiveCount DEF Counted
  <1> QED  BY <1>5, <1>6, <1>8, <1>9, <1>10

LEMMA LeaveStep ==
    ASSUME Body, NEW c \in Conns, HandlerLeave(c)
    PROVE  Body'
  <1> USE DEF Body, loop, tasks, peers
  <1> DEFINE i == slotOf[c]
  <1>1. /\ hpc[c] = "leaving" /\ hpc' = [hpc EXCEPT ![c] = "closing"] /\ Release(hfd[c])
        /\ UNCHANGED <<loop, fds, tasks, slotOf, hfd, file, peers>>
    BY DEF HandlerLeave, Goto
  <1>2. i \in Slots /\ slot_active[i] /\ slot_fd[i] \in Nums /\ fds[slot_fd[i]] = Sock(c)
        /\ hfd[c] = slot_fd[i]
    BY <1>1 DEF Handlers, InHandler
  <1>3. /\ slot_active' = [slot_active EXCEPT ![i] = FALSE]
        /\ slot_fd' = [slot_fd EXCEPT ![i] = -1]
        /\ client_count' = client_count - 1
    BY <1>1, <1>2, ReleaseOne
  <1>4. /\ slot_fd \in [Slots -> Int] /\ slot_active \in [Slots -> BOOLEAN]
        /\ hpc \in [Conns -> InHandler \cup {"none", "closing", "done"}]
    BY DEF Types
  <1>5. Types'
    <2>1. slot_fd' \in [Slots -> Int] /\ slot_active' \in [Slots -> BOOLEAN] /\ client_count' \in Int
      BY <1>2, <1>3, ReleasedTypes
    <2>2. hpc' \in [Conns -> InHandler \cup {"none", "closing", "done"}]
      BY <1>1, <1>4
    <2> QED  BY <1>1, <2>1, <2>2 DEF Types
  <1>6. NotYet'
    BY <1>1, <1>4 DEF NotYet
  <1>7. Queue'
    BY <1>1, <1>4, QueueKept
  <1>8. \A d \in Conns : d # c /\ hpc[d] \in InHandler => slotOf[d] # i
    BY <1>2, Objects DEF Handlers
  <1>9. main = "submitting" => newidx # i
    <2>1. main = "submitting" => \E d \in Conns : fds[newfd] = Sock(d) /\ hpc[d] = "none"
                                                  /\ slot_fd[newidx] = newfd
      BY DEF NewClient
    <2> QED  BY <1>1, <1>2, <2>1, Objects
  <1>10. NewClient'
    <2>1. \A d \in Conns : hpc[d] = "none" => hpc'[d] = "none"
      BY <1>1, <1>4
    <2>2. main = "submitting" => newidx \in Slots /\ slot_active'[newidx] /\ slot_fd'[newidx] = newfd
      BY <1>3, <1>4, <1>9 DEF NewClient
    <2> QED  BY <1>1, <2>1, <2>2 DEF NewClient
  <1>11. Handlers'
    BY <1>1, <1>2, <1>3, <1>4, <1>8 DEF Handlers, InHandler
  <1>12. Descriptors'
    BY <1>1, <1>2, <1>4 DEF Descriptors
  <1>13. NoSlotLost'
    <2> SUFFICES ASSUME NEW j \in Slots, slot_active'[j]
                 PROVE  \/ main' = "submitting" /\ newidx' = j
                        \/ \E d \in Conns : hpc'[d] \in InHandler /\ slotOf'[d] = j
      BY DEF NoSlotLost
    <2>1. j # i /\ slot_active[j]
      BY <1>2, <1>3, <1>4
    <2>2. \A d \in Conns : hpc[d] \in InHandler /\ slotOf[d] = j => hpc'[d] \in InHandler
      BY <2>1, <1>1, <1>4
    <2> QED  BY <2>1, <2>2, <1>1 DEF NoSlotLost
  <1>14. Counted'
    BY <1>2, <1>3, ActiveCount DEF Counted
  <1> QED  BY <1>5, <1>6, <1>7, <1>10, <1>11, <1>12, <1>13, <1>14

(***************************************************************************)
(* Connections pass through the pool.                                      *)
(***************************************************************************)
LEMMA SubmitStep ==
    ASSUME Body, Submit
    PROVE  Body'
  <1> USE DEF Body, slots, peers
  <1>1. main = "submitting"
    BY DEF Submit
  <1>2. PICK c \in Conns : /\ fds[newfd] = Sock(c) /\ hpc[c] = "none"
                           /\ client[c] \notin {"new", "backlog"}
    BY <1>1, NewConn
  <1>3. fds[newfd].of = c
    BY <1>2, Objects
  <1>4. /\ pending' = Append(pending, c) /\ hand' = hand
        /\ slotOf' = [slotOf EXCEPT ![c] = newidx] /\ hpc' = [hpc EXCEPT ![c] = "queued"]
        /\ newfd' = -1 /\ main' = "testing"
        /\ UNCHANGED <<newidx, fds, slots, hfd, file, peers>>
    BY <1>3 DEF Submit, Pool!Accept
  <1>5. newidx \in Slots /\ slot_active[newidx] /\ slot_fd[newidx] = newfd /\ newfd \in Nums
    BY <1>1 DEF NewClient
  <1>6. /\ hpc \in [Conns -> InHandler \cup {"none", "closing", "done"}]
        /\ slotOf \in [Conns -> Int] /\ pending \in Seq(Conns)
    BY DEF Types
  <1>7. Types'
    <2>1. hpc' \in [Conns -> InHandler \cup {"none", "closing", "done"}]
      BY <1>4, <1>6 DEF InHandler
    <2>2. newidx \in Int /\ slotOf' \in [Conns -> Int] /\ pending' \in Seq(Conns)
      BY <1>4, <1>5, <1>6, ServerAssumption DEF Slots
    <2> QED  BY <1>4, <2>1, <2>2 DEF Types
  <1>8. NotYet'
    BY <1>2, <1>4, <1>6 DEF NotYet
  <1>9. NewClient'
    BY <1>4 DEF NewClient
  <1>10. Handlers'
    BY <1>2, <1>4, <1>5, <1>6 DEF Handlers
  <1>11. Descriptors'
    BY <1>4, <1>6 DEF Descriptors
  <1>12. NoSlotLost'
    <2> SUFFICES ASSUME NEW j \in Slots, slot_active[j]
                 PROVE  \E d \in Conns : hpc'[d] \in InHandler /\ slotOf'[d] = j
      BY <1>4 DEF NoSlotLost
    <2>1. hpc'[c] \in InHandler /\ slotOf'[c] = newidx
      BY <1>4, <1>6 DEF InHandler
    <2>2. \A d \in Conns : hpc[d] \in InHandler => hpc'[d] = hpc[d] /\ slotOf'[d] = slotOf[d]
      BY <1>2, <1>4, <1>6 DEF InHandler
    <2> QED  BY <2>1, <2>2 DEF NoSlotLost
  <1>13. Queue'
    <2>1. Len(pending') = Len(pending) + 1 /\ Len(pending) \in Nat
          /\ pending'[Len(pending) + 1] = c
          /\ \A i \in 1..Len(pending) : pending'[i] = pending[i] /\ pending[i] \in Conns
      BY <1>4, <1>6
    <2>2. \A i \in 1..Len(pending) : pending[i] # c
      BY <1>2 DEF Queue
    <2>3. \A i \in 1..Len(pending) : hpc'[pending[i]] = "queued"
      BY <1>4, <1>6, <2>1, <2>2 DEF Queue
    <2>4. hpc'[c] = "queued"
      BY <1>4, <1>6
    <2>5. \A i \in 1..Len(pending') : i \in 1..Len(pending) \/ i = Len(pending) + 1
      BY <2>1
    <2> QED  BY <2>1, <2>2, <2>3, <2>4, <2>5 DEF Queue
  <1>14. Counted'
    BY <1>4 DEF Counted, Active
  <1> QED  BY <1>7, <1>8, <1>9, <1>10, <1>11, <1>12, <1>13, <1>14

LEMMA StartStep ==
    ASSUME Body, NEW w \in Threads, HandlerStart(w)
    PROVE  Body'
  <1> USE DEF Body, loop, slots, peers
  <1> DEFINE c == Head(pending)
  <1>1. /\ pending # <<>> /\ pending' = Tail(pending) /\ hand' = [hand EXCEPT ![w] = c]
        /\ hfd' = [hfd EXCEPT ![c] = slot_fd[slotOf[c]]]
        /\ hpc' = [hpc EXCEPT ![c] = "testing"]
        /\ UNCHANGED <<loop, fds, slots, slotOf, file, peers>>
    BY DEF HandlerStart, Pool!Start
  <1>2. /\ hpc \in [Conns -> InHandler \cup {"none", "closing", "done"}]
        /\ hand \in [Threads -> Conns \cup {Nobody}]
        /\ hfd \in [Conns -> Int] /\ pending \in Seq(Conns)
    BY DEF Types
  <1>3. /\ Len(pending) \in Nat \ {0} /\ c = pending[1] /\ c \in Conns
        /\ Len(pending') = Len(pending) - 1
        /\ \A i \in 1..Len(pending') : pending'[i] = pending[i + 1] /\ pending[i + 1] \in Conns
    BY <1>1, <1>2
  <1>4. hpc[c] = "queued"
    BY <1>3 DEF Queue
  <1> HIDE DEF c
  <1>5. slot_fd[slotOf[c]] \in Nums
    BY <1>3, <1>4 DEF Handlers, InHandler
  <1>6. Types'
    <2>1. hpc' \in [Conns -> InHandler \cup {"none", "closing", "done"}]
      BY <1>1, <1>2 DEF InHandler
    <2>2. slot_fd[slotOf[c]] \in Int
      BY <1>5, ServerAssumption DEF Nums
    <2>3. hfd' \in [Conns -> Int] /\ hand' \in [Threads -> Conns \cup {Nobody}]
      BY <1>1, <1>2, <1>3, <2>2
    <2>4. pending' \in Seq(Conns)
      BY <1>1, <1>2
    <2> QED  BY <1>1, <2>1, <2>3, <2>4 DEF Types
  <1>7. NotYet'
    BY <1>1, <1>2, <1>4 DEF NotYet
  <1>8. NewClient'
    <2>1. \A d \in Conns : hpc[d] = "none" => hpc'[d] = "none"
      BY <1>1, <1>2, <1>4
    <2> QED  BY <1>1, <2>1 DEF NewClient
  <1>9. Handlers'
    BY <1>1, <1>2, <1>3, <1>4 DEF Handlers, InHandler
  <1>10. Descriptors'
    BY <1>1, <1>2, <1>4 DEF Descriptors
  <1>11. NoSlotLost'
    <2>1. \A d \in Conns : hpc[d] \in InHandler => hpc'[d] \in InHandler
      BY <1>1, <1>2 DEF InHandler
    <2> QED  BY <1>1, <2>1 DEF NoSlotLost
  <1>12. Queue'
    <2>1. \A i \in 1..Len(pending') : i + 1 \in 1..Len(pending) /\ i + 1 # 1 /\ 1 \in 1..Len(pending)
      BY <1>3
    <2>2. \A i \in 1..Len(pending') : pending'[i] # c
      BY <1>3, <2>1 DEF Queue
    <2>3. \A i \in 1..Len(pending') : hpc[pending'[i]] = "queued" /\ pending'[i] \in Conns
      BY <1>3, <2>1 DEF Queue
    <2>4. \A i \in 1..Len(pending') : hpc'[pending'[i]] = "queued"
      BY <1>1, <1>2, <2>2, <2>3
    <2>5. \A i, j \in 1..Len(pending') : pending'[i] = pending'[j] => i + 1 = j + 1
      BY <1>3, <2>1 DEF Queue
    <2>6. \A i, j \in 1..Len(pending') : i + 1 = j + 1 => i = j
      OBVIOUS
    <2> QED  BY <2>4, <2>5, <2>6 DEF Queue
  <1>13. Counted'
    BY <1>1 DEF Counted, Active
  <1> QED  BY <1>6, <1>7, <1>8, <1>9, <1>10, <1>11, <1>12, <1>13

LEMMA EndStep ==
    ASSUME Body, NEW w \in Threads, HandlerClose(w)
    PROVE  Body'
  <1> USE DEF Body, loop, slots, peers
  <1> DEFINE c == hand[w]
  <1>1. /\ c # Nobody /\ hpc[c] = "closing" /\ hand' = [hand EXCEPT ![w] = Nobody]
        /\ fds' = Closing(hfd[c]) /\ hpc' = [hpc EXCEPT ![c] = "done"]
        /\ UNCHANGED <<loop, slots, pending, slotOf, hfd, file, peers>>
    BY DEF HandlerClose, Pool!Finish, Goto
  <1>2. /\ hpc \in [Conns -> InHandler \cup {"none", "closing", "done"}]
        /\ hand \in [Threads -> Conns \cup {Nobody}]
    BY DEF Types
  <1>3. c \in Conns
    BY <1>1, <1>2
  <1> HIDE DEF c
  <1>4. hfd[c] \in Nums /\ fds[hfd[c]] = Sock(c)
    BY <1>1, <1>3 DEF Descriptors
  <1>5. /\ \A m \in Nums : \A d \in Conns : d # c /\ fds[m] = Sock(d) => fds'[m] = fds[m]
        /\ \A m \in Nums : \A d \in Conns : fds[m] = File(d) => fds'[m] = fds[m]
    BY <1>1, <1>4, ClosingOne, Objects
  <1>6. Types'
    <2>1. fds' \in Table
      BY <1>1, <1>4, ClosingOne
    <2>2. hpc' \in [Conns -> InHandler \cup {"none", "closing", "done"}]
          /\ hand' \in [Threads -> Conns \cup {Nobody}]
      BY <1>1, <1>2
    <2> QED  BY <1>1, <2>1, <2>2 DEF Types
  <1>7. \A d \in Conns : d # c => hpc'[d] = hpc[d]
    BY <1>1, <1>2
  <1>8. hpc'[c] = "done" /\ "done" \notin InHandler /\ "closing" \notin InHandler
    BY <1>1, <1>2, <1>3 DEF InHandler
  <1>9. NotYet'
    BY <1>1, <1>3, <1>7 DEF NotYet
  <1>10. NewClient'
    <2>1. \A d \in Conns : hpc[d] = "none" => hpc'[d] = "none" /\ d # c
      BY <1>1, <1>7
    <2> QED  BY <1>1, <1>5, <2>1 DEF NewClient
  <1>11. Handlers'
    BY <1>1, <1>5, <1>7, <1>8 DEF Handlers
  <1>12. Descriptors'
    BY <1>1, <1>5, <1>7, <1>8 DEF Descriptors
  <1>13. NoSlotLost'
    BY <1>1, <1>7, <1>8 DEF NoSlotLost
  <1>14. Queue'
    BY <1>1, <1>7, QueueKept
  <1>15. Counted'
    BY <1>1 DEF Counted, Active
  <1> QED  BY <1>6, <1>9, <1>10, <1>11, <1>12, <1>13, <1>14, <1>15

(***************************************************************************)
(* The theorems.                                                           *)
(***************************************************************************)
LEMMA PeerStepBody ==
    ASSUME Body, NEW c \in Conns, PeerStep(c)
    PROVE  Body'
  <1>1. /\ UNCHANGED <<newfd, newidx, fds, slots, tasks, hands, main>>
        /\ client[c] \in {"new", "idle"}
        /\ \E to \in {"backlog", "plain", "file", "quit", "gone"} :
              /\ client' = [client EXCEPT ![c] = to]
              /\ to = "backlog" <=> client[c] = "new"
    BY DEF PeerStep, Connect, Request, Leave, loop
  <1>2. client \in [Conns -> {"new", "backlog", "idle", "plain", "file", "quit", "gone"}]
    BY DEF Body, Types
  <1>3. client' \in [Conns -> {"new", "backlog", "idle", "plain", "file", "quit", "gone"}]
    BY <1>1, <1>2
  <1>4. \A d \in Conns : /\ client[d] = "new" \/ client'[d] = client[d]
                            \/ client'[d] \notin {"new", "backlog"}
                         /\ client[d] \notin {"new", "backlog"} => client'[d] \notin {"new", "backlog"}
    BY <1>1, <1>2
  <1> QED  BY <1>1, <1>3, <1>4, PeerMoves

\* The steps of the main thread that touch no connection, signals, stuttering.
LEMMA IdleStepBody ==
    ASSUME Body, StartLoop \/ TestRunning \/ PollNothing \/ Signal \/ UNCHANGED vars
    PROVE  Body'
  <1>1. /\ UNCHANGED <<newfd, newidx, fds, slots, tasks, hands, client>>
        /\ main' \notin {"adding", "submitting", "dropping"} \/ main' = main
        /\ main = "submitting" => main' = main
    BY DEF StartLoop, TestRunning, PollNothing, Signal, vars, loop, peers
  <1>2. client \in [Conns -> {"new", "backlog", "idle", "plain", "file", "quit", "gone"}]
    BY DEF Body, Types
  <1> QED  BY <1>1, <1>2, PeerMoves

LEMMA HandlerStepBody ==
    ASSUME Body, NEW c \in Conns, HandlerStep(c)
    PROVE  Body'
  <1>1. CASE HandlerTest(c) \/ HandlerCall(c) \/ HandlerRecv(c) \/ ServePlain(c)
    <2>1. /\ UNCHANGED <<loop, fds, slots, tasks, slotOf, hfd, file>>
          /\ client' = client \/ client' = [client EXCEPT ![c] = "idle"]
      BY <1>1 DEF HandlerTest, HandlerCall, HandlerRecv, ServePlain, peers
    <2>2. /\ hpc[c] \in InHandler \ {"queued", "transferring"}
          /\ \E to \in InHandler \ {"queued", "transferring"} : hpc' = [hpc EXCEPT ![c] = to]
      BY <1>1 DEF HandlerTest, HandlerCall, HandlerRecv, ServePlain, Goto, InHandler
    <2> QED  BY <2>1, <2>2, HandlerMoves
  <1> QED  BY <1>1, OpenStep, CloseStep, LeaveStep DEF HandlerStep

LEMMA StepIInv ==
    ASSUME IInv, [Next]_vars
    PROVE  IInv'
  <1> SUFFICES ASSUME Serving' PROVE Body'
    BY DEF IInv
  <1>1. Body
    BY ServingBefore DEF IInv
  <1>2. ~InitFails /\ ~StopClients /\ ~StopPool /\ ~StopDone
    BY DEF InitFails, StopClients, StopPool, StopDone, Serving
  <1>3. CASE MainStep
    BY <1>1, <1>2, <1>3, IdleStepBody, AcceptStep, AddStep, RefuseStep, SubmitStep,
       SubmitFailsStep, Zenon DEF MainStep
  <1>4. CASE \E c \in Conns : HandlerStep(c) \/ PeerStep(c)
    BY <1>1, <1>4, HandlerStepBody, PeerStepBody
  <1>5. CASE \E w \in Threads : HandlerStart(w) \/ HandlerClose(w)
    BY <1>1, <1>5, StartStep, EndStep
  <1>6. CASE Signal \/ UNCHANGED vars
    BY <1>1, <1>6, IdleStepBody
  <1> QED  BY <1>3, <1>4, <1>5, <1>6 DEF Next

\* Connections hold their slots one each while the server serves (server_start,
\* add_client, remove_client and server_handle_client in any interleaving).
THEOREM ServerInvariant == Spec => []IInv
  BY InitIInv, StepIInv, PTL DEF Spec

\* Slots and running handlers correspond one to one, the slot names the
\* handler's own open socket, and client_count counts the active slots.
THEOREM SlotsOwned == Spec => []SlotsMatchHandlers
  <1>1. IInv => SlotsMatchHandlers
    BY DEF IInv, Body, SlotsMatchHandlers, Handlers, NoSlotLost, Counted, Active
  <1> QED  BY <1>1, ServerInvariant, PTL

\* No descriptor that remove_client or a transfer closes has been reused.
THEOREM DescriptorsOwned == Spec => []OwnUntilStop
  <1>1. IInv => OwnUntilStop
    BY DEF IInv, Body, OwnUntilStop, ClosesOwnDescriptor, Descriptors
  <1> QED  BY <1>1, ServerInvariant, PTL

\* Each queued connection has a slot of its own, and so has the one about to
\* be submitted.
LEMMA QueueFits ==
    ASSUME Body, main = "submitting"
    PROVE  Len(pending) < MaxClients
  <1> USE DEF Body
  <1> DEFINE D == 1..Len(pending)
             T == Slots \ {newidx}
             f == [i \in D |-> slotOf[pending[i]]]
  <1>1. Len(pending) \in Nat /\ \A i \in D : pending[i] \in Conns
    BY DEF Types
  <1>2. newidx \in Slots /\ slot_fd[newidx] = newfd
        /\ \E c \in Conns : fds[newfd] = Sock(c) /\ hpc[c] = "none"
    BY DEF NewClient
  <1>3. \A i \in D : /\ slotOf[pending[i]] \in Slots
                     /\ fds[slot_fd[slotOf[pending[i]]]] = Sock(pending[i])
                     /\ hpc[pending[i]] = "queued"
    BY <1>1 DEF Queue, Handlers, InHandler
  <1>4. f \in [D -> T]
    BY <1>2, <1>3, Objects
  <1>5. \A i, j \in D : f[i] = f[j] => i = j
    BY <1>3, Objects DEF Queue
  <1>6. IsFiniteSet(Slots) /\ Cardinality(Slots) = MaxClients
    BY FS_Interval, ServerAssumption DEF Slots
  <1>7. IsFiniteSet(T) /\ Cardinality(T) = MaxClients - 1
    BY <1>2, <1>6, FS_RemoveElement
  <1>8. Cardinality(D) = Len(pending)
    <2>1. \A n \in Nat : Cardinality(1..n) = n
      BY FS_Interval
    <2> QED  BY <1>1, <2>1
  <1>9. f \in Injection(D, T)
    BY <1>4, <1>5 DEF Injection, IsInjective
  <1>10. Cardinality(D) <= Cardinality(T)
    BY <1>7, <1>9, FS_Injection
  <1> QED  BY <1>1, <1>7, <1>8, <1>10, ServerAssumption

\* thread_pool_add_task never makes the accept loop wait: fewer than
\* max_clients connections are queued when one more is submitted.
THEOREM QueueNeverFull == Spec => []SubmitNeverWaits
  <1>1. IInv => SubmitNeverWaits
    BY QueueFits DEF IInv, Serving, SubmitNeverWaits
  <1> QED  BY <1>1, ServerInvariant, PTL
=============================================================================
