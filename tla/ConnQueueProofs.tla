-------------------------- MODULE ConnQueueProofs ---------------------------
(***************************************************************************)
(* Proofs about the connection queue of the web server and the proxy, for  *)
(* any number of workers and connections, any capacity of the ring, and    *)
(* stop called from anywhere or not at all.                                *)
(***************************************************************************)
EXTENDS ConnQueue, FiniteSetTheorems, SequenceTheorems, TLAPS

(***************************************************************************)
(* Arithmetic of the ring.                                                 *)
(***************************************************************************)
\* An index below the capacity stands for itself.
LEMMA NoWrap ==
    ASSUME NEW M \in Nat \ {0}, NEW x \in 0..(M - 1)
    PROVE  x % M = x
  OBVIOUS

\* Slots that are less than the capacity apart are different slots.
LEMMA WrapInjective ==
    ASSUME NEW M \in Nat \ {0}, NEW h \in 0..(M - 1), NEW i \in 0..(M - 1), NEW j \in 0..(M - 1),
           (h + i) % M = (h + j) % M
    PROVE  i = j
  <1>1. h + i \in 0..(M + M - 1) /\ h + j \in 0..(M + M - 1)
    OBVIOUS
  <1>2. (h + i) % M = IF h + i < M THEN h + i ELSE h + i - M
    BY <1>1
  <1>3. (h + j) % M = IF h + j < M THEN h + j ELSE h + j - M
    BY <1>1
  <1> QED  BY <1>2, <1>3

\* Counting from the next head on.
LEMMA WrapNext ==
    ASSUME NEW M \in Nat \ {0}, NEW h \in 0..(M - 1), NEW i \in 0..(M - 1)
    PROVE  (((h + 1) % M) + i) % M = (h + i + 1) % M
  <1>1. CASE h + 1 < M
    BY <1>1
  <1>2. CASE h + 1 = M
    <2>1. (h + 1) % M = 0
      BY <1>2
    <2>2. h + i + 1 \in 0..(M + M - 1) /\ i \in 0..(M + M - 1)
      BY <1>2
    <2>3. (h + i + 1) % M = i
      BY <1>2
    <2>4. i % M = i
      BY NoWrap
    <2> QED  BY <2>1, <2>3, <2>4
  <1> QED  BY <1>1, <1>2

\* The slot after the last one.
LEMMA WrapLast ==
    ASSUME NEW M \in Nat \ {0}, NEW h \in 0..(M - 1), NEW n \in 0..(M - 1)
    PROVE  (((h + n) % M) + 1) % M = (h + n + 1) % M
  <1>1. CASE h + n < M
    BY <1>1
  <1>2. CASE h + n >= M
    <2>1. (h + n) % M = h + n - M
      BY <1>2
    <2>2. (h + n + 1) % M = (h + n - M) + 1
      BY <1>2
    <2>3. (h + n - M) + 1 \in 0..(M - 1)
      BY <1>2
    <2> QED  BY <2>1, <2>2, <2>3, NoWrap
  <1> QED  BY <1>1, <1>2

(***************************************************************************)
(* The inductive invariant.                                                *)
(***************************************************************************)
Types ==
    /\ running \in BOOLEAN /\ mutex \in Workers \cup {Main, Null}
    /\ queue \in [Slots -> Conns \cup {Null}]
    /\ queue_head \in Slots /\ queue_tail \in Slots
    /\ queue_size \in 0..MaxConnections
    /\ acc \in {"test", "accept", "lock", "locked", "done"}
    /\ client_fd \in Conns \cup {Null}
    /\ acc \in {"lock", "locked"} <=> client_fd # Null
    /\ wpc \in [Workers -> {"test", "lock", "to_sleep", "asleep", "handling", "exited"}]
    /\ fd \in [Workers -> Conns \cup {Null}]
    /\ queued \in Seq(Conns) /\ taken \in Seq(Conns) /\ refused \subseteq Conns

\* The ring, place by place: what was queued is what was taken followed by
\* the slots from the head on.
RingHolds ==
    /\ Len(queued) = Len(taken) + queue_size
    /\ \A i \in 1..Len(taken) : queued[i] = taken[i]
    /\ \A i \in 0..(queue_size - 1) :
          queued[Len(taken) + i + 1] = queue[(queue_head + i) % MaxConnections]
    /\ queue_tail = (queue_head + queue_size) % MaxConnections

\* Who is between two steps with the mutex held.  A worker about to sleep
\* has found nothing, and nobody can have queued anything since.
MutexHeld ==
    /\ mutex = Main <=> acc = "locked"
    /\ \A w \in Workers : wpc[w] = "to_sleep" <=> mutex = w
    /\ mutex \in Workers => queue_size = 0

\* Workers that have been woken or are on their way to the mutex.
Coming == {w \in Workers : wpc[w] = "lock"}

\* No signal is lost: while some worker sleeps, there is a worker on its way
\* to the mutex for every queued connection.
WakeupsCoverQueue == Sleepers # {} => queue_size <= Cardinality(Coming)

\* A connection enters the queue once.
QueuedOnce ==
    /\ \A i, j \in 1..Len(queued) : queued[i] = queued[j] => i = j
    /\ \A i \in 1..Len(queued) : queued[i] # client_fd /\ queued[i] \notin refused
    /\ client_fd \notin refused

\* A worker that has a connection took it from the queue, and no other
\* worker has the same one.
HandledByOne ==
    /\ \A w \in Workers : fd[w] # Null => \E i \in 1..Len(taken) : taken[i] = fd[w]
    /\ \A v, w \in Workers : fd[v] = fd[w] /\ fd[v] # Null => v = w

IInv == Types /\ RingHolds /\ MutexHeld /\ WakeupsCoverQueue /\ QueuedOnce /\ HandledByOne

(***************************************************************************)
(* Each conjunct is preserved by every step.                               *)
(***************************************************************************)
USE DEF Slots

LEMMA InitIInv == Init => IInv
  <1> SUFFICES ASSUME Init PROVE IInv
    OBVIOUS
  <1> USE QueueAssumption
  <1>1. Types
    BY DEF Init, Types
  <1>2. RingHolds
    BY DEF Init, RingHolds
  <1>3. MutexHeld
    BY DEF Init, MutexHeld
  <1>4. Sleepers = {}
    BY DEF Init, Sleepers
  <1>5. QueuedOnce /\ HandledByOne
    BY DEF Init, QueuedOnce, HandledByOne
  <1> QED  BY <1>1, <1>2, <1>3, <1>4, <1>5 DEF IInv, WakeupsCoverQueue

\* The connection at the head of a ring that is not empty.
LEMMA HeadOfRing ==
    ASSUME Types, RingHolds, queue_size > 0
    PROVE  /\ queue[queue_head] \in Conns
           /\ queue[queue_head] = queued[Len(taken) + 1]
  <1>1. queue_head % MaxConnections = queue_head
    <2>1. queue_head \in 0..(MaxConnections - 1) /\ MaxConnections \in Nat \ {0}
      BY QueueAssumption DEF Types
    <2> QED  BY <2>1, NoWrap
  <1>2. queued[Len(taken) + 1] = queue[queue_head]
    <2>1. 0 \in 0..(queue_size - 1)
      BY DEF Types
    <2>2. queued[Len(taken) + 0 + 1] = queue[(queue_head + 0) % MaxConnections]
      BY <2>1 DEF RingHolds
    <2>3. Len(taken) + 0 + 1 = Len(taken) + 1 /\ queue_head + 0 = queue_head
      BY DEF Types
    <2> QED  BY <1>1, <2>2, <2>3
  <1>3. Len(taken) + 1 \in 1..Len(queued)
    BY DEF Types, RingHolds
  <1> QED  BY <1>2, <1>3 DEF Types

LEMMA TypesStep == IInv /\ [Next]_vars => Types'
  <1> SUFFICES ASSUME IInv, [Next]_vars PROVE Types'
    OBVIOUS
  <1> USE QueueAssumption DEF IInv
  <1>1. CASE TestMain \/ AcceptFails \/ LockMain
    BY <1>1 DEF Types, TestMain, AcceptFails, LockMain, ring, work, hist
  <1>2. ASSUME NEW c \in Conns, Accept(c) PROVE Types'
    BY <1>2 DEF Types, Accept, ring, work, hist
  <1>3. CASE Enqueue
    <2>1. client_fd \in Conns
      BY <1>3 DEF Enqueue, Types
    <2>2. queue_tail' \in Slots
      BY <1>3 DEF Enqueue, Types
    <2>3. wpc' \in [Workers -> {"test", "lock", "to_sleep", "asleep", "handling", "exited"}]
      BY <1>3 DEF Enqueue, Types, Sleepers
    <2>4. queue' \in [Slots -> Conns \cup {Null}]
      BY <1>3, <2>1 DEF Enqueue, Types
    <2>5. queued' \in Seq(Conns)
      BY <1>3, <2>1 DEF Enqueue, Types
    <2> QED  BY <1>3, <2>2, <2>3, <2>4, <2>5 DEF Enqueue, Types
  <1>4. CASE Refuse
    BY <1>4 DEF Types, Refuse, ring, work, hist
  <1>5. ASSUME NEW w \in Workers, TestWorker(w) \/ FindNothing(w) \/ Sleep(w) \/ GiveUp(w)
                                   \/ Handled(w) \/ SpuriousWakeup(w)
        PROVE  Types'
    BY <1>5 DEF Types, TestWorker, FindNothing, Sleep, GiveUp, Handled, SpuriousWakeup, Step,
                ring, main, hist
  <1>6. ASSUME NEW w \in Workers, Dequeue(w) PROVE Types'
    <2>1. queue[queue_head] \in Conns
      BY <1>6, HeadOfRing DEF Dequeue, Types
    <2>2. queue_head' \in Slots
      BY <1>6 DEF Dequeue, Types
    <2> QED  BY <1>6, <2>1, <2>2 DEF Dequeue, Types, Step, main
  <1>7. CASE StopFlag \/ StopBroadcast \/ StopJoined
    BY <1>7 DEF Types, StopFlag, StopBroadcast, StopJoined, ring, main, work, hist
  <1>8. CASE UNCHANGED vars
    BY <1>8 DEF Types, vars, ring, main, work, hist
  <1> QED  BY <1>1, <1>2, <1>3, <1>4, <1>5, <1>6, <1>7, <1>8
           DEF Next, MainStep, WorkerLocks, WorkerStep

\* Only Enqueue and Dequeue touch the ring and its history.
LEMMA RingActions ==
    [Next]_vars => \/ Enqueue
                   \/ \E w \in Workers : Dequeue(w)
                   \/ UNCHANGED <<ring, queued, taken>>
  BY Zenon DEF Next, MainStep, WorkerLocks, WorkerStep, TestMain, LockMain, Refuse, AcceptFails, Accept,
         FindNothing, GiveUp, TestWorker, Sleep, Handled, SpuriousWakeup,
         StopFlag, StopBroadcast, StopJoined, vars, hist

LEMMA RingStep == IInv /\ [Next]_vars => RingHolds'
  <1> SUFFICES ASSUME IInv, [Next]_vars PROVE RingHolds'
    OBVIOUS
  <1> DEFINE M == MaxConnections
  <1>t. /\ M \in Nat \ {0} /\ queue_head \in 0..(M - 1) /\ queue_size \in 0..M
        /\ queued \in Seq(Conns) /\ taken \in Seq(Conns)
        /\ Len(queued) \in Nat /\ Len(taken) \in Nat
        /\ queue \in [0..(M - 1) -> Conns \cup {Null}]
    BY QueueAssumption DEF IInv, Types
  <1>r. RingHolds
    BY DEF IInv
  <1>l. Len(queued) = Len(taken) + queue_size
    BY <1>r DEF RingHolds
  <1>p. \A i \in 1..Len(taken) : queued[i] = taken[i]
    BY <1>r DEF RingHolds
  <1>1. CASE Enqueue
    <2>1. client_fd \in Conns
      BY <1>1 DEF Enqueue, IInv, Types
    <2>2. /\ Len(queued') = Len(queued) + 1
          /\ queued'[Len(queued) + 1] = client_fd
          /\ \A i \in 1..Len(queued) : queued'[i] = queued[i]
      BY <1>1, <1>t, <2>1 DEF Enqueue
    <2>3. taken' = taken /\ queue_head' = queue_head /\ queue_size' = queue_size + 1
          /\ queue_size < M /\ queue' = [queue EXCEPT ![queue_tail] = client_fd]
      BY <1>1 DEF Enqueue
    <2>4. Len(queued') = Len(taken') + queue_size'
      BY <1>t, <1>l, <2>2, <2>3
    <2>5. \A i \in 1..Len(taken') : queued'[i] = taken'[i]
      BY <1>t, <1>l, <1>p, <2>2, <2>3
    <2>6. ASSUME NEW i \in 0..(queue_size' - 1)
          PROVE  queued'[Len(taken') + i + 1] = queue'[(queue_head' + i) % M]
      <3> DEFINE x == (queue_head + i) % M
      <3>1. i \in 0..(M - 1) /\ queue_size \in 0..(M - 1) /\ x \in 0..(M - 1)
        BY <1>t, <2>3
      <3>2. CASE i = queue_size
        <4>1. x = queue_tail
          BY <3>2, <1>r DEF RingHolds
        <4>2. queue'[x] = client_fd
          BY <4>1, <3>1, <1>t, <2>3
        <4>3. Len(taken') + i + 1 = Len(queued) + 1
          BY <3>2, <1>l, <1>t, <2>3
        <4> QED  BY <4>2, <4>3, <2>2, <2>3
      <3>3. CASE i # queue_size
        <4>1. i \in 0..(queue_size - 1)
          BY <3>3, <1>t, <2>3
        <4>2. x # queue_tail
          <5>1. SUFFICES ASSUME (queue_head + i) % M = (queue_head + queue_size) % M PROVE FALSE
            BY <1>r DEF RingHolds
          <5>2. i = queue_size
            BY <5>1, <3>1, <1>t, WrapInjective
          <5> QED  BY <5>2, <3>3
        <4>3. queue'[x] = queue[x]
          BY <4>2, <3>1, <1>t, <2>3
        <4>4. queued[Len(taken) + i + 1] = queue[x]
          BY <4>1, <1>r DEF RingHolds
        <4>5. Len(taken) + i + 1 \in 1..Len(queued)
          BY <4>1, <1>l, <1>t
        <4> QED  BY <4>3, <4>4, <4>5, <2>2, <2>3
      <3> QED  BY <3>2, <3>3
    <2>7. queue_tail' = (queue_head' + queue_size') % M
      <3>1. queue_tail' = (((queue_head + queue_size) % M) + 1) % M
        BY <1>1, <1>r DEF Enqueue, RingHolds
      <3>2. queue_size \in 0..(M - 1)
        BY <1>t, <2>3
      <3>3. (((queue_head + queue_size) % M) + 1) % M = (queue_head + queue_size + 1) % M
        BY <3>2, <1>t, WrapLast
      <3>4. queue_head + queue_size + 1 = queue_head + (queue_size + 1)
        BY <1>t
      <3> QED  BY <3>1, <3>3, <3>4, <2>3
    <2> QED  BY <2>4, <2>5, <2>6, <2>7 DEF RingHolds
  <1>2. ASSUME NEW w \in Workers, Dequeue(w) PROVE RingHolds'
    <2>1. /\ queue_size > 0 /\ queue_size' = queue_size - 1 /\ queue' = queue /\ queued' = queued
          /\ queue_tail' = queue_tail /\ queue_head' = (queue_head + 1) % M
          /\ taken' = Append(taken, queue[queue_head])
      BY <1>2 DEF Dequeue
    <2>2. queue[queue_head] \in Conns /\ queue[queue_head] = queued[Len(taken) + 1]
      BY <2>1, HeadOfRing DEF IInv
    <2>3. /\ Len(taken') = Len(taken) + 1
          /\ taken'[Len(taken) + 1] = queued[Len(taken) + 1]
          /\ \A i \in 1..Len(taken) : taken'[i] = taken[i]
      BY <1>t, <2>1, <2>2
    <2>4. Len(queued') = Len(taken') + queue_size'
      BY <1>t, <1>l, <2>1, <2>3
    <2>5. \A i \in 1..Len(taken') : queued'[i] = taken'[i]
      BY <1>t, <1>l, <1>p, <2>1, <2>3
    <2>6. ASSUME NEW i \in 0..(queue_size' - 1)
          PROVE  queued'[Len(taken') + i + 1] = queue'[(queue_head' + i) % M]
      <3>1. i \in 0..(M - 1) /\ i + 1 \in 0..(queue_size - 1)
        BY <1>t, <2>1
      <3>2. (queue_head' + i) % M = (queue_head + i + 1) % M
        BY <3>1, <1>t, <2>1, WrapNext
      <3>3. queued[Len(taken) + (i + 1) + 1] = queue[(queue_head + (i + 1)) % M]
        BY <3>1, <1>r DEF RingHolds
      <3>4. /\ Len(taken') + i + 1 = Len(taken) + (i + 1) + 1
            /\ queue_head + (i + 1) = queue_head + i + 1
        BY <1>t, <2>3, <3>1
      <3> QED  BY <3>2, <3>3, <3>4, <2>1
    <2>7. queue_tail' = (queue_head' + queue_size') % M
      <3>1. queue_size - 1 \in 0..(M - 1)
        BY <1>t, <2>1
      <3>2. (queue_head' + (queue_size - 1)) % M = (queue_head + (queue_size - 1) + 1) % M
        BY <3>1, <1>t, <2>1, WrapNext
      <3>3. queue_head + (queue_size - 1) + 1 = queue_head + queue_size
        BY <1>t
      <3> QED  BY <3>2, <3>3, <2>1, <1>r DEF RingHolds
    <2> QED  BY <2>4, <2>5, <2>6, <2>7 DEF RingHolds
  <1>3. CASE UNCHANGED <<ring, queued, taken>>
    BY <1>3, <1>r DEF RingHolds, ring
  <1> QED  BY <1>1, <1>2, <1>3, RingActions

LEMMA MutexStep == IInv /\ [Next]_vars => MutexHeld'
  <1> SUFFICES ASSUME IInv, [Next]_vars PROVE MutexHeld'
    OBVIOUS
  <1> USE QueueAssumption DEF IInv, Types, MutexHeld
  <1>1. CASE TestMain \/ AcceptFails \/ LockMain \/ Refuse
    BY <1>1 DEF TestMain, AcceptFails, LockMain, Refuse, ring, work
  <1>2. ASSUME NEW c \in Conns, Accept(c) PROVE MutexHeld'
    BY <1>2 DEF Accept, ring, work
  <1>3. CASE Enqueue
    <2>1. mutex = Main /\ mutex' = Null /\ acc' = "test"
      BY <1>3 DEF Enqueue
    <2>2. \A w \in Workers : wpc[w] # "to_sleep"
      BY <2>1
    <2>3. \A w \in Workers : wpc'[w] # "to_sleep"
      BY <1>3, <2>2 DEF Enqueue, Sleepers
    <2> QED  BY <2>1, <2>3
  <1>4. ASSUME NEW w \in Workers, TestWorker(w) \/ GiveUp(w) \/ Handled(w) \/ SpuriousWakeup(w)
        PROVE  MutexHeld'
    BY <1>4 DEF TestWorker, GiveUp, Handled, SpuriousWakeup, Step, ring, main
  <1>5. ASSUME NEW w \in Workers, FindNothing(w) \/ Sleep(w) PROVE MutexHeld'
    BY <1>5 DEF FindNothing, Sleep, Step, ring, main
  <1>6. ASSUME NEW w \in Workers, Dequeue(w) PROVE MutexHeld'
    BY <1>6 DEF Dequeue, Step, main
  <1>7. CASE StopFlag \/ StopBroadcast \/ StopJoined
    BY <1>7 DEF StopFlag, StopBroadcast, StopJoined, ring, main, work
  <1>8. CASE UNCHANGED vars
    BY <1>8 DEF vars, ring, main, work
  <1> QED  BY <1>1, <1>2, <1>3, <1>4, <1>5, <1>6, <1>7, <1>8
           DEF Next, MainStep, WorkerLocks, WorkerStep

LEMMA OnceStep == IInv /\ [Next]_vars => QueuedOnce'
  <1> SUFFICES ASSUME IInv, [Next]_vars PROVE QueuedOnce'
    OBVIOUS
  <1>t. /\ queued \in Seq(Conns) /\ client_fd \in Conns \cup {Null} /\ Null \notin Conns
        /\ Len(queued) \in Nat /\ refused \subseteq Conns
        /\ acc \in {"lock", "locked"} <=> client_fd # Null
        /\ \A i \in 1..Len(queued) : queued[i] \in Conns
    BY QueueAssumption DEF IInv, Types
  <1>1. ASSUME NEW c \in Conns, Accept(c) PROVE QueuedOnce'
    <2>1. c \notin refused /\ \A i \in 1..Len(queued) : queued[i] # c
      BY <1>1, <1>t DEF Accept, Known
    <2> QED  BY <1>1, <2>1, <1>t DEF Accept, hist, IInv, QueuedOnce
  <1>2. CASE Enqueue
    <2>1. client_fd \in Conns /\ client_fd' = Null /\ refused' = refused
          /\ queued' = Append(queued, client_fd)
      BY <1>2, <1>t DEF Enqueue
    <2>2. /\ Len(queued') = Len(queued) + 1
          /\ queued'[Len(queued) + 1] = client_fd
          /\ \A i \in 1..Len(queued) : queued'[i] = queued[i]
      BY <2>1, <1>t
    <2>3. /\ \A i, j \in 1..Len(queued) : queued[i] = queued[j] => i = j
          /\ \A i \in 1..Len(queued) : queued[i] # client_fd /\ queued[i] \notin refused
          /\ client_fd \notin refused
      BY DEF IInv, QueuedOnce
    <2>4. \A i \in 1..Len(queued') : i = Len(queued) + 1 \/ i \in 1..Len(queued)
      BY <2>2, <1>t
    <2>5. \A i, j \in 1..Len(queued') : queued'[i] = queued'[j] => i = j
      BY <2>2, <2>3, <2>4
    <2>6. \A i \in 1..Len(queued') : queued'[i] # client_fd' /\ queued'[i] \notin refused'
      BY <2>1, <2>2, <2>3, <2>4, <1>t
    <2> QED  BY <2>1, <2>5, <2>6, <1>t DEF QueuedOnce
  <1>3. CASE Refuse
    BY <1>3, <1>t DEF Refuse, IInv, QueuedOnce
  <1>4. CASE UNCHANGED <<queued, refused, client_fd>>
    BY <1>4 DEF IInv, QueuedOnce
  <1>5. (\E c \in Conns : Accept(c)) \/ Enqueue \/ Refuse \/ UNCHANGED <<queued, refused, client_fd>>
    BY Zenon DEF Next, MainStep, WorkerLocks, WorkerStep, TestMain, LockMain, AcceptFails, Dequeue,
         FindNothing, GiveUp, TestWorker, Sleep, Handled, SpuriousWakeup,
         StopFlag, StopBroadcast, StopJoined, vars, hist, main
  <1> QED  BY <1>1, <1>2, <1>3, <1>4, <1>5

LEMMA HandledStep == IInv /\ [Next]_vars => HandledByOne'
  <1> SUFFICES ASSUME IInv, [Next]_vars PROVE HandledByOne'
    OBVIOUS
  <1>t. /\ queued \in Seq(Conns) /\ taken \in Seq(Conns) /\ queue_size \in 0..MaxConnections
        /\ fd \in [Workers -> Conns \cup {Null}] /\ Null \notin Conns
        /\ Len(queued) \in Nat /\ Len(taken) \in Nat /\ MaxConnections \in Nat
    BY QueueAssumption DEF IInv, Types
  <1>h. HandledByOne
    BY DEF IInv
  <1>1. ASSUME NEW w \in Workers, Dequeue(w) PROVE HandledByOne'
    <2> DEFINE c == queue[queue_head]
    <2>1. c \in Conns /\ c = queued[Len(taken) + 1]
      BY <1>1, HeadOfRing DEF Dequeue, IInv
    <2>2. fd' = [fd EXCEPT ![w] = c] /\ taken' = Append(taken, c) /\ queue_size > 0
      BY <1>1 DEF Dequeue
    <2>3. /\ Len(taken') = Len(taken) + 1
          /\ taken'[Len(taken) + 1] = c
          /\ \A i \in 1..Len(taken) : taken'[i] = taken[i]
      BY <1>t, <2>1, <2>2
    <2>4. Len(queued) = Len(taken) + queue_size /\ \A i \in 1..Len(taken) : queued[i] = taken[i]
      BY DEF IInv, RingHolds
    <2>5. Len(taken) + 1 \in 1..Len(queued)
      BY <2>4, <2>2, <1>t
    <2>6. \A i \in 1..Len(taken) : taken[i] # c
      <3>1. \A i \in 1..Len(taken) : i \in 1..Len(queued) /\ i # Len(taken) + 1
        BY <2>4, <1>t
      <3> QED  BY <3>1, <2>1, <2>4, <2>5 DEF IInv, QueuedOnce
    <2>7. \A v \in Workers : fd[v] # c
      BY <2>1, <2>6, <1>t, <1>h DEF HandledByOne
    <2>8. \A v \in Workers : fd'[v] # Null => \E i \in 1..Len(taken') : taken'[i] = fd'[v]
      <3> SUFFICES ASSUME NEW v \in Workers, fd'[v] # Null
                   PROVE  \E i \in 1..Len(taken') : taken'[i] = fd'[v]
        OBVIOUS
      <3>1. CASE v = w
        BY <3>1, <2>2, <2>3, <1>t
      <3>2. CASE v # w
        <4>1. fd'[v] = fd[v]
          BY <3>2, <2>2, <1>t
        <4>2. PICK i \in 1..Len(taken) : taken[i] = fd[v]
          BY <4>1, <1>h DEF HandledByOne
        <4>3. i \in 1..Len(taken') /\ taken'[i] = fd'[v]
          BY <4>1, <4>2, <2>3, <1>t
        <4> QED  BY <4>3
      <3> QED  BY <3>1, <3>2
    <2>9. \A v, u \in Workers : fd'[v] = fd'[u] /\ fd'[v] # Null => v = u
      BY <2>2, <2>7, <1>t, <1>h DEF HandledByOne
    <2> QED  BY <2>8, <2>9 DEF HandledByOne
  <1>2. ASSUME NEW w \in Workers, Handled(w) PROVE HandledByOne'
    BY <1>2, <1>t, <1>h DEF Handled, HandledByOne, hist
  <1>3. CASE UNCHANGED <<taken, fd>>
    BY <1>3, <1>h DEF HandledByOne
  <1>4. (\E w \in Workers : Dequeue(w) \/ Handled(w)) \/ UNCHANGED <<taken, fd>>
    BY Zenon DEF Next, MainStep, WorkerLocks, WorkerStep, TestMain, LockMain, AcceptFails, Accept,
         Enqueue, Refuse, FindNothing, GiveUp, TestWorker, Sleep, SpuriousWakeup,
         StopFlag, StopBroadcast, StopJoined, vars, hist, work
  <1> QED  BY <1>1, <1>2, <1>3, <1>4

\* Workers on their way to the mutex can be counted, and more of them count
\* for more.
LEMMA ComingCount ==
    /\ IsFiniteSet(Coming) /\ Cardinality(Coming) \in Nat
    /\ IsFiniteSet(Coming') /\ Cardinality(Coming') \in Nat
    /\ Coming \subseteq Coming' => Cardinality(Coming) <= Cardinality(Coming')
  <1>1. Coming \subseteq Workers /\ Coming' \subseteq Workers
    BY DEF Coming
  <1>2. IsFiniteSet(Coming) /\ IsFiniteSet(Coming')
    BY <1>1, QueueAssumption, FS_Subset
  <1>3. Cardinality(Coming) \in Nat /\ Cardinality(Coming') \in Nat
    BY <1>2, FS_CardinalityType
  <1>4. Coming \subseteq Coming' => Cardinality(Coming) <= Cardinality(Coming')
    BY <1>2, FS_Subset
  <1> QED  BY <1>2, <1>3, <1>4

LEMMA WakeupsStep == IInv /\ [Next]_vars => WakeupsCoverQueue'
  <1> SUFFICES ASSUME IInv, [Next]_vars, Sleepers' # {}
               PROVE  queue_size' <= Cardinality(Coming')
    BY DEF WakeupsCoverQueue
  <1>t. /\ wpc \in [Workers -> {"test", "lock", "to_sleep", "asleep", "handling", "exited"}]
        /\ queue_size \in Nat
    BY QueueAssumption DEF IInv, Types
  <1>c. Sleepers # {} => queue_size <= Cardinality(Coming)
    BY DEF IInv, WakeupsCoverQueue
  <1>m. /\ Sleepers' \subseteq Sleepers /\ Coming \subseteq Coming' /\ queue_size' = queue_size
        => queue_size' <= Cardinality(Coming')
    BY <1>t, <1>c, ComingCount
  <1>1. CASE Enqueue
    <2>1. Sleepers # {}
      BY <1>1 DEF Enqueue, Sleepers
    <2>2. PICK w \in Sleepers : wpc' = [wpc EXCEPT ![w] = "lock"]
      BY <1>1, <2>1 DEF Enqueue
    <2>3. w \in Workers /\ w \notin Coming /\ Coming' = Coming \cup {w}
      BY <2>2, <1>t DEF Sleepers, Coming
    <2>4. Cardinality(Coming') = Cardinality(Coming) + 1
      BY <2>3, ComingCount, FS_AddElement
    <2>5. queue_size' = queue_size + 1
      BY <1>1 DEF Enqueue
    <2> QED  BY <2>1, <2>4, <2>5, <1>t, <1>c, ComingCount
  <1>2. ASSUME NEW w \in Workers, Dequeue(w) PROVE queue_size' <= Cardinality(Coming')
    <2>1. wpc[w] = "lock" /\ wpc' = [wpc EXCEPT ![w] = "handling"] /\ queue_size' = queue_size - 1
      BY <1>2 DEF Dequeue, Step
    <2>2. w \in Coming /\ Coming' = Coming \ {w} /\ Sleepers' = Sleepers
      BY <2>1, <1>t DEF Coming, Sleepers
    <2>3. Cardinality(Coming') = Cardinality(Coming) - 1
      BY <2>2, ComingCount, FS_RemoveElement
    <2> QED  BY <2>1, <2>2, <2>3, <1>t, <1>c, ComingCount
  <1>3. ASSUME NEW w \in Workers, FindNothing(w) \/ GiveUp(w) PROVE queue_size' <= Cardinality(Coming')
    <2>1. queue_size' = 0
      BY <1>3 DEF FindNothing, GiveUp, ring
    <2> QED  BY <2>1, ComingCount
  <1>4. ASSUME NEW w \in Workers, Sleep(w) PROVE queue_size' <= Cardinality(Coming')
    <2>1. queue_size' = 0
      BY <1>4 DEF Sleep, ring, IInv, MutexHeld
    <2> QED  BY <2>1, ComingCount
  <1>5. ASSUME NEW w \in Workers, TestWorker(w) \/ Handled(w) \/ SpuriousWakeup(w)
        PROVE  queue_size' <= Cardinality(Coming')
    <2>1. Sleepers' \subseteq Sleepers /\ Coming \subseteq Coming' /\ queue_size' = queue_size
      BY <1>5, <1>t DEF TestWorker, Handled, SpuriousWakeup, Step, Sleepers, Coming, ring
    <2> QED  BY <2>1, <1>m
  <1>6. CASE StopBroadcast
    BY <1>6 DEF StopBroadcast, Sleepers
  <1>7. CASE UNCHANGED <<wpc, queue_size>>
    BY <1>7, <1>m DEF Sleepers, Coming
  <1>8. \/ Enqueue \/ StopBroadcast \/ UNCHANGED <<wpc, queue_size>>
        \/ \E w \in Workers : \/ Dequeue(w) \/ FindNothing(w) \/ GiveUp(w) \/ Sleep(w)
                              \/ TestWorker(w) \/ Handled(w) \/ SpuriousWakeup(w)
    BY Zenon DEF Next, MainStep, WorkerLocks, WorkerStep, TestMain, LockMain, AcceptFails, Accept,
         Refuse, StopFlag, StopJoined, vars, work, ring
  <1> QED  BY <1>1, <1>2, <1>3, <1>4, <1>5, <1>6, <1>7, <1>8

(***************************************************************************)
(* The theorems.                                                           *)
(***************************************************************************)
\* Every reachable state satisfies the invariant.
THEOREM QueueInvariant == Spec => []IInv
  <1>1. IInv /\ [Next]_vars => IInv'
    BY TypesStep, RingStep, MutexStep, WakeupsStep, OnceStep, HandledStep DEF IInv
  <1> QED  BY InitIInv, <1>1, PTL DEF Spec

\* enqueue_client and the take in worker_thread keep a FIFO across any
\* number of wrap-arounds: nothing is lost, duplicated or overwritten.
THEOREM QueueIsFifo == Spec => []RingIsFifo
  <1>1. IInv => RingIsFifo
    <2> SUFFICES ASSUME IInv PROVE RingIsFifo
      OBVIOUS
    <2>t. /\ queued \in Seq(Conns) /\ taken \in Seq(Conns) /\ queue_size \in Nat
          /\ Len(queued) \in Nat /\ Len(taken) \in Nat
      BY QueueAssumption DEF IInv, Types
    <2>r. /\ Len(queued) = Len(taken) + queue_size
          /\ \A i \in 1..Len(taken) : queued[i] = taken[i]
          /\ \A i \in 0..(queue_size - 1) :
                queued[Len(taken) + i + 1] = queue[(queue_head + i) % MaxConnections]
          /\ queue_tail = (queue_head + queue_size) % MaxConnections
      BY DEF IInv, RingHolds
    <2>1. ASSUME NEW i \in 1..queue_size
          PROVE  InRing[i] = queued[Len(taken) + i] /\ InRing[i] \in Conns
      <3>1. i - 1 \in 0..(queue_size - 1) /\ Len(taken) + i \in 1..Len(queued)
        BY <2>t, <2>r
      <3>2. queued[Len(taken) + (i - 1) + 1] = queue[(queue_head + (i - 1)) % MaxConnections]
        BY <3>1, <2>r
      <3>3. queue_head + (i - 1) = queue_head + i - 1 /\ Len(taken) + (i - 1) + 1 = Len(taken) + i
        BY <2>t, QueueAssumption DEF IInv, Types
      <3>4. InRing[i] = queue[(queue_head + i - 1) % MaxConnections]
        BY DEF InRing
      <3> QED  BY <3>1, <3>2, <3>3, <3>4, <2>t
    <2>2. InRing \in [1..queue_size -> Conns]
      BY <2>1 DEF InRing
    <2>3. InRing \in Seq(Conns) /\ Len(InRing) = queue_size
      BY <2>2, <2>t
    <2>l. Len(queued) = Len(taken) + queue_size
      BY <2>r
    <2>4. taken \o InRing \in Seq(Conns) /\ Len(taken \o InRing) = Len(queued)
      BY <2>3, <2>t, <2>l, ConcatProperties
    <2>5. ASSUME NEW i \in 1..Len(queued) PROVE (taken \o InRing)[i] = queued[i]
      <3>1. CASE i <= Len(taken)
        BY <3>1, <2>3, <2>t, <2>r
      <3>2. CASE i > Len(taken)
        <4>1. i - Len(taken) \in 1..queue_size
          BY <3>2, <2>t, <2>l
        <4>2. (taken \o InRing)[i] = InRing[i - Len(taken)]
          BY <3>2, <2>3, <2>t, <2>l
        <4>3. InRing[i - Len(taken)] = queued[Len(taken) + (i - Len(taken))]
          BY <4>1, <2>1
        <4>4. Len(taken) + (i - Len(taken)) = i
          BY <2>t
        <4> QED  BY <4>2, <4>3, <4>4
      <3>3. i <= Len(taken) \/ i > Len(taken)
        BY <2>t
      <3> QED  BY <3>1, <3>2, <3>3
    <2>6. queued = taken \o InRing
      BY <2>4, <2>5, <2>t, SeqEqual
    <2> QED  BY <2>6, <2>r DEF RingIsFifo
  <1> QED  BY QueueInvariant, <1>1, PTL

\* pthread_cond_signal after each enqueue is enough: no connection waits in
\* the ring with every worker that could take it asleep.
THEOREM QueueLosesNoWakeup == Spec => []WakeupsCoverQueue
  <1>1. IInv => WakeupsCoverQueue
    BY DEF IInv
  <1> QED  BY QueueInvariant, <1>1, PTL

\* A connection is never handled by two workers at once, and only after it
\* went through the queue.
THEOREM OneHandlerEach == Spec => []HandledByOne
  <1>1. IInv => HandledByOne
    BY DEF IInv
  <1> QED  BY QueueInvariant, <1>1, PTL
=============================================================================
