-------------------------- MODULE ThreadPoolProofs --------------------------
(***************************************************************************)
(* Proofs about the thread pool for any number of workers, callers and     *)
(* tasks, any queue capacity, and any choice of the failure switches.      *)
(***************************************************************************)
EXTENDS ThreadPool, FiniteSetTheorems, TLAPS

(***************************************************************************)
(* Facts about sequences.                                                  *)
(***************************************************************************)
\* Moving the head of t to the end of s does not change s \o t: what
\* worker_thread does to the history when it unlinks the head.
LEMMA MoveHead ==
    ASSUME NEW S, NEW s \in Seq(S), NEW t \in Seq(S), t # <<>>
    PROVE  /\ Append(s, Head(t)) \o Tail(t) = s \o t
           /\ Append(s, Head(t)) \in Seq(S)
           /\ Tail(t) \in Seq(S)
           /\ Head(t) \in S
           /\ Len(Tail(t)) = Len(t) - 1
           /\ (s \o t)[Len(s) + 1] = Head(t)
  OBVIOUS

\* Appending to the second part appends to the whole.
LEMMA AppendRight ==
    \A s, t \in Seq(Tasks) : \A e \in Tasks : Append(s \o t, e) = s \o Append(t, e)
  OBVIOUS

\* The elements of a sequence after an append.
LEMMA RangeAppend ==
    ASSUME NEW S, NEW s \in Seq(S), NEW e \in S
    PROVE  RangeOf(Append(s, e)) = RangeOf(s) \cup {e}
  <1>1. Len(s) + 1 \in DOMAIN Append(s, e) /\ Append(s, e)[Len(s) + 1] = e
    OBVIOUS
  <1>2. \A i \in DOMAIN s : i \in DOMAIN Append(s, e) /\ Append(s, e)[i] = s[i]
    OBVIOUS
  <1>3. \A i \in DOMAIN Append(s, e) : i \in DOMAIN s \/ i = Len(s) + 1
    OBVIOUS
  <1> QED  BY <1>1, <1>2, <1>3, Zenon DEF RangeOf

\* The last element of a tail is the last element of the sequence.
LEMMA LastOfTail ==
    ASSUME NEW S, NEW s \in Seq(S), s # <<>>, Tail(s) # <<>>
    PROVE  Tail(s)[Len(Tail(s))] = s[Len(s)]
  OBVIOUS

\* A sequence of length zero is empty.
LEMMA LengthZero ==
    ASSUME NEW S, NEW s \in Seq(S), Len(s) = 0
    PROVE  s = <<>>
  OBVIOUS

(***************************************************************************)
(* Condition variables: a signal or a broadcast only turns sleepers into   *)
(* woken threads.                                                          *)
(***************************************************************************)
LEMMA WorkersSignalled ==
    ASSUME wpc \in [Workers -> WorkerStates], NEW woken \in Signalled(wpc)
    PROVE  /\ woken \in [Workers -> WorkerStates]
           /\ \A x \in Workers : \/ woken[x] = wpc[x]
                                 \/ wpc[x] = "asleep" /\ woken[x] = "woken"
  <1>1. CASE Sleepers(wpc) = {}
    BY <1>1 DEF Signalled
  <1>2. CASE Sleepers(wpc) # {}
    <2>1. PICK x \in Sleepers(wpc) : woken = [wpc EXCEPT ![x] = "woken"]
      BY <1>2 DEF Signalled
    <2>2. x \in Workers /\ wpc[x] = "asleep"
      BY DEF Sleepers
    <2> QED  BY <2>1, <2>2 DEF WorkerStates
  <1> QED  BY <1>1, <1>2

LEMMA WorkersBroadcast ==
    ASSUME wpc \in [Workers -> WorkerStates]
    PROVE  /\ Broadcast(wpc) \in [Workers -> WorkerStates]
           /\ \A x \in Workers : Broadcast(wpc)[x] =
                IF wpc[x] = "asleep" THEN "woken" ELSE wpc[x]
  BY DEF Broadcast, WorkerStates

LEMMA CallersSignalled ==
    ASSUME ppc \in [Producers -> ProducerStates], NEW woken \in Signalled(ppc)
    PROVE  /\ woken \in [Producers -> ProducerStates]
           /\ \A x \in Producers : \/ woken[x] = ppc[x]
                                   \/ ppc[x] = "asleep" /\ woken[x] = "woken"
  <1>1. CASE Sleepers(ppc) = {}
    BY <1>1 DEF Signalled
  <1>2. CASE Sleepers(ppc) # {}
    <2>1. PICK x \in Sleepers(ppc) : woken = [ppc EXCEPT ![x] = "woken"]
      BY <1>2 DEF Signalled
    <2>2. x \in Producers /\ ppc[x] = "asleep"
      BY DEF Sleepers
    <2> QED  BY <2>1, <2>2 DEF ProducerStates
  <1> QED  BY <1>1, <1>2

LEMMA CallersBroadcast ==
    ASSUME ppc \in [Producers -> ProducerStates]
    PROVE  /\ Broadcast(ppc) \in [Producers -> ProducerStates]
           /\ \A x \in Producers : Broadcast(ppc)[x] =
                IF ppc[x] = "asleep" THEN "woken" ELSE ppc[x]
  BY DEF Broadcast, ProducerStates

(***************************************************************************)
(* TypeOK, ListShape and LockHeld are preserved.                           *)
(***************************************************************************)
LEMMA TypeStep == IInv /\ [Next]_vars => TypeOK'
  <1> SUFFICES ASSUME IInv, [Next]_vars PROVE TypeOK'
    OBVIOUS
  <1> USE PoolAssumption
  <1>t. TypeOK /\ ListShape /\ Fresh
    BY DEF IInv
  <1>1. CASE OwnerStep
    <2>b. /\ Broadcast(wpc) \in [Workers -> WorkerStates]
          /\ Broadcast(ppc) \in [Producers -> ProducerStates]
      BY <1>t, WorkersBroadcast, CallersBroadcast DEF TypeOK
    <2>1. CASE CreateNothing \/ SpawnFailed \/ UnwindBroadcast \/ UnwindJoined
      BY <1>t, <2>b, <2>1 DEF TypeOK, CreateNothing, SpawnFailed, UnwindBroadcast,
         UnwindJoined, OwnerStates, pool, hist
    <2>2. ASSUME NEW w \in Workers, Spawn(w) PROVE TypeOK'
      BY <1>t, <2>2 DEF TypeOK, Spawn, OwnerStates, WorkerStates, pool, hist
    <2>3. CASE DestroySignal
      BY <1>t, <2>b, <2>3 DEF TypeOK, DestroySignal, OwnerStates, pool, hist
    <2>4. CASE DestroyFree
      <3>1. queue' \in Seq(Tasks)
        BY <2>4 DEF DestroyFree
      <3> QED  BY <1>t, <2>4, <3>1 DEF TypeOK, DestroyFree, OwnerStates, pool, hist
    <2> QED  BY <1>1, <2>1, <2>2, <2>3, <2>4 DEF OwnerStep
  <1>2. ASSUME NEW w \in Workers, WorkerLocks(w) \/ Sleep(w) \/ RunTask(w) \/ WorkerWakes(w)
        PROVE  TypeOK'
    <2>1. CASE FindNothing(w) \/ Sleep(w) \/ WorkerExit(w) \/ WorkerWakes(w)
      BY <1>t, <2>1 DEF TypeOK, FindNothing, Sleep, WorkerExit, WorkerWakes, WorkerStates, pool, hist
    <2>2. CASE RunTask(w)
      BY <1>t, <2>2 DEF TypeOK, Fresh, RunTask, WorkerStates, pool
    <2>3. CASE TakeTask(w)
      <3>1. queue # <<>>
        BY <1>t, <2>3 DEF TypeOK, ListShape, TakeTask
      <3>2. /\ queue' \in Seq(Tasks) /\ started' \in Seq(Tasks)
            /\ Head(queue) \in Tasks
        <4>1. queue' = Tail(queue) /\ started' = Append(started, Head(queue))
          BY <2>3, <3>1 DEF TakeTask, Unlink
        <4>2. queue \in Seq(Tasks) /\ started \in Seq(Tasks)
          BY <1>t DEF TypeOK
        <4> QED  BY <3>1, <4>1, <4>2
      <3>4. task_tail' \in Tasks \cup {Null} /\ task_count' \in 0..MaxTasks
        BY <1>t, <2>3, <3>1 DEF TypeOK, TakeTask, Unlink
      <3>3. ppc' \in [Producers -> ProducerStates]
        BY <1>t, <2>3, CallersSignalled DEF TypeOK, TakeTask
      <3> QED  BY <1>t, <2>3, <3>1, <3>2, <3>3, <3>4 DEF TypeOK, TakeTask, WorkerStates
    <2> QED  BY <1>2, <2>1, <2>2, <2>3 DEF WorkerLocks
  <1>3. ASSUME NEW p \in Producers, AddLocks(p) \/ ProducerWakes(p) PROVE TypeOK'
    <2>1. CASE AddRefused(p) \/ AddWaits(p) \/ AddNoMemory(p) \/ ProducerWakes(p)
      BY <1>t, <2>1 DEF TypeOK, AddRefused, AddWaits, AddNoMemory, ProducerWakes, Return,
         ProducerStates, pool, hist
    <2>2. CASE AddTask(p)
      <3>1. arg[p] \in Tasks
        BY <1>t, <2>2 DEF TypeOK, Fresh, AddTask, Acquiring
      <3>2. /\ queue' \in Seq(Tasks) /\ task_tail' \in Tasks
            /\ task_count' \in 0..MaxTasks /\ accepted' \in Seq(Tasks)
        BY <1>t, <2>2, <3>1 DEF TypeOK, AddTask, LinkLast
      <3>3. wpc' \in [Workers -> WorkerStates]
        BY <1>t, <2>2, WorkersSignalled DEF TypeOK, AddTask
      <3> QED  BY <1>t, <2>2, <3>2, <3>3 DEF TypeOK, AddTask, Return, ProducerStates
    <2> QED  BY <1>3, <2>1, <2>2 DEF AddLocks
  <1>4. ASSUME NEW p \in Producers, NEW t \in Tasks, CallAdd(p, t) PROVE TypeOK'
    BY <1>t, <1>4 DEF TypeOK, CallAdd, ProducerStates, pool, hist
  <1>5. CASE UNCHANGED vars
    BY <1>t, <1>5 DEF TypeOK, vars, pool, hist
  <1> QED  BY <1>1, <1>2, <1>3, <1>4, <1>5 DEF Next

\* What unlinking the head does, given that the list is well formed.
LEMMA TakeFacts ==
    ASSUME TypeOK, ListShape, NEW w \in Workers, TakeTask(w)
    PROVE  /\ queue # <<>>
           /\ queue' = Tail(queue)
           /\ started' = Append(started, Head(queue))
           /\ task_count' = task_count - 1
           /\ task_tail' = IF Tail(queue) = <<>> THEN Null ELSE task_tail
           /\ wpc' = [wpc EXCEPT ![w] = "running"]
           /\ task' = [task EXCEPT ![w] = Head(queue)]
           /\ Head(queue) \in Tasks
  <1>1. queue # <<>>
    BY DEF TypeOK, ListShape, TakeTask
  <1> QED  BY <1>1 DEF TypeOK, TakeTask, Unlink

\* What linking a task last does, given that the list is well formed.
LEMMA AddFacts ==
    ASSUME TypeOK, ListShape, Fresh, NEW p \in Producers, AddTask(p)
    PROVE  /\ arg[p] \in Tasks
           /\ queue' = Append(queue, arg[p])
           /\ accepted' = Append(accepted, arg[p])
           /\ task_tail' = arg[p]
           /\ task_count' = task_count + 1
  <1>1. arg[p] \in Tasks
    BY DEF TypeOK, Fresh, AddTask, Acquiring
  <1>2. queue' = Append(queue, arg[p])
    <2>1. CASE queue = <<>>
      BY <2>1, <1>1 DEF ListShape, AddTask, LinkLast
    <2>2. CASE queue # <<>>
      <3>1. queue[Len(queue)] \in Tasks
        BY <2>2 DEF TypeOK
      <3> QED  BY <2>2, <3>1, PoolAssumption DEF ListShape, AddTask, LinkLast
    <2> QED  BY <2>1, <2>2
  <1> QED  BY <1>1, <1>2 DEF AddTask, LinkLast

LEMMA ListStep == IInv /\ [Next]_vars => ListShape'
  <1> SUFFICES ASSUME IInv, [Next]_vars PROVE ListShape'
    OBVIOUS
  <1>t. TypeOK /\ ListShape /\ Fresh /\ ExitDrained
    BY DEF IInv
  <1>1. ASSUME NEW w \in Workers, TakeTask(w) PROVE ListShape'
    <2>1. task_count' = Len(queue')
      BY <1>t, <1>1, TakeFacts DEF TypeOK, ListShape
    <2>2. CASE Tail(queue) = <<>>
      BY <1>t, <1>1, <2>1, <2>2, TakeFacts DEF ListShape
    <2>3. CASE Tail(queue) # <<>>
      <3>1. Tail(queue)[Len(Tail(queue))] = queue[Len(queue)]
        BY <1>t, <1>1, <2>3, TakeFacts, LastOfTail DEF TypeOK
      <3> QED  BY <1>t, <1>1, <2>1, <2>3, <3>1, TakeFacts DEF ListShape
    <2> QED  BY <2>2, <2>3
  <1>2. ASSUME NEW p \in Producers, AddTask(p) PROVE ListShape'
    BY <1>t, <1>2, AddFacts DEF TypeOK, ListShape
  <1>3. CASE DestroyFree
    <2>1. task_count = 0
      BY <1>t, <1>3, PoolAssumption DEF ExitDrained, DestroyFree
    <2>2. queue = <<>>
      BY <1>t, <2>1, LengthZero DEF TypeOK, ListShape
    <2> QED  BY <1>t, <1>3, <2>2 DEF ListShape, DestroyFree
  <1>4. CASE UNCHANGED <<queue, task_tail, task_count>>
    BY <1>t, <1>4 DEF ListShape
  <1> QED
    BY <1>1, <1>2, <1>3, <1>4 DEF Next, OwnerStep, WorkerLocks, AddLocks, CreateNothing,
       Spawn, SpawnFailed, UnwindBroadcast, UnwindJoined, DestroySignal, FindNothing,
       Sleep, WorkerExit, RunTask, WorkerWakes, CallAdd, AddRefused, AddWaits,
       AddNoMemory, ProducerWakes, vars, pool, hist

LEMMA LockStep == IInv /\ [Next]_vars => LockHeld'
  <1> SUFFICES ASSUME IInv, [Next]_vars PROVE LockHeld'
    OBVIOUS
  <1> USE PoolAssumption
  <1>t. TypeOK /\ ListShape /\ Fresh /\ LockHeld
    BY DEF IInv
  <1>1. ASSUME NEW w \in Workers, TakeTask(w) PROVE LockHeld'
    BY <1>t, <1>1, TakeFacts DEF TypeOK, LockHeld, TakeTask, Acquiring
  <1>2. ASSUME NEW p \in Producers, AddTask(p) PROVE LockHeld'
    <2>1. \A v \in Workers : wpc[v] # "to_sleep" /\ wpc'[v] # "to_sleep" /\ lock' # v
      BY <1>t, <1>2, WorkersSignalled DEF TypeOK, LockHeld, AddTask
    <2> QED  BY <2>1 DEF LockHeld
  <1>3. CASE DestroySignal \/ UnwindBroadcast
    <2>1. \A v \in Workers : wpc'[v] = "to_sleep" <=> wpc[v] = "to_sleep"
      BY <1>t, <1>3, WorkersBroadcast DEF TypeOK, DestroySignal, UnwindBroadcast
    <2> QED  BY <1>t, <1>3, <2>1 DEF LockHeld, DestroySignal, UnwindBroadcast, pool
  <1>4. ASSUME NEW w \in Workers,
               FindNothing(w) \/ Sleep(w) \/ WorkerExit(w) \/ RunTask(w) \/ WorkerWakes(w)
                 \/ Spawn(w)
        PROVE  LockHeld'
    BY <1>t, <1>4 DEF TypeOK, LockHeld, FindNothing, Sleep, WorkerExit, RunTask,
       WorkerWakes, Spawn, Acquiring, pool
  <1>5. CASE UNCHANGED <<wpc, lock, task_count>>
    BY <1>t, <1>5 DEF LockHeld
  <1> QED
    BY <1>1, <1>2, <1>3, <1>4, <1>5 DEF Next, OwnerStep, WorkerLocks, AddLocks,
       CreateNothing, SpawnFailed, UnwindJoined, DestroyFree, CallAdd, AddRefused,
       AddWaits, AddNoMemory, ProducerWakes, vars, pool, hist

LEMMA ExitStep == IInv /\ [Next]_vars => ExitDrained'
  <1> SUFFICES ASSUME IInv, [Next]_vars PROVE ExitDrained'
    OBVIOUS
  <1> USE PoolAssumption
  <1>t. TypeOK /\ ListShape /\ Fresh /\ ExitDrained
    BY DEF IInv
  <1>1. ASSUME NEW w \in Workers, TakeTask(w) PROVE ExitDrained'
    BY <1>t, <1>1, TakeFacts DEF TypeOK, ExitDrained, TakeTask, Acquiring
  <1>2. ASSUME NEW p \in Producers, AddTask(p) PROVE ExitDrained'
    <2>1. \A v \in Workers : /\ wpc'[v] = "exited" <=> wpc[v] = "exited"
                             /\ wpc'[v] = "unborn" <=> wpc[v] = "unborn"
      BY <1>t, <1>2, WorkersSignalled DEF TypeOK, AddTask
    <2> QED  BY <1>t, <1>2, <2>1 DEF ExitDrained, AddTask
  <1>3. CASE DestroySignal \/ UnwindBroadcast
    <2>1. \A v \in Workers : /\ wpc'[v] = "exited" <=> wpc[v] = "exited"
                             /\ wpc'[v] = "unborn" <=> wpc[v] = "unborn"
      BY <1>t, <1>3, WorkersBroadcast DEF TypeOK, DestroySignal, UnwindBroadcast
    <2> QED  BY <1>t, <1>3, <2>1 DEF ExitDrained, DestroySignal, UnwindBroadcast, pool
  <1>4. ASSUME NEW w \in Workers,
               FindNothing(w) \/ Sleep(w) \/ WorkerExit(w) \/ RunTask(w) \/ WorkerWakes(w)
        PROVE  ExitDrained'
    BY <1>t, <1>4 DEF TypeOK, ExitDrained, FindNothing, Sleep, WorkerExit, RunTask,
       WorkerWakes, Acquiring, pool
  <1>5. ASSUME NEW w \in Workers, Spawn(w) PROVE ExitDrained'
    BY <1>t, <1>5 DEF TypeOK, ExitDrained, Spawn, pool
  <1>6. CASE CreateNothing \/ SpawnFailed \/ UnwindJoined \/ DestroyFree
    BY <1>t, <1>6 DEF TypeOK, ExitDrained, CreateNothing, SpawnFailed, UnwindJoined,
       DestroyFree, pool
  <1>7. CASE UNCHANGED <<wpc, owner, shutdown, task_count>>
    BY <1>t, <1>7 DEF ExitDrained
  <1> QED
    BY <1>1, <1>2, <1>3, <1>4, <1>5, <1>6, <1>7 DEF Next, OwnerStep, WorkerLocks,
       AddLocks, CallAdd, AddRefused, AddWaits, AddNoMemory, ProducerWakes, vars, pool

LEMMA FreshStep == IInv /\ [Next]_vars => Fresh'
  <1> SUFFICES ASSUME IInv, [Next]_vars PROVE Fresh'
    OBVIOUS
  <1> USE PoolAssumption
  <1>t. TypeOK /\ ListShape /\ Fresh
    BY DEF IInv
  <1>n. Null \notin RangeOf(accepted)
    BY <1>t DEF TypeOK, RangeOf
  <1>1. ASSUME NEW w \in Workers, TakeTask(w) PROVE Fresh'
    <2>1. \A q \in Producers : ppc'[q] = "out" <=> ppc[q] = "out"
      BY <1>t, <1>1, CallersSignalled DEF TypeOK, TakeTask
    <2>2. \A v \in Workers : IF wpc'[v] = "running" THEN task'[v] \in Tasks ELSE task'[v] = Null
      BY <1>t, <1>1, TakeFacts DEF TypeOK, Fresh
    <2> QED  BY <1>t, <1>1, <2>1, <2>2 DEF Fresh, TakeTask, RangeOf
  <1>2. ASSUME NEW p \in Producers, AddTask(p) PROVE Fresh'
    <2>1. /\ accepted' = Append(accepted, arg[p]) /\ arg[p] \in Tasks
          /\ accepted \in Seq(Tasks)
      BY <1>t, <1>2, AddFacts DEF TypeOK
    <2>2. RangeOf(accepted') = RangeOf(accepted) \cup {arg[p]}
      BY <2>1, RangeAppend
    <2>3. \A i, j \in DOMAIN accepted' : accepted'[i] = accepted'[j] => i = j
      BY <1>t, <2>1 DEF Fresh, RangeOf
    <2>4. \A v \in Workers : /\ wpc'[v] = "running" <=> wpc[v] = "running"
                             /\ task'[v] = task[v]
      BY <1>t, <1>2, WorkersSignalled DEF TypeOK, AddTask
    <2>5. \A q \in Producers : /\ ppc'[q] = "out" <=> arg'[q] = Null
                               /\ arg'[q] = IF q = p THEN Null ELSE arg[q]
      BY <1>t, <1>2 DEF TypeOK, Fresh, AddTask, Return
    <2>6. \A q \in Producers : arg'[q] \notin RangeOf(accepted')
      BY <1>t, <1>n, <2>1, <2>2, <2>5 DEF Fresh
    <2>7. \A q, r \in Producers : (arg'[q] = arg'[r] /\ arg'[q] # Null) => q = r
      BY <1>t, <2>5 DEF Fresh
    <2>8. RangeOf(accepted)' = RangeOf(accepted')
      BY DEF RangeOf
    <2> QED  BY <1>t, <2>3, <2>4, <2>5, <2>6, <2>7, <2>8 DEF Fresh
  <1>3. CASE DestroySignal
    <2>1. \A q \in Producers : ppc'[q] = "out" <=> ppc[q] = "out"
      BY <1>t, <1>3, CallersBroadcast DEF TypeOK, DestroySignal
    <2>2. \A v \in Workers : wpc'[v] = "running" <=> wpc[v] = "running"
      BY <1>t, <1>3, WorkersBroadcast DEF TypeOK, DestroySignal
    <2>3. accepted' = accepted /\ arg' = arg /\ task' = task
      BY <1>3 DEF DestroySignal, hist
    <2>4. RangeOf(accepted)' = RangeOf(accepted)
      BY <2>3 DEF RangeOf
    <2> QED  BY <1>t, <2>1, <2>2, <2>3, <2>4 DEF Fresh
  <1>4. CASE UnwindBroadcast
    <2>1. \A v \in Workers : wpc'[v] = "running" <=> wpc[v] = "running"
      BY <1>t, <1>4, WorkersBroadcast DEF TypeOK, UnwindBroadcast
    <2>2. accepted' = accepted /\ arg' = arg /\ task' = task /\ ppc' = ppc
      BY <1>4 DEF UnwindBroadcast, hist
    <2>3. RangeOf(accepted)' = RangeOf(accepted)
      BY <2>2 DEF RangeOf
    <2> QED  BY <1>t, <2>1, <2>2, <2>3 DEF Fresh
  <1>5. ASSUME NEW p \in Producers, NEW t \in Tasks, CallAdd(p, t) PROVE Fresh'
    <2>1. \A q \in Producers : arg[q] # t
      BY <1>5 DEF CallAdd, Submitted
    <2>2. t \notin RangeOf(accepted)
      BY <1>5 DEF CallAdd, Submitted, RangeOf
    <2>3. \A q \in Producers : /\ ppc'[q] = "out" <=> arg'[q] = Null
                               /\ arg'[q] = IF q = p THEN t ELSE arg[q]
      BY <1>t, <1>5 DEF TypeOK, Fresh, CallAdd
    <2>4. RangeOf(accepted)' = RangeOf(accepted)
      BY <1>5 DEF CallAdd, hist, RangeOf
    <2> QED  BY <1>t, <1>5, <2>1, <2>2, <2>3, <2>4 DEF Fresh, CallAdd, hist
  <1>6. ASSUME NEW p \in Producers,
               AddRefused(p) \/ AddWaits(p) \/ AddNoMemory(p) \/ ProducerWakes(p)
        PROVE  Fresh'
    <2>1. \A q \in Producers : /\ ppc'[q] = "out" <=> arg'[q] = Null
                               /\ arg'[q] \in {Null, arg[q]}
      BY <1>t, <1>6 DEF TypeOK, Fresh, AddRefused, AddWaits, AddNoMemory, ProducerWakes,
         Return, Acquiring
    <2>2. UNCHANGED <<accepted, wpc, task>>
      BY <1>6 DEF AddRefused, AddWaits, AddNoMemory, ProducerWakes, hist
    <2>3. RangeOf(accepted)' = RangeOf(accepted)
      BY <2>2 DEF RangeOf
    <2> QED  BY <1>t, <1>n, <2>1, <2>2, <2>3 DEF Fresh
  <1>7. ASSUME NEW w \in Workers,
               FindNothing(w) \/ Sleep(w) \/ WorkerExit(w) \/ RunTask(w) \/ WorkerWakes(w)
                 \/ Spawn(w)
        PROVE  Fresh'
    <2>1. UNCHANGED <<accepted, ppc, arg>>
      BY <1>7 DEF FindNothing, Sleep, WorkerExit, RunTask, WorkerWakes, Spawn, hist
    <2>2. \A v \in Workers : IF wpc'[v] = "running" THEN task'[v] \in Tasks ELSE task'[v] = Null
      <3>1. CASE RunTask(w)
        BY <1>t, <3>1 DEF TypeOK, Fresh, RunTask
      <3>2. CASE ~RunTask(w)
        BY <1>t, <1>7, <3>2 DEF TypeOK, Fresh, FindNothing, Sleep, WorkerExit, WorkerWakes,
           Spawn, Acquiring
      <3> QED  BY <3>1, <3>2
    <2>3. RangeOf(accepted)' = RangeOf(accepted)
      BY <2>1 DEF RangeOf
    <2> QED  BY <1>t, <2>1, <2>2, <2>3 DEF Fresh
  <1>8. CASE UNCHANGED <<accepted, ppc, arg, wpc, task>>
    BY <1>t, <1>8 DEF Fresh, RangeOf
  <1> QED
    BY <1>1, <1>2, <1>3, <1>4, <1>5, <1>6, <1>7, <1>8 DEF Next, OwnerStep, WorkerLocks,
       AddLocks, CreateNothing, SpawnFailed, UnwindJoined, DestroyFree, vars, hist

(***************************************************************************)
(* The accounting of tasks is preserved.                                   *)
(***************************************************************************)
\* Only TakeTask and RunTask change which tasks are in a worker's hands.
LEMMA InHandStep ==
    ASSUME IInv, [Next]_vars,
           \A w \in Workers : ~TakeTask(w) /\ ~RunTask(w)
    PROVE  /\ InHand' = InHand
           /\ \A v \in Workers : /\ wpc'[v] = "running" <=> wpc[v] = "running"
                                 /\ task'[v] = task[v]
           /\ UNCHANGED <<started, finished, task>>
  <1>t. TypeOK
    BY DEF IInv
  <1>1. UNCHANGED <<started, finished, task>>
    BY DEF Next, OwnerStep, WorkerLocks, AddLocks, CreateNothing, Spawn, SpawnFailed,
       UnwindBroadcast, UnwindJoined, DestroySignal, DestroyFree, FindNothing, Sleep,
       WorkerExit, WorkerWakes, CallAdd, AddRefused, AddWaits, AddNoMemory, AddTask,
       ProducerWakes, vars, hist
  <1>2. \A v \in Workers : wpc'[v] = "running" <=> wpc[v] = "running"
    <2>1. CASE DestroySignal \/ UnwindBroadcast
      BY <1>t, <2>1, WorkersBroadcast DEF TypeOK, DestroySignal, UnwindBroadcast
    <2>2. ASSUME NEW p \in Producers, AddTask(p)
          PROVE  \A v \in Workers : wpc'[v] = "running" <=> wpc[v] = "running"
      BY <1>t, <2>2, WorkersSignalled DEF TypeOK, AddTask
    <2>3. ASSUME NEW w \in Workers,
                 FindNothing(w) \/ Sleep(w) \/ WorkerExit(w) \/ WorkerWakes(w) \/ Spawn(w)
          PROVE  \A v \in Workers : wpc'[v] = "running" <=> wpc[v] = "running"
      BY <1>t, <2>3 DEF TypeOK, FindNothing, Sleep, WorkerExit, WorkerWakes, Spawn, Acquiring
    <2>4. CASE UNCHANGED wpc
      BY <2>4
    <2> QED
      BY <2>1, <2>2, <2>3, <2>4 DEF Next, OwnerStep, WorkerLocks, AddLocks, CreateNothing,
         SpawnFailed, UnwindJoined, DestroyFree, CallAdd, AddRefused, AddWaits,
         AddNoMemory, ProducerWakes, vars
  <1>3. InHand' = InHand
    BY <1>1, <1>2 DEF InHand
  <1> QED  BY <1>1, <1>2, <1>3

LEMMA TakeOnce ==
    ASSUME IInv, NEW w \in Workers, TakeTask(w)
    PROVE  /\ ExactlyOnceInOrder'
           /\ InHand' = InHand \cup {Head(queue)}
  <1> DEFINE h == Head(queue)
  <1>t. TypeOK /\ ListShape /\ ExactlyOnceInOrder /\ Fresh
    BY DEF IInv
  <1>f. /\ queue # <<>> /\ queue' = Tail(queue) /\ started' = Append(started, h)
        /\ wpc' = [wpc EXCEPT ![w] = "running"] /\ task' = [task EXCEPT ![w] = h]
        /\ h \in Tasks
    BY <1>t, TakeFacts
  <1>s. queue \in Seq(Tasks) /\ started \in Seq(Tasks) /\ accepted \in Seq(Tasks)
    BY <1>t DEF TypeOK
  <1>u. /\ accepted' = accepted /\ finished' = finished
        /\ wpc[w] # "running"
    BY DEF TakeTask, Acquiring
  <1>a. accepted = started \o queue
    BY <1>t DEF ExactlyOnceInOrder
  <1>1. accepted' = started' \o queue'
    BY <1>f, <1>s, <1>u, <1>a, MoveHead
  <1>2. h \notin RangeOf(started)
    <2>1. accepted[Len(started) + 1] = h /\ Len(started) + 1 \in DOMAIN accepted
      BY <1>a, <1>s, <1>f
    <2>2. \A i \in DOMAIN started : i \in DOMAIN accepted /\ accepted[i] = started[i]
                                    /\ i # Len(started) + 1
      BY <1>a, <1>s
    <2> QED  BY <1>t, <2>1, <2>2 DEF Fresh, RangeOf
  <1>3. \A v \in Workers : /\ wpc'[v] = IF v = w THEN "running" ELSE wpc[v]
                           /\ task'[v] = IF v = w THEN h ELSE task[v]
    BY <1>t, <1>f DEF TypeOK
  <1>4. InHand' = InHand \cup {h}
    BY <1>3, <1>u DEF InHand
  <1>5. RangeOf(started') = RangeOf(started) \cup {h}
    BY <1>f, <1>s, RangeAppend
  <1>6. RangeOf(started)' = RangeOf(started')
    BY DEF RangeOf
  <1>7. RangeOf(started)' = (finished \cup InHand)'
    BY <1>t, <1>4, <1>5, <1>6, <1>u DEF ExactlyOnceInOrder
  <1>8. (finished \cap InHand = {})'
    BY <1>t, <1>2, <1>4, <1>u DEF ExactlyOnceInOrder
  <1>9. \A v \in Workers : (wpc[v] = "running") => task[v] # h
    <2>1. \A v \in Workers : (wpc[v] = "running") => task[v] \in InHand
      BY DEF InHand
    <2> QED  BY <1>t, <1>2, <2>1 DEF ExactlyOnceInOrder
  <1> QED  BY <1>t, <1>1, <1>3, <1>4, <1>7, <1>8, <1>9 DEF ExactlyOnceInOrder

LEMMA RunOnce ==
    ASSUME IInv, NEW w \in Workers, RunTask(w)
    PROVE  /\ ExactlyOnceInOrder'
           /\ InHand' = InHand \ {task[w]}
           /\ task[w] \in InHand
  <1>t. TypeOK /\ ExactlyOnceInOrder
    BY DEF IInv
  <1>1. /\ wpc[w] = "running" /\ finished' = finished \cup {task[w]}
        /\ UNCHANGED <<accepted, started, queue>>
    BY DEF RunTask, pool
  <1>2. \A v \in Workers : /\ wpc'[v] = IF v = w THEN "locking" ELSE wpc[v]
                           /\ v # w => task'[v] = task[v]
    BY <1>t DEF TypeOK, RunTask
  <1>3. \A v \in Workers : (v # w /\ wpc[v] = "running") => task[v] # task[w]
    BY <1>t, <1>1 DEF ExactlyOnceInOrder
  <1>4. task[w] \in InHand
    BY <1>1 DEF InHand
  <1>5. InHand' = InHand \ {task[w]}
    BY <1>1, <1>2, <1>3 DEF InHand
  <1>6. RangeOf(started)' = RangeOf(started)
    BY <1>1 DEF RangeOf
  <1> QED  BY <1>t, <1>1, <1>2, <1>4, <1>5, <1>6 DEF ExactlyOnceInOrder

\* Unlinking keeps started \o queue, appending extends it together with
\* accepted, and the cleanup of destroy finds the queue empty.
LEMMA OnceStep == IInv /\ [Next]_vars => ExactlyOnceInOrder'
  <1> SUFFICES ASSUME IInv, [Next]_vars PROVE ExactlyOnceInOrder'
    OBVIOUS
  <1>t. TypeOK /\ ListShape /\ ExactlyOnceInOrder /\ Fresh /\ ExitDrained
    BY DEF IInv
  <1>1. CASE \E w \in Workers : TakeTask(w) \/ RunTask(w)
    BY <1>1, TakeOnce, RunOnce
  <1>2. CASE \A w \in Workers : ~TakeTask(w) /\ ~RunTask(w)
    <2>1. /\ InHand' = InHand /\ UNCHANGED <<started, finished, task>>
          /\ \A v \in Workers : wpc'[v] = "running" <=> wpc[v] = "running"
      BY <1>2, InHandStep
    <2>2. RangeOf(started)' = RangeOf(started)
      BY <2>1 DEF RangeOf
    <2>3. accepted' = started' \o queue'
      <3>1. ASSUME NEW p \in Producers, AddTask(p) PROVE accepted' = started \o queue'
        <4>1. /\ arg[p] \in Tasks /\ queue' = Append(queue, arg[p])
              /\ accepted' = Append(accepted, arg[p])
          BY <1>t, <3>1, AddFacts
        <4>2. queue \in Seq(Tasks) /\ started \in Seq(Tasks)
          BY <1>t DEF TypeOK
        <4>3. Append(started \o queue, arg[p]) = started \o Append(queue, arg[p])
          BY <4>1, <4>2, AppendRight, Zenon
        <4>4. accepted = started \o queue
          BY <1>t DEF ExactlyOnceInOrder
        <4> QED  BY <4>1, <4>3, <4>4
      <3>2. CASE DestroyFree
        <4>1. task_count = 0
          BY <1>t, <3>2, PoolAssumption DEF ExitDrained, DestroyFree
        <4>2. queue = <<>>
          BY <1>t, <4>1, LengthZero DEF TypeOK, ListShape
        <4>3. queue' = queue /\ accepted' = accepted
          BY <3>2, <4>2 DEF DestroyFree, hist
        <4> QED  BY <1>t, <2>1, <4>3 DEF ExactlyOnceInOrder
      <3>3. CASE UNCHANGED <<accepted, queue>>
        BY <1>t, <2>1, <3>3 DEF ExactlyOnceInOrder
      <3> QED
        BY <1>2, <2>1, <3>1, <3>2, <3>3 DEF Next, OwnerStep, WorkerLocks, AddLocks,
           CreateNothing, Spawn, SpawnFailed, UnwindBroadcast, UnwindJoined,
           DestroySignal, FindNothing, Sleep, WorkerExit, WorkerWakes, CallAdd,
           AddRefused, AddWaits, AddNoMemory, ProducerWakes, vars, pool, hist
    <2> QED  BY <1>t, <2>1, <2>2, <2>3 DEF ExactlyOnceInOrder
  <1> QED  BY <1>1, <1>2

LEMMA IInvInit == Init => IInv
  <1> SUFFICES ASSUME Init PROVE IInv
    OBVIOUS
  <1> USE PoolAssumption DEF Init
  <1>0. <<>> \in Seq(Tasks) /\ 0 \in 0..MaxTasks
    OBVIOUS
  <1>1. TypeOK
    BY <1>0 DEF TypeOK, OwnerStates, WorkerStates, ProducerStates
  <1>2. ListShape /\ LockHeld /\ ExitDrained
    BY DEF ListShape, LockHeld, ExitDrained
  <1>3. RangeOf(accepted) = {} /\ RangeOf(started) = {} /\ InHand = {}
    BY DEF RangeOf, InHand
  <1>4. ExactlyOnceInOrder
    BY <1>3 DEF ExactlyOnceInOrder
  <1>5. Fresh
    BY <1>3 DEF Fresh
  <1> QED  BY <1>1, <1>2, <1>4, <1>5 DEF IInv

\* The inductive invariant holds in every reachable state of the pool.
THEOREM PoolInvariant == Spec => []IInv
  <1>1. IInv /\ [Next]_vars => IInv'
    BY TypeStep, ListStep, OnceStep, FreshStep, LockStep, ExitStep DEF IInv
  <1> QED  BY IInvInit, <1>1, PTL DEF Spec

\* For any number of threads and any capacity, every accepted task is taken
\* once, in order, and is accounted for until it has run.
THEOREM PoolRunsExactlyOnce == Spec => [](TypeOK /\ ListShape /\ ExactlyOnceInOrder)
  <1>1. IInv => TypeOK /\ ListShape /\ ExactlyOnceInOrder
    BY DEF IInv
  <1> QED  BY PoolInvariant, <1>1, PTL

(***************************************************************************)
(* No wakeup of a worker is lost.                                          *)
(***************************************************************************)
Awake == {w \in Workers : wpc[w] \in Acquiring}

LEMMA AwakeFinite == IsFiniteSet(Awake) /\ Cardinality(Awake) \in Nat
  <1>1. IsFiniteSet(Awake)
    BY PoolAssumption, FS_Subset DEF Awake
  <1> QED  BY <1>1, FS_CardinalityType

\* One signal per append keeps the workers awake in step with the queue; a
\* worker goes to sleep only on an empty queue.
LEMMA WakeupStep ==
    ASSUME IInv, IInv', WakeupsCoverQueue, [Next]_vars
    PROVE  WakeupsCoverQueue'
  <1>t. TypeOK /\ TypeOK' /\ ListShape /\ ListShape' /\ LockHeld /\ ExitDrained /\ Fresh
    BY DEF IInv
  <1>f. /\ IsFiniteSet(Awake) /\ Cardinality(Awake) \in Nat
        /\ IsFiniteSet(Awake') /\ Cardinality(Awake') \in Nat
    <2>1. IsFiniteSet(Awake')
      BY PoolAssumption, FS_Subset DEF Awake
    <2> QED  BY <2>1, AwakeFinite, FS_CardinalityType
  <1>l. Len(queue) \in Nat /\ Len(queue') \in Nat
    BY <1>t DEF TypeOK
  <1>c. /\ Sleepers(wpc) # {} => Len(queue) <= Cardinality(Awake)
        /\ WakeupsCoverQueue' <=> (Sleepers(wpc)' # {} => Len(queue') <= Cardinality(Awake'))
    BY DEF WakeupsCoverQueue, Awake
  <1>s. /\ \A v : v \in Sleepers(wpc) <=> v \in Workers /\ wpc[v] = "asleep"
        /\ \A v : v \in Sleepers(wpc)' <=> v \in Workers /\ wpc'[v] = "asleep"
    BY <1>t DEF TypeOK, Sleepers
  <1>1. ASSUME NEW p \in Producers, AddTask(p) PROVE WakeupsCoverQueue'
    <2>q. Len(queue') = Len(queue) + 1
      BY <1>t, <1>1, AddFacts DEF TypeOK
    <2>1. CASE Sleepers(wpc) = {}
      BY <1>1, <2>1, <1>c DEF AddTask, Signalled
    <2>2. CASE Sleepers(wpc) # {}
      <3>1. PICK x \in Sleepers(wpc) : wpc' = [wpc EXCEPT ![x] = "woken"]
        BY <1>1, <2>2 DEF AddTask, Signalled
      <3>2. x \in Workers /\ wpc[x] = "asleep"
        BY <1>s
      <3>3. Awake' = Awake \cup {x} /\ x \notin Awake
        BY <1>t, <3>1, <3>2 DEF Awake, Acquiring, TypeOK
      <3>4. Cardinality(Awake') = Cardinality(Awake) + 1
        BY <1>f, <3>3, FS_AddElement
      <3> QED  BY <1>c, <1>f, <1>l, <2>2, <2>q, <3>4
    <2> QED  BY <2>1, <2>2
  <1>2. ASSUME NEW w \in Workers, TakeTask(w) PROVE WakeupsCoverQueue'
    <2>q. Len(queue') = Len(queue) - 1
      BY <1>t, <1>2, TakeFacts DEF TypeOK
    <2>1. wpc' = [wpc EXCEPT ![w] = "running"] /\ w \in Awake
      BY <1>t, <1>2, TakeFacts DEF TakeTask, Awake
    <2>2. Awake' = Awake \ {w}
      BY <1>t, <2>1 DEF Awake, Acquiring, TypeOK
    <2>3. Cardinality(Awake') = Cardinality(Awake) - 1
      BY <1>f, <2>1, <2>2, FS_RemoveElement
    <2>4. Sleepers(wpc)' # {} => Sleepers(wpc) # {}
      BY <1>t, <1>s, <2>1 DEF TypeOK
    <2> QED  BY <1>c, <1>f, <1>l, <2>q, <2>3, <2>4
  <1>3. ASSUME NEW w \in Workers, Sleep(w) \/ FindNothing(w) \/ WorkerExit(w)
        PROVE  WakeupsCoverQueue'
    <2>1. task_count' = 0
      BY <1>t, <1>3 DEF LockHeld, Sleep, FindNothing, WorkerExit, pool
    <2>2. Len(queue') = 0
      BY <1>t, <2>1 DEF ListShape
    <2> QED  BY <1>c, <1>f, <2>2
  <1>4. ASSUME NEW w \in Workers, RunTask(w) \/ Spawn(w) \/ WorkerWakes(w)
        PROVE  WakeupsCoverQueue'
    <2>1. \A v \in Workers : /\ v # w => wpc'[v] = wpc[v]
                             /\ wpc'[w] \in {"locking", "woken"}
      BY <1>t, <1>4 DEF TypeOK, RunTask, Spawn, WorkerWakes
    <2>2. Awake \subseteq Awake'
      BY <2>1 DEF Awake, Acquiring
    <2>3. Cardinality(Awake) <= Cardinality(Awake')
      BY <1>f, <2>2, FS_Subset
    <2>4. Sleepers(wpc)' # {} => Sleepers(wpc) # {}
      BY <1>s, <2>1
    <2>5. queue' = queue
      BY <1>4 DEF RunTask, Spawn, WorkerWakes, pool
    <2> QED  BY <1>c, <1>f, <1>l, <2>3, <2>4, <2>5
  <1>5. CASE DestroySignal \/ UnwindBroadcast \/ DestroyFree
    <2>1. \A v \in Workers : wpc'[v] # "asleep"
      BY <1>t, <1>5, WorkersBroadcast DEF TypeOK, DestroySignal, UnwindBroadcast, DestroyFree
    <2> QED  BY <1>c, <1>s, <2>1
  <1>6. CASE UNCHANGED <<wpc, queue>>
    BY <1>6 DEF WakeupsCoverQueue, Sleepers
  <1> QED
    BY <1>1, <1>2, <1>3, <1>4, <1>5, <1>6 DEF Next, OwnerStep, WorkerLocks, AddLocks,
       CreateNothing, SpawnFailed, UnwindJoined, CallAdd, AddRefused, AddWaits,
       AddNoMemory, ProducerWakes, vars, pool

\* A worker never sleeps through work, for any number of workers, callers and
\* tasks and with spurious wakeups and failures at any point.
THEOREM PoolLosesNoWakeup == Spec => []WakeupsCoverQueue
  <1>1. Init => WakeupsCoverQueue
    <2> SUFFICES ASSUME Init PROVE WakeupsCoverQueue
      OBVIOUS
    <2>1. Sleepers(wpc) = {}
      BY DEF Init, Sleepers
    <2> QED  BY <2>1 DEF WakeupsCoverQueue
  <1>2. IInv /\ IInv' /\ WakeupsCoverQueue /\ [Next]_vars => WakeupsCoverQueue'
    BY WakeupStep
  <1> QED  BY <1>1, <1>2, PoolInvariant, PTL DEF Spec

(***************************************************************************)
(* The pool implements the abstract executor.                              *)
(***************************************************************************)
LEMMA ExecutorInit == Init => Executor!Init
  BY DEF Init, Executor!Init, PoolState

LEMMA ExecutorStep ==
    ASSUME IInv, IInv', [Next]_vars
    PROVE  [Executor!Next]_(Executor!evars)
  <1>t. TypeOK /\ TypeOK' /\ ListShape /\ ListShape' /\ ExactlyOnceInOrder /\ ExitDrained /\ Fresh
    BY DEF IInv
  <1>1. ASSUME NEW p \in Producers, AddTask(p) PROVE Executor!Accept(arg[p])
    <2>1. /\ arg[p] \in Tasks /\ queue' = Append(queue, arg[p])
          /\ arg[p] \notin RangeOf(accepted)
      BY <1>t, <1>1, AddFacts DEF Fresh
    <2>2. PoolState = "open" /\ PoolState' = PoolState
      BY <1>t, <1>1 DEF ExitDrained, AddTask, Live, PoolState
    <2>3. Len(queue) < MaxTasks
      BY <1>t, <1>1 DEF ListShape, AddTask
    <2>4. task' = task /\ finished' = finished
      BY <1>1 DEF AddTask
    <2>5. /\ \A i \in DOMAIN queue : queue[i] \in RangeOf(accepted)
          /\ \A i \in DOMAIN started : started[i] \in RangeOf(accepted)
      <3>1. queue \in Seq(Tasks) /\ started \in Seq(Tasks) /\ accepted = started \o queue
        BY <1>t DEF TypeOK, ExactlyOnceInOrder
      <3>2. /\ \A i \in DOMAIN queue : /\ Len(started) + i \in DOMAIN accepted
                                       /\ accepted[Len(started) + i] = queue[i]
            /\ \A i \in DOMAIN started : i \in DOMAIN accepted /\ accepted[i] = started[i]
        BY <3>1
      <3> QED  BY <3>2, Zenon DEF RangeOf
    <2>6. arg[p] \notin InHand \cup finished
      BY <1>t, <2>1, <2>5 DEF ExactlyOnceInOrder, RangeOf
    <2>7. \A w \in Workers : task[w] # arg[p]
      BY <1>t, <2>1, <2>6, PoolAssumption DEF Fresh, InHand
    <2> QED  BY <2>1, <2>2, <2>3, <2>4, <2>5, <2>6, <2>7 DEF Executor!Accept
  <1>2. ASSUME NEW w \in Workers, TakeTask(w) PROVE Executor!Start(w)
    <2>1. /\ task' = [task EXCEPT ![w] = Head(queue)] /\ task[w] = Null
          /\ queue # <<>> /\ queue' = Tail(queue)
      BY <1>t, <1>2, TakeFacts DEF TakeTask, Fresh, Acquiring
    <2>2. UNCHANGED <<owner, finished>> /\ owner # "freed"
      BY <1>t, <1>2 DEF TakeTask, ExitDrained, Acquiring
    <2>3. PoolState' = PoolState /\ PoolState # "closed"
      BY <2>2 DEF PoolState
    <2> QED  BY <2>1, <2>2, <2>3 DEF Executor!Start
  <1>3. ASSUME NEW w \in Workers, RunTask(w) PROVE Executor!Finish(w)
    <2>1. /\ UNCHANGED <<owner, queue>> /\ finished' = finished \cup {task[w]}
          /\ task' = [task EXCEPT ![w] = Null] /\ task[w] # Null
      BY <1>t, <1>3, PoolAssumption DEF RunTask, pool, Fresh
    <2>2. PoolState' = PoolState
      BY <2>1 DEF PoolState
    <2> QED  BY <2>1, <2>2 DEF Executor!Finish
  <1>4. CASE \A w \in Workers : ~TakeTask(w) /\ ~RunTask(w)
    <2>h. task' = task /\ finished' = finished
      BY <1>4, InHandStep
    <2>1. CASE DestroySignal
      <3>1. Executor!Close
        BY <2>h, <2>1 DEF DestroySignal, Executor!Close, PoolState
      <3> QED  BY <3>1 DEF Executor!Next
    <2>2. CASE DestroyFree
      <3>1. \A w \in Workers : task[w] = Null
        BY <1>t, <2>2 DEF DestroyFree, Fresh
      <3>2. task_count = 0
        BY <1>t, <2>2, PoolAssumption DEF ExitDrained, DestroyFree
      <3>3. queue = <<>>
        BY <1>t, <3>2, LengthZero DEF TypeOK, ListShape
      <3>4. Executor!Closed
        BY <2>h, <2>2, <3>1, <3>3 DEF DestroyFree, Executor!Closed, PoolState
      <3> QED  BY <3>4 DEF Executor!Next
    <2>3. CASE \E p \in Producers : AddTask(p)
      BY <1>1, <1>t, <2>3, AddFacts DEF Executor!Next
    <2>4. CASE UNCHANGED <<queue, PoolState>>
      BY <2>h, <2>4 DEF Executor!evars
    <2> QED
      BY <1>4, <2>1, <2>2, <2>3, <2>4 DEF Executor!Next, Next, OwnerStep, WorkerLocks, AddLocks,
         CreateNothing, Spawn, SpawnFailed, UnwindBroadcast, UnwindJoined, FindNothing,
         Sleep, WorkerExit, WorkerWakes, CallAdd, AddRefused, AddWaits, AddNoMemory,
         ProducerWakes, vars, pool, PoolState
  <1> QED  BY <1>2, <1>3, <1>4 DEF Executor!Next

\* Every behaviour of the pool, seen through its queue, the tasks in hand and
\* the finished tasks, is a behaviour of the bounded FIFO executor.
THEOREM PoolImplementsExecutor == Spec => ImplementsExecutor
  <1>1. IInv /\ IInv' /\ [Next]_vars => [Executor!Next]_(Executor!evars)
    BY ExecutorStep
  <1> QED  BY ExecutorInit, <1>1, PoolInvariant, PTL DEF Spec, Executor!Spec, ImplementsExecutor
=============================================================================
