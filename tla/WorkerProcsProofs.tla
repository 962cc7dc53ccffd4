------------------------- MODULE WorkerProcsProofs --------------------------
(***************************************************************************)
(* Proofs for the process pool and the shared statistics, for any number   *)
(* of workers.  process_pool_create refuses count <= 0, so Count is taken  *)
(* to be a positive number.                                                *)
(***************************************************************************)
EXTENDS WorkerProcs, FiniteSetTheorems, TLAPS

(***************************************************************************)
(* The statistics.                                                         *)
(***************************************************************************)
Steps == {"idle", "lock", "read", "write", "unlock"}
Ops == {"none", "inc", "request", "bytes", "dec"}

StatsTypes ==
    /\ op \in [Workers -> Ops]
    /\ at \in [Workers -> Steps]
    /\ seen \in [Workers -> Int]
    /\ inside \in [Workers -> BOOLEAN]
    /\ holder \in Workers \cup {Nobody}
    /\ clients \in Int /\ requests \in Int /\ sent \in Int /\ recv \in Int

\* The lock is held by the one worker that is between its two lock calls,
\* alive or killed there.
LockExclusive == \A w \in Workers : at[w] \in {"read", "write", "unlock"} <=> holder = w

\* A call to count a client in or out fits what the worker has counted.
CallsFit ==
    \A w \in Workers : at[w] \in {"lock", "read", "write"} =>
        /\ op[w] # "none"
        /\ op[w] = "inc" => ~inside[w]
        /\ op[w] = "dec" => inside[w]

\* What a worker has loaded is still what the counter holds.
SeenIsCurrent ==
    \A w \in Workers : at[w] = "write" =>
        /\ op[w] \in {"inc", "dec"} => seen[w] = clients
        /\ op[w] = "bytes" => seen[w] = recv

Inside == {w \in Workers : inside[w]}

\* Only between the two additions of shm_add_bytes do the byte counts differ.
Totals ==
    /\ clients = Cardinality(Inside)
    /\ (\E w \in Workers : at[w] = "write" /\ op[w] = "bytes") => sent = recv + 1
    /\ (\A w \in Workers : at[w] = "write" => op[w] # "bytes") => sent = recv

StatsInv == StatsTypes /\ LockExclusive /\ CallsFit /\ SeenIsCurrent /\ Totals

\* The set of workers with a client is finite, and counting one in or out changes
\* its size by one, as shm_inc_clients and shm_dec_clients do.
LEMMA InsideCount ==
    ASSUME Count \in Nat, NEW S \in SUBSET Workers, NEW w \in Workers
    PROVE  /\ Cardinality(S) \in Int
           /\ w \notin S => Cardinality(S \cup {w}) = Cardinality(S) + 1
           /\ w \in S => Cardinality(S \ {w}) = Cardinality(S) - 1
  <1>1. IsFiniteSet(Workers)
    BY FS_Interval DEF Workers
  <1>2. IsFiniteSet(S)
    BY <1>1, FS_Subset
  <1>3. Cardinality(S) \in Nat
    BY <1>2, FS_CardinalityType
  <1>4. w \notin S => Cardinality(S \cup {w}) = Cardinality(S) + 1
    BY <1>2, FS_AddElement
  <1>5. w \in S => Cardinality(S \ {w}) = Cardinality(S) - 1
    BY <1>2, FS_RemoveElement
  <1> QED
    BY <1>3, <1>4, <1>5

\* The invariant holds when the statistics have been created.
LEMMA StatsInit == ASSUME Count \in Nat, Init PROVE StatsInv
  <1>1. Inside = {}
    BY DEF Init, Inside
  <1>2. Cardinality(Inside) = 0
    BY <1>1, FS_EmptySet
  <1>3. StatsTypes
    BY DEF Init, StatsTypes, Ops, Steps
  <1>4. LockExclusive /\ CallsFit /\ SeenIsCurrent
    BY DEF Init, LockExclusive, CallsFit, SeenIsCurrent, Workers, Nobody
  <1>5. Totals
    BY <1>2 DEF Init, Totals
  <1> QED
    BY <1>3, <1>4, <1>5 DEF StatsInv

\* WriteCounter is the step that changes what is counted.
LEMMA WriteKeepsStats ==
    ASSUME Count \in Nat, StatsInv, NEW w \in Workers, WriteCounter(w)
    PROVE  StatsInv'
  <1> USE DEF StatsInv
  <1>1. /\ op[w] \in Ops \ {"none"} /\ holder = w
        /\ op[w] = "inc" => ~inside[w]
        /\ op[w] = "dec" => inside[w]
        /\ op[w] \in {"inc", "dec"} => seen[w] = clients
        /\ op[w] = "bytes" => seen[w] = recv
    BY DEF WriteCounter, StatsTypes, LockExclusive, CallsFit, SeenIsCurrent, Ops
  <1>2. StatsTypes'
    <2>1. seen[w] \in Int /\ clients \in Int /\ requests \in Int /\ sent \in Int /\ recv \in Int
      BY DEF StatsTypes
    <2>2. clients' \in Int /\ requests' \in Int /\ sent' \in Int /\ recv' \in Int
      BY <2>1 DEF WriteCounter
    <2>3. inside' \in [Workers -> BOOLEAN]
      BY Zenon DEF WriteCounter, StatsTypes
    <2>4. /\ op' \in [Workers -> Ops] /\ at' \in [Workers -> Steps] /\ seen' \in [Workers -> Int]
          /\ holder' \in Workers \cup {Nobody}
      BY DEF WriteCounter, StatsTypes, Steps
    <2> QED
      BY <2>2, <2>3, <2>4 DEF StatsTypes
  <1>3. \A v \in Workers : v # w => at[v] \notin {"read", "write", "unlock"}
    BY <1>1 DEF LockExclusive
  <1>4. LockExclusive'
    BY <1>1 DEF WriteCounter, StatsTypes, LockExclusive
  <1>5. CallsFit'
    BY DEF WriteCounter, StatsTypes, CallsFit
  <1>6. SeenIsCurrent'
    BY <1>3 DEF WriteCounter, StatsTypes, SeenIsCurrent
  <1>7. Inside \in SUBSET Workers /\ clients = Cardinality(Inside)
    BY DEF Inside, Totals
  <1>8. clients' = Cardinality(Inside')
    <2>1. CASE op[w] = "inc"
      <3>1. Inside' = Inside \cup {w} /\ w \notin Inside
        BY <1>1, <2>1 DEF WriteCounter, StatsTypes, Inside
      <3>2. clients' = clients + 1
        BY <1>1, <2>1 DEF WriteCounter
      <3> QED
        BY <1>7, <3>1, <3>2, InsideCount
    <2>2. CASE op[w] = "dec"
      <3>1. Inside' = Inside \ {w} /\ w \in Inside
        BY <1>1, <2>2 DEF WriteCounter, StatsTypes, Inside
      <3>2. clients' = clients - 1
        BY <1>1, <2>2 DEF WriteCounter
      <3> QED
        BY <1>7, <3>1, <3>2, InsideCount
    <2>3. CASE op[w] \notin {"inc", "dec"}
      <3>1. inside' = inside /\ clients' = clients
        BY <2>3 DEF WriteCounter, StatsTypes
      <3> QED
        BY <1>7, <3>1 DEF Inside
    <2> QED
      BY <2>1, <2>2, <2>3
  <1>9. sent' = recv'
    <2>1. CASE op[w] = "bytes"
      BY <1>1, <2>1 DEF WriteCounter, Totals
    <2>2. CASE op[w] # "bytes"
      BY <1>3, <2>2 DEF WriteCounter, Totals
    <2> QED
      BY <2>1, <2>2
  <1>10. \A v \in Workers : at'[v] # "write"
    BY <1>3 DEF WriteCounter, StatsTypes
  <1> QED
    BY <1>2, <1>4, <1>5, <1>6, <1>8, <1>9, <1>10 DEF Totals

\* Every step of a worker or of the parent keeps the invariant.
LEMMA StatsStep == ASSUME Count \in Nat, StatsInv, [Next]_vars PROVE StatsInv'
  <1> USE DEF StatsInv
  <1>1. ASSUME NEW w \in Workers, NEW o \in {"inc", "request", "bytes", "dec"}, Call(w, o)
        PROVE  StatsInv'
    <2>1. Inside' = Inside /\ op' \in [Workers -> Ops] /\ at[w] = "idle"
      BY <1>1 DEF Call, Inside, lockAndStats, StatsTypes, Ops
    <2>2. (o = "inc" => ~inside[w]) /\ (o = "dec" => inside[w])
      BY <1>1 DEF Call
    <2>3. StatsTypes' /\ LockExclusive' /\ SeenIsCurrent'
      BY <1>1, <2>1 DEF Call, lockAndStats, StatsTypes, Steps, LockExclusive, SeenIsCurrent
    <2>4. CallsFit'
      BY <1>1, <2>2 DEF Call, StatsTypes, CallsFit
    <2>5. \A v \in Workers : (at'[v] = "write" /\ op'[v] = "bytes") <=> (at[v] = "write" /\ op[v] = "bytes")
      BY <1>1, <2>1 DEF Call, StatsTypes
    <2>6. Totals'
      BY <1>1, <2>1, <2>5 DEF Call, lockAndStats, Totals
    <2> QED
      BY <2>3, <2>4, <2>6
  <1>2. ASSUME NEW w \in Workers, Acquire(w) \/ Release(w) PROVE StatsInv'
    <2>1. /\ Inside' = Inside
          /\ \A v \in Workers : at'[v] = "write" <=> at[v] = "write"
      BY <1>2 DEF Acquire, Release, Inside, StatsTypes
    <2>2. StatsTypes'
      BY <1>2 DEF Acquire, Release, StatsTypes, Steps
    <2>3. Nobody \notin Workers
      BY DEF Workers, Nobody
    <2>4. LockExclusive'
      BY <1>2, <2>3 DEF Acquire, Release, StatsTypes, LockExclusive
    <2>5. CallsFit'
      BY <1>2 DEF Acquire, Release, StatsTypes, CallsFit
    <2>6. SeenIsCurrent'
      BY <1>2, <2>1 DEF Acquire, Release, SeenIsCurrent
    <2>7. Totals'
      BY <1>2, <2>1 DEF Acquire, Release, Totals
    <2> QED
      BY <2>2, <2>4, <2>5, <2>6, <2>7
  <1>3. ASSUME NEW w \in Workers, ReadCounter(w) PROVE StatsInv'
    <2>1. /\ holder = w /\ op[w] \in Ops \ {"none"}
          /\ \A v \in Workers : v # w => at[v] \notin {"read", "write", "unlock"}
      BY <1>3 DEF ReadCounter, LockExclusive, CallsFit, StatsTypes
    <2>2. /\ Inside' = Inside /\ sent = recv
          /\ \A v \in Workers : at'[v] = "write" <=> v = w
      BY <1>3, <2>1 DEF ReadCounter, Inside, StatsTypes, Totals
    <2>3. StatsTypes'
      BY <1>3, <2>1 DEF ReadCounter, StatsTypes, Steps, Ops
    <2>4. LockExclusive' /\ CallsFit'
      BY <1>3, <2>1 DEF ReadCounter, StatsTypes, LockExclusive, CallsFit
    <2>5. SeenIsCurrent'
      BY <1>3, <2>2 DEF ReadCounter, StatsTypes, SeenIsCurrent
    <2>6. Totals'
      BY <1>3, <2>2 DEF ReadCounter, Totals
    <2> QED
      BY <2>3, <2>4, <2>5, <2>6
  <1>4. ASSUME UNCHANGED <<worker, lockAndStats>> PROVE StatsInv'
    BY <1>4 DEF worker, lockAndStats, StatsTypes, LockExclusive, CallsFit, SeenIsCurrent, Totals, Inside
  <1>5. ASSUME NEW w \in Workers, Return(w) PROVE StatsInv'
    BY <1>4, <1>5 DEF Return
  <1>6. CASE Fork \/ ForkFails \/ ParentStep \/ Ask \/ GetStats \/ Begin("kill") \/ Begin("poolWait")
    BY <1>4, <1>6 DEF Fork, ForkFails, ParentStep, KillOne, WaitOne, Ask, GetStats, Begin
  <1>7. CASE UNCHANGED vars
    BY <1>4, <1>7 DEF vars
  <1> QED
    BY <1>1, <1>2, <1>3, <1>5, <1>6, <1>7, WriteKeepsStats DEF Next, WorkerStep

\* For any number of workers: whenever nobody holds the write lock, which is when
\* shm_get_stats can read, client_count is the number of clients counted in and
\* both byte counts of every transfer are there, wherever SIGTERM hits a worker.
THEOREM StatsAreExact == ASSUME Count \in Nat PROVE Spec => []StatsExact
  <1>1. Init => StatsInv
    BY StatsInit
  <1>2. StatsInv /\ [Next]_vars => StatsInv'
    BY StatsStep
  <1>3. StatsInv => StatsExact
    BY DEF StatsInv, StatsTypes, LockExclusive, Totals, Inside, StatsExact, Workers, Nobody
  <1> QED
    BY <1>1, <1>2, <1>3, PTL DEF Spec

(***************************************************************************)
(* The children.                                                           *)
(***************************************************************************)
\* pids has an entry exactly for the children that are not waited for, and a loop
\* of waits has emptied the entries it has passed.
ChildrenInv ==
    /\ i \in Workers
    /\ pids \in [Workers -> BOOLEAN]
    /\ proc \in [Workers -> {"none", "run", "dead", "gone"}]
    /\ \A w \in Workers : ~pids[w] => proc[w] \in {"none", "gone"}
    /\ parent \in {"wait", "undoWait"} => \A w \in Workers : w < i => ~pids[w]
    /\ parent \in {"done", "failed"} => \A w \in Workers : ~pids[w]

\* Every step keeps it: only Fork makes an entry, and only the wait removes one.
LEMMA ChildrenStep == ASSUME Count \in Nat \ {0}, ChildrenInv, [Next]_vars PROVE ChildrenInv'
  <1> USE DEF ChildrenInv
  <1>1. 1 \in Workers /\ (i # Count => i + 1 \in Workers) /\ \A w \in Workers : w \in 1 .. Count
    BY DEF Workers
  <1>2. ASSUME NEW w \in Workers, Return(w) PROVE ChildrenInv'
    BY <1>2 DEF Return
  <1>3. CASE Fork
    BY <1>1, <1>3 DEF Fork
  <1>4. CASE KillOne
    <2>1. /\ pids' = pids /\ proc' \in [Workers -> {"none", "run", "dead", "gone"}]
          /\ \A w \in Workers : ~pids[w] => proc'[w] \in {"none", "gone"}
      BY <1>4 DEF KillOne, Killed
    <2>2. i' \in Workers
      BY <1>1, <1>4 DEF KillOne, Advance
    <2>3. parent' \in {"kill", "undoKill"} \/ (parent' \in {"wait", "undoWait"} /\ i' = 1)
      BY <1>4 DEF KillOne, Advance, After
    <2> QED
      BY <1>1, <2>1, <2>2, <2>3
  <1>5. CASE WaitOne
    <2>1. /\ pids' \in [Workers -> BOOLEAN] /\ ~pids'[i]
          /\ \A w \in Workers : w # i => pids'[w] = pids[w]
      BY <1>5 DEF WaitOne
    <2>2. /\ proc' \in [Workers -> {"none", "run", "dead", "gone"}]
          /\ \A w \in Workers : ~pids'[w] => proc'[w] \in {"none", "gone"}
      BY <1>5 DEF WaitOne
    <2>3. i' \in Workers
      BY <1>1, <1>5 DEF WaitOne, Advance
    <2>4. CASE i = Count
      BY <1>1, <1>5, <2>1, <2>2, <2>3, <2>4 DEF WaitOne, Advance, After
    <2>5. CASE i # Count
      BY <1>1, <1>5, <2>1, <2>2, <2>3, <2>5 DEF WaitOne, Advance
    <2> QED
      BY <2>4, <2>5
  <1>6. CASE ForkFails \/ Begin("kill") \/ Begin("poolWait")
    BY <1>1, <1>6 DEF ForkFails, Begin
  <1>7. ASSUME UNCHANGED <<proc, pids, parent, i>> PROVE ChildrenInv'
    BY <1>7
  <1>8. ASSUME NEW w \in Workers, WorkerStep(w) \/ \E o \in {"inc", "request", "bytes", "dec"} : Call(w, o)
        PROVE  ChildrenInv'
    BY <1>7, <1>8 DEF WorkerStep, Acquire, ReadCounter, WriteCounter, Release, Call
  <1>9. CASE Ask \/ GetStats \/ UNCHANGED vars
    BY <1>7, <1>9 DEF Ask, GetStats, vars
  <1> QED
    BY <1>2, <1>3, <1>4, <1>5, <1>6, <1>8, <1>9 DEF Next, ParentStep

\* For any positive number of workers: after a failed process_pool_create and after
\* process_pool_destroy, no child is running or waits to be waited for, whichever
\* fork failed and whichever children ended by themselves.
THEOREM ChildrenAreGone == ASSUME Count \in Nat \ {0} PROVE Spec => []NoChildLeft
  <1>1. Init => ChildrenInv
    BY DEF Init, ChildrenInv, Workers
  <1>2. ChildrenInv /\ [Next]_vars => ChildrenInv'
    BY ChildrenStep
  <1>3. ChildrenInv => NoChildLeft
    BY DEF ChildrenInv, NoChildLeft
  <1> QED
    BY <1>1, <1>2, <1>3, PTL DEF Spec
=============================================================================
