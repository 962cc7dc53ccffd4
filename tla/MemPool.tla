------------------------------- MODULE MemPool -------------------------------
(***************************************************************************)
(* memory-pool/src/mempool.c with thread_safe set: blocks linked by next   *)
(* and prev into a free list and a used list.  Code under pool->lock is    *)
(* one step; mempool_free looks at is_free before it takes the lock, and   *)
(* mempool_realloc is an alloc, a copy and a free, each a step of its own. *)
(* A thread frees only blocks it holds, or once more a block that is free. *)
(***************************************************************************)
EXTENDS Integers, FiniteSets

CONSTANTS
    BlockCount,  \* block_count
    Threads,
    MaxAllocs    \* bound on the calls of mempool_alloc

VARIABLES
    next, prev, isFree,    \* the block headers
    freeList, usedList,    \* heads of the two lists
    usedBlocks, freeBlocks, maxUsed, allocCount, freeCount,  \* stats
    data,                  \* the thread whose data a block holds
    held,                  \* the blocks each thread holds pointers to
    pc, old, new           \* a call in progress: its step, the pointer it was
                           \* given and the block it has allocated

links == <<next, prev, isFree, freeList, usedList>>
stats == <<usedBlocks, freeBlocks, maxUsed, allocCount, freeCount>>
calls == <<pc, old, new>>
vars == <<links, stats, data, held, calls>>

Blocks == 1 .. BlockCount
NULL == 0
Nobody == "nobody"

FreshNext == [b \in Blocks |-> IF b < BlockCount THEN b + 1 ELSE NULL]
FreshPrev == [b \in Blocks |-> b - 1]

Init ==
    /\ next = FreshNext /\ prev = FreshPrev
    /\ isFree = [b \in Blocks |-> TRUE]
    /\ freeList = 1 /\ usedList = NULL
    /\ usedBlocks = 0 /\ freeBlocks = BlockCount
    /\ maxUsed = 0 /\ allocCount = 0 /\ freeCount = 0
    /\ data = [b \in Blocks |-> Nobody]
    /\ held = [t \in Threads |-> {}]
    /\ pc = [t \in Threads |-> "idle"]
    /\ old = [t \in Threads |-> NULL]
    /\ new = [t \in Threads |-> NULL]

\* p->field = v for a pointer that may be NULL, in which case nothing is done.
Set(f, p, v) == IF p = NULL THEN f ELSE [f EXCEPT ![p] = v]
Larger(m, n) == IF m > n THEN m ELSE n

-----------------------------------------------------------------------------
\* Mutant: the old head of the used list does not point back to the new one.
TakeBlockNoBack(b) ==
    /\ freeList' = next[b]
    /\ isFree' = [isFree EXCEPT ![b] = FALSE]
    /\ next' = [next EXCEPT ![b] = usedList]
    /\ prev' = [Set(prev, next[b], NULL) EXCEPT ![b] = NULL]
    /\ usedList' = b
    /\ usedBlocks' = usedBlocks + 1
    /\ freeBlocks' = freeBlocks - 1
    /\ allocCount' = allocCount + 1
    /\ maxUsed' = Larger(maxUsed, usedBlocks + 1)
    /\ UNCHANGED freeCount

\* mempool_alloc under the lock: the head of the free list moves to the head of
\* the used list.
TakeBlock(b) ==
    /\ freeList' = next[b]
    /\ isFree' = [isFree EXCEPT ![b] = FALSE]
    /\ next' = [next EXCEPT ![b] = usedList]
    /\ prev' = Set([Set(prev, next[b], NULL) EXCEPT ![b] = NULL], usedList, b)
    /\ usedList' = b
    /\ usedBlocks' = usedBlocks + 1
    /\ freeBlocks' = freeBlocks - 1
    /\ allocCount' = allocCount + 1
    /\ maxUsed' = Larger(maxUsed, usedBlocks + 1)
    /\ UNCHANGED freeCount

\* mempool_alloc, mempool_calloc and mempool_realloc(NULL); the thread then
\* writes its data.  Without a free block nothing changes.
Alloc(t) ==
    /\ pc[t] = "idle"
    /\ allocCount < MaxAllocs
    /\ freeList # NULL
    /\ TakeBlock(freeList)
    /\ data' = [data EXCEPT ![freeList] = t]
    /\ held' = [held EXCEPT ![t] = @ \cup {freeList}]
    /\ UNCHANGED calls

\* mempool_free, and mempool_realloc to size 0, up to the lock.
FreeCheck(t) ==
    /\ pc[t] = "idle"
    /\ \E b \in held[t] :
        /\ ~isFree[b]
        /\ pc' = [pc EXCEPT ![t] = "free"]
        /\ old' = [old EXCEPT ![t] = b]
    /\ UNCHANGED <<links, stats, data, held, new>>

\* mempool_free under the lock: the block leaves the used list, wherever it is
\* in it, and becomes the head of the free list.
PutBlock(b) ==
    LET unlinkedNext == Set(next, prev[b], next[b])
        unlinkedPrev == Set(prev, next[b], prev[b])
    IN  /\ usedList' = IF prev[b] = NULL THEN next[b] ELSE usedList
        /\ isFree' = [isFree EXCEPT ![b] = TRUE]
        /\ next' = [unlinkedNext EXCEPT ![b] = freeList]
        /\ prev' = Set([unlinkedPrev EXCEPT ![b] = NULL], freeList, b)
        /\ freeList' = b
        /\ usedBlocks' = usedBlocks - 1
        /\ freeBlocks' = freeBlocks + 1
        /\ freeCount' = freeCount + 1
        /\ UNCHANGED <<maxUsed, allocCount>>

FreeDo(t) ==
    /\ pc[t] = "free"
    /\ PutBlock(old[t])
    /\ held' = [held EXCEPT ![t] = @ \ {old[t]}]
    /\ pc' = [pc EXCEPT ![t] = "idle"]
    /\ old' = [old EXCEPT ![t] = NULL]
    /\ new' = [new EXCEPT ![t] = NULL]
    /\ UNCHANGED data

\* mempool_realloc: the new block is taken; without one the old stays as it is.
ReallocTake(t) ==
    /\ pc[t] = "idle"
    /\ allocCount < MaxAllocs
    /\ freeList # NULL
    /\ \E b \in held[t] : old' = [old EXCEPT ![t] = b]
    /\ TakeBlock(freeList)
    /\ new' = [new EXCEPT ![t] = freeList]
    /\ pc' = [pc EXCEPT ![t] = "copy"]
    /\ UNCHANGED <<data, held>>

\* memcpy, and the part of mempool_free before the lock.
ReallocCopy(t) ==
    /\ pc[t] = "copy"
    /\ data' = [data EXCEPT ![new[t]] = data[old[t]]]
    /\ held' = [held EXCEPT ![t] = @ \cup {new[t]}]
    /\ pc' = [pc EXCEPT ![t] = IF isFree[old[t]] THEN "idle" ELSE "free"]
    /\ UNCHANGED <<links, stats, old, new>>

\* mempool_reset, which needs every pointer to be given up.
Reset ==
    /\ \A t \in Threads : pc[t] = "idle"
    /\ next' = FreshNext /\ prev' = FreshPrev
    /\ isFree' = [b \in Blocks |-> TRUE]
    /\ freeList' = 1 /\ usedList' = NULL
    /\ usedBlocks' = 0 /\ freeBlocks' = BlockCount
    /\ held' = [t \in Threads |-> {}]
    /\ UNCHANGED <<maxUsed, allocCount, freeCount, data, calls>>

Next ==
    \/ \E t \in Threads : Alloc(t) \/ FreeCheck(t) \/ FreeDo(t) \/ ReallocTake(t) \/ ReallocCopy(t)
    \/ Reset

Spec == Init /\ [][Next]_vars

-----------------------------------------------------------------------------
\* The n-th block from the head of a list, NULL past its end.
Nth(list) ==
    LET nth[n \in 0 .. BlockCount] ==
            IF n = 0 THEN list ELSE IF nth[n - 1] = NULL THEN NULL ELSE next[nth[n - 1]]
    IN  nth

InList(list) == {Nth(list)[n] : n \in 0 .. BlockCount} \ {NULL}

\* The two lists are what mempool_check looks for, and more: both end, they
\* share no block and miss none, a block's is_free says which one it is in,
\* prev undoes next, and the statistics count them.
ListsPartition ==
    /\ \A list \in {freeList, usedList} :
        /\ Nth(list)[BlockCount] = NULL
        /\ list # NULL => prev[list] = NULL
        /\ \A b \in InList(list) : next[b] # NULL => prev[next[b]] = b
    /\ InList(freeList) = {b \in Blocks : isFree[b]}
    /\ InList(usedList) = {b \in Blocks : ~isFree[b]}
    /\ Cardinality(InList(freeList)) = freeBlocks
    /\ Cardinality(InList(usedList)) = usedBlocks
    /\ usedBlocks <= maxUsed
=============================================================================
