------------------------------- MODULE LfsPool -------------------------------
(***************************************************************************)
(* linux-file-server/src/mempool.c: a stack of free blocks whose links are *)
(* kept in the blocks themselves.  A block in use holds its owner's data   *)
(* where the link was, so a link is meaningful only while the block is     *)
(* free: a thread may overwrite it (Use).  Everything under pool->lock is  *)
(* one step.  A thread frees only what it holds.                           *)
(***************************************************************************)
EXTENDS Integers, FiniteSets

CONSTANTS BlockCount, Threads

VARIABLES
    word,      \* the first word of each block: a link or a user's data
    freeList, freeCount,
    held       \* the blocks each thread holds

vars == <<word, freeList, freeCount, held>>

Blocks == 1 .. BlockCount
NULL == 0
Nobody == "nobody"

\* mempool_create links each block to the one before it.
Init ==
    /\ word = [b \in Blocks |-> b - 1]
    /\ freeList = BlockCount
    /\ freeCount = BlockCount
    /\ held = [t \in Threads |-> {}]

Alloc(t) ==
    /\ freeList # NULL
    /\ freeList' = word[freeList]
    /\ freeCount' = freeCount - 1
    /\ held' = [held EXCEPT ![t] = @ \cup {freeList}]
    /\ UNCHANGED word

\* Mutant: the head of the list is set before the link is taken from it.
FreeSwapped(t) ==
    /\ \E b \in held[t] :
        /\ word' = [word EXCEPT ![b] = b]
        /\ freeList' = b
        /\ held' = [held EXCEPT ![t] = @ \ {b}]
    /\ freeCount' = freeCount + 1

Free(t) ==
    /\ \E b \in held[t] :
        /\ word' = [word EXCEPT ![b] = freeList]
        /\ freeList' = b
        /\ held' = [held EXCEPT ![t] = @ \ {b}]
    /\ freeCount' = freeCount + 1

\* The owner of a block writes to it.
Use(t) ==
    /\ \E b \in held[t], v \in Blocks \cup {NULL} : word' = [word EXCEPT ![b] = v]
    /\ UNCHANGED <<freeList, freeCount, held>>

Next == \E t \in Threads : Alloc(t) \/ Free(t) \/ Use(t)

Spec == Init /\ [][Next]_vars

-----------------------------------------------------------------------------
Owner == [b \in Blocks |-> IF \E t \in Threads : b \in held[t]
                           THEN CHOOSE t \in Threads : b \in held[t] ELSE Nobody]

Pool == INSTANCE BlockPool WITH owner <- Owner

\* Whatever users write into their blocks, the stack of free blocks gives each
\* block to one thread at a time.
ImplementsPool == Pool!Spec
=============================================================================
