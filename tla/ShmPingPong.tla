---------------------------- MODULE ShmPingPong -----------------------------
(***************************************************************************)
(* The two shared-memory benchmarks of ipc-bench (bench_shm.c): parent and *)
(* child answer each other Iterations times, by two flags on which they    *)
(* spin, or by two semaphores.  Accesses to the flags are steps of their   *)
(* own, in program order because of the barriers between them, except that *)
(* the parent sees done and clears it in one: the child does not touch done *)
(* until ready is raised again.                                            *)
(***************************************************************************)
EXTENDS Integers

CONSTANT Iterations

VARIABLES
    variant,            \* "flags" (bench_shm) or "semaphores"
    data,               \* the round whose message is in the region
    ready, done,        \* the flags, or the values of sem_prod and sem_cons
    parent, child,      \* where they are
    sentRounds, answered,
    erased              \* history: the child cleared a ready set for a later round

vars == <<variant, data, ready, done, parent, child, sentRounds, answered, erased>>

Init ==
    /\ variant \in {"flags", "semaphores"}
    /\ data = 0 /\ ready = 0 /\ done = 0
    /\ parent = "post" /\ child = "wait"
    /\ sentRounds = 0 /\ answered = 0
    /\ erased = FALSE

\* The parent writes the message and raises ready, or posts sem_prod.
ParentPosts ==
    /\ parent = "post"
    /\ data' = sentRounds + 1
    /\ ready' = IF variant = "flags" THEN 1 ELSE ready + 1
    /\ parent' = "wait"
    /\ sentRounds' = sentRounds + 1
    /\ UNCHANGED <<variant, done, child, answered, erased>>

\* It sees done and clears it, or gets through sem_wait.
ParentGets ==
    /\ parent = "wait" /\ done > 0
    /\ done' = IF variant = "flags" THEN 0 ELSE done - 1
    /\ parent' = IF sentRounds = Iterations THEN "reap" ELSE "post"
    /\ UNCHANGED <<variant, data, ready, child, sentRounds, answered, erased>>

\* waitpid
ParentReaps ==
    /\ parent = "reap" /\ child = "gone"
    /\ parent' = "returned"
    /\ UNCHANGED <<variant, data, ready, done, child, sentRounds, answered, erased>>

\* The child sees ready, or gets through sem_wait.
ChildGets ==
    /\ child = "wait" /\ ready > 0
    /\ ready' = IF variant = "flags" THEN ready ELSE ready - 1
    /\ child' = "answer"
    /\ UNCHANGED <<variant, data, done, parent, sentRounds, answered, erased>>

NextRound == IF answered' = Iterations THEN "gone" ELSE "wait"

\* Mutant: the semaphore is posted once for two rounds.
ChildAnswersOnce ==
    /\ child = "answer"
    /\ answered' = answered + 1
    /\ IF variant = "flags" THEN done' = 1 /\ child' = "clear"
       ELSE done' = (IF answered % 2 = 0 THEN done + 1 ELSE done) /\ child' = NextRound
    /\ UNCHANGED <<variant, data, ready, parent, sentRounds, erased>>

ChildAnswers ==
    /\ child = "answer"
    /\ answered' = answered + 1
    /\ IF variant = "flags" THEN done' = 1 /\ child' = "clear"
       ELSE done' = done + 1 /\ child' = NextRound
    /\ UNCHANGED <<variant, data, ready, parent, sentRounds, erased>>

\* The child clears ready, after it has raised done.
ChildClears ==
    /\ child = "clear"
    /\ ready' = 0
    /\ erased' = (erased \/ sentRounds > answered)
    /\ child' = IF answered = Iterations THEN "gone" ELSE "wait"
    /\ UNCHANGED <<variant, data, done, parent, sentRounds, answered>>

ParentStep == ParentPosts \/ ParentGets \/ ParentReaps
ChildStep == ChildGets \/ ChildAnswers \/ ChildClears
Next == ParentStep \/ ChildStep

Spec == Init /\ [][Next]_vars
Fairness == WF_vars(ParentStep) /\ WF_vars(ChildStep)

-----------------------------------------------------------------------------
\* Once begun the benchmark ends, unless the child, clearing ready last, erases
\* the signal of the next round; with semaphores it always ends.
BenchReturns == sentRounds > 0 ~> parent = "returned" \/ (variant = "flags" /\ erased)
=============================================================================
