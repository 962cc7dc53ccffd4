---------------------------- MODULE MCThreadPool ----------------------------
(***************************************************************************)
(* Model-checking instances of the thread pool.                            *)
(***************************************************************************)
EXTENDS ThreadPool, TLC

\* Workers, producers and tasks are interchangeable; used only where no
\* temporal property is checked.
Symmetry == Permutations(Workers) \cup Permutations(Producers) \cup Permutations(Tasks)
=============================================================================
