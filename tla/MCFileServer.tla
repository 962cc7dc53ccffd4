---------------------------- MODULE MCFileServer ----------------------------
(***************************************************************************)
(* FileServer for TLC.  Connections are interchangeable, and so are        *)
(* threads; the symmetry is used by safety runs only.                      *)
(***************************************************************************)
EXTENDS FileServer, TLC

Symmetry == Permutations(Conns) \cup Permutations(Threads)
=============================================================================
