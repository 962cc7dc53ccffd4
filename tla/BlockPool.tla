------------------------------ MODULE BlockPool ------------------------------
(***************************************************************************)
(* What a pool of equal blocks promises: a block has at most one owner, it *)
(* is given to a thread only while it has none, and its owner alone gives  *)
(* it back, except that a reset takes back all of them at once.            *)
(***************************************************************************)
CONSTANTS Blocks, Threads, Nobody

VARIABLE owner

Init == owner = [b \in Blocks |-> Nobody]

Alloc(t, b) == owner[b] = Nobody /\ owner' = [owner EXCEPT ![b] = t]

Free(t, b) == owner[b] = t /\ owner' = [owner EXCEPT ![b] = Nobody]

Reset == owner' = [b \in Blocks |-> Nobody]

Next == Reset \/ \E t \in Threads, b \in Blocks : Alloc(t, b) \/ Free(t, b)

Spec == Init /\ [][Next]_owner
=============================================================================
