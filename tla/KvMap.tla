------------------------------- MODULE KvMap --------------------------------
(***************************************************************************)
(* What the key-value database promises while nothing fails: a map that is *)
(* changed one key at a time, saved when the database is closed and found  *)
(* again when it is opened.                                                *)
(***************************************************************************)
CONSTANTS Keys, Values, None

VARIABLES map,     \* the contents while open, nothing bound while closed
          saved,   \* what a later open finds
          open     \* BOOLEAN

mvars == <<map, saved, open>>

Nothing == [k \in Keys |-> None]

Init == map = Nothing /\ saved = Nothing /\ open = FALSE

Open == ~open /\ open' = TRUE /\ map' = saved /\ UNCHANGED saved
Create == ~open /\ open' = TRUE /\ map' = Nothing /\ saved' = Nothing
Set(k, v) == open /\ map' = [map EXCEPT ![k] = v] /\ UNCHANGED <<saved, open>>
Delete(k) ==
    /\ open /\ map[k] # None
    /\ map' = [map EXCEPT ![k] = None]
    /\ UNCHANGED <<saved, open>>
Clear == open /\ map' = Nothing /\ UNCHANGED <<saved, open>>
Close == open /\ open' = FALSE /\ saved' = map /\ map' = Nothing

Next ==
    \/ Open \/ Create \/ Clear \/ Close
    \/ \E k \in Keys : Delete(k) \/ \E v \in Values : Set(k, v)

Spec == Init /\ [][Next]_mvars
=============================================================================
