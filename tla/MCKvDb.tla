------------------------------- MODULE MCKvDb -------------------------------
(***************************************************************************)
(* KvDb for TLC: three keys, two of which share a bucket.                  *)
(***************************************************************************)
EXTENDS KvDb

MCKeys == {"a", "b", "c"}
MCHash == [k \in MCKeys |-> IF k = "c" THEN 1 ELSE 0]
=============================================================================
