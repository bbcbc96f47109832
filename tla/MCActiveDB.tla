----------------------------- MODULE MCActiveDB -----------------------------
(* Two groups that share a bucket and one of its own, from two servers. *)
EXTENDS ActiveDB

MCHash == [g \in Group |-> IF g = "g3" THEN 2 ELSE 1]
MCLists == <<{"g1", "g3"}, {"g2"}>>
=============================================================================
