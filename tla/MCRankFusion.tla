---------------------------- MODULE MCRankFusion ----------------------------
(* Two documents of two chunks. *)
EXTENDS RankFusion

MCDocOf == [c \in 1..4 |-> IF c <= 2 THEN "handbook" ELSE "notes"]
MCSimilarities == {-1, 1, 2}
=============================================================================
