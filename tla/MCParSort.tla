----------------------------- MODULE MCParSort -----------------------------
(* Instances of the parallel merge sort. *)
EXTENDS ParSort, TLC

(* All files of at most three numbers, up to their order, and some of four. *)
MCFiles == UNION {[1 .. n -> 1 .. 2] : n \in 0 .. 3}
           \cup Permutations(1 .. 3)
           \cup {<<4, 3, 2, 1>>, <<1, 2, 1, 2>>, <<2, 1, 2, 1>>, <<3, 1, 2, 1>>}
MCThresholds == 0 .. 3
=============================================================================
