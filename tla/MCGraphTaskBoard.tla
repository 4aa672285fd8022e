-------------------------- MODULE MCGraphTaskBoard --------------------------
(* Model-checking instance of GraphTaskBoard: the tasks are               *)
(* interchangeable.                                                         *)
EXTENDS GraphTaskBoard, TLC

CONSTANTS t1, t2, t3, a1

TaskSymmetry == Permutations(Tasks)

(* At most one dependency each. *)
SmallDeps == {{}} \cup {{t} : t \in Tasks}
=============================================================================
