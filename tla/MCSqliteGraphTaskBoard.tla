----------------------- MODULE MCSqliteGraphTaskBoard -----------------------
(* Model-checking instances of SqliteGraphTaskBoard. *)
EXTENDS SqliteGraphTaskBoard, TLC

CONSTANTS t1, t2, a1, a2, c1, c2

RowSymmetry == Permutations(Tasks) \cup Permutations(Agents) \cup Permutations(Conns)

(* No dependency: no update reads them. *)
NoDeps == {{}}
=============================================================================
