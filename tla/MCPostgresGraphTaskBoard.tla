---------------------- MODULE MCPostgresGraphTaskBoard ----------------------
(***************************************************************************)
(* PostgresGraphTaskBoard for TLC: two sessions over three tasks, beside a *)
(* row of another namespace, on boards to which relatives may be added.    *)
(***************************************************************************)
EXTENDS PostgresGraphTaskBoard, TLC

CONSTANTS t1, t2, t3, far, a1

NoDeps == {{}}
Row(s, p) == [NewTask(p, {}) EXCEPT !.status = s, !.checkout = IF s = "todo" THEN NoAgent ELSE a1]

Siblings == (t1 :> Row("todo", NoTask)) @@ (t2 :> Row("in_progress", t1)) @@ (t3 :> Row("in_progress", t1))
Chain3 == (t1 :> Row("todo", NoTask)) @@ (t2 :> Row("todo", t1)) @@ (t3 :> Row("in_progress", t2))
Orphans == (t1 :> Row("in_progress", t2)) @@ (t2 :> Row("todo", far)) @@ (t3 :> Row("in_progress", far))
OneChild == (t1 :> Row("todo", far)) @@ (t2 :> Row("in_progress", t1))
MCBoards == {Siblings, Chain3, Orphans, OneChild}
=============================================================================
