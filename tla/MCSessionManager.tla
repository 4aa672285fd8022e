-------------------------- MODULE MCSessionManager --------------------------
(***************************************************************************)
(* SessionManager for TLC: two orderly worlds and two disorderly ones, one *)
(* of them without a close.                                                *)
(***************************************************************************)
EXTENDS SessionManager

CONSTANTS t1, t2, a1, a2, u1, c1

MCTurns == {t1, t2}
MCOpeners == {a1, a2}
MCUpdaters == {u1}
MCClosers == {c1}

MCWorlds ==
  {[orderly |-> TRUE,  saved |-> NoSnapshot, calls |-> {t1, t2, a1, a2}],
   [orderly |-> TRUE,  saved |-> NoSnapshot, calls |-> {t1, a1, a2, u1, c1}],
   [orderly |-> FALSE, saved |-> NoSnapshot, calls |-> {t1, t2, a1, c1}]}

RacingWorlds == {[orderly |-> FALSE, saved |-> {}, calls |-> {t1, a1, u1}]}
=============================================================================
