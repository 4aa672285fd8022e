------------------------ MODULE MCGraphOrchestrator ------------------------
(* Model-checking instances of GraphOrchestrator: run r1 with root t1, run r2 *)
(* with root t2, and the other tasks delegated.                              *)
EXTENDS GraphOrchestrator, TLC

CONSTANTS t1, t2, t3, r1, r2

OneRoot  == r1 :> t1
TwoRoots == r1 :> t1 @@ r2 :> t2

(* The two runs, each with its root, may change places. *)
SwapRuns == {f \in Permutations({t1, t2, r1, r2}) :
               \A r \in {r1, r2} : f[r] \in {r1, r2} /\ f[RootTask[r]] = RootTask[f[r]]}

(* Retries: none, or the orchestrator's one for roots and two for delegations. *)
Never      == [t \in Tasks |-> 0]
RootsOnce  == [t \in Tasks |-> IF t \in Roots THEN 1 ELSE 2]
=============================================================================
