----------------------------- MODULE MCPipeline -----------------------------
(***************************************************************************)
(* Pipeline for TLC: two phases under one root agent, which delegates two  *)
(* tasks of the first phase to another agent.                              *)
(***************************************************************************)
EXTENDS Pipeline

CONSTANTS r1, r2, d1, d2, lead, dev

MCExecs == {r1, r2, d1, d2}
MCAgents == {lead, dev}
MCRoot == <<r1, r2>>
MCPhaseOf == [e \in MCExecs |-> IF e = r2 THEN 2 ELSE 1]
MCAgentOf == [e \in MCExecs |-> IF e \in {d1, d2} THEN dev ELSE lead]
MCGated == {1}
MCDeadlines == {{1}, {1, 2}}
MCMaxRetries == [e \in MCExecs |-> CASE e = d1 -> 2 [] e = r1 -> 1 [] OTHER -> 0]
=============================================================================
