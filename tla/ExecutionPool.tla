--------------------------- MODULE ExecutionPool ---------------------------
(***************************************************************************)
(* What an orchestrator promises about the executions it launches, whatever *)
(* runs, boards, buses and approvals are behind it: at most MaxConcurrent   *)
(* of them work or rest before a retry, none is tried more often than       *)
(* MaxRetries allows, and one is over only with its result, after its last  *)
(* failure, or because it was asked to stop.                                *)
(***************************************************************************)
EXTENDS Naturals, FiniteSets

CONSTANTS Tasks, MaxConcurrent, MaxRetries

VARIABLES
  stage,    \* where the execution of each task is
  failed,   \* how many of its attempts failed
  asked,    \* the tasks whose execution was asked to stop
  kept      \* the tasks whose result is kept

vars == <<stage, failed, asked, kept>>

Launched == {t \in Tasks : stage[t] \in {"waiting", "working", "resting", "leaving"}}
Busy     == {t \in Tasks : stage[t] \in {"working", "resting"}}

Goes(t, to) == stage' = [stage EXCEPT ![t] = to]

Init ==
  /\ stage = [t \in Tasks |-> "idle"]
  /\ failed = [t \in Tasks |-> 0]
  /\ asked = {} /\ kept = {}

Submit(t) ==
  /\ stage[t] = "idle"
  /\ Goes(t, "waiting")
  /\ UNCHANGED <<failed, asked, kept>>

Begin(t) ==
  /\ stage[t] = "waiting" /\ t \notin asked
  /\ failed[t] <= MaxRetries[t]
  /\ Cardinality(Busy) < MaxConcurrent
  /\ Goes(t, "working")
  /\ UNCHANGED <<failed, asked, kept>>

Keep(t) ==
  /\ stage[t] = "working" /\ t \notin asked
  /\ kept' = kept \cup {t}
  /\ UNCHANGED <<stage, failed, asked>>

Fail(t) ==
  /\ stage[t] = "working" /\ t \notin asked
  /\ failed' = [failed EXCEPT ![t] = @ + 1]
  /\ Goes(t, IF failed[t] < MaxRetries[t] THEN "resting" ELSE "leaving")
  /\ kept' \in {kept, kept \cup {t}}
  /\ UNCHANGED asked

Retry(t) ==
  /\ stage[t] = "resting" /\ t \notin asked
  /\ Goes(t, "waiting")
  /\ UNCHANGED <<failed, asked, kept>>

(* The execution is over: with its result, given up, or stopped. *)
End(t) ==
  /\ \/ stage[t] = "working" /\ t \in kept \ asked
     \/ stage[t] = "leaving" /\ t \notin asked
     \/ t \in Launched \cap asked
  /\ Goes(t, "over")
  /\ UNCHANGED <<failed, asked, kept>>

(* stop, or the cancellation of whoever waits for an execution. *)
Ask(S) ==
  /\ S \subseteq Launched
  /\ asked' = asked \cup S
  /\ UNCHANGED <<stage, failed, kept>>

Next ==
  \/ \E t \in Tasks :
       Submit(t) \/ Begin(t) \/ Keep(t) \/ Fail(t) \/ Retry(t) \/ End(t)
  \/ \E S \in SUBSET Tasks : Ask(S)

Spec == Init /\ [][Next]_vars
=============================================================================
