------------------------------ MODULE Pipeline ------------------------------
(***************************************************************************)
(* Pipeline.run over the graph orchestrator, with a runner wrapped as      *)
(* PipelineBuilder.build wraps it: a circuit breaker per agent around the  *)
(* budget check around the runner.  The budget wrapper is given a cost     *)
(* extractor; build gives it none, so that every cost it records is 0.     *)
(*                                                                         *)
(* run() and stop() are called on one pipeline.  A step is what a          *)
(* coroutine does between two suspensions: the event bus, a gate, the      *)
(* root task of a phase, the runner, the semaphore.  The execution of an   *)
(* agent is a summary of GraphOrchestrator.                                *)
(***************************************************************************)
EXTENDS Naturals, Sequences, FiniteSets

CONSTANTS
  LastPhase,    \* phases are 1..LastPhase, in order
  Execs,        \* executions: the root of each phase and those it may delegate
  Agents,
  Root,         \* per phase: its root execution
  PhaseOf, AgentOf,
  Gated,        \* the phases with gates
  Deadlines,    \* sets of phases with a timeout to check
  MaxConcurrent,
  MaxRetries,   \* per execution: a delegation may choose its own
  Limit,        \* max_total_usd
  MaxCost,      \* of one call
  Threshold     \* failure_threshold of the breakers

Phases == 1..LastPhase

ASSUME PipelineAssumption ==
  /\ LastPhase \in Nat \ {0}
  /\ IsFiniteSet(Execs)
  /\ Root \in [Phases -> Execs]
  /\ PhaseOf \in [Execs -> Phases] /\ AgentOf \in [Execs -> Agents]
  /\ \A p \in Phases : PhaseOf[Root[p]] = p
  /\ Gated \subseteq Phases /\ Deadlines \subseteq SUBSET Phases
  /\ MaxConcurrent \in Nat \ {0} /\ MaxRetries \in [Execs -> Nat]
  /\ Limit \in Nat \ {0} /\ MaxCost \in Nat /\ Threshold \in Nat \ {0}

VARIABLES
  timed,      \* the phases with a timeout
  at,         \* where run() is suspended
  current,    \* the phase of the loop
  outcomes,   \* _phase_results
  stopped,    \* _stopped
  run_id,     \* _current_run_id: the phase started last, or 0
  exec,       \* per execution: where its coroutine is suspended
  attempt,    \* per execution: failed attempts
  cancelled,  \* executions with a CancelledError to come
  results,    \* the orchestrator's _results
  spent,      \* total of the records of the tracker
  breaker,    \* per agent: state of its breaker
  failures    \* per agent: _consecutive_failures

loop    == <<at, current, outcomes, stopped, run_id>>
guards  == <<spent, breaker, failures>>
work    == <<exec, attempt, results>>
vars    == <<timed, loop, work, cancelled, guards>>

-----------------------------------------------------------------------------
Live(e)  == exec[e] \in {"queued", "calling", "notifying", "backoff"}
Calling  == {e \in Execs : exec[e] = "calling"}
Holding  == {e \in Execs : exec[e] \in {"calling", "notifying", "backoff"}}
Moves(e, to) == exec' = [exec EXCEPT ![e] = to]
Resumes(to)  == at' = to

(* Seeded bug: the limit itself is taken to be within the budget. *)
ExceededAbove == spent > Limit

IsExceeded == spent >= Limit

-----------------------------------------------------------------------------
(* Pipeline.run.                                                            *)

Run ==
  /\ at = "idle"
  /\ stopped' = FALSE /\ outcomes' = <<>> /\ current' = 1
  /\ Resumes("starting")
  /\ UNCHANGED <<timed, run_id, work, cancelled, guards>>

(* Seeded bug: a failed phase does not keep the next one from its turn. *)
NextPhaseGoesOn(outcome, p) ==
  LET rest == [i \in 1..(LastPhase + 1 - p) |-> "skipped"] IN
  IF stopped \/ p > LastPhase
  THEN outcomes' = outcome \o rest /\ Resumes("completing") /\ UNCHANGED current
  ELSE outcomes' = outcome /\ Resumes("announcing") /\ current' = p

(* The head of the loop, with what precedes it: an outcome to append.  A    *)
(* failure skips the rest; a stop skips the phases not begun.               *)
NextPhase(outcome, p) ==
  LET rest == [i \in 1..(LastPhase + 1 - p) |-> "skipped"] IN
  IF "failed" \in {outcome[i] : i \in DOMAIN outcome} \/ stopped \/ p > LastPhase
  THEN outcomes' = outcome \o rest /\ Resumes("completing") /\ UNCHANGED current
  ELSE outcomes' = outcome /\ Resumes("announcing") /\ current' = p

Started ==
  /\ at = "starting"
  /\ NextPhase(<<>>, 1)
  /\ UNCHANGED <<timed, stopped, run_id, work, cancelled, guards>>

(* The phase is announced: the budget is checked, the orchestrator started. *)
Announced ==
  /\ at = "announcing"
  /\ Resumes(IF IsExceeded THEN "failing" ELSE "launching")
  /\ UNCHANGED <<timed, current, outcomes, stopped, run_id, work, cancelled, guards>>

(* start() launches the root and returns; run() waits for the root. *)
Launch ==
  /\ at = "launching"
  /\ run_id' = current
  /\ Moves(Root[current], "queued")
  /\ Resumes("waiting")
  /\ UNCHANGED <<timed, current, outcomes, stopped, attempt, results, cancelled, guards>>

(* start() raises or is cancelled, by the timeout or with run(), while it   *)
(* announces the run: the phase fails, its root is not launched.            *)
LaunchFails ==
  /\ at = "launching"
  /\ Resumes("failing")
  /\ UNCHANGED <<timed, current, outcomes, stopped, run_id, work, cancelled, guards>>

(* Seeded bug: the timeout shields the root. *)
WaitCancelledShielded ==
  /\ at = "waiting"
  /\ Resumes("failing")
  /\ UNCHANGED <<timed, current, outcomes, stopped, run_id, work, cancelled, guards>>

(* Cancelled, by the timeout or with run(), wait_for_task cancels the root, *)
(* and goes on to wait for its end.                                         *)
WaitCancelled ==
  /\ at = "waiting"
  /\ Live(Root[current])
  /\ cancelled' = cancelled \cup {Root[current]}
  /\ UNCHANGED <<timed, loop, work, guards>>

TimesOut == current \in timed /\ (LaunchFails \/ WaitCancelled)

(* Seeded bug: run() waits for a result. *)
WaitEndsByResult ==
  /\ at = "waiting"
  /\ exec[Root[current]] = "ended"
  /\ Root[current] \in results
  /\ Resumes(IF current \in Gated THEN "gating" ELSE "passing")
  /\ UNCHANGED <<timed, current, outcomes, stopped, run_id, work, cancelled, guards>>

(* The root ended: without a result, the phase failed. *)
WaitEnds ==
  /\ at = "waiting"
  /\ exec[Root[current]] = "ended"
  /\ Resumes(IF Root[current] \notin results THEN "failing"
             ELSE IF current \in Gated THEN "gating" ELSE "passing")
  /\ UNCHANGED <<timed, current, outcomes, stopped, run_id, work, cancelled, guards>>

GatesAnswer ==
  /\ at = "gating"
  /\ \/ Resumes("passing") \/ Resumes("failing")
  /\ UNCHANGED <<timed, current, outcomes, stopped, run_id, work, cancelled, guards>>

(* The event of the phase's outcome was emitted. *)
PhaseEnds ==
  /\ \/ at = "passing" /\ NextPhase(Append(outcomes, "completed"), current + 1)
     \/ at = "failing" /\ NextPhase(Append(outcomes, "failed"), current + 1)
  /\ UNCHANGED <<timed, stopped, run_id, work, cancelled, guards>>

Complete ==
  /\ at = "completing"
  /\ Resumes("done")
  /\ UNCHANGED <<timed, current, outcomes, stopped, run_id, work, cancelled, guards>>

(* The bus or a gate raises, or run() is cancelled: run() raises. *)
Raises ==
  /\ at \in {"starting", "announcing", "gating", "passing", "failing", "completing"}
  /\ Resumes("raised")
  /\ UNCHANGED <<timed, current, outcomes, stopped, run_id, work, cancelled, guards>>

(* stop(), at any time: the executions of the run started last, if any, are *)
(* cancelled, and a phase that starts meanwhile is missed.                  *)
Stop ==
  /\ stopped' = TRUE
  /\ cancelled' = cancelled \cup {e \in Execs : PhaseOf[e] = run_id /\ Live(e)}
  /\ UNCHANGED <<timed, at, current, outcomes, run_id, work, guards>>

-----------------------------------------------------------------------------
(* Executions.                                                              *)

(* An attempt failed: a backoff that keeps the slot, or the end. *)
AttemptFails(e) ==
  /\ attempt' = [attempt EXCEPT ![e] = @ + 1]
  /\ Moves(e, IF attempt[e] < MaxRetries[e] THEN "backoff" ELSE "ended")

(* Seeded bug: the probe that closes the breaker leaves the count. *)
RecordSuccessKeepsCount(a) ==
  /\ failures' = [failures EXCEPT ![a] = IF breaker[a] = "half_open" THEN @ ELSE 0]
  /\ breaker' = [breaker EXCEPT ![a] = IF @ = "half_open" THEN "closed" ELSE @]

RecordSuccess(a) ==
  /\ failures' = [failures EXCEPT ![a] = 0]
  /\ breaker' = [breaker EXCEPT ![a] = IF @ = "half_open" THEN "closed" ELSE @]

RecordFailure(a, state) ==
  /\ failures' = [failures EXCEPT ![a] = @ + 1]
  /\ breaker' = [breaker EXCEPT ![a] =
                   IF state = "half_open" \/ failures[a] + 1 >= Threshold THEN "open" ELSE state]

(* The answers of allow_request, as the state the breaker is then in: an    *)
(* open breaker admits once it has cooled down.                             *)
Allowed(a) == IF breaker[a] = "closed" THEN {"closed"} ELSE {"half_open"}

(* The root's runner delegates a task of its phase. *)
Delegate(d) ==
  /\ exec[d] = "none" /\ d # Root[PhaseOf[d]]
  /\ exec[Root[PhaseOf[d]]] = "calling"
  /\ Moves(d, "queued")
  /\ UNCHANGED <<timed, loop, attempt, results, cancelled, guards>>

(* A slot is free: the breaker and the budget are asked, the runner called. *)
Acquires(e) ==
  /\ exec[e] = "queued" /\ e \notin cancelled
  /\ Cardinality(Holding) < MaxConcurrent

Refused(e) ==
  /\ Acquires(e)
  /\ breaker[AgentOf[e]] = "open"
  /\ AttemptFails(e)
  /\ UNCHANGED <<timed, loop, results, cancelled, guards>>

OverBudget(e) ==
  /\ Acquires(e)
  /\ IsExceeded
  /\ \E state \in Allowed(AgentOf[e]) : RecordFailure(AgentOf[e], state)
  /\ AttemptFails(e)
  /\ UNCHANGED <<timed, loop, results, cancelled, spent>>

Call(e) ==
  /\ Acquires(e)
  /\ ~IsExceeded
  /\ \E state \in Allowed(AgentOf[e]) : breaker' = [breaker EXCEPT ![AgentOf[e]] = state]
  /\ Moves(e, "calling")
  /\ UNCHANGED <<timed, loop, attempt, results, cancelled, spent, failures>>

(* The runner returns: the cost is recorded, the result kept. *)
Returns(e) ==
  /\ exec[e] = "calling" /\ e \notin cancelled
  /\ \E cost \in 0..MaxCost : spent' = spent + cost
  /\ RecordSuccess(AgentOf[e])
  /\ results' = results \cup {e}
  /\ Moves(e, "notifying")
  /\ UNCHANGED <<timed, loop, attempt, cancelled>>

(* The runner raises: nothing is recorded. *)
RunnerRaises(e) ==
  /\ exec[e] = "calling" /\ e \notin cancelled
  /\ RecordFailure(AgentOf[e], breaker[AgentOf[e]])
  /\ AttemptFails(e)
  /\ UNCHANGED <<timed, loop, results, cancelled, spent>>

Finish(e) ==
  /\ exec[e] = "notifying" /\ e \notin cancelled
  /\ Moves(e, "ended")
  /\ UNCHANGED <<timed, loop, attempt, results, cancelled, guards>>

Retry(e) ==
  /\ exec[e] = "backoff" /\ e \notin cancelled
  /\ Moves(e, "queued")
  /\ UNCHANGED <<timed, loop, attempt, results, cancelled, guards>>

(* Neither the budget nor the breaker is told. *)
Cancelled(e) ==
  /\ e \in cancelled /\ Live(e)
  /\ Moves(e, "ended")
  /\ UNCHANGED <<timed, loop, attempt, results, cancelled, guards>>

-----------------------------------------------------------------------------
Init ==
  /\ timed \in Deadlines
  /\ at = "idle" /\ current = 1 /\ outcomes = <<>> /\ stopped = FALSE /\ run_id = 0
  /\ exec = [e \in Execs |-> "none"] /\ attempt = [e \in Execs |-> 0]
  /\ cancelled = {} /\ results = {}
  /\ spent = 0
  /\ breaker = [a \in Agents |-> "closed"] /\ failures = [a \in Agents |-> 0]

Answered == Started \/ Announced \/ Launch \/ WaitEnds \/ GatesAnswer \/ PhaseEnds \/ Complete

RunnerEnds(e) == Returns(e) \/ RunnerRaises(e)
Step(e) == Refused(e) \/ OverBudget(e) \/ Call(e) \/ Finish(e) \/ Retry(e) \/ Cancelled(e)

Next ==
  \/ Run \/ Answered \/ LaunchFails \/ WaitCancelled \/ Raises \/ Stop
  \/ \E e \in Execs : Delegate(e) \/ RunnerEnds(e) \/ Step(e)

Spec == Init /\ [][Next]_vars

(* The bus and the gates answer, timeouts fire.  Runners end, unless every  *)
(* phase has a timeout.                                                     *)
FairSpec ==
  /\ Spec
  /\ WF_vars(Answered) /\ WF_vars(TimesOut)
  /\ \A e \in Execs : WF_vars(Step(e)) /\ WF_vars(timed # Phases /\ RunnerEnds(e))

-----------------------------------------------------------------------------
(* Correctness.                                                             *)

(* Every variable has its type. *)
TypeOK ==
  /\ timed \in SUBSET Phases
  /\ at \in {"idle", "starting", "announcing", "launching", "waiting", "gating", "passing",
             "failing", "completing", "done", "raised"}
  /\ current \in Phases
  /\ outcomes \in Seq({"completed", "failed", "skipped"})
  /\ stopped \in BOOLEAN
  /\ run_id \in 0..LastPhase
  /\ exec \in [Execs -> {"none", "queued", "calling", "notifying", "backoff", "ended"}]
  /\ attempt \in [Execs -> Nat]
  /\ cancelled \in SUBSET Execs /\ results \in SUBSET Execs
  /\ spent \in Nat
  /\ breaker \in [Agents -> {"closed", "open", "half_open"}]
  /\ failures \in [Agents -> Nat]

(* The wrapper checks the budget before a call and records its cost after: *)
(* the calls under way when the limit is reached are all that is spent     *)
(* above it, whatever is retried, cancelled or delegated meanwhile.        *)
OvershootBounded == spent < Limit + MaxConcurrent * MaxCost

(* A root runs only while run() waits for it: a phase that timed out, was  *)
(* stopped or cancelled has no root that still works beside the next one,  *)
(* or after run() has returned or raised.                                  *)
RootWorksInItsPhase ==
  \A p \in Phases : Live(Root[p]) => at = "waiting" /\ current = p

(* What run() reports of its phases is what became of them, although stops *)
(* and timeouts cross the ends of their roots: a completed phase has the   *)
(* result of its root, a skipped one never launched its root, none has its *)
(* turn after one that failed or was skipped, and run() does not return    *)
(* before each phase has its outcome.                                      *)
OutcomesAreTrue ==
  /\ \A p \in DOMAIN outcomes :
       /\ outcomes[p] = "completed" => Root[p] \in results
       /\ outcomes[p] = "skipped" => exec[Root[p]] = "none"
       /\ outcomes[p] # "skipped" => \A q \in 1..(p - 1) : outcomes[q] = "completed"
  /\ at \in {"completing", "done"} => DOMAIN outcomes = Phases

(* A breaker that admits freely has seen fewer failures in a row than its   *)
(* threshold, although results arrive late: calls admitted while it was     *)
(* closed fail or succeed when it is open or half-open, and such a success  *)
(* closes a half-open breaker as a probe's does.                            *)
ConsecutiveFailuresOpen ==
  \A a \in Agents : breaker[a] = "closed" => failures[a] < Threshold

(* run() returns or raises, although the executions that a failed phase    *)
(* delegated keep their slots: whatever the runners do when every phase    *)
(* has a timeout, and if they end otherwise.                               *)
RunEnds == at = "starting" ~> at \in {"done", "raised"}
=============================================================================
