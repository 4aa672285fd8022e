--------------------------- MODULE PipelineProofs ---------------------------
(***************************************************************************)
(* Theorems about Pipeline, for any phases, executions, agents, limits,    *)
(* deadlines, retries and size of the semaphore.                           *)
(***************************************************************************)
EXTENDS Pipeline, FiniteSetTheorems, TLAPS

Places   == {"idle", "starting", "announcing", "launching", "waiting", "gating", "passing",
             "failing", "completing", "done", "raised"}
Outcomes == {"completed", "failed", "skipped"}

LoopOK ==
  /\ timed \in SUBSET Phases
  /\ at \in Places
  /\ current \in Phases
  /\ outcomes \in Seq(Outcomes)
  /\ stopped \in BOOLEAN
  /\ run_id \in 0..LastPhase

WorkOK ==
  /\ exec \in [Execs -> {"none", "queued", "calling", "notifying", "backoff", "ended"}]
  /\ attempt \in [Execs -> Nat]
  /\ cancelled \in SUBSET Execs
  /\ results \in SUBSET Execs

GuardsOK ==
  /\ spent \in Nat
  /\ breaker \in [Agents -> {"closed", "open", "half_open"}]
  /\ failures \in [Agents -> Nat]

LEMMA TypeParts == TypeOK <=> LoopOK /\ WorkOK /\ GuardsOK
BY DEF TypeOK, LoopOK, WorkOK, GuardsOK, Places, Outcomes

(* What the coroutines of executions do. *)
ExecStep(e) == Delegate(e) \/ RunnerEnds(e) \/ Step(e)

LEMMA NextCases ==
  Next <=> \/ Run \/ Answered \/ LaunchFails \/ WaitCancelled \/ Raises \/ Stop
           \/ \E e \in Execs : ExecStep(e)
BY DEF Next, ExecStep

-----------------------------------------------------------------------------
(* Types.                                                                   *)

(* The head of the loop appends at most the phases that are left. *)
LEMMA NextPhaseTyped ==
  ASSUME NEW outcome \in Seq(Outcomes), NEW p \in 1..(LastPhase + 1), NextPhase(outcome, p),
         current \in Phases
  PROVE  outcomes' \in Seq(Outcomes) /\ at' \in Places /\ current' \in Phases
<1>1. LastPhase \in Nat
  BY PipelineAssumption
<1>2. [i \in 1..(LastPhase + 1 - p) |-> "skipped"] \in Seq(Outcomes)
  <2>1. LastPhase + 1 - p \in Nat
    BY <1>1
  <2>2. QED
    BY <2>1 DEF Outcomes
<1>3. outcome \o [i \in 1..(LastPhase + 1 - p) |-> "skipped"] \in Seq(Outcomes)
  BY <1>2
<1>4. CASE outcomes' = outcome \o [i \in 1..(LastPhase + 1 - p) |-> "skipped"]
           /\ at' = "completing" /\ current' = current
  BY <1>3, <1>4 DEF Places
<1>5. CASE outcomes' = outcome /\ at' = "announcing" /\ current' = p /\ p <= LastPhase
  BY <1>1, <1>5 DEF Places, Phases
<1>6. QED
  BY <1>1, <1>4, <1>5 DEF NextPhase, Resumes

(* A step of run() or stop() keeps the types of the loop. *)
LEMMA RunTyped ==
  ASSUME LoopOK, Run \/ Answered \/ LaunchFails \/ WaitCancelled \/ Raises \/ Stop
  PROVE  LoopOK'
<1>1. LastPhase \in Nat \ {0} /\ 1 \in Phases
  BY PipelineAssumption DEF Phases
<1>0. <<>> \in Seq(Outcomes)
  OBVIOUS
<1>2. CASE Run
  BY <1>0, <1>1, <1>2 DEF Run, LoopOK, Resumes, Places
<1>3. CASE Started
  <2>1. NextPhase(<<>>, 1) /\ current \in Phases /\ 1 \in 1..(LastPhase + 1)
    BY <1>1, <1>3 DEF Started, LoopOK
  <2>2. outcomes' \in Seq(Outcomes) /\ at' \in Places /\ current' \in Phases
    BY <1>0, <2>1, NextPhaseTyped
  <2>3. QED
    BY <1>3, <2>2 DEF Started, LoopOK
<1>4. CASE PhaseEnds
  <2>1. /\ Append(outcomes, "completed") \in Seq(Outcomes)
        /\ Append(outcomes, "failed") \in Seq(Outcomes)
    BY DEF LoopOK, Outcomes
  <2>2. current + 1 \in 1..(LastPhase + 1)
    BY <1>1 DEF LoopOK, Phases
  <2>3. outcomes' \in Seq(Outcomes) /\ at' \in Places /\ current' \in Phases
    BY <1>4, <2>1, <2>2, NextPhaseTyped DEF PhaseEnds, LoopOK
  <2>4. QED
    BY <1>4, <2>3 DEF PhaseEnds, LoopOK
<1>5. CASE Launch
  BY <1>1, <1>5 DEF Launch, LoopOK, Resumes, Places, Phases
<1>6. CASE Announced \/ WaitEnds \/ GatesAnswer \/ Complete \/ LaunchFails \/ Raises
  BY <1>6 DEF Announced, WaitEnds, GatesAnswer, Complete, LaunchFails, Raises, LoopOK, Resumes, Places
<1>7. CASE WaitCancelled \/ Stop
  BY <1>7 DEF WaitCancelled, Stop, LoopOK, loop
<1>8. QED
  BY <1>2, <1>3, <1>4, <1>5, <1>6, <1>7 DEF Answered

(* Of what the executions own, run() and stop() change one launch and the   *)
(* cancellations.                                                           *)
LEMMA RunWork ==
  ASSUME LoopOK, Run \/ Answered \/ LaunchFails \/ WaitCancelled \/ Raises \/ Stop
  PROVE  /\ UNCHANGED <<spent, breaker, failures, attempt, results>>
         /\ \/ Launch /\ cancelled' = cancelled
            \/ exec' = exec /\ cancelled' \subseteq cancelled \cup Execs
<1>1. CASE Launch
  BY <1>1 DEF Launch, guards
<1>2. CASE Run \/ LaunchFails \/ Raises \/ Stop
  BY <1>2 DEF Run, LaunchFails, Raises, Stop, work, guards
<1>3. CASE WaitCancelled
  <2>1. Root[current] \in Execs
    BY PipelineAssumption DEF LoopOK
  <2>2. QED
    BY <1>3, <2>1 DEF WaitCancelled, work, guards
<1>4. CASE Started \/ Announced \/ WaitEnds \/ GatesAnswer \/ PhaseEnds \/ Complete
  BY <1>4 DEF Started, Announced, WaitEnds, GatesAnswer, PhaseEnds, Complete, work, guards
<1>5. QED
  BY <1>1, <1>2, <1>3, <1>4 DEF Answered

(* What each step of an execution does to it, to the money spent and to the *)
(* breakers.  Nothing else changes.                                         *)
LEMMA ExecShape ==
  ASSUME WorkOK, GuardsOK, NEW e \in Execs, ExecStep(e)
  PROVE  /\ UNCHANGED <<timed, loop, cancelled>>
         /\ attempt' \in [Execs -> Nat] /\ results' \in SUBSET Execs /\ results \subseteq results'
         /\ breaker' \in [Agents -> {"closed", "open", "half_open"}]
         /\ failures' \in [Agents -> Nat]
         /\ ConsecutiveFailuresOpen => ConsecutiveFailuresOpen'
         /\ \/ /\ exec[e] = "none" /\ e # Root[PhaseOf[e]] /\ Moves(e, "queued") /\ spent' = spent
            \/ /\ exec[e] = "queued" /\ Cardinality(Holding) < MaxConcurrent
               /\ \/ \E to \in {"backoff", "ended"} : Moves(e, to)
                  \/ ~IsExceeded /\ Moves(e, "calling")
               /\ spent' = spent
            \/ /\ exec[e] = "calling" /\ Moves(e, "notifying")
               /\ \E cost \in 0..MaxCost : spent' = spent + cost
            \/ /\ exec[e] \in {"calling", "notifying", "backoff", "queued"} /\ spent' = spent
               /\ \/ Moves(e, "ended")
                  \/ exec[e] = "calling" /\ Moves(e, "backoff")
                  \/ exec[e] = "backoff" /\ Moves(e, "queued")
<1>1. PICK a \in Agents : a = AgentOf[e]
  BY PipelineAssumption
<1>2. AttemptFails(e) => /\ attempt' \in [Execs -> Nat]
                         /\ Moves(e, "backoff") \/ Moves(e, "ended")
  BY DEF AttemptFails, WorkOK
<1>3. ASSUME NEW state \in {"closed", "open", "half_open"}, RecordFailure(a, state)
      PROVE  /\ breaker' \in [Agents -> {"closed", "open", "half_open"}]
             /\ failures' \in [Agents -> Nat]
             /\ ConsecutiveFailuresOpen => ConsecutiveFailuresOpen'
  BY <1>3, PipelineAssumption DEF RecordFailure, GuardsOK, ConsecutiveFailuresOpen
<1>4. Allowed(a) \subseteq {"closed", "open", "half_open"}
      /\ ("closed" \in Allowed(a) => breaker[a] = "closed")
  BY DEF Allowed
<1>5. CASE Delegate(e)
  BY <1>5 DEF Delegate, WorkOK, GuardsOK, guards, ConsecutiveFailuresOpen
<1>6. CASE Refused(e)
  BY <1>2, <1>6 DEF Refused, Acquires, WorkOK, GuardsOK, guards, ConsecutiveFailuresOpen
<1>7. CASE OverBudget(e)
  BY <1>1, <1>2, <1>3, <1>4, <1>7 DEF OverBudget, Acquires, WorkOK, GuardsOK
<1>8. CASE Call(e)
  <2>1. PICK state \in Allowed(a) : breaker' = [breaker EXCEPT ![a] = state]
    BY <1>1, <1>8 DEF Call
  <2>2. /\ breaker' \in [Agents -> {"closed", "open", "half_open"}]
        /\ ConsecutiveFailuresOpen => ConsecutiveFailuresOpen'
    BY <1>4, <1>8, <2>1 DEF Call, GuardsOK, ConsecutiveFailuresOpen
  <2>3. QED
    BY <1>8, <2>2 DEF Call, Acquires, WorkOK, GuardsOK
<1>9. CASE Returns(e)
  <2>1. /\ breaker' \in [Agents -> {"closed", "open", "half_open"}]
        /\ failures' \in [Agents -> Nat]
        /\ ConsecutiveFailuresOpen => ConsecutiveFailuresOpen'
    BY <1>1, <1>9, PipelineAssumption DEF Returns, RecordSuccess, GuardsOK, ConsecutiveFailuresOpen
  <2>2. QED
    BY <1>9, <2>1 DEF Returns, WorkOK
<1>10. CASE RunnerRaises(e)
  <2>1. breaker[a] \in {"closed", "open", "half_open"}
    BY DEF GuardsOK
  <2>2. QED
    BY <1>1, <1>2, <1>3, <1>10, <2>1 DEF RunnerRaises, WorkOK, GuardsOK
<1>11. CASE Finish(e) \/ Retry(e)
  BY <1>11 DEF Finish, Retry, WorkOK, GuardsOK, guards, ConsecutiveFailuresOpen
<1>12. CASE Cancelled(e)
  BY <1>12 DEF Cancelled, Live, WorkOK, GuardsOK, guards, ConsecutiveFailuresOpen
<1>13. QED
  BY <1>5, <1>6, <1>7, <1>8, <1>9, <1>10, <1>11, <1>12 DEF ExecStep, RunnerEnds, Step

(* Every variable keeps its type. *)
LEMMA StepTyped == TypeOK /\ [Next]_vars => TypeOK'
<1> SUFFICES ASSUME LoopOK, WorkOK, GuardsOK, [Next]_vars
             PROVE  LoopOK' /\ WorkOK' /\ GuardsOK'
  BY TypeParts DEF TypeOK, LoopOK, WorkOK, GuardsOK, Places, Outcomes
<1>1. CASE Run \/ Answered \/ LaunchFails \/ WaitCancelled \/ Raises \/ Stop
  <2>1. LoopOK'
    BY <1>1, RunTyped
  <2>2. GuardsOK'
    BY <1>1, RunWork DEF GuardsOK
  <2>3. Launch => exec' \in [Execs -> {"none", "queued", "calling", "notifying", "backoff", "ended"}]
    BY DEF Launch, Moves, WorkOK
  <2>4. WorkOK'
    BY <1>1, <2>3, RunWork DEF WorkOK
  <2>5. QED
    BY <2>1, <2>2, <2>4
<1>2. ASSUME NEW e \in Execs, ExecStep(e)
      PROVE  LoopOK' /\ WorkOK' /\ GuardsOK'
  <2>1. LoopOK'
    BY <1>2, ExecShape DEF LoopOK, loop
  <2>2. exec' \in [Execs -> {"none", "queued", "calling", "notifying", "backoff", "ended"}]
    BY <1>2, ExecShape DEF WorkOK, Moves
  <2>3. WorkOK'
    BY <1>2, <2>2, ExecShape DEF WorkOK
  <2>4. spent' \in Nat
    BY <1>2, ExecShape, PipelineAssumption DEF GuardsOK
  <2>5. QED
    BY <1>2, <2>1, <2>3, <2>4, ExecShape DEF GuardsOK
<1>3. CASE UNCHANGED vars
  BY <1>3 DEF vars, loop, work, guards, LoopOK, WorkOK, GuardsOK
<1>4. QED
  BY <1>1, <1>2, <1>3, NextCases

LEMMA InitTyped == Init => TypeOK
<1>1. <<>> \in Seq({"completed", "failed", "skipped"})
  OBVIOUS
<1>2. 1 \in Phases /\ 0 \in 0..LastPhase
  BY PipelineAssumption DEF Phases
<1>3. ASSUME Init
      PROVE  LoopOK /\ WorkOK /\ GuardsOK
  <2>1. LoopOK
    BY <1>1, <1>2, <1>3, PipelineAssumption DEF Init, LoopOK, Places, Outcomes
  <2>2. WorkOK
    BY <1>3 DEF Init, WorkOK
  <2>3. GuardsOK
    BY <1>3 DEF Init, GuardsOK
  <2>4. QED
    BY <2>1, <2>2, <2>3
<1>4. QED
  BY <1>3, TypeParts

(* Every variable has its type in every reachable state. *)
THEOREM PipelineTypeCorrect == Spec => []TypeOK
BY InitTyped, StepTyped, PTL DEF Spec

-----------------------------------------------------------------------------
(* A closed breaker has seen fewer failures in a row than its threshold,    *)
(* whenever the calls that failed and succeeded were admitted.              *)
THEOREM BreakerCorrect == Spec => []ConsecutiveFailuresOpen
<1>1. Init => ConsecutiveFailuresOpen
  BY PipelineAssumption DEF Init, ConsecutiveFailuresOpen
<1>2. TypeOK /\ ConsecutiveFailuresOpen /\ [Next]_vars => ConsecutiveFailuresOpen'
  <2> SUFFICES ASSUME TypeOK, ConsecutiveFailuresOpen, [Next]_vars
               PROVE  ConsecutiveFailuresOpen'
    OBVIOUS
  <2>1. LoopOK /\ WorkOK /\ GuardsOK
    BY TypeParts
  <2>2. CASE UNCHANGED <<breaker, failures>>
    BY <2>2 DEF ConsecutiveFailuresOpen
  <2>3. CASE \E e \in Execs : ExecStep(e)
    BY <2>1, <2>3, ExecShape
  <2>4. QED
    BY <2>1, <2>2, <2>3, NextCases, RunWork DEF vars, guards
<1>3. QED
  BY <1>1, <1>2, PipelineTypeCorrect, PTL DEF Spec

-----------------------------------------------------------------------------
(* Roots and phases.                                                        *)

LEMMA StepRoots == TypeOK /\ RootWorksInItsPhase /\ [Next]_vars => RootWorksInItsPhase'
<1> SUFFICES ASSUME LoopOK, WorkOK, GuardsOK, RootWorksInItsPhase, [Next]_vars,
                    NEW p \in Phases, Live(Root[p])'
             PROVE  at' = "waiting" /\ current' = p
  BY TypeParts DEF RootWorksInItsPhase
<1>1. Root[p] \in Execs /\ PhaseOf[Root[p]] = p
  BY PipelineAssumption
<1>2. Live(Root[p]) => at = "waiting" /\ current = p
  BY DEF RootWorksInItsPhase
<1>3. CASE Launch
  <2>1. CASE Root[current] = Root[p]
    BY <1>1, <1>3, <2>1, PipelineAssumption DEF Launch, Resumes, LoopOK
  <2>2. CASE Root[current] # Root[p]
    <3>1. Live(Root[p])
      BY <1>1, <1>3, <2>2 DEF Launch, Moves, Live, WorkOK
    <3>2. QED
      BY <1>2, <1>3, <3>1 DEF Launch
  <2>3. QED
    BY <2>1, <2>2
<1>4. CASE WaitEnds
  <2>1. exec' = exec /\ exec[Root[current]] = "ended" /\ at = "waiting"
    BY <1>4 DEF WaitEnds, work
  <2>2. QED
    BY <1>2, <2>1 DEF Live
<1>5. CASE Run \/ Started \/ Announced \/ GatesAnswer \/ PhaseEnds \/ Complete \/ LaunchFails \/ Raises
  <2>1. exec' = exec /\ at # "waiting"
    BY <1>5 DEF Run, Started, Announced, GatesAnswer, PhaseEnds, Complete, LaunchFails, Raises, work
  <2>2. QED
    BY <1>2, <2>1 DEF Live
<1>6. CASE WaitCancelled \/ Stop \/ UNCHANGED vars
  <2>1. exec' = exec /\ at' = at /\ current' = current
    BY <1>6 DEF WaitCancelled, Stop, vars, loop, work
  <2>2. QED
    BY <1>2, <2>1 DEF Live
<1>7. ASSUME NEW e \in Execs, ExecStep(e)
      PROVE  at' = "waiting" /\ current' = p
  <2>1. at' = at /\ current' = current
    BY <1>7, ExecShape DEF loop
  <2>2. CASE e # Root[p]
    <3>1. exec'[Root[p]] = exec[Root[p]]
      BY <1>1, <1>7, <2>2, ExecShape DEF Moves, WorkOK
    <3>2. QED
      BY <1>2, <2>1, <3>1 DEF Live
  <2>3. CASE e = Root[p]
    <3>1. exec[e] # "none" /\ exec[e] # "ended"
      BY <1>1, <1>7, <2>3, ExecShape
    <3>2. Live(e)
      BY <3>1 DEF Live, WorkOK
    <3>3. QED
      BY <1>2, <2>1, <2>3, <3>2
  <2>4. QED
    BY <2>2, <2>3
<1>8. QED
  BY <1>3, <1>4, <1>5, <1>6, <1>7, NextCases DEF Answered

(* A root runs only while run() waits for it, in the phase of the loop. *)
THEOREM RootCorrect == Spec => []RootWorksInItsPhase
<1>1. Init => RootWorksInItsPhase
  BY PipelineAssumption DEF Init, RootWorksInItsPhase, Live
<1>2. QED
  BY <1>1, StepRoots, PipelineTypeCorrect, PTL DEF Spec

-----------------------------------------------------------------------------
(* Outcomes.  While run() is in a phase all before it are completed, and no *)
(* root after it was launched.                                              *)

Looping == {"announcing", "launching", "waiting", "gating", "passing", "failing"}

Unlaunched(p) == exec[Root[p]] = "none"

Course ==
  /\ Len(outcomes) <= LastPhase
  /\ at \in {"idle", "starting"} => outcomes = <<>> /\ \A p \in Phases : Unlaunched(p)
  /\ at \in Looping => /\ Len(outcomes) = current - 1
                       /\ \A p \in 1..(current - 1) : outcomes[p] = "completed"
                       /\ \A p \in Phases : p > current => Unlaunched(p)
  /\ at \in {"gating", "passing"} => Root[current] \in results

CourseInv == Course /\ OutcomesAreTrue

(* What the executions do leaves the outcomes true. *)
LEMMA CourseKept ==
  ASSUME LoopOK, CourseInv, UNCHANGED <<at, current, outcomes>>, results \subseteq results',
         \A p \in Phases : Unlaunched(p) => Unlaunched(p)'
  PROVE  CourseInv'
<1>1. Course'
  BY DEF CourseInv, Course
<1>2. DOMAIN outcomes \subseteq Phases
  BY PipelineAssumption DEF CourseInv, Course, LoopOK, Phases
<1>3. OutcomesAreTrue'
  BY <1>2 DEF CourseInv, OutcomesAreTrue, Unlaunched
<1>4. QED
  BY <1>1, <1>3 DEF CourseInv

(* The head of the loop: phase p has its turn after p - 1 outcomes, or it   *)
(* and those after it are skipped.                                          *)
LEMMA NextPhaseCourse ==
  ASSUME LoopOK, NEW p \in 1..(LastPhase + 1), NEW outcome \in Seq(Outcomes), Len(outcome) = p - 1,
         \A q \in 1..(p - 1) : outcome[q] \in {"completed", "failed"},
         \A q \in 1..(p - 1) : outcome[q] = "completed" => Root[q] \in results,
         \A q \in 1..(p - 1) : \A r \in 1..(q - 1) : outcome[r] = "completed",
         \A q \in Phases : q >= p => Unlaunched(q),
         NextPhase(outcome, p), UNCHANGED <<exec, results>>
  PROVE  CourseInv'
<1> DEFINE n    == LastPhase + 1 - p
           rest == [i \in 1..n |-> "skipped"]
<1>1. LastPhase \in Nat /\ n \in Nat /\ p \in Nat \ {0}
  BY PipelineAssumption
<1>2. CASE at' = "announcing" /\ outcomes' = outcome /\ current' = p /\ p <= LastPhase
           /\ \A i \in DOMAIN outcome : outcome[i] # "failed"
  <2>1. \A q \in 1..(p - 1) : outcome[q] = "completed"
    BY <1>1, <1>2
  <2>2. \A q \in Phases : q > p => Unlaunched(q)'
    BY <1>1 DEF Phases, Unlaunched
  <2> HIDE DEF rest
  <2>3. Course'
    BY <1>1, <1>2, <2>1, <2>2 DEF Course, Looping
  <2>4. OutcomesAreTrue'
    BY <1>1, <1>2, <2>1 DEF OutcomesAreTrue
  <2>5. QED
    BY <2>3, <2>4 DEF CourseInv
<1>3. CASE at' = "completing" /\ outcomes' = outcome \o rest
  <2>1. rest \in Seq(Outcomes) /\ Len(rest) = n
    BY <1>1 DEF Outcomes
  <2>2. /\ Len(outcome \o rest) = LastPhase /\ DOMAIN (outcome \o rest) = 1..LastPhase
        /\ \A q \in 1..(p - 1) : (outcome \o rest)[q] = outcome[q]
        /\ \A q \in p..LastPhase : (outcome \o rest)[q] = "skipped"
    BY <1>1, <2>1
  <2> HIDE DEF rest
  <2>3. Len(outcomes') = LastPhase /\ DOMAIN outcomes' = Phases
    BY <1>3, <2>2 DEF Phases
  <2>4. Course'
    BY <1>1, <1>3, <2>3 DEF Course, Looping
  <2>5. ASSUME NEW q \in Phases
        PROVE  /\ outcomes'[q] = "completed" => Root[q] \in results'
               /\ outcomes'[q] = "skipped" => exec'[Root[q]] = "none"
               /\ outcomes'[q] # "skipped" => \A r \in 1..(q - 1) : outcomes'[r] = "completed"
    <3>1. CASE q \in 1..(p - 1)
      <4>1. /\ outcomes'[q] = outcome[q] /\ outcome[q] \in {"completed", "failed"}
            /\ outcome[q] = "completed" => Root[q] \in results
        BY <1>3, <2>2, <3>1
      <4>2. \A r \in 1..(q - 1) : r \in 1..(p - 1) /\ outcome[r] = "completed"
        BY <1>1, <3>1
      <4>3. \A r \in 1..(q - 1) : outcomes'[r] = "completed"
        BY <1>3, <2>2, <4>2
      <4>4. QED
        BY <4>1, <4>3
    <3>2. CASE q \in p..LastPhase
      <4>1. outcomes'[q] = "skipped"
        BY <1>3, <2>2, <3>2
      <4>2. exec'[Root[q]] = "none"
        BY <1>1, <3>2 DEF Unlaunched
      <4>3. QED
        BY <4>1, <4>2
    <3>3. QED
      BY <1>1, <3>1, <3>2 DEF Phases
  <2>6. OutcomesAreTrue'
    BY <2>3, <2>5 DEF OutcomesAreTrue
  <2>7. QED
    BY <2>4, <2>6 DEF CourseInv
<1>4. CASE "failed" \in {outcome[i] : i \in DOMAIN outcome} \/ stopped \/ p > LastPhase
  BY <1>3, <1>4 DEF NextPhase, Resumes
<1>5. CASE ~("failed" \in {outcome[i] : i \in DOMAIN outcome} \/ stopped \/ p > LastPhase)
  BY <1>1, <1>2, <1>5 DEF NextPhase, Resumes
<1>6. QED
  BY <1>4, <1>5

(* A phase ends: what it came to is appended. *)
LEMMA PhaseEndsCourse == ASSUME LoopOK, CourseInv, PhaseEnds PROVE CourseInv'
<1>1. LastPhase \in Nat /\ current \in 1..LastPhase /\ current + 1 \in 1..(LastPhase + 1)
  BY PipelineAssumption DEF LoopOK, Phases
<1>2. PICK last \in {"completed", "failed"} :
        /\ last = "completed" => at = "passing"
        /\ NextPhase(Append(outcomes, last), current + 1)
  BY DEF PhaseEnds
<1> DEFINE outcome == Append(outcomes, last)
<1>3. /\ at \in Looping /\ Len(outcomes) = current - 1
      /\ \A q \in 1..(current - 1) : outcomes[q] = "completed"
      /\ \A q \in Phases : q > current => Unlaunched(q)
      /\ last = "completed" => Root[current] \in results
  BY <1>2 DEF PhaseEnds, CourseInv, Course, Looping
<1>4. /\ outcome \in Seq(Outcomes) /\ Len(outcome) = current /\ outcome[current] = last
      /\ \A q \in 1..(current - 1) : outcome[q] = "completed"
  BY <1>1, <1>2, <1>3 DEF LoopOK, Outcomes
<1>5. \A q \in 1..(current - 1) : Root[q] \in results
  BY <1>1, <1>3 DEF CourseInv, OutcomesAreTrue, LoopOK
<1> HIDE DEF outcome
<1>6. /\ \A q \in 1..current : outcome[q] \in {"completed", "failed"}
      /\ \A q \in 1..current : outcome[q] = "completed" => Root[q] \in results
      /\ \A q \in 1..current : \A r \in 1..(q - 1) : outcome[r] = "completed"
  BY <1>1, <1>2, <1>3, <1>4, <1>5
<1>7. \A q \in Phases : q >= current + 1 => Unlaunched(q)
  BY <1>1, <1>3 DEF Phases
<1>8. UNCHANGED <<exec, results>> /\ NextPhase(outcome, current + 1)
  BY <1>2 DEF PhaseEnds, work, outcome
<1>9. (current + 1) - 1 = current
  BY <1>1
<1>10. QED
  BY <1>1, <1>4, <1>6, <1>7, <1>8, <1>9, NextPhaseCourse

(* The other steps of run(), and stop(). *)
LEMMA RunCourse ==
  ASSUME LoopOK, WorkOK, CourseInv,
         Run \/ Answered \/ LaunchFails \/ WaitCancelled \/ Raises \/ Stop
  PROVE  CourseInv'
<1>1. LastPhase \in Nat \ {0} /\ 1 \in Phases /\ 1 \in 1..(LastPhase + 1)
  BY PipelineAssumption DEF Phases
<1>2. CASE Run
  <2>1. at' = "starting" /\ outcomes' = <<>> /\ outcomes = <<>> /\ exec' = exec
    BY <1>2 DEF Run, Resumes, work, CourseInv, Course
  <2>2. \A p \in Phases : Unlaunched(p)'
    BY <1>2, <2>1 DEF Run, CourseInv, Course, Unlaunched
  <2>3. QED
    BY <1>1, <2>1, <2>2 DEF CourseInv, Course, OutcomesAreTrue, Looping
<1>3. CASE Started
  <2>1. <<>> \in Seq(Outcomes) /\ Len(<<>>) = 1 - 1
    OBVIOUS
  <2>2. \A q \in Phases : Unlaunched(q)
    BY <1>3 DEF Started, CourseInv, Course
  <2>3. NextPhase(<<>>, 1) /\ UNCHANGED <<exec, results>>
    BY <1>3 DEF Started, work
  <2>4. \A q \in 1..(1 - 1) : FALSE
    OBVIOUS
  <2>5. QED
    BY <1>1, <2>1, <2>2, <2>3, <2>4, NextPhaseCourse
<1>4. CASE PhaseEnds
  BY <1>4, PhaseEndsCourse
<1>5. CASE Launch
  <2>1. /\ at = "launching" /\ at' = "waiting" /\ UNCHANGED <<current, outcomes, results>>
        /\ exec' = [exec EXCEPT ![Root[current]] = "queued"]
    BY <1>5 DEF Launch, Resumes, Moves
  <2>2. \A p \in Phases : Root[p] \in Execs /\ (Root[p] = Root[current] => p = current)
    BY PipelineAssumption DEF LoopOK
  <2>3. \A p \in Phases : p > current /\ Unlaunched(p) => Unlaunched(p)'
    <3>1. current \in Nat /\ \A p \in Phases : p \in Nat
      BY <1>1 DEF LoopOK, Phases
    <3>2. QED
      BY <2>1, <2>2, <3>1 DEF Unlaunched, WorkOK
  <2>4. Course'
    BY <2>1, <2>3 DEF CourseInv, Course, Looping
  <2>5. \A p \in DOMAIN outcomes : outcomes[p] = "completed"
    BY <2>1 DEF CourseInv, Course, Looping, LoopOK
  <2>6. OutcomesAreTrue'
    BY <2>1, <2>5 DEF CourseInv, OutcomesAreTrue
  <2>7. QED
    BY <2>4, <2>6 DEF CourseInv
<1>6. CASE WaitCancelled \/ Stop
  BY <1>6, CourseKept DEF WaitCancelled, Stop, loop, work, Unlaunched
<1>7. CASE Announced \/ WaitEnds \/ GatesAnswer \/ Complete \/ LaunchFails \/ Raises
  <2>1. UNCHANGED <<current, outcomes, exec, results>>
    BY <1>7 DEF Announced, WaitEnds, GatesAnswer, Complete, LaunchFails, Raises, work
  <2>2. /\ \/ at \in Looping /\ at' \in Looping
           \/ at = "completing" /\ at' = "done"
           \/ at' = "raised"
        /\ at' \in {"gating", "passing"} => Root[current] \in results
    <3>1. CASE WaitEnds
      BY <3>1 DEF WaitEnds, Resumes, Looping
    <3>2. CASE GatesAnswer
      BY <3>2 DEF GatesAnswer, Resumes, Looping, CourseInv, Course
    <3>3. CASE Announced \/ Complete \/ LaunchFails \/ Raises
      BY <3>3 DEF Announced, Complete, LaunchFails, Raises, Resumes, Looping
    <3>4. QED
      BY <1>7, <3>1, <3>2, <3>3
  <2>3. Course'
    BY <2>1, <2>2 DEF CourseInv, Course, Looping, Unlaunched
  <2>4. OutcomesAreTrue'
    BY <2>1, <2>2 DEF CourseInv, OutcomesAreTrue, Looping
  <2>5. QED
    BY <2>3, <2>4 DEF CourseInv
<1>8. QED
  BY <1>2, <1>3, <1>4, <1>5, <1>6, <1>7 DEF Answered

LEMMA StepCourse == TypeOK /\ CourseInv /\ [Next]_vars => CourseInv'
<1> SUFFICES ASSUME LoopOK, WorkOK, GuardsOK, CourseInv, [Next]_vars
             PROVE  CourseInv'
  BY TypeParts
<1>1. ASSUME NEW e \in Execs, ExecStep(e)
      PROVE  CourseInv'
  <2>1. UNCHANGED <<at, current, outcomes>> /\ results \subseteq results'
    BY <1>1, ExecShape DEF loop
  <2>2. ASSUME NEW p \in Phases, Unlaunched(p)
        PROVE  Unlaunched(p)'
    <3>1. Root[p] \in Execs /\ PhaseOf[Root[p]] = p
      BY PipelineAssumption
    <3>2. e # Root[p]
      BY <1>1, <2>2, <3>1, ExecShape DEF Unlaunched
    <3>3. exec'[Root[p]] = exec[Root[p]]
      BY <1>1, <3>1, <3>2, ExecShape DEF Moves, WorkOK
    <3>4. QED
      BY <2>2, <3>3 DEF Unlaunched
  <2>3. QED
    BY <2>1, <2>2, CourseKept
<1>2. CASE UNCHANGED vars
  BY <1>2, CourseKept DEF vars, loop, work, Unlaunched
<1>3. QED
  BY <1>1, <1>2, RunCourse, NextCases

(* What run() reports of its phases is what became of them, whatever is     *)
(* stopped, timed out, retried, delegated and refused beside it.            *)
THEOREM OutcomesCorrect == Spec => []OutcomesAreTrue
<1>1. Init => CourseInv
  BY PipelineAssumption DEF Init, CourseInv, Course, OutcomesAreTrue, Looping, Unlaunched
<1>2. CourseInv => OutcomesAreTrue
  BY DEF CourseInv
<1>3. QED
  BY <1>1, <1>2, StepCourse, PipelineTypeCorrect, PTL DEF Spec

(* While run() waits for a root that root was launched: it is live or over. *)
RootWaitedFor == at = "waiting" => Live(Root[current]) \/ exec[Root[current]] = "ended"

(* run() never waits for what was not launched, whatever is stopped and     *)
(* timed out at once: a part of what RunEnds rests on.                      *)
THEOREM RootWaitedCorrect == Spec => []RootWaitedFor
<1>1. ASSUME LoopOK, WorkOK, GuardsOK, RootWaitedFor, [Next]_vars, at' = "waiting"
      PROVE  ~Unlaunched(current)'
  <2>1. \A p \in Phases : Root[p] \in Execs
    BY PipelineAssumption
  <2>2. CASE Launch
    BY <1>1, <2>1, <2>2 DEF Launch, Moves, Unlaunched, LoopOK, WorkOK
  <2>3. CASE at = "waiting" /\ current' = current /\ exec' = exec
    BY <1>1, <2>3 DEF RootWaitedFor, Live, Unlaunched
  <2>4. CASE Run \/ Started \/ Announced \/ WaitEnds \/ GatesAnswer \/ PhaseEnds \/ Complete
             \/ LaunchFails \/ Raises
    BY <1>1, <2>4 DEF Run, Started, Announced, WaitEnds, GatesAnswer, PhaseEnds, Complete,
                      LaunchFails, Raises, NextPhase, Resumes
  <2>5. CASE WaitCancelled \/ Stop \/ UNCHANGED vars
    BY <1>1, <2>3, <2>5 DEF WaitCancelled, Stop, vars, loop, work
  <2>6. ASSUME NEW e \in Execs, ExecStep(e)
        PROVE  ~Unlaunched(current)'
    <3>1. at = "waiting" /\ current' = current /\ current \in Phases
      BY <1>1, <2>6, ExecShape DEF loop, LoopOK
    <3>2. exec[Root[current]] # "none"
      BY <1>1, <3>1 DEF RootWaitedFor, Live
    <3>3. \E to \in {"queued", "calling", "notifying", "backoff", "ended"} : Moves(e, to)
      BY <1>1, <2>6, ExecShape
    <3>4. QED
      BY <1>1, <2>1, <3>1, <3>2, <3>3 DEF Moves, Unlaunched, WorkOK
  <2>7. QED
    BY <1>1, <2>2, <2>4, <2>5, <2>6, NextCases DEF Answered
<1>2. TypeOK /\ TypeOK' /\ RootWaitedFor /\ [Next]_vars => RootWaitedFor'
  <2>1. TypeOK' => LoopOK' /\ WorkOK'
    BY DEF TypeOK, LoopOK, WorkOK, Places, Outcomes
  <2> SUFFICES ASSUME TypeOK, LoopOK', WorkOK', RootWaitedFor, [Next]_vars, at' = "waiting"
               PROVE  (Live(Root[current]) \/ exec[Root[current]] = "ended")'
    BY <2>1 DEF RootWaitedFor
  <2>2. ~Unlaunched(current)'
    BY <1>1, TypeParts
  <2>3. exec'[Root[current']] \in {"none", "queued", "calling", "notifying", "backoff", "ended"}
    BY PipelineAssumption DEF LoopOK, WorkOK
  <2>4. QED
    BY <2>2, <2>3 DEF Unlaunched, Live
<1>3. Init => RootWaitedFor
  BY DEF Init, RootWaitedFor
<1>4. QED
  BY <1>2, <1>3, PipelineTypeCorrect, PTL DEF Spec

-----------------------------------------------------------------------------
(* The budget.  What is spent and what the calls under way may still cost   *)
(* never exceed the bound together: a call begins only below the limit.     *)

Promised == MaxCost * Cardinality(Calling)

BudgetInv ==
  /\ Cardinality(Holding) <= MaxConcurrent
  /\ spent + Promised < Limit + MaxConcurrent * MaxCost

(* The counts of the calls under way and of the slots held. *)
LEMMA Counts ==
  /\ IsFiniteSet(Holding) /\ Cardinality(Holding) \in Nat
  /\ IsFiniteSet(Calling) /\ Cardinality(Calling) \in Nat
  /\ Cardinality(Calling) <= Cardinality(Holding)
<1>1. IsFiniteSet(Holding)
  BY PipelineAssumption, FS_Subset DEF Holding
<1>2. Calling \subseteq Holding
  BY DEF Calling, Holding
<1>3. QED
  BY <1>1, <1>2, FS_Subset, FS_CardinalityType

LEMMA StepBudget == TypeOK /\ BudgetInv /\ [Next]_vars => BudgetInv'
<1> SUFFICES ASSUME LoopOK, WorkOK, GuardsOK, BudgetInv, [Next]_vars
             PROVE  BudgetInv'
  BY TypeParts
<1>1. ASSUME NEW e \in Execs, NEW to \in {"none", "queued", "ended", "calling", "notifying", "backoff"},
             Moves(e, to)
      PROVE  /\ Holding' = IF to \in {"calling", "notifying", "backoff"} THEN Holding \cup {e}
                                                                        ELSE Holding \ {e}
             /\ Calling' = IF to = "calling" THEN Calling \cup {e} ELSE Calling \ {e}
  BY <1>1 DEF Moves, Holding, Calling, WorkOK
<1>2. ASSUME Holding' \subseteq Holding, Calling' \subseteq Calling, spent' = spent
      PROVE  BudgetInv'
  <2>1. /\ Cardinality(Holding') \in Nat /\ Cardinality(Holding') <= Cardinality(Holding)
        /\ Cardinality(Calling') \in Nat /\ Cardinality(Calling') <= Cardinality(Calling)
    BY <1>2, Counts, FS_Subset, FS_CardinalityType
  <2>2. MaxCost * Cardinality(Calling') <= MaxCost * Cardinality(Calling)
    BY <2>1, Counts, PipelineAssumption
  <2>3. QED
    BY <1>2, <2>1, <2>2, Counts, PipelineAssumption DEF BudgetInv, Promised, GuardsOK
<1>3. CASE Run \/ Answered \/ LaunchFails \/ WaitCancelled \/ Raises \/ Stop
  <2>1. spent' = spent
    BY <1>3, RunWork
  <2>2. CASE Launch
    <3>1. Root[current] \in Execs /\ Moves(Root[current], "queued")
      BY <2>2, PipelineAssumption DEF Launch, LoopOK
    <3>2. Holding' \subseteq Holding /\ Calling' \subseteq Calling
      BY <1>1, <3>1
    <3>3. QED
      BY <1>2, <2>1, <3>2
  <2>3. CASE exec' = exec
    BY <1>2, <2>1, <2>3 DEF Holding, Calling
  <2>4. QED
    BY <1>3, <2>2, <2>3, RunWork
<1>4. CASE UNCHANGED vars
  BY <1>2, <1>4 DEF vars, work, guards, Holding, Calling
<1>5. ASSUME NEW e \in Execs, ExecStep(e)
      PROVE  BudgetInv'
  <2>1. CASE /\ spent' = spent
             /\ Moves(e, "ended") \/ Moves(e, "queued") \/ (exec[e] = "calling" /\ Moves(e, "backoff"))
    <3>1. Holding' \subseteq Holding /\ Calling' \subseteq Calling
      BY <1>1, <2>1 DEF Holding
    <3>2. spent' = spent
      BY <2>1
    <3>3. QED
      BY <1>2, <3>1, <3>2
  <2>2. CASE exec[e] = "queued" /\ Cardinality(Holding) < MaxConcurrent /\ spent' = spent
             /\ (Moves(e, "backoff") \/ (~IsExceeded /\ Moves(e, "calling")))
    <3>1. e \notin Holding /\ Holding' = Holding \cup {e}
      BY <1>1, <2>2 DEF Holding
    <3>2. Cardinality(Holding') = Cardinality(Holding) + 1
      BY <3>1, Counts, FS_AddElement
    <3>3. Cardinality(Holding') <= MaxConcurrent
      BY <2>2, <3>2, Counts, PipelineAssumption
    <3>4. CASE Moves(e, "backoff")
      <4>1. Calling' = Calling
        BY <1>1, <2>2, <3>4 DEF Calling
      <4>2. QED
        BY <2>2, <3>3, <4>1 DEF BudgetInv, Promised
    <3>5. CASE ~IsExceeded /\ Moves(e, "calling")
      <4>1. Calling' \subseteq Holding'
        BY DEF Calling, Holding
      <4>2. Cardinality(Calling') \in Nat /\ Cardinality(Calling') <= MaxConcurrent
        BY <3>1, <3>3, <4>1, Counts, FS_AddElement, FS_Subset, FS_CardinalityType, PipelineAssumption
      <4>3. MaxCost * Cardinality(Calling') <= MaxConcurrent * MaxCost
        BY <4>2, PipelineAssumption
      <4>4. spent' < Limit
        BY <2>2, <3>5, PipelineAssumption DEF IsExceeded, GuardsOK
      <4>5. QED
        BY <2>2, <3>3, <4>2, <4>3, <4>4, PipelineAssumption DEF BudgetInv, Promised, GuardsOK
    <3>6. QED
      BY <2>2, <3>4, <3>5
  <2>3. ASSUME exec[e] = "calling", Moves(e, "notifying"), NEW cost \in 0..MaxCost, spent' = spent + cost
        PROVE  BudgetInv'
    <3>1. /\ e \in Calling /\ Calling' = Calling \ {e}
          /\ Holding' = Holding
      BY <1>1, <2>3 DEF Calling, Holding
    <3>2. Cardinality(Calling') = Cardinality(Calling) - 1
      BY <3>1, Counts, FS_RemoveElement
    <3>3. MaxCost * Cardinality(Calling') = MaxCost * Cardinality(Calling) - MaxCost
      BY <3>2, Counts, PipelineAssumption
    <3>4. QED
      BY <2>3, <3>1, <3>2, <3>3, Counts, PipelineAssumption DEF BudgetInv, Promised, GuardsOK
  <2>4. \/ /\ spent' = spent
           /\ Moves(e, "ended") \/ Moves(e, "queued") \/ (exec[e] = "calling" /\ Moves(e, "backoff"))
        \/ exec[e] = "queued" /\ Cardinality(Holding) < MaxConcurrent /\ spent' = spent
           /\ (Moves(e, "backoff") \/ (~IsExceeded /\ Moves(e, "calling")))
        \/ exec[e] = "calling" /\ Moves(e, "notifying") /\ \E cost \in 0..MaxCost : spent' = spent + cost
    BY <1>5, ExecShape
  <2>5. QED
    BY <2>1, <2>2, <2>3, <2>4
<1>6. QED
  BY <1>3, <1>4, <1>5, NextCases

(* However the executions interleave, are retried or are cancelled, no more *)
(* is spent above the limit than the calls of the full semaphore cost.      *)
THEOREM BudgetCorrect == Spec => []OvershootBounded
<1>1. Init => BudgetInv
  <2> SUFFICES ASSUME Init PROVE BudgetInv
    OBVIOUS
  <2>1. Holding = {} /\ Calling = {}
    BY DEF Init, Holding, Calling
  <2>2. Cardinality(Holding) = 0 /\ Cardinality(Calling) = 0
    BY <2>1, FS_EmptySet
  <2>3. MaxConcurrent * MaxCost \in Nat
    BY PipelineAssumption
  <2>4. QED
    BY <2>2, <2>3, PipelineAssumption DEF Init, BudgetInv, Promised
<1>2. TypeOK /\ BudgetInv => OvershootBounded
  <2> SUFFICES ASSUME TypeOK, BudgetInv PROVE OvershootBounded
    OBVIOUS
  <2>1. MaxCost * Cardinality(Calling) \in Nat
    BY Counts, PipelineAssumption
  <2>2. QED
    BY <2>1, PipelineAssumption DEF TypeOK, BudgetInv, Promised, OvershootBounded
<1>3. QED
  BY <1>1, <1>2, StepBudget, PipelineTypeCorrect, PTL DEF Spec
=============================================================================
