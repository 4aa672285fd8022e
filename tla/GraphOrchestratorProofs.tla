---------------------- MODULE GraphOrchestratorProofs ----------------------
(***************************************************************************)
(* Theorems about GraphOrchestrator, for any tasks, runs, size of the      *)
(* semaphore and number of retries: the slots of the semaphore are         *)
(* conserved and no execution escapes a stop.                              *)
(***************************************************************************)
EXTENDS GraphOrchestrator, FiniteSetTheorems, TLAPS

PhaseOK == phase \in [Tasks -> Phases]

(* A coroutine that moves changes the set of holders by itself at most. *)
LEMMA MovesEffect ==
  ASSUME PhaseOK, NEW t \in Tasks, NEW to \in Phases, Moves(t, to)
  PROVE  /\ PhaseOK'
         /\ phase'[t] = to
         /\ \A u \in Tasks : u # t => phase'[u] = phase[u]
         /\ to \in Holding => Holders' = Holders \cup {t}
         /\ to \notin Holding => Holders' = Holders \ {t}
<1>1. /\ PhaseOK'
      /\ phase'[t] = to
      /\ \A u \in Tasks : u # t => phase'[u] = phase[u]
  BY DEF PhaseOK, Moves
<1>2. Holders' = {u \in Tasks : phase'[u] \in Holding}
  BY DEF Holders
<1>3. QED
  BY <1>1, <1>2 DEF Holders

-----------------------------------------------------------------------------
(* Slots.  A step leaves the holders and the semaphore alone, takes one     *)
(* slot for one more holder, or gives one back for one holder less.         *)

Keeps == Holders' = Holders /\ free' = free
Takes(t) == t \notin Holders /\ Holders' = Holders \cup {t} /\ free > 0 /\ free' = free - 1
Gives(t) == t \in Holders /\ Holders' = Holders \ {t} /\ free' = free + 1

SlotStep == Keeps \/ \E t \in Tasks : Takes(t) \/ Gives(t)

(* A failed attempt keeps its slot for the backoff or gives it back. *)
LEMMA AttemptSlots ==
  ASSUME PhaseOK, NEW t \in Tasks, phase[t] \in Holding, AttemptFails(t)
  PROVE  PhaseOK' /\ SlotStep
<1>1. CASE Moves(t, "backoff") /\ free' = free
  <2>1. PhaseOK' /\ Holders' = Holders \cup {t}
    BY <1>1, MovesEffect DEF Phases, Holding
  <2>2. QED
    BY <1>1, <2>1 DEF SlotStep, Keeps, Holders
<1>2. CASE Moves(t, "escalating") /\ free' = free + 1
  <2>1. PhaseOK' /\ Holders' = Holders \ {t}
    BY <1>2, MovesEffect DEF Phases, Holding
  <2>2. QED
    BY <1>2, <2>1 DEF SlotStep, Gives, Holders
<1>3. QED
  BY <1>1, <1>2 DEF AttemptFails

(* The steps of the coroutine that serves t. *)
LEMMA ServeSlots ==
  ASSUME PhaseOK, NEW t \in Tasks, Serve(t)
  PROVE  PhaseOK' /\ SlotStep
<1> USE DEF Phases, Holding
<1>1. ASSUME NEW to \in Phases \ Holding, Moves(t, to), free' = free, phase[t] \notin Holding
      PROVE  PhaseOK' /\ SlotStep
  BY <1>1, MovesEffect DEF SlotStep, Keeps, Holders
<1>2. ASSUME NEW to \in Phases \ Holding, Moves(t, to), free' = free + 1, phase[t] \in Holding
      PROVE  PhaseOK' /\ SlotStep
  BY <1>2, MovesEffect DEF SlotStep, Gives, Holders
<1>3. CASE GateDenies(t) \/ GateApproves(t) \/ AnnounceFails(t) \/ Launch(t) \/ Enter(t)
  BY <1>1, <1>3 DEF GateDenies, GateApproves, AnnounceFails, Launch, Enter
<1>4. CASE Acquire(t)
  <2>1. Moves(t, "running") /\ free > 0 /\ free' = free - 1 /\ phase[t] \notin Holding
    BY <1>4 DEF Acquire
  <2>2. PhaseOK' /\ Holders' = Holders \cup {t}
    BY <2>1, MovesEffect
  <2>3. QED
    BY <2>1, <2>2 DEF SlotStep, Takes, Holders
<1>5. CASE Succeed(t)
  <2>1. Moves(t, "notifying") /\ free' = free /\ phase[t] \in Holding
    BY <1>5 DEF Succeed
  <2>2. PhaseOK' /\ Holders' = Holders \cup {t}
    BY <2>1, MovesEffect
  <2>3. QED
    BY <2>1, <2>2 DEF SlotStep, Keeps, Holders
<1>6. CASE Finish(t) \/ Retry(t)
  BY <1>2, <1>6 DEF Finish, Retry
<1>7. CASE RunnerRaises(t) \/ CompleteRaises(t) \/ NotifyRaises(t)
  BY <1>7, AttemptSlots DEF RunnerRaises, CompleteRaises, NotifyRaises
<1>8. CASE Escalated(t) \/ CancelledUnstarted(t)
  BY <1>1, <1>8 DEF Escalated, CancelledUnstarted
<1>9. CASE CancelledSuspended(t)
  <2>1. /\ Moves(t, "ended")
        /\ free' = IF phase[t] \in Holding THEN free + 1 ELSE free
    BY <1>9 DEF CancelledSuspended
  <2>2. CASE phase[t] \in Holding
    BY <1>2, <2>1, <2>2
  <2>3. CASE phase[t] \notin Holding
    BY <1>1, <2>1, <2>3
  <2>4. QED
    BY <2>2, <2>3
<1>10. QED
  BY <1>3, <1>4, <1>5, <1>6, <1>7, <1>8, <1>9 DEF Serve

(* The root of a run that has not started is served by no coroutine. *)
RootsIdle == \A r \in Runs : runs[r] = "none" => phase[RootTask[r]] = "none"

RunsOK == runs \in [Runs -> RunState]

(* What the steps other than Serve do: start and delegate put an idle       *)
(* coroutine to work, stop and a cancelled waiter move none.                *)
LEMMA CallShape ==
  ASSUME RunsOK, Next
  PROVE  \/ \E t \in Tasks : Serve(t) /\ runs' = runs
         \/ \E t \in Tasks \ Roots : phase[t] = "none" /\ Moves(t, "gate")
                                     /\ runs' = runs /\ free' = free
         \/ \E r \in Runs : /\ runs[r] = "none" /\ Moves(RootTask[r], "announcing")
                            /\ runs' = [runs EXCEPT ![r] = "running"] /\ free' = free
         \/ /\ phase' = phase /\ free' = free
            /\ \A r \in Runs : runs'[r] \in {runs[r], "stopped"}
            /\ runs' \in [Runs -> RunState]
<1>1. ASSUME NEW t \in Tasks, Serve(t)
      PROVE  runs' = runs
  <2>1. AttemptFails(t) => runs' = runs
    BY DEF AttemptFails
  <2>2. QED
    BY <1>1, <2>1 DEF Serve, GateDenies, GateApproves, AnnounceFails, Launch, Enter, Acquire,
       Succeed, Finish, RunnerRaises, CompleteRaises, NotifyRaises, Retry, Escalated,
       CancelledSuspended, CancelledUnstarted
<1>2. ASSUME NEW r \in Runs, Stop(r)
      PROVE  /\ phase' = phase
             /\ free' = free
             /\ \A s \in Runs : runs'[s] \in {runs[s], "stopped"}
             /\ runs' \in [Runs -> RunState]
  <2>1. phase' = phase /\ free' = free /\ runs' = [runs EXCEPT ![r] = "stopped"]
    BY <1>2 DEF Stop
  <2>2. QED
    BY <2>1 DEF RunsOK, RunState
<1>3. ASSUME NEW t \in Tasks, WaiterCancelled(t)
      PROVE  phase' = phase /\ runs' = runs /\ free' = free
  BY <1>3 DEF WaiterCancelled
<1>4. ASSUME NEW t \in Tasks, NEW p \in Tasks \cup {NoTask}, Delegate(t, p)
      PROVE  /\ t \notin Roots /\ phase[t] = "none" /\ Moves(t, "gate")
             /\ runs' = runs /\ free' = free
  BY <1>4 DEF Delegate
<1>5. ASSUME NEW r \in Runs, Start(r)
      PROVE  /\ runs[r] = "none" /\ Moves(RootTask[r], "announcing")
             /\ runs' = [runs EXCEPT ![r] = "running"] /\ free' = free
  BY <1>5 DEF Start
<1>6. QED
  BY <1>1, <1>2, <1>3, <1>4, <1>5 DEF Next, RunsOK

(* A coroutine that takes a step was at work. *)
LEMMA ServeBusy ==
  ASSUME NEW t \in Tasks, Serve(t)
  PROVE  phase[t] # "none" /\ \E to \in Phases \ {"none"} : Moves(t, to)
<1>1. AttemptFails(t) => Moves(t, "backoff") \/ Moves(t, "escalating")
  BY DEF AttemptFails
<1>2. phase[t] # "none"
  BY DEF Serve, GateDenies, GateApproves, AnnounceFails, Launch, Enter, Acquire,
     Succeed, Finish, RunnerRaises, CompleteRaises, NotifyRaises, Retry, Escalated,
     CancelledSuspended, CancelledUnstarted, Live, Holding
<1>3. \/ Moves(t, "denied") \/ Moves(t, "announcing") \/ Moves(t, "created") \/ Moves(t, "queued")
      \/ Moves(t, "running") \/ Moves(t, "notifying") \/ Moves(t, "ended")
      \/ Moves(t, "backoff") \/ Moves(t, "escalating")
  BY <1>1 DEF Serve, GateDenies, GateApproves, AnnounceFails, Launch, Enter, Acquire,
     Succeed, Finish, RunnerRaises, CompleteRaises, NotifyRaises, Retry, Escalated,
     CancelledSuspended, CancelledUnstarted
<1>4. QED
  BY <1>2, <1>3 DEF Phases, Holding

ShapeInv == PhaseOK /\ RunsOK /\ RootsIdle

(* Every step. *)
LEMMA NextSlots == ShapeInv /\ [Next]_vars => ShapeInv' /\ SlotStep
<1> SUFFICES ASSUME PhaseOK, RunsOK, RootsIdle, [Next]_vars
             PROVE  ShapeInv' /\ SlotStep
  BY DEF ShapeInv
<1> USE DEF ShapeInv
<1>1. ASSUME NEW t \in Tasks, Serve(t), runs' = runs
      PROVE  ShapeInv' /\ SlotStep
  <2>1. PhaseOK' /\ SlotStep
    BY <1>1, ServeSlots
  <2>2. RootsIdle'
    <3>1. \A u \in Tasks : phase[u] = "none" => phase'[u] = "none"
      BY <1>1, ServeBusy, MovesEffect
    <3>2. QED
      BY <1>1, <3>1, OrchestratorAssumption DEF RootsIdle
  <2>3. QED
    BY <1>1, <2>1, <2>2 DEF RunsOK
<1>2. ASSUME NEW t \in Tasks \ Roots, phase[t] = "none", Moves(t, "gate"), runs' = runs, free' = free
      PROVE  ShapeInv' /\ SlotStep
  <2>1. /\ PhaseOK' /\ Holders' = Holders \ {t}
        /\ \A u \in Tasks : u # t => phase'[u] = phase[u]
    BY <1>2, MovesEffect DEF Phases, Holding
  <2>2. SlotStep
    BY <1>2, <2>1 DEF SlotStep, Keeps, Holders, Holding
  <2>3. RootsIdle'
    BY <1>2, <2>1, OrchestratorAssumption DEF RootsIdle, Roots
  <2>4. QED
    BY <1>2, <2>1, <2>2, <2>3 DEF RunsOK
<1>3. ASSUME NEW r \in Runs, runs[r] = "none", Moves(RootTask[r], "announcing"),
             runs' = [runs EXCEPT ![r] = "running"], free' = free
      PROVE  ShapeInv' /\ SlotStep
  <2>1. RootTask[r] \in Tasks /\ phase[RootTask[r]] = "none"
    BY <1>3, OrchestratorAssumption DEF RootsIdle
  <2>2. /\ PhaseOK' /\ Holders' = Holders \ {RootTask[r]}
        /\ \A u \in Tasks : u # RootTask[r] => phase'[u] = phase[u]
    BY <1>3, <2>1, MovesEffect DEF Phases, Holding
  <2>3. SlotStep
    BY <1>3, <2>1, <2>2 DEF SlotStep, Keeps, Holders, Holding
  <2>4. RunsOK'
    BY <1>3 DEF RunsOK, RunState
  <2>5. \A s \in Runs : runs'[s] = "none" => s # r /\ runs[s] = "none"
    BY <1>3 DEF RunsOK
  <2>6. RootsIdle'
    BY <2>2, <2>5, OrchestratorAssumption DEF RootsIdle
  <2>7. QED
    BY <2>2, <2>3, <2>4, <2>6
<1>4. ASSUME phase' = phase, free' = free, runs' \in [Runs -> RunState],
             \A r \in Runs : runs'[r] \in {runs[r], "stopped"}
      PROVE  ShapeInv' /\ SlotStep
  <2>1. PhaseOK' /\ RunsOK' /\ SlotStep
    BY <1>4 DEF PhaseOK, RunsOK, SlotStep, Keeps, Holders
  <2>2. RootsIdle'
    BY <1>4 DEF RootsIdle
  <2>3. QED
    BY <2>1, <2>2
<1>5. CASE Next
  BY <1>5, <1>1, <1>2, <1>3, <1>4, CallShape
<1>6. CASE UNCHANGED vars
  BY <1>4, <1>6 DEF vars, RunsOK
<1>7. QED
  BY <1>5, <1>6

SlotInv == free \in Nat /\ SlotsConserved

(* Whatever a step does to the holders it does to the semaphore. *)
LEMMA StepSlots == SlotInv /\ SlotStep => SlotInv'
<1> SUFFICES ASSUME SlotInv, SlotStep
             PROVE  SlotInv'
  OBVIOUS
<1>1. IsFiniteSet(Holders) /\ Cardinality(Holders) \in Nat
  BY OrchestratorAssumption, FS_Subset, FS_CardinalityType DEF Holders
<1>2. CASE Keeps
  BY <1>2 DEF SlotInv, SlotsConserved, Keeps
<1>3. ASSUME NEW t \in Tasks, Takes(t)
      PROVE  SlotInv'
  <2>1. Cardinality(Holders') = Cardinality(Holders) + 1
    BY <1>1, <1>3, FS_AddElement DEF Takes
  <2>2. QED
    BY <1>1, <1>3, <2>1, OrchestratorAssumption DEF SlotInv, SlotsConserved, Takes
<1>4. ASSUME NEW t \in Tasks, Gives(t)
      PROVE  SlotInv'
  <2>1. Cardinality(Holders') = Cardinality(Holders) - 1
    BY <1>1, <1>4, FS_RemoveElement DEF Gives
  <2>2. QED
    BY <1>1, <1>4, <2>1, OrchestratorAssumption DEF SlotInv, SlotsConserved, Gives
<1>5. QED
  BY <1>2, <1>3, <1>4 DEF SlotStep

(* Free slots and holders always add up to the size of the semaphore, so    *)
(* at most that many agents run at once and none waits for a lost slot.     *)
THEOREM SlotsCorrect == Spec => []SlotsConserved
<1>1. Init => ShapeInv /\ SlotInv
  <2> SUFFICES ASSUME Init PROVE ShapeInv /\ SlotInv
    OBVIOUS
  <2>1. ShapeInv
    BY OrchestratorAssumption DEF Init, ShapeInv, PhaseOK, RunsOK, RootsIdle, Phases, RunState
  <2>2. Holders = {}
    BY DEF Init, Holders, Holding
  <2>3. QED
    BY <2>1, <2>2, FS_EmptySet, OrchestratorAssumption DEF Init, SlotInv, SlotsConserved
<1>2. ShapeInv /\ SlotInv /\ [Next]_vars => (ShapeInv /\ SlotInv)'
  BY NextSlots, StepSlots
<1>3. SlotInv => SlotsConserved
  BY DEF SlotInv
<1>4. QED
  BY <1>1, <1>2, <1>3, PTL DEF Spec

-----------------------------------------------------------------------------
(* No execution escapes.                                                    *)

(* A coroutine that takes a step cancels none, drops no other from          *)
(* _bg_tasks, and leaves the table only as it ends.                         *)
LEMMA ServeEscapes ==
  ASSUME PhaseOK, NEW t \in Tasks, Serve(t)
  PROVE  /\ cancelled' = cancelled
         /\ \A u \in Tasks : u # t => phase'[u] = phase[u] /\ (u \in bg => u \in bg')
         /\ \/ phase'[t] \notin Live
            \/ phase[t] \in Live /\ bg' = bg
            \/ t \in bg'
<1> USE DEF Live, Holding, Phases
<1>1. \A to \in Phases : Moves(t, to) => phase'[t] = to /\ \A u \in Tasks : u # t => phase'[u] = phase[u]
  BY MovesEffect
<1>2. CASE GateDenies(t) \/ GateApproves(t) \/ AnnounceFails(t)
  BY <1>1, <1>2 DEF GateDenies, GateApproves, AnnounceFails
<1>3. CASE Launch(t)
  BY <1>1, <1>3 DEF Launch
<1>4. CASE Enter(t) \/ Acquire(t) \/ Retry(t)
  BY <1>1, <1>4 DEF Enter, Acquire, Retry
<1>5. CASE Succeed(t)
  BY <1>1, <1>5 DEF Succeed
<1>6. CASE Finish(t) \/ Escalated(t)
  BY <1>1, <1>6 DEF Finish, Escalated
<1>7. ASSUME AttemptFails(t), phase[t] \in Live
      PROVE  /\ cancelled' = cancelled /\ bg' = bg
             /\ \A u \in Tasks : u # t => phase'[u] = phase[u]
  BY <1>1, <1>7 DEF AttemptFails
<1>8. CASE RunnerRaises(t) \/ CompleteRaises(t) \/ NotifyRaises(t)
  BY <1>7, <1>8 DEF RunnerRaises, CompleteRaises, NotifyRaises
<1>9. CASE CancelledSuspended(t) \/ CancelledUnstarted(t)
  BY <1>1, <1>9 DEF CancelledSuspended, CancelledUnstarted
<1>10. QED
  BY <1>2, <1>3, <1>4, <1>5, <1>6, <1>8, <1>9 DEF Serve

(* Every step keeps each live execution in the table or cancelled. *)
LEMMA StepEscapes ==
  PhaseOK /\ NoEscapedExecution /\ [Next]_vars => NoEscapedExecution'
<1> SUFFICES ASSUME PhaseOK, NoEscapedExecution, [Next]_vars
             PROVE  NoEscapedExecution'
  OBVIOUS
<1> USE DEF NoEscapedExecution
<1>1. ASSUME NEW t \in Tasks, Serve(t)
      PROVE  NoEscapedExecution'
  BY <1>1, ServeEscapes
<1>2. ASSUME NEW t \in Tasks, NEW to \in {"gate", "announcing"}, Moves(t, to),
             bg' = bg, cancelled' = cancelled
      PROVE  NoEscapedExecution'
  <2>1. /\ phase'[t] = to
        /\ \A u \in Tasks : u # t => phase'[u] = phase[u]
    BY <1>2, MovesEffect DEF Phases, Holding
  <2>2. to \notin Live
    BY DEF Live, Holding
  <2>3. QED
    BY <1>2, <2>1, <2>2
<1>3. ASSUME NEW r \in Runs, Start(r)
      PROVE  NoEscapedExecution'
  BY <1>2, <1>3, OrchestratorAssumption DEF Start
<1>4. ASSUME NEW t \in Tasks, NEW p \in Tasks \cup {NoTask}, Delegate(t, p)
      PROVE  NoEscapedExecution'
  BY <1>2, <1>4 DEF Delegate
<1>5. ASSUME NEW r \in Runs, Stop(r)
      PROVE  NoEscapedExecution'
  <2>1. /\ phase' = phase
        /\ bg' = bg \ executions[r]
        /\ cancelled' = cancelled \cup {t \in executions[r] \cap bg : phase[t] \in Live}
    BY <1>5 DEF Stop
  <2>2. QED
    BY <2>1
<1>6. ASSUME NEW t \in Tasks, WaiterCancelled(t)
      PROVE  NoEscapedExecution'
  BY <1>6 DEF WaiterCancelled
<1>7. CASE UNCHANGED vars
  BY <1>7 DEF vars
<1>8. QED
  BY <1>1, <1>3, <1>4, <1>5, <1>6, <1>7 DEF Next

(* At every moment a stop finds each live execution in _bg_tasks, unless    *)
(* its cancellation is already on the way.                                  *)
THEOREM NoEscapedCorrect == Spec => []NoEscapedExecution
<1>1. Init => ShapeInv /\ NoEscapedExecution
  BY OrchestratorAssumption
  DEF Init, ShapeInv, PhaseOK, RunsOK, RootsIdle, Phases, Holding, Live, RunState,
      NoEscapedExecution
<1>2. ShapeInv /\ NoEscapedExecution /\ [Next]_vars => (ShapeInv /\ NoEscapedExecution)'
  BY NextSlots, StepEscapes DEF ShapeInv
<1>3. QED
  BY <1>1, <1>2, PTL DEF Spec
=============================================================================
