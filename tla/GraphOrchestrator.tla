------------------------- MODULE GraphOrchestrator -------------------------
(***************************************************************************)
(* DefaultGraphOrchestrator: runs that create tasks on the board, launch   *)
(* one asyncio task per execution, bound them by a semaphore, retry them,  *)
(* and cancel them when a run is stopped.                                  *)
(*                                                                         *)
(* A step is what one coroutine does between two suspensions.  The board   *)
(* is the in-memory one, whose operations do not suspend.  The event bus,  *)
(* the approval gate, the semaphore, the runner and the backoff do.        *)
(***************************************************************************)
EXTENDS Naturals, FiniteSets

CONSTANTS
  Tasks, Agents, NoTask, NoAgent,
  Runs,            \* run identifiers
  NoRun,           \* a delegation under a task of no run
  RootTask,        \* root_task_id of each run
  MaxConcurrent,   \* size of the semaphore
  MaxRetries,      \* per task: retries after the first attempt, which a delegation
                   \* may choose
  LateFaulty       \* the tasks for which complete_task or the event bus may raise
                   \* once the runner returned, as SQL boards and networked buses do

ASSUME OrchestratorAssumption ==
  /\ IsFiniteSet(Tasks)
  /\ NoTask \notin Tasks /\ NoAgent \notin Agents /\ NoRun \notin Runs
  /\ RootTask \in [Runs -> Tasks]
  /\ \A r, s \in Runs : RootTask[r] = RootTask[s] => r = s
  /\ MaxConcurrent \in Nat \ {0}
  /\ MaxRetries \in [Tasks -> Nat]
  /\ LateFaulty \subseteq Tasks

VARIABLES
  board,        \* the task board
  runs,         \* state of each run; "none" before start()
  executions,   \* run.executions: the tasks each run lists
  execution,    \* state of the execution of each task, once listed
  request,      \* what a start or delegate coroutine holds in its locals
  phase,        \* where the coroutine that serves the task is suspended
  attempt,      \* failed attempts so far
  cancelled,    \* tasks whose asyncio task has a CancelledError to come
  bg,           \* keys of _bg_tasks
  results,      \* keys of _results
  free          \* value of the semaphore

Board == INSTANCE GraphTaskBoard WITH tasks <- board, DepSets <- {{}}

vars == <<board, runs, executions, execution, request, phase, attempt,
          cancelled, bg, results, free>>

-----------------------------------------------------------------------------
Roots == {RootTask[r] : r \in Runs}

RunState       == {"none", "running", "stopped"}
ExecutionState == {"pending", "running", "retrying", "completed", "failed"}
Holding == {"running", "notifying", "backoff"}
Phases  == Holding \cup {"none", "gate", "denied", "announcing", "created",
                         "queued", "escalating", "ended"}
Live    == Holding \cup {"created", "queued", "escalating"}

Request == [run: Runs \cup {NoRun}, parent: Tasks \cup {NoTask}]
NoRequest == [run |-> NoRun, parent |-> NoTask]

(* find_run_for_task: the run whose root is p or which lists p. *)
FindRun(p) ==
  LET found == {r \in Runs : runs[r] # "none" /\ (RootTask[r] = p \/ p \in executions[r])}
  IN  IF found = {} THEN NoRun ELSE CHOOSE r \in found : TRUE

(* The coroutine of t moves on. *)
Moves(t, to) == phase' = [phase EXCEPT ![t] = to]

(* update_execution, which does nothing for a task that its run does not list. *)
Listed(t) == request[t].run # NoRun /\ t \in executions[request[t].run]

(* Seeded bug: index 0 of the list is taken for "not found". *)
UpdateNotFirst(t, s) ==
  execution' = IF Listed(t) /\ t \notin Roots THEN [execution EXCEPT ![t] = s] ELSE execution

UpdateExecution(t, s) ==
  execution' = IF Listed(t) THEN [execution EXCEPT ![t] = s] ELSE execution

(* Seeded bug: cancel_task takes a task in any status. *)
CancelForced(t) ==
  Board!Put(t, [board[t] EXCEPT !.status = "cancelled", !.checkout = NoAgent])

(* cancel_task and complete_task on the board, whose refusal is ignored. *)
CancelOnBoard(t) ==
  \/ Board!CancelTask(t)
  \/ board[t].status \notin Board!Open /\ UNCHANGED board
CompleteOnBoard(t) ==
  \/ Board!CompleteTask(t)
  \/ board[t].status # "in_progress" /\ UNCHANGED board

(* create_task followed by checkout_task, with no suspension between. *)
CreateCheckedOut(t, p) ==
  \E a \in Agents :
    /\ Board!ValidParentLink(t, p)
    /\ Board!Put(t, [Board!NewTask(p, {}) EXCEPT !.status = "in_progress", !.checkout = a])

-----------------------------------------------------------------------------
(* start and delegate.                                                      *)

(* start, up to its first event. *)
Start(r) ==
  /\ runs[r] = "none"
  /\ CreateCheckedOut(RootTask[r], NoTask)
  /\ runs' = [runs EXCEPT ![r] = "running"]
  /\ request' = [request EXCEPT ![RootTask[r]] = [run |-> r, parent |-> NoTask]]
  /\ Moves(RootTask[r], "announcing")
  /\ UNCHANGED <<executions, execution, attempt, cancelled, bg, results, free>>

(* delegate under p: the run is looked up before the approval gate answers. *)
(* The caller names the task in its DelegationRequest; the delegation tool  *)
(* makes a fresh uuid, as every caller is taken to.                         *)
Delegate(t, p) ==
  /\ t \notin Roots
  /\ phase[t] = "none"
  /\ p \in Board!Known \cup {NoTask}
  /\ request' = [request EXCEPT ![t] = [run |-> FindRun(p), parent |-> p]]
  /\ Moves(t, "gate")
  /\ UNCHANGED <<board, runs, executions, execution, attempt, cancelled, bg, results, free>>

(* The gate denies or raises, or the caller of delegate is cancelled. *)
GateDenies(t) ==
  /\ phase[t] = "gate"
  /\ Moves(t, "denied")
  /\ UNCHANGED <<board, runs, executions, execution, request, attempt, cancelled, bg,
                 results, free>>

(* The gate approves: the subtask goes on the board, then the event. *)
GateApproves(t) ==
  /\ phase[t] = "gate"
  /\ CreateCheckedOut(t, request[t].parent)
  /\ Moves(t, "announcing")
  /\ UNCHANGED <<runs, executions, execution, request, attempt, cancelled, bg, results, free>>

(* The bus raises, or the caller of start or delegate is cancelled: the     *)
(* task stays checked out, with no execution.                               *)
AnnounceFails(t) ==
  /\ phase[t] = "announcing"
  /\ Moves(t, "denied")
  /\ UNCHANGED <<board, runs, executions, execution, request, attempt, cancelled, bg,
                 results, free>>

(* The end of start and of delegate: list the execution and launch it. *)
Launch(t) ==
  /\ phase[t] = "announcing"
  /\ executions' =
       [r \in Runs |-> executions[r] \cup (IF request[t].run = r THEN {t} ELSE {})]
  /\ bg' = bg \cup {t}
  /\ Moves(t, "created")
  /\ UNCHANGED <<board, runs, execution, request, attempt, cancelled, results, free>>

-----------------------------------------------------------------------------
(* _execute_agent.                                                          *)

Enter(t) ==
  /\ phase[t] = "created"
  /\ t \notin cancelled
  /\ Moves(t, "queued")
  /\ UNCHANGED <<board, runs, executions, execution, request, attempt, cancelled, bg,
                 results, free>>

(* Seeded bug: the attempts are counted afresh each time a slot is got. *)
AcquireForgets(t) ==
  /\ phase[t] = "queued"
  /\ t \notin cancelled
  /\ free > 0
  /\ free' = free - 1
  /\ attempt' = [attempt EXCEPT ![t] = 0]
  /\ UpdateExecution(t, "running")
  /\ Moves(t, "running")
  /\ UNCHANGED <<board, runs, executions, request, cancelled, bg, results>>

Acquire(t) ==
  /\ phase[t] = "queued"
  /\ t \notin cancelled
  /\ free > 0
  /\ free' = free - 1
  /\ UpdateExecution(t, IF attempt[t] = 0 THEN "running" ELSE "retrying")
  /\ Moves(t, "running")
  /\ UNCHANGED <<board, runs, executions, request, attempt, cancelled, bg, results>>

(* The runner returns: the result is kept, the board told, the run updated. *)
Succeed(t) ==
  /\ phase[t] = "running"
  /\ t \notin cancelled
  /\ results' = results \cup {t}
  /\ CompleteOnBoard(t)
  /\ UpdateExecution(t, "completed")
  /\ Moves(t, "notifying")
  /\ UNCHANGED <<runs, executions, request, attempt, cancelled, bg, free>>

(* Seeded bug: the coroutine does not return after a success. *)
FinishLoops(t) ==
  /\ phase[t] = "notifying"
  /\ t \notin cancelled
  /\ free' = free + 1
  /\ Moves(t, "queued")
  /\ UNCHANGED <<board, runs, executions, execution, request, attempt, cancelled, bg, results>>

(* The event and the lifecycle hook are done: the coroutine returns. *)
Finish(t) ==
  /\ phase[t] = "notifying"
  /\ t \notin cancelled
  /\ free' = free + 1
  /\ bg' = bg \ {t}
  /\ Moves(t, "ended")
  /\ UNCHANGED <<board, runs, executions, execution, request, attempt, cancelled, results>>

(* Seeded bug: the slot is not released when the attempts are used up. *)
AttemptKeepsSlot(t) ==
  /\ t \notin cancelled
  /\ attempt' = [attempt EXCEPT ![t] = @ + 1]
  /\ \/ /\ attempt[t] < MaxRetries[t]
        /\ Moves(t, "backoff")
        /\ UNCHANGED <<board, execution>>
     \/ /\ attempt[t] >= MaxRetries[t]
        /\ CancelOnBoard(t)
        /\ UpdateExecution(t, "failed")
        /\ Moves(t, "escalating")
  /\ UNCHANGED <<runs, executions, request, cancelled, bg, free>>

(* Seeded bug: one retry too many. *)
AttemptOneMore(t) ==
  /\ t \notin cancelled
  /\ attempt' = [attempt EXCEPT ![t] = @ + 1]
  /\ \/ /\ attempt[t] <= MaxRetries[t]
        /\ Moves(t, "backoff")
        /\ UNCHANGED <<board, execution, free>>
     \/ /\ attempt[t] > MaxRetries[t]
        /\ free' = free + 1
        /\ CancelOnBoard(t)
        /\ UpdateExecution(t, "failed")
        /\ Moves(t, "escalating")
  /\ UNCHANGED <<runs, executions, request, cancelled, bg>>

(* The except clause: one more attempt after a backoff that keeps the slot, *)
(* or, when they are used up, the slot is released and the task given up.   *)
AttemptFails(t) ==
  /\ t \notin cancelled
  /\ attempt' = [attempt EXCEPT ![t] = @ + 1]
  /\ \/ /\ attempt[t] < MaxRetries[t]
        /\ Moves(t, "backoff")
        /\ UNCHANGED <<board, execution, free>>
     \/ /\ attempt[t] >= MaxRetries[t]
        /\ free' = free + 1
        /\ CancelOnBoard(t)
        /\ UpdateExecution(t, "failed")
        /\ Moves(t, "escalating")
  /\ UNCHANGED <<runs, executions, request, cancelled, bg>>

RunnerRaises(t) ==
  /\ phase[t] = "running"
  /\ AttemptFails(t)
  /\ UNCHANGED results

(* complete_task raises after the result was kept. *)
CompleteRaises(t) ==
  /\ t \in LateFaulty
  /\ phase[t] = "running"
  /\ results' = results \cup {t}
  /\ AttemptFails(t)

(* The event bus raises after the task completed. *)
NotifyRaises(t) ==
  /\ t \in LateFaulty
  /\ phase[t] = "notifying"
  /\ AttemptFails(t)
  /\ UNCHANGED results

Retry(t) ==
  /\ phase[t] = "backoff"
  /\ t \notin cancelled
  /\ free' = free + 1
  /\ Moves(t, "queued")
  /\ UNCHANGED <<board, runs, executions, execution, request, attempt, cancelled, bg, results>>

(* The escalation was sent, or raised. *)
Escalated(t) ==
  /\ phase[t] = "escalating"
  /\ t \notin cancelled
  /\ bg' = bg \ {t}
  /\ Moves(t, "ended")
  /\ UNCHANGED <<board, runs, executions, execution, request, attempt, cancelled, results, free>>

(* Seeded bug: the CancelledError is not caught. *)
CancelledUncaught(t) ==
  /\ t \in cancelled
  /\ phase[t] \in Live \ {"created"}
  /\ free' = IF phase[t] \in Holding THEN free + 1 ELSE free
  /\ bg' = bg \ {t}
  /\ Moves(t, "ended")
  /\ UNCHANGED <<board, runs, executions, execution, request, attempt, cancelled, results>>

(* A CancelledError that finds the coroutine suspended: semaphore released, *)
(* task cancelled on the board, entry of _bg_tasks dropped.                 *)
CancelledSuspended(t) ==
  /\ t \in cancelled
  /\ phase[t] \in Live \ {"created"}
  /\ CancelOnBoard(t)
  /\ free' = IF phase[t] \in Holding THEN free + 1 ELSE free
  /\ bg' = bg \ {t}
  /\ Moves(t, "ended")
  /\ UNCHANGED <<runs, executions, execution, request, attempt, cancelled, results>>

(* A CancelledError that comes before the coroutine's first step: asyncio   *)
(* closes it without entering its try.                                      *)
CancelledUnstarted(t) ==
  /\ t \in cancelled
  /\ phase[t] = "created"
  /\ Moves(t, "ended")
  /\ UNCHANGED <<board, runs, executions, execution, request, attempt, cancelled, bg,
                 results, free>>

(* The caller of wait_for_task, which awaits the asyncio task of t without a *)
(* timeout or a shield, is cancelled: the execution is.                     *)
WaiterCancelled(t) ==
  /\ t \in bg
  /\ phase[t] \in Live
  /\ cancelled' = cancelled \cup {t}
  /\ UNCHANGED <<board, runs, executions, execution, request, phase, attempt, bg, results,
                 free>>

-----------------------------------------------------------------------------
(* Seeded bug: only the executions that run are cancelled. *)
StopRunningOnly(r) ==
  /\ runs[r] # "none"
  /\ runs' = [runs EXCEPT ![r] = "stopped"]
  /\ bg' = bg \ executions[r]
  /\ cancelled' = cancelled \cup {t \in executions[r] \cap bg : phase[t] = "running"}
  /\ UNCHANGED <<board, executions, execution, request, phase, attempt, results, free>>

(* stop: the asyncio tasks of the run's executions are popped and those not *)
(* done are cancelled.                                                      *)
Stop(r) ==
  /\ runs[r] # "none"
  /\ runs' = [runs EXCEPT ![r] = "stopped"]
  /\ bg' = bg \ executions[r]
  /\ cancelled' = cancelled \cup {t \in executions[r] \cap bg : phase[t] \in Live}
  /\ UNCHANGED <<board, executions, execution, request, phase, attempt, results, free>>

-----------------------------------------------------------------------------
Init ==
  /\ Board!Init
  /\ runs       = [r \in Runs |-> "none"]
  /\ executions = [r \in Runs |-> {}]
  /\ execution  = [t \in Tasks |-> "pending"]
  /\ request    = [t \in Tasks |-> NoRequest]
  /\ phase      = [t \in Tasks |-> "none"]
  /\ attempt    = [t \in Tasks |-> 0]
  /\ cancelled  = {}
  /\ bg         = {}
  /\ results    = {}
  /\ free       = MaxConcurrent

(* The steps of the coroutine that serves t. *)
Serve(t) ==
  \/ GateDenies(t) \/ GateApproves(t) \/ AnnounceFails(t) \/ Launch(t)
  \/ Enter(t) \/ Acquire(t)
  \/ Succeed(t) \/ Finish(t)
  \/ RunnerRaises(t) \/ CompleteRaises(t) \/ NotifyRaises(t)
  \/ Retry(t) \/ Escalated(t)
  \/ CancelledSuspended(t) \/ CancelledUnstarted(t)

Next ==
  \/ \E r \in Runs : Start(r) \/ Stop(r)
  \/ \E t \in Tasks :
       \/ Serve(t)
       \/ WaiterCancelled(t)
       \/ \E p \in Tasks \cup {NoTask} : Delegate(t, p)

Spec == Init /\ [][Next]_vars

(* The event loop runs every ready coroutine; gates, buses and runners       *)
(* return or raise in the end.                                               *)
FairSpec == Spec /\ \A t \in Tasks : WF_vars(Serve(t))

-----------------------------------------------------------------------------
(* Correctness.                                                             *)

(* The variables hold values of the program's types. *)
TypeOK ==
  /\ Board!TypeOK
  /\ runs \in [Runs -> RunState]
  /\ executions \in [Runs -> SUBSET Tasks]
  /\ execution \in [Tasks -> ExecutionState]
  /\ request \in [Tasks -> Request]
  /\ phase \in [Tasks -> Phases]
  /\ attempt \in [Tasks -> Nat] /\ \A t \in Tasks : attempt[t] <= MaxRetries[t] + 1
  /\ cancelled \subseteq Tasks /\ bg \subseteq Tasks /\ results \subseteq Tasks
  /\ free \in 0..MaxConcurrent

Holders == {t \in Tasks : phase[t] \in Holding}

(* No slot of the semaphore is lost or doubled on any path out of an        *)
(* execution: success, retry, exhaustion, or a cancellation anywhere.       *)
SlotsConserved == free + Cardinality(Holders) = MaxConcurrent

(* No execution escapes: one that still runs is in _bg_tasks, where stop    *)
(* finds it, or has its cancellation on the way.                            *)
NoEscapedExecution ==
  \A t \in Tasks : phase[t] \in Live => t \in bg \cup cancelled

(* An execution reported completed has its result and is DONE on the board. *)
CompletedIsDone ==
  \A t \in Tasks : execution[t] = "completed" => t \in results /\ board[t].status = "done"

(* An execution that got as far as running leaves no task in progress on    *)
(* the board behind it, however it ended.                                   *)
EndedIsSettled ==
  \A t \in Tasks :
    phase[t] = "ended" /\ execution[t] # "pending" => board[t].status \in {"done", "cancelled"}

(* A task has a result only once its execution completed, where nothing     *)
(* raises after the runner returned.                                        *)
ResultMeansCompleted ==
  \A t \in results \ LateFaulty : Listed(t) => execution[t] = "completed"

(* An execution that completed is not run again, where nothing raises after *)
(* the runner returned.                                                     *)
CompletedIsFinal ==
  [][\A t \in Tasks \ LateFaulty :
        execution[t] = "completed" => execution'[t] = "completed"]_vars

(* An execution as whoever launched it sees it, by where its coroutine is. *)
PoolStage(at) ==
  CASE at \in {"none", "gate", "denied", "announcing"} -> "idle"
    [] at \in {"created", "queued"}     -> "waiting"
    [] at \in {"running", "notifying"}  -> "working"
    [] at = "backoff"    -> "resting"
    [] at = "escalating" -> "leaving"
    [] at = "ended"      -> "over"

Pool == INSTANCE ExecutionPool WITH
          stage <- [t \in Tasks |-> PoolStage(phase[t])], failed <- attempt,
          asked <- cancelled, kept <- results

(* Runs, board, semaphore, event bus and table of asyncio tasks together are *)
(* the pool: the bound on concurrency counts executions, not slots; attempts *)
(* are never counted afresh; and no execution ends without a result, a last  *)
(* failure or a cancellation.                                               *)
ImplementsPool == Pool!Spec

(* Every launched execution ends: it completes, is given up or is cancelled; *)
(* none waits for a slot for ever.                                          *)
EveryExecutionEnds ==
  \A t \in Tasks : (phase[t] = "created") ~> (phase[t] = "ended")

(* "Stop a run (cancels pending tasks)": no delegated execution of a        *)
(* stopped run goes on without a cancellation on the way.                   *)
StopCancelsRun ==
  \A r \in Runs : runs[r] = "stopped" =>
    \A t \in executions[r] \ Roots : phase[t] \in Live => t \in cancelled
=============================================================================
