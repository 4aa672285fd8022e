-------------------------- MODULE PersistentGraph --------------------------
(***************************************************************************)
(* PersistentGraphOrchestrator and its GoalQueue: goals are queued, and a  *)
(* processing loop, started by a submission that finds none running, runs  *)
(* one orchestration per goal and waits for its root execution.            *)
(*                                                                         *)
(* GraphOrchestrator models an orchestration in full.  Here its root       *)
(* execution is live, then succeeded, failed or cancelled.                 *)
(*                                                                         *)
(* A submission creates at most one loop: the loop that the submission of  *)
(* g creates is named g.                                                   *)
(***************************************************************************)
EXTENDS Naturals, Sequences, SequencesExt

CONSTANTS
  Goals,        \* goal identifiers: fresh uuids
  NoGoal,       \* None
  BusRaises     \* whether the event bus may raise, as networked buses do

ASSUME PersistentAssumption == NoGoal \notin Goals /\ BusRaises \in BOOLEAN

VARIABLES
  status,       \* per goal: "none" before its submission, then its GoalStatus
  queue,        \* GoalQueue._queue
  submitting,   \* goals whose submit_goal awaits the bus
  processing,   \* _processing
  processTask,  \* _process_task: the last loop created
  loop,         \* per loop: where its coroutine is suspended
  serves,       \* per loop: its local "entry"
  cancelled,    \* loops with a CancelledError to come
  root,         \* per goal: the root execution of its orchestration
  rootCancel,   \* goals whose root execution has a CancelledError to come
  down,         \* shutdown: "idle", "waiting" for a loop, "returned"
  awaited       \* the loop that shutdown waits for

vars == <<status, queue, submitting, processing, processTask, loop, serves,
          cancelled, root, rootCancel, down, awaited>>

-----------------------------------------------------------------------------
GoalStatus == {"queued", "running", "completed", "failed"}
Active     == {"starting", "waiting", "announcing"}
Over       == {"ended", "raised"}
LoopState  == Active \cup Over \cup {"none", "created"}
RootEnd    == {"succeeded", "failed", "cancelled"}

LoopMoves(l, to) == loop' = [loop EXCEPT ![l] = to]

(* Seeded bug: no finally clause. *)
LoopEndsQuietly(l, over) ==
  /\ LoopMoves(l, over)
  /\ serves' = [serves EXCEPT ![l] = NoGoal]
  /\ UNCHANGED processing

(* The finally clause: the loop ends, whichever loop still runs. *)
LoopEnds(l, over) ==
  /\ processing' = FALSE
  /\ LoopMoves(l, over)
  /\ serves' = [serves EXCEPT ![l] = NoGoal]

(* Seeded bug: peek without popleft. *)
DequeuePeeks(l) ==
  /\ queue # <<>>
  /\ status' = [status EXCEPT ![Head(queue)] = "running"]
  /\ serves' = [serves EXCEPT ![l] = Head(queue)]
  /\ LoopMoves(l, "starting")
  /\ UNCHANGED queue

(* dequeue and the start of the goal. *)
Dequeue(l) ==
  /\ queue # <<>>
  /\ queue' = Tail(queue)
  /\ status' = [status EXCEPT ![Head(queue)] = "running"]
  /\ serves' = [serves EXCEPT ![l] = Head(queue)]
  /\ LoopMoves(l, "starting")

-----------------------------------------------------------------------------
(* submit_goal.                                                             *)

Submit(g) ==
  /\ status[g] = "none"
  /\ status' = [status EXCEPT ![g] = "queued"]
  /\ queue' = Append(queue, g)
  /\ submitting' = submitting \cup {g}
  /\ down' = IF down = "returned" THEN "idle" ELSE down
  /\ UNCHANGED <<processing, processTask, loop, serves, cancelled, root, rootCancel,
                 awaited>>

(* The bus is done: start a loop if none says it is processing. *)
SubmitEnds(g) ==
  /\ g \in submitting
  /\ submitting' = submitting \ {g}
  /\ \/ /\ ~processing
        /\ LoopMoves(g, "created")
        /\ processTask' = g
     \/ /\ processing
        /\ UNCHANGED <<loop, processTask>>
  /\ UNCHANGED <<status, queue, processing, serves, cancelled, root, rootCancel, down, awaited>>

(* The bus raises in submit_goal: the goal stays queued, no loop is created. *)
SubmitRaises(g) ==
  /\ BusRaises
  /\ g \in submitting
  /\ submitting' = submitting \ {g}
  /\ LoopMoves(g, "raised")
  /\ UNCHANGED <<status, queue, processing, processTask, serves, cancelled, root,
                 rootCancel, down, awaited>>

-----------------------------------------------------------------------------
(* _process_loop.                                                           *)

LoopBegins(l) ==
  /\ loop[l] = "created"
  /\ l \notin cancelled
  /\ \/ processing' = TRUE /\ Dequeue(l)
     \/ queue = <<>> /\ LoopEnds(l, "ended") /\ UNCHANGED <<status, queue>>
  /\ UNCHANGED <<submitting, processTask, cancelled, root, rootCancel, down, awaited>>

(* orchestrator.start returns; the loop waits for the root execution. *)
GoalStarts(l) ==
  /\ loop[l] = "starting"
  /\ l \notin cancelled
  /\ root' = [root EXCEPT ![serves[l]] = "live"]
  /\ LoopMoves(l, "waiting")
  /\ UNCHANGED <<status, queue, submitting, processing, processTask, serves, cancelled,
                 rootCancel, down, awaited>>

(* orchestrator.start raises: the graph has no root, or the board refuses. *)
GoalFails(l) ==
  /\ loop[l] = "starting"
  /\ l \notin cancelled
  /\ status' = [status EXCEPT ![serves[l]] = "failed"]
  /\ LoopMoves(l, "announcing")
  /\ UNCHANGED <<queue, submitting, processing, processTask, serves, cancelled, root,
                 rootCancel, down, awaited>>

(* Seeded bug: the root execution is not awaited. *)
GoalCompletesEarly(l) ==
  /\ loop[l] = "waiting"
  /\ status' = [status EXCEPT ![serves[l]] = "completed"]
  /\ cancelled' = cancelled \ {l}
  /\ LoopMoves(l, "announcing")
  /\ UNCHANGED <<queue, submitting, processing, processTask, serves, root, rootCancel,
                 down, awaited>>

(* wait_for_task returns once the root execution has ended, however it did,  *)
(* and keeps a CancelledError of its caller for itself.                      *)
GoalCompletes(l) ==
  /\ loop[l] = "waiting"
  /\ root[serves[l]] \in RootEnd
  /\ status' = [status EXCEPT ![serves[l]] = "completed"]
  /\ cancelled' = cancelled \ {l}
  /\ LoopMoves(l, "announcing")
  /\ UNCHANGED <<queue, submitting, processing, processTask, serves, root, rootCancel,
                 down, awaited>>

(* The event is out: the next goal, if the loop goes on. *)
LoopTurns(l) ==
  /\ loop[l] = "announcing"
  /\ l \notin cancelled
  /\ \/ processing /\ Dequeue(l) /\ UNCHANGED processing
     \/ /\ ~processing \/ queue = <<>>
        /\ LoopEnds(l, "ended")
        /\ UNCHANGED <<status, queue>>
  /\ UNCHANGED <<submitting, processTask, cancelled, root, rootCancel, down, awaited>>

(* The bus raises: a goal just completed becomes failed; on the event of a  *)
(* failed goal the loop dies.                                               *)
AnnounceRaises(l) ==
  /\ BusRaises
  /\ loop[l] = "announcing"
  /\ l \notin cancelled
  /\ \/ /\ status[serves[l]] = "completed"
        /\ status' = [status EXCEPT ![serves[l]] = "failed"]
        /\ UNCHANGED <<processing, loop, serves>>
     \/ /\ status[serves[l]] = "failed"
        /\ LoopEnds(l, "raised")
        /\ UNCHANGED status
  /\ UNCHANGED <<queue, submitting, processTask, cancelled, root, rootCancel, down, awaited>>

(* Seeded bug: a loop that has not begun keeps its CancelledError. *)
LoopCancelledBegun(l) ==
  /\ l \in cancelled
  /\ loop[l] \in {"starting", "announcing"}
  /\ LoopEnds(l, "ended")
  /\ cancelled' = cancelled \ {l}
  /\ UNCHANGED <<status, queue, submitting, processTask, root, rootCancel, down, awaited>>

(* A CancelledError ends a loop that starts or announces a goal through its *)
(* finally clause, and one that has not begun without it.                   *)
LoopCancelled(l) ==
  /\ l \in cancelled
  /\ \/ loop[l] = "created" /\ LoopMoves(l, "ended") /\ UNCHANGED <<processing, serves>>
     \/ loop[l] \in {"starting", "announcing"} /\ LoopEnds(l, "ended")
  /\ cancelled' = cancelled \ {l}
  /\ UNCHANGED <<status, queue, submitting, processTask, root, rootCancel, down, awaited>>

-----------------------------------------------------------------------------
(* The orchestration of g: GraphOrchestrator, seen from here.               *)

RootEnds(g) ==
  /\ root[g] = "live"
  /\ \E end \in IF g \in rootCancel THEN {"cancelled"} ELSE {"succeeded", "failed"} :
       root' = [root EXCEPT ![g] = end]
  /\ UNCHANGED <<status, queue, submitting, processing, processTask, loop, serves, cancelled,
                 rootCancel, down, awaited>>

-----------------------------------------------------------------------------
(* shutdown.  The cancellation of a loop that waits for a root execution    *)
(* goes to that execution.  No run is stopped afterwards: the run_id of     *)
(* _current_goal, taken when the goal was dequeued, is never set.           *)

Unended == {l \in Goals : loop[l] \notin Over}

Shutdown ==
  /\ down = "idle"
  /\ processing' = FALSE
  /\ \/ /\ processTask \notin Unended
        /\ down' = "returned"
        /\ UNCHANGED <<cancelled, rootCancel, awaited>>
     \/ /\ processTask \in Unended
        /\ down' = "waiting"
        /\ awaited' = processTask
        /\ \/ /\ loop[processTask] = "waiting" /\ root[serves[processTask]] = "live"
              /\ rootCancel' = rootCancel \cup {serves[processTask]}
              /\ UNCHANGED cancelled
           \/ /\ ~(loop[processTask] = "waiting" /\ root[serves[processTask]] = "live")
              /\ cancelled' = cancelled \cup {processTask}
              /\ UNCHANGED rootCancel
  /\ UNCHANGED <<status, queue, submitting, processTask, loop, serves, root>>

ShutdownReturns ==
  /\ down = "waiting"
  /\ loop[awaited] \in Over
  /\ down' = "returned"
  /\ UNCHANGED <<status, queue, submitting, processing, processTask, loop, serves, cancelled,
                 root, rootCancel, awaited>>

-----------------------------------------------------------------------------
Init ==
  /\ status      = [g \in Goals |-> "none"]
  /\ queue       = <<>>
  /\ submitting  = {}
  /\ processing  = FALSE
  /\ processTask = NoGoal
  /\ loop        = [g \in Goals |-> "none"]
  /\ serves      = [g \in Goals |-> NoGoal]
  /\ cancelled   = {}
  /\ root        = [g \in Goals |-> "none"]
  /\ rootCancel  = {}
  /\ down        = "idle"
  /\ awaited     = NoGoal

LoopStep(l) ==
  \/ LoopBegins(l) \/ GoalStarts(l) \/ GoalFails(l) \/ GoalCompletes(l)
  \/ LoopTurns(l) \/ AnnounceRaises(l) \/ LoopCancelled(l)

Next ==
  \/ \E g \in Goals :
       \/ Submit(g) \/ SubmitEnds(g) \/ SubmitRaises(g)
       \/ LoopStep(g)
       \/ RootEnds(g)
  \/ Shutdown \/ ShutdownReturns

Spec == Init /\ [][Next]_vars

(* The event loop runs ready coroutines, and executions end (the property   *)
(* EveryExecutionEnds of GraphOrchestrator).                                *)
FairSpec ==
  /\ Spec
  /\ \A g \in Goals : WF_vars(SubmitEnds(g)) /\ WF_vars(LoopStep(g)) /\ WF_vars(RootEnds(g))
  /\ WF_vars(ShutdownReturns)

-----------------------------------------------------------------------------
(* Correctness.                                                             *)

(* The variables hold values of the program's types. *)
TypeOK ==
  /\ status \in [Goals -> GoalStatus \cup {"none"}]
  /\ queue \in Seq(Goals)
  /\ submitting \subseteq Goals
  /\ processing \in BOOLEAN
  /\ processTask \in Goals \cup {NoGoal}
  /\ loop \in [Goals -> LoopState]
  /\ serves \in [Goals -> Goals \cup {NoGoal}]
  /\ cancelled \subseteq Goals
  /\ root \in [Goals -> RootEnd \cup {"none", "live"}]
  /\ rootCancel \subseteq Goals
  /\ down \in {"idle", "waiting", "returned"}
  /\ awaited \in Goals \cup {NoGoal}

(* Two loops never take the same goal, however many run at once. *)
OneLoopPerGoal ==
  \A l, m \in Goals : serves[l] # NoGoal /\ serves[l] = serves[m] => l = m

(* While _processing holds some loop is at work: a submission that sees it  *)
(* and starts no loop leaves its goal to one.                               *)
ProcessingHasLoop == processing => \E l \in Goals : loop[l] \in Active

(* The queue holds exactly the goals that are QUEUED, each once: none is    *)
(* lost between the two structures of GoalQueue.                            *)
QueueHoldsQueued ==
  /\ ToSet(queue) = {g \in Goals : status[g] = "queued"}
  /\ IsInjective(queue)

(* No root execution is orphaned, not even by a shutdown: while one is live *)
(* its goal is RUNNING and a loop waits for it.                             *)
LiveRootIsAwaited ==
  \A g \in Goals : root[g] = "live" =>
    status[g] = "running" /\ \E l \in Goals : loop[l] = "waiting" /\ serves[l] = g

(* A goal that is QUEUED is never forgotten, although a submission starts   *)
(* no loop while _processing holds and any loop that ends clears it for     *)
(* all: its submission is to come back, or a loop is to begin, or one at    *)
(* work is to look at the queue again.  Unless shutdown is called or the    *)
(* bus raises and takes a loop with it.                                     *)
Undisturbed == down = "idle" /\ \A g \in Goals : loop[g] # "raised"

Remembered ==
  \A g \in Goals : status[g] = "queued" =>
    \/ g \in submitting
    \/ \E l \in Goals : loop[l] = "created" \/ (processing /\ loop[l] \in Active)

NoGoalForgotten == []Undisturbed => []Remembered

(* Every goal submitted is processed in the end, though loops come and go.  *)
EveryGoalSettles ==
  []Undisturbed =>
    \A g \in Goals : (status[g] = "queued") ~> (status[g] \in {"completed", "failed"})

(* shutdown returns. *)
ShutdownEnds == (down = "waiting") ~> (down # "waiting")

(* "Goals are queued and processed sequentially": one goal runs at a time. *)
GoalsAreSequential ==
  \A g, h \in Goals : status[g] = "running" /\ status[h] = "running" => g = h
=============================================================================
