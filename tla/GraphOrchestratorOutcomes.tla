--------------------- MODULE GraphOrchestratorOutcomes ----------------------
(***************************************************************************)
(* More theorems about GraphOrchestrator, for any tasks, runs, size of the *)
(* semaphore and number of retries: its types, and that the state of an    *)
(* execution, its result and its task on the board agree, whatever raises  *)
(* or is cancelled.                                                        *)
(***************************************************************************)
EXTENDS GraphOrchestratorProofs

OnBoard(t, S) == t \in DOMAIN board /\ board[t].status \in S

(* What a task goes through, by where the coroutine that serves it is.      *)
Fresh(t) ==
  phase[t] \in {"none", "gate", "announcing", "created"} =>
    execution[t] = "pending" /\ t \notin results
AtWork(t) ==
  phase[t] \in {"announcing", "created", "queued", "running", "backoff"} =>
    OnBoard(t, {"in_progress", "done"})
Notified(t)  == phase[t] = "notifying" => OnBoard(t, {"done"})
Settled(t) ==
  phase[t] = "escalating" \/ (phase[t] = "ended" /\ execution[t] # "pending") =>
    OnBoard(t, {"done", "cancelled"})
Reported(t)  == execution[t] = "completed" => t \in results /\ OnBoard(t, {"done"})
Kept(t) ==
  t \in results \ LateFaulty =>
    /\ phase[t] \in {"notifying", "ended"}
    /\ Listed(t) => execution[t] = "completed"
Attempts(t) == phase[t] \notin {"escalating", "ended"} => attempt[t] <= MaxRetries[t]

Life(t) ==
  Fresh(t) /\ AtWork(t) /\ Notified(t) /\ Settled(t) /\ Reported(t) /\ Kept(t) /\ Attempts(t)

LifeInv == \A t \in Tasks : Life(t)

(* The types that the proofs about slots have no use for. *)
DataOK ==
  /\ Board!TypeOK
  /\ executions \in [Runs -> SUBSET Tasks]
  /\ execution \in [Tasks -> ExecutionState]
  /\ request \in [Tasks -> Request]
  /\ attempt \in [Tasks -> Nat] /\ \A t \in Tasks : attempt[t] <= MaxRetries[t] + 1
  /\ cancelled \subseteq Tasks /\ bg \subseteq Tasks /\ results \subseteq Tasks

-----------------------------------------------------------------------------
(* The board.                                                               *)

(* Whatever is done about other tasks, u stays on the board, and its status *)
(* stays or becomes DONE.                                                   *)
Later(u) ==
  u \in DOMAIN board => u \in DOMAIN board' /\ board'[u].status \in {board[u].status, "done"}

LEMMA PutOnBoard ==
  ASSUME Board!TypeOK, NEW t \in Tasks, NEW item \in Board!GraphTaskItem, Board!Put(t, item)
  PROVE  /\ Board!TypeOK'
         /\ t \in DOMAIN board' /\ board'[t] = item
         /\ \A u \in Tasks \ {t} : Later(u)
<1>1. board' = [u \in DOMAIN board \cup {t} |-> IF u = t THEN item ELSE board[u]]
  BY DEF Board!Put, Board!Known
<1>2. DOMAIN board' = DOMAIN board \cup {t}
  BY <1>1
<1>3. board \in [DOMAIN board -> Board!GraphTaskItem] /\ DOMAIN board \subseteq Tasks
  BY DEF Board!TypeOK, Board!Known
<1>4. board' \in [DOMAIN board' -> Board!GraphTaskItem]
  BY <1>1, <1>2, <1>3
<1>5. Board!TypeOK'
  BY <1>2, <1>3, <1>4 DEF Board!TypeOK, Board!Known
<1>6. QED
  BY <1>1, <1>2, <1>5 DEF Later

LEMMA CreateEffect ==
  ASSUME Board!TypeOK, NEW t \in Tasks, NEW p \in Tasks \cup {NoTask}, CreateCheckedOut(t, p)
  PROVE  Board!TypeOK' /\ OnBoard(t, {"in_progress", "done"})' /\ \A u \in Tasks \ {t} : Later(u)
<1>1. PICK a \in Agents :
        Board!Put(t, [Board!NewTask(p, {}) EXCEPT !.status = "in_progress", !.checkout = a])
  BY DEF CreateCheckedOut
<1> DEFINE item == [Board!NewTask(p, {}) EXCEPT !.status = "in_progress", !.checkout = a]
<1>2. item \in Board!GraphTaskItem /\ item.status = "in_progress"
  BY DEF Board!NewTask, Board!GraphTaskItem, Board!Status, Board!Progress, Board!Reasons
<1>3. Board!Put(t, item)
  BY <1>1
<1> HIDE DEF item
<1>4. QED
  BY <1>2, <1>3, PutOnBoard DEF OnBoard

LEMMA CancelEffect ==
  ASSUME Board!TypeOK, NEW t \in Tasks, CancelOnBoard(t)
  PROVE  /\ Board!TypeOK'
         /\ \A u \in Tasks \ {t} : Later(u)
         /\ OnBoard(t, {"in_progress", "done", "cancelled"}) => OnBoard(t, {"done", "cancelled"})'
         /\ OnBoard(t, {"done"}) => OnBoard(t, {"done"})'
<1>1. CASE Board!CancelTask(t)
  <2> DEFINE item == [board[t] EXCEPT !.status = "cancelled", !.checkout = NoAgent]
  <2>1. Board!Put(t, item) /\ board[t] \in Board!GraphTaskItem /\ board[t].status # "done"
    BY <1>1 DEF Board!CancelTask, Board!TypeOK, Board!Known, Board!Open
  <2>2. item \in Board!GraphTaskItem /\ item.status = "cancelled"
    BY <2>1 DEF Board!GraphTaskItem, Board!Status
  <2> HIDE DEF item
  <2>3. QED
    BY <2>1, <2>2, PutOnBoard DEF OnBoard
<1>2. CASE board[t].status \notin Board!Open /\ UNCHANGED board
  BY <1>2 DEF Board!TypeOK, Board!Known, Board!Open, OnBoard, Later
<1>3. QED
  BY <1>1, <1>2 DEF CancelOnBoard

LEMMA CompleteEffect ==
  ASSUME Board!TypeOK, NEW t \in Tasks, CompleteOnBoard(t), OnBoard(t, {"in_progress", "done"})
  PROVE  /\ Board!TypeOK'
         /\ OnBoard(t, {"done"})'
         /\ \A u \in Tasks \ {t} : Later(u)
<1>1. CASE Board!CompleteTask(t)
  <2>1. t \in DOMAIN board /\ board' = Board!Completed(t)
    BY <1>1 DEF Board!CompleteTask, Board!Known
  <2>2. \A u \in DOMAIN board : board[u] \in Board!GraphTaskItem
    BY DEF Board!TypeOK, Board!Known
  <2>3. /\ Board!Completed(t) \in [DOMAIN board -> Board!GraphTaskItem]
        /\ \A u \in DOMAIN board :
             Board!Completed(t)[u].status = IF u \in Board!DoneAfter(t) THEN "done" ELSE board[u].status
    BY <2>2 DEF Board!Completed, Board!Known, Board!GraphTaskItem, Board!Status, Board!Progress
  <2>4. t \in Board!DoneAfter(t)
    BY <2>1 DEF Board!DoneAfter, Board!DoneClosed, Board!Known
  <2>5. DOMAIN board' = DOMAIN board
    BY <2>1, <2>3
  <2>6. QED
    BY <2>1, <2>3, <2>4, <2>5 DEF Board!TypeOK, Board!Known, OnBoard, Later
<1>2. CASE board[t].status # "in_progress" /\ UNCHANGED board
  BY <1>2 DEF Board!TypeOK, Board!Known, OnBoard, Later
<1>3. QED
  BY <1>1, <1>2 DEF CompleteOnBoard

-----------------------------------------------------------------------------
(* A step for one task leaves the life of every other as it was.            *)

Frame(u) ==
  /\ phase'[u] = phase[u] /\ execution'[u] = execution[u] /\ attempt'[u] = attempt[u]
  /\ u \in results' <=> u \in results
  /\ Listed(u)' <=> Listed(u)
  /\ Later(u)

LEMMA FrameLife == ASSUME NEW u \in Tasks, Life(u), Frame(u) PROVE Life(u)'
<1> USE DEF Life, Frame, Later, OnBoard
<1>1. Fresh(u)' /\ Attempts(u)'
  BY DEF Fresh, Attempts
<1>2. AtWork(u)' /\ Notified(u)' /\ Settled(u)'
  BY DEF AtWork, Notified, Settled
<1>3. Reported(u)' /\ Kept(u)'
  BY DEF Reported, Kept
<1>4. QED
  BY <1>1, <1>2, <1>3

Types == PhaseOK /\ DataOK

(* What a step that serves t, starts or delegates it keeps for the rest. *)
Serves(t) == DataOK' /\ Life(t)' /\ \A u \in Tasks \ {t} : Frame(u)

(* The steps that leave data alone: t moves on. *)
LEMMA MoveServes ==
  ASSUME Types, NEW t \in Tasks, Life(t), NEW to \in Phases, Moves(t, to),
         UNCHANGED <<board, executions, execution, request, attempt, results>>,
         cancelled' \subseteq Tasks, bg' \subseteq Tasks,
         \/ phase[t] = "gate" /\ to = "denied"
         \/ phase[t] = "announcing" /\ to = "denied"
         \/ phase[t] = "created" /\ to = "queued"
         \/ phase[t] = "notifying" /\ to = "ended"
         \/ phase[t] = "backoff" /\ to = "queued"
         \/ phase[t] = "escalating" /\ to = "ended"
         \/ phase[t] = "created" /\ to = "ended"
  PROVE  Serves(t)
<1>1. phase'[t] = to /\ \A u \in Tasks : u # t => phase'[u] = phase[u]
  BY MovesEffect DEF Types
<1>2. DataOK'
  BY DEF Types, DataOK, Board!TypeOK, Board!Known
<1>3. \A u \in Tasks \ {t} : Frame(u)
  BY <1>1 DEF Frame, Later, Listed
<1>4. Life(t)'
  <2> USE <1>1 DEF Life, OnBoard
  <2>1. Fresh(t)' /\ Attempts(t)'
    BY DEF Fresh, Attempts
  <2>2. AtWork(t)' /\ Notified(t)' /\ Settled(t)'
    BY DEF Fresh, AtWork, Notified, Settled
  <2>3. Reported(t)'
    BY DEF Reported
  <2>4. Kept(t)'
    BY DEF Fresh, Kept, Listed
  <2>5. QED
    BY <2>1, <2>2, <2>3, <2>4
<1>5. QED
  BY <1>2, <1>3, <1>4 DEF Serves

(* update_execution. *)
LEMMA UpdateEffect ==
  ASSUME Types, NEW t \in Tasks, NEW s \in ExecutionState, UpdateExecution(t, s)
  PROVE  /\ execution' \in [Tasks -> ExecutionState]
         /\ \A u \in Tasks \ {t} : execution'[u] = execution[u]
         /\ execution'[t] = IF Listed(t) THEN s ELSE execution[t]
BY DEF UpdateExecution, Types, DataOK

LEMMA AcquireServes ==
  ASSUME Types, NEW t \in Tasks, Life(t), Acquire(t)
  PROVE  Serves(t)
<1>1. /\ phase[t] = "queued" /\ phase'[t] = "running" /\ \A u \in Tasks : u # t => phase'[u] = phase[u]
  BY MovesEffect DEF Acquire, Types, Phases, Holding
<1>2. PICK s \in {"running", "retrying"} : UpdateExecution(t, s)
  BY DEF Acquire
<1>3. /\ execution' \in [Tasks -> ExecutionState]
      /\ \A u \in Tasks \ {t} : execution'[u] = execution[u]
      /\ execution'[t] \in {execution[t], "running", "retrying"}
  BY <1>2, UpdateEffect DEF ExecutionState
<1>4. DataOK' /\ \A u \in Tasks \ {t} : Frame(u)
  BY <1>1, <1>3 DEF Acquire, Types, DataOK, Board!TypeOK, Board!Known, Frame, Later, Listed
<1>5. Life(t)'
  <2> USE <1>1, <1>3 DEF Life, OnBoard, Acquire
  <2>1. Fresh(t)' /\ Attempts(t)'
    BY DEF Fresh, Attempts
  <2>2. AtWork(t)' /\ Notified(t)' /\ Settled(t)'
    BY DEF AtWork, Notified, Settled
  <2>3. Reported(t)'
    BY DEF Reported
  <2>4. Kept(t)'
    BY DEF Kept
  <2>5. QED
    BY <2>1, <2>2, <2>3, <2>4
<1>6. QED
  BY <1>4, <1>5 DEF Serves

LEMMA SucceedServes ==
  ASSUME Types, NEW t \in Tasks, Life(t), Succeed(t)
  PROVE  Serves(t)
<1>1. /\ phase[t] = "running" /\ phase'[t] = "notifying"
      /\ \A u \in Tasks : u # t => phase'[u] = phase[u]
  BY MovesEffect DEF Succeed, Types, Phases, Holding
<1>2. /\ execution' \in [Tasks -> ExecutionState]
      /\ \A u \in Tasks \ {t} : execution'[u] = execution[u]
      /\ execution'[t] = IF Listed(t) THEN "completed" ELSE execution[t]
  BY UpdateEffect DEF ExecutionState, Succeed
<1>3. Board!TypeOK' /\ OnBoard(t, {"done"})' /\ \A u \in Tasks \ {t} : Later(u)
  BY <1>1, CompleteEffect DEF Succeed, Life, AtWork, Types, DataOK
<1>4. results' = results \cup {t} /\ UNCHANGED <<executions, request, attempt, cancelled, bg>>
  BY DEF Succeed
<1>5. DataOK' /\ \A u \in Tasks \ {t} : Frame(u)
  BY <1>1, <1>2, <1>3, <1>4 DEF Types, DataOK, Frame, Listed
<1>6. Life(t)'
  <2> USE <1>1, <1>2, <1>3, <1>4 DEF Life
  <2>1. Fresh(t)' /\ Attempts(t)'
    BY DEF Fresh, Attempts
  <2>2. AtWork(t)' /\ Notified(t)' /\ Settled(t)'
    BY DEF AtWork, Notified, Settled
  <2>3. Reported(t)'
    BY DEF Reported
  <2>4. Kept(t)'
    BY DEF Kept, Listed
  <2>5. QED
    BY <2>1, <2>2, <2>3, <2>4
<1>7. QED
  BY <1>5, <1>6 DEF Serves

(* An attempt that fails while it runs, or, where something raises late,    *)
(* after it has its result.                                                 *)
LEMMA AttemptServes ==
  ASSUME Types, NEW t \in Tasks, Life(t), AttemptFails(t),
         \/ phase[t] = "running" /\ results' = results
         \/ phase[t] = "running" /\ results' = results \cup {t} /\ t \in LateFaulty
         \/ phase[t] = "notifying" /\ results' = results /\ t \in LateFaulty
  PROVE  Serves(t)
<1>1. attempt[t] \in 0..MaxRetries[t] /\ attempt'[t] = attempt[t] + 1
      /\ attempt' \in [Tasks -> Nat] /\ (\A u \in Tasks : attempt'[u] <= MaxRetries[u] + 1)
      /\ \A u \in Tasks \ {t} : attempt'[u] = attempt[u]
  <2>1. attempt[t] \in Nat /\ MaxRetries[t] \in Nat /\ attempt[t] <= MaxRetries[t]
    <3>1. phase[t] \notin {"escalating", "ended"}
      OBVIOUS
    <3>2. attempt[t] <= MaxRetries[t]
      BY <3>1 DEF Life, Attempts
    <3>3. attempt[t] \in Nat /\ MaxRetries[t] \in Nat
      BY OrchestratorAssumption DEF Types, DataOK
    <3>4. QED
      BY <3>2, <3>3
  <2>2. attempt' = [attempt EXCEPT ![t] = @ + 1]
    BY DEF AttemptFails
  <2>3. QED
    BY <2>1, <2>2 DEF Types, DataOK
<1>2. OnBoard(t, {"in_progress", "done"}) /\ (phase[t] = "notifying" => OnBoard(t, {"done"}))
  BY DEF Life, AtWork, Notified, OnBoard
<1>3. t \in results \ LateFaulty => phase[t] # "running"
  BY DEF Life, Kept
<1>4. UNCHANGED <<executions, request, cancelled, bg>>
  BY DEF AttemptFails
<1>5. CASE attempt[t] < MaxRetries[t] /\ Moves(t, "backoff") /\ UNCHANGED <<board, execution, free>>
  <2>1. phase'[t] = "backoff" /\ \A u \in Tasks : u # t => phase'[u] = phase[u]
    BY <1>5, MovesEffect DEF Types, Phases, Holding
  <2>2. DataOK' /\ \A u \in Tasks \ {t} : Frame(u)
    BY <1>1, <1>4, <1>5, <2>1 DEF Types, DataOK, Board!TypeOK, Board!Known, Frame, Later, Listed
  <2>3. Fresh(t)' /\ Attempts(t)'
    BY <1>1, <1>5, <2>1, OrchestratorAssumption DEF Fresh, Attempts
  <2>4. AtWork(t)' /\ Notified(t)' /\ Settled(t)'
    BY <1>2, <1>5, <2>1 DEF AtWork, Notified, Settled, OnBoard
  <2>5. Reported(t)' /\ Kept(t)'
    BY <1>3, <1>5, <2>1 DEF Life, Reported, Kept, OnBoard
  <2>6. QED
    BY <2>2, <2>3, <2>4, <2>5 DEF Serves, Life
<1>6. CASE /\ attempt[t] >= MaxRetries[t]
           /\ CancelOnBoard(t)
           /\ UpdateExecution(t, "failed")
           /\ Moves(t, "escalating")
  <2>1. phase'[t] = "escalating" /\ \A u \in Tasks : u # t => phase'[u] = phase[u]
    BY <1>6, MovesEffect DEF Types, Phases, Holding
  <2>2. /\ execution' \in [Tasks -> ExecutionState]
        /\ \A u \in Tasks \ {t} : execution'[u] = execution[u]
        /\ execution'[t] \in {execution[t], "failed"}
    BY <1>6, UpdateEffect DEF ExecutionState
  <2>3. /\ Board!TypeOK'
        /\ \A u \in Tasks \ {t} : Later(u)
        /\ OnBoard(t, {"done", "cancelled"})'
        /\ OnBoard(t, {"done"}) => OnBoard(t, {"done"})'
    <3>1. OnBoard(t, {"in_progress", "done", "cancelled"})
      BY <1>2 DEF OnBoard
    <3>2. QED
      BY <1>6, <3>1, CancelEffect DEF Types, DataOK
  <2>4. DataOK' /\ \A u \in Tasks \ {t} : Frame(u)
    BY <1>1, <1>4, <2>1, <2>2, <2>3 DEF Types, DataOK, Frame, Listed
  <2>5. Fresh(t)' /\ Attempts(t)' /\ AtWork(t)' /\ Notified(t)' /\ Settled(t)'
    BY <2>1, <2>3 DEF Fresh, Attempts, AtWork, Notified, Settled
  <2>6. Reported(t)' /\ Kept(t)'
    BY <1>3, <2>1, <2>2, <2>3 DEF Life, Reported, Kept
  <2>7. QED
    BY <2>4, <2>5, <2>6 DEF Serves, Life
<1>7. QED
  BY <1>5, <1>6 DEF AttemptFails

LEMMA SuspendedServes ==
  ASSUME Types, NEW t \in Tasks, Life(t), CancelledSuspended(t)
  PROVE  Serves(t)
<1>1. /\ phase[t] \in Live \ {"created"} /\ phase'[t] = "ended"
      /\ \A u \in Tasks : u # t => phase'[u] = phase[u]
  BY MovesEffect DEF CancelledSuspended, Types, Phases, Holding
<1>2. OnBoard(t, {"in_progress", "done", "cancelled"})
  BY <1>1 DEF Life, AtWork, Notified, Settled, OnBoard, Live, Holding
<1>3. /\ Board!TypeOK'
      /\ \A u \in Tasks \ {t} : Later(u)
      /\ OnBoard(t, {"done", "cancelled"})'
      /\ OnBoard(t, {"done"}) => OnBoard(t, {"done"})'
  BY <1>2, CancelEffect DEF CancelledSuspended, Types, DataOK
<1>4. UNCHANGED <<executions, execution, request, attempt, cancelled, results>> /\ bg' = bg \ {t}
  BY DEF CancelledSuspended
<1>5. DataOK' /\ \A u \in Tasks \ {t} : Frame(u)
  BY <1>1, <1>3, <1>4 DEF Types, DataOK, Frame, Listed
<1>6. Fresh(t)' /\ Attempts(t)' /\ AtWork(t)' /\ Notified(t)' /\ Settled(t)'
  BY <1>1, <1>3 DEF Fresh, Attempts, AtWork, Notified, Settled
<1>7. Reported(t)' /\ Kept(t)'
  BY <1>1, <1>3, <1>4 DEF Life, Reported, Kept, Listed, Live, Holding
<1>8. QED
  BY <1>5, <1>6, <1>7 DEF Serves, Life

(* A task goes on the board. *)
LEMMA CreateServes ==
  ASSUME Types, NEW t \in Tasks, Life(t), NEW p \in Tasks \cup {NoTask},
         phase[t] \in {"none", "gate"}, CreateCheckedOut(t, p), Moves(t, "announcing"),
         request' \in [Tasks -> Request], \A u \in Tasks \ {t} : request'[u] = request[u],
         UNCHANGED <<executions, execution, attempt, cancelled, bg, results>>
  PROVE  Serves(t)
<1>1. phase'[t] = "announcing" /\ \A u \in Tasks : u # t => phase'[u] = phase[u]
  BY MovesEffect DEF Types, Phases, Holding
<1>2. Board!TypeOK' /\ OnBoard(t, {"in_progress", "done"})' /\ \A u \in Tasks \ {t} : Later(u)
  BY CreateEffect DEF Types, DataOK
<1>3. DataOK' /\ \A u \in Tasks \ {t} : Frame(u)
  BY <1>1, <1>2 DEF Types, DataOK, Frame, Listed
<1>4. execution'[t] = "pending" /\ t \notin results' /\ attempt'[t] <= MaxRetries[t]
  BY DEF Life, Fresh, Attempts
<1>5. Life(t)'
  BY <1>1, <1>2, <1>4 DEF Life, Fresh, AtWork, Notified, Settled, Reported, Kept, Attempts
<1>6. QED
  BY <1>3, <1>5 DEF Serves

LEMMA LaunchServes ==
  ASSUME Types, NEW t \in Tasks, Life(t), Launch(t)
  PROVE  Serves(t)
<1>1. /\ phase[t] = "announcing" /\ phase'[t] = "created"
      /\ \A u \in Tasks : u # t => phase'[u] = phase[u]
  BY MovesEffect DEF Launch, Types, Phases, Holding
<1>2. /\ executions' \in [Runs -> SUBSET Tasks]
      /\ \A u \in Tasks \ {t}, r \in Runs : u \in executions'[r] <=> u \in executions[r]
  BY DEF Launch, Types, DataOK
<1>3. UNCHANGED <<board, execution, request, attempt, cancelled, results>> /\ bg' = bg \cup {t}
  BY DEF Launch
<1>4. \A u \in Tasks \ {t} : Listed(u)' <=> Listed(u)
  BY <1>2, <1>3 DEF Listed, Types, DataOK, Request
<1>5. DataOK' /\ \A u \in Tasks \ {t} : Frame(u)
  BY <1>1, <1>2, <1>3, <1>4 DEF Types, DataOK, Board!TypeOK, Board!Known, Frame, Later
<1>6. Life(t)'
  <2>1. execution'[t] = "pending" /\ t \notin results' /\ attempt'[t] <= MaxRetries[t]
        /\ OnBoard(t, {"in_progress", "done"})'
    BY <1>1, <1>3 DEF Life, Fresh, Attempts, AtWork, OnBoard
  <2>2. QED
    BY <1>1, <2>1 DEF Life, Fresh, AtWork, Notified, Settled, Reported, Kept, Attempts
<1>7. QED
  BY <1>5, <1>6 DEF Serves

LEMMA DelegateServes ==
  ASSUME Types, NEW t \in Tasks, Life(t), NEW p \in Tasks \cup {NoTask}, Delegate(t, p)
  PROVE  Serves(t)
<1>1. /\ phase[t] = "none" /\ phase'[t] = "gate"
      /\ \A u \in Tasks : u # t => phase'[u] = phase[u]
  BY MovesEffect DEF Delegate, Types, Phases, Holding
<1>2. FindRun(p) \in Runs \cup {NoRun}
  BY DEF FindRun
<1>3. /\ request' \in [Tasks -> Request]
      /\ \A u \in Tasks \ {t} : request'[u] = request[u]
  BY <1>2 DEF Delegate, Types, DataOK, Request
<1>4. UNCHANGED <<board, executions, execution, attempt, cancelled, bg, results>>
  BY DEF Delegate
<1>5. DataOK' /\ \A u \in Tasks \ {t} : Frame(u)
  BY <1>1, <1>3, <1>4 DEF Types, DataOK, Board!TypeOK, Board!Known, Frame, Later, Listed
<1>6. execution'[t] = "pending" /\ t \notin results' /\ attempt'[t] <= MaxRetries[t]
  BY <1>1, <1>4 DEF Life, Fresh, Attempts
<1>7. Life(t)'
  BY <1>1, <1>6 DEF Life, Fresh, AtWork, Notified, Settled, Reported, Kept, Attempts
<1>8. QED
  BY <1>5, <1>7 DEF Serves

(* Every step of the coroutine that serves t. *)
LEMMA ServeServes ==
  ASSUME Types, NEW t \in Tasks, Life(t), Serve(t)
  PROVE  Serves(t)
<1>1. CASE GateDenies(t) \/ AnnounceFails(t) \/ Enter(t)
  BY <1>1, MoveServes DEF GateDenies, AnnounceFails, Enter, Types, DataOK, Phases, Holding
<1>2. CASE Finish(t) \/ Retry(t) \/ Escalated(t) \/ CancelledUnstarted(t)
  <2>1. bg' \subseteq Tasks /\ cancelled' \subseteq Tasks
    BY <1>2 DEF Finish, Retry, Escalated, CancelledUnstarted, Types, DataOK
  <2>2. QED
    BY <1>2, <2>1, MoveServes DEF Finish, Retry, Escalated, CancelledUnstarted, Phases, Holding
<1>3. CASE GateApproves(t)
  <2>1. request[t].parent \in Tasks \cup {NoTask}
    BY DEF Types, DataOK, Request
  <2>2. QED
    BY <1>3, <2>1, CreateServes DEF GateApproves, Types, DataOK
<1>4. CASE RunnerRaises(t) \/ CompleteRaises(t) \/ NotifyRaises(t)
  BY <1>4, AttemptServes DEF RunnerRaises, CompleteRaises, NotifyRaises
<1>5. QED
  BY <1>1, <1>2, <1>3, <1>4, LaunchServes, AcquireServes, SucceedServes, SuspendedServes DEF Serve

-----------------------------------------------------------------------------
OutcomeInv == ShapeInv /\ SlotInv /\ DataOK /\ LifeInv

LEMMA StepOutcome == OutcomeInv /\ [Next]_vars => OutcomeInv'
<1> SUFFICES ASSUME ShapeInv, SlotInv, DataOK, LifeInv, [Next]_vars
             PROVE  DataOK' /\ LifeInv'
  BY NextSlots, StepSlots DEF OutcomeInv
<1>0. Types /\ \A t \in Tasks : Life(t)
  BY DEF Types, ShapeInv, LifeInv
<1>1. ASSUME NEW t \in Tasks, Serves(t)
      PROVE  DataOK' /\ LifeInv'
  BY <1>0, <1>1, FrameLife DEF Serves, LifeInv
<1>2. ASSUME NEW t \in Tasks, Serve(t)
      PROVE  DataOK' /\ LifeInv'
  BY <1>0, <1>1, <1>2, ServeServes
<1>3. ASSUME NEW t \in Tasks, NEW p \in Tasks \cup {NoTask}, Delegate(t, p)
      PROVE  DataOK' /\ LifeInv'
  BY <1>0, <1>1, <1>3, DelegateServes
<1>4. ASSUME NEW r \in Runs, Start(r)
      PROVE  DataOK' /\ LifeInv'
  <2>1. RootTask[r] \in Tasks /\ phase[RootTask[r]] = "none"
    BY <1>4, OrchestratorAssumption DEF Start, ShapeInv, RootsIdle
  <2>2. /\ request' \in [Tasks -> Request]
        /\ \A u \in Tasks \ {RootTask[r]} : request'[u] = request[u]
    BY <1>4, <2>1 DEF Start, Types, DataOK, Request
  <2>3. Serves(RootTask[r])
    BY <1>0, <1>4, <2>1, <2>2, CreateServes DEF Start
  <2>4. QED
    BY <1>1, <2>1, <2>3
<1>5. ASSUME UNCHANGED <<board, executions, execution, request, phase, attempt, results>>,
             cancelled' \subseteq Tasks, bg' \subseteq Tasks
      PROVE  DataOK' /\ LifeInv'
  <2>1. DataOK' /\ \A u \in Tasks : Frame(u)
    BY <1>5 DEF DataOK, Board!TypeOK, Board!Known, Frame, Later, Listed
  <2>2. QED
    BY <1>0, <2>1, FrameLife DEF LifeInv
<1>6. ASSUME NEW r \in Runs, Stop(r)
      PROVE  DataOK' /\ LifeInv'
  BY <1>5, <1>6 DEF Stop, DataOK
<1>7. ASSUME NEW t \in Tasks, WaiterCancelled(t)
      PROVE  DataOK' /\ LifeInv'
  BY <1>5, <1>7 DEF WaiterCancelled, DataOK
<1>8. CASE UNCHANGED vars
  BY <1>5, <1>8 DEF vars, DataOK
<1>9. QED
  BY <1>2, <1>3, <1>4, <1>6, <1>7, <1>8 DEF Next

LEMMA InitOutcome == Init => OutcomeInv
<1> SUFFICES ASSUME Init PROVE OutcomeInv
  OBVIOUS
<1>1. ShapeInv
  BY OrchestratorAssumption DEF Init, ShapeInv, PhaseOK, RunsOK, RootsIdle, Phases, RunState
<1>2. SlotInv
  <2>1. Holders = {}
    BY DEF Init, Holders, Holding
  <2>2. QED
    BY <2>1, FS_EmptySet, OrchestratorAssumption DEF Init, SlotInv, SlotsConserved
<1>3. Board!TypeOK
  BY DEF Init, Board!Init, Board!TypeOK, Board!Known
<1>4. DataOK
  BY <1>3, OrchestratorAssumption DEF Init, DataOK, ExecutionState, Request, NoRequest
<1>5. LifeInv
  BY OrchestratorAssumption
  DEF Init, LifeInv, Life, Fresh, AtWork, Notified, Settled, Reported, Kept, Attempts
<1>6. QED
  BY <1>1, <1>2, <1>4, <1>5 DEF OutcomeInv

LEMMA OutcomeHolds == Spec => []OutcomeInv
BY InitOutcome, StepOutcome, PTL DEF Spec

(* Every variable of the orchestrator has its type: the semaphore stays     *)
(* within its size, and no execution is attempted more than MaxRetries + 1  *)
(* times.                                                                   *)
THEOREM OrchestratorTypeCorrect == Spec => []TypeOK
<1>1. OutcomeInv => TypeOK
  <2> SUFFICES ASSUME OutcomeInv PROVE TypeOK
    OBVIOUS
  <2>1. Cardinality(Holders) \in Nat
    BY OrchestratorAssumption, FS_Subset, FS_CardinalityType DEF Holders
  <2>2. free \in 0..MaxConcurrent
    BY <2>1, OrchestratorAssumption DEF OutcomeInv, SlotInv, SlotsConserved
  <2>3. QED
    BY <2>2 DEF OutcomeInv, ShapeInv, PhaseOK, RunsOK, DataOK, TypeOK
<1>2. QED
  BY <1>1, OutcomeHolds, PTL

(* An execution reported completed has its result and is DONE on the board, *)
(* whatever raised or was cancelled after it.                               *)
THEOREM CompletedDoneCorrect == Spec => []CompletedIsDone
<1>1. OutcomeInv => CompletedIsDone
  BY DEF OutcomeInv, LifeInv, Life, Reported, OnBoard, CompletedIsDone
<1>2. QED
  BY <1>1, OutcomeHolds, PTL

(* An execution that got as far as running leaves its task DONE or          *)
(* CANCELLED behind, wherever its cancellation found it.                    *)
THEOREM EndedSettledCorrect == Spec => []EndedIsSettled
<1>1. OutcomeInv => EndedIsSettled
  BY DEF OutcomeInv, LifeInv, Life, Settled, OnBoard, EndedIsSettled
<1>2. QED
  BY <1>1, OutcomeHolds, PTL

(* Where nothing raises late, a task has a result only if its execution is  *)
(* reported completed.                                                      *)
THEOREM ResultCompletedCorrect == Spec => []ResultMeansCompleted
<1>1. OutcomeInv => ResultMeansCompleted
  BY DEF OutcomeInv, LifeInv, Life, Kept, DataOK, ResultMeansCompleted
<1>2. QED
  BY <1>1, OutcomeHolds, PTL

(* Where nothing raises late, a completed execution is not run again.       *)
THEOREM CompletedFinalCorrect == Spec => CompletedIsFinal
<1>1. ASSUME OutcomeInv, Next, NEW t \in Tasks \ LateFaulty, execution[t] = "completed"
      PROVE  execution'[t] = "completed"
  <2>0. Types /\ phase[t] \in {"notifying", "ended"}
    BY <1>1 DEF OutcomeInv, LifeInv, Life, Reported, Kept, Types, ShapeInv
  <2>1. ASSUME NEW u \in Tasks, Serve(u)
        PROVE  execution'[t] = "completed"
    <3>1. CASE u = t
      BY <1>1, <2>0, <2>1, <3>1
      DEF Serve, GateDenies, GateApproves, AnnounceFails, Launch, Enter, Acquire, Succeed, Finish,
          RunnerRaises, CompleteRaises, NotifyRaises, Retry, Escalated, CancelledSuspended,
          CancelledUnstarted
    <3>2. CASE u # t
      <4>1. Serves(u)
        BY <1>1, <2>0, <2>1, ServeServes DEF OutcomeInv, LifeInv
      <4>2. QED
        BY <1>1, <3>2, <4>1 DEF Serves, Frame
    <3>3. QED
      BY <3>1, <3>2
  <2>2. ASSUME NEW r \in Runs, Start(r) \/ Stop(r)
        PROVE  execution'[t] = "completed"
    BY <1>1, <2>2 DEF Start, Stop
  <2>3. ASSUME NEW u \in Tasks,
               WaiterCancelled(u) \/ \E p \in Tasks \cup {NoTask} : Delegate(u, p)
        PROVE  execution'[t] = "completed"
    BY <1>1, <2>3 DEF WaiterCancelled, Delegate
  <2>4. QED
    BY <1>1, <2>1, <2>2, <2>3 DEF Next
<1>2. OutcomeInv /\ [Next]_vars
        => [\A t \in Tasks \ LateFaulty :
              execution[t] = "completed" => execution'[t] = "completed"]_vars
  BY <1>1
<1>3. QED
  BY <1>2, OutcomeHolds, PTL DEF Spec, CompletedIsFinal

-----------------------------------------------------------------------------
(* The pool of executions.                                                  *)

(* The board has refused or taken the completion of a task whose coroutine  *)
(* notifies: its result is kept.                                            *)
NotifiedKept == \A t \in Tasks : phase[t] = "notifying" => t \in results

PoolInv == OutcomeInv /\ NotifiedKept

Stages == [t \in Tasks |-> PoolStage(phase[t])]

LEMMA StageValues ==
  /\ \A p \in {"none", "gate", "denied", "announcing"} : PoolStage(p) = "idle"
  /\ PoolStage("created") = "waiting" /\ PoolStage("queued") = "waiting"
  /\ PoolStage("running") = "working" /\ PoolStage("notifying") = "working"
  /\ PoolStage("backoff") = "resting" /\ PoolStage("escalating") = "leaving"
  /\ PoolStage("ended") = "over"
BY DEF PoolStage

(* A coroutine that moves takes its execution, and no other, to the stage   *)
(* it moves to, which may be the one it is at.                              *)
LEMMA MovesStage ==
  ASSUME PhaseOK, NEW t \in Tasks, NEW to \in Phases, Moves(t, to)
  PROVE  /\ Stages' = [Stages EXCEPT ![t] = PoolStage(to)]
         /\ PoolStage(to) = PoolStage(phase[t]) => Stages' = Stages
<1>1. Stages' = [Stages EXCEPT ![t] = PoolStage(to)]
  BY MovesEffect DEF Stages
<1>2. QED
  BY <1>1 DEF Stages

(* The instance's copy of Cardinality. *)
LEMMA PoolCardinality == \A S : Pool!Cardinality(S) = Cardinality(S)
BY DEF Pool!Cardinality, Cardinality

(* Those who hold a slot are those who work or rest. *)
LEMMA BusyHolders == PhaseOK => Pool!Busy = Holders
<1> SUFFICES ASSUME PhaseOK, NEW t \in Tasks
             PROVE  PoolStage(phase[t]) \in {"working", "resting"} <=> phase[t] \in Holding
  BY DEF Pool!Busy, Holders
<1>1. phase[t] \in Phases
  BY DEF PhaseOK
<1>2. QED
  BY <1>1, StageValues DEF Phases, Holding

(* The steps of the pool, said of Stages. *)
PoolStep == Pool!Next \/ UNCHANGED <<Stages, attempt, cancelled, results>>

LEMMA PoolSteps ==
  ASSUME NEW t \in Tasks
  PROVE  /\ Pool!Submit(t) \/ Pool!Begin(t) \/ Pool!Keep(t) \/ Pool!Fail(t)
              \/ Pool!Retry(t) \/ Pool!End(t) => PoolStep
         /\ \A to : Pool!Goes(t, to) <=> Stages' = [Stages EXCEPT ![t] = to]
<1>1. Pool!Submit(t) \/ Pool!Begin(t) \/ Pool!Keep(t) \/ Pool!Fail(t)
        \/ Pool!Retry(t) \/ Pool!End(t) => Pool!Next
  BY DEF Pool!Next
<1>2. QED
  BY <1>1 DEF PoolStep, Pool!Goes, Stages

(* A failed attempt, of whoever works. *)
LEMMA AttemptFailsPool ==
  ASSUME PoolInv, NEW t \in Tasks, phase[t] \in {"running", "notifying"}, AttemptFails(t),
         results' \in {results, results \cup {t}}
  PROVE  PoolStep
<1>1. PhaseOK /\ attempt[t] \in Nat /\ MaxRetries[t] \in Nat
  BY OrchestratorAssumption DEF PoolInv, OutcomeInv, ShapeInv, DataOK
<1>2. PoolStage(phase[t]) = "working"
  BY StageValues
<1>3. Stages' = [Stages EXCEPT ![t] = IF attempt[t] < MaxRetries[t] THEN "resting" ELSE "leaving"]
  <2>1. CASE attempt[t] < MaxRetries[t]
    <3>1. Moves(t, "backoff")
      BY <1>1, <2>1 DEF AttemptFails
    <3>2. QED
      BY <1>1, <2>1, <3>1, MovesStage, StageValues DEF Phases, Holding
  <2>2. CASE attempt[t] >= MaxRetries[t]
    <3>1. Moves(t, "escalating")
      BY <1>1, <2>2 DEF AttemptFails
    <3>2. QED
      BY <1>1, <2>2, <3>1, MovesStage, StageValues DEF Phases, Holding
  <2>3. QED
    BY <1>1, <2>1, <2>2
<1>4. Pool!Goes(t, IF attempt[t] < MaxRetries[t] THEN "resting" ELSE "leaving")
  BY <1>3, PoolSteps
<1>5. Pool!Fail(t)
  BY <1>2, <1>4 DEF Pool!Fail, AttemptFails
<1>6. QED
  BY <1>5, PoolSteps

(* The pool begins an execution where a slot is free: as many work or rest  *)
(* as hold a slot.                                                          *)
LEMMA AcquirePool ==
  ASSUME PoolInv, NEW t \in Tasks, Acquire(t)
  PROVE  PoolStep
<1>1. /\ PhaseOK /\ attempt[t] <= MaxRetries[t]
      /\ free \in Nat /\ free + Cardinality(Holders) = MaxConcurrent
  BY DEF Acquire, PoolInv, OutcomeInv, ShapeInv, SlotInv, SlotsConserved, LifeInv, Life, Attempts
<1>2. Cardinality(Holders) \in Nat
  BY OrchestratorAssumption, FS_Subset, FS_CardinalityType DEF Holders
<1>3. Pool!Cardinality(Pool!Busy) < MaxConcurrent
  <2>1. Cardinality(Holders) < MaxConcurrent
    BY <1>1, <1>2, OrchestratorAssumption DEF Acquire
  <2>2. QED
    BY <1>1, <2>1, BusyHolders, PoolCardinality
<1>4. PoolStage(phase[t]) = "waiting" /\ Pool!Goes(t, "working")
  BY <1>1, MovesStage, StageValues, PoolSteps DEF Acquire, Phases, Holding
<1>5. Pool!Begin(t)
  BY <1>1, <1>3, <1>4 DEF Pool!Begin, Acquire
<1>6. QED
  BY <1>5, PoolSteps

(* Every step of the coroutine that serves t is a step of the pool, or does *)
(* not show in it.                                                          *)
LEMMA ServePool ==
  ASSUME PoolInv, NEW t \in Tasks, Serve(t)
  PROVE  PoolStep
<1> DEFINE Still == UNCHANGED <<attempt, cancelled, results>>
<1>0. PhaseOK
  BY DEF PoolInv, OutcomeInv, ShapeInv
<1>1. ASSUME NEW to \in Phases, Moves(t, to), PoolStage(to) = PoolStage(phase[t]), Still
      PROVE  PoolStep
  BY <1>0, <1>1, MovesStage DEF PoolStep
<1>2. ASSUME NEW to \in Phases, Moves(t, to)
      PROVE  Pool!Goes(t, PoolStage(to))
  BY <1>0, <1>2, MovesStage, PoolSteps
<1>3. CASE GateDenies(t) \/ GateApproves(t) \/ AnnounceFails(t) \/ Enter(t)
  BY <1>1, <1>3, StageValues DEF GateDenies, GateApproves, AnnounceFails, Enter, Phases, Holding
<1>4. CASE Launch(t)
  <2>1. Pool!Goes(t, "waiting") /\ PoolStage(phase[t]) = "idle" /\ Still
    BY <1>2, <1>4, StageValues DEF Launch, Phases, Holding
  <2>2. Pool!Submit(t)
    BY <2>1 DEF Pool!Submit
  <2>3. QED
    BY <2>2, PoolSteps
<1>5. CASE Succeed(t)
  <2>1. Stages' = Stages /\ PoolStage(phase[t]) = "working"
    BY <1>0, <1>5, MovesStage, StageValues DEF Succeed, Phases, Holding
  <2>2. Pool!Keep(t)
    BY <1>5, <2>1 DEF Pool!Keep, Succeed, Stages
  <2>3. QED
    BY <2>2, PoolSteps
<1>6. CASE Retry(t)
  <2>1. Pool!Goes(t, "waiting") /\ PoolStage(phase[t]) = "resting" /\ t \notin cancelled /\ Still
    BY <1>2, <1>6, StageValues DEF Retry, Phases, Holding
  <2>2. Pool!Retry(t)
    BY <2>1 DEF Pool!Retry
  <2>3. QED
    BY <2>2, PoolSteps
<1>7. CASE Finish(t) \/ Escalated(t) \/ CancelledSuspended(t) \/ CancelledUnstarted(t)
  <2>1. Pool!Goes(t, "over") /\ Still
    BY <1>2, <1>7, StageValues
    DEF Finish, Escalated, CancelledSuspended, CancelledUnstarted, Phases, Holding
  <2>2. \/ PoolStage(phase[t]) = "working" /\ t \in results \ cancelled
        \/ PoolStage(phase[t]) = "leaving" /\ t \notin cancelled
        \/ t \in Pool!Launched \cap cancelled
    <3>1. CASE Finish(t)
      BY <3>1, StageValues DEF Finish, PoolInv, NotifiedKept
    <3>2. CASE Escalated(t)
      BY <3>2, StageValues DEF Escalated
    <3>3. CASE CancelledSuspended(t) \/ CancelledUnstarted(t)
      BY <3>3, StageValues
      DEF CancelledSuspended, CancelledUnstarted, Live, Holding, Pool!Launched
    <3>4. QED
      BY <1>7, <3>1, <3>2, <3>3
  <2>3. Pool!End(t)
    BY <2>1, <2>2 DEF Pool!End
  <2>4. QED
    BY <2>3, PoolSteps
<1>8. CASE RunnerRaises(t) \/ CompleteRaises(t) \/ NotifyRaises(t)
  BY <1>8, AttemptFailsPool DEF RunnerRaises, CompleteRaises, NotifyRaises
<1>9. QED
  BY <1>3, <1>4, <1>5, <1>6, <1>7, <1>8, AcquirePool DEF Serve

(* stop, or a cancelled waiter, asks executions of the pool to stop. *)
LEMMA AskPool ==
  ASSUME NEW S \in SUBSET Tasks, \A t \in S : phase[t] \in Live,
         cancelled' = cancelled \cup S, UNCHANGED <<phase, attempt, results>>
  PROVE  PoolStep
<1>1. S \subseteq Pool!Launched
  BY StageValues DEF Pool!Launched, Live, Holding
<1>2. Pool!Ask(S)
  BY <1>1 DEF Pool!Ask
<1>3. QED
  BY <1>2 DEF PoolStep, Pool!Next

LEMMA StepPool == PoolInv /\ [Next]_vars => PoolStep
<1> SUFFICES ASSUME PoolInv, [Next]_vars PROVE PoolStep
  OBVIOUS
<1>0. PhaseOK
  BY DEF PoolInv, OutcomeInv, ShapeInv
<1>1. ASSUME NEW r \in Runs, Start(r)
      PROVE  PoolStep
  <2>1. RootTask[r] \in Tasks /\ phase[RootTask[r]] = "none"
    BY <1>1, OrchestratorAssumption DEF PoolInv, OutcomeInv, Start, ShapeInv, RootsIdle
  <2>2. Stages' = Stages
    BY <1>0, <1>1, <2>1, MovesStage, StageValues DEF Start, Phases
  <2>3. QED
    BY <1>1, <2>2 DEF PoolStep, Start
<1>2. ASSUME NEW t \in Tasks, NEW p \in Tasks \cup {NoTask}, Delegate(t, p)
      PROVE  PoolStep
  <2>1. Stages' = Stages
    BY <1>0, <1>2, MovesStage, StageValues DEF Delegate, Phases
  <2>2. QED
    BY <1>2, <2>1 DEF PoolStep, Delegate
<1>3. ASSUME NEW r \in Runs, Stop(r)
      PROVE  PoolStep
  <2>1. {t \in executions[r] \cap bg : phase[t] \in Live} \in SUBSET Tasks
    BY DEF PoolInv, OutcomeInv, DataOK
  <2>2. QED
    BY <1>3, <2>1, AskPool DEF Stop
<1>4. ASSUME NEW t \in Tasks, WaiterCancelled(t)
      PROVE  PoolStep
  <2>1. {t} \in SUBSET Tasks /\ \A u \in {t} : phase[u] \in Live
    BY <1>4 DEF WaiterCancelled
  <2>2. QED
    BY <1>4, <2>1, AskPool DEF WaiterCancelled
<1>5. CASE UNCHANGED vars
  BY <1>5 DEF vars, PoolStep, Stages
<1>6. QED
  BY <1>1, <1>2, <1>3, <1>4, <1>5, ServePool DEF Next

(* Only the runner's return takes a coroutine to where it notifies, and a   *)
(* result is kept for good.                                                 *)
LEMMA StepKept == PoolInv /\ [Next]_vars => NotifiedKept'
<1> SUFFICES ASSUME PoolInv, [Next]_vars, NEW u \in Tasks, phase'[u] = "notifying"
             PROVE  u \in results'
  BY DEF NotifiedKept
<1>0. PhaseOK /\ (phase[u] = "notifying" => u \in results)
  BY DEF PoolInv, OutcomeInv, ShapeInv, NotifiedKept
<1>1. ASSUME NEW t \in Tasks, NEW to \in Phases \ {"notifying"}, Moves(t, to), results \subseteq results'
      PROVE  u \in results'
  BY <1>0, <1>1, MovesEffect
<1>2. ASSUME NEW t \in Tasks, Succeed(t)
      PROVE  u \in results'
  BY <1>0, <1>2, MovesEffect DEF Succeed, Phases, Holding
<1>3. ASSUME NEW t \in Tasks, AttemptFails(t), results \subseteq results'
      PROVE  u \in results'
  BY <1>1, <1>3 DEF AttemptFails, Phases, Holding
<1>4. ASSUME NEW t \in Tasks, Serve(t)
      PROVE  u \in results'
  <2>1. CASE RunnerRaises(t) \/ CompleteRaises(t) \/ NotifyRaises(t)
    BY <1>3, <2>1 DEF RunnerRaises, CompleteRaises, NotifyRaises
  <2>2. CASE GateDenies(t) \/ GateApproves(t) \/ AnnounceFails(t) \/ Launch(t) \/ Enter(t)
             \/ Acquire(t) \/ Finish(t)
    BY <1>1, <2>2
    DEF GateDenies, GateApproves, AnnounceFails, Launch, Enter, Acquire, Finish, Phases, Holding
  <2>3. CASE Retry(t) \/ Escalated(t) \/ CancelledSuspended(t) \/ CancelledUnstarted(t)
    BY <1>1, <2>3
    DEF Retry, Escalated, CancelledSuspended, CancelledUnstarted, Phases, Holding
  <2>4. QED
    BY <1>2, <1>4, <2>1, <2>2, <2>3 DEF Serve
<1>5. ASSUME NEW r \in Runs, Start(r)
      PROVE  u \in results'
  BY <1>1, <1>5, OrchestratorAssumption DEF Start, Phases
<1>6. ASSUME NEW t \in Tasks, NEW p \in Tasks \cup {NoTask}, Delegate(t, p)
      PROVE  u \in results'
  BY <1>1, <1>6 DEF Delegate, Phases
<1>7. CASE UNCHANGED <<phase, results>>
  BY <1>0, <1>7
<1>8. QED
  BY <1>4, <1>5, <1>6, <1>7 DEF Next, Stop, WaiterCancelled, vars

(* The orchestrator, with its runs, board, semaphore, event bus and table of *)
(* asyncio tasks, implements the pool: never more than MaxConcurrent         *)
(* executions work or rest, attempts are never counted afresh, and none ends *)
(* without a result, a last failure or a cancellation.                       *)
THEOREM ImplementsPoolCorrect == Spec => ImplementsPool
<1>1. Init => PoolInv /\ Pool!Init
  <2> SUFFICES ASSUME Init PROVE NotifiedKept /\ Pool!Init
    BY InitOutcome DEF PoolInv
  <2>1. NotifiedKept
    BY DEF Init, NotifiedKept
  <2>2. Pool!Init
    BY StageValues DEF Init, Pool!Init
  <2>3. QED
    BY <2>1, <2>2
<1>2. PoolInv /\ [Next]_vars => PoolInv'
  BY StepOutcome, StepKept DEF PoolInv
<1>3. PoolInv /\ [Next]_vars => [Pool!Next]_(Pool!vars)
  BY StepPool DEF PoolStep, Pool!vars, Stages
<1>4. QED
  BY <1>1, <1>2, <1>3, PTL DEF Spec, ImplementsPool, Pool!Spec
=============================================================================
