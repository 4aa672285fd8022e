# Verification of cognitia

TLA+ models of cognitia's multi-agent core, the TLC configurations that check
them on small instances, and TLAPS proofs about them. Paths are relative to
`src/cognitia/` unless they start with `docs/` or `tests/`.

## 1. The system

cognitia is an asyncio library for agents. Everything below runs on one event
loop, so two coroutines interleave only where one of them awaits; SQLite and
PostgreSQL back ends add processes and connections that interleave anywhere.

| Component | State | Operations | Interacts with | What is hard |
|---|---|---|---|---|
| Graph task board (`multi_agent/graph_task_board.py`) | tasks by id: status, holder, parent, dependencies, progress | create, checkout, complete, block, unblock, cancel, ready, blocked_by | called by the orchestrator, tools, routines | completions propagate up a tree that callers may rebuild at any time |
| SQLite / PostgreSQL boards | the same in a table | the same | other processes on the same file or database | transactions, lock waits, failed statements, restarts |
| Graph orchestrator (`graph_orchestrator*.py`) | runs, executions, asyncio tasks, results, a semaphore | start, delegate, wait_for_task, stop, `_execute_agent` | board, agent runner, event bus, approval gate | cancellation at any await, retries, late errors, stop against delegate |
| Persistent graph (`persistent_graph.py`, `goal_queue.py`) | a queue of goals, a processing loop, a flag | submit_goal, shutdown, `_process_loop` | orchestrator | loops that overlap and share a flag; shutdown while a loop awaits |
| Graph store, tools, governance | the tree of agents | hire, delegate, escalate, add/remove/update node | store, approval gate | checks that are stale after an approval |
| Sessions (`session/`) | sessions and locks by key, snapshots | turns, close, aget, aregister, aupdate_role | runtime, session backend | operations that take no lock, snapshots saved late |
| Pipeline (`pipeline/`) | phases, current run, costs | run, stop, gates, budget | orchestrator | timeouts and stops that cross |
| Daemon (`daemon/`) | scheduled tasks, routines, pid file, health | tick, drain, trigger, acquire, release | board, operating system | concurrency limit, deduplication, pid lock |
| Subagents, teams, plans, workflows (`orchestration/`) | asyncio tasks, results, plans, checkpoints | spawn, cancel, pause, approve, execute, resume | runtimes, stores | cancellation before start, stale copies, resumption |
| Circuit breaker, plugin runner (`resilience/`, `plugins/`) | breaker state, child processes | allow, record, call, restart | remote servers, child processes | late answers |
| Runtimes, agent, memory, tools, protocols, UI, CLI | mostly per call | | model providers, disk, network | I/O |

`PROJECT.json` lists every component with its status and, under `hazards`, the
places in the code where it could go wrong in ways tests hardly reach.

What makes each component correct:

- **board**: parent links form a forest; holder and status agree; a completion
  settles exactly the chain above it; finished work stays finished.
- **orchestrator**: no slot of the semaphore is lost; no execution escapes a
  stop; results, execution states and the board agree; every execution ends.
- **persistent graph**: a goal is taken once, by a loop; goals in the queue are
  the queued ones; each is processed; shutdown returns and orphans nothing.
- **sessions**: one turn at a time on a session; an acknowledged reply survives.
- **pipeline**: a phase starts only after the one before passed; a stop or a
  timeout leaves no phase running.
- **daemon**: one daemon per pid file; at most the limit of tasks in flight;
  one open task per deduplication key.
- **subagents**: the spawn limit holds; a status reports what happened.

## 2. Modules

| Module | Models | Uses |
|---|---|---|
| `GraphTaskBoard` | the in-memory board | |
| `SqliteGraphTaskBoard` | the SQLite board, several connections | extends `GraphTaskBoard` |
| `PostgresGraphTaskBoard` | the PostgreSQL board, sessions under row locks | extends `GraphTaskBoard`, and an instance of it as what a completion promises |
| `GraphOrchestrator` | runs and executions over the board | `Board == INSTANCE GraphTaskBoard` |
| `ExecutionPool` | what an orchestrator promises about the executions it launches | implemented by `GraphOrchestrator` |
| `PersistentGraph` | the goal queue and its loops | summarises `GraphOrchestrator` |
| `Pipeline` | phases, budget and breakers | summarises `GraphOrchestrator` |
| `SessionManager` | one session and its snapshot file | |
| `PidFile` | the pid file and its lock | |
| `MC...` | constants and symmetry for TLC | the module of that name |
| `GraphTaskBoardProofs`, `SqliteGraphTaskBoardProofs`, `PostgresGraphTaskBoardProofs`, `GraphOrchestratorProofs`, `GraphOrchestratorOutcomes`, `PersistentGraphProofs`, `PipelineProofs`, `SessionManagerProofs` | theorems | the module they are named after, TLAPS |

### GraphTaskBoard

`tasks` is `_tasks`. Each method holds one `asyncio.Lock` and awaits nothing
inside, so each is one action; a refused call is the absence of a step.
`Chain(p)` is the walk up the parent links that `_validate_parent_link`,
`_propagate_parent` and `get_goal_ancestry` share, written as the least
parent-closed set, so that the module has no RECURSIVE operator and can be
proved about. `DoneAfter(t)` and `FullAfter(t)` are, in the same style, the
statuses and the progress `_propagate_parent` leaves. Progress is kept as 0.0,
1.0 or between: the mean of such values depends on nothing finer. Timestamps,
titles, comments and namespaces are left out. `create_task` stores whatever status,
holder and progress its item carries; `CreateTask` stores a TODO task nobody holds,
the defaults with which the orchestrator and the daemon build every item (a contract
test creates a DONE one, which the model does not).

### SqliteGraphTaskBoard

The committed table is `tasks`; `txn` is what a failed `INSERT` leaves open on a
connection and `creating` the values `create_task` read before its insert. The
five updates run under `BEGIN IMMEDIATE`, hence in one step. `Restart` is the
death of a process. Differences from the in-memory board that the model keeps:
a create never replaces a row, a checkout does not read the status, a parent
chain that has become a cycle makes a completion raise.

### PostgresGraphTaskBoard

A call is one READ COMMITTED transaction. PostgreSQL is external: a
`SELECT ... FOR UPDATE` waits for each row it finds (`FreeFor`), reads its last
committed version and keeps the lock until the transaction ends; a cycle of
waiting sessions is broken by an abort (`WaitsAmong`, `Doomed`). Calls that lock
one row are one step when nobody else has it. `complete_task` is one step per
statement: its own row, then level by level the statement that finds the
children of the parent (`Family`), the wait for each of them (`LockChild`), the
parent (`LockParent`), the commit. `draft` is what it has written and not
committed, `seen` the children it counted. `Aborts` is any exception of the call
or the end of its connection.

`parent_task_id` references the table (line 27). An insert therefore raises when the
parent is in no row (`Referable`), and otherwise takes a share of the parent's row, so
that it waits for a completion that has locked it. The parents of the table can form
no cycle, and a propagation finds its parent missing only where the row is of another
namespace, which its query does not return (`ParentMissing`). `Foreign` are the rows
of other namespaces; they may be referred to and nothing else happens to them.

### GraphOrchestrator

A step is what one coroutine does between two awaits; `phase[t]` says where the
coroutine that serves `t` is suspended (`gate`, `announcing`: `start` and
`delegate`; `created` to `ended`: `_execute_agent`; `denied`: the caller gave
up, which leaves what it had put on the board). `cancelled` holds the tasks
whose `CancelledError` is under way: it is delivered at the next step, wherever
the coroutine is, and before the first step it ends the coroutine outside its
`try`. `LateFaulty` are the tasks for which the board or the bus may raise after
the runner returned. Runner, gate and bus are external: they return or raise.
The name of the agent that an execution checks out is irrelevant and free. The
identifier of a delegated task is its caller's (`DelegationRequest.task_id`); the model
takes it to be fresh, as the delegation tool makes it.
`MaxRetries` is a function of the task: a delegation may choose its own.

### ExecutionPool

The abstract specification of `GraphOrchestrator`: no runs, board, bus, gate or
semaphore, only where each execution is (waiting, working, resting before a retry,
leaving, over), its failed attempts, who was asked to stop and whose result is
kept. `Begin` counts the executions that work or rest against `MaxConcurrent`, and
`End` has three ways only: with a result, after the last failure, asked to stop.
`PoolStage` and the instance `Pool` in `GraphOrchestrator` are the refinement
mapping: everything before the launch is idle, `notifying` still works (it holds
its slot), `backoff` rests, and `attempt`, `cancelled` and `results` map to
themselves. `ImplementsPool` is `Pool!Spec`.

### PersistentGraph

A submission creates at most one loop, so loops are named after the goals.
`submitting` is the await of the bus in `submit_goal`; `loop[l]` is where a
`_process_loop` is suspended. An orchestration is its root execution: live,
then over, as `EveryExecutionEnds` of `GraphOrchestrator` allows.

### Pipeline

`at` is where `run()` is suspended: starting, announcing a phase, inside
`start()`, waiting for the root, in a gate, emitting an outcome. `stop()` may be
called at any time; it cancels the executions of the run started last, so a stop
that comes while `start()` announces its run misses that phase. A phase's
timeout, or the cancellation of `run()`, reaches `wait_for_task`, which cancels
the root, swallows the exception and waits for the root's end (`WaitCancelled`).
The executions are a summary of `GraphOrchestrator`: queued for a slot, in the
runner, notifying, backing off, ended. The runner is wrapped as
`PipelineBuilder.build` wraps it, the breaker of the agent around the budget
check around the call; refusals count as failed attempts and are retried. A
breaker counts the results of all calls, whenever they were admitted: a call admitted
while it was closed may close it once it is half-open. Only
`max_total_usd` is modelled. The module gives the budget wrapper a cost
extractor; `build()` gives it none, so that in a pipeline it builds every recorded
cost is 0 and no budget ever binds, whatever `docs/pipeline.md` shows.

### SessionManager

Sessions share nothing, so one key is enough. Each call is made once: turns
(`run_turn`, `stream_reply`) hold the session's lock, openers (`aget`, then
`aregister`), updaters (`aupdate_role`) and closers (`close`, `close_all`) hold
none. `lock` is `_locks[key]`: a close forgets it while turns wait for it, and the
next turn makes a new one, so there is a queue per lock. State objects are named
after the call that creates them, since two readers that miss the cache each
restore one; what a state holds is the set of calls whose reply or role is in it.
`writes` are the saves and deletes that `asyncio.to_thread` runs later, `Crash`
loses them with the memory of the process. A call may be abandoned by its caller,
its save may raise, its runtime may end without an answer, the session may expire.
Saves in flight together reach the file in any order, since each is a thread of its own
(`FileWrites`). `stream_reply` keeps the lock at the yield of its last event until its
consumer goes on or closes it (`Told`, `StreamEnds`); the save of a reply that raises
there is told as an error (`Raises`).

`orderly` is what an application must arrange for an acknowledged reply to survive,
since the code takes no lock in `close`, `aget` and `aupdate_role`: it (1) opens,
updates and closes a session while no other call on it is in flight, and (2) cancels no
call that awaits a save or a delete. A turn may queue behind other turns, raise, be
cancelled at any other await or meet the end of the session's time to live. Under these
two no order of threads loses anything, because no two saves are in flight together: of
a turn, which awaits each of its saves under the lock, or of a call that is alone.
Without the first, `session_forgets` shows a reply that is lost; without the second, a
cancelled turn leaves a save behind that may land after the saves of the next. The
documents state neither obligation. `TurnsAreSequential` and `EveryCallEnds` are claimed
in every world.

### PidFile

One step per system call of `acquire`, `release` and `is_running`: processes
interleave between any two. A lock belongs to the inode that was opened, not to
the path, and goes with the process. A process acts once.

## 3. Runs

| Run | Instance | States | Shows |
|---|---|---|---|
| `board` | 3 tasks, 1 agent, one dependency each | 115,120 | the hierarchy and the checkouts stay correct under every order of calls, re-creations included |
| `sqlite` | 2 connections, 2 tasks, 2 agents | 13,709 | claims and rows stay correct across connections, failed creates and restarts |
| `postgres` | 2 sessions, 3 tasks and a row of another namespace, 1 agent, 4 boards | 167,044 | a completion that commits is one atomic `complete_task` and overwrites nothing; behind whom a session waits there is one that goes on or is aborted; every completion ends |
| `orchestrator` | 2 runs, 3 tasks, 2 slots, 1 retry of a root, 2 of a delegation; the runs symmetric | 749,718 | slots, cancellations, results and board agree; the orchestrator implements `ExecutionPool` |
| `orchestrator_ends` | 1 run, 2 tasks, 1 slot, 1 retry of the root, 2 of the delegation | 11,432 | every launched execution ends |
| `orchestrator_stop` | 1 run, 2 tasks | violation | a delegation outlives stop |
| `persistent` | 2 goals, 2 loops | 18,364 | the queue and its loops stay correct, no goal is forgotten, goals settle, shutdown returns |
| `persistent_sequential` | 2 goals | violation | two goals run at once |
| `session` | 2 orderly worlds and a disorderly one, 3 to 5 calls | 66,614 | in the orderly ones no acknowledged reply is lost; in all of them turns overlap only by a popped lock, and calls end |
| `session_forgets` | 3 calls, a saved session | violation | a reply announced done is not in the session |
| `pipeline` | 2 phases, 4 executions, 2 slots, 2 breakers | 620,874 | the budget is overrun by the calls under way only, roots stay in their phase, outcomes are what became of the phases, failures in a row open the breaker however late results come, `run()` ends |
| `daemon_lock` | 3 processes, 3 inodes | violation | two daemons hold the pid lock |

Why the bounds are enough. Three tasks make a chain of two propagation steps, a
parent with two children and a cycle of length three. Two agents and two
connections are what a stolen claim needs. The PostgreSQL run starts from a
parent with two children in progress, a chain of three, tasks under a parent of
another namespace and a parent that gets another child, since a session that creates all
of them first only lengthens the behaviours; two sessions deadlock over two rows.
In the orchestrator two roots and a delegation, which may hang under either root
or under none, compete for two slots, and the delegation may retry more often than the roots;
`attempt` is bounded by `MaxRetries` and no counter is cut. Two goals give two loops; the first
can be ending, beginning or waiting while the second is submitted. In the session
run two turns queue for one lock between openings; in another orderly world a turn,
two openers, an update and a close follow each other in any order through expiry and a
crash; in the disorderly one two turns, an opener and a close overlap as they like. Two
readers, and a turn on the state of the first, are what `session_forgets` needs. In the
pipeline two delegations and a root compete for two slots in the first phase, whose root
retries once and one delegation twice, so that two calls of one agent are in flight
while its breaker opens and half-opens;
a limit of 2 is reached by two calls under way, a threshold of 2 by two failures;
no counter is cut, since executions and retries are finite. Deadlock is not
checked: every one of these systems stops when its callers do, and the liveness
properties say what must not wait.

Fairness. Every `FairSpec` is weak fairness of each coroutine's next step: the event
loop runs every ready coroutine. Calls (`start`, `delegate`, `stop`, `submit_goal`,
`shutdown`, `Run`, `Begin`, `Close`, claims) are never fair, nor are faults,
abandoned calls and crashes.

- `GraphOrchestrator`: runners, gates and buses answer or raise, which the code
  relies on. An execution that waits for the semaphore needs no strong fairness:
  the number of attempts is bounded, so in the end no other takes the slot.
- `PersistentGraph`: `NoGoalForgotten` and `EveryGoalSettles` are stated for behaviours in which nobody
  calls `shutdown` and the bus takes no loop with it.
- `Pipeline`: bus, gates and timers answer; runners need not end where every
  phase has a timeout. `RunEnds` there rests on the timeouts alone.
- `SessionManager`: threads reach the file, runtimes end their turns, and whoever
  consumes a stream drains or closes it.
- `PostgresGraphTaskBoard`: statements run; the locks of a child and of a parent
  are strongly fair because PostgreSQL queues those who wait for a row; an abort is
  fair only where it is bound to come (a deadlock, a key that is there, a parent in no row).

What some properties leave out, because the code does not promise it:
`CompletionIsSerial` speaks of the tasks the completion could meet, not of those
inserted too late for it (`Missed`): children of a parent whose children it had read.
`ResultMeansCompleted` and `CompletedIsFinal` are for tasks where nothing raises
after the runner returned; `CompletedIsDone` covers those too. `AcknowledgedIsRemembered`
is conditional on `orderly`, and `HistoryIsKept`, its unconditional form for replies, fails.

### Disagreements found

- `StopCancelsRun`: `docs/graph-agents.md:739` says stop cancels pending tasks.
  A delegation whose approval comes after stop is launched.
- `GoalsAreSequential`: `multi_agent/persistent_graph.py:21` says goals are
  processed sequentially. Two submissions in a row may start two loops.
- `HistoryIsKept`: `docs/runtimes.md:214` calls the manager "the source of truth for
  conversation history". Two calls that miss the cache at once each restore the session
  (`session/manager.py:97`); the later one replaces the object a turn already writes to.
- `OneDaemon`: `daemon/pid.py:23` says that any concurrent acquire fails. `release`
  unlinks the lock file after it has unlocked it: a daemon that opened the file
  before holds the lock of a file that is gone, and the next one creates and locks
  another.

Five more have no run. `docs/advanced.md:193` says that a lock "ensures sequential turn
processing per session", which `TurnsAreSequential` qualifies: a close under a turn pops
the lock. The others need no interleaving: the contract test
`tests/unit/test_graph_task_board_contract.py:500` says a blocked task cannot be checked
out, while the SQL boards test the holder and not the status; `pipeline/pipeline.py:124`
says of `stop` that the current phase finishes, while the code cancels its run;
`docs/advanced.md:119` says a half-open breaker admits one probe, while all
requests are admitted; `docs/pipeline.md:320` says the wrapped runner records costs
after each call, while the one `build()` wraps records none.

## 4. Proofs

Every theorem holds for any values of the constants that meet the named
assumptions of the module (`BoardAssumption`, `PgAssumption`,
`OrchestratorAssumption`, `PersistentAssumption`, `PipelineAssumption`,
`SessionAssumption`): identifiers are told apart from None, sets of executions
are finite, sizes are positive, the PostgreSQL boards to start from are forests of task
records whose parents the table may refer to and whose holders agree with their statuses.

### GraphTaskBoardProofs

| Theorem | Property |
|---|---|
| `BoardTypeCorrect` | `TypeOK` |
| `CheckoutCorrect` | `CheckoutAgreesWithStatus`, `ReasonAgreesWithStatus` |
| `CheckoutNotStolen` | `NoStolenCheckout` |
| `AcyclicCorrect` | `ParentsAcyclic` |
| `CompletionSettlesCorrect` | `CompletionSettlesParents` |
| `FollowersFinishedCorrect` | `OnlyFinishedParentsFollow` |
| `FullIsDoneCorrect` | `FullIsDone` |
| `DoneIsFinalCorrect` | `DoneIsFinal` |
| `ReadyStaysReadyCorrect` | `ReadyStaysReady` |

`TypeOK` is inductive by itself. `StepShape`, `CompleteShape` and `CreateShape`
then say, field by field, what the three kinds of step (store, complete, edit)
change, and every later proof uses these instead of the actions. `ParentsAcyclic`
is inductive because a link is stored only where the walk up from the new parent
does not meet the task: a parent-closed set that a new link closes must contain
that walk (`ValidLinkAcyclic`). It is stated over sets (no set of known tasks
contains the parent of each of its members), which needs neither paths nor
induction. `CompletionSettlesParents` and `OnlyFinishedParentsFollow` rest on
`DoneAfterFixpoint`: the least closed set is itself closed, and a task that is in
it for no reason could be taken out. `FullIsDone` follows since the tasks of
progress 1.0 grow by the same rule from fewer tasks (`FullAfterIsDone`).

### SqliteGraphTaskBoardProofs

| Theorem | Property |
|---|---|
| `SqlTypeCorrect` | `SqlTypeOK` |
| `SqlCheckoutCorrect` | `CheckoutAgreesWithStatus` |
| `SqlCheckoutNotStolen` | `NoStolenCheckout` |
| `RowsPermanentCorrect` | `RowsArePermanent` |
| `SqlCompletionSettlesCorrect` | `CompletionSettlesParents` |

`SqlStepShape` reduces a step to one of four: the table stays, an update of the
in-memory board, a claim, a row under a fresh key. The lemmas about the
in-memory board serve its updates. `ReasonAgreesWithStatus` is not among the
theorems: it does not hold here, since the claim of a blocked row keeps its reason.

### PostgresGraphTaskBoardProofs

| Theorem | Property |
|---|---|
| `NothingOverwrittenCorrect` | `NothingOverwritten` |
| `PgCheckoutCorrect` | `CheckoutAgreesWithStatus` |
| `PgCheckoutNotStolen` | `NoStolenCheckout` (of this specification) |
| `CompletionSerialCorrect` | `CompletionIsSerial` |
| `WaitsSeenCorrect` | `WaitsAreSeen` |
| `PgAcyclicCorrect` | `ParentsAcyclic` |
| `PgTypeCorrect` | `PgTypeOK` |
| `PgRowsPermanent` | rows and their parents stay |

The invariant `PgInv` adds to these that a session locks rows of the table only,
has written only rows it has locked, and that no two sessions have locked the same
row. `OthersKept`: a step of one session leaves all that to the others where it
takes none of their rows and changes none. Claims, blocks and cancellations change
rows nobody has locked (`RowCallItem`), an insert adds one nobody could have, and a
commit changes rows of its own only, and of these the status DONE and the progress
(`CommitEffect`), because what it has read is still there.

`CompletionIsSerial` compares a propagation of many steps with the two least closed
sets of one atomic `complete_task`, on the table as it is at the commit. `SerialInv`
says what a completion has established so far, whatever else is committed beside it:
its own row is the committed one made DONE (`Own`); the next parent of each row it has
written is one it has written or the one it stands at, a row or a key of another
namespace (`Climb`); it has counted only
children, all those it has rewritten among them, has them locked, and each parent is
what they make of it (`Counted`). Two conjuncts stand where an induction over the chain
would: no set of parents passed counts its own members in a circle (`NoCircle`), and
every set that holds the first parent and is closed under the walk up holds all that
were passed (`Reached`). `SerialKept` carries all of it over the steps of others, which
change no row a session holds and move no row (`RowsPermanent`). `Forest`, that no row
is its own ancestor and each refers to a row that is there or of another namespace, is
what lets a propagation go up and never come back to a row it has written (`ClimbsOn`);
it holds although a creation reads the parents without locks, because the key it inserts
is none that any row refers to. At the commit nobody
has changed a counted row, so the counted children of a parent are its children but for
`Missed` (`MetFacts`). The rows the completion has made DONE or full are then a set
that is closed in the sense of `DoneAfter` and `FullAfter`, and by `NoCircle` there is
no smaller one (`MetDone`, `MetCompleted`).

`WaitsAreSeen` is the safety that `EveryCompletionEnds` rests on. A session that cannot
go on waits for one that has locked rows (`HinderedWaits`), an insert too; a session
between two calls has none (`Released`). So in a set closed under waiting in which nobody
goes on, those who have locked rows wait among each other, which is a deadlock.

### GraphOrchestratorProofs and GraphOrchestratorOutcomes

| Theorem | Property |
|---|---|
| `SlotsCorrect` | `SlotsConserved` |
| `NoEscapedCorrect` | `NoEscapedExecution` |
| `OrchestratorTypeCorrect` | `TypeOK` |
| `CompletedDoneCorrect` | `CompletedIsDone` |
| `EndedSettledCorrect` | `EndedIsSettled` |
| `ResultCompletedCorrect` | `ResultMeansCompleted` |
| `CompletedFinalCorrect` | `CompletedIsFinal` |
| `ImplementsPoolCorrect` | `ImplementsPool` |

`NextSlots` reduces every step to one of three: the holders and the semaphore
keep, one slot is taken for one more holder, one is given back for one less.
For `start` this needs that the root of a run that has not started is idle
(`RootsIdle`), hence `ShapeInv`, which is inductive with the types of `phase` and
`runs`. `StepSlots` adds the cardinalities. `NoEscapedExecution` is inductive with
`ShapeInv`: a step of a coroutine takes only itself out of `_bg_tasks`, and only
as it ends (`ServeEscapes`); what `stop` pops while live, it cancels.

The outcomes follow from `Life(t)`, what a task goes through by where its
coroutine is: before it runs it has no result (`Fresh`); while it runs its task is
in progress on the board, or already DONE through its children (`AtWork`); once
the runner returned the task is DONE (`Notified`); given up or ended, it is DONE
or cancelled (`Settled`); a completed execution has result and DONE task
(`Reported`); a result stays with its outcome (`Kept`). `FrameLife` shows that
what is done for one task leaves the life of the others: the board only ever moves
their status to DONE (`PutOnBoard`, `CreateEffect`, `CancelEffect`,
`CompleteEffect`).

For the refinement, `MovesStage` says what a move of a coroutine is in the pool, and
`StepPool` maps every step to one of the pool or to none. Three facts of the
invariant carry it: those who work or rest are those who hold a slot
(`BusyHolders`), so that a free slot, by `SlotsConserved`, means room in the pool;
an execution that waits has attempts left (`Attempts`); one that notifies has its
result (`NotifiedKept`), so that it does not end empty-handed.

### PersistentGraphProofs

| Theorem | Property |
|---|---|
| `PersistentTypeCorrect` | `TypeOK` |
| `OneLoopCorrect` | `OneLoopPerGoal` |
| `ProcessingCorrect` | `ProcessingHasLoop` |
| `QueueCorrect` | `QueueHoldsQueued` |
| `AwaitedCorrect` | `LiveRootIsAwaited` |
| `NoGoalForgottenCorrect` | `NoGoalForgotten` |

None of the first invariants is inductive alone. `Inv` joins them with: a loop serves a goal
exactly while it is active (`ServesActive`), a goal that is served has left the
queue (`ServedTaken`) and is running while its loop starts or waits for it
(`ServedRuns`), a goal is submitted once (`SubmittedOnce`), and a loop does not
exist before its submission returns from the bus (`NamedAfter`). `AppendGoal` and
`TakeGoal` are the two facts about the deque: what is appended is there once, what
is taken is there no more.

`NoGoalForgotten` has a premise about the whole behaviour (no shutdown, no loop taken
by the bus), so its invariant `Kind` is inductive only between states that meet the
premise: `KindSubmits` and `KindLoops` take it of the later state. No loop is cancelled
there, so that one that ends finds the queue empty, or finds the flag cleared already
and leaves things as the loop that cleared it did.

### PipelineProofs

| Theorem | Property |
|---|---|
| `PipelineTypeCorrect` | types |
| `BudgetCorrect` | `OvershootBounded` |
| `RootCorrect` | `RootWorksInItsPhase` |
| `BreakerCorrect` | `ConsecutiveFailuresOpen` |
| `OutcomesCorrect` | `OutcomesAreTrue` |
| `RootWaitedCorrect` | `run()` waits for a root that was launched |

`OvershootBounded` is not inductive: what matters is what calls under way may still
add. `BudgetInv` says that what is spent, with `MaxCost` for each call under way, is
below the limit and `MaxConcurrent` calls, and that no more than `MaxConcurrent`
executions hold a slot: a call begins only while less than the limit is spent, and
a return moves its cost from one term to the other. `RootWorksInItsPhase` is
inductive with the types, since `run()` leaves `waiting` only when the root ended.
So is `ConsecutiveFailuresOpen`: whichever success closes a breaker has reset the count.
`OutcomesAreTrue` needs `Course`: while `run()` is in a phase, all before it are
completed, no root after it was launched, and the root of a phase in its gates or
announced as completed has its result. `NextPhaseCourse` is the head of the loop.

### SessionManagerProofs

| Theorem | Property |
|---|---|
| `SessionTypeCorrect` | types, in every world |
| `TurnsSequentialCorrect` | `TurnsAreSequential`, in every world |
| `AcknowledgedCorrect` | `AcknowledgedIsRemembered`, for orderly applications |
| `LocksLiveCorrect` | the holder of a lock is in flight, a waiting turn is behind one |
| `SessionInvariant` | the invariant below |

The invariant has layers. `Locked`, in every world: each kind of call is at
stages of its own, every turn in flight is in exactly one queue, at its head unless
it waits. Its proof first says of each action which way its call treats the queues
(keeps its place, leaves, joins, comes to the head), then `ShapeLocked` does all of them
at once. `LocksNamed`, in every world: a lock in use is the one `get_lock` returns or one
a close popped, which is `TurnsAreSequential` for the disorderly ones. `Ordered`, for
orderly applications: one lock is in use, a call that is not waiting has only waiting
turns beside it and uses the cached object, and at most one write is on its way
(`WritesAwaited`), which is why the order of threads does not matter there. `Remembered`,
for these too: what was acknowledged is in the file, in the write on its way, in the
cached object and in a snapshot just read, so that a crash at any point leaves it;
`EffectSaved` is the step before, a reply about to be acknowledged.

### Only model-checked

The liveness properties (`EveryExecutionEnds`, `EveryGoalSettles`, `ShutdownEnds`,
`RunEnds`, `EveryCallEnds`, `EveryCompletionEnds`): fairness and ENABLED are out of
this prover's reach. What they rest on is proved where it is a safety property:
`NoGoalForgotten` and `LiveRootIsAwaited`, `RootWaitedCorrect`, `LocksLiveCorrect`,
`WaitsAreSeen`, `SlotsConserved`. Every invariant and every action property of the passing
runs is a theorem, and so is the refinement. The disagreements of the violation
runs are counterexamples.

Type invariants are theorems of every module but `PidFile`; the runs check those of the
in-memory board and of the orchestrator, which bounds the attempts, and leave the others
to the proofs.

## 5. Not modelled

- Comments and namespaces of the three boards: they share no state with tasks, but for
  the foreign key of the PostgreSQL table, where a parent may be of another namespace.
- The stores and the builder of the agent tree, graph tools and governance, graph
  communication: one locked statement per operation, or checks on one call. The
  check that is stale after an approval is listed as a hazard.
- The task queue, a simpler board under one lock, and workspaces, which are git
  and file-system calls.
- The scheduler and the routines of the daemon: one process; the two places
  where they may surprise are visible in one loop or two calls, and listed.
- `run_phase`, the budget's limits per agent and per phase, its warning and its
  stores: `Pipeline` has the loop and the total.
- Subagents and teams, plans, the workflow graph, the plugin runner: what is hard
  in them is listed as a hazard with the reason it has no property (a cancellation
  before the first step, which `GraphOrchestrator` models, stale copies of one value,
  control that is the application's, a child process outside the repository).
- Runtimes, the agent facade, hooks and policies, human in the loop, memory and
  observability providers, protocol glue, tools, RAG, UI, command line and
  configuration: adapters, stateless decisions or single statements, with no state
  that several actors change. They make up most of the repository's lines.
