--------------------------- MODULE GraphTaskBoard ---------------------------
(***************************************************************************)
(* The in-memory hierarchical task board (InMemoryGraphTaskBoard): tasks   *)
(* with a parent, dependencies, an agent that has checked them out, and a  *)
(* completion that propagates up the chain of parents.                     *)
(*                                                                         *)
(* Every operation of the class runs under one asyncio.Lock and awaits     *)
(* nothing inside it, so an operation is one action.  A call that the code *)
(* refuses (returns None or False, or raises) changes nothing and is the   *)
(* absence of a step.                                                      *)
(***************************************************************************)
EXTENDS Naturals

CONSTANTS
  Tasks,      \* the task identifiers callers use
  Agents,     \* the agents that check tasks out
  NoTask,     \* parent_task_id = None
  NoAgent,    \* checkout_agent_id = None
  DepSets     \* the dependency sets callers give to create_task

ASSUME BoardAssumption ==
  /\ NoTask \notin Tasks
  /\ NoAgent \notin Agents
  /\ DepSets \subseteq SUBSET Tasks

VARIABLE tasks   \* _tasks: the tasks the board holds, by identifier

-----------------------------------------------------------------------------
(* Data. progress is a float in 0.0..1.0 computed as a mean: only whether   *)
(* it is 0.0 ("none"), 1.0 ("full") or between ("some") is kept, which the  *)
(* mean of such values determines.                                          *)

Status   == {"todo", "in_progress", "blocked", "done", "cancelled"}
Progress == {"none", "some", "full"}
Reasons  == {"", "given"}

GraphTaskItem ==
  [status: Status, checkout: Agents \cup {NoAgent}, parent: Tasks \cup {NoTask},
   deps: SUBSET Tasks, progress: Progress, reason: Reasons]

Known       == DOMAIN tasks
Children(p) == {u \in Known : tasks[u].parent = p}
Done        == {u \in Known : tasks[u].status = "done"}
Open        == {"todo", "in_progress"}

-----------------------------------------------------------------------------
(* The parent chain.                                                        *)

(* S contains the parent of each of its members the board knows. *)
ParentClosed(S) == \A u \in S \cap Known : tasks[u].parent \in S \cup {NoTask}

(* What a walk up the parent links meets when it starts at p: the members   *)
(* of every parent-closed set that contains p.  A walk that meets a task    *)
(* the board does not know ends there.                                      *)
Chain(p) ==
  IF p = NoTask
  THEN {}
  ELSE {u \in Tasks : \A S \in SUBSET Tasks : p \in S /\ ParentClosed(S) => u \in S}

(* Seeded bug: only the self-parent test. *)
SelfParentOnly(t, p) == p # t

(* _validate_parent_link: the link from t to p is refused when p is t or    *)
(* the walk up from p meets t.                                              *)
ValidParentLink(t, p) == t \notin Chain(p)

Ancestors(t) == Known \cap Chain(tasks[t].parent)

-----------------------------------------------------------------------------
(* Propagation of a completion (_propagate_parent).                         *)

(* Seeded bug: the parent is recomputed but not the parent's parents. *)
DoneOneLevel(t) ==
  Done \cup {t} \cup {p \in Known \cap {tasks[t].parent} : Children(p) \subseteq Done \cup {t}}

(* Seeded bug: a cancelled child counts as finished. *)
DoneOverCancelled(t) ==
  LET Over == {u \in Known : tasks[u].status = "cancelled"}
      Closed(S) == /\ Done \cup {t} \subseteq S
                   /\ \A p \in Ancestors(t) : Children(p) \subseteq S \cup Over => p \in S
  IN  {u \in Known : \A S \in SUBSET Known : Closed(S) => u \in S}

(* The tasks that are DONE once t completes: t, those that were, and every  *)
(* ancestor of t whose children are all among them.                         *)
DoneClosed(t, S) ==
  /\ Done \cup {t} \subseteq S
  /\ \A p \in Ancestors(t) : Children(p) \subseteq S => p \in S
DoneAfter(t) == {u \in Known : \A S \in SUBSET Known : DoneClosed(t, S) => u \in S}

(* The tasks whose progress is 1.0 once t completes: t, those off the chain *)
(* that had it, and every ancestor of t whose children all have it.         *)
FullClosed(t, S) ==
  /\ {t} \cup {u \in Known \ Ancestors(t) : tasks[u].progress = "full"} \subseteq S
  /\ \A p \in Ancestors(t) : Children(p) \subseteq S => p \in S
FullAfter(t) == {u \in Known : \A S \in SUBSET Known : FullClosed(t, S) => u \in S}

(* The board after t completes.  An ancestor's progress is the mean over    *)
(* its children, one of which has just risen above 0.0.                     *)
Completed(t) ==
  LET done == DoneAfter(t)
      full == FullAfter(t)
      up   == Ancestors(t)
  IN  [u \in Known |->
         [tasks[u] EXCEPT
            !.status   = IF u \in done THEN "done" ELSE @,
            !.progress = IF u \in full THEN "full" ELSE IF u \in up THEN "some" ELSE @]]

-----------------------------------------------------------------------------
(* Operations.                                                              *)

NewTask(p, ds) ==
  [status |-> "todo", checkout |-> NoAgent, parent |-> p, deps |-> ds,
   progress |-> "none", reason |-> ""]

(* self._tasks[t] = item *)
Put(t, item) == tasks' = [u \in Known \cup {t} |-> IF u = t THEN item ELSE tasks[u]]

(* create_task stores the task under its id, over one that is there.  It    *)
(* stores the status, holder and progress the item comes with: the          *)
(* orchestrator and the daemon build items with the defaults, as here.      *)
CreateTask(t, p, ds) ==
  /\ ValidParentLink(t, p)
  /\ Put(t, NewTask(p, ds))

(* Seeded bug: the test of checkout_agent_id is missing. *)
CheckoutHeld(t, a) ==
  /\ t \in Known
  /\ tasks[t].status \in Open
  /\ Put(t, [tasks[t] EXCEPT !.checkout = a, !.status = "in_progress"])

(* Seeded bug: the test of the status is missing. *)
CheckoutAnyStatus(t, a) ==
  /\ t \in Known
  /\ tasks[t].checkout = NoAgent
  /\ Put(t, [tasks[t] EXCEPT !.checkout = a, !.status = "in_progress"])

(* Seeded bug: the two identifiers are swapped. *)
CheckoutSwapped(t, a) ==
  /\ t \in Known
  /\ tasks[t].checkout = NoAgent
  /\ tasks[t].status \in Open
  /\ Put(t, [tasks[t] EXCEPT !.checkout = t, !.status = "in_progress"])

CheckoutTask(t, a) ==
  /\ t \in Known
  /\ tasks[t].checkout = NoAgent
  /\ tasks[t].status \in Open
  /\ Put(t, [tasks[t] EXCEPT !.checkout = a, !.status = "in_progress"])

CompleteTask(t) ==
  /\ t \in Known
  /\ tasks[t].status = "in_progress"
  /\ tasks' = Completed(t)

(* Seeded bug: the checkout is not released. *)
BlockHeld(t, reason) ==
  /\ t \in Known
  /\ reason # ""
  /\ tasks[t].status \in Open
  /\ Put(t, [tasks[t] EXCEPT !.status = "blocked", !.reason = reason])

BlockTask(t, reason) ==
  /\ t \in Known
  /\ reason # ""
  /\ tasks[t].status \in Open
  /\ Put(t, [tasks[t] EXCEPT !.status = "blocked", !.reason = reason, !.checkout = NoAgent])

UnblockTask(t) ==
  /\ t \in Known
  /\ tasks[t].status = "blocked"
  /\ Put(t, [tasks[t] EXCEPT !.status = "todo", !.reason = ""])

CancelTask(t) ==
  /\ t \in Known
  /\ tasks[t].status \in Open
  /\ Put(t, [tasks[t] EXCEPT !.status = "cancelled", !.checkout = NoAgent])

(* get_ready_tasks and get_blocked_by. *)
ReadyTasks ==
  {t \in Known : /\ tasks[t].status = "todo"
                 /\ tasks[t].checkout = NoAgent
                 /\ tasks[t].deps \subseteq Done}
BlockedBy(t) == IF t \in Known THEN (tasks[t].deps \cap Known) \ Done ELSE {}

-----------------------------------------------------------------------------
Init == tasks = [t \in {} |-> NewTask(NoTask, {})]

Next ==
  \E t \in Tasks :
    \/ \E p \in Tasks \cup {NoTask}, ds \in DepSets : CreateTask(t, p, ds)
    \/ \E a \in Agents : CheckoutTask(t, a)
    \/ CompleteTask(t)
    \/ \E reason \in Reasons : BlockTask(t, reason)
    \/ UnblockTask(t)
    \/ CancelTask(t)

Spec == Init /\ [][Next]_tasks

-----------------------------------------------------------------------------
(* Correctness.                                                             *)

(* The board holds task records. *)
TypeOK ==
  /\ Known \subseteq Tasks
  /\ tasks \in [Known -> GraphTaskItem]

(* No task is its own ancestor, whatever was created or re-created, in      *)
(* whatever order and under parents that did not exist yet: the walks of    *)
(* _propagate_parent and get_goal_ancestry end because of it.               *)
ParentsAcyclic ==
  \A C \in SUBSET Known : (\A u \in C : tasks[u].parent \in C) => C = {}

(* The checkout agrees with the status: a task in progress has its agent,   *)
(* and a task that is open to others, blocked or cancelled has none, through *)
(* every order of claims, blocks, cancellations and propagated completions. *)
CheckoutAgreesWithStatus ==
  \A t \in Known :
    /\ tasks[t].status = "in_progress" => tasks[t].checkout # NoAgent
    /\ tasks[t].status \in {"todo", "blocked", "cancelled"} => tasks[t].checkout = NoAgent

(* A blocked task says why, and the reason does not outlive the block       *)
(* except on a task that the completion of its children closed.             *)
ReasonAgreesWithStatus ==
  \A t \in Known :
    /\ tasks[t].status = "blocked" => tasks[t].reason # ""
    /\ tasks[t].reason # "" => tasks[t].status \in {"blocked", "done"}

(* A task that shows progress 1.0 is DONE: the mean that propagation stores *)
(* and the status it sets never disagree in that direction.                 *)
FullIsDone == \A t \in Known : tasks[t].progress = "full" => tasks[t].status = "done"

NewlyDone == Done' \ Done

(* A completion settles the whole chain of parents: wherever it makes a     *)
(* task DONE, the parent is DONE too if all its children now are            *)
(* ("recursively up the tree").                                             *)
CompletionSettlesParents ==
  [][\A u \in NewlyDone :
        LET p == tasks[u].parent
        IN  p \in Known /\ Children(p) \subseteq Done' => p \in Done']_tasks

(* One call completes one task; every other task that becomes DONE in the   *)
(* same step does so because it has children and all of them are DONE.      *)
OnlyFinishedParentsFollow ==
  [][\E t \in Tasks : \A u \in NewlyDone \ {t} :
        Children(u) # {} /\ Children(u) \subseteq Done']_tasks

(* A task that an agent holds is never handed to another agent in one step: *)
(* it is released first.                                                    *)
NoStolenCheckout ==
  [][\A t \in Known :
        tasks[t].checkout # NoAgent
          => tasks'[t].checkout \in {tasks[t].checkout, NoAgent}]_tasks

(* A finished task is not reopened: DONE is left only when a caller stores a *)
(* new task under the same identifier.                                      *)
DoneIsFinal ==
  [][\A t \in Done :
        \/ tasks'[t].status = "done"
        \/ tasks'[t] \in {NewTask(p, ds) : p \in Tasks \cup {NoTask}, ds \in DepSets}]_tasks

(* A task offered to agents stays on offer until it changes itself: what    *)
(* becomes of other tasks withdraws it only if a dependency is stored anew. *)
ReadyStaysReady ==
  [][\A t \in ReadyTasks :
        \/ t \in ReadyTasks'
        \/ tasks'[t] # tasks[t]
        \/ \E d \in tasks[t].deps : tasks'[d].status = "todo"]_tasks
=============================================================================
