----------------------- MODULE PostgresGraphTaskBoard -----------------------
(***************************************************************************)
(* PostgresGraphTaskBoard: the board kept in PostgreSQL, by sessions that  *)
(* overlap.  "tasks" is the committed table.                               *)
(*                                                                         *)
(* A call is one READ COMMITTED transaction.  SELECT ... FOR UPDATE waits  *)
(* for each row it finds and reads its last committed version; locks are   *)
(* held until the transaction ends.  The calls that lock one row hold it   *)
(* without waiting for another and are one step.  create_task reads the    *)
(* parents without locks, then inserts, which waits for the parent's row:  *)
(* the column references the table.  complete_task locks its row, then     *)
(* level by level the children of the parent and the parent.               *)
(***************************************************************************)
EXTENDS GraphTaskBoard

CONSTANTS
  Conns,    \* the sessions that create or complete
  Foreign,  \* the keys of rows in other namespaces, which stay as they are
  Boards    \* the boards to start from

(* The keys a row may refer to in a table whose rows of this namespace are S. *)
Referable(S) == S \cup Foreign \cup {NoTask}

(* A board to start from is one that calls can leave behind. *)
ASSUME PgAssumption ==
  /\ Foreign \subseteq Tasks
  /\ \A b \in Boards :
    /\ DOMAIN b \subseteq Tasks \ Foreign
    /\ b \in [DOMAIN b -> GraphTaskItem]
    /\ \A C \in SUBSET DOMAIN b : (\A t \in C : b[t].parent \in C) => C = {}
    /\ \A t \in DOMAIN b :
         /\ b[t].parent \in Referable(DOMAIN b)
         /\ b[t].status = "in_progress" => b[t].checkout # NoAgent
         /\ b[t].status \in {"todo", "blocked", "cancelled"} => b[t].checkout = NoAgent

VARIABLE txn   \* per session: its transaction

pgVars == <<tasks, txn>>

(* task: the one created or completed; link: the parent of the one created, *)
(* or the parent at which the propagation is; want: children still to lock; *)
(* held: rows locked; draft: the row written under each key; seen: for the  *)
(* parents the propagation has passed, the children it counted.             *)
Nothing == [u \in {} |-> u]
NoTxn == [stage |-> "none", task |-> NoTask, link |-> NoTask, want |-> {}, held |-> {},
          draft |-> Nothing, seen |-> Nothing]

-----------------------------------------------------------------------------
(* Seeded bug: the propagation locks through a session of its own. *)
FreeForNone(c, t) == \A d \in Conns : t \notin txn[d].held

FreeFor(c, t) == \A d \in Conns \ {c} : t \notin txn[d].held
Unlocked(t)   == \A d \in Conns : t \notin txn[d].held

(* The rows as the session reads them. *)
View(c) == [u \in Known |-> IF u \in DOMAIN txn[c].draft THEN txn[c].draft[u] ELSE tasks[u]]

Extend(f, t, x) == [u \in DOMAIN f \cup {t} |-> IF u = t THEN x ELSE f[u]]

(* Where a completion goes on: the parent of the row it has written. *)
Onward(p) == IF p = NoTask THEN "commit" ELSE "family"

-----------------------------------------------------------------------------
(* create_task.                                                             *)

(* The walk up the parents sees the rows committed by its last read.  A key *)
(* that is there by then will raise.                                        *)
CreateReads(c, t, p) ==
  /\ txn[c].stage = "none"
  /\ t \notin Known \cup Foreign
  /\ ValidParentLink(t, p)
  /\ txn' = [txn EXCEPT ![c] = [NoTxn EXCEPT !.stage = "creating", !.task = t, !.link = p]]
  /\ UNCHANGED tasks

(* A key that is there, or a parent in no row, raises: see Doomed.  The     *)
(* reference takes a share of the parent's row until the commit.            *)
CreateInserts(c) ==
  /\ txn[c].stage = "creating"
  /\ txn[c].task \notin Known
  /\ txn[c].link \in Referable(Known) /\ FreeFor(c, txn[c].link)
  /\ \E ds \in DepSets : Put(txn[c].task, NewTask(txn[c].link, ds))
  /\ txn' = [txn EXCEPT ![c] = NoTxn]

-----------------------------------------------------------------------------
(* complete_task.                                                           *)

CompleteBegins(c, t) ==
  /\ txn[c].stage = "none"
  /\ t \in Known /\ FreeFor(c, t)
  /\ tasks[t].status = "in_progress"
  /\ txn' = [txn EXCEPT ![c] =
       [NoTxn EXCEPT !.stage = Onward(tasks[t].parent), !.task = t, !.link = tasks[t].parent,
                     !.held = {t},
                     !.draft = Extend(Nothing, t, [tasks[t] EXCEPT !.status = "done",
                                                                   !.progress = "full"])]]
  /\ UNCHANGED tasks

(* Seeded bug: the children are read without FOR UPDATE. *)
FamilyUnlocked(c) ==
  LET family == Children(txn[c].link) IN
  /\ txn[c].stage = "family"
  /\ txn' = [txn EXCEPT ![c].stage = "children",
                        ![c].seen = Extend(@, txn[c].link, family),
                        ![c].draft = [u \in family \cup DOMAIN @ |-> View(c)[u]]]
  /\ UNCHANGED tasks

(* The children that are committed when the statement begins. *)
Family(c) ==
  LET family == Children(txn[c].link) IN
  /\ txn[c].stage = "family"
  /\ txn' = [txn EXCEPT ![c].stage = "children",
                        ![c].want = family,
                        ![c].seen = Extend(@, txn[c].link, family)]
  /\ UNCHANGED tasks

LockChild(c) ==
  /\ txn[c].stage = "children"
  /\ \E u \in txn[c].want :
       /\ FreeFor(c, u)
       /\ txn' = [txn EXCEPT ![c].want = @ \ {u}, ![c].held = @ \cup {u}]
  /\ UNCHANGED tasks

(* The parent as the children make it. *)
Settled(row, family) ==
  [row EXCEPT !.status   = IF \A k \in family : k.status = "done" THEN "done" ELSE @,
              !.progress = IF \A k \in family : k.progress = "full" THEN "full" ELSE "some"]

(* Seeded bug: the parent is read without FOR UPDATE, then rewritten. *)
LockParentStale(c) ==
  LET p   == txn[c].link
      row == Settled(View(c)[p], {View(c)[u] : u \in txn[c].seen[p]})
  IN  /\ txn[c].stage = "children" /\ txn[c].want = {}
      /\ p \in Known
      /\ IF p \in DOMAIN txn[c].draft
         THEN /\ FreeFor(c, p)
              /\ txn' = [txn EXCEPT ![c].stage = Onward(row.parent), ![c].link = row.parent,
                                    ![c].held = @ \cup {p}, ![c].draft = Extend(@, p, row)]
         ELSE txn' = [txn EXCEPT ![c].draft = Extend(@, p, tasks[p])]
      /\ UNCHANGED tasks

(* The parent's row is locked and rewritten, and the propagation goes on to *)
(* its own parent.                                                          *)
LockParent(c) ==
  LET p   == txn[c].link
      row == Settled(View(c)[p], {View(c)[u] : u \in txn[c].seen[p]})
  IN  /\ txn[c].stage = "children" /\ txn[c].want = {}
      /\ p \in Known /\ FreeFor(c, p)
      /\ txn' = [txn EXCEPT ![c].stage = Onward(row.parent), ![c].link = row.parent,
                            ![c].held = @ \cup {p}, ![c].draft = Extend(@, p, row)]
      /\ UNCHANGED tasks

(* The parent is in another namespace: the session does not see its row. *)
ParentMissing(c) ==
  /\ txn[c].stage = "children" /\ txn[c].want = {}
  /\ txn[c].link \notin Known
  /\ txn' = [txn EXCEPT ![c].stage = "commit",
                        ![c].seen = [p \in DOMAIN @ \ {txn[c].link} |-> @[p]]]
  /\ UNCHANGED tasks

(* The rows that the session has rewritten, all under its locks. *)
Written(c) == DOMAIN txn[c].draft \cap txn[c].held

Commit(c) ==
  /\ txn[c].stage = "commit"
  /\ tasks' = [u \in Known |-> IF u \in Written(c) THEN txn[c].draft[u] ELSE tasks[u]]
  /\ txn' = [txn EXCEPT ![c] = NoTxn]

(* The call raises and its transaction is rolled back: a lost connection, a *)
(* cancelled caller, a key that is there, a parent that is not, a deadlock. *)
Aborts(c) ==
  /\ txn[c].stage # "none"
  /\ txn' = [txn EXCEPT ![c] = NoTxn]
  /\ UNCHANGED tasks

(* The rows of which the next statement of a session needs one. *)
WaitedRows(c) ==
  CASE txn[c].stage = "creating" -> {txn[c].link}
    [] txn[c].stage = "children" -> IF txn[c].want = {} THEN {txn[c].link} ELSE txn[c].want
    [] OTHER -> {}

WaitsAmong(c, S) == \E d \in S \ {c} : WaitedRows(c) \cap txn[d].held # {}

(* The aborts that are bound to come: of sessions that wait for each other  *)
(* PostgreSQL aborts one.                                                   *)
Doomed(c) ==
  \/ /\ txn[c].stage = "creating"
     /\ txn[c].task \in Known \/ txn[c].link \notin Referable(Known)
  \/ \E S \in SUBSET {d \in Conns : txn[d].held # {}} : c \in S /\ \A d \in S : WaitsAmong(d, S)

(* The next statement of the session finds a row free. *)
GoesOn(c) ==
  /\ txn[c].stage # "none"
  /\ WaitedRows(c) = {} \/ \E u \in WaitedRows(c) : FreeFor(c, u)

WaitsFor(c, d) == d # c /\ WaitsAmong(c, {d})

-----------------------------------------------------------------------------
(* The calls that lock one row.                                             *)

(* The claim tests who holds the task, not its status. *)
PgCheckout(t, a) ==
  /\ Unlocked(t)
  /\ t \in Known
  /\ tasks[t].checkout = NoAgent
  /\ Put(t, [tasks[t] EXCEPT !.checkout = a, !.status = "in_progress"])

PgBlock(t, reason) == Unlocked(t) /\ BlockTask(t, reason)
PgUnblock(t)       == Unlocked(t) /\ UnblockTask(t)
PgCancel(t)        == Unlocked(t) /\ CancelTask(t)

-----------------------------------------------------------------------------
PgInit == tasks \in Boards /\ txn = [c \in Conns |-> NoTxn]

Step(c) == CreateInserts(c) \/ Family(c) \/ ParentMissing(c) \/ Commit(c)

PgNext ==
  \/ \E c \in Conns :
       \/ Step(c) \/ LockChild(c) \/ LockParent(c) \/ Aborts(c)
       \/ \E t \in Tasks : \/ CompleteBegins(c, t)
                           \/ \E p \in Tasks \cup {NoTask} : CreateReads(c, t, p)
  \/ /\ UNCHANGED txn
     /\ \E t \in Tasks : \/ \E a \in Agents : PgCheckout(t, a)
                         \/ \E reason \in Reasons : PgBlock(t, reason)
                         \/ PgUnblock(t)
                         \/ PgCancel(t)

PgSpec == PgInit /\ [][PgNext]_pgVars

(* Statements run, PostgreSQL queues those who wait for a row and aborts    *)
(* one of those who wait for each other.                                    *)
PgFairSpec ==
  /\ PgSpec
  /\ \A c \in Conns : /\ WF_pgVars(Step(c)) /\ WF_pgVars(Doomed(c) /\ Aborts(c))
                      /\ SF_pgVars(LockChild(c)) /\ SF_pgVars(LockParent(c))

-----------------------------------------------------------------------------
(* Correctness.                                                             *)

(* The table holds task records, a session at most one transaction. *)
PgTypeOK ==
  /\ TypeOK
  /\ \A c \in Conns :
       /\ txn[c].stage \in {"none", "creating", "family", "children", "commit"}
       /\ txn[c].task \in Tasks \cup {NoTask} /\ txn[c].link \in Tasks \cup {NoTask}
       /\ txn[c].want \subseteq Known /\ txn[c].held \subseteq Known
       /\ DOMAIN txn[c].draft \subseteq txn[c].held
       /\ \A p \in DOMAIN txn[c].seen : txn[c].seen[p] \subseteq Known

(* The tasks that were inserted too late for the completion of c to meet    *)
(* them: children of parents whose family it had read.                      *)
Missed(c) ==
  {u \in Known : tasks[u].parent \in DOMAIN txn[c].seen /\ u \notin txn[c].seen[tasks[u].parent]}

Met(c) == INSTANCE GraphTaskBoard WITH tasks <- [u \in Known \ Missed(c) |-> tasks[u]]

Rewritten(old, row) ==
  /\ row.status \in {"done", old.status}
  /\ row = [old EXCEPT !.status = row.status, !.progress = row.progress]

(* A row that a completion has written but not committed is the committed   *)
(* row still, but for a status DONE and the progress: no claim, block or    *)
(* cancellation slips in between the read of a row and the commit, which    *)
(* rewrites every column.                                                   *)
NothingOverwritten ==
  \A c \in Conns : \A u \in Written(c) : Rewritten(tasks[u], txn[c].draft[u])

(* "Lock all children to prevent concurrent propagation race": a completion *)
(* that commits does to the table, as the other sessions have left it, what *)
(* one atomic complete_task does, but for tasks inserted meanwhile.  The    *)
(* last of several siblings to complete closes the parent, and no claim,    *)
(* block or cancellation is overwritten by a row read before it.            *)
CompletionIsSerial ==
  [][\A c \in Conns :
       (txn[c].stage = "commit" /\ tasks' # tasks /\ txn'[c].stage = "none")
         => \A u \in Known :
              tasks'[u] = IF u \in Missed(c) THEN tasks[u] ELSE Met(c)!Completed(txn[c].task)[u]]_pgVars

(* Behind whom a session may wait, directly or through others, there is one *)
(* that goes on or that the database aborts: no lock outlives its           *)
(* transaction, and no wait is of a kind that deadlock detection misses.    *)
WaitsAreSeen ==
  \A S \in SUBSET Conns :
    /\ \E c \in S : txn[c].stage # "none"
    /\ \A c \in S, d \in Conns : WaitsFor(c, d) => d \in S
    => \E c \in S : GoesOn(c) \/ Doomed(c)

(* A completion ends, although siblings that complete at once wait for each *)
(* other's row: it waits for locks of other transactions only, which the    *)
(* database sees.                                                           *)
EveryCompletionEnds == \A c \in Conns : txn[c].stage = "family" ~> txn[c].stage = "none"
=============================================================================
