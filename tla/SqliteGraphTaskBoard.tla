------------------------ MODULE SqliteGraphTaskBoard ------------------------
(***************************************************************************)
(* SqliteGraphTaskBoard: the board kept in one database file, by several   *)
(* connections (processes, or boards opened twice on the file).  "tasks"   *)
(* is the committed table.                                                 *)
(*                                                                         *)
(* Each connection serialises its calls with a lock.  The five updates run *)
(* under BEGIN IMMEDIATE and roll back when they raise.  create_task does  *)
(* neither: it reads the parents, then inserts in the transaction Python   *)
(* opens for it, and leaves that transaction open when the insert raises.  *)
(***************************************************************************)
EXTENDS GraphTaskBoard

CONSTANT Conns   \* the connections to the file

VARIABLES
  txn,        \* per connection: "none"; "held", a transaction left open with
              \* the write lock; "open", one left open without it
  creating    \* per connection: a create_task between its reads and its insert

sqlVars == <<tasks, txn, creating>>

NotCreating == <<>>
Creations == [task : Tasks, parent : Tasks \cup {NoTask}, deps : DepSets]

-----------------------------------------------------------------------------
(* No other connection holds the write lock.  A call that finds it held     *)
(* waits, then raises "database is locked".                                 *)
LockFree(c) == \A d \in Conns \ {c} : txn[d] # "held"

(* The walk up from p ends.  On a cycle the parent test refuses, and        *)
(* _propagate_parent_sync recurses until it raises.                         *)
WalkEnds(p) == \A u \in Known \cap Chain(p) : u \notin Chain(tasks[u].parent)

(* create_task up to its insert. *)
CreateReads(c, t, p, ds) ==
  /\ creating[c] = NotCreating
  /\ ValidParentLink(t, p) /\ WalkEnds(p)
  /\ creating' = [creating EXCEPT ![c] = [task |-> t, parent |-> p, deps |-> ds]]
  /\ UNCHANGED <<tasks, txn>>

(* In a transaction left open the reads fixed a snapshot, and the insert    *)
(* fails once another connection has written: the link read is the link now. *)
SnapshotHolds(c) ==
  txn[c] = "open" => /\ ValidParentLink(creating[c].task, creating[c].parent)
                     /\ WalkEnds(creating[c].parent)

(* Seeded bug: INSERT OR REPLACE. *)
CreateReplaces(c) ==
  /\ creating[c] # NotCreating
  /\ LockFree(c)
  /\ SnapshotHolds(c)
  /\ Put(creating[c].task, NewTask(creating[c].parent, creating[c].deps))
  /\ txn' = [txn EXCEPT ![c] = "none"]
  /\ creating' = [creating EXCEPT ![c] = NotCreating]

CreateInserts(c) ==
  /\ creating[c] # NotCreating
  /\ LockFree(c)
  /\ SnapshotHolds(c)
  /\ creating[c].task \notin Known
  /\ Put(creating[c].task, NewTask(creating[c].parent, creating[c].deps))
  /\ txn' = [txn EXCEPT ![c] = "none"]
  /\ creating' = [creating EXCEPT ![c] = NotCreating]

(* The identifier is taken: IntegrityError, the transaction stays open. *)
CreateDuplicate(c) ==
  /\ creating[c] # NotCreating
  /\ LockFree(c)
  /\ creating[c].task \in Known
  /\ txn' = [txn EXCEPT ![c] = "held"]
  /\ creating' = [creating EXCEPT ![c] = NotCreating]
  /\ UNCHANGED tasks

(* The lock is held elsewhere, or the snapshot is stale. *)
CreateLocked(c) ==
  /\ creating[c] # NotCreating
  /\ ~LockFree(c) \/ txn[c] = "open"
  /\ txn' = [txn EXCEPT ![c] = IF @ = "held" THEN "held" ELSE "open"]
  /\ creating' = [creating EXCEPT ![c] = NotCreating]
  /\ UNCHANGED tasks

-----------------------------------------------------------------------------
(* The updates.                                                             *)

(* BEGIN IMMEDIATE succeeds: the update commits in one step. *)
Immediate(c) ==
  /\ creating[c] = NotCreating
  /\ txn[c] = "none"
  /\ LockFree(c)
  /\ UNCHANGED <<txn, creating>>

(* In a transaction left open BEGIN IMMEDIATE raises and the update rolls   *)
(* back, closing it.                                                        *)
UpdateRollsBack(c) ==
  /\ creating[c] = NotCreating
  /\ txn[c] # "none"
  /\ txn' = [txn EXCEPT ![c] = "none"]
  /\ UNCHANGED <<tasks, creating>>

(* Seeded bug: an IN_PROGRESS task is checked out again. *)
SqlCheckoutAgain(c, t, a) ==
  /\ Immediate(c)
  /\ t \in Known
  /\ tasks[t].checkout = NoAgent \/ tasks[t].status = "in_progress"
  /\ Put(t, [tasks[t] EXCEPT !.checkout = a, !.status = "in_progress"])

(* _checkout_sync tests who holds the task, not its status. *)
SqlCheckout(c, t, a) ==
  /\ Immediate(c)
  /\ t \in Known
  /\ tasks[t].checkout = NoAgent
  /\ Put(t, [tasks[t] EXCEPT !.checkout = a, !.status = "in_progress"])

(* Seeded bug: the checkout is not released. *)
SqlCancelHeld(c, t) ==
  /\ Immediate(c)
  /\ t \in Known
  /\ tasks[t].status \in Open
  /\ Put(t, [tasks[t] EXCEPT !.status = "cancelled"])

(* Seeded bug: the parent's parents are left alone. *)
SqlCompleteAlone(c, t) ==
  /\ Immediate(c)
  /\ t \in Known
  /\ tasks[t].status = "in_progress"
  /\ Put(t, [tasks[t] EXCEPT !.status = "done", !.progress = "full"])

SqlComplete(c, t)      == Immediate(c) /\ WalkEnds(tasks[t].parent) /\ CompleteTask(t)
SqlBlock(c, t, reason) == Immediate(c) /\ BlockTask(t, reason)
SqlUnblock(c, t)       == Immediate(c) /\ UnblockTask(t)
SqlCancel(c, t)        == Immediate(c) /\ CancelTask(t)

(* The process of a connection dies and starts again: SQLite rolls back     *)
(* what was not committed.                                                  *)
Restart(c) ==
  /\ txn' = [txn EXCEPT ![c] = "none"]
  /\ creating' = [creating EXCEPT ![c] = NotCreating]
  /\ UNCHANGED tasks

-----------------------------------------------------------------------------
SqlInit ==
  /\ Init
  /\ txn = [c \in Conns |-> "none"]
  /\ creating = [c \in Conns |-> NotCreating]

SqlNext ==
  \E c \in Conns :
    \/ CreateInserts(c) \/ CreateDuplicate(c) \/ CreateLocked(c)
    \/ UpdateRollsBack(c) \/ Restart(c)
    \/ \E t \in Tasks :
         \/ \E p \in Tasks \cup {NoTask}, ds \in DepSets : CreateReads(c, t, p, ds)
         \/ \E a \in Agents : SqlCheckout(c, t, a)
         \/ t \in Known /\ SqlComplete(c, t)
         \/ \E reason \in Reasons : SqlBlock(c, t, reason)
         \/ SqlUnblock(c, t)
         \/ SqlCancel(c, t)

SqlSpec == SqlInit /\ [][SqlNext]_sqlVars

-----------------------------------------------------------------------------
(* Correctness.  The properties of GraphTaskBoard that this board keeps are *)
(* checked on it too.                                                       *)

(* The table holds task records, a connection at most one call. *)
SqlTypeOK ==
  /\ TypeOK
  /\ txn \in [Conns -> {"none", "held", "open"}]
  /\ creating \in [Conns -> Creations \cup {NotCreating}]

(* A row is never replaced: no create, not even one that raced another over *)
(* the same identifier, resets a task or moves it to another parent.        *)
RowsArePermanent ==
  [][\A t \in Known : /\ t \in DOMAIN tasks'
                      /\ tasks'[t].parent = tasks[t].parent
                      /\ tasks'[t].deps = tasks[t].deps]_sqlVars
=============================================================================
