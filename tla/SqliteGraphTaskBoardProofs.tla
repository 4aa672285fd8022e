--------------------- MODULE SqliteGraphTaskBoardProofs ---------------------
(***************************************************************************)
(* Theorems about SqliteGraphTaskBoard, for any number of connections,     *)
(* tasks and agents: what the in-memory board keeps within one process the *)
(* SQLite board keeps across processes, failed creates and restarts.       *)
(***************************************************************************)
EXTENDS SqliteGraphTaskBoard, GraphTaskBoardProofs

(* Types of what the connections hold. *)
ConnsOK ==
  /\ txn \in [Conns -> {"none", "held", "open"}]
  /\ creating \in [Conns -> Creations \cup {NotCreating}]

-----------------------------------------------------------------------------
(* How a step changes the table: not at all, as a completion or an edit of  *)
(* the in-memory board, by a claim, or by a row under a fresh key.          *)

Claims(t, a) ==
  /\ t \in Known
  /\ tasks[t].checkout = NoAgent
  /\ Put(t, [tasks[t] EXCEPT !.checkout = a, !.status = "in_progress"])
Inserts(t, p, ds) == t \notin Known /\ Put(t, NewTask(p, ds))
Updates(t) ==
  CompleteTask(t) \/ (\E reason \in Reasons : BlockTask(t, reason)) \/ UnblockTask(t) \/ CancelTask(t)

LEMMA SqlStepShape ==
  ASSUME ConnsOK, [SqlNext]_sqlVars
  PROVE  \/ UNCHANGED tasks
         \/ \E t \in Tasks : Updates(t)
         \/ \E t \in Tasks, a \in Agents : Claims(t, a)
         \/ \E t \in Tasks, p \in Tasks \cup {NoTask}, ds \in DepSets : Inserts(t, p, ds)
<1>1. ASSUME NEW c \in Conns, CreateInserts(c)
      PROVE  \E t \in Tasks, p \in Tasks \cup {NoTask}, ds \in DepSets : Inserts(t, p, ds)
  <2>1. creating[c] \in Creations
    BY <1>1 DEF CreateInserts, ConnsOK
  <2>2. creating[c].task \in Tasks /\ creating[c].parent \in Tasks \cup {NoTask}
        /\ creating[c].deps \in DepSets
    BY <2>1 DEF Creations
  <2>3. Inserts(creating[c].task, creating[c].parent, creating[c].deps)
    BY <1>1 DEF CreateInserts, Inserts
  <2>4. QED
    BY <2>2, <2>3
<1>2. ASSUME NEW c \in Conns,
             CreateDuplicate(c) \/ CreateLocked(c) \/ UpdateRollsBack(c) \/ Restart(c)
      PROVE  UNCHANGED tasks
  BY <1>2 DEF CreateDuplicate, CreateLocked, UpdateRollsBack, Restart
<1>3. ASSUME NEW c \in Conns, NEW t \in Tasks, NEW p \in Tasks \cup {NoTask}, NEW ds \in DepSets,
             CreateReads(c, t, p, ds)
      PROVE  UNCHANGED tasks
  BY <1>3 DEF CreateReads
<1>4. ASSUME NEW c \in Conns, NEW t \in Tasks, NEW a \in Agents, SqlCheckout(c, t, a)
      PROVE  Claims(t, a)
  BY <1>4 DEF SqlCheckout, Claims
<1>5. ASSUME NEW c \in Conns, NEW t \in Tasks,
             \/ SqlComplete(c, t)
             \/ \E reason \in Reasons : SqlBlock(c, t, reason)
             \/ SqlUnblock(c, t)
             \/ SqlCancel(c, t)
      PROVE  Updates(t)
  BY <1>5 DEF SqlComplete, SqlBlock, SqlUnblock, SqlCancel, Updates
<1>6. UNCHANGED sqlVars => UNCHANGED tasks
  BY DEF sqlVars
<1>7. QED
  BY <1>1, <1>2, <1>3, <1>4, <1>5, <1>6 DEF SqlNext

(* An update is a step of the in-memory board. *)
LEMMA UpdateIsStep == ASSUME NEW t \in Tasks, Updates(t) PROVE Next
BY DEF Updates, Next

(* A claim, field by field. *)
LEMMA ClaimShape ==
  ASSUME TypeOK, NEW t \in Tasks, NEW a \in Agents, Claims(t, a)
  PROVE  /\ TypeOK' /\ Known' = Known
         /\ \A u \in Known : u # t => Same(u)
         /\ tasks[t].checkout = NoAgent
         /\ tasks'[t].checkout = a /\ tasks'[t].status = "in_progress"
         /\ tasks'[t].parent = tasks[t].parent /\ tasks'[t].deps = tasks[t].deps
         /\ tasks'[t].reason = tasks[t].reason /\ tasks'[t].progress = tasks[t].progress
<1> DEFINE item == [tasks[t] EXCEPT !.checkout = a, !.status = "in_progress"]
<1>1. t \in Known /\ tasks[t].checkout = NoAgent /\ Put(t, item)
  BY DEF Claims
<1>2. tasks[t] \in GraphTaskItem
  BY <1>1 DEF TypeOK
<1>3. /\ item \in GraphTaskItem
      /\ item.checkout = a /\ item.status = "in_progress" /\ item.parent = tasks[t].parent
      /\ item.deps = tasks[t].deps /\ item.reason = tasks[t].reason
      /\ item.progress = tasks[t].progress
  BY <1>2 DEF GraphTaskItem, Status
<1> HIDE DEF item
<1>4. QED
  BY <1>1, <1>3, PutEffect DEF Same

(* A row under a fresh key, field by field. *)
LEMMA InsertShape ==
  ASSUME TypeOK, NEW t \in Tasks, NEW p \in Tasks \cup {NoTask}, NEW ds \in DepSets,
         Inserts(t, p, ds)
  PROVE  /\ TypeOK' /\ Known' = Known \cup {t} /\ t \notin Known
         /\ \A u \in Known : Same(u)
         /\ tasks'[t].status = "todo" /\ tasks'[t].checkout = NoAgent
<1>1. NewTask(p, ds) \in GraphTaskItem
  BY BoardAssumption DEF NewTask, GraphTaskItem, Status, Progress, Reasons
<1>2. NewTask(p, ds).status = "todo" /\ NewTask(p, ds).checkout = NoAgent
  BY DEF NewTask
<1>3. t \notin Known /\ Put(t, NewTask(p, ds))
  BY DEF Inserts
<1>4. QED
  BY <1>1, <1>2, <1>3, PutEffect DEF Same

-----------------------------------------------------------------------------
(* The types, and the checkouts.                                            *)

LEMMA StepConns == ConnsOK /\ [SqlNext]_sqlVars => ConnsOK'
<1> SUFFICES ASSUME ConnsOK, [SqlNext]_sqlVars PROVE ConnsOK'
  OBVIOUS
<1> USE DEF ConnsOK
<1>1. ASSUME NEW c \in Conns,
             CreateInserts(c) \/ CreateDuplicate(c) \/ CreateLocked(c) \/ UpdateRollsBack(c) \/ Restart(c)
      PROVE  ConnsOK'
  BY <1>1 DEF CreateInserts, CreateDuplicate, CreateLocked, UpdateRollsBack, Restart
<1>2. ASSUME NEW c \in Conns, NEW t \in Tasks, NEW p \in Tasks \cup {NoTask}, NEW ds \in DepSets,
             CreateReads(c, t, p, ds)
      PROVE  ConnsOK'
  <2>1. [task |-> t, parent |-> p, deps |-> ds] \in Creations
    BY DEF Creations
  <2>2. QED
    BY <1>2, <2>1 DEF CreateReads
<1>3. ASSUME NEW c \in Conns, NEW t \in Tasks,
             \/ \E a \in Agents : SqlCheckout(c, t, a)
             \/ SqlComplete(c, t)
             \/ \E reason \in Reasons : SqlBlock(c, t, reason)
             \/ SqlUnblock(c, t)
             \/ SqlCancel(c, t)
      PROVE  UNCHANGED <<txn, creating>>
  BY <1>3 DEF Immediate, SqlCheckout, SqlComplete, SqlBlock, SqlUnblock, SqlCancel
<1>4. CASE UNCHANGED sqlVars
  BY <1>4 DEF sqlVars
<1>5. QED
  BY <1>1, <1>2, <1>3, <1>4 DEF SqlNext

SqlInv == TypeOK /\ ConnsOK /\ CheckoutAgreesWithStatus

LEMMA SqlStepInv == SqlInv /\ [SqlNext]_sqlVars => SqlInv'
<1> SUFFICES ASSUME TypeOK, ConnsOK, CheckoutAgreesWithStatus, [SqlNext]_sqlVars
             PROVE  TypeOK' /\ CheckoutAgreesWithStatus'
  BY StepConns DEF SqlInv
<1>1. ASSUME NEW t \in Tasks, Updates(t)
      PROVE  TypeOK' /\ CheckoutAgreesWithStatus'
  <2>1. TypeOK'
    BY <1>1, UpdateIsStep, StepTyped
  <2>2. CASE \E u \in Tasks : CompleteTask(u)
    BY <2>1, <2>2, CompleteShape DEF CheckoutAgreesWithStatus
  <2>3. ASSUME NEW u \in Tasks, Edits(u)
        PROVE  CheckoutAgreesWithStatus'
    <3>1. /\ tasks'[u].status = "in_progress" => tasks'[u].checkout # NoAgent
          /\ tasks'[u].status \in {"todo", "blocked", "cancelled"} => tasks'[u].checkout = NoAgent
      BY <2>3, BoardAssumption DEF Edits, Open, CheckoutAgreesWithStatus
    <3>2. Known' = Known /\ \A v \in Known : v # u => tasks'[v] = tasks[v]
      BY <2>3 DEF Edits, Same
    <3>3. QED
      BY <3>1, <3>2 DEF CheckoutAgreesWithStatus
  <2>4. CASE \E u \in Tasks, p \in Tasks \cup {NoTask}, ds \in DepSets : CreateTask(u, p, ds)
    <3>1. PICK u \in Tasks, p \in Tasks \cup {NoTask}, ds \in DepSets : CreateTask(u, p, ds)
      BY <2>4
    <3>2. /\ Known' = Known \cup {u}
          /\ tasks'[u].status = "todo" /\ tasks'[u].checkout = NoAgent
          /\ \A v \in Known : v # u => tasks'[v] = tasks[v]
      BY <3>1, CreateShape DEF Same
    <3>3. QED
      BY <2>1, <3>2 DEF CheckoutAgreesWithStatus
  <2>5. QED
    BY <1>1, <2>1, <2>2, <2>3, <2>4, UpdateIsStep, StepShape
<1>2. ASSUME NEW t \in Tasks, NEW a \in Agents, Claims(t, a)
      PROVE  TypeOK' /\ CheckoutAgreesWithStatus'
  <2>1. a # NoAgent
    BY BoardAssumption
  <2>2. QED
    BY <1>2, <2>1, ClaimShape DEF CheckoutAgreesWithStatus, Same
<1>3. ASSUME NEW t \in Tasks, NEW p \in Tasks \cup {NoTask}, NEW ds \in DepSets, Inserts(t, p, ds)
      PROVE  TypeOK' /\ CheckoutAgreesWithStatus'
  BY <1>3, InsertShape DEF CheckoutAgreesWithStatus, Same
<1>4. CASE UNCHANGED tasks
  BY <1>4 DEF TypeOK, CheckoutAgreesWithStatus, Known
<1>5. QED
  BY <1>1, <1>2, <1>3, <1>4, SqlStepShape

LEMMA SqlInvHolds == SqlSpec => []SqlInv
<1>1. SqlInit => SqlInv
  BY DEF SqlInit, Init, SqlInv, TypeOK, Known, ConnsOK, CheckoutAgreesWithStatus
<1>2. QED
  BY <1>1, SqlStepInv, PTL DEF SqlSpec

(* The table holds task records, a connection at most one call. *)
THEOREM SqlTypeCorrect == SqlSpec => []SqlTypeOK
<1>1. SqlInv => SqlTypeOK
  BY DEF SqlInv, SqlTypeOK, ConnsOK
<1>2. QED
  BY <1>1, SqlInvHolds, PTL

(* Whichever connections claim, block, complete and cancel, and although a  *)
(* claim does not read the status: a task in progress has its agent, one    *)
(* that is open to others, blocked or cancelled has none.                   *)
THEOREM SqlCheckoutCorrect == SqlSpec => []CheckoutAgreesWithStatus
<1>1. SqlInv => CheckoutAgreesWithStatus
  BY DEF SqlInv
<1>2. QED
  BY <1>1, SqlInvHolds, PTL

-----------------------------------------------------------------------------
(* What a step may never do.                                                *)

(* No connection takes a task that an agent holds, in another process or in *)
(* a transaction left open.                                                 *)
THEOREM SqlCheckoutNotStolen == SqlSpec => NoStolenCheckout
<1>1. ASSUME SqlInv, [SqlNext]_sqlVars, NEW t \in Known, tasks[t].checkout # NoAgent
      PROVE  tasks'[t].checkout \in {tasks[t].checkout, NoAgent}
  <2> USE DEF SqlInv, Same
  <2>1. ASSUME NEW u \in Tasks, Updates(u)
        PROVE  tasks'[t].checkout \in {tasks[t].checkout, NoAgent}
    <3>1. ASSUME NEW v \in Tasks, NEW p \in Tasks \cup {NoTask}, NEW ds \in DepSets,
                 CreateTask(v, p, ds)
          PROVE  tasks'[t].checkout \in {tasks[t].checkout, NoAgent}
      BY <1>1, <3>1, CreateShape
    <3>2. ASSUME NEW v \in Tasks, CompleteTask(v)
          PROVE  tasks'[t].checkout \in {tasks[t].checkout, NoAgent}
      BY <1>1, <3>2, CompleteShape
    <3>3. ASSUME NEW v \in Tasks, Edits(v)
          PROVE  tasks'[t].checkout \in {tasks[t].checkout, NoAgent}
      BY <1>1, <3>3 DEF Edits
    <3>4. QED
      BY <1>1, <2>1, <3>1, <3>2, <3>3, UpdateIsStep, StepShape
  <2>2. ASSUME NEW u \in Tasks, NEW a \in Agents, Claims(u, a)
        PROVE  tasks'[t].checkout \in {tasks[t].checkout, NoAgent}
    BY <1>1, <2>2, ClaimShape
  <2>3. ASSUME NEW u \in Tasks, NEW p \in Tasks \cup {NoTask}, NEW ds \in DepSets,
               Inserts(u, p, ds)
        PROVE  tasks'[t].checkout \in {tasks[t].checkout, NoAgent}
    BY <1>1, <2>3, InsertShape
  <2>4. QED
    BY <1>1, <2>1, <2>2, <2>3, SqlStepShape
<1>2. SqlInv /\ [SqlNext]_sqlVars
        => [\A t \in Known :
              tasks[t].checkout # NoAgent
                => tasks'[t].checkout \in {tasks[t].checkout, NoAgent}]_tasks
  BY <1>1
<1>3. QED
  BY <1>2, SqlInvHolds, PTL DEF SqlSpec, NoStolenCheckout

(* An update keeps every row's parent and dependencies. *)
LEMMA UpdateKeepsRows ==
  ASSUME TypeOK, NEW u \in Tasks, Updates(u), NEW t \in Known
  PROVE  t \in Known' /\ tasks'[t].parent = tasks[t].parent /\ tasks'[t].deps = tasks[t].deps
<1>0. tasks[t] \in GraphTaskItem
  BY DEF TypeOK
<1>1. ASSUME NEW item, u \in Known, Put(u, item),
             item.parent = tasks[u].parent, item.deps = tasks[u].deps
      PROVE  t \in Known' /\ tasks'[t].parent = tasks[t].parent /\ tasks'[t].deps = tasks[t].deps
  BY <1>1, PutEffect
<1>2. u \in Known /\ tasks[u] \in GraphTaskItem
  BY DEF Updates, CompleteTask, BlockTask, UnblockTask, CancelTask, TypeOK
<1>3. CASE CompleteTask(u)
  BY <1>2, <1>3, CompletedFields, CompleteShape DEF CompleteTask
<1>4. ASSUME NEW reason \in Reasons, BlockTask(u, reason)
      PROVE  t \in Known' /\ tasks'[t].parent = tasks[t].parent /\ tasks'[t].deps = tasks[t].deps
  <2> DEFINE item == [tasks[u] EXCEPT !.status = "blocked", !.reason = reason, !.checkout = NoAgent]
  <2>1. item.parent = tasks[u].parent /\ item.deps = tasks[u].deps
    BY <1>2 DEF GraphTaskItem
  <2>2. Put(u, item)
    BY <1>4 DEF BlockTask
  <2> HIDE DEF item
  <2>3. QED
    BY <1>1, <1>2, <2>1, <2>2
<1>5. CASE UnblockTask(u)
  <2> DEFINE item == [tasks[u] EXCEPT !.status = "todo", !.reason = ""]
  <2>1. item.parent = tasks[u].parent /\ item.deps = tasks[u].deps
    BY <1>2 DEF GraphTaskItem
  <2>2. Put(u, item)
    BY <1>5 DEF UnblockTask
  <2> HIDE DEF item
  <2>3. QED
    BY <1>1, <1>2, <2>1, <2>2
<1>6. CASE CancelTask(u)
  <2> DEFINE item == [tasks[u] EXCEPT !.status = "cancelled", !.checkout = NoAgent]
  <2>1. item.parent = tasks[u].parent /\ item.deps = tasks[u].deps
    BY <1>2 DEF GraphTaskItem
  <2>2. Put(u, item)
    BY <1>6 DEF CancelTask
  <2> HIDE DEF item
  <2>3. QED
    BY <1>1, <1>2, <2>1, <2>2
<1>7. QED
  BY <1>3, <1>4, <1>5, <1>6 DEF Updates

(* A row is never replaced, whichever creates race over its key. *)
THEOREM RowsPermanentCorrect == SqlSpec => RowsArePermanent
<1>1. ASSUME SqlInv, [SqlNext]_sqlVars, NEW t \in Known
      PROVE  /\ t \in DOMAIN tasks'
             /\ tasks'[t].parent = tasks[t].parent
             /\ tasks'[t].deps = tasks[t].deps
  <2> USE DEF SqlInv, Same
  <2>1. ASSUME NEW u \in Tasks, Updates(u)
        PROVE  t \in Known' /\ tasks'[t].parent = tasks[t].parent /\ tasks'[t].deps = tasks[t].deps
    BY <1>1, <2>1, UpdateKeepsRows
  <2>2. ASSUME NEW u \in Tasks, NEW a \in Agents, Claims(u, a)
        PROVE  t \in Known' /\ tasks'[t].parent = tasks[t].parent /\ tasks'[t].deps = tasks[t].deps
    BY <1>1, <2>2, ClaimShape
  <2>3. ASSUME NEW u \in Tasks, NEW p \in Tasks \cup {NoTask}, NEW ds \in DepSets,
               Inserts(u, p, ds)
        PROVE  t \in Known' /\ tasks'[t].parent = tasks[t].parent /\ tasks'[t].deps = tasks[t].deps
    BY <1>1, <2>3, InsertShape
  <2>4. CASE UNCHANGED tasks
    BY <2>4 DEF Known
  <2>5. QED
    BY <1>1, <2>1, <2>2, <2>3, <2>4, SqlStepShape DEF Known
<1>2. SqlInv /\ [SqlNext]_sqlVars
        => [\A t \in Known : /\ t \in DOMAIN tasks'
                             /\ tasks'[t].parent = tasks[t].parent
                             /\ tasks'[t].deps = tasks[t].deps]_sqlVars
  BY <1>1
<1>3. QED
  BY <1>2, SqlInvHolds, PTL DEF SqlSpec, RowsArePermanent

(* A completion settles the whole chain of parents, as one transaction of   *)
(* one connection: no other connection and no restart sees half of it.      *)
THEOREM SqlCompletionSettlesCorrect == SqlSpec => CompletionSettlesParents
<1>1. ASSUME SqlInv, [SqlNext]_sqlVars, NEW u \in NewlyDone
      PROVE  LET p == tasks[u].parent
             IN  p \in Known /\ Children(p) \subseteq Done' => p \in Done'
  <2> USE DEF SqlInv
  <2>1. ASSUME NEW t \in Tasks, Updates(t)
        PROVE  LET p == tasks[u].parent
               IN  p \in Known /\ Children(p) \subseteq Done' => p \in Done'
    BY <1>1, <2>1, UpdateIsStep, StepSettles
  <2>2. ASSUME NEW t \in Tasks, NEW a \in Agents, Claims(t, a)
        PROVE  FALSE
    BY <1>1, <2>2, ClaimShape DEF NewlyDone, Done, Same
  <2>3. ASSUME NEW t \in Tasks, NEW p \in Tasks \cup {NoTask}, NEW ds \in DepSets,
               Inserts(t, p, ds)
        PROVE  FALSE
    BY <1>1, <2>3, InsertShape DEF NewlyDone, Done, Same
  <2>4. CASE UNCHANGED tasks
    BY <1>1, <2>4 DEF NewlyDone, Done, Known
  <2>5. QED
    BY <1>1, <2>1, <2>2, <2>3, <2>4, SqlStepShape
<1>2. SqlInv /\ [SqlNext]_sqlVars
        => [\A u \in NewlyDone :
              LET p == tasks[u].parent
              IN  p \in Known /\ Children(p) \subseteq Done' => p \in Done']_tasks
  BY <1>1
<1>3. QED
  BY <1>2, SqlInvHolds, PTL DEF SqlSpec, CompletionSettlesParents
=============================================================================
