------------------------ MODULE GraphTaskBoardProofs ------------------------
(***************************************************************************)
(* Theorems about GraphTaskBoard for every set of tasks and agents.        *)
(***************************************************************************)
EXTENDS GraphTaskBoard, TLAPS

(* A completion keeps the board's tasks and touches only status and         *)
(* progress; the status it may set is "done".                               *)
LEMMA CompletedFields ==
  ASSUME TypeOK, NEW t \in Known
  PROVE  /\ Completed(t) \in [Known -> GraphTaskItem]
         /\ \A u \in Known :
              /\ Completed(t)[u].parent = tasks[u].parent
              /\ Completed(t)[u].deps = tasks[u].deps
              /\ Completed(t)[u].checkout = tasks[u].checkout
              /\ Completed(t)[u].reason = tasks[u].reason
              /\ Completed(t)[u].status = IF u \in DoneAfter(t) THEN "done" ELSE tasks[u].status
              /\ Completed(t)[u].progress = "full" => u \in FullAfter(t) \/ tasks[u].progress = "full"
  BY DEF TypeOK, Completed, GraphTaskItem, Status, Progress

(* What storing a task leaves behind. *)
LEMMA PutEffect ==
  ASSUME TypeOK, NEW t \in Tasks, NEW item, Put(t, item)
  PROVE  /\ Known' = Known \cup {t}
         /\ tasks'[t] = item
         /\ \A u \in Known : u # t => tasks'[u] = tasks[u]
         /\ item \in GraphTaskItem => TypeOK'
<1>1. tasks' = [u \in Known \cup {t} |-> IF u = t THEN item ELSE tasks[u]]
  BY DEF Put
<1>2. DOMAIN tasks' = Known \cup {t}
  BY <1>1
<1>3. Known' = Known \cup {t}
  BY <1>2 DEF Known
<1>4. ASSUME item \in GraphTaskItem
      PROVE  tasks' \in [Known' -> GraphTaskItem]
  BY <1>1, <1>3, <1>4 DEF TypeOK
<1>5. QED
  BY <1>1, <1>3, <1>4 DEF TypeOK

(* Every operation stores records of the right type.                        *)
LEMMA StepTyped == TypeOK /\ [Next]_tasks => TypeOK'
<1> SUFFICES ASSUME TypeOK, [Next]_tasks
             PROVE  TypeOK'
  OBVIOUS
<1>0. \A t \in Known : tasks[t] \in GraphTaskItem
  BY DEF TypeOK
<1>1. ASSUME NEW t \in Tasks, NEW p \in Tasks \cup {NoTask}, NEW ds \in DepSets,
             CreateTask(t, p, ds)
      PROVE  TypeOK'
  <2>1. NewTask(p, ds) \in GraphTaskItem
    BY BoardAssumption DEF NewTask, GraphTaskItem, Status, Progress, Reasons
  <2>2. QED
    BY <1>1, <2>1, PutEffect DEF CreateTask
<1>2. ASSUME NEW t \in Tasks, NEW a \in Agents, CheckoutTask(t, a)
      PROVE  TypeOK'
  <2>1. [tasks[t] EXCEPT !.checkout = a, !.status = "in_progress"] \in GraphTaskItem
    BY <1>0, <1>2 DEF CheckoutTask, GraphTaskItem, Status
  <2>2. QED
    BY <1>2, <2>1, PutEffect DEF CheckoutTask
<1>3. ASSUME NEW t \in Tasks, CompleteTask(t)
      PROVE  TypeOK'
  <2>1. tasks' \in [Known -> GraphTaskItem]
    BY <1>3, CompletedFields DEF CompleteTask
  <2>2. DOMAIN tasks' = Known
    BY <2>1
  <2>3. QED
    BY <2>1, <2>2 DEF TypeOK, Known
<1>4. ASSUME NEW t \in Tasks, NEW reason \in Reasons, BlockTask(t, reason)
      PROVE  TypeOK'
  <2>1. [tasks[t] EXCEPT !.status = "blocked", !.reason = reason, !.checkout = NoAgent]
          \in GraphTaskItem
    BY <1>0, <1>4 DEF BlockTask, GraphTaskItem, Status
  <2>2. QED
    BY <1>4, <2>1, PutEffect DEF BlockTask
<1>5. ASSUME NEW t \in Tasks, UnblockTask(t)
      PROVE  TypeOK'
  <2>1. [tasks[t] EXCEPT !.status = "todo", !.reason = ""] \in GraphTaskItem
    BY <1>0, <1>5 DEF UnblockTask, GraphTaskItem, Status, Reasons
  <2>2. QED
    BY <1>5, <2>1, PutEffect DEF UnblockTask
<1>6. ASSUME NEW t \in Tasks, CancelTask(t)
      PROVE  TypeOK'
  <2>1. [tasks[t] EXCEPT !.status = "cancelled", !.checkout = NoAgent] \in GraphTaskItem
    BY <1>0, <1>6 DEF CancelTask, GraphTaskItem, Status
  <2>2. QED
    BY <1>6, <2>1, PutEffect DEF CancelTask
<1>7. CASE UNCHANGED tasks
  BY <1>7 DEF TypeOK, Known
<1>8. QED
  BY <1>1, <1>2, <1>3, <1>4, <1>5, <1>6, <1>7 DEF Next

(* Type correctness of the board. *)
THEOREM BoardTypeCorrect == Spec => []TypeOK
<1>1. Init => TypeOK
  BY DEF Init, TypeOK, Known
<1>2. QED
  BY <1>1, StepTyped, PTL DEF Spec

-----------------------------------------------------------------------------
(* How a step changes the board, for the invariants that follow.            *)

Same(u) == tasks'[u] = tasks[u]

(* The steps of checkout_task, block_task, unblock_task and cancel_task     *)
(* replace the status, the checkout and the reason of one task.             *)
Edits(t) ==
  /\ t \in Known
  /\ Known' = Known
  /\ \A u \in Known : u # t => Same(u)
  /\ tasks'[t].parent = tasks[t].parent
  /\ tasks'[t].progress = tasks[t].progress
  /\ tasks[t].status \in {"todo", "in_progress", "blocked"}
  /\ \/ /\ tasks[t].status \in Open /\ tasks[t].checkout = NoAgent
        /\ tasks'[t].status = "in_progress" /\ tasks'[t].checkout \in Agents
        /\ tasks'[t].reason = tasks[t].reason
     \/ /\ tasks[t].status \in Open
        /\ tasks'[t].status = "blocked" /\ tasks'[t].checkout = NoAgent
        /\ tasks'[t].reason # ""
     \/ /\ tasks[t].status = "blocked"
        /\ tasks'[t].status = "todo" /\ tasks'[t].checkout = tasks[t].checkout
        /\ tasks'[t].reason = ""
     \/ /\ tasks[t].status \in Open
        /\ tasks'[t].status = "cancelled" /\ tasks'[t].checkout = NoAgent
        /\ tasks'[t].reason = tasks[t].reason

(* A step is a create_task, a complete_task or an edit of one task.         *)
LEMMA StepShape ==
  ASSUME TypeOK, Next
  PROVE  \/ \E t \in Tasks, p \in Tasks \cup {NoTask}, ds \in DepSets : CreateTask(t, p, ds)
         \/ \E t \in Tasks : CompleteTask(t)
         \/ \E t \in Tasks : Edits(t)
<1>0. \A t \in Known : tasks[t] \in GraphTaskItem
  BY DEF TypeOK
<1>1. ASSUME NEW t \in Tasks, NEW a \in Agents, CheckoutTask(t, a)
      PROVE  Edits(t)
  <2> DEFINE item == [tasks[t] EXCEPT !.checkout = a, !.status = "in_progress"]
  <2>1. t \in Known /\ Put(t, item)
    BY <1>1 DEF CheckoutTask
  <2>2. Known' = Known /\ tasks'[t] = item /\ \A u \in Known : u # t => Same(u)
    BY <2>1, PutEffect DEF Same
  <2>3. /\ item.parent = tasks[t].parent /\ item.progress = tasks[t].progress
        /\ item.status = "in_progress" /\ item.checkout = a /\ item.reason = tasks[t].reason
    BY <1>0, <2>1 DEF GraphTaskItem
  <2> HIDE DEF item
  <2>4. QED
    BY <1>1, <2>1, <2>2, <2>3 DEF CheckoutTask, Edits, Open
<1>2. ASSUME NEW t \in Tasks, NEW reason \in Reasons, BlockTask(t, reason)
      PROVE  Edits(t)
  <2> DEFINE item == [tasks[t] EXCEPT !.status = "blocked", !.reason = reason,
                                           !.checkout = NoAgent]
  <2>1. t \in Known /\ Put(t, item)
    BY <1>2 DEF BlockTask
  <2>2. Known' = Known /\ tasks'[t] = item /\ \A u \in Known : u # t => Same(u)
    BY <2>1, PutEffect DEF Same
  <2>3. /\ item.parent = tasks[t].parent /\ item.progress = tasks[t].progress
        /\ item.status = "blocked" /\ item.checkout = NoAgent /\ item.reason = reason
    BY <1>0, <2>1 DEF GraphTaskItem
  <2> HIDE DEF item
  <2>4. QED
    BY <1>2, <2>1, <2>2, <2>3 DEF BlockTask, Edits, Open
<1>3. ASSUME NEW t \in Tasks, UnblockTask(t)
      PROVE  Edits(t)
  <2> DEFINE item == [tasks[t] EXCEPT !.status = "todo", !.reason = ""]
  <2>1. t \in Known /\ Put(t, item)
    BY <1>3 DEF UnblockTask
  <2>2. Known' = Known /\ tasks'[t] = item /\ \A u \in Known : u # t => Same(u)
    BY <2>1, PutEffect DEF Same
  <2>3. /\ item.parent = tasks[t].parent /\ item.progress = tasks[t].progress
        /\ item.status = "todo" /\ item.checkout = tasks[t].checkout /\ item.reason = ""
    BY <1>0, <2>1 DEF GraphTaskItem
  <2> HIDE DEF item
  <2>4. QED
    BY <1>3, <2>1, <2>2, <2>3 DEF UnblockTask, Edits, Open
<1>4. ASSUME NEW t \in Tasks, CancelTask(t)
      PROVE  Edits(t)
  <2> DEFINE item == [tasks[t] EXCEPT !.status = "cancelled", !.checkout = NoAgent]
  <2>1. t \in Known /\ Put(t, item)
    BY <1>4 DEF CancelTask
  <2>2. Known' = Known /\ tasks'[t] = item /\ \A u \in Known : u # t => Same(u)
    BY <2>1, PutEffect DEF Same
  <2>3. /\ item.parent = tasks[t].parent /\ item.progress = tasks[t].progress
        /\ item.status = "cancelled" /\ item.checkout = NoAgent /\ item.reason = tasks[t].reason
    BY <1>0, <2>1 DEF GraphTaskItem
  <2> HIDE DEF item
  <2>4. QED
    BY <1>4, <2>1, <2>2, <2>3 DEF CancelTask, Edits, Open
<1>5. QED
  BY <1>1, <1>2, <1>3, <1>4 DEF Next

(* The step of complete_task, field by field. *)
LEMMA CompleteShape ==
  ASSUME TypeOK, NEW t \in Tasks, CompleteTask(t)
  PROVE  /\ t \in Known
         /\ tasks[t].status = "in_progress"
         /\ Known' = Known
         /\ Done' = DoneAfter(t)
         /\ \A u \in Known :
              /\ tasks'[u].parent = tasks[u].parent
              /\ tasks'[u].checkout = tasks[u].checkout
              /\ tasks'[u].reason = tasks[u].reason
              /\ tasks'[u].status = IF u \in DoneAfter(t) THEN "done" ELSE tasks[u].status
              /\ tasks'[u].progress = "full" => u \in FullAfter(t) \/ tasks[u].progress = "full"
<1>1. /\ t \in Known
      /\ tasks[t].status = "in_progress"
      /\ tasks' = Completed(t)
  BY DEF CompleteTask
<1>2. tasks' \in [Known -> GraphTaskItem]
  BY <1>1, CompletedFields
<1>3. Known' = Known
  BY <1>2 DEF Known
<1>4. \A u \in Known : tasks'[u].status = IF u \in DoneAfter(t) THEN "done" ELSE tasks[u].status
  BY <1>1, CompletedFields
<1>5. Done \subseteq DoneAfter(t)
  BY DEF DoneAfter, DoneClosed, Done
<1>6. Done' = {u \in Known : tasks'[u].status = "done"}
  BY <1>3 DEF Done
<1>7. Done' = DoneAfter(t)
  BY <1>4, <1>5, <1>6 DEF Done, DoneAfter
<1>8. QED
  BY <1>1, <1>3, <1>7, CompletedFields

(* A stored task: the effect of create_task. *)
LEMMA CreateShape ==
  ASSUME TypeOK, NEW t \in Tasks, NEW p \in Tasks \cup {NoTask}, NEW ds \in DepSets,
         CreateTask(t, p, ds)
  PROVE  /\ Known' = Known \cup {t}
         /\ tasks'[t] = NewTask(p, ds)
         /\ tasks'[t].status = "todo" /\ tasks'[t].checkout = NoAgent
         /\ tasks'[t].reason = "" /\ tasks'[t].progress = "none"
         /\ tasks'[t].parent = p
         /\ \A u \in Known : u # t => Same(u)
<1>1. Put(t, NewTask(p, ds))
  BY DEF CreateTask
<1>2. /\ Known' = Known \cup {t}
      /\ tasks'[t] = NewTask(p, ds)
      /\ \A u \in Known : u # t => Same(u)
  BY <1>1, PutEffect DEF Same
<1>3. /\ NewTask(p, ds).status = "todo" /\ NewTask(p, ds).checkout = NoAgent
      /\ NewTask(p, ds).reason = "" /\ NewTask(p, ds).progress = "none"
      /\ NewTask(p, ds).parent = p
  BY DEF NewTask
<1>4. QED
  BY <1>2, <1>3

-----------------------------------------------------------------------------
(* The checkout and the blocked reason.                                     *)

CheckoutInv == CheckoutAgreesWithStatus /\ ReasonAgreesWithStatus

(* Every operation keeps checkout, reason and status in agreement.          *)
LEMMA StepCheckout == TypeOK /\ CheckoutInv /\ [Next]_tasks => CheckoutInv'
<1> SUFFICES ASSUME TypeOK, CheckoutInv, [Next]_tasks
             PROVE  CheckoutInv'
  OBVIOUS
<1> USE DEF CheckoutInv, CheckoutAgreesWithStatus, ReasonAgreesWithStatus
<1>1. ASSUME NEW t \in Tasks, NEW p \in Tasks \cup {NoTask}, NEW ds \in DepSets,
             CreateTask(t, p, ds)
      PROVE  CheckoutInv'
  <2>1. /\ Known' = Known \cup {t}
        /\ tasks'[t].status = "todo" /\ tasks'[t].checkout = NoAgent /\ tasks'[t].reason = ""
        /\ \A u \in Known : u # t => Same(u)
    BY <1>1, CreateShape
  <2>2. QED
    BY <2>1 DEF Same
<1>2. ASSUME NEW t \in Tasks, CompleteTask(t)
      PROVE  CheckoutInv'
  <2>1. /\ Known' = Known
        /\ \A u \in Known : /\ tasks'[u].checkout = tasks[u].checkout
                           /\ tasks'[u].reason = tasks[u].reason
                           /\ tasks'[u].status \in {"done", tasks[u].status}
    BY <1>2, CompleteShape
  <2>2. QED
    BY <2>1
<1>3. ASSUME NEW t \in Tasks, Edits(t)
      PROVE  CheckoutInv'
  <2>1. /\ Known' = Known
        /\ \A u \in Known : u # t => tasks'[u] = tasks[u]
    BY <1>3 DEF Edits, Same
  <2>2. /\ tasks'[t].status = "in_progress" => tasks'[t].checkout # NoAgent
        /\ tasks'[t].status \in {"todo", "blocked", "cancelled"} => tasks'[t].checkout = NoAgent
    BY <1>3, BoardAssumption DEF Edits, Open
  <2>3. /\ tasks'[t].status = "blocked" => tasks'[t].reason # ""
        /\ tasks'[t].reason # "" => tasks'[t].status \in {"blocked", "done"}
    BY <1>3 DEF Edits, Open
  <2>4. QED
    BY <2>1, <2>2, <2>3
<1>4. CASE UNCHANGED tasks
  BY <1>4 DEF Known
<1>5. QED
  BY <1>1, <1>2, <1>3, <1>4, StepShape

(* In every reachable board the checkout and the reason agree with the      *)
(* status.                                                                  *)
THEOREM CheckoutCorrect == Spec => [](CheckoutAgreesWithStatus /\ ReasonAgreesWithStatus)
<1>1. Init => CheckoutInv
  BY DEF Init, CheckoutInv, CheckoutAgreesWithStatus, ReasonAgreesWithStatus, Known
<1>2. CheckoutInv => CheckoutAgreesWithStatus /\ ReasonAgreesWithStatus
  BY DEF CheckoutInv
<1>3. QED
  BY <1>1, <1>2, StepCheckout, BoardTypeCorrect, PTL DEF Spec

(* No step hands a held task to another agent. *)
THEOREM CheckoutNotStolen == Spec => NoStolenCheckout
<1>1. ASSUME TypeOK, [Next]_tasks, NEW t \in Known, tasks[t].checkout # NoAgent
      PROVE  tasks'[t].checkout \in {tasks[t].checkout, NoAgent}
  <2>1. ASSUME NEW u \in Tasks, NEW p \in Tasks \cup {NoTask}, NEW ds \in DepSets,
               CreateTask(u, p, ds)
        PROVE  tasks'[t].checkout \in {tasks[t].checkout, NoAgent}
    BY <1>1, <2>1, CreateShape DEF Same
  <2>2. ASSUME NEW u \in Tasks, CompleteTask(u)
        PROVE  tasks'[t].checkout \in {tasks[t].checkout, NoAgent}
    BY <1>1, <2>2, CompleteShape
  <2>3. ASSUME NEW u \in Tasks, Edits(u)
        PROVE  tasks'[t].checkout \in {tasks[t].checkout, NoAgent}
    BY <1>1, <2>3 DEF Edits, Same
  <2>4. QED
    BY <1>1, <2>1, <2>2, <2>3, StepShape
<1>2. TypeOK /\ [Next]_tasks
        => [\A t \in Known :
              tasks[t].checkout # NoAgent
                => tasks'[t].checkout \in {tasks[t].checkout, NoAgent}]_tasks
  BY <1>1
<1>3. QED
  BY <1>2, BoardTypeCorrect, PTL DEF Spec, NoStolenCheckout

-----------------------------------------------------------------------------
(* The parent links form no cycle.                                          *)

(* Steps that keep every parent link keep the links acyclic. *)
LEMMA SameParents ==
  ASSUME ParentsAcyclic, Known' = Known,
         \A u \in Known : tasks'[u].parent = tasks[u].parent
  PROVE  ParentsAcyclic'
  BY DEF ParentsAcyclic

(* A link that _validate_parent_link accepts closes no cycle.  Were C a     *)
(* cycle of the new board, its members in a parent-closed set that holds p  *)
(* and not t would be a cycle of the old one.                               *)
LEMMA ValidLinkAcyclic ==
  ASSUME TypeOK, ParentsAcyclic, NEW t \in Tasks, NEW p \in Tasks \cup {NoTask},
         NEW ds \in DepSets, CreateTask(t, p, ds)
  PROVE  ParentsAcyclic'
<1>0. /\ Known' = Known \cup {t}
      /\ tasks'[t].parent = p
      /\ \A u \in Known : u # t => tasks'[u] = tasks[u]
  BY CreateShape DEF Same
<1>1. SUFFICES ASSUME NEW C \in SUBSET Known',
                      \A u \in C : tasks'[u].parent \in C
               PROVE  C = {}
  BY DEF ParentsAcyclic
<1>2. C \subseteq Tasks /\ C \subseteq Known \cup {t} /\ NoTask \notin C
  BY <1>0, BoardAssumption DEF TypeOK
<1>3. CASE t \notin C
  <2>1. C \subseteq Known /\ \A u \in C : tasks[u].parent \in C
    BY <1>0, <1>1, <1>2, <1>3
  <2>2. QED
    BY <2>1 DEF ParentsAcyclic
<1>4. CASE t \in C
  <2>1. p \in C /\ p # NoTask
    BY <1>0, <1>1, <1>2, <1>4
  <2>2. t \notin Chain(p)
    BY DEF CreateTask, ValidParentLink
  <2>3. PICK S \in SUBSET Tasks : p \in S /\ ParentClosed(S) /\ t \notin S
    BY <2>1, <2>2 DEF Chain
  <2> DEFINE D == C \cap S
  <2>4. D \subseteq Known
    BY <1>2, <2>3
  <2>5. \A u \in D : tasks[u].parent \in D
    <3>1. TAKE u \in D
    <3>2. u # t /\ u \in Known
      BY <2>3, <2>4
    <3>3. tasks[u].parent \in C
      BY <1>0, <1>1, <3>2
    <3>4. tasks[u].parent \in S
      BY <1>2, <2>3, <3>2, <3>3 DEF ParentClosed
    <3>5. QED
      BY <3>3, <3>4
  <2>6. D = {}
    BY <2>4, <2>5 DEF ParentsAcyclic
  <2>7. QED
    BY <2>1, <2>3, <2>6
<1>5. QED
  BY <1>3, <1>4

(* No operation closes a cycle of parent links.                             *)
LEMMA StepAcyclic == TypeOK /\ ParentsAcyclic /\ [Next]_tasks => ParentsAcyclic'
<1> SUFFICES ASSUME TypeOK, ParentsAcyclic, [Next]_tasks
             PROVE  ParentsAcyclic'
  OBVIOUS
<1>1. ASSUME NEW t \in Tasks, CompleteTask(t)
      PROVE  ParentsAcyclic'
  BY <1>1, CompleteShape, SameParents
<1>2. ASSUME NEW t \in Tasks, Edits(t)
      PROVE  ParentsAcyclic'
  BY <1>2, SameParents DEF Edits, Same
<1>3. CASE UNCHANGED tasks
  BY <1>3, SameParents DEF Known
<1>4. QED
  BY <1>1, <1>2, <1>3, ValidLinkAcyclic, StepShape

(* No sequence of create_task calls makes a task its own ancestor. *)
THEOREM AcyclicCorrect == Spec => []ParentsAcyclic
<1>1. Init => ParentsAcyclic
  BY DEF Init, ParentsAcyclic, Known
<1>2. QED
  BY <1>1, StepAcyclic, BoardTypeCorrect, PTL DEF Spec

-----------------------------------------------------------------------------
(* Propagation.                                                             *)

(* DoneAfter(t) is closed under "an ancestor whose children are all DONE is *)
(* DONE", and nothing is in it without a reason.                            *)
LEMMA DoneAfterFixpoint ==
  ASSUME NEW t \in Known
  PROVE  /\ DoneClosed(t, DoneAfter(t))
         /\ \A u \in DoneAfter(t) \ (Done \cup {t}) :
              u \in Ancestors(t) /\ Children(u) \subseteq DoneAfter(t)
<1>1. DoneClosed(t, DoneAfter(t))
  <2>1. Done \cup {t} \subseteq DoneAfter(t)
    BY DEF DoneAfter, DoneClosed, Done
  <2>2. ASSUME NEW p \in Ancestors(t), Children(p) \subseteq DoneAfter(t)
        PROVE  p \in DoneAfter(t)
    BY <2>2 DEF DoneAfter, DoneClosed, Ancestors
  <2>3. QED
    BY <2>1, <2>2 DEF DoneClosed
<1>2. ASSUME NEW u \in DoneAfter(t), u \notin Done \cup {t}
      PROVE  u \in Ancestors(t) /\ Children(u) \subseteq DoneAfter(t)
  <2> DEFINE S == DoneAfter(t) \ {u}
  <2>1. S \in SUBSET Known /\ Done \cup {t} \subseteq S
    BY <1>1, <1>2 DEF DoneAfter, DoneClosed
  <2>2. ~DoneClosed(t, S)
    BY <2>1 DEF DoneAfter
  <2>3. PICK p \in Ancestors(t) : Children(p) \subseteq S /\ p \notin S
    BY <2>1, <2>2 DEF DoneClosed
  <2>4. p = u
    BY <1>1, <2>3 DEF DoneClosed
  <2>5. QED
    BY <2>3, <2>4
<1>3. QED
  BY <1>1, <1>2

(* The chain from a parent link holds its start, is closed under parents,   *)
(* and each later member is the parent of a task the board knows.           *)
LEMMA ChainFacts ==
  ASSUME TypeOK, NEW p \in Tasks
  PROVE  /\ p \in Chain(p)
         /\ \A u \in Chain(p) \cap Known : tasks[u].parent \in Chain(p) \cup {NoTask}
         /\ \A u \in Chain(p) : u # p => Children(u) # {}
<1>1. p # NoTask
  BY BoardAssumption
<1>2. Chain(p) = {u \in Tasks : \A S \in SUBSET Tasks : p \in S /\ ParentClosed(S) => u \in S}
  BY <1>1 DEF Chain
<1>3. p \in Chain(p)
  BY <1>2
<1>4. ASSUME NEW u \in Chain(p) \cap Known, tasks[u].parent # NoTask
      PROVE  tasks[u].parent \in Chain(p)
  <2>1. tasks[u].parent \in Tasks
    BY <1>4 DEF TypeOK, GraphTaskItem
  <2>2. \A S \in SUBSET Tasks : p \in S /\ ParentClosed(S) => tasks[u].parent \in S
    BY <1>2, <1>4 DEF ParentClosed
  <2>3. QED
    BY <1>2, <2>1, <2>2
<1>5. ASSUME NEW u \in Chain(p), u # p, Children(u) = {}
      PROVE  FALSE
  <2> DEFINE S == Chain(p) \ {u}
  <2>1. S \in SUBSET Tasks /\ p \in S
    BY <1>2, <1>3, <1>5
  <2>2. ParentClosed(S)
    BY <1>4, <1>5 DEF ParentClosed, Children
  <2>3. QED
    BY <1>2, <2>1, <2>2
<1>6. QED
  BY <1>3, <1>4, <1>5

(* Of the tasks a step makes DONE, at most the completed one is not a       *)
(* parent all of whose children are DONE, and every one of them has its own *)
(* parent settled.                                                          *)
LEMMA StepSettles ==
  ASSUME TypeOK, Next
  PROVE  /\ \E t \in Tasks : \A u \in NewlyDone \ {t} :
              Children(u) # {} /\ Children(u) \subseteq Done'
         /\ \A u \in NewlyDone :
              LET p == tasks[u].parent
              IN  p \in Known /\ Children(p) \subseteq Done' => p \in Done'
<1>1. ASSUME NEW t \in Tasks, CompleteTask(t)
      PROVE  /\ \A u \in NewlyDone \ {t} : Children(u) # {} /\ Children(u) \subseteq Done'
             /\ \A u \in NewlyDone : tasks[u].parent \in Known /\ Children(tasks[u].parent) \subseteq Done'
                                      => tasks[u].parent \in Done'
  <2>1. t \in Known /\ Done' = DoneAfter(t) /\ NewlyDone = DoneAfter(t) \ Done
    BY <1>1, CompleteShape DEF NewlyDone
  <2>2. tasks[t].parent \in Tasks \cup {NoTask}
    BY <2>1 DEF TypeOK, GraphTaskItem
  <2>3. ASSUME NEW u \in NewlyDone, u # t
        PROVE  u \in Ancestors(t) /\ Children(u) \subseteq Done'
    BY <2>1, <2>3, DoneAfterFixpoint
  <2>4. ASSUME NEW u \in Ancestors(t)
        PROVE  /\ tasks[t].parent \in Tasks
               /\ u \in Known /\ u \in Chain(tasks[t].parent)
               /\ Children(u) # {}
    <3>1. tasks[t].parent \in Tasks /\ u \in Known /\ u \in Chain(tasks[t].parent)
      BY <2>2 DEF Ancestors, Chain
    <3>2. CASE u = tasks[t].parent
      BY <2>1, <3>1, <3>2 DEF Children
    <3>3. CASE u # tasks[t].parent
      BY <3>1, <3>3, ChainFacts
    <3>4. QED
      BY <3>1, <3>2, <3>3
  <2>5. ASSUME NEW u \in NewlyDone, tasks[u].parent \in Known,
               Children(tasks[u].parent) \subseteq Done'
        PROVE  tasks[u].parent \in Done'
    <3>1. tasks[u].parent \in Tasks /\ tasks[u].parent # NoTask
      BY <2>5, BoardAssumption DEF TypeOK
    <3>2. tasks[u].parent \in Ancestors(t)
      <4>1. CASE u = t
        BY <2>5, <3>1, <4>1, ChainFacts DEF Ancestors
      <4>2. CASE u # t
        BY <2>3, <2>4, <2>5, <3>1, <4>2, ChainFacts DEF Ancestors
      <4>3. QED
        BY <4>1, <4>2
    <3>3. QED
      BY <2>1, <2>5, <3>2, DoneAfterFixpoint DEF DoneClosed
  <2>6. QED
    BY <2>3, <2>4, <2>5
<1>2. ASSUME NEW t \in Tasks, NEW p \in Tasks \cup {NoTask}, NEW ds \in DepSets,
             CreateTask(t, p, ds)
      PROVE  NewlyDone = {}
  <2>1. /\ Known' = Known \cup {t}
        /\ tasks'[t].status = "todo"
        /\ \A u \in Known : u # t => tasks'[u] = tasks[u]
    BY <1>2, CreateShape DEF Same
  <2>2. QED
    BY <2>1 DEF NewlyDone, Done
<1>3. ASSUME NEW t \in Tasks, Edits(t)
      PROVE  NewlyDone = {}
  <2>1. /\ Known' = Known
        /\ tasks'[t].status # "done"
        /\ \A u \in Known : u # t => tasks'[u] = tasks[u]
    BY <1>3 DEF Edits, Same
  <2>2. QED
    BY <2>1 DEF NewlyDone, Done
<1>4. CASE \E t \in Tasks : CompleteTask(t)
  BY <1>1, <1>4
<1>5. CASE NewlyDone = {} /\ Tasks # {}
  BY <1>5
<1>6. QED
  BY <1>2, <1>3, <1>4, <1>5, StepShape

(* A completion settles the whole chain of parents. *)
THEOREM CompletionSettlesCorrect == Spec => CompletionSettlesParents
<1>1. TypeOK /\ [Next]_tasks
        => [\A u \in NewlyDone :
              LET p == tasks[u].parent
              IN  p \in Known /\ Children(p) \subseteq Done' => p \in Done']_tasks
  BY StepSettles
<1>2. QED
  BY <1>1, BoardTypeCorrect, PTL DEF Spec, CompletionSettlesParents

(* A parent that follows a completion has children, all of them DONE. *)
THEOREM FollowersFinishedCorrect == Spec => OnlyFinishedParentsFollow
<1>1. TypeOK /\ [Next]_tasks
        => [\E t \in Tasks : \A u \in NewlyDone \ {t} :
              Children(u) # {} /\ Children(u) \subseteq Done']_tasks
  BY StepSettles
<1>2. QED
  BY <1>1, BoardTypeCorrect, PTL DEF Spec, OnlyFinishedParentsFollow

(* The set of tasks with progress 1.0 is the least closed set of its kind,  *)
(* and the set of DONE tasks is one of them.                                *)
LEMMA FullAfterIsDone ==
  ASSUME FullIsDone, NEW t \in Known
  PROVE  FullAfter(t) \subseteq DoneAfter(t)
<1>1. DoneClosed(t, DoneAfter(t)) /\ DoneAfter(t) \in SUBSET Known
  BY DoneAfterFixpoint DEF DoneAfter
<1>2. FullClosed(t, DoneAfter(t))
  BY <1>1 DEF FullClosed, DoneClosed, FullIsDone, Done
<1>3. QED
  BY <1>1, <1>2 DEF FullAfter

(* No operation stores progress 1.0 on a task it leaves open.               *)
LEMMA StepFullIsDone == TypeOK /\ FullIsDone /\ [Next]_tasks => FullIsDone'
<1> SUFFICES ASSUME TypeOK, FullIsDone, [Next]_tasks
             PROVE  FullIsDone'
  OBVIOUS
<1>1. ASSUME NEW t \in Tasks, NEW p \in Tasks \cup {NoTask}, NEW ds \in DepSets,
             CreateTask(t, p, ds)
      PROVE  FullIsDone'
  <2>1. /\ Known' = Known \cup {t}
        /\ tasks'[t].progress = "none"
        /\ \A u \in Known : u # t => tasks'[u] = tasks[u]
    BY <1>1, CreateShape DEF Same
  <2>2. QED
    BY <2>1 DEF FullIsDone
<1>2. ASSUME NEW t \in Tasks, CompleteTask(t)
      PROVE  FullIsDone'
  <2>1. /\ t \in Known /\ Known' = Known
        /\ \A u \in Known :
             /\ tasks'[u].status = IF u \in DoneAfter(t) THEN "done" ELSE tasks[u].status
             /\ tasks'[u].progress = "full" => u \in FullAfter(t) \/ tasks[u].progress = "full"
    BY <1>2, CompleteShape
  <2>2. FullAfter(t) \subseteq DoneAfter(t)
    BY <2>1, FullAfterIsDone
  <2>3. QED
    BY <2>1, <2>2 DEF FullIsDone
<1>3. ASSUME NEW t \in Tasks, Edits(t)
      PROVE  FullIsDone'
  BY <1>3 DEF Edits, Same, FullIsDone
<1>4. CASE UNCHANGED tasks
  BY <1>4 DEF FullIsDone, Known
<1>5. QED
  BY <1>1, <1>2, <1>3, <1>4, StepShape

(* A task whose progress is 1.0 is DONE. *)
THEOREM FullIsDoneCorrect == Spec => []FullIsDone
<1>1. Init => FullIsDone
  BY DEF Init, FullIsDone, Known
<1>2. QED
  BY <1>1, StepFullIsDone, BoardTypeCorrect, PTL DEF Spec

(* DONE is left only by storing a new task under the identifier. *)
THEOREM DoneIsFinalCorrect == Spec => DoneIsFinal
<1>1. ASSUME TypeOK, Next, NEW t \in Done
      PROVE  \/ tasks'[t].status = "done"
             \/ tasks'[t] \in {NewTask(p, ds) : p \in Tasks \cup {NoTask}, ds \in DepSets}
  <2>1. t \in Known /\ tasks[t].status = "done"
    BY DEF Done
  <2>2. ASSUME NEW u \in Tasks, NEW p \in Tasks \cup {NoTask}, NEW ds \in DepSets,
               CreateTask(u, p, ds)
        PROVE  tasks'[t].status = "done" \/ tasks'[t] = NewTask(p, ds)
    <3>1. tasks'[u] = NewTask(p, ds) /\ \A v \in Known : v # u => Same(v)
      BY <1>1, <2>2, CreateShape
    <3>2. QED
      BY <2>1, <3>1 DEF Same
  <2>3. ASSUME NEW u \in Tasks, CompleteTask(u)
        PROVE  tasks'[t].status = "done"
    BY <1>1, <2>1, <2>3, CompleteShape
  <2>4. ASSUME NEW u \in Tasks, Edits(u)
        PROVE  tasks'[t].status = "done"
    BY <2>1, <2>4 DEF Edits, Same
  <2>5. QED
    BY <1>1, <2>2, <2>3, <2>4, StepShape
<1>2. TypeOK /\ [Next]_tasks
        => [\A t \in Done :
              \/ tasks'[t].status = "done"
              \/ tasks'[t] \in {NewTask(p, ds) : p \in Tasks \cup {NoTask}, ds \in DepSets}]_tasks
  BY <1>1
<1>3. QED
  BY <1>2, BoardTypeCorrect, PTL DEF Spec, DoneIsFinal

(* A step leaves a DONE task DONE or stores a new one in its place, which   *)
(* is "todo".                                                               *)
LEMMA StepDone ==
  ASSUME TypeOK, Next, NEW t \in Done
  PROVE  tasks'[t].status = "done" \/ tasks'[t].status = "todo"
<1>1. t \in Known /\ tasks[t].status = "done"
  BY DEF Done
<1>2. ASSUME NEW u \in Tasks, NEW p \in Tasks \cup {NoTask}, NEW ds \in DepSets,
             CreateTask(u, p, ds)
      PROVE  tasks'[t].status = "done" \/ tasks'[t].status = "todo"
  <2>1. /\ tasks'[u].status = "todo"
        /\ \A v \in Known : v # u => Same(v)
    BY <1>2, CreateShape
  <2>2. QED
    BY <1>1, <2>1 DEF Same
<1>3. ASSUME NEW u \in Tasks, CompleteTask(u)
      PROVE  tasks'[t].status = "done"
  BY <1>1, <1>3, CompleteShape
<1>4. ASSUME NEW u \in Tasks, Edits(u)
      PROVE  tasks'[t].status = "done"
  BY <1>1, <1>4 DEF Edits, Same
<1>5. QED
  BY <1>2, <1>3, <1>4, StepShape

(* No step forgets a task. *)
LEMMA StepKnown == TypeOK /\ Next => Known \subseteq Known'
<1> SUFFICES ASSUME TypeOK, Next PROVE Known \subseteq Known'
  OBVIOUS
<1>1. ASSUME NEW u \in Tasks, NEW p \in Tasks \cup {NoTask}, NEW ds \in DepSets,
             CreateTask(u, p, ds)
      PROVE  Known \subseteq Known'
  BY <1>1, CreateShape
<1>2. ASSUME NEW u \in Tasks, CompleteTask(u)
      PROVE  Known \subseteq Known'
  BY <1>2, CompleteShape
<1>3. ASSUME NEW u \in Tasks, Edits(u)
      PROVE  Known \subseteq Known'
  BY <1>3 DEF Edits
<1>4. QED
  BY <1>1, <1>2, <1>3, StepShape

(* A task on offer is withdrawn only by its own change or by a dependency   *)
(* that is stored anew: a finished dependency stays finished otherwise.     *)
THEOREM ReadyStaysReadyCorrect == Spec => ReadyStaysReady
<1>1. ASSUME TypeOK, Next, NEW t \in ReadyTasks,
             tasks'[t] = tasks[t],
             \A d \in tasks[t].deps : tasks'[d].status # "todo"
      PROVE  t \in ReadyTasks'
  <2>1. /\ t \in Known /\ tasks[t].status = "todo" /\ tasks[t].checkout = NoAgent
        /\ tasks[t].deps \subseteq Done
    BY DEF ReadyTasks
  <2>2. \A d \in tasks[t].deps : d \in Known' /\ tasks'[d].status = "done"
    BY <1>1, <2>1, StepDone, StepKnown DEF Done
  <2>3. tasks'[t].deps \subseteq Done'
    BY <1>1, <2>2 DEF Done
  <2>4. QED
    BY <1>1, <2>1, <2>3, StepKnown DEF ReadyTasks
<1>2. TypeOK /\ [Next]_tasks
        => [\A t \in ReadyTasks :
              \/ t \in ReadyTasks'
              \/ tasks'[t] # tasks[t]
              \/ \E d \in tasks[t].deps : tasks'[d].status = "todo"]_tasks
  BY <1>1
<1>3. QED
  BY <1>2, BoardTypeCorrect, PTL DEF Spec, ReadyStaysReady
=============================================================================
