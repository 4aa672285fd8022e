-------------------- MODULE PostgresGraphTaskBoardProofs --------------------
(***************************************************************************)
(* Theorems about PostgresGraphTaskBoard, for any number of sessions,      *)
(* tasks and agents and any board to start from: row locks keep each row   *)
(* apart from what other sessions do to it between its read and the        *)
(* commit.                                                                 *)
(***************************************************************************)
EXTENDS PostgresGraphTaskBoard, GraphTaskBoardProofs

Drafts == UNION {[D -> GraphTaskItem] : D \in SUBSET Tasks}
Seens  == UNION {[D -> SUBSET Tasks] : D \in SUBSET Tasks}

TxnType ==
  [stage : {"none", "creating", "family", "children", "commit"},
   task : Tasks \cup {NoTask}, link : Tasks \cup {NoTask},
   want : SUBSET Tasks, held : SUBSET Tasks, draft : Drafts, seen : Seens]

(* Only rows of the table are locked, only locked rows are rewritten. *)
Locks(c) == txn[c].want \cup txn[c].held \subseteq Known /\ DOMAIN txn[c].draft \subseteq txn[c].held

Apart(c, d) == txn[c].held \cap txn[d].held = {}

Rewrites(c) == \A u \in DOMAIN txn[c].draft : Rewritten(tasks[u], txn[c].draft[u])

(* A propagation stands at a parent, a creation at the task it creates. *)
Standing(c) ==
  /\ txn[c].stage \in {"family", "children"} => txn[c].link \in Tasks
  /\ txn[c].stage = "children" => txn[c].link \in DOMAIN txn[c].seen
  /\ txn[c].stage = "creating" => txn[c].task \in Tasks \ Foreign

Txn(c) == txn[c] \in TxnType /\ Locks(c) /\ Rewrites(c) /\ Standing(c)

TxnInv ==
  /\ DOMAIN txn = Conns
  /\ \A c \in Conns : Txn(c)
  /\ \A c, d \in Conns : c # d => Apart(c, d)

PgInv == TypeOK /\ CheckoutAgreesWithStatus /\ TxnInv

-----------------------------------------------------------------------------
(* What a rewritten row keeps of the one it replaces. *)
LEMMA RewrittenFields ==
  ASSUME NEW old \in GraphTaskItem, NEW row, Rewritten(old, row)
  PROVE  /\ row.status \in {"done", old.status}
         /\ row.checkout = old.checkout /\ row.parent = old.parent
BY DEF Rewritten, GraphTaskItem

LEMMA RewrittenSelf == ASSUME NEW old \in GraphTaskItem PROVE Rewritten(old, old)
BY DEF Rewritten, GraphTaskItem

LEMMA RewrittenTwice ==
  ASSUME NEW old \in GraphTaskItem, NEW mid \in GraphTaskItem, NEW row \in GraphTaskItem,
         Rewritten(old, mid), Rewritten(mid, row)
  PROVE  Rewritten(old, row)
BY DEF Rewritten, GraphTaskItem

LEMMA CompletedRow ==
  ASSUME NEW old \in GraphTaskItem, NEW row, row = [old EXCEPT !.status = "done", !.progress = "full"]
  PROVE  row \in GraphTaskItem /\ Rewritten(old, row)
BY DEF Rewritten, GraphTaskItem, Status, Progress

LEMMA SettledRow ==
  ASSUME NEW old \in GraphTaskItem, NEW family
  PROVE  Settled(old, family) \in GraphTaskItem /\ Rewritten(old, Settled(old, family))
BY DEF Settled, Rewritten, GraphTaskItem, Status, Progress

-----------------------------------------------------------------------------
(* A session that ends, or has done nothing yet. *)
LEMMA NothingTyped == Nothing \in Drafts /\ Nothing \in Seens /\ DOMAIN Nothing = {}
<1>1. Nothing \in [{} -> GraphTaskItem] /\ Nothing \in [{} -> SUBSET Tasks] /\ DOMAIN Nothing = {}
  BY DEF Nothing
<1>2. QED
  BY <1>1 DEF Drafts, Seens

LEMMA NoTxnFields ==
  /\ NoTxn \in TxnType
  /\ NoTxn.stage = "none" /\ NoTxn.want = {} /\ NoTxn.held = {} /\ DOMAIN NoTxn.draft = {}
BY NothingTyped DEF NoTxn, TxnType

LEMMA IdleTxn == ASSUME NEW c, txn[c] = NoTxn PROVE Txn(c)
BY NoTxnFields DEF Txn, Locks, Rewrites, Standing

(* A step of one session leaves the invariant to the others where it takes  *)
(* no row of theirs and changes none.                                       *)
LEMMA OthersKept ==
  ASSUME TxnInv, NEW c \in Conns,
         DOMAIN txn' = Conns, \A d \in Conns \ {c} : txn'[d] = txn[d],
         Known \subseteq Known',
         \A d \in Conns \ {c} : \A u \in txn[d].held : Same(u),
         Txn(c)',
         \A d \in Conns \ {c} : txn'[c].held \cap txn[d].held = {}
  PROVE  TxnInv'
<1>1. ASSUME NEW d \in Conns \ {c}
      PROVE  Txn(d)'
  <2>1. Txn(d) /\ txn'[d] = txn[d]
    BY DEF TxnInv
  <2>2. Locks(d)'
    BY <2>1 DEF Txn, Locks
  <2>3. Rewrites(d)'
    BY <2>1 DEF Txn, Locks, Rewrites, Same
  <2>4. QED
    BY <2>1, <2>2, <2>3 DEF Txn, Standing
<1>2. ASSUME NEW d \in Conns, NEW e \in Conns, d # e
      PROVE  Apart(d, e)'
  <2>1. Apart(d, e)
    BY <1>2 DEF TxnInv
  <2>2. QED
    BY <1>2, <2>1 DEF Apart
<1>3. QED
  BY <1>1, <1>2 DEF TxnInv

(* A step that changes no row. *)
LEMMA TxnStep ==
  ASSUME PgInv, NEW c \in Conns, UNCHANGED tasks,
         DOMAIN txn' = Conns, \A d \in Conns \ {c} : txn'[d] = txn[d],
         Txn(c)',
         \A d \in Conns \ {c} : txn'[c].held \cap txn[d].held = {}
  PROVE  PgInv'
<1>1. Known' = Known /\ \A d \in Conns : \A u \in txn[d].held : Same(u)
  BY DEF Known, Same
<1>2. TxnInv'
  BY <1>1, OthersKept DEF PgInv
<1>3. QED
  BY <1>1, <1>2 DEF PgInv, TypeOK, CheckoutAgreesWithStatus

(* A step that changes rows no session has locked. *)
LEMMA RowStep ==
  ASSUME TxnInv, UNCHANGED txn, Known \subseteq Known',
         \A c \in Conns : \A u \in txn[c].held : Same(u)
  PROVE  TxnInv'
<1>1. ASSUME NEW c \in Conns
      PROVE  Txn(c)'
  <2>1. Txn(c)
    BY DEF TxnInv
  <2>2. QED
    BY <2>1 DEF Txn, Locks, Rewrites, Standing, Same
<1>2. QED
  BY <1>1 DEF TxnInv, Apart

(* The rows a session reads are task records. *)
LEMMA ViewTyped ==
  ASSUME TypeOK, NEW c \in Conns, Txn(c)
  PROVE  /\ View(c) \in [Known -> GraphTaskItem]
         /\ \A u \in Known : Rewritten(tasks[u], View(c)[u])
         /\ \A u \in Known \ DOMAIN txn[c].draft : View(c)[u] = tasks[u]
<1>1. \A u \in Known : tasks[u] \in GraphTaskItem
  BY DEF TypeOK
<1>2. \A u \in DOMAIN txn[c].draft : txn[c].draft[u] \in GraphTaskItem
  BY DEF Txn, TxnType, Drafts
<1>3. \A u \in Known : View(c)[u] = IF u \in DOMAIN txn[c].draft THEN txn[c].draft[u] ELSE tasks[u]
  BY DEF View
<1>4. View(c) = [u \in Known |-> View(c)[u]]
  BY DEF View
<1>5. \A u \in Known : Rewritten(tasks[u], tasks[u])
  BY <1>1, RewrittenSelf
<1>6. \A u \in Known : Rewritten(tasks[u], View(c)[u])
  BY <1>3, <1>5 DEF Txn, Rewrites
<1>7. View(c) \in [Known -> GraphTaskItem]
  BY <1>1, <1>2, <1>3, <1>4
<1>8. QED
  BY <1>3, <1>6, <1>7

(* The row under one more key. *)
LEMMA Extended ==
  ASSUME NEW f \in Drafts, NEW t \in Tasks, NEW row \in GraphTaskItem
  PROVE  /\ Extend(f, t, row) \in Drafts
         /\ DOMAIN Extend(f, t, row) = DOMAIN f \cup {t}
         /\ Extend(f, t, row)[t] = row
         /\ \A u \in DOMAIN f : u # t => Extend(f, t, row)[u] = f[u]
<1>1. PICK D \in SUBSET Tasks : f \in [D -> GraphTaskItem]
  BY DEF Drafts
<1>2. Extend(f, t, row) \in [D \cup {t} -> GraphTaskItem]
  BY <1>1 DEF Extend
<1>3. QED
  BY <1>1, <1>2 DEF Drafts, Extend

LEMMA ExtendedSeen ==
  ASSUME NEW f \in Seens, NEW t \in Tasks, NEW S \in SUBSET Tasks
  PROVE  Extend(f, t, S) \in Seens /\ DOMAIN Extend(f, t, S) = DOMAIN f \cup {t}
<1>1. PICK D \in SUBSET Tasks : f \in [D -> SUBSET Tasks]
  BY DEF Seens
<1>2. Extend(f, t, S) \in [D \cup {t} -> SUBSET Tasks]
  BY <1>1 DEF Extend
<1>3. QED
  BY <1>1, <1>2 DEF Seens, Extend

-----------------------------------------------------------------------------
(* The steps of a transaction.                                              *)

LEMMA BeginSteps ==
  ASSUME PgInv, NEW c \in Conns, NEW t \in Tasks,
         \/ \E p \in Tasks \cup {NoTask} : CreateReads(c, t, p)
         \/ CompleteBegins(c, t)
  PROVE  PgInv'
<1>0. DOMAIN txn = Conns /\ TypeOK
  BY DEF PgInv, TxnInv
<1>1. ASSUME NEW p \in Tasks \cup {NoTask}, CreateReads(c, t, p)
      PROVE  PgInv'
  <2> DEFINE x == [NoTxn EXCEPT !.stage = "creating", !.task = t, !.link = p]
  <2>1. /\ x \in TxnType /\ x.stage = "creating" /\ x.task = t
        /\ x.want = {} /\ x.held = {} /\ DOMAIN x.draft = {}
    BY NoTxnFields DEF TxnType
  <2>2. UNCHANGED tasks /\ txn' = [txn EXCEPT ![c] = x] /\ t \notin Foreign
    BY <1>1 DEF CreateReads
  <2> HIDE DEF x
  <2>3. txn'[c] = x /\ DOMAIN txn' = Conns /\ \A d \in Conns \ {c} : txn'[d] = txn[d]
    BY <1>0, <2>2
  <2>4. Txn(c)'
    BY <2>1, <2>2, <2>3 DEF Txn, Locks, Rewrites, Standing
  <2>5. QED
    BY <2>1, <2>2, <2>3, <2>4, TxnStep
<1>2. CASE CompleteBegins(c, t)
  <2> DEFINE row == [tasks[t] EXCEPT !.status = "done", !.progress = "full"]
             x   == [NoTxn EXCEPT !.stage = Onward(tasks[t].parent), !.task = t,
                                  !.link = tasks[t].parent, !.held = {t},
                                  !.draft = Extend(Nothing, t, row)]
  <2>1. t \in Known /\ FreeFor(c, t) /\ UNCHANGED tasks /\ txn' = [txn EXCEPT ![c] = x]
    BY <1>2 DEF CompleteBegins
  <2>2. tasks[t] \in GraphTaskItem
    BY <1>0, <2>1 DEF TypeOK
  <2>3. row \in GraphTaskItem /\ Rewritten(tasks[t], row)
    BY <2>2, CompletedRow
  <2> HIDE DEF row
  <2>4. /\ Extend(Nothing, t, row) \in Drafts
        /\ DOMAIN Extend(Nothing, t, row) = {t} /\ Extend(Nothing, t, row)[t] = row
    BY <2>3, NothingTyped, Extended
  <2>5. tasks[t].parent \in Tasks \cup {NoTask}
    BY <2>2 DEF GraphTaskItem
  <2>6. /\ Onward(tasks[t].parent) \in {"commit", "family"}
        /\ Onward(tasks[t].parent) = "family" => tasks[t].parent \in Tasks
    BY <2>5 DEF Onward
  <2>7. /\ x \in TxnType /\ x.stage = Onward(tasks[t].parent) /\ x.link = tasks[t].parent
        /\ x.want = {} /\ x.held = {t} /\ x.draft = Extend(Nothing, t, row)
    BY <2>4, <2>5, <2>6, NoTxnFields DEF TxnType
  <2> HIDE DEF x
  <2>8. txn'[c] = x /\ DOMAIN txn' = Conns /\ \A d \in Conns \ {c} : txn'[d] = txn[d]
    BY <1>0, <2>1
  <2>9. Locks(c)' /\ Standing(c)'
    BY <2>1, <2>4, <2>6, <2>7, <2>8 DEF Locks, Standing, Known
  <2>10. Rewrites(c)'
    BY <2>1, <2>3, <2>4, <2>7, <2>8 DEF Rewrites
  <2>11. \A d \in Conns \ {c} : txn'[c].held \cap txn[d].held = {}
    BY <2>1, <2>7, <2>8 DEF FreeFor
  <2>12. Txn(c)'
    BY <2>7, <2>8, <2>9, <2>10 DEF Txn
  <2>13. QED
    BY <2>1, <2>8, <2>11, <2>12, TxnStep
<1>3. QED
  BY <1>1, <1>2

LEMMA EndSteps ==
  ASSUME PgInv, NEW c \in Conns, UNCHANGED tasks, txn' = [txn EXCEPT ![c] = NoTxn]
  PROVE  PgInv'
<1>1. txn'[c] = NoTxn /\ DOMAIN txn' = Conns /\ \A d \in Conns \ {c} : txn'[d] = txn[d]
  BY DEF PgInv, TxnInv
<1>2. Txn(c)'
  BY <1>1, NoTxnFields DEF Txn, Locks, Rewrites, Standing
<1>3. QED
  BY <1>1, <1>2, NoTxnFields, TxnStep

LEMMA FamilyStep == ASSUME PgInv, NEW c \in Conns, Family(c) PROVE PgInv'
<1> DEFINE family == Children(txn[c].link)
           seen   == Extend(txn[c].seen, txn[c].link, family)
           x      == [txn[c] EXCEPT !.stage = "children", !.want = family, !.seen = seen]
<1>1. txn[c] \in TxnType /\ Locks(c) /\ Rewrites(c) /\ txn[c].link \in Tasks /\ UNCHANGED tasks
  BY DEF PgInv, TxnInv, Txn, Standing, Family
<1>2. family \subseteq Known /\ Known \subseteq Tasks
  BY DEF Children, PgInv, TypeOK
<1>3. seen \in Seens /\ DOMAIN seen = DOMAIN txn[c].seen \cup {txn[c].link}
  BY <1>1, <1>2, ExtendedSeen DEF TxnType
<1>4. txn' = [txn EXCEPT ![c] = x]
  BY <1>1 DEF Family, TxnType, PgInv, TxnInv
<1>5. /\ x \in TxnType /\ x.stage = "children" /\ x.want = family /\ x.seen = seen
      /\ x.held = txn[c].held /\ x.draft = txn[c].draft /\ x.link = txn[c].link
  BY <1>1, <1>2, <1>3 DEF TxnType
<1> HIDE DEF x, seen, family
<1>6. txn'[c] = x /\ DOMAIN txn' = Conns /\ \A d \in Conns \ {c} : txn'[d] = txn[d]
  BY <1>4 DEF PgInv, TxnInv
<1>7. Locks(c)' /\ Rewrites(c)' /\ Standing(c)'
  BY <1>1, <1>2, <1>3, <1>5, <1>6 DEF Locks, Rewrites, Standing, Known
<1>8. \A d \in Conns \ {c} : txn'[c].held \cap txn[d].held = {}
  BY <1>5, <1>6 DEF PgInv, TxnInv, Apart
<1>9. QED
  BY <1>1, <1>5, <1>6, <1>7, <1>8, TxnStep DEF Txn

LEMMA LockChildStep == ASSUME PgInv, NEW c \in Conns, LockChild(c) PROVE PgInv'
<1>1. PICK u \in txn[c].want :
        /\ FreeFor(c, u)
        /\ txn' = [txn EXCEPT ![c].want = @ \ {u}, ![c].held = @ \cup {u}]
  BY DEF LockChild
<1> DEFINE x == [txn[c] EXCEPT !.want = @ \ {u}, !.held = @ \cup {u}]
<1>2. txn[c] \in TxnType /\ Locks(c) /\ Rewrites(c) /\ Standing(c) /\ UNCHANGED tasks
  BY DEF PgInv, TxnInv, Txn, LockChild
<1>3. txn' = [txn EXCEPT ![c] = x]
  BY <1>1, <1>2 DEF TxnType, PgInv, TxnInv
<1>4. /\ x \in TxnType /\ x.want = txn[c].want \ {u} /\ x.held = txn[c].held \cup {u}
      /\ x.stage = txn[c].stage /\ x.draft = txn[c].draft /\ x.link = txn[c].link
      /\ x.seen = txn[c].seen /\ x.task = txn[c].task
  BY <1>2 DEF TxnType
<1> HIDE DEF x
<1>5. txn'[c] = x /\ DOMAIN txn' = Conns /\ \A d \in Conns \ {c} : txn'[d] = txn[d]
  BY <1>3 DEF PgInv, TxnInv
<1>6. Locks(c)' /\ Rewrites(c)' /\ Standing(c)'
  BY <1>2, <1>4, <1>5 DEF Locks, Rewrites, Standing, Known
<1>7. \A d \in Conns \ {c} : txn'[c].held \cap txn[d].held = {}
  BY <1>1, <1>4, <1>5 DEF PgInv, TxnInv, Apart, FreeFor
<1>8. QED
  BY <1>2, <1>4, <1>5, <1>6, <1>7, TxnStep DEF Txn

LEMMA ParentMissingStep == ASSUME PgInv, NEW c \in Conns, ParentMissing(c) PROVE PgInv'
<1> DEFINE seen == [p \in DOMAIN txn[c].seen \ {txn[c].link} |-> txn[c].seen[p]]
           x    == [txn[c] EXCEPT !.stage = "commit", !.seen = seen]
<1>1. txn[c] \in TxnType /\ Locks(c) /\ Rewrites(c) /\ UNCHANGED tasks
  BY DEF PgInv, TxnInv, Txn, ParentMissing
<1>2. seen \in Seens
  <2>1. PICK D \in SUBSET Tasks : txn[c].seen \in [D -> SUBSET Tasks]
    BY <1>1 DEF TxnType, Seens
  <2>2. seen \in [D \ {txn[c].link} -> SUBSET Tasks]
    BY <2>1
  <2>3. QED
    BY <2>2 DEF Seens
<1>3. txn' = [txn EXCEPT ![c] = x]
  BY <1>1 DEF ParentMissing, TxnType, PgInv, TxnInv
<1>4. /\ x \in TxnType /\ x.stage = "commit" /\ x.want = txn[c].want
      /\ x.held = txn[c].held /\ x.draft = txn[c].draft
  BY <1>1, <1>2 DEF TxnType
<1> HIDE DEF x
<1>5. txn'[c] = x /\ DOMAIN txn' = Conns /\ \A d \in Conns \ {c} : txn'[d] = txn[d]
  BY <1>3 DEF PgInv, TxnInv
<1>6. Locks(c)' /\ Rewrites(c)' /\ Standing(c)'
  BY <1>1, <1>4, <1>5 DEF Locks, Rewrites, Standing, Known
<1>7. \A d \in Conns \ {c} : txn'[c].held \cap txn[d].held = {}
  BY <1>4, <1>5 DEF PgInv, TxnInv, Apart
<1>8. QED
  BY <1>1, <1>4, <1>5, <1>6, <1>7, TxnStep DEF Txn

LEMMA LockParentStep == ASSUME PgInv, NEW c \in Conns, LockParent(c) PROVE PgInv'
<1> DEFINE p   == txn[c].link
           row == Settled(View(c)[p], {View(c)[u] : u \in txn[c].seen[p]})
           x   == [txn[c] EXCEPT !.stage = Onward(row.parent), !.link = row.parent,
                                 !.held = @ \cup {p}, !.draft = Extend(txn[c].draft, p, row)]
<1>1. /\ txn[c] \in TxnType /\ Txn(c) /\ Locks(c) /\ Rewrites(c) /\ TypeOK /\ DOMAIN txn = Conns
      /\ UNCHANGED tasks /\ p \in Known /\ FreeFor(c, p)
  BY DEF PgInv, TxnInv, Txn, LockParent
<1>2. p \in Tasks /\ tasks[p] \in GraphTaskItem /\ View(c)[p] \in GraphTaskItem
  BY <1>1, ViewTyped DEF TypeOK
<1>3. row \in GraphTaskItem /\ Rewritten(tasks[p], row)
  <2>1. Rewritten(tasks[p], View(c)[p])
    BY <1>1, ViewTyped
  <2>2. row \in GraphTaskItem /\ Rewritten(View(c)[p], row)
    BY <1>2, SettledRow
  <2>3. QED
    BY <1>2, <2>1, <2>2, RewrittenTwice
<1>4. row.parent \in Tasks \cup {NoTask}
  BY <1>3 DEF GraphTaskItem
<1>5. txn' = [txn EXCEPT ![c] = x]
  BY <1>1 DEF LockParent, TxnType
<1> HIDE DEF row
<1>6. /\ Onward(row.parent) \in {"commit", "family"}
      /\ Onward(row.parent) = "family" => row.parent \in Tasks
  BY <1>4 DEF Onward
<1>7. /\ Extend(txn[c].draft, p, row) \in Drafts
      /\ DOMAIN Extend(txn[c].draft, p, row) = DOMAIN txn[c].draft \cup {p}
      /\ Extend(txn[c].draft, p, row)[p] = row
      /\ \A u \in DOMAIN txn[c].draft : u # p => Extend(txn[c].draft, p, row)[u] = txn[c].draft[u]
  <2>1. txn[c].draft \in Drafts
    BY <1>1 DEF TxnType
  <2>2. QED
    BY <1>2, <1>3, <2>1, Extended
<1>8. /\ x \in TxnType /\ x.stage = Onward(row.parent) /\ x.link = row.parent
      /\ x.want = txn[c].want /\ x.held = txn[c].held \cup {p}
      /\ x.draft = Extend(txn[c].draft, p, row)
  BY <1>1, <1>2, <1>4, <1>6, <1>7 DEF TxnType
<1> HIDE DEF x, p
<1>9. txn'[c] = x /\ DOMAIN txn' = Conns /\ \A d \in Conns \ {c} : txn'[d] = txn[d]
  BY <1>1, <1>5
<1>10. Locks(c)' /\ Standing(c)'
  BY <1>1, <1>6, <1>7, <1>8, <1>9 DEF Locks, Standing, Known
<1>11. Rewrites(c)'
  BY <1>1, <1>3, <1>7, <1>8, <1>9 DEF Rewrites
<1>12. \A d \in Conns \ {c} : txn'[c].held \cap txn[d].held = {}
  BY <1>1, <1>8, <1>9 DEF PgInv, TxnInv, Apart, FreeFor
<1>13. Txn(c)'
  BY <1>8, <1>9, <1>10, <1>11 DEF Txn
<1>14. QED
  BY <1>1, <1>9, <1>12, <1>13, TxnStep

-----------------------------------------------------------------------------
(* The steps that change rows.                                              *)

Agrees(item) ==
  /\ item.status = "in_progress" => item.checkout # NoAgent
  /\ item.status \in {"todo", "blocked", "cancelled"} => item.checkout = NoAgent

(* One row written, or inserted. *)
LEMMA RowEffect ==
  ASSUME PgInv, NEW t \in Tasks, NEW item \in GraphTaskItem, Put(t, item), Agrees(item)
  PROVE  /\ TypeOK' /\ CheckoutAgreesWithStatus'
         /\ Known' = Known \cup {t} /\ tasks'[t] = item
         /\ \A u \in Known : u # t => Same(u)
<1>1. TypeOK
  BY DEF PgInv
<1>2. /\ TypeOK' /\ Known' = Known \cup {t} /\ tasks'[t] = item
      /\ \A u \in Known : u # t => Same(u)
  BY <1>1, PutEffect DEF Same
<1>3. CheckoutAgreesWithStatus'
  BY <1>2 DEF PgInv, CheckoutAgreesWithStatus, Agrees, Same
<1>4. QED
  BY <1>2, <1>3

(* A call on one row writes a row that no session has locked. *)
RowCall(t) ==
  \/ \E a \in Agents : PgCheckout(t, a)
  \/ \E reason \in Reasons : PgBlock(t, reason)
  \/ PgUnblock(t)
  \/ PgCancel(t)

RowEdit(t, item) ==
  /\ Put(t, item) /\ Agrees(item)
  /\ item.parent = tasks[t].parent
  /\ tasks[t].checkout # NoAgent => item.checkout \in {tasks[t].checkout, NoAgent}

LEMMA RowCallItem ==
  ASSUME PgInv, NEW t \in Tasks, RowCall(t)
  PROVE  t \in Known /\ Unlocked(t) /\ \E item \in GraphTaskItem : RowEdit(t, item)
<1>1. t \in Known /\ Unlocked(t)
  BY DEF RowCall, PgCheckout, PgBlock, PgUnblock, PgCancel, BlockTask, UnblockTask, CancelTask
<1>2. tasks[t] \in GraphTaskItem
  BY <1>1 DEF PgInv, TypeOK
<1>3. ASSUME NEW a \in Agents, PgCheckout(t, a)
      PROVE  \E item \in GraphTaskItem : RowEdit(t, item)
  <2> DEFINE item == [tasks[t] EXCEPT !.checkout = a, !.status = "in_progress"]
  <2>1. item \in GraphTaskItem
    BY <1>2 DEF GraphTaskItem, Status
  <2>2. item.status = "in_progress" /\ item.checkout = a /\ item.parent = tasks[t].parent
    BY <1>2 DEF GraphTaskItem
  <2>3. Put(t, item) /\ tasks[t].checkout = NoAgent
    BY <1>3 DEF PgCheckout
  <2> HIDE DEF item
  <2>4. Agrees(item)
    BY <2>2, BoardAssumption DEF Agrees
  <2>5. QED
    BY <2>1, <2>2, <2>3, <2>4 DEF RowEdit
<1>4. ASSUME NEW reason \in Reasons, PgBlock(t, reason)
      PROVE  \E item \in GraphTaskItem : RowEdit(t, item)
  <2> DEFINE item == [tasks[t] EXCEPT !.status = "blocked", !.reason = reason, !.checkout = NoAgent]
  <2>1. item \in GraphTaskItem
    BY <1>2 DEF GraphTaskItem, Status
  <2>2. item.status = "blocked" /\ item.checkout = NoAgent /\ item.parent = tasks[t].parent
    BY <1>2 DEF GraphTaskItem
  <2>3. Put(t, item)
    BY <1>4 DEF PgBlock, BlockTask
  <2> HIDE DEF item
  <2>4. Agrees(item)
    BY <2>2 DEF Agrees
  <2>5. QED
    BY <2>1, <2>2, <2>3, <2>4 DEF RowEdit
<1>5. CASE PgUnblock(t)
  <2> DEFINE item == [tasks[t] EXCEPT !.status = "todo", !.reason = ""]
  <2>1. item \in GraphTaskItem
    BY <1>2 DEF GraphTaskItem, Status, Reasons
  <2>2. item.status = "todo" /\ item.checkout = tasks[t].checkout /\ item.parent = tasks[t].parent
    BY <1>2 DEF GraphTaskItem
  <2>3. Put(t, item) /\ tasks[t].status = "blocked"
    BY <1>5 DEF PgUnblock, UnblockTask
  <2> HIDE DEF item
  <2>4. tasks[t].checkout = NoAgent
    BY <1>1, <2>3 DEF PgInv, CheckoutAgreesWithStatus
  <2>5. Agrees(item)
    BY <2>2, <2>4 DEF Agrees
  <2>6. QED
    BY <1>1, <2>1, <2>2, <2>3, <2>5 DEF RowEdit
<1>6. CASE PgCancel(t)
  <2> DEFINE item == [tasks[t] EXCEPT !.status = "cancelled", !.checkout = NoAgent]
  <2>1. item \in GraphTaskItem
    BY <1>2 DEF GraphTaskItem, Status
  <2>2. item.status = "cancelled" /\ item.checkout = NoAgent /\ item.parent = tasks[t].parent
    BY <1>2 DEF GraphTaskItem
  <2>3. Put(t, item)
    BY <1>6 DEF PgCancel, CancelTask
  <2> HIDE DEF item
  <2>4. Agrees(item)
    BY <2>2 DEF Agrees
  <2>5. QED
    BY <1>1, <2>1, <2>2, <2>3, <2>4 DEF RowEdit
<1>7. QED
  BY <1>1, <1>3, <1>4, <1>5, <1>6 DEF RowCall

LEMMA RowCallStep == ASSUME PgInv, UNCHANGED txn, NEW t \in Tasks, RowCall(t) PROVE PgInv'
<1>1. PICK item \in GraphTaskItem : Put(t, item) /\ Agrees(item)
  BY RowCallItem DEF RowEdit
<1>2. /\ TypeOK' /\ CheckoutAgreesWithStatus' /\ Known' = Known \cup {t}
      /\ \A u \in Known : u # t => Same(u)
  BY <1>1, RowEffect
<1>3. t \in Known /\ Unlocked(t)
  BY RowCallItem
<1>4. \A c \in Conns : \A u \in txn[c].held : Same(u)
  BY <1>2, <1>3 DEF Unlocked, PgInv, TxnInv, Txn, Locks
<1>5. TxnInv'
  BY <1>2, <1>4, RowStep DEF PgInv
<1>6. QED
  BY <1>2, <1>5 DEF PgInv

LEMMA InsertStep == ASSUME PgInv, NEW c \in Conns, CreateInserts(c) PROVE PgInv'
<1>1. txn[c] \in TxnType /\ Standing(c) /\ DOMAIN txn = Conns
  BY DEF PgInv, TxnInv, Txn
<1>2. PICK ds \in DepSets : Put(txn[c].task, NewTask(txn[c].link, ds))
  BY DEF CreateInserts
<1> DEFINE t == txn[c].task
           item == NewTask(txn[c].link, ds)
<1>3. t \in Tasks /\ t \notin Known /\ txn' = [txn EXCEPT ![c] = NoTxn] /\ Put(t, item)
  BY <1>1, <1>2 DEF CreateInserts, Standing
<1>4. item \in GraphTaskItem /\ Agrees(item)
  <2>1. txn[c].link \in Tasks \cup {NoTask} /\ ds \in SUBSET Tasks
    BY <1>1, BoardAssumption DEF TxnType
  <2>2. QED
    BY <2>1 DEF NewTask, GraphTaskItem, Status, Progress, Reasons, Agrees
<1> HIDE DEF t, item
<1>5. /\ TypeOK' /\ CheckoutAgreesWithStatus' /\ Known' = Known \cup {t}
      /\ \A u \in Known : Same(u)
  BY <1>3, <1>4, RowEffect
<1>6. txn'[c] = NoTxn /\ DOMAIN txn' = Conns /\ \A d \in Conns \ {c} : txn'[d] = txn[d]
  BY <1>1, <1>3
<1>7. Txn(c)'
  BY <1>6, NoTxnFields DEF Txn, Locks, Rewrites, Standing
<1>8. \A d \in Conns : \A u \in txn[d].held : Same(u)
  BY <1>5 DEF PgInv, TxnInv, Txn, Locks
<1>9. TxnInv'
  BY <1>5, <1>6, <1>7, <1>8, NoTxnFields, OthersKept DEF PgInv
<1>10. QED
  BY <1>5, <1>9 DEF PgInv

(* A commit writes the rows its session has locked, and of these the status *)
(* DONE and the progress only.                                              *)
LEMMA CommitEffect ==
  ASSUME PgInv, NEW c \in Conns, Commit(c)
  PROVE  /\ tasks' = View(c) /\ TypeOK' /\ Known' = Known
         /\ \A u \in Known : Rewritten(tasks[u], tasks'[u])
         /\ \A u \in Known \ txn[c].held : Same(u)
<1>0. TypeOK /\ Txn(c)
  BY DEF PgInv, TxnInv
<1>1. TypeOK /\ Txn(c) /\ tasks' = View(c)
  <2>1. Written(c) = DOMAIN txn[c].draft
    BY <1>0 DEF Written, Txn, Locks
  <2>2. QED
    BY <1>0, <2>1 DEF Commit, View
<1>2. tasks' \in [Known -> GraphTaskItem]
  BY <1>1, ViewTyped
<1>3. Known' = Known
  BY <1>2 DEF Known
<1>4. TypeOK'
  BY <1>1, <1>2, <1>3 DEF TypeOK
<1>5. \A u \in Known \ txn[c].held : Same(u)
  BY <1>1, ViewTyped DEF Same, Txn, Locks
<1>6. QED
  BY <1>1, <1>3, <1>4, <1>5, ViewTyped

LEMMA CommitStep == ASSUME PgInv, NEW c \in Conns, Commit(c) PROVE PgInv'
<1>1. /\ TypeOK' /\ Known' = Known
      /\ \A u \in Known : Rewritten(tasks[u], tasks'[u])
      /\ \A u \in Known \ txn[c].held : Same(u)
  BY CommitEffect
<1>2. CheckoutAgreesWithStatus'
  <2>1. ASSUME NEW u \in Known
        PROVE  /\ tasks'[u].status \in {"done", tasks[u].status}
               /\ tasks'[u].checkout = tasks[u].checkout
    <3>1. tasks[u] \in GraphTaskItem
      BY DEF PgInv, TypeOK
    <3>2. QED
      BY <1>1, <3>1, RewrittenFields
  <2>2. QED
    BY <1>1, <2>1 DEF PgInv, CheckoutAgreesWithStatus
<1>3. txn'[c] = NoTxn /\ DOMAIN txn' = Conns /\ \A d \in Conns \ {c} : txn'[d] = txn[d]
  BY DEF Commit, PgInv, TxnInv
<1>4. Txn(c)'
  BY <1>3, NoTxnFields DEF Txn, Locks, Rewrites, Standing
<1>5. \A d \in Conns \ {c} : \A u \in txn[d].held : Same(u)
  BY <1>1 DEF PgInv, TxnInv, Txn, Locks, Apart
<1>6. TxnInv'
  BY <1>1, <1>3, <1>4, <1>5, NoTxnFields, OthersKept DEF PgInv
<1>7. QED
  BY <1>1, <1>2, <1>6 DEF PgInv

-----------------------------------------------------------------------------
(* The invariant.                                                           *)

LEMMA PgStepInv == PgInv /\ [PgNext]_pgVars => PgInv'
<1> SUFFICES ASSUME PgInv, [PgNext]_pgVars PROVE PgInv'
  OBVIOUS
<1>1. CASE UNCHANGED pgVars
  BY <1>1 DEF pgVars, PgInv, TypeOK, Known, CheckoutAgreesWithStatus, TxnInv, Txn, Locks,
              Rewrites, Standing, Apart
<1>2. ASSUME NEW c \in Conns, Step(c) \/ LockChild(c) \/ LockParent(c) \/ Aborts(c)
      PROVE  PgInv'
  <2>1. CASE Aborts(c)
    BY <2>1, EndSteps DEF Aborts
  <2>2. QED
    BY <1>2, <2>1, InsertStep, FamilyStep, ParentMissingStep, CommitStep, LockChildStep,
       LockParentStep DEF Step
<1>3. ASSUME NEW c \in Conns, NEW t \in Tasks,
             \/ CompleteBegins(c, t)
             \/ \E p \in Tasks \cup {NoTask} : CreateReads(c, t, p)
      PROVE  PgInv'
  BY <1>3, BeginSteps
<1>4. ASSUME NEW t \in Tasks, UNCHANGED txn, RowCall(t)
      PROVE  PgInv'
  BY <1>4, RowCallStep
<1>5. QED
  BY <1>1, <1>2, <1>3, <1>4 DEF PgNext, RowCall

LEMMA PgInvHolds == PgSpec => []PgInv
<1>1. PgInit => PgInv
  <2> SUFFICES ASSUME PgInit PROVE PgInv
    OBVIOUS
  <2>1. TypeOK /\ CheckoutAgreesWithStatus
    BY PgAssumption DEF PgInit, TypeOK, Known, CheckoutAgreesWithStatus
  <2>2. \A c \in Conns : txn[c] = NoTxn
    BY DEF PgInit
  <2>3. TxnInv
    BY <2>2, IdleTxn, NoTxnFields DEF PgInit, TxnInv, Apart
  <2>4. QED
    BY <2>1, <2>3 DEF PgInv
<1>2. QED
  BY <1>1, PgStepInv, PTL DEF PgSpec

(* Nothing that another session commits is lost: what complete_task has     *)
(* read under its row locks is still what the table holds when it commits,  *)
(* for any number of completions, creations, claims, blocks and aborts that *)
(* overlap.                                                                 *)
THEOREM NothingOverwrittenCorrect == PgSpec => []NothingOverwritten
<1>1. PgInv => NothingOverwritten
  BY DEF PgInv, TxnInv, Txn, Rewrites, Written, NothingOverwritten
<1>2. QED
  BY <1>1, PgInvHolds, PTL

(* Whichever sessions claim, block, complete and cancel: a task in progress *)
(* has its agent, one open to others, blocked or cancelled has none.        *)
THEOREM PgCheckoutCorrect == PgSpec => []CheckoutAgreesWithStatus
<1>1. PgInv => CheckoutAgreesWithStatus
  BY DEF PgInv
<1>2. QED
  BY <1>1, PgInvHolds, PTL

(* No session takes a task an agent holds, nor gives one back to an agent   *)
(* that held it when the session read the row.                              *)
THEOREM PgCheckoutNotStolen == PgSpec => NoStolenCheckout
<1>1. ASSUME PgInv, [PgNext]_pgVars, NEW t \in Known, tasks[t].checkout # NoAgent
      PROVE  tasks'[t].checkout \in {tasks[t].checkout, NoAgent}
  <2>1. ASSUME NEW c \in Conns, CreateInserts(c)
        PROVE  tasks'[t] = tasks[t]
    BY <2>1, <1>1 DEF CreateInserts, Put, Known
  <2>2. ASSUME NEW c \in Conns, Commit(c)
        PROVE  tasks'[t].checkout = tasks[t].checkout
    <3>1. tasks[t] \in GraphTaskItem /\ Rewritten(tasks[t], tasks'[t])
      BY <1>1, <2>2, CommitEffect DEF PgInv, TypeOK
    <3>2. QED
      BY <3>1, RewrittenFields
  <2>3. ASSUME NEW u \in Tasks, RowCall(u)
        PROVE  tasks'[t].checkout \in {tasks[t].checkout, NoAgent}
    <3>1. PICK item \in GraphTaskItem : RowEdit(u, item)
      BY <1>1, <2>3, RowCallItem
    <3>2. tasks'[u] = item /\ (t # u => Same(t))
      BY <1>1, <3>1, RowEffect DEF RowEdit
    <3>3. QED
      BY <1>1, <3>1, <3>2 DEF Same, RowEdit
  <2>4. CASE UNCHANGED tasks
    BY <1>1, <2>4
  <2>5. ASSUME NEW c \in Conns,
               \/ Family(c) \/ ParentMissing(c) \/ LockChild(c) \/ LockParent(c) \/ Aborts(c)
               \/ \E u \in Tasks : \/ CompleteBegins(c, u)
                                   \/ \E p \in Tasks \cup {NoTask} : CreateReads(c, u, p)
        PROVE  UNCHANGED tasks
    BY <2>5 DEF Family, ParentMissing, LockChild, LockParent, Aborts, CompleteBegins, CreateReads
  <2>6. UNCHANGED pgVars => UNCHANGED tasks
    BY DEF pgVars
  <2>7. QED
    BY <1>1, <2>1, <2>2, <2>3, <2>4, <2>5, <2>6 DEF PgNext, Step, RowCall
<1>2. PgInv /\ [PgNext]_pgVars
        => [\A t \in Known :
              tasks[t].checkout # NoAgent
                => tasks'[t].checkout \in {tasks[t].checkout, NoAgent}]_tasks
  BY <1>1
<1>3. QED
  BY <1>2, PgInvHolds, PTL DEF PgSpec, NoStolenCheckout

-----------------------------------------------------------------------------
(* What a completion has read and written, for the completion to be one     *)
(* atomic complete_task of the table as it is when it commits.              *)

(* The parents that the completion of c has rewritten. *)
Passed(c) == DOMAIN txn[c].draft \ {txn[c].task}

(* The row completed is the committed row, DONE. *)
Own(c) ==
  LET t == txn[c].task IN
  /\ t \in DOMAIN txn[c].draft
  /\ txn[c].draft[t] = [tasks[t] EXCEPT !.status = "done", !.progress = "full"]

(* The propagation has counted the children of the parents it has passed,   *)
(* and of the one it stands at; the next parent of what it has rewritten is *)
(* the one it stands at, which the table lets a row refer to, and which is  *)
(* no row of the namespace when it has reached the top.                     *)
Climb(c) ==
  LET x == txn[c] IN
  /\ \A u \in DOMAIN x.draft : tasks[u].parent \in Passed(c) \cup {x.link}
  /\ x.stage = "children" => DOMAIN x.seen = Passed(c) \cup {x.link} /\ x.link \notin Passed(c)
  /\ x.stage # "children" => DOMAIN x.seen = Passed(c)
  /\ x.link \in Referable(Known) /\ (x.stage = "commit" => x.link \in Foreign \cup {NoTask})

(* What it has counted are children, among them those it has rewritten, and *)
(* are locked where it has passed; each parent is what they make of it.     *)
Counted(c) ==
  LET x == txn[c] IN
  /\ \A p \in DOMAIN x.seen : \A k \in x.seen[p] : k \in Known /\ tasks[k].parent = p
  /\ \A u \in DOMAIN x.draft : tasks[u].parent \in DOMAIN x.seen => u \in x.seen[tasks[u].parent]
  /\ \A p \in Passed(c) : /\ x.seen[p] \subseteq x.held
                          /\ x.draft[p] = Settled(tasks[p], {View(c)[k] : k \in x.seen[p]})
  /\ x.stage = "children" => x.seen[x.link] \subseteq x.held \cup x.want

(* The parents passed do not count each other in a circle. *)
NoCircle(c) == \A C \in SUBSET Passed(c) : (\A u \in C : C \cap txn[c].seen[u] # {}) => C = {}

(* A walk up from the row completed meets every parent passed. *)
Reached(c) ==
  \A S \in SUBSET (Tasks \cup {NoTask}) :
     tasks[txn[c].task].parent \in S /\ (\A u \in S \cap Passed(c) : tasks[u].parent \in S)
       => Passed(c) \cup {txn[c].link} \subseteq S

(* A completion is on its way. *)
Going(c) == txn[c].stage \in {"family", "children", "commit"}

Serial(c) == Own(c) /\ Climb(c) /\ Counted(c) /\ NoCircle(c) /\ Reached(c)

SerialInv == \A c \in Conns : Going(c) => Serial(c)

-----------------------------------------------------------------------------
(* Rows are never deleted and keep their parent; create_task alone adds one. *)
LEMMA RowsPermanent ==
  ASSUME PgInv, PgNext
  PROVE  /\ Known \subseteq Known' /\ \A u \in Known : tasks'[u].parent = tasks[u].parent
         /\ Known' = Known \/ \E c \in Conns : CreateInserts(c)
<1>1. \A u \in Known : tasks[u] \in GraphTaskItem
  BY DEF PgInv, TypeOK
<1>2. ASSUME NEW c \in Conns, CreateInserts(c)
      PROVE  Known \subseteq Known' /\ \A u \in Known : Same(u)
  BY <1>2 DEF CreateInserts, Put, Known, Same
<1>3. ASSUME NEW c \in Conns, Commit(c)
      PROVE  Known' = Known /\ \A u \in Known : tasks'[u].parent = tasks[u].parent
  <2>1. Known' = Known /\ \A u \in Known : Rewritten(tasks[u], tasks'[u])
    BY <1>3, CommitEffect
  <2>2. QED
    BY <1>1, <2>1, RewrittenFields
<1>4. ASSUME NEW t \in Tasks, RowCall(t)
      PROVE  Known' = Known /\ \A u \in Known : tasks'[u].parent = tasks[u].parent
  <2>1. t \in Known /\ \E item \in GraphTaskItem : RowEdit(t, item)
    BY <1>4, RowCallItem
  <2>2. PICK item \in GraphTaskItem : RowEdit(t, item)
    BY <2>1
  <2>3. Known' = Known \cup {t} /\ tasks'[t] = item /\ \A u \in Known : u # t => Same(u)
    BY <2>1, <2>2, RowEffect DEF RowEdit
  <2>4. QED
    BY <2>1, <2>2, <2>3 DEF RowEdit, Same
<1>5. UNCHANGED tasks => Known' = Known /\ \A u \in Known : tasks'[u].parent = tasks[u].parent
  BY DEF Known
<1>6. ASSUME NEW c \in Conns,
             \/ Family(c) \/ ParentMissing(c) \/ LockChild(c) \/ LockParent(c) \/ Aborts(c)
             \/ \E u \in Tasks : \/ CompleteBegins(c, u)
                                 \/ \E p \in Tasks \cup {NoTask} : CreateReads(c, u, p)
      PROVE  UNCHANGED tasks
  BY <1>6 DEF Family, ParentMissing, LockChild, LockParent, Aborts, CompleteBegins, CreateReads
<1>7. QED
  BY <1>2, <1>3, <1>4, <1>5, <1>6 DEF PgNext, Step, RowCall, Same

(* The rows of the namespace form a forest whose roots have no parent, or   *)
(* one in another namespace.                                                *)
Forest ==
  /\ Known \cap Foreign = {}
  /\ \A u \in Known : tasks[u].parent \in Referable(Known)
  /\ ParentsAcyclic

LEMMA ForestStep == ASSUME PgInv, Forest, [PgNext]_pgVars PROVE Forest'
<1>1. /\ Known \subseteq Known' /\ \A u \in Known : tasks'[u].parent = tasks[u].parent
      /\ Known' = Known \/ \E c \in Conns : CreateInserts(c)
  BY RowsPermanent DEF pgVars, Known
<1>2. CASE Known' = Known
  BY <1>1, <1>2 DEF Forest, Referable, ParentsAcyclic
<1>3. ASSUME NEW c \in Conns, CreateInserts(c)
      PROVE  Forest'
  <2> DEFINE t == txn[c].task
             p == txn[c].link
  <2>1. t \in Tasks \ Foreign /\ txn[c].stage = "creating"
    BY <1>3 DEF PgInv, TxnInv, Txn, Standing, CreateInserts
  <2>2. t \notin Known /\ p \in Referable(Known)
    BY <1>3 DEF CreateInserts
  <2>3. PICK ds \in DepSets : Put(t, NewTask(p, ds))
    BY <1>3 DEF CreateInserts
  <2>4. Known' = Known \cup {t} /\ tasks'[t].parent = p
    BY <2>3 DEF Put, Known, NewTask
  <2> HIDE DEF t, p
  <2>5. t \notin Referable(Known)
    BY <2>1, <2>2, BoardAssumption DEF Referable
  <2>6. \A u \in Known' : tasks'[u].parent \in Referable(Known)
    BY <1>1, <2>2, <2>4 DEF Forest
  <2>7. ParentsAcyclic'
    <3> SUFFICES ASSUME NEW C \in SUBSET Known', \A u \in C : tasks'[u].parent \in C
                 PROVE  C = {}
      BY DEF ParentsAcyclic
    <3> DEFINE D == C \ {t}
    <3>1. D \in SUBSET Known
      BY <2>4
    <3>2. \A u \in D : tasks[u].parent \in D
      BY <1>1, <2>5, <2>6, <3>1
    <3>3. D = {}
      BY <3>1, <3>2 DEF Forest, ParentsAcyclic
    <3>4. QED
      BY <2>5, <2>6, <3>3
  <2>8. QED
    BY <2>1, <2>4, <2>6, <2>7 DEF Forest, Referable
<1>4. QED
  BY <1>1, <1>2, <1>3

LEMMA ForestHolds == PgSpec => []Forest
<1>1. PgInit => Forest
  BY PgAssumption DEF PgInit, Forest, Known, ParentsAcyclic
<1>2. PgInv /\ Forest /\ [PgNext]_pgVars => Forest'
  BY ForestStep
<1>3. QED
  BY <1>1, <1>2, PgInvHolds, PTL DEF PgSpec

(* No task of the table is its own ancestor, although a creation walks up   *)
(* the parents without locks and others insert meanwhile: a row refers to   *)
(* rows that are there and keeps its parent.                                *)
THEOREM PgAcyclicCorrect == PgSpec => []ParentsAcyclic
<1>1. Forest => ParentsAcyclic
  BY DEF Forest
<1>2. QED
  BY <1>1, ForestHolds, PTL

(* The row locks of a completion, its tasks and the parents it counts. *)
LEMMA TxnFacts ==
  ASSUME PgInv, NEW c \in Conns
  PROVE  /\ DOMAIN txn = Conns /\ txn[c] \in TxnType
         /\ DOMAIN txn[c].draft \subseteq txn[c].held /\ txn[c].held \subseteq Known
         /\ txn[c].want \subseteq Known /\ Known \subseteq Tasks
         /\ DOMAIN txn[c].seen \subseteq Tasks
         /\ \A p \in DOMAIN txn[c].seen : txn[c].seen[p] \subseteq Tasks
         /\ NoTask \notin Tasks
         /\ txn[c].stage \in {"family", "children"} => txn[c].link \in Tasks
         /\ txn[c].stage = "children" => txn[c].link \in DOMAIN txn[c].seen
         /\ \A u \in Known : tasks[u] \in GraphTaskItem /\ tasks[u].parent \in Tasks \cup {NoTask}
<1>1. DOMAIN txn = Conns /\ Txn(c) /\ TypeOK
  BY DEF PgInv, TxnInv
<1>2. txn[c] \in TxnType /\ Locks(c) /\ Standing(c)
  BY <1>1 DEF Txn
<1>3. DOMAIN txn[c].seen \subseteq Tasks /\ \A p \in DOMAIN txn[c].seen : txn[c].seen[p] \subseteq Tasks
  BY <1>2 DEF TxnType, Seens
<1>4. \A u \in Known : tasks[u] \in GraphTaskItem /\ tasks[u].parent \in Tasks \cup {NoTask}
  BY <1>1 DEF TypeOK, GraphTaskItem
<1>5. QED
  BY <1>1, <1>2, <1>3, <1>4, BoardAssumption DEF Locks, Standing, TypeOK

(* The steps of others leave a completion what it has read and written. *)
LEMMA SerialKept ==
  ASSUME PgInv, NEW c \in Conns, txn'[c] = txn[c], Going(c) => Serial(c),
         Known \subseteq Known', \A u \in Known : tasks'[u].parent = tasks[u].parent,
         \A u \in txn[c].held : Same(u)
  PROVE  (Going(c) => Serial(c))'
<1> SUFFICES ASSUME Going(c)' PROVE Serial(c)'
  OBVIOUS
<1>1. Going(c) /\ Serial(c) /\ Passed(c)' = Passed(c)
  BY DEF Going, Passed
<1>2. /\ DOMAIN txn[c].draft \subseteq txn[c].held /\ txn[c].held \subseteq Known
      /\ txn[c].task \in DOMAIN txn[c].draft /\ Passed(c) \subseteq DOMAIN txn[c].draft
  BY <1>1, TxnFacts DEF Serial, Own, Passed
<1>3. Own(c)' /\ Climb(c)' /\ NoCircle(c)'
  <2>1. tasks'[txn[c].task] = tasks[txn[c].task]
    BY <1>2 DEF Same
  <2>2. Own(c)'
    BY <1>1, <2>1 DEF Serial, Own
  <2>3. Climb(c)'
    BY <1>1, <1>2 DEF Serial, Climb, Referable
  <2>4. NoCircle(c)'
    BY <1>1 DEF Serial, NoCircle
  <2>5. QED
    BY <2>2, <2>3, <2>4
<1>4. \A u \in txn[c].held : View(c)'[u] = View(c)[u]
  BY <1>2 DEF View, Same
<1>5. Counted(c)'
  <2>1. ASSUME NEW p \in Passed(c)
        PROVE  txn[c].draft[p] = Settled(tasks[p], {View(c)[k] : k \in txn[c].seen[p]})'
    <3>1. tasks'[p] = tasks[p] /\ txn[c].seen[p] \subseteq txn[c].held
      BY <1>1, <1>2 DEF Serial, Counted, Same
    <3>2. {View(c)'[k] : k \in txn[c].seen[p]} = {View(c)[k] : k \in txn[c].seen[p]}
      BY <1>4, <3>1
    <3>3. QED
      BY <1>1, <3>1, <3>2 DEF Serial, Counted
  <2>2. QED
    BY <1>1, <1>2, <2>1 DEF Serial, Counted
<1>6. Reached(c)'
  BY <1>1, <1>2 DEF Serial, Reached
<1>7. QED
  BY <1>3, <1>5, <1>6 DEF Serial

-----------------------------------------------------------------------------
(* The steps of the completion itself.                                      *)

(* The propagation never comes back to a row it has rewritten. *)
LEMMA ClimbsOn ==
  ASSUME PgInv, Forest, NEW c \in Conns, Own(c), Climb(c)
  PROVE  /\ txn[c].link \notin DOMAIN txn[c].draft
         /\ txn[c].link \in Known => tasks[txn[c].link].parent \notin DOMAIN txn[c].draft \cup {txn[c].link}
<1> DEFINE D == DOMAIN txn[c].draft
           p == txn[c].link
<1>1. D \subseteq Known /\ D # {}
  BY TxnFacts DEF Own
<1>2. \A u \in D : tasks[u].parent \in D \cup {p}
  BY DEF Climb, Passed
<1> HIDE DEF D, p
<1>3. p \notin D
  BY <1>1, <1>2 DEF Forest, ParentsAcyclic
<1>4. ASSUME p \in Known, tasks[p].parent \in D \cup {p}
      PROVE  FALSE
  <2>1. D \cup {p} \in SUBSET Known /\ \A u \in D \cup {p} : tasks[u].parent \in D \cup {p}
    BY <1>1, <1>2, <1>4
  <2>2. QED
    BY <2>1 DEF Forest, ParentsAcyclic
<1>5. QED
  BY <1>3, <1>4 DEF D, p

(* A step that changes no row and rewrites none. *)
LEMMA SameDraft ==
  ASSUME NEW c \in Conns, UNCHANGED tasks,
         txn'[c].task = txn[c].task, txn'[c].draft = txn[c].draft
  PROVE  Known' = Known /\ Passed(c)' = Passed(c) /\ View(c)' = View(c)
<1>1. Known' = Known /\ Passed(c)' = Passed(c)
  BY DEF Known, Passed
<1>2. View(c)' = View(c)
  BY <1>1 DEF View
<1>3. QED
  BY <1>1, <1>2

LEMMA CountedStep ==
  ASSUME NEW c \in Conns, UNCHANGED tasks,
         txn'[c].task = txn[c].task, txn'[c].draft = txn[c].draft,
         \A p \in DOMAIN txn'[c].seen : \A k \in txn'[c].seen[p] : k \in Known /\ tasks[k].parent = p,
         \A u \in DOMAIN txn[c].draft :
           tasks[u].parent \in DOMAIN txn'[c].seen => u \in txn'[c].seen[tasks[u].parent],
         \A p \in Passed(c) :
           /\ txn'[c].seen[p] \subseteq txn'[c].held
           /\ txn[c].draft[p] = Settled(tasks[p], {View(c)[k] : k \in txn'[c].seen[p]}),
         txn'[c].stage = "children"
           => txn'[c].seen[txn'[c].link] \subseteq txn'[c].held \cup txn'[c].want
  PROVE  Counted(c)'
<1>1. Known' = Known /\ Passed(c)' = Passed(c) /\ View(c)' = View(c)
  BY SameDraft
<1>2. \A p \in Passed(c) : {View(c)[k] : k \in txn'[c].seen[p]} = {View(c)'[k] : k \in txn'[c].seen[p]}
  BY <1>1
<1>3. \A p \in Passed(c)' :
        /\ txn'[c].seen[p] \subseteq txn'[c].held
        /\ txn'[c].draft[p] = Settled(tasks[p], {View(c)[k] : k \in txn[c].seen[p]})'
  BY <1>1, <1>2
<1>4. QED
  BY <1>1, <1>3 DEF Counted

LEMMA SerialBegins ==
  ASSUME PgInv, Forest, NEW c \in Conns, NEW t \in Tasks, CompleteBegins(c, t)
  PROVE  Serial(c)'
<1> DEFINE row == [tasks[t] EXCEPT !.status = "done", !.progress = "full"]
           x   == [NoTxn EXCEPT !.stage = Onward(tasks[t].parent), !.task = t,
                                !.link = tasks[t].parent, !.held = {t},
                                !.draft = Extend(Nothing, t, row)]
<1>1. t \in Known /\ UNCHANGED tasks /\ txn' = [txn EXCEPT ![c] = x] /\ DOMAIN txn = Conns
  BY TxnFacts DEF CompleteBegins
<1>2. DOMAIN Extend(Nothing, t, row) = {t} /\ Extend(Nothing, t, row)[t] = row
  BY NothingTyped DEF Extend
<1>3. tasks[t].parent \in Tasks \cup {NoTask} /\ NoTask \notin Tasks
  BY <1>1, TxnFacts
<1>4. /\ x.stage = Onward(tasks[t].parent) /\ x.task = t /\ x.link = tasks[t].parent
      /\ x.draft = Extend(Nothing, t, row) /\ DOMAIN x.seen = {}
  BY NothingTyped DEF NoTxn
<1> HIDE DEF x, row
<1>5. txn'[c] = x
  BY <1>1
<1>6. DOMAIN txn'[c].draft = {t} /\ Passed(c)' = {}
  BY <1>2, <1>4, <1>5 DEF Passed
<1>7. Own(c)'
  BY <1>1, <1>2, <1>4, <1>5 DEF Own, row
<1>8. Climb(c)'
  BY <1>1, <1>3, <1>4, <1>5, <1>6 DEF Climb, Onward, Forest, Referable, Known
<1>9. Counted(c)'
  BY <1>4, <1>5, <1>6 DEF Counted, Onward
<1>10. NoCircle(c)' /\ Reached(c)'
  BY <1>1, <1>4, <1>5, <1>6 DEF NoCircle, Reached
<1>11. QED
  BY <1>7, <1>8, <1>9, <1>10 DEF Serial

LEMMA SerialFamily ==
  ASSUME PgInv, Forest, NEW c \in Conns, Family(c), Going(c) => Serial(c)
  PROVE  Serial(c)'
<1> DEFINE x == txn[c]
           p == x.link
<1>1. /\ x.stage = "family" /\ UNCHANGED tasks
      /\ txn' = [txn EXCEPT ![c].stage = "children", ![c].want = Children(p),
                            ![c].seen = Extend(@, p, Children(p))]
  BY DEF Family
<1>2. Serial(c)
  BY <1>1 DEF Going
<1>3. /\ x \in TxnType /\ DOMAIN txn = Conns
      /\ DOMAIN x.draft \subseteq Known /\ DOMAIN x.seen = Passed(c)
  BY <1>1, <1>2, TxnFacts DEF Serial, Climb
<1>4. /\ txn'[c].stage = "children" /\ txn'[c].want = Children(p) /\ txn'[c].held = x.held
      /\ txn'[c].task = x.task /\ txn'[c].link = p /\ txn'[c].draft = x.draft
      /\ txn'[c].seen = Extend(x.seen, p, Children(p))
  BY <1>1, <1>3 DEF TxnType
<1>5. /\ DOMAIN txn'[c].seen = Passed(c) \cup {p} /\ txn'[c].seen[p] = Children(p)
      /\ \A q \in Passed(c) : q # p /\ txn'[c].seen[q] = x.seen[q]
  <2>1. p \notin Passed(c)
    BY <1>2, ClimbsOn DEF Serial, Passed
  <2>2. QED
    BY <1>1, <1>3, <1>4, <2>1 DEF Extend
<1> HIDE DEF p
<1>6. Passed(c)' = Passed(c) /\ View(c)' = View(c) /\ Known' = Known
  BY <1>1, <1>4, SameDraft
<1>7. Own(c)' /\ Climb(c)'
  BY <1>1, <1>2, <1>4, <1>5, <1>6 DEF Serial, Own, Climb, p
<1>8. Counted(c)'
  <2>1. \A k \in Children(p) : k \in Known /\ tasks[k].parent = p
    BY DEF Children
  <2>2. \A q \in DOMAIN txn'[c].seen : \A k \in txn'[c].seen[q] : k \in Known /\ tasks[k].parent = q
    BY <1>2, <1>3, <1>5, <2>1 DEF Serial, Counted
  <2>3. \A u \in DOMAIN x.draft : tasks[u].parent \in DOMAIN txn'[c].seen => u \in txn'[c].seen[tasks[u].parent]
    BY <1>2, <1>3, <1>5 DEF Serial, Counted, Children
  <2>4. \A q \in Passed(c) :
          /\ txn'[c].seen[q] \subseteq x.held
          /\ x.draft[q] = Settled(tasks[q], {View(c)[k] : k \in txn'[c].seen[q]})
    BY <1>2, <1>5 DEF Serial, Counted
  <2>5. QED
    BY <1>1, <1>4, <1>5, <2>2, <2>3, <2>4, CountedStep
<1>9. NoCircle(c)'
  <2> SUFFICES ASSUME NEW C \in SUBSET Passed(c), \A u \in C : C \cap txn'[c].seen[u] # {}
               PROVE  C = {}
    BY <1>6 DEF NoCircle
  <2>1. \A u \in C : C \cap x.seen[u] # {}
    BY <1>5
  <2>2. QED
    BY <1>2, <2>1 DEF Serial, NoCircle
<1>10. Reached(c)'
  BY <1>1, <1>2, <1>4, <1>6 DEF Serial, Reached, p
<1>11. QED
  BY <1>7, <1>8, <1>9, <1>10 DEF Serial

LEMMA SerialLockChild ==
  ASSUME PgInv, NEW c \in Conns, LockChild(c), Going(c) => Serial(c)
  PROVE  Serial(c)'
<1>1. PICK u \in txn[c].want :
        txn' = [txn EXCEPT ![c].want = @ \ {u}, ![c].held = @ \cup {u}]
  BY DEF LockChild
<1>2. txn[c].stage = "children" /\ UNCHANGED tasks
  BY DEF LockChild
<1>3. txn[c] \in TxnType /\ DOMAIN txn = Conns
  BY TxnFacts
<1>4. /\ txn'[c].stage = txn[c].stage /\ txn'[c].want = txn[c].want \ {u}
      /\ txn'[c].held = txn[c].held \cup {u} /\ txn'[c].task = txn[c].task
      /\ txn'[c].link = txn[c].link /\ txn'[c].draft = txn[c].draft /\ txn'[c].seen = txn[c].seen
  BY <1>1, <1>3 DEF TxnType
<1>5. Serial(c)
  BY <1>2 DEF Going
<1>6. Passed(c)' = Passed(c) /\ View(c)' = View(c) /\ Known' = Known
  BY <1>2, <1>4, SameDraft
<1>7. Own(c)' /\ Climb(c)'
  BY <1>2, <1>4, <1>5, <1>6 DEF Serial, Own, Climb
<1>8. Counted(c)'
  <2>1. txn[c].seen[txn[c].link] \subseteq txn'[c].held \cup txn'[c].want
    BY <1>2, <1>4, <1>5 DEF Serial, Counted
  <2>2. \A p \in Passed(c) :
          /\ txn[c].seen[p] \subseteq txn'[c].held
          /\ txn[c].draft[p] = Settled(tasks[p], {View(c)[k] : k \in txn[c].seen[p]})
    BY <1>4, <1>5 DEF Serial, Counted
  <2>3. /\ \A p \in DOMAIN txn[c].seen : \A k \in txn[c].seen[p] : k \in Known /\ tasks[k].parent = p
        /\ \A t \in DOMAIN txn[c].draft :
             tasks[t].parent \in DOMAIN txn[c].seen => t \in txn[c].seen[tasks[t].parent]
    BY <1>5 DEF Serial, Counted
  <2>4. QED
    BY <1>2, <1>4, <2>1, <2>2, <2>3, CountedStep
<1>9. NoCircle(c)' /\ Reached(c)'
  BY <1>2, <1>4, <1>5, <1>6 DEF Serial, NoCircle, Reached
<1>10. QED
  BY <1>7, <1>8, <1>9 DEF Serial

LEMMA SerialParentMissing ==
  ASSUME PgInv, Forest, NEW c \in Conns, ParentMissing(c), Going(c) => Serial(c)
  PROVE  Serial(c)'
<1> DEFINE x == txn[c]
<1>1. /\ x.stage = "children" /\ x.link \notin Known /\ UNCHANGED tasks
      /\ txn' = [txn EXCEPT ![c].stage = "commit",
                            ![c].seen = [p \in DOMAIN @ \ {x.link} |-> @[p]]]
  BY DEF ParentMissing
<1>2. Serial(c)
  BY <1>1 DEF Going
<1>3. /\ x \in TxnType /\ DOMAIN txn = Conns /\ DOMAIN x.draft \subseteq Known
      /\ DOMAIN x.seen = Passed(c) \cup {x.link} /\ x.link \notin Passed(c)
  BY <1>1, <1>2, TxnFacts DEF Serial, Climb
<1>4. /\ txn'[c].stage = "commit" /\ txn'[c].held = x.held /\ txn'[c].task = x.task
      /\ txn'[c].link = x.link /\ txn'[c].draft = x.draft
      /\ txn'[c].seen = [p \in DOMAIN x.seen \ {x.link} |-> x.seen[p]]
  BY <1>1, <1>3 DEF TxnType
<1>5. DOMAIN txn'[c].seen = Passed(c) /\ \A p \in Passed(c) : txn'[c].seen[p] = x.seen[p]
  BY <1>3, <1>4
<1>6. Passed(c)' = Passed(c) /\ View(c)' = View(c) /\ Known' = Known
  BY <1>1, <1>4, SameDraft
<1>7. Own(c)'
  BY <1>1, <1>2, <1>4 DEF Serial, Own
<1>8. Climb(c)'
  BY <1>1, <1>2, <1>3, <1>4, <1>5, <1>6 DEF Serial, Climb, Referable
<1>9. Counted(c)'
  <2>1. \A u \in DOMAIN x.draft : tasks[u].parent \in Passed(c) => u \in txn'[c].seen[tasks[u].parent]
    BY <1>2, <1>3, <1>5 DEF Serial, Counted
  <2>2. \A q \in Passed(c) :
          /\ txn'[c].seen[q] \subseteq x.held
          /\ x.draft[q] = Settled(tasks[q], {View(c)[k] : k \in txn'[c].seen[q]})
    BY <1>2, <1>5 DEF Serial, Counted
  <2>3. \A q \in Passed(c) : \A k \in txn'[c].seen[q] : k \in Known /\ tasks[k].parent = q
    BY <1>2, <1>3, <1>5 DEF Serial, Counted
  <2>4. QED
    BY <1>1, <1>4, <1>5, <2>1, <2>2, <2>3, CountedStep
<1>10. NoCircle(c)'
  <2> SUFFICES ASSUME NEW C \in SUBSET Passed(c), \A u \in C : C \cap txn'[c].seen[u] # {}
               PROVE  C = {}
    BY <1>6 DEF NoCircle
  <2>1. \A u \in C : C \cap x.seen[u] # {}
    BY <1>5
  <2>2. QED
    BY <1>2, <2>1 DEF Serial, NoCircle
<1>11. Reached(c)'
  BY <1>1, <1>2, <1>4, <1>6 DEF Serial, Reached
<1>12. QED
  BY <1>7, <1>8, <1>9, <1>10, <1>11 DEF Serial

(* The parent that is rewritten is neither the row completed nor a child of *)
(* one passed.                                                              *)
LEMMA SerialLockParent ==
  ASSUME PgInv, Forest, NEW c \in Conns, LockParent(c), Going(c) => Serial(c)
  PROVE  Serial(c)'
<1> DEFINE x   == txn[c]
           p   == x.link
           q   == tasks[p].parent
           row == Settled(View(c)[p], {View(c)[u] : u \in x.seen[p]})
<1>1. /\ x.stage = "children" /\ x.want = {} /\ p \in Known /\ UNCHANGED tasks
      /\ txn' = [txn EXCEPT ![c].stage = Onward(row.parent), ![c].link = row.parent,
                            ![c].held = @ \cup {p}, ![c].draft = Extend(@, p, row)]
  BY DEF LockParent
<1>2. Serial(c)
  BY <1>1 DEF Going
<1>3. /\ x \in TxnType /\ DOMAIN txn = Conns /\ DOMAIN x.draft \subseteq Known
      /\ DOMAIN x.seen = Passed(c) \cup {p} /\ p \notin Passed(c)
      /\ DOMAIN x.seen \subseteq Tasks /\ NoTask \notin Tasks
      /\ \A k \in DOMAIN x.seen : x.seen[k] \subseteq Tasks
      /\ tasks[p] \in GraphTaskItem /\ q \in Tasks \cup {NoTask}
  BY <1>1, <1>2, TxnFacts DEF Serial, Climb
<1>4. row.parent = q
  <2>1. TypeOK /\ Txn(c)
    BY DEF PgInv, TxnInv
  <2>2. View(c)[p] \in GraphTaskItem /\ Rewritten(tasks[p], View(c)[p])
    BY <1>1, <2>1, ViewTyped
  <2>3. View(c)[p].parent = q
    BY <1>3, <2>2, RewrittenFields
  <2>4. Rewritten(View(c)[p], row)
    BY <2>2, SettledRow
  <2> HIDE DEF row
  <2>5. QED
    BY <2>2, <2>3, <2>4, RewrittenFields
<1> HIDE DEF row
<1>5. /\ txn'[c].stage = Onward(q) /\ txn'[c].want = {} /\ txn'[c].held = x.held \cup {p}
      /\ txn'[c].task = x.task /\ txn'[c].link = q /\ txn'[c].seen = x.seen
      /\ txn'[c].draft = Extend(x.draft, p, row)
  BY <1>1, <1>3, <1>4 DEF TxnType
<1>6. /\ DOMAIN txn'[c].draft = DOMAIN x.draft \cup {p} /\ txn'[c].draft[p] = row
      /\ \A u \in DOMAIN x.draft : u # p => txn'[c].draft[u] = x.draft[u]
  BY <1>5 DEF Extend
<1> HIDE DEF p, q
<1>7. q \notin Passed(c) \cup {p}
  BY <1>1, <1>2, ClimbsOn DEF Serial, Passed, p, q
<1>8. p # x.task
  BY <1>2, ClimbsOn DEF Serial, Own, p
<1>9. p \notin DOMAIN x.draft /\ Passed(c)' = Passed(c) \cup {p} /\ Known' = Known
  BY <1>1, <1>3, <1>5, <1>6, <1>8 DEF Passed, Known
<1>10. \A u \in Passed(c) \cup {p} : p \notin x.seen[u] /\ q \notin x.seen[u] \cap {NoTask}
  BY <1>2, <1>3, <1>7 DEF Serial, Counted, q
<1>11. \A u \in Known : u # p => View(c)'[u] = View(c)[u]
  BY <1>1, <1>6, <1>9 DEF View
<1>12. row = Settled(tasks[p], {View(c)[u] : u \in x.seen[p]})
  <2>1. View(c)[p] = tasks[p]
    BY <1>1, <1>9 DEF View, p
  <2>2. QED
    BY <2>1 DEF row, p
<1>13. Own(c)'
  <2>1. /\ x.task \in DOMAIN x.draft
        /\ x.draft[x.task] = [tasks[x.task] EXCEPT !.status = "done", !.progress = "full"]
    BY <1>2 DEF Serial, Own
  <2>2. /\ x.task \in DOMAIN txn'[c].draft /\ txn'[c].draft[x.task] = x.draft[x.task]
        /\ tasks' = tasks /\ txn'[c].task = x.task
    BY <1>1, <1>5, <1>6, <1>8, <2>1
  <2> HIDE DEF x
  <2>3. QED
    BY <2>1, <2>2 DEF Own
<1>14. Climb(c)'
  <2>1. \A u \in DOMAIN x.draft : tasks[u].parent \in Passed(c) \cup {p}
    BY <1>2 DEF Serial, Climb, p
  <2>2. \A u \in DOMAIN x.draft \cup {p} : tasks[u].parent \in Passed(c) \cup {p} \cup {q}
    BY <2>1 DEF q
  <2>3. txn'[c].stage # "children" /\ (txn'[c].stage = "commit" => q = NoTask)
    BY <1>5 DEF Onward
  <2>4. q \in Referable(Known)
    BY <1>1 DEF Forest, p, q
  <2>5. QED
    BY <1>1, <1>3, <1>5, <1>6, <1>9, <2>2, <2>3, <2>4 DEF Climb
<1>15. Counted(c)'
  <2>1. \A k \in Passed(c) \cup {p} : x.seen[k] \subseteq Known /\ x.seen[k] \subseteq x.held
    BY <1>1, <1>2, <1>3 DEF Serial, Counted, p
  <2>2. ASSUME NEW k \in Passed(c) \cup {p}
        PROVE  txn'[c].draft[k] = Settled(tasks[k], {View(c)[u] : u \in x.seen[k]})'
    <3>1. {View(c)'[u] : u \in x.seen[k]} = {View(c)[u] : u \in x.seen[k]}
      BY <1>10, <1>11, <2>1
    <3>2. txn'[c].draft[k] = Settled(tasks[k], {View(c)[u] : u \in x.seen[k]})
      BY <1>2, <1>3, <1>6, <1>12 DEF Serial, Counted, Passed
    <3>3. QED
      BY <1>1, <1>5, <3>1, <3>2
  <2>3. \A u \in DOMAIN x.draft \cup {p} : tasks[u].parent \in DOMAIN x.seen => u \in x.seen[tasks[u].parent]
    BY <1>2, <1>3, <1>7 DEF Serial, Counted, q
  <2>4. \A k \in DOMAIN x.seen : \A u \in x.seen[k] : u \in Known /\ tasks[u].parent = k
    BY <1>2 DEF Serial, Counted
  <2>5. \A k \in Passed(c)' :
          /\ txn'[c].seen[k] \subseteq txn'[c].held
          /\ txn'[c].draft[k] = Settled(tasks[k], {View(c)[u] : u \in txn[c].seen[k]})'
    BY <1>5, <1>9, <2>1, <2>2
  <2>6. txn'[c].stage # "children"
    BY <1>5 DEF Onward
  <2>7. QED
    BY <1>1, <1>5, <1>6, <1>9, <2>3, <2>4, <2>5, <2>6 DEF Counted
<1>16. NoCircle(c)'
  <2> SUFFICES ASSUME NEW C \in SUBSET (Passed(c) \cup {p}), \A u \in C : C \cap x.seen[u] # {}
               PROVE  C = {}
    BY <1>5, <1>9 DEF NoCircle
  <2>1. \A u \in C : (C \ {p}) \cap x.seen[u] # {}
    BY <1>10
  <2>2. C \ {p} = {}
    BY <1>2, <2>1 DEF Serial, NoCircle
  <2>3. QED
    BY <2>1, <2>2
<1>17. Reached(c)'
  <2> SUFFICES ASSUME NEW S \in SUBSET (Tasks \cup {NoTask}), tasks[x.task].parent \in S,
                      \A u \in S \cap (Passed(c) \cup {p}) : tasks[u].parent \in S
               PROVE  Passed(c) \cup {p} \cup {q} \subseteq S
    BY <1>1, <1>5, <1>9 DEF Reached
  <2>1. Passed(c) \cup {p} \subseteq S
    BY <1>2 DEF Serial, Reached, p
  <2>2. QED
    BY <2>1 DEF q
<1>18. QED
  BY <1>13, <1>14, <1>15, <1>16, <1>17 DEF Serial

LEMMA SerialStep ==
  ASSUME PgInv, Forest, SerialInv, [PgNext]_pgVars
  PROVE  SerialInv'
<1> SUFFICES ASSUME NEW c \in Conns PROVE (Going(c) => Serial(c))'
  BY DEF SerialInv
<1>0. Going(c) => Serial(c)
  BY DEF SerialInv
<1>1. DOMAIN txn = Conns /\ \A d \in Conns : txn[d].held \subseteq Known
  BY TxnFacts
<1>2. CASE txn'[c] = txn[c] /\ \A u \in txn[c].held : Same(u)
  <2>1. Known \subseteq Known' /\ \A u \in Known : tasks'[u].parent = tasks[u].parent
    BY RowsPermanent DEF pgVars, Known
  <2>2. QED
    BY <1>0, <1>2, <2>1, SerialKept
<1>3. CASE UNCHANGED pgVars
  BY <1>2, <1>3 DEF pgVars, Same
<1>4. ASSUME NEW d \in Conns, PgNext, UNCHANGED tasks,
             \/ Family(d) \/ ParentMissing(d) \/ LockChild(d) \/ LockParent(d) \/ Aborts(d)
             \/ \E t \in Tasks : \/ CompleteBegins(d, t)
                                 \/ \E p \in Tasks \cup {NoTask} : CreateReads(d, t, p)
      PROVE  (Going(c) => Serial(c))'
  <2>1. CASE d # c
    <3>1. txn'[c] = txn[c]
      BY <1>1, <1>4, <2>1 DEF Family, ParentMissing, LockChild, LockParent, Aborts, CompleteBegins, CreateReads
    <3>2. QED
      BY <1>2, <1>4, <3>1 DEF Same
  <2>2. CASE d = c
    <3>1. CASE Aborts(c)
      BY <1>1, <3>1, NoTxnFields DEF Aborts, Going
    <3>2. ASSUME NEW t \in Tasks, NEW p \in Tasks \cup {NoTask}, CreateReads(c, t, p)
          PROVE  ~Going(c)'
      BY <1>1, <3>2 DEF CreateReads, Going, NoTxn
    <3>3. QED
      BY <1>0, <1>4, <2>2, <3>1, <3>2, SerialBegins, SerialFamily, SerialLockChild,
         SerialLockParent, SerialParentMissing
  <2>3. QED
    BY <2>1, <2>2
<1>5. ASSUME NEW d \in Conns, CreateInserts(d) \/ Commit(d)
      PROVE  (Going(c) => Serial(c))'
  <2>1. txn' = [txn EXCEPT ![d] = NoTxn]
    BY <1>5 DEF CreateInserts, Commit
  <2>2. CASE d = c
    BY <1>1, <2>1, <2>2, NoTxnFields DEF Going
  <2>3. CASE d # c
    <3>1. txn'[c] = txn[c]
      BY <2>1, <2>3
    <3>2. CASE CreateInserts(d)
      BY <1>1, <1>2, <3>1, <3>2 DEF CreateInserts, Put, Known, Same
    <3>3. CASE Commit(d)
      <4>1. \A u \in Known \ txn[d].held : Same(u)
        BY <3>3, CommitEffect
      <4>2. txn[c].held \cap txn[d].held = {}
        BY <2>3 DEF PgInv, TxnInv, Apart
      <4>3. QED
        BY <1>1, <1>2, <3>1, <4>1, <4>2
    <3>4. QED
      BY <1>5, <3>2, <3>3
  <2>4. QED
    BY <2>2, <2>3
<1>6. ASSUME UNCHANGED txn, NEW t \in Tasks, RowCall(t)
      PROVE  (Going(c) => Serial(c))'
  <2>1. PICK item \in GraphTaskItem : RowEdit(t, item)
    BY <1>6, RowCallItem
  <2>2. \A u \in Known : u # t => Same(u)
    BY <2>1, RowEffect DEF RowEdit
  <2>3. Unlocked(t)
    BY <1>6, RowCallItem
  <2>4. QED
    BY <1>1, <1>2, <1>6, <2>2, <2>3 DEF Unlocked
<1>7. QED
  BY <1>3, <1>4, <1>5, <1>6 DEF PgNext, Step, RowCall, Family, ParentMissing, LockChild,
     LockParent, Aborts, CompleteBegins, CreateReads

LEMMA SerialHolds == PgSpec => []SerialInv
<1>1. PgInit => SerialInv
  BY NoTxnFields DEF PgInit, SerialInv, Going
<1>2. PgInv /\ Forest /\ SerialInv /\ [PgNext]_pgVars => SerialInv'
  BY SerialStep
<1>3. QED
  BY <1>1, <1>2, PgInvHolds, ForestHolds, PTL DEF PgSpec
-----------------------------------------------------------------------------
(* The board that the completion of c meets.                                *)

BoardMet(c) == Known \ Missed(c)

LEMMA MetOperators ==
  ASSUME NEW c \in Conns, NEW t
  PROVE  /\ Met(c)!Known = BoardMet(c)
         /\ Met(c)!Done = {u \in BoardMet(c) : tasks[u].status = "done"}
         /\ \A p : Met(c)!Children(p) = {u \in BoardMet(c) : tasks[u].parent = p}
         /\ \A S : Met(c)!ParentClosed(S)
                   <=> \A u \in S \cap BoardMet(c) : tasks[u].parent \in S \cup {NoTask}
         /\ t \in BoardMet(c) => Met(c)!Ancestors(t) = BoardMet(c) \cap Met(c)!Chain(tasks[t].parent)
<1>1. Met(c)!Known = BoardMet(c)
  BY DEF Met!Known, BoardMet
<1>2. \A u \in BoardMet(c) : [v \in Known \ Missed(c) |-> tasks[v]][u] = tasks[u]
  BY DEF BoardMet
<1>3. Met(c)!Done = {u \in BoardMet(c) : tasks[u].status = "done"}
  BY <1>1, <1>2 DEF Met!Done
<1>4. \A p : Met(c)!Children(p) = {u \in BoardMet(c) : tasks[u].parent = p}
  BY <1>1, <1>2 DEF Met!Children
<1>5. \A S : Met(c)!ParentClosed(S)
             <=> \A u \in S \cap BoardMet(c) : tasks[u].parent \in S \cup {NoTask}
  BY <1>1, <1>2 DEF Met!ParentClosed
<1>6. t \in BoardMet(c) => Met(c)!Ancestors(t) = BoardMet(c) \cap Met(c)!Chain(tasks[t].parent)
  BY <1>1, <1>2 DEF Met!Ancestors
<1>7. QED
  BY <1>1, <1>3, <1>4, <1>5, <1>6

(* When the completion commits, it has met its tasks and their children, but *)
(* for those it has missed.                                                  *)
LEMMA MetFacts ==
  ASSUME PgInv, Forest, NEW c \in Conns, txn[c].stage = "commit", Serial(c)
  PROVE  /\ DOMAIN txn[c].draft \subseteq BoardMet(c)
         /\ txn[c].link \notin BoardMet(c)
         /\ \A p \in Passed(c) : Met(c)!Children(p) = txn[c].seen[p]
         /\ Met(c)!Ancestors(txn[c].task) = Passed(c)
         /\ \A u \in Missed(c) : u \notin DOMAIN txn[c].draft
<1> DEFINE x == txn[c]
           t == x.task
           K == BoardMet(c)
<1>1. /\ DOMAIN x.draft \subseteq Known /\ Known \subseteq Tasks /\ NoTask \notin Tasks
      /\ \A u \in Known : tasks[u].parent \in Tasks \cup {NoTask}
      /\ t \in DOMAIN x.draft /\ Passed(c) \subseteq DOMAIN x.draft
      /\ DOMAIN x.seen = Passed(c) /\ x.link \notin Known
  BY TxnFacts DEF Serial, Own, Climb, Passed, Forest
<1>2. \A u \in Missed(c) : u \notin DOMAIN x.draft
  BY <1>1 DEF Missed, Serial, Counted
<1>3. DOMAIN x.draft \subseteq K /\ x.link \notin K
  BY <1>1, <1>2 DEF BoardMet, Missed
<1>4. ASSUME NEW p \in Passed(c)
      PROVE  Met(c)!Children(p) = x.seen[p]
  <2>1. ASSUME NEW u \in K, tasks[u].parent = p
        PROVE  u \in x.seen[p]
    BY <1>1, <2>1 DEF BoardMet, Missed
  <2>2. ASSUME NEW u \in x.seen[p]
        PROVE  u \in Known /\ tasks[u].parent = p /\ u # x.link
    BY <1>1 DEF Serial, Counted, Climb
  <2>3. \A u \in x.seen[p] : u \in K
    BY <1>1, <2>2 DEF BoardMet, Missed
  <2>4. Met(c)!Children(p) = {u \in K : tasks[u].parent = p}
    BY MetOperators
  <2> HIDE DEF K
  <2>5. {u \in K : tasks[u].parent = p} = x.seen[p]
    <3>1. x.seen[p] \subseteq Tasks
      BY <1>1, TxnFacts
    <3>2. QED
      BY <2>1, <2>2, <2>3
  <2>6. QED
    BY <2>4, <2>5
<1>5. Met(c)!Ancestors(t) = K \cap Met(c)!Chain(tasks[t].parent)
  BY <1>1, <1>3, MetOperators
<1>6. CASE tasks[t].parent = NoTask
  <2>1. Met(c)!Chain(NoTask) = {}
    BY DEF Met!Chain
  <2>2. Passed(c) \subseteq {NoTask}
    BY <1>1, <1>6 DEF Serial, Reached
  <2>3. QED
    BY <1>1, <1>2, <1>3, <1>4, <1>5, <1>6, <2>1, <2>2
<1>7. CASE tasks[t].parent # NoTask
  <2> DEFINE top == tasks[t].parent
  <2>1. Met(c)!Chain(top) = {u \in Tasks : \A S \in SUBSET Tasks : top \in S /\ Met(c)!ParentClosed(S) => u \in S}
    BY <1>7 DEF Met!Chain
  <2>2. ASSUME NEW u \in Passed(c), NEW S \in SUBSET Tasks, top \in S, Met(c)!ParentClosed(S)
        PROVE  u \in S
    <3>1. \A v \in S \cap K : tasks[v].parent \in S \cup {NoTask}
      BY <2>2, MetOperators
    <3>2. Passed(c) \subseteq S \cup {NoTask}
      <4> DEFINE R == S \cup {NoTask}
      <4>1. R \in SUBSET (Tasks \cup {NoTask}) /\ tasks[t].parent \in R
        BY <2>2
      <4>2. \A v \in R \cap Passed(c) : tasks[v].parent \in R
        BY <1>1, <1>3, <3>1
      <4>3. QED
        BY <4>1, <4>2 DEF Serial, Reached
    <3>3. QED
      BY <1>1, <3>2
  <2>3. Passed(c) \subseteq K \cap Met(c)!Chain(top)
    BY <1>1, <1>3, <2>1, <2>2
  <2>4. ASSUME NEW u \in K \cap Met(c)!Chain(top)
        PROVE  u \in Passed(c)
    <3> DEFINE S == (Passed(c) \cup {x.link}) \cap Tasks
    <3>1. \A v \in DOMAIN x.draft : tasks[v].parent \in S \cup {NoTask}
      BY <1>1 DEF Serial, Climb
    <3>2. top \in S
      BY <1>1, <1>7, <3>1
    <3>3. Met(c)!ParentClosed(S)
      BY <1>1, <1>3, <3>1, MetOperators
    <3>4. u \in S
      BY <2>1, <3>2, <3>3
    <3>5. QED
      BY <1>3, <3>4
  <2>5. QED
    BY <1>2, <1>3, <1>4, <1>5, <2>3, <2>4
<1>8. QED
  BY <1>6, <1>7

(* The rows that are DONE, or have progress 1.0, as the completion has      *)
(* written them are those that one complete_task makes so.                  *)
LEMMA MetDone ==
  ASSUME PgInv, Forest, NEW c \in Conns, txn[c].stage = "commit", Serial(c), NEW u \in BoardMet(c)
  PROVE  /\ u \in Met(c)!DoneAfter(txn[c].task) <=> View(c)[u].status = "done"
         /\ u \in Met(c)!FullAfter(txn[c].task) <=> View(c)[u].progress = "full"
<1> DEFINE x == txn[c]
           t == x.task
           K == BoardMet(c)
           V == View(c)
           done == {v \in K : V[v].status = "done"}
           full == {v \in K : V[v].progress = "full"}
<1>1. /\ t \in DOMAIN x.draft /\ DOMAIN x.draft \subseteq K /\ K \subseteq Known
      /\ DOMAIN x.draft = Passed(c) \cup {t}
      /\ Met(c)!Known = K /\ Met(c)!Ancestors(t) = Passed(c)
      /\ \A p \in Passed(c) : Met(c)!Children(p) = x.seen[p]
  <2>1. t \in DOMAIN x.draft /\ DOMAIN x.draft = Passed(c) \cup {t} /\ K \subseteq Known
    BY DEF BoardMet, Serial, Own, Passed
  <2>2. Met(c)!Known = K
    BY MetOperators
  <2>3. QED
    BY <2>1, <2>2, MetFacts
<1>2. \A p \in Passed(c) : x.seen[p] \subseteq K
  BY <1>1, MetOperators
<1>3. \A v \in K : tasks[v] \in GraphTaskItem
  BY <1>1, TxnFacts
<1>4. V[t] = [tasks[t] EXCEPT !.status = "done", !.progress = "full"]
  BY <1>1 DEF View, Serial, Own
<1>5. V[t].status = "done" /\ V[t].progress = "full"
  BY <1>1, <1>3, <1>4 DEF GraphTaskItem
<1>6. \A v \in K \ (Passed(c) \cup {t}) : V[v] = tasks[v]
  BY <1>1 DEF View
<1>7. ASSUME NEW p \in Passed(c)
      PROVE  /\ V[p].status = IF \A k \in x.seen[p] : V[k].status = "done" THEN "done" ELSE tasks[p].status
             /\ V[p].progress = "full" <=> \A k \in x.seen[p] : V[k].progress = "full"
  <2>1. V[p] = Settled(tasks[p], {V[k] : k \in x.seen[p]})
    BY <1>1 DEF View, Serial, Counted
  <2>2. tasks[p] \in GraphTaskItem
    BY <1>1, <1>3
  <2> HIDE DEF V
  <2>3. QED
    BY <2>1, <2>2 DEF Settled, GraphTaskItem
<1> HIDE DEF V
<1>8. u \in Met(c)!DoneAfter(t) <=> u \in done
  <2>1. Met(c)!Done = {v \in K : tasks[v].status = "done"}
    BY MetOperators
  <2>2. ASSUME NEW v \in K, tasks[v].status = "done"
        PROVE  v \in done
    BY <1>5, <1>6, <1>7, <2>2
  <2>3. Met(c)!DoneClosed(t, done)
    <3>1. \A p \in Passed(c) : x.seen[p] \subseteq done => p \in done
      BY <1>1, <1>7
    <3>2. QED
      BY <1>1, <1>5, <2>1, <2>2, <3>1 DEF Met!DoneClosed
  <2>4. ASSUME NEW S \in SUBSET K, Met(c)!DoneClosed(t, S)
        PROVE  done \subseteq S
    <3> DEFINE C == done \ S
    <3>1. /\ t \in S /\ \A v \in K : tasks[v].status = "done" => v \in S
          /\ \A p \in Passed(c) : x.seen[p] \subseteq S => p \in S
      BY <1>1, <2>1, <2>4 DEF Met!DoneClosed
    <3>2. C \subseteq Passed(c)
      BY <1>6, <3>1
    <3>3. \A v \in C : C \cap x.seen[v] # {}
      <4> SUFFICES ASSUME NEW v \in C PROVE C \cap x.seen[v] # {}
        OBVIOUS
      <4>1. PICK k \in x.seen[v] : k \notin S
        BY <3>1, <3>2
      <4>2. V[k].status = "done"
        BY <1>1, <1>7, <3>1, <3>2
      <4>3. k \in C
        BY <1>2, <3>2, <4>1, <4>2
      <4>4. QED
        BY <4>3
    <3>4. QED
      BY <3>2, <3>3 DEF Serial, NoCircle
  <2>5. QED
    BY <1>1, <2>3, <2>4 DEF Met!DoneAfter
<1>9. u \in Met(c)!FullAfter(t) <=> u \in full
  <2> DEFINE off == {v \in K \ Passed(c) : tasks[v].progress = "full"}
  <2>1. ASSUME NEW S
        PROVE  Met(c)!FullClosed(t, S) <=> /\ {t} \cup off \subseteq S
                                           /\ \A p \in Passed(c) : x.seen[p] \subseteq S => p \in S
    <3>1. \A v \in K \ Passed(c) : [w \in Known \ Missed(c) |-> tasks[w]][v] = tasks[v]
      BY DEF BoardMet
    <3>2. Met(c)!FullClosed(t, S) <=> /\ {t} \cup off \subseteq S
                                      /\ \A p \in Passed(c) : Met(c)!Children(p) \subseteq S => p \in S
      BY <1>1, <3>1 DEF Met!FullClosed
    <3>3. QED
      BY <1>1, <3>2
  <2>2. Met(c)!FullClosed(t, full)
    <3>1. \A p \in Passed(c) : x.seen[p] \subseteq full => p \in full
      BY <1>1, <1>7
    <3>2. {t} \cup off \subseteq full
      BY <1>1, <1>5, <1>6
    <3>3. QED
      BY <2>1, <3>1, <3>2
  <2>3. ASSUME NEW S \in SUBSET K, Met(c)!FullClosed(t, S)
        PROVE  full \subseteq S
    <3> DEFINE C == full \ S
    <3>1. /\ {t} \cup off \subseteq S
          /\ \A p \in Passed(c) : x.seen[p] \subseteq S => p \in S
      BY <2>1, <2>3
    <3>2. C \subseteq Passed(c)
      BY <1>6, <3>1
    <3>3. \A v \in C : C \cap x.seen[v] # {}
      <4> SUFFICES ASSUME NEW v \in C PROVE C \cap x.seen[v] # {}
        OBVIOUS
      <4>1. PICK k \in x.seen[v] : k \notin S
        BY <3>1, <3>2
      <4>2. V[k].progress = "full"
        BY <1>7, <3>2
      <4>3. k \in C
        BY <1>2, <3>2, <4>1, <4>2
      <4>4. QED
        BY <4>3
    <3>4. QED
      BY <3>2, <3>3 DEF Serial, NoCircle
  <2>4. QED
    BY <1>1, <2>2, <2>3 DEF Met!FullAfter
<1>10. QED
  BY <1>8, <1>9 DEF V

(* Each row met is written as one complete_task writes it. *)
LEMMA MetCompleted ==
  ASSUME PgInv, Forest, NEW c \in Conns, txn[c].stage = "commit", Serial(c), NEW u \in BoardMet(c)
  PROVE  Met(c)!Completed(txn[c].task)[u] = View(c)[u]
<1> DEFINE t == txn[c].task
           old == tasks[u]
           row == View(c)[u]
           family == {View(c)[k] : k \in txn[c].seen[u]}
<1>1. u \in Known /\ old \in GraphTaskItem /\ row \in GraphTaskItem
  <2>1. u \in Known /\ TypeOK /\ Txn(c)
    BY DEF BoardMet, PgInv, TxnInv
  <2>2. QED
    BY <2>1, ViewTyped, TxnFacts
<1>2. /\ u \in Met(c)!DoneAfter(t) <=> row.status = "done"
      /\ u \in Met(c)!FullAfter(t) <=> row.progress = "full"
      /\ u \in Met(c)!Ancestors(t) <=> u \in Passed(c)
  BY MetDone, MetFacts
<1>3. Met(c)!Completed(t)[u] =
        [old EXCEPT !.status = IF row.status = "done" THEN "done" ELSE @,
                    !.progress = IF row.progress = "full" THEN "full"
                                 ELSE IF u \in Passed(c) THEN "some" ELSE @]
  <2>1. Met(c)!Known = BoardMet(c)
    BY MetOperators
  <2>2. [v \in Known \ Missed(c) |-> tasks[v]][u] = old
    BY DEF BoardMet
  <2>3. Met(c)!Completed(t)[u] =
          [[v \in Known \ Missed(c) |-> tasks[v]][u] EXCEPT
             !.status = IF u \in Met(c)!DoneAfter(t) THEN "done" ELSE @,
             !.progress = IF u \in Met(c)!FullAfter(t) THEN "full"
                          ELSE IF u \in Met(c)!Ancestors(t) THEN "some" ELSE @]
    BY <2>1 DEF Met!Completed
  <2>4. QED
    BY <1>2, <2>2, <2>3
<1>4. /\ row = [old EXCEPT !.status = row.status, !.progress = row.progress]
      /\ row.status \in {"done", old.status}
      /\ row.progress = "full" \/ row.progress = IF u \in Passed(c) THEN "some" ELSE old.progress
  <2>1. CASE u \notin DOMAIN txn[c].draft
    <3>1. row = old /\ u \notin Passed(c)
      BY <1>1, <2>1 DEF View, Passed
    <3>2. QED
      BY <1>1, <3>1 DEF GraphTaskItem
  <2>2. CASE u = t
    <3>1. row = [old EXCEPT !.status = "done", !.progress = "full"]
      BY <1>1, <2>2 DEF View, Serial, Own
    <3> HIDE DEF row
    <3>2. QED
      BY <1>1, <3>1 DEF GraphTaskItem
  <2>3. CASE u \in Passed(c)
    <3>1. row = Settled(old, family)
      BY <1>1, <2>3 DEF View, Serial, Counted, Passed
    <3> HIDE DEF row, family
    <3>2. QED
      BY <1>1, <2>3, <3>1 DEF Settled, GraphTaskItem
  <2>4. QED
    BY <2>1, <2>2, <2>3 DEF Passed
<1> HIDE DEF row, old
<1>5. [old EXCEPT !.status = IF row.status = "done" THEN "done" ELSE @,
                  !.progress = IF row.progress = "full" THEN "full"
                               ELSE IF u \in Passed(c) THEN "some" ELSE @] = row
  BY <1>1, <1>4 DEF GraphTaskItem
<1>6. QED
  BY <1>3, <1>5 DEF row

(* A completion that commits does to the table, as the other sessions have  *)
(* left it, what one atomic complete_task does, but for the tasks inserted  *)
(* too late for it to meet: for any number of sessions and tasks, whatever  *)
(* other sessions complete, create, claim, block and cancel between its     *)
(* reads, and in whatever order its row locks are granted.                  *)
THEOREM CompletionSerialCorrect == PgSpec => CompletionIsSerial
<1>1. ASSUME PgInv, Forest, SerialInv, [PgNext]_pgVars,
             NEW c \in Conns, txn[c].stage = "commit", tasks' # tasks, txn'[c].stage = "none",
             NEW u \in Known
      PROVE  tasks'[u] = IF u \in Missed(c) THEN tasks[u] ELSE Met(c)!Completed(txn[c].task)[u]
  <2>1. Commit(c)
    <3>1. ASSUME NEW d \in Conns, d # c, CreateInserts(d) \/ Commit(d)
          PROVE  txn'[c] = txn[c]
      <4>1. txn' = [txn EXCEPT ![d] = NoTxn]
        BY <3>1 DEF CreateInserts, Commit
      <4>2. DOMAIN txn = Conns
        BY <1>1, TxnFacts
      <4>3. QED
        BY <3>1, <4>1, <4>2
    <3>2. ~CreateInserts(c)
      BY <1>1 DEF CreateInserts
    <3>3. UNCHANGED txn => txn'[c] = txn[c]
      OBVIOUS
    <3>4. txn'[c] # txn[c]
      BY <1>1
    <3>5. ASSUME NEW d \in Conns,
                 \/ Family(d) \/ ParentMissing(d) \/ LockChild(d) \/ LockParent(d) \/ Aborts(d)
                 \/ \E t \in Tasks : \/ CompleteBegins(d, t)
                                     \/ \E p \in Tasks \cup {NoTask} : CreateReads(d, t, p)
          PROVE  FALSE
      BY <1>1, <3>5 DEF Family, ParentMissing, LockChild, LockParent, Aborts, CompleteBegins, CreateReads
    <3>6. QED
      BY <1>1, <3>1, <3>2, <3>3, <3>4, <3>5 DEF PgNext, Step, pgVars
  <2>2. tasks' = View(c) /\ Serial(c)
    BY <1>1, <2>1, CommitEffect DEF SerialInv, Going
  <2>3. CASE u \in Missed(c)
    BY <1>1, <2>2, <2>3, MetFacts DEF View
  <2>4. CASE u \notin Missed(c)
    BY <1>1, <2>2, <2>4, MetCompleted DEF BoardMet
  <2>5. QED
    BY <2>3, <2>4
<1>2. PgInv /\ Forest /\ SerialInv /\ [PgNext]_pgVars
        => [\A c \in Conns :
              (txn[c].stage = "commit" /\ tasks' # tasks /\ txn'[c].stage = "none")
                => \A u \in Known :
                     tasks'[u] = IF u \in Missed(c) THEN tasks[u]
                                 ELSE Met(c)!Completed(txn[c].task)[u]]_pgVars
  BY <1>1
<1>3. QED
  BY <1>2, PgInvHolds, ForestHolds, SerialHolds, PTL DEF PgSpec, CompletionIsSerial

-----------------------------------------------------------------------------
(* Waits.                                                                   *)

Underway(c) == txn[c].stage # "none"

(* A session between two calls has no rows locked. *)
Released == \A c \in Conns : ~Underway(c) => txn[c].held = {}

(* The step of a session leaves it in a transaction, or with nothing. *)
LEMMA SessionStep ==
  ASSUME PgInv, NEW c \in Conns,
         \/ Step(c) \/ LockChild(c) \/ LockParent(c) \/ Aborts(c)
         \/ \E t \in Tasks : \/ CompleteBegins(c, t)
                             \/ \E p \in Tasks \cup {NoTask} : CreateReads(c, t, p)
  PROVE  /\ txn'[c].stage # "none" \/ txn'[c] = NoTxn
         /\ \A d \in Conns \ {c} : txn'[d] = txn[d]
<1>1. DOMAIN txn = Conns /\ txn[c] \in TxnType
  BY DEF PgInv, TxnInv, Txn
<1>2. \A p : Onward(p) # "none"
  BY DEF Onward
<1>3. CASE CreateInserts(c) \/ Commit(c) \/ Aborts(c)
  BY <1>1, <1>3 DEF CreateInserts, Commit, Aborts
<1>4. CASE Family(c)
  BY <1>1, <1>4 DEF Family, TxnType
<1>5. CASE ParentMissing(c)
  BY <1>1, <1>5 DEF ParentMissing, TxnType
<1>6. CASE LockChild(c)
  BY <1>1, <1>6 DEF LockChild, TxnType
<1>7. CASE LockParent(c)
  BY <1>1, <1>2, <1>7 DEF LockParent, TxnType
<1>8. ASSUME NEW t \in Tasks, CompleteBegins(c, t)
      PROVE  txn'[c].stage # "none" /\ \A d \in Conns \ {c} : txn'[d] = txn[d]
  BY <1>1, <1>2, <1>8 DEF CompleteBegins, NoTxn
<1>9. ASSUME NEW t \in Tasks, NEW p \in Tasks \cup {NoTask}, CreateReads(c, t, p)
      PROVE  txn'[c].stage # "none" /\ \A d \in Conns \ {c} : txn'[d] = txn[d]
  BY <1>1, <1>9 DEF CreateReads, NoTxn
<1>10. QED
  BY <1>3, <1>4, <1>5, <1>6, <1>7, <1>8, <1>9 DEF Step

LEMMA ReleasedHolds == PgSpec => []Released
<1>1. PgInit => Released
  BY NoTxnFields DEF PgInit, Released
<1>2. ASSUME PgInv, Released, [PgNext]_pgVars
      PROVE  Released'
  <2>1. CASE UNCHANGED txn
    BY <1>2, <2>1 DEF Released, Underway
  <2>2. ASSUME NEW c \in Conns,
               \/ Step(c) \/ LockChild(c) \/ LockParent(c) \/ Aborts(c)
               \/ \E t \in Tasks : \/ CompleteBegins(c, t)
                                   \/ \E p \in Tasks \cup {NoTask} : CreateReads(c, t, p)
        PROVE  Released'
    <3>1. /\ txn'[c].stage # "none" \/ txn'[c] = NoTxn
          /\ \A d \in Conns \ {c} : txn'[d] = txn[d]
      BY <1>2, <2>2, SessionStep
    <3>2. QED
      BY <1>2, <3>1, NoTxnFields DEF Released, Underway
  <2>3. QED
    BY <1>2, <2>1, <2>2 DEF PgNext, pgVars
<1>3. PgInv /\ Released /\ [PgNext]_pgVars => Released'
  BY <1>2
<1>4. QED
  BY <1>1, <1>3, PgInvHolds, PTL DEF PgSpec

(* A session that cannot go on waits for one that has rows locked. *)
LEMMA HinderedWaits ==
  ASSUME NEW c \in Conns, Underway(c), ~GoesOn(c)
  PROVE  \E d \in Conns : WaitsFor(c, d) /\ txn[d].held # {}
<1>1. PICK u \in WaitedRows(c) : ~FreeFor(c, u)
  BY DEF GoesOn, Underway
<1>2. PICK d \in Conns \ {c} : u \in txn[d].held
  BY <1>1 DEF FreeFor
<1>3. QED
  BY <1>1, <1>2 DEF WaitsFor, WaitsAmong

(* Behind whom a session may wait, directly or through others, there is one *)
(* that goes on or that the database aborts, for any number of sessions and *)
(* of rows: no lock outlives its transaction, and the sessions that wait    *)
(* for each other's rows are among those deadlock detection looks at.       *)
THEOREM WaitsSeenCorrect == PgSpec => []WaitsAreSeen
<1>1. ASSUME Released, NEW S \in SUBSET Conns, NEW c \in S, Underway(c),
             \A b \in S, d \in Conns : WaitsFor(b, d) => d \in S,
             \A b \in S : ~GoesOn(b)
      PROVE  \E d \in S : Doomed(d)
  <2> DEFINE U == {b \in S : txn[b].held # {}}
  <2>1. ASSUME NEW b \in S, Underway(b)
        PROVE  \E d \in U : WaitsFor(b, d)
    BY <1>1, <2>1, HinderedWaits
  <2>2. PICK d \in U : WaitsFor(c, d)
    BY <1>1, <2>1
  <2>3. ASSUME NEW b \in U
        PROVE  WaitsAmong(b, U)
    BY <1>1, <2>1, <2>3 DEF Released, WaitsFor, WaitsAmong
  <2>4. QED
    BY <2>2, <2>3 DEF Doomed
<1>2. Released => WaitsAreSeen
  BY <1>1 DEF WaitsAreSeen, Underway
<1>3. QED
  BY <1>2, ReleasedHolds, PTL
-----------------------------------------------------------------------------
(* The table and the transactions.                                          *)

(* The children a transaction has read are rows of the table. *)
SeenKnown == \A c \in Conns : \A p \in DOMAIN txn[c].seen : txn[c].seen[p] \subseteq Known

LEMMA SeenStep == ASSUME PgInv, SeenKnown, [PgNext]_pgVars PROVE SeenKnown'
<1>1. Known \subseteq Known'
  BY RowsPermanent DEF pgVars, Known
<1>2. DOMAIN NoTxn.seen = {}
  BY NothingTyped DEF NoTxn
<1>3. CASE UNCHANGED txn
  BY <1>1, <1>3 DEF SeenKnown
<1>4. ASSUME NEW c \in Conns,
             \/ Step(c) \/ LockChild(c) \/ LockParent(c) \/ Aborts(c)
             \/ \E t \in Tasks : \/ CompleteBegins(c, t)
                                 \/ \E p \in Tasks \cup {NoTask} : CreateReads(c, t, p)
      PROVE  SeenKnown'
  <2>1. DOMAIN txn = Conns /\ txn[c] \in TxnType
    BY DEF PgInv, TxnInv, Txn
  <2>2. \A d \in Conns \ {c} : txn'[d] = txn[d]
    BY <1>4, SessionStep
  <2>3. \A p \in DOMAIN txn'[c].seen : txn'[c].seen[p] \subseteq Known'
    <3>1. CASE CreateInserts(c) \/ Commit(c) \/ Aborts(c)
      BY <1>2, <2>1, <3>1 DEF CreateInserts, Commit, Aborts
    <3>2. CASE Family(c)
      <4>1. txn'[c].seen = Extend(txn[c].seen, txn[c].link, Children(txn[c].link))
        BY <2>1, <3>2 DEF Family, TxnType
      <4>2. Children(txn[c].link) \subseteq Known
        BY DEF Children
      <4>3. QED
        BY <1>1, <4>1, <4>2 DEF Extend, SeenKnown
    <3>3. CASE ParentMissing(c)
      <4>1. txn'[c].seen = [p \in DOMAIN txn[c].seen \ {txn[c].link} |-> txn[c].seen[p]]
        BY <2>1, <3>3 DEF ParentMissing, TxnType
      <4>2. QED
        BY <1>1, <4>1 DEF SeenKnown
    <3>4. CASE LockChild(c)
      <4>1. txn'[c].seen = txn[c].seen
        BY <2>1, <3>4 DEF LockChild, TxnType
      <4>2. QED
        BY <1>1, <4>1 DEF SeenKnown
    <3>5. CASE LockParent(c)
      <4>1. txn'[c].seen = txn[c].seen
        BY <2>1, <3>5 DEF LockParent, TxnType
      <4>2. QED
        BY <1>1, <4>1 DEF SeenKnown
    <3>6. ASSUME NEW t \in Tasks,
                 \/ CompleteBegins(c, t)
                 \/ \E p \in Tasks \cup {NoTask} : CreateReads(c, t, p)
          PROVE  DOMAIN txn'[c].seen = {}
      <4>1. txn'[c].seen = NoTxn.seen
        BY <2>1, <3>6 DEF CompleteBegins, CreateReads, NoTxn
      <4>2. QED
        BY <1>2, <4>1
    <3>7. QED
      BY <1>4, <3>1, <3>2, <3>3, <3>4, <3>5, <3>6 DEF Step
  <2>4. QED
    BY <1>1, <2>2, <2>3 DEF SeenKnown
<1>5. QED
  BY <1>3, <1>4 DEF PgNext, pgVars

(* The table holds task records, a session locks and reads rows of it only  *)
(* and has written none it has not locked.                                  *)
THEOREM PgTypeCorrect == PgSpec => []PgTypeOK
<1>1. PgInit => SeenKnown
  BY NothingTyped DEF PgInit, SeenKnown, NoTxn
<1>2. PgInv /\ SeenKnown /\ [PgNext]_pgVars => SeenKnown'
  BY SeenStep
<1>3. PgInv /\ SeenKnown => PgTypeOK
  BY DEF PgInv, TxnInv, Txn, TxnType, Locks, SeenKnown, PgTypeOK
<1>4. QED
  BY <1>1, <1>2, <1>3, PgInvHolds, PTL DEF PgSpec

(* A row is never replaced: what a completion has read of the tree is the   *)
(* tree still when it commits, but for the tasks inserted meanwhile.        *)
THEOREM PgRowsPermanent ==
  PgSpec => [][\A t \in Known : t \in DOMAIN tasks' /\ tasks'[t].parent = tasks[t].parent]_pgVars
<1>1. PgInv /\ [PgNext]_pgVars
        => [\A t \in Known : t \in DOMAIN tasks' /\ tasks'[t].parent = tasks[t].parent]_pgVars
  BY RowsPermanent DEF Known
<1>2. QED
  BY <1>1, PgInvHolds, PTL DEF PgSpec
=============================================================================
