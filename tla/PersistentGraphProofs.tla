------------------------ MODULE PersistentGraphProofs ------------------------
(***************************************************************************)
(* Theorems about PersistentGraph, for any goals: however many processing  *)
(* loops overlap, the queue and the table of goals agree, no goal is taken *)
(* twice, and no root execution is left without a loop that waits for it.  *)
(***************************************************************************)
EXTENDS PersistentGraph, SequenceTheorems, TLAPS

(* A loop serves a goal exactly while it is active, and that goal has left  *)
(* the queue.  A loop is not created before the submission it is named      *)
(* after has come back from the bus.                                        *)
ServesActive == \A l \in Goals : (serves[l] # NoGoal) <=> (loop[l] \in Active)
ServedTaken  == \A l \in Goals : serves[l] # NoGoal =>
                                   status[serves[l]] \in GoalStatus \ {"queued"}
ServedRuns   == \A l \in Goals : loop[l] \in {"starting", "waiting"} => status[serves[l]] = "running"
SubmittedOnce == \A g \in submitting : status[g] # "none"
NamedAfter   == \A g \in Goals : status[g] = "none" \/ g \in submitting => loop[g] = "none"

Inv ==
  /\ TypeOK
  /\ ServesActive /\ ServedTaken /\ ServedRuns /\ SubmittedOnce /\ NamedAfter
  /\ OneLoopPerGoal /\ ProcessingHasLoop /\ QueueHoldsQueued /\ LiveRootIsAwaited

-----------------------------------------------------------------------------
(* The queue.                                                               *)

(* Appending a goal that is not in the queue. *)
LEMMA AppendGoal ==
  ASSUME NEW q \in Seq(Goals), NEW g \in Goals, IsInjective(q), g \notin ToSet(q)
  PROVE  /\ Append(q, g) \in Seq(Goals)
         /\ ToSet(Append(q, g)) = ToSet(q) \cup {g}
         /\ IsInjective(Append(q, g))
<1> DEFINE r == Append(q, g)
<1>1. /\ r \in Seq(Goals) /\ Len(q) \in Nat /\ DOMAIN q = 1..Len(q) /\ DOMAIN r = 1..(Len(q) + 1)
      /\ \A i \in 1..Len(q) : r[i] = q[i]
      /\ r[Len(q) + 1] = g
  BY AppendProperties, LenProperties
<1>2. ToSet(r) = ToSet(q) \cup {g}
  BY <1>1 DEF ToSet
<1>3. IsInjective(r)
  <2> SUFFICES ASSUME NEW i \in 1..(Len(q) + 1), NEW j \in 1..(Len(q) + 1), r[i] = r[j]
               PROVE  i = j
    BY <1>1 DEF IsInjective
  <2>1. \A k \in 1..Len(q) : q[k] # g
    BY <1>1 DEF ToSet
  <2>2. QED
    BY <1>1, <2>1 DEF IsInjective
<1>4. QED
  BY <1>1, <1>2, <1>3

(* Taking the head off the queue. *)
LEMMA TakeGoal ==
  ASSUME NEW q \in Seq(Goals), q # <<>>, IsInjective(q)
  PROVE  /\ Head(q) \in Goals /\ Head(q) \in ToSet(q)
         /\ Tail(q) \in Seq(Goals)
         /\ ToSet(Tail(q)) = ToSet(q) \ {Head(q)}
         /\ IsInjective(Tail(q))
<1> DEFINE r == Tail(q)
<1>1. /\ Len(q) \in Nat \ {0} /\ DOMAIN q = 1..Len(q) /\ Head(q) = q[1]
      /\ r \in Seq(Goals) /\ DOMAIN r = 1..(Len(q) - 1)
      /\ \A i \in 1..(Len(q) - 1) : r[i] = q[i + 1]
  BY HeadTailProperties, LenProperties, EmptySeq
<1>2. Head(q) \in Goals /\ Head(q) \in ToSet(q)
  BY <1>1, HeadTailProperties DEF ToSet
<1>3. ToSet(r) = ToSet(q) \ {Head(q)}
  <2>1. ASSUME NEW i \in 1..(Len(q) - 1)
        PROVE  r[i] \in ToSet(q) /\ r[i] # Head(q)
    BY <1>1 DEF ToSet, IsInjective
  <2>2. ASSUME NEW j \in 1..Len(q), q[j] # q[1]
        PROVE  q[j] \in ToSet(r)
    <3>1. j - 1 \in 1..(Len(q) - 1) /\ r[j - 1] = q[j]
      BY <1>1, <2>2
    <3>2. QED
      BY <1>1, <3>1 DEF ToSet
  <2>3. ToSet(r) \subseteq ToSet(q) \ {Head(q)}
    BY <1>1, <2>1 DEF ToSet
  <2>4. ToSet(q) \ {Head(q)} \subseteq ToSet(r)
    BY <1>1, <2>2 DEF ToSet
  <2>5. QED
    BY <2>3, <2>4
<1>4. IsInjective(r)
  BY <1>1 DEF IsInjective
<1>5. QED
  BY <1>1, <1>2, <1>3, <1>4

-----------------------------------------------------------------------------
(* The steps.                                                               *)

(* A new goal joins the queue. *)
LEMMA SubmitInv == ASSUME Inv, NEW g \in Goals, Submit(g) PROVE Inv'
<1> USE DEF Inv
<1>1. g \notin ToSet(queue) /\ queue \in Seq(Goals) /\ IsInjective(queue)
  BY DEF TypeOK, Submit, QueueHoldsQueued
<1>2. /\ queue' \in Seq(Goals) /\ ToSet(queue') = ToSet(queue) \cup {g} /\ IsInjective(queue')
  BY <1>1, AppendGoal DEF Submit
<1>3. /\ status'[g] = "queued" /\ status[g] = "none"
      /\ \A h \in Goals : h # g => status'[h] = status[h]
  BY DEF TypeOK, Submit
<1>4. TypeOK'
  BY <1>2 DEF TypeOK, Submit, GoalStatus
<1>5. QueueHoldsQueued'
  BY <1>2, <1>3 DEF QueueHoldsQueued
<1>6. serves' = serves /\ loop' = loop /\ processing' = processing /\ root' = root
  BY DEF Submit
<1>7. \A l \in Goals : serves[l] # NoGoal => serves[l] \in Goals \ {g}
  BY <1>3 DEF TypeOK, ServedTaken, GoalStatus
<1>8. ServesActive' /\ ServedTaken' /\ ServedRuns' /\ OneLoopPerGoal' /\ ProcessingHasLoop'
  <2>1. ServesActive' /\ OneLoopPerGoal' /\ ProcessingHasLoop'
    BY <1>6 DEF ServesActive, OneLoopPerGoal, ProcessingHasLoop
  <2>2. ServedTaken'
    BY <1>3, <1>6, <1>7 DEF ServedTaken
  <2>3. ServedRuns'
    BY <1>3, <1>6, <1>7 DEF ServedRuns, ServesActive, Active
  <2>4. QED
    BY <2>1, <2>2, <2>3
<1>9. NamedAfter' /\ SubmittedOnce'
  BY <1>3, <1>6 DEF NamedAfter, SubmittedOnce, Submit, TypeOK
<1>10. LiveRootIsAwaited'
  BY <1>3, <1>6 DEF LiveRootIsAwaited
<1>11. QED
  BY <1>4, <1>5, <1>8, <1>9, <1>10

(* A submission comes back from the bus, with or without a loop. *)
LEMMA SubmitBackInv == ASSUME Inv, NEW g \in Goals, SubmitEnds(g) \/ SubmitRaises(g) PROVE Inv'
<1> USE DEF Inv
<1>1. /\ UNCHANGED <<status, queue, processing, serves, cancelled, root, rootCancel, down, awaited>>
      /\ submitting' = submitting \ {g} /\ g \in submitting
      /\ processTask' \in Goals \cup {NoGoal}
      /\ (loop' = loop \/ LoopMoves(g, "created") \/ LoopMoves(g, "raised"))
  BY DEF SubmitEnds, SubmitRaises, TypeOK
<1>2. loop[g] = "none" /\ g \in Goals
  BY <1>1 DEF NamedAfter
<1>3. /\ loop' \in [Goals -> LoopState]
      /\ \A l \in Goals : l # g => loop'[l] = loop[l]
      /\ loop'[g] \notin Active
  BY <1>1, <1>2 DEF LoopMoves, TypeOK, LoopState, Over, Active
<1>4. TypeOK'
  BY <1>1, <1>3 DEF TypeOK
<1>5. \A l \in Goals : (loop'[l] \in Active <=> loop[l] \in Active)
                     /\ (loop[l] \in Active => loop'[l] = loop[l])
  BY <1>2, <1>3 DEF Active
<1>6. ServesActive' /\ ServedTaken' /\ OneLoopPerGoal' /\ QueueHoldsQueued'
  BY <1>1, <1>5 DEF ServesActive, ServedTaken, OneLoopPerGoal, QueueHoldsQueued
<1>7. ServedRuns' /\ ProcessingHasLoop' /\ LiveRootIsAwaited'
  BY <1>1, <1>5 DEF ServedRuns, ProcessingHasLoop, LiveRootIsAwaited, Active
<1>8. SubmittedOnce'
  BY <1>1 DEF SubmittedOnce
<1>9. NamedAfter'
  <2> SUFFICES ASSUME NEW h \in Goals, status'[h] = "none" \/ h \in submitting'
               PROVE  loop'[h] = "none"
    BY DEF NamedAfter
  <2>1. CASE h # g
    BY <1>1, <1>3, <2>1 DEF NamedAfter
  <2>2. CASE h = g /\ status[g] = "none"
    BY <1>1, <1>2, <2>2 DEF NamedAfter, SubmittedOnce
  <2>3. QED
    BY <1>1, <2>1, <2>2
<1>10. QED
  BY <1>4, <1>6, <1>7, <1>8, <1>9

(* What the steps of loops leave alone. *)
Kept == UNCHANGED <<submitting, processTask, rootCancel, down, awaited>>

(* A loop takes the head of the queue: no other loop serves it. *)
LEMMA DequeueInv ==
  ASSUME Inv, NEW l \in Goals, loop[l] \in {"created", "announcing"}, Dequeue(l),
         processing' = TRUE, Kept, root' = root, cancelled' = cancelled
  PROVE  Inv'
<1> USE DEF Inv
<1> DEFINE h == Head(queue)
<1>1. /\ h \in Goals /\ h \in ToSet(queue) /\ queue' \in Seq(Goals)
      /\ ToSet(queue') = ToSet(queue) \ {h} /\ IsInjective(queue')
  BY TakeGoal DEF Dequeue, TypeOK, QueueHoldsQueued
<1>2. /\ status[h] = "queued" /\ status' = [status EXCEPT ![h] = "running"]
      /\ serves' = [serves EXCEPT ![l] = h] /\ loop' = [loop EXCEPT ![l] = "starting"]
  BY <1>1 DEF Dequeue, LoopMoves, QueueHoldsQueued
<1>3. TypeOK'
  BY <1>1, <1>2 DEF TypeOK, Kept, GoalStatus, LoopState, Active
<1>4. \A m \in Goals : serves[m] # NoGoal => serves[m] \in Goals \ {h}
  BY <1>2 DEF TypeOK, ServedTaken
<1>5. /\ serves'[l] = h /\ loop'[l] = "starting" /\ h # NoGoal /\ status'[h] = "running"
      /\ \A m \in Goals : m # l => serves'[m] = serves[m] /\ loop'[m] = loop[m]
      /\ \A g \in Goals : g # h => status'[g] = status[g]
  BY <1>1, <1>2, PersistentAssumption DEF TypeOK
<1>6. ServesActive'
  BY <1>5 DEF ServesActive, Active
<1>7. ServedTaken' /\ ServedRuns'
  <2>1. ServedTaken'
    BY <1>4, <1>5 DEF ServedTaken, GoalStatus
  <2>2. ServedRuns'
    BY <1>4, <1>5 DEF ServedRuns, ServesActive, Active
  <2>3. QED
    BY <2>1, <2>2
<1>8. SubmittedOnce' /\ NamedAfter'
  <2>1. SubmittedOnce'
    BY <1>5 DEF SubmittedOnce, TypeOK, Kept
  <2>2. loop[l] # "none" /\ \A g \in Goals : status'[g] = "none" => status[g] = "none"
    BY <1>5
  <2>3. NamedAfter'
    BY <1>5, <2>2 DEF NamedAfter, Kept
  <2>4. QED
    BY <2>1, <2>3
<1>9. OneLoopPerGoal'
  BY <1>4, <1>5 DEF OneLoopPerGoal
<1>10. ProcessingHasLoop'
  BY <1>5 DEF ProcessingHasLoop, Active
<1>11. QueueHoldsQueued'
  BY <1>1, <1>5 DEF QueueHoldsQueued
<1>12. LiveRootIsAwaited'
  <2> SUFFICES ASSUME NEW g \in Goals, root[g] = "live"
               PROVE  status'[g] = "running" /\ \E m \in Goals : loop'[m] = "waiting" /\ serves'[m] = g
    BY DEF LiveRootIsAwaited
  <2>1. PICK m \in Goals : loop[m] = "waiting" /\ serves[m] = g
    BY DEF LiveRootIsAwaited
  <2>2. status[g] = "running" /\ m # l /\ g # h
    BY <1>2, <2>1 DEF LiveRootIsAwaited
  <2>3. QED
    BY <1>5, <2>1, <2>2
<1>13. QED
  BY <1>3, <1>6, <1>7, <1>8, <1>9, <1>10, <1>11, <1>12

(* A loop that waits for no root execution ends: by its finally clause, or  *)
(* before its first step.                                                   *)
LEMMA LoopEndsInv ==
  ASSUME Inv, NEW l \in Goals, NEW over \in Over, loop[l] \in {"created", "starting", "announcing"},
         LoopMoves(l, over), cancelled' \subseteq Goals, Kept, UNCHANGED <<status, queue, root>>,
         \/ processing' = FALSE /\ serves' = [serves EXCEPT ![l] = NoGoal]
         \/ loop[l] = "created" /\ UNCHANGED <<processing, serves>>
  PROVE  Inv'
<1> USE DEF Inv
<1>1. /\ loop'[l] \notin Active /\ loop'[l] # "none" /\ loop[l] # "none" /\ loop[l] # "waiting"
      /\ \A m \in Goals : m # l => loop'[m] = loop[m]
      /\ loop' \in [Goals -> LoopState]
  BY DEF LoopMoves, TypeOK, Over, Active, LoopState
<1>2. /\ serves'[l] = NoGoal
      /\ \A m \in Goals : m # l => serves'[m] = serves[m]
      /\ serves' \in [Goals -> Goals \cup {NoGoal}]
  BY DEF TypeOK, ServesActive, Active
<1>3. TypeOK'
  BY <1>1, <1>2 DEF TypeOK, Kept
<1>4. ServesActive' /\ ServedTaken' /\ ServedRuns' /\ OneLoopPerGoal'
  <2>1. ServesActive' /\ ServedTaken'
    BY <1>1, <1>2 DEF ServesActive, ServedTaken
  <2>2. ServedRuns'
    BY <1>1, <1>2 DEF ServedRuns, Active
  <2>3. OneLoopPerGoal'
    BY <1>2 DEF OneLoopPerGoal
  <2>4. QED
    BY <2>1, <2>2, <2>3
<1>5. SubmittedOnce' /\ NamedAfter' /\ QueueHoldsQueued'
  BY <1>1 DEF SubmittedOnce, NamedAfter, QueueHoldsQueued, Kept
<1>6. ProcessingHasLoop'
  BY <1>1 DEF ProcessingHasLoop, Active
<1>7. LiveRootIsAwaited'
  BY <1>1, <1>2 DEF LiveRootIsAwaited
<1>8. QED
  BY <1>3, <1>4, <1>5, <1>6, <1>7

(* An active loop goes on with its goal. *)
LEMMA LoopGoesOnInv ==
  ASSUME Inv, NEW l \in Goals, NEW to \in Active, loop[l] \in Active, LoopMoves(l, to),
         NEW outcome \in {"running", "completed", "failed"},
         status' = [status EXCEPT ![serves[l]] = outcome],
         to \in {"starting", "waiting"} => outcome = "running",
         \/ root' = root /\ root[serves[l]] # "live"
         \/ root' = [root EXCEPT ![serves[l]] = "live"] /\ to = "waiting",
         cancelled' \subseteq Goals, Kept, UNCHANGED <<processing, queue, serves>>
  PROVE  Inv'
<1> USE DEF Inv
<1> DEFINE g == serves[l]
<1>1. g \in Goals /\ status[g] \in GoalStatus \ {"queued"}
  BY DEF ServesActive, ServedTaken, TypeOK
<1>2. /\ loop'[l] = to /\ \A m \in Goals : m # l => loop'[m] = loop[m]
      /\ status'[g] = outcome /\ \A h \in Goals : h # g => status'[h] = status[h]
      /\ \A h \in Goals : h # g => root'[h] = root[h]
      /\ root'[g] = "live" => to = "waiting"
      /\ \A m \in Goals : m # l => serves[m] # g
  <2>1. \A m \in Goals : m # l => serves[m] # g
    BY <1>1, PersistentAssumption DEF OneLoopPerGoal
  <2>2. QED
    BY <1>1, <2>1 DEF LoopMoves, TypeOK
<1>3. TypeOK'
  <2>1. loop' \in [Goals -> LoopState]
    BY DEF LoopMoves, TypeOK, LoopState
  <2>2. status' \in [Goals -> GoalStatus \cup {"none"}]
    BY DEF TypeOK, GoalStatus
  <2>3. root' \in [Goals -> RootEnd \cup {"none", "live"}]
    BY DEF TypeOK
  <2>4. QED
    BY <2>1, <2>2, <2>3 DEF TypeOK, Kept
<1>4. ServesActive' /\ OneLoopPerGoal' /\ ProcessingHasLoop'
  <2>1. ServesActive'
    BY <1>2 DEF ServesActive
  <2>2. OneLoopPerGoal'
    BY DEF OneLoopPerGoal
  <2>3. ProcessingHasLoop'
    BY <1>2 DEF ProcessingHasLoop
  <2>4. QED
    BY <2>1, <2>2, <2>3
<1>5. ServedTaken' /\ ServedRuns'
  <2>1. ServedTaken'
    BY <1>2 DEF ServedTaken, GoalStatus, TypeOK
  <2>2. ServedRuns'
    <3> SUFFICES ASSUME NEW m \in Goals, loop'[m] \in {"starting", "waiting"}
                 PROVE  status'[serves[m]] = "running"
      BY DEF ServedRuns
    <3>1. CASE m = l
      BY <1>2, <3>1
    <3>2. CASE m # l
      <4>1. status[serves[m]] = "running" /\ serves[m] \in Goals /\ serves[m] # g
        BY <1>2, <3>2 DEF ServedRuns, ServesActive, Active, TypeOK
      <4>2. QED
        BY <1>2, <4>1
    <3>3. QED
      BY <3>1, <3>2
  <2>3. QED
    BY <2>1, <2>2
<1>6. SubmittedOnce' /\ NamedAfter'
  <2>1. \A h \in Goals : status'[h] = "none" <=> status[h] = "none"
    BY <1>1, <1>2 DEF GoalStatus
  <2>2. SubmittedOnce'
    BY <2>1 DEF SubmittedOnce, TypeOK, Kept
  <2>3. NamedAfter'
    BY <1>2, <2>1 DEF NamedAfter, Kept, Active
  <2>4. QED
    BY <2>2, <2>3
<1>7. QueueHoldsQueued'
  BY <1>1, <1>2 DEF QueueHoldsQueued
<1>8. LiveRootIsAwaited'
  <2> SUFFICES ASSUME NEW h \in Goals, root'[h] = "live"
               PROVE  status'[h] = "running" /\ \E m \in Goals : loop'[m] = "waiting" /\ serves[m] = h
    BY DEF LiveRootIsAwaited
  <2>1. CASE h = g
    BY <1>2, <2>1
  <2>2. CASE h # g
    <3>1. PICK m \in Goals : loop[m] = "waiting" /\ serves[m] = h /\ status[h] = "running"
      BY <1>2, <2>2 DEF LiveRootIsAwaited
    <3>2. QED
      BY <1>2, <2>2, <3>1
  <2>3. QED
    BY <2>1, <2>2
<1>9. QED
  BY <1>3, <1>4, <1>5, <1>6, <1>7, <1>8

(* The steps of a loop. *)
LEMMA LoopStepInv == ASSUME Inv, NEW l \in Goals, LoopStep(l) PROVE Inv'
<1> USE DEF Inv
<1>1. l \notin cancelled => cancelled = cancelled \ {l}
  OBVIOUS
<1>2. serves[l] # NoGoal => serves[l] \in Goals /\ status[serves[l]] \in {"running", "completed", "failed"}
  BY DEF TypeOK, ServedTaken, GoalStatus
<1>3. loop[l] \in {"starting", "announcing"} => root[serves[l]] # "live"
  <2>1. ASSUME loop[l] \in {"starting", "announcing"}, root[serves[l]] = "live"
        PROVE  FALSE
    <3>1. serves[l] \in Goals /\ serves[l] # NoGoal
      BY <2>1, <1>2 DEF ServesActive, Active
    <3>2. PICK m \in Goals : loop[m] = "waiting" /\ serves[m] = serves[l]
      BY <2>1, <3>1 DEF LiveRootIsAwaited
    <3>3. QED
      BY <2>1, <3>1, <3>2 DEF OneLoopPerGoal
  <2>2. QED
    BY <2>1
<1>4. loop[l] \in Active => serves[l] # NoGoal
  BY DEF ServesActive
<1>5. CASE LoopBegins(l)
  <2>1. CASE processing' = TRUE /\ Dequeue(l)
    BY <1>5, <2>1, DequeueInv DEF LoopBegins, Kept
  <2>2. CASE LoopEnds(l, "ended") /\ UNCHANGED <<status, queue>>
    BY <1>5, <2>2, LoopEndsInv DEF LoopBegins, LoopEnds, Kept, Over, TypeOK
  <2>3. QED
    BY <1>5, <2>1, <2>2 DEF LoopBegins
<1>6. CASE GoalStarts(l)
  <2>1. serves[l] \in Goals /\ status[serves[l]] = "running"
    BY <1>2, <1>4, <1>6 DEF GoalStarts, ServedRuns, Active
  <2>2. status' = [status EXCEPT ![serves[l]] = "running"]
    BY <1>6, <2>1 DEF GoalStarts, TypeOK
  <2>3. /\ loop[l] \in Active /\ LoopMoves(l, "waiting") /\ Kept /\ cancelled' \subseteq Goals
        /\ root' = [root EXCEPT ![serves[l]] = "live"]
        /\ UNCHANGED <<processing, queue, serves>>
    BY <1>6 DEF GoalStarts, Active, Kept, TypeOK
  <2>4. QED
    BY <2>2, <2>3, LoopGoesOnInv DEF Active
<1>7. CASE GoalFails(l)
  <2>1. /\ loop[l] \in Active /\ LoopMoves(l, "announcing") /\ Kept /\ cancelled' \subseteq Goals
        /\ status' = [status EXCEPT ![serves[l]] = "failed"] /\ root' = root
        /\ root[serves[l]] # "live"
        /\ UNCHANGED <<processing, queue, serves>>
    BY <1>3, <1>7 DEF GoalFails, Active, Kept, TypeOK
  <2>2. QED
    BY <2>1, LoopGoesOnInv DEF Active
<1>8. CASE GoalCompletes(l)
  <2>1. /\ loop[l] \in Active /\ LoopMoves(l, "announcing") /\ Kept /\ cancelled' \subseteq Goals
        /\ status' = [status EXCEPT ![serves[l]] = "completed"] /\ root' = root
        /\ root[serves[l]] # "live"
        /\ UNCHANGED <<processing, queue, serves>>
    BY <1>8 DEF GoalCompletes, RootEnd, Active, Kept, TypeOK
  <2>2. QED
    BY <2>1, LoopGoesOnInv DEF Active
<1>9. CASE LoopTurns(l)
  <2>1. CASE processing /\ Dequeue(l) /\ UNCHANGED processing
    BY <1>9, <2>1, DequeueInv DEF LoopTurns, Kept, TypeOK
  <2>2. CASE LoopEnds(l, "ended") /\ UNCHANGED <<status, queue>>
    BY <1>9, <2>2, LoopEndsInv DEF LoopTurns, LoopEnds, Kept, Over, TypeOK
  <2>3. QED
    BY <1>9, <2>1, <2>2 DEF LoopTurns
<1>10. CASE AnnounceRaises(l)
  <2>1. CASE status' = [status EXCEPT ![serves[l]] = "failed"] /\ UNCHANGED <<processing, loop, serves>>
    <3>1. /\ loop[l] \in Active /\ LoopMoves(l, "announcing") /\ Kept /\ cancelled' \subseteq Goals
          /\ root' = root /\ root[serves[l]] # "live"
          /\ UNCHANGED <<processing, queue, serves>>
      BY <1>3, <1>10, <2>1 DEF AnnounceRaises, LoopMoves, Active, Kept, TypeOK
    <3>2. QED
      BY <2>1, <3>1, LoopGoesOnInv DEF Active
  <2>2. CASE LoopEnds(l, "raised") /\ UNCHANGED status
    BY <1>10, <2>2, LoopEndsInv DEF AnnounceRaises, LoopEnds, Kept, Over, TypeOK
  <2>3. QED
    BY <1>10, <2>1, <2>2 DEF AnnounceRaises
<1>11. CASE LoopCancelled(l)
  BY <1>11, LoopEndsInv DEF LoopCancelled, LoopEnds, Kept, Over, TypeOK
<1>12. QED
  BY <1>5, <1>6, <1>7, <1>8, <1>9, <1>10, <1>11 DEF LoopStep

(* The end of a root execution, and shutdown, touch neither loops nor goals. *)
LEMMA OutsideInv ==
  ASSUME Inv, Shutdown \/ ShutdownReturns \/ (\E g \in Goals : RootEnds(g)) \/ UNCHANGED vars
  PROVE  Inv'
<1> USE DEF Inv
<1>1. /\ UNCHANGED <<status, queue, submitting, loop, serves, processTask>>
      /\ processing' \in {processing, FALSE}
      /\ root' \in [Goals -> RootEnd \cup {"none", "live"}]
      /\ \A g \in Goals : root'[g] = "live" => root[g] = "live"
  <2>1. ASSUME NEW g \in Goals, RootEnds(g)
        PROVE  /\ root' \in [Goals -> RootEnd \cup {"none", "live"}]
               /\ \A h \in Goals : root'[h] = "live" => root[h] = "live"
    BY <2>1 DEF RootEnds, TypeOK, RootEnd
  <2>2. QED
    BY <2>1 DEF Shutdown, ShutdownReturns, RootEnds, vars, TypeOK
<1>2. /\ cancelled' \subseteq Goals /\ rootCancel' \subseteq Goals
      /\ down' \in {"idle", "waiting", "returned"} /\ awaited' \in Goals \cup {NoGoal}
  <2>1. CASE Shutdown
    <3>1. processTask \in Unended => processTask \in Goals
      BY DEF Unended
    <3>2. processTask \in Unended /\ loop[processTask] = "waiting" => serves[processTask] \in Goals
      BY <3>1 DEF TypeOK, ServesActive, Active
    <3>3. QED
      BY <2>1, <3>1, <3>2 DEF Shutdown, TypeOK
  <2>2. CASE ShutdownReturns \/ (\E g \in Goals : RootEnds(g)) \/ UNCHANGED vars
    BY <2>2 DEF ShutdownReturns, RootEnds, vars, TypeOK
  <2>3. QED
    BY <2>1, <2>2
<1>3. TypeOK'
  BY <1>1, <1>2 DEF TypeOK
<1>4. ServesActive' /\ ServedTaken' /\ ServedRuns' /\ SubmittedOnce' /\ NamedAfter'
  BY <1>1 DEF ServesActive, ServedTaken, ServedRuns, SubmittedOnce, NamedAfter
<1>5. OneLoopPerGoal' /\ ProcessingHasLoop' /\ QueueHoldsQueued' /\ LiveRootIsAwaited'
  <2>1. OneLoopPerGoal'
    BY <1>1 DEF OneLoopPerGoal
  <2>2. ProcessingHasLoop'
    BY <1>1 DEF ProcessingHasLoop
  <2>3. QueueHoldsQueued'
    <3>1. queue' = queue /\ status' = status
      BY <1>1
    <3>2. QED
      BY <3>1 DEF QueueHoldsQueued
  <2>4. LiveRootIsAwaited'
    BY <1>1 DEF LiveRootIsAwaited
  <2>5. QED
    BY <2>1, <2>2, <2>3, <2>4
<1>6. QED
  BY <1>3, <1>4, <1>5

LEMMA InitInv == Init => Inv
<1> SUFFICES ASSUME Init PROVE Inv
  OBVIOUS
<1>1. queue = <<>> /\ queue \in Seq(Goals) /\ ToSet(queue) = {} /\ IsInjective(queue)
  BY DEF Init, ToSet, IsInjective
<1>2. TypeOK
  BY <1>1, PersistentAssumption DEF Init, TypeOK, GoalStatus, LoopState, Active, Over
<1>3. ServesActive /\ ServedTaken /\ ServedRuns /\ SubmittedOnce /\ NamedAfter
  BY DEF Init, ServesActive, ServedTaken, ServedRuns, SubmittedOnce, NamedAfter, Active
<1>4. OneLoopPerGoal /\ ProcessingHasLoop /\ QueueHoldsQueued /\ LiveRootIsAwaited
  BY <1>1 DEF Init, OneLoopPerGoal, ProcessingHasLoop, QueueHoldsQueued, LiveRootIsAwaited
<1>5. QED
  BY <1>2, <1>3, <1>4 DEF Inv

(* The invariant: what every theorem below takes its conjunct from. *)
THEOREM PersistentInv == Spec => []Inv
<1>1. Inv /\ [Next]_vars => Inv'
  BY SubmitInv, SubmitBackInv, LoopStepInv, OutsideInv DEF Next
<1>2. QED
  BY <1>1, InitInv, PTL DEF Spec

(* Every variable has its type in every reachable state. *)
THEOREM PersistentTypeCorrect == Spec => []TypeOK
BY PersistentInv, PTL DEF Inv

(* However many loops run at once, no goal is processed by two. *)
THEOREM OneLoopCorrect == Spec => []OneLoopPerGoal
BY PersistentInv, PTL DEF Inv

(* While _processing holds, a loop is at work. *)
THEOREM ProcessingCorrect == Spec => []ProcessingHasLoop
BY PersistentInv, PTL DEF Inv

(* The queue and the table of goals agree, whatever loops overlap. *)
THEOREM QueueCorrect == Spec => []QueueHoldsQueued
BY PersistentInv, PTL DEF Inv

(* A live root execution has a loop that waits for it, shutdown or not. *)
THEOREM AwaitedCorrect == Spec => []LiveRootIsAwaited
BY PersistentInv, PTL DEF Inv

-----------------------------------------------------------------------------
(* Before any shutdown and any failure of the bus no loop is cancelled, and *)
(* every queued goal has someone to see to it.                              *)
Kind == cancelled = {} /\ Remembered

(* What keeps the goals that are queued: the loops to begin stay, those at  *)
(* work stay too.                                                           *)
LEMMA RememberedKept ==
  ASSUME Remembered, submitting' = submitting, processing' = processing,
         \A g \in Goals : status'[g] = "queued" => status[g] = "queued",
         \A l \in Goals : loop[l] = "created" => loop'[l] = "created",
         \A l \in Goals : loop[l] \in Active => loop'[l] \in Active
  PROVE  Remembered'
BY DEF Remembered

LEMMA KindSubmits ==
  ASSUME Inv, Kind, Undisturbed', NEW g \in Goals, Submit(g) \/ SubmitEnds(g) \/ SubmitRaises(g)
  PROVE  Kind'
<1>1. CASE Submit(g)
  BY <1>1 DEF Kind, Remembered, Submit, Inv, TypeOK
<1>2. CASE SubmitEnds(g)
  <2>1. CASE processing
    <3>1. \E l \in Goals : loop[l] \in Active
      BY <2>1 DEF Inv, ProcessingHasLoop
    <3>2. QED
      BY <1>2, <2>1, <3>1 DEF Kind, Remembered, SubmitEnds
  <2>2. CASE LoopMoves(g, "created")
    <3>1. loop'[g] = "created"
      BY <2>2 DEF LoopMoves, Inv, TypeOK
    <3>2. QED
      BY <1>2, <3>1 DEF Kind, Remembered, SubmitEnds
  <2>3. QED
    BY <1>2, <2>1, <2>2 DEF SubmitEnds
<1>3. ~SubmitRaises(g)
  BY DEF SubmitRaises, LoopMoves, Undisturbed, Inv, TypeOK
<1>4. QED
  BY <1>1, <1>2, <1>3

(* A loop that takes a goal is at work and says so; one that ends finds the *)
(* queue empty, or does what another that ended has done.                   *)
LEMMA KindLoops ==
  ASSUME Inv, Kind, Undisturbed', NEW l \in Goals, LoopStep(l)
  PROVE  Kind'
<1>1. loop \in [Goals -> LoopState] /\ status \in [Goals -> GoalStatus \cup {"none"}]
  BY DEF Inv, TypeOK
<1>2. cancelled' = {} /\ ~LoopCancelled(l)
  BY DEF Kind, LoopStep, LoopBegins, GoalStarts, GoalFails, GoalCompletes, LoopTurns,
         AnnounceRaises, LoopCancelled
<1> SUFFICES Remembered'
  BY <1>2 DEF Kind
<1>3. ASSUME Dequeue(l), processing'
      PROVE  Remembered'
  <2>1. loop'[l] \in Active
    BY <1>1, <1>3 DEF Dequeue, LoopMoves, Active
  <2>2. QED
    BY <1>3, <2>1 DEF Remembered
<1>4. ASSUME queue = <<>>, status' = status
      PROVE  Remembered'
  <2>1. \A g \in Goals : status[g] # "queued"
    BY <1>4 DEF Inv, QueueHoldsQueued, ToSet
  <2>2. QED
    BY <1>4, <2>1 DEF Remembered
<1>5. ASSUME loop[l] \in Active, loop'[l] \in Active, processing' = processing, submitting' = submitting,
             \A g \in Goals : status'[g] = "queued" => status[g] = "queued",
             \A m \in Goals \ {l} : loop'[m] = loop[m]
      PROVE  Remembered'
  <2>1. \A m \in Goals : loop[m] = "created" => loop'[m] = "created"
    BY <1>5 DEF Active
  <2>2. \A m \in Goals : loop[m] \in Active => loop'[m] \in Active
    BY <1>5
  <2>3. QED
    BY <1>5, <2>1, <2>2, RememberedKept DEF Kind
<1>6. CASE LoopBegins(l)
  BY <1>3, <1>4, <1>6 DEF LoopBegins
<1>7. CASE GoalStarts(l)
  BY <1>1, <1>5, <1>7 DEF GoalStarts, LoopMoves, Active
<1>8. CASE GoalFails(l)
  BY <1>1, <1>5, <1>8 DEF GoalFails, LoopMoves, Active
<1>9. CASE GoalCompletes(l)
  BY <1>1, <1>5, <1>9 DEF GoalCompletes, LoopMoves, Active
<1>10. CASE LoopTurns(l)
  <2>1. CASE processing /\ Dequeue(l) /\ UNCHANGED processing
    BY <1>3, <2>1
  <2>2. CASE queue = <<>>
    BY <1>4, <1>10, <2>2 DEF LoopTurns, Dequeue
  <2>3. CASE ~processing /\ LoopEnds(l, "ended") /\ UNCHANGED <<status, queue>>
    <3>1. submitting' = submitting /\ loop[l] = "announcing"
      BY <1>10 DEF LoopTurns
    <3>2. \A m \in Goals : loop[m] = "created" => loop'[m] = "created"
      BY <1>1, <2>3, <3>1 DEF LoopEnds, LoopMoves
    <3>3. QED
      BY <2>3, <3>1, <3>2 DEF Kind, Remembered
  <2>4. QED
    BY <1>10, <2>1, <2>2, <2>3 DEF LoopTurns
<1>11. CASE AnnounceRaises(l)
  <2>1. ~LoopEnds(l, "raised")
    BY <1>1 DEF LoopEnds, LoopMoves, Undisturbed
  <2>2. QED
    BY <1>1, <1>5, <1>11, <2>1 DEF AnnounceRaises, Active
<1>12. QED
  BY <1>2, <1>6, <1>7, <1>8, <1>9, <1>10, <1>11 DEF LoopStep

(* No queued goal is forgotten, for any goals and however their loops and   *)
(* submissions overlap, while no shutdown is called and the bus takes no    *)
(* loop with it: the safety that the processing of every goal rests on.     *)
THEOREM NoGoalForgottenCorrect == Spec => NoGoalForgotten
<1>1. Init => Kind
  BY DEF Init, Kind, Remembered
<1>2. ASSUME Inv, Kind, Undisturbed', [Next]_vars
      PROVE  Kind'
  <2>1. CASE UNCHANGED vars
    BY <1>2, <2>1 DEF vars, Kind, Remembered
  <2>2. ASSUME NEW g \in Goals, RootEnds(g)
        PROVE  Kind'
    BY <1>2, <2>2 DEF RootEnds, Kind, Remembered
  <2>3. CASE ShutdownReturns
    BY <1>2, <2>3 DEF ShutdownReturns, Undisturbed
  <2>4. ~Shutdown
    BY <1>2 DEF Shutdown, Undisturbed
  <2>5. QED
    BY <1>2, <2>1, <2>2, <2>3, <2>4, KindSubmits, KindLoops DEF Next
<1>3. Inv /\ Kind /\ Undisturbed' /\ [Next]_vars => Kind'
  BY <1>2
<1>4. Kind => Remembered
  BY DEF Kind
<1>5. QED
  BY <1>1, <1>3, <1>4, PersistentInv, PTL DEF Spec, NoGoalForgotten
=============================================================================
