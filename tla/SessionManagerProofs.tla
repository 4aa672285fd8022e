------------------------ MODULE SessionManagerProofs ------------------------
(***************************************************************************)
(* Theorems about SessionManager, for any number of turns, openings, role  *)
(* updates and closes: turns are sequential but for the locks that closes  *)
(* forget under them, and what an orderly application was told survives    *)
(* abandoned turns, faults of the file, close_all and crashes.             *)
(***************************************************************************)
EXTENDS SessionManager, SequenceTheorems, TLAPS

(* Each kind of call has its stages.                                        *)
Opening == {"loading", "loaded", "evicting"}
Using   == {"touching", "asking", "running", "turning", "answering", "updating"}
Stage(c) == call[c].at

Kind(c) ==
  /\ c \in Turns    => Stage(c) \in {"idle", "done", "queued", "yielding"} \cup Opening \cup (Using \ {"updating"})
  /\ c \in Openers  => Stage(c) \in {"idle", "done", "registering"} \cup Opening
  /\ c \in Updaters => Stage(c) \in {"idle", "done", "updating"} \cup Opening
  /\ c \in Closers  => Stage(c) \in {"idle", "done", "cleaning", "stopping", "deleting"}
  /\ Stage(c) \in Using => call[c].obj \in Calls
Kinds == \A c \in Calls : Kind(c)

(* The queues of the locks, in every world: a turn in flight is in one, and *)
(* at its head unless it waits.                                             *)
QueuesInFlight == \A l \in Turns : \A t \in ToSet(queue[l]) : InFlight(t)
QueuesApart ==
  \A l, m \in Turns : /\ IsInjective(queue[l])
                      /\ l # m => ToSet(queue[l]) \cap ToSet(queue[m]) = {}
InFlightQueued ==
  \A t \in Turns : InFlight(t) =>
    \E l \in Turns : t \in ToSet(queue[l]) /\ (Stage(t) # "queued" => t = Head(queue[l]))

(* A lock in use is the one that get_lock returns, or one that was popped.   *)
LocksNamed == \A l \in Turns : queue[l] # <<>> => l = lock \/ l \in forgotten

(* In an orderly world the session has one lock in use,                     *)
OneLock == orderly => \A l \in Turns : queue[l] # <<>> => l = lock
(* a call that does more than wait has only turns that wait beside it,      *)
Active(c) == InFlight(c) /\ Stage(c) # "queued"
Solo(c)   == \A d \in Calls \ {c} : InFlight(d) => c \in Turns /\ d \in Turns /\ Stage(d) = "queued"
ActiveSolo == orderly => \A c \in Calls : Active(c) => Solo(c)
(* it opens a session that is not cached and uses the one that is,          *)
SessionInHand ==
  orderly => \A c \in Calls :
    /\ Stage(c) \in Opening => cache = NoSession
    /\ Stage(c) \in Using => cache # NoSession /\ call[c].obj = cache
    /\ Stage(c) = "registering" => cache # NoSession
(* and only what it waits for is on its way to the file.                    *)
Saving == {"evicting", "registering", "touching", "asking", "answering", "updating", "deleting"}
WritesAwaited ==
  orderly => /\ Len(writes) <= 1
             /\ \A i \in DOMAIN writes : Stage(writes[i].by) \in Saving

(* What was acknowledged is in the file, and in what is on its way there,   *)
Holds(data, S) == S = {} \/ (data # NoSnapshot /\ S \subseteq data)
AckedInFile  == orderly => /\ Holds(snapshot, acked)
                           /\ \A i \in DOMAIN writes : Holds(writes[i].data, acked)
(* in the session, in the snapshot just read of it,                         *)
AckedInCache == orderly /\ cache # NoSession => acked \subseteq history[cache]
AckedInRead  == orderly => \A c \in Calls : Stage(c) = "loaded" => Holds(call[c].read, acked)
NothingAcked == orderly => \A c \in Calls : Stage(c) \in {"evicting", "cleaning"} => acked = {}
(* and an effect about to be acknowledged is in the session, and in the     *)
(* file once nothing is on its way.                                         *)
Answering == {"answering", "updating"}
EffectSaved ==
  orderly => \A c \in Calls : Stage(c) \in Answering =>
    /\ c \in history[cache]
    /\ writes = <<>> => Holds(snapshot, {c})
    /\ \A i \in DOMAIN writes : Holds(writes[i].data, {c})

Locked == TypeOK /\ Kinds /\ QueuesInFlight /\ QueuesApart /\ InFlightQueued
Ordered == OneLock /\ ActiveSolo /\ SessionInHand /\ WritesAwaited
Remembered == AckedInFile /\ AckedInCache /\ AckedInRead /\ NothingAcked /\ EffectSaved
SessionInv == Locked /\ LocksNamed /\ Ordered /\ Remembered

-----------------------------------------------------------------------------
(* Sequences.                                                               *)

LEMMA RemoveAtSeq ==
  ASSUME NEW S, NEW s \in Seq(S), NEW k \in 1..Len(s)
  PROVE  /\ RemoveAt(s, k) \in Seq(S)
         /\ Len(RemoveAt(s, k)) = Len(s) - 1
         /\ \A i \in 1..(Len(s) - 1) : RemoveAt(s, k)[i] = IF i < k THEN s[i] ELSE s[i + 1]
<1> DEFINE a == SubSeq(s, 1, k - 1)
           b == SubSeq(s, k + 1, Len(s))
<1>1. Len(s) \in Nat /\ \A i \in 1..Len(s) : s[i] \in S
  BY LenProperties, ElementOfSeq
<1>2. a \in Seq(S) /\ Len(a) = k - 1 /\ \A i \in 1..(k - 1) : a[i] = s[i]
  BY <1>1, SubSeqProperties
<1>3. b \in Seq(S) /\ Len(b) = Len(s) - k /\ \A i \in 1..(Len(s) - k) : b[i] = s[k + i]
  BY <1>1, SubSeqProperties
<1>4. RemoveAt(s, k) = a \o b
  BY DEF RemoveAt
<1> HIDE DEF a, b
<1>5. /\ a \o b \in Seq(S)
      /\ Len(a \o b) = Len(s) - 1
      /\ \A i \in 1..(Len(s) - 1) : (a \o b)[i] = IF i <= k - 1 THEN a[i] ELSE b[i - (k - 1)]
  BY <1>1, <1>2, <1>3, ConcatProperties
<1>6. \A i \in 1..(Len(s) - 1) : (a \o b)[i] = IF i < k THEN s[i] ELSE s[i + 1]
  <2> SUFFICES ASSUME NEW i \in 1..(Len(s) - 1)
               PROVE  (a \o b)[i] = IF i < k THEN s[i] ELSE s[i + 1]
    OBVIOUS
  <2>1. CASE i < k
    BY <1>1, <1>2, <1>5, <2>1
  <2>2. CASE ~(i < k)
    <3>1. i - (k - 1) \in 1..(Len(s) - k) /\ k + (i - (k - 1)) = i + 1 /\ ~(i <= k - 1)
      BY <1>1, <2>2
    <3>2. (a \o b)[i] = b[i - (k - 1)] /\ b[i - (k - 1)] = s[k + (i - (k - 1))]
      BY <1>3, <1>5, <3>1
    <3>3. QED
      BY <1>1, <2>2, <3>1, <3>2
  <2>3. QED
    BY <2>1, <2>2
<1>7. QED
  BY <1>4, <1>5, <1>6

(* Taking a turn out of a queue. *)
LEMMA WithoutTurn ==
  ASSUME NEW q \in Seq(Turns), IsInjective(q), NEW t
  PROVE  /\ Without(q, t) \in Seq(Turns)
         /\ ToSet(Without(q, t)) = ToSet(q) \ {t}
         /\ IsInjective(Without(q, t))
         /\ \A u \in ToSet(q) \ {t} : u = Head(q) => u = Head(Without(q, t))
         /\ Without(q, t) # <<>> => q # <<>>
<1>1. Len(q) \in Nat /\ DOMAIN q = 1..Len(q) /\ ToSet(q) = {q[i] : i \in 1..Len(q)}
  BY LenProperties DEF ToSet
<1>2. CASE t \notin ToSet(q)
  BY <1>2 DEF Without
<1>3. CASE t \in ToSet(q)
  <2> DEFINE k == CHOOSE i \in DOMAIN q : q[i] = t
             r == RemoveAt(q, k)
  <2>1. k \in 1..Len(q) /\ q[k] = t
    BY <1>1, <1>3
  <2>2. Without(q, t) = r
    BY <1>3 DEF Without
  <2> HIDE DEF k
  <2>3. /\ r \in Seq(Turns) /\ Len(r) = Len(q) - 1 /\ DOMAIN r = 1..(Len(q) - 1)
        /\ \A i \in 1..(Len(q) - 1) : r[i] = IF i < k THEN q[i] ELSE q[i + 1]
    BY <2>1, RemoveAtSeq, LenProperties
  <2> HIDE DEF r
  <2>4. \A i, j \in 1..Len(q) : q[i] = q[j] => i = j
    BY <1>1 DEF IsInjective
  <2>5. ToSet(r) \subseteq ToSet(q) \ {t}
    <3>1. ASSUME NEW i \in 1..(Len(q) - 1)
          PROVE  r[i] \in ToSet(q) /\ r[i] # t
      <4>1. \E j \in 1..Len(q) : j # k /\ r[i] = q[j]
        <5>1. CASE i < k
          BY <1>1, <2>1, <2>3, <3>1, <5>1
        <5>2. CASE ~(i < k)
          <6>1. i + 1 \in 1..Len(q) /\ i + 1 # k /\ r[i] = q[i + 1]
            BY <1>1, <2>1, <2>3, <3>1, <5>2
          <6>2. QED
            BY <6>1
        <5>3. QED
          BY <5>1, <5>2
      <4>2. PICK j \in 1..Len(q) : j # k /\ r[i] = q[j]
        BY <4>1
      <4>3. QED
        BY <1>1, <2>1, <2>4, <4>2
    <3>2. QED
      BY <2>3, <3>1 DEF ToSet
  <2>6. ASSUME NEW j \in 1..Len(q), q[j] # t
        PROVE  q[j] \in ToSet(r)
    <3>1. \E i \in 1..(Len(q) - 1) : r[i] = q[j]
      <4>1. CASE j < k
        BY <1>1, <2>1, <2>3, <4>1
      <4>2. CASE j > k
        <5>1. j - 1 \in 1..(Len(q) - 1) /\ r[j - 1] = q[j]
          BY <1>1, <2>1, <2>3, <4>2
        <5>2. QED
          BY <5>1
      <4>3. QED
        BY <1>1, <2>1, <2>6, <4>1, <4>2
    <3>2. QED
      BY <2>3, <3>1 DEF ToSet
  <2>7. ToSet(r) = ToSet(q) \ {t}
    BY <1>1, <2>5, <2>6
  <2>8. IsInjective(r)
    <3> SUFFICES ASSUME NEW i \in 1..(Len(q) - 1), NEW j \in 1..(Len(q) - 1), r[i] = r[j]
                 PROVE  i = j
      BY <2>3 DEF IsInjective
    <3>1. QED
      BY <1>1, <2>1, <2>3, <2>4
  <2>9. \A u \in ToSet(q) \ {t} : u = Head(q) => u = Head(r)
    <3> SUFFICES ASSUME NEW u \in ToSet(q) \ {t}, u = Head(q) PROVE u = Head(r)
      OBVIOUS
    <3>1. q # <<>> /\ u = q[1] /\ k # 1
      BY <1>1, <2>1, EmptySeq, HeadTailProperties
    <3>2. 1 \in 1..(Len(q) - 1) /\ r[1] = q[1]
      BY <1>1, <2>1, <2>3, <3>1
    <3>3. r # <<>> /\ Head(r) = r[1]
      BY <2>3, <3>2, EmptySeq
    <3>4. QED
      BY <3>1, <3>2, <3>3
  <2>10. q # <<>>
    BY <1>1, <2>1, EmptySeq
  <2>11. QED
    BY <2>2, <2>3, <2>7, <2>8, <2>9, <2>10
<1>4. QED
  BY <1>2, <1>3

(* A turn joins a queue it is not in. *)
LEMMA AppendTurn ==
  ASSUME NEW q \in Seq(Turns), IsInjective(q), NEW t \in Turns, t \notin ToSet(q)
  PROVE  /\ Append(q, t) \in Seq(Turns)
         /\ ToSet(Append(q, t)) = ToSet(q) \cup {t}
         /\ IsInjective(Append(q, t))
         /\ q # <<>> => Head(Append(q, t)) = Head(q)
         /\ q = <<>> => Head(Append(q, t)) = t
<1> DEFINE r == Append(q, t)
<1>1. /\ r \in Seq(Turns) /\ Len(q) \in Nat /\ DOMAIN q = 1..Len(q) /\ DOMAIN r = 1..(Len(q) + 1)
      /\ \A i \in 1..Len(q) : r[i] = q[i]
      /\ r[Len(q) + 1] = t
  BY AppendProperties, LenProperties
<1>2. Head(r) = IF q = <<>> THEN t ELSE Head(q)
  BY HeadTailAppend
<1> HIDE DEF r
<1>3. ToSet(r) = ToSet(q) \cup {t}
  BY <1>1 DEF ToSet
<1>4. IsInjective(r)
  <2> SUFFICES ASSUME NEW i \in 1..(Len(q) + 1), NEW j \in 1..(Len(q) + 1), r[i] = r[j]
               PROVE  i = j
    BY <1>1 DEF IsInjective
  <2>1. \A k \in 1..Len(q) : q[k] # t
    BY <1>1 DEF ToSet
  <2>2. QED
    BY <1>1, <2>1 DEF IsInjective
<1>5. QED
  BY <1>1, <1>2, <1>3, <1>4 DEF r

-----------------------------------------------------------------------------
(* What the parts of a step do to the types, and to the call that takes it. *)

CallType == [at : Stages, obj : Calls \cup {NoSession}, read : Snapshots]
Others(c) == \A d \in Calls \ {c} : call'[d] = call[d]

LEMMA MoveToEffect ==
  ASSUME TypeOK, NEW c \in Calls, NEW at \in Stages, MoveTo(c, at)
  PROVE  /\ call' \in [Calls -> CallType] /\ Others(c)
         /\ call'[c].at = at /\ call'[c].obj = call[c].obj
BY DEF TypeOK, MoveTo, CallType, Others

LEMMA LeftEffect ==
  ASSUME TypeOK, NEW c \in Calls, call' = Left(c)
  PROVE  call' \in [Calls -> CallType] /\ Others(c) /\ call'[c].at = "done"
BY DEF TypeOK, Left, CallType, Others, Stages, Snapshots

LEMMA ToldEffect ==
  ASSUME TypeOK, NEW c \in Calls, call' = Told(c)
  PROVE  /\ call' \in [Calls -> CallType] /\ Others(c)
         /\ call'[c].at = IF c \in Turns THEN "yielding" ELSE "done"
<1>1. CASE c \in Turns
  BY <1>1 DEF TypeOK, Told, CallType, Others, Stages
<1>2. CASE c \notin Turns
  BY <1>2, LeftEffect DEF Told
<1>3. QED
  BY <1>1, <1>2

LEMMA WriteEffect ==
  ASSUME TypeOK, NEW c \in Calls, NEW data \in Snapshots, Write(c, data)
  PROVE  writes' \in Seq([by : Calls, data : Snapshots])
BY AppendProperties DEF TypeOK, Write

LEMMA ReleasedEffect ==
  ASSUME TypeOK, QueuesApart, NEW c
  PROVE  Released(c) \in [Turns -> Seq(Turns)]
BY WithoutTurn DEF TypeOK, QueuesApart, Released

LEMMA ProceedEffect ==
  ASSUME TypeOK, NEW c \in Turns \cup Openers \cup Updaters, NEW o \in Calls,
         NEW h \in [Calls -> SUBSET Calls], Proceed(c, o, h)
  PROVE  /\ history' \in [Calls -> SUBSET Calls] /\ equipped' \in SUBSET Calls
         /\ writes' \in Seq([by : Calls, data : Snapshots])
         /\ call' \in [Calls -> CallType] /\ Others(c)
         /\ c \in Turns    => call'[c].at = "touching" /\ call'[c].obj = o
         /\ c \in Openers  => call'[c].at = "done"
         /\ c \in Updaters => call'[c].at = "updating" /\ call'[c].obj = o
<1>1. CASE c \in Turns
  <2>1. /\ Write(c, h[o]) /\ history' = h /\ equipped' = equipped
        /\ call' = [call EXCEPT ![c].at = "touching", ![c].obj = o]
        /\ c \notin Openers /\ c \notin Updaters
    BY <1>1, SessionAssumption DEF Proceed
  <2>2. c \in Calls /\ h[o] \in Snapshots
    BY <1>1 DEF Calls, Snapshots
  <2>3. /\ call' \in [Calls -> CallType] /\ Others(c)
        /\ call'[c].at = "touching" /\ call'[c].obj = o
    BY <2>1, <2>2 DEF TypeOK, CallType, Others, Stages
  <2>4. QED
    BY <2>1, <2>2, <2>3, WriteEffect DEF TypeOK
<1>2. CASE c \in Openers
  <2>1. /\ history' = h /\ equipped' = equipped \cup {o} /\ writes' = writes /\ call' = Left(c)
        /\ c \notin Turns /\ c \notin Updaters /\ c \in Calls
    BY <1>2, SessionAssumption DEF Proceed, Calls
  <2>2. QED
    BY <2>1, LeftEffect DEF TypeOK
<1>3. CASE c \in Updaters
  <2>1. /\ Write(c, h[o] \cup {c}) /\ history' = [h EXCEPT ![o] = @ \cup {c}]
        /\ equipped' = equipped
        /\ call' = [call EXCEPT ![c].at = "updating", ![c].obj = o]
        /\ c \notin Openers /\ c \notin Turns
    BY <1>3, SessionAssumption DEF Proceed
  <2>2. c \in Calls /\ h[o] \cup {c} \in Snapshots
    BY <1>3 DEF Calls, Snapshots
  <2>3. /\ call' \in [Calls -> CallType] /\ Others(c)
        /\ call'[c].at = "updating" /\ call'[c].obj = o
    BY <2>1, <2>2 DEF TypeOK, CallType, Others, Stages
  <2>4. history' \in [Calls -> SUBSET Calls]
    BY <2>1, <2>2
  <2>5. QED
    BY <2>1, <2>2, <2>3, <2>4, WriteEffect DEF TypeOK
<1>4. QED
  BY <1>1, <1>2, <1>3

LEMMA NotFoundEffect ==
  ASSUME TypeOK, NEW c \in Turns \cup Openers \cup Updaters, NotFound(c)
  PROVE  /\ cache' \in Calls \cup {NoSession} /\ history' \in [Calls -> SUBSET Calls]
         /\ equipped' \in SUBSET Calls /\ writes' \in Seq([by : Calls, data : Snapshots])
         /\ call' \in [Calls -> CallType] /\ Others(c)
         /\ c \in Openers  => call'[c].at = "registering"
         /\ c \in Turns    => call'[c].at = "yielding"
         /\ c \in Updaters => call'[c].at = "done"
<1>1. c \in Calls /\ {} \in Snapshots /\ "registering" \in Stages
  BY DEF Calls, Snapshots, Stages
<1>2. CASE c \in Openers
  <2>1. /\ cache' = c /\ history' = [history EXCEPT ![c] = {}]
        /\ equipped' = equipped \cup {c} /\ Write(c, {}) /\ MoveTo(c, "registering")
    BY <1>2 DEF NotFound
  <2>2. /\ call' \in [Calls -> CallType] /\ Others(c) /\ call'[c].at = "registering"
        /\ writes' \in Seq([by : Calls, data : Snapshots])
    BY <1>1, <2>1, MoveToEffect, WriteEffect
  <2>3. QED
    BY <1>1, <1>2, <2>1, <2>2, SessionAssumption DEF TypeOK
<1>3. CASE c \notin Openers
  BY <1>1, <1>3, ToldEffect, SessionAssumption DEF NotFound, TypeOK, store
<1>4. QED
  BY <1>2, <1>3

LEMMA EvictEffect ==
  ASSUME TypeOK, NEW c \in Calls, Evict(c)
  PROVE  /\ cache' \in Calls \cup {NoSession} /\ history' \in [Calls -> SUBSET Calls]
         /\ equipped' \in SUBSET Calls /\ writes' \in Seq([by : Calls, data : Snapshots])
         /\ acked' \in SUBSET Calls
         /\ call' \in [Calls -> CallType] /\ Others(c)
         /\ call'[c].at = "evicting"
<1>1. NoSnapshot \in Snapshots /\ "evicting" \in Stages
  BY DEF Snapshots, Stages
<1>2. Write(c, NoSnapshot) /\ MoveTo(c, "evicting")
  BY DEF Evict
<1>3. /\ call' \in [Calls -> CallType] /\ Others(c) /\ call'[c].at = "evicting"
      /\ writes' \in Seq([by : Calls, data : Snapshots])
  BY <1>1, <1>2, MoveToEffect, WriteEffect
<1>4. QED
  BY <1>3 DEF Evict, TypeOK

LEMMA AgetEffect ==
  ASSUME TypeOK, NEW c \in Turns \cup Openers \cup Updaters, Aget(c)
  PROVE  /\ cache' \in Calls \cup {NoSession} /\ history' \in [Calls -> SUBSET Calls]
         /\ equipped' \in SUBSET Calls /\ writes' \in Seq([by : Calls, data : Snapshots])
         /\ acked' \in SUBSET Calls
         /\ call' \in [Calls -> CallType] /\ Others(c) /\ Kind(c)'
         /\ c \in Turns => InFlight(c)' /\ call'[c].at # "queued"
<1>1. c \in Calls /\ "loading" \in Stages
  BY DEF Calls, Stages
<1>2. /\ c \in Turns    => c \notin Openers \cup Updaters \cup Closers
      /\ c \in Openers  => c \notin Updaters \cup Closers
      /\ c \in Updaters => c \notin Closers
  BY SessionAssumption
<1>3. CASE cache = NoSession /\ MoveTo(c, "loading") /\ UNCHANGED <<store, writes, acked>>
  <2>1. call' \in [Calls -> CallType] /\ Others(c) /\ call'[c].at = "loading"
    BY <1>1, <1>3, MoveToEffect
  <2>2. QED
    BY <1>2, <1>3, <2>1 DEF TypeOK, store, Kind, Stage, Opening, Using, InFlight
<1>4. CASE cache # NoSession /\ Proceed(c, cache, history) /\ UNCHANGED <<cache, acked>>
  <2>1. cache \in Calls /\ history \in [Calls -> SUBSET Calls]
    BY <1>4 DEF TypeOK
  <2>2. /\ history' \in [Calls -> SUBSET Calls] /\ equipped' \in SUBSET Calls
        /\ writes' \in Seq([by : Calls, data : Snapshots])
        /\ call' \in [Calls -> CallType] /\ Others(c)
        /\ c \in Turns    => call'[c].at = "touching" /\ call'[c].obj \in Calls
        /\ c \in Openers  => call'[c].at = "done"
        /\ c \in Updaters => call'[c].at = "updating" /\ call'[c].obj \in Calls
    BY <1>4, <2>1, ProceedEffect
  <2>3. QED
    BY <1>2, <1>4, <2>2 DEF TypeOK, Kind, Stage, Opening, Using, InFlight
<1>5. CASE cache # NoSession /\ Evict(c)
  <2>1. /\ cache' \in Calls \cup {NoSession} /\ history' \in [Calls -> SUBSET Calls]
        /\ equipped' \in SUBSET Calls /\ writes' \in Seq([by : Calls, data : Snapshots])
        /\ acked' \in SUBSET Calls
        /\ call' \in [Calls -> CallType] /\ Others(c)
        /\ call'[c].at = "evicting"
    BY <1>1, <1>5, EvictEffect
  <2>2. QED
    BY <1>2, <2>1 DEF Kind, Stage, Opening, Using, InFlight
<1>6. QED
  BY <1>3, <1>4, <1>5 DEF Aget

-----------------------------------------------------------------------------
(* How a step of a call treats the queues of the locks.                     *)

Keeps(c)  == queue' = queue /\ (c \in Turns => InFlight(c) /\ Stage(c) # "queued" /\ InFlight(c)')
Leaves(c) == queue' = Released(c) /\ call'[c].at = "done"
Joins(t)  ==
  \E l \in Turns : /\ t \in Turns /\ ~InFlight(t) /\ InFlight(t)'
                   /\ queue' = [queue EXCEPT ![l] = Append(@, t)]
                   /\ queue[l] # <<>> => call'[t].at = "queued"
Enters(t) == /\ t \in Turns /\ InFlight(t) /\ InFlight(t)' /\ queue' = queue
             /\ \E l \in Turns : queue[l] # <<>> /\ t = Head(queue[l])
Shape(c)  == Others(c) /\ Kind(c)' /\ (Keeps(c) \/ Leaves(c) \/ Joins(c) \/ Enters(c))

LEMMA HeadQueued ==
  ASSUME TypeOK, NEW l \in Turns, queue[l] # <<>>
  PROVE  Head(queue[l]) \in ToSet(queue[l]) /\ Head(queue[l]) \in Turns
<1>1. queue[l] \in Seq(Turns)
  BY DEF TypeOK
<1>2. 1 \in DOMAIN queue[l] /\ Head(queue[l]) = queue[l][1] /\ queue[l][1] \in Turns
  BY <1>1, HeadTailProperties, LenProperties, ElementOfSeq, EmptySeq
<1>3. QED
  BY <1>2 DEF ToSet

(* Whatever the call does, the turns in flight stay in the queues of their  *)
(* locks, one at the head of each.                                          *)
LEMMA ShapeLocked ==
  ASSUME Locked, TypeOK', NEW c \in Calls, Shape(c)
  PROVE  Locked'
<1>1. Kinds'
  <2> SUFFICES ASSUME NEW d \in Calls PROVE Kind(d)'
    BY DEF Kinds
  <2>1. CASE d = c
    BY <2>1 DEF Shape
  <2>2. CASE d # c
    <3>1. Kind(d) /\ call'[d] = call[d]
      BY <2>2 DEF Locked, Kinds, Shape, Others
    <3>2. QED
      BY <3>1 DEF Kind, Stage
  <2>3. QED
    BY <2>1, <2>2
<1>10. \A l \in Turns : /\ ToSet(queue[l])' = ToSet(queue'[l])
                        /\ IsInjective(queue[l])' <=> IsInjective(queue'[l])
  BY DEF ToSet, IsInjective
<1>2. \A l \in Turns : queue[l] \in Seq(Turns) /\ IsInjective(queue[l])
  BY DEF Locked, TypeOK, QueuesApart
<1>3. \A d \in Calls \ {c} : call'[d] = call[d] /\ (InFlight(d)' <=> InFlight(d))
  BY DEF Shape, Others, InFlight
<1>4. Turns \subseteq Calls
  BY DEF Calls
<1>5. CASE Keeps(c)
  <2>1. queue' = queue /\ (c \in Turns => InFlight(c) /\ Stage(c) # "queued" /\ InFlight(c)')
    BY <1>5 DEF Keeps
  <2>2. \A m \in Turns : ToSet(queue[m]) \subseteq Turns
    BY <1>2 DEF ToSet
  <2>3. QueuesInFlight' /\ QueuesApart'
    BY <1>3, <1>4, <1>10, <2>1, <2>2 DEF Locked, QueuesInFlight, QueuesApart
  <2>4. InFlightQueued'
    <3> SUFFICES ASSUME NEW t \in Turns, InFlight(t)'
                 PROVE  \E m \in Turns : t \in ToSet(queue[m])
                                       /\ (call'[t].at # "queued" => t = Head(queue[m]))
      BY <1>10, <2>1 DEF InFlightQueued, Stage
    <3>1. InFlight(t) /\ (t = c \/ call'[t] = call[t])
      BY <1>3, <1>4, <2>1
    <3>2. PICK m \in Turns : t \in ToSet(queue[m]) /\ (Stage(t) # "queued" => t = Head(queue[m]))
      BY <3>1 DEF Locked, InFlightQueued
    <3>3. QED
      BY <2>1, <3>1, <3>2 DEF Stage
  <2>5. QED
    BY <1>1, <2>3, <2>4 DEF Locked
<1>6. CASE Leaves(c)
  <2>1. \A l \in Turns : queue'[l] = Without(queue[l], c)
    BY <1>6 DEF Leaves, Released
  <2>2. \A l \in Turns : /\ ToSet(queue'[l]) = ToSet(queue[l]) \ {c}
                         /\ IsInjective(queue'[l])
                         /\ \A u \in ToSet(queue[l]) \ {c} : u = Head(queue[l]) => u = Head(queue'[l])
    BY <1>2, <2>1, WithoutTurn
  <2>3. ~InFlight(c)'
    BY <1>6 DEF Leaves, InFlight
  <2>4. \A l \in Turns : ToSet(queue[l]) \subseteq Turns
    BY <1>2 DEF ToSet
  <2>5. QueuesInFlight'
    BY <1>3, <1>4, <1>10, <2>2, <2>4 DEF Locked, QueuesInFlight
  <2>6. QueuesApart'
    BY <1>10, <2>2 DEF Locked, QueuesApart
  <2>7. InFlightQueued'
    <3> SUFFICES ASSUME NEW t \in Turns, InFlight(t)'
                 PROVE  \E l \in Turns : t \in ToSet(queue'[l])
                                       /\ (call'[t].at # "queued" => t = Head(queue'[l]))
      BY <1>10 DEF InFlightQueued, Stage
    <3>1. t \in Calls \ {c} /\ InFlight(t) /\ call'[t] = call[t]
      BY <1>3, <1>4, <2>3
    <3>2. PICK l \in Turns : t \in ToSet(queue[l]) /\ (Stage(t) # "queued" => t = Head(queue[l]))
      BY <3>1 DEF Locked, InFlightQueued
    <3>3. QED
      BY <2>2, <3>1, <3>2 DEF Stage
  <2>8. QED
    BY <1>1, <2>5, <2>6, <2>7 DEF Locked
<1>7. CASE Joins(c)
  <2>1. PICK l \in Turns : /\ c \in Turns /\ ~InFlight(c) /\ InFlight(c)'
                           /\ queue' = [queue EXCEPT ![l] = Append(@, c)]
                           /\ queue[l] # <<>> => call'[c].at = "queued"
    BY <1>7 DEF Joins
  <2>2. \A m \in Turns : c \notin ToSet(queue[m])
    BY <2>1 DEF Locked, QueuesInFlight
  <2>3. /\ ToSet(queue'[l]) = ToSet(queue[l]) \cup {c}
        /\ IsInjective(queue'[l])
        /\ queue[l] # <<>> => Head(queue'[l]) = Head(queue[l])
        /\ queue[l] = <<>> => Head(queue'[l]) = c
    <3>1. queue'[l] = Append(queue[l], c)
      BY <2>1 DEF Locked, TypeOK
    <3>2. QED
      BY <1>2, <2>1, <2>2, <3>1, AppendTurn
  <2>4. \A m \in Turns \ {l} : queue'[m] = queue[m]
    BY <2>1 DEF Locked, TypeOK
  <2>5. \A m \in Turns : ToSet(queue[m]) \subseteq Turns
    BY <1>2 DEF ToSet
  <2>6. QueuesInFlight'
    <3> SUFFICES ASSUME NEW m \in Turns, NEW t \in ToSet(queue'[m]) PROVE InFlight(t)'
      BY <1>10 DEF QueuesInFlight
    <3>1. t = c \/ (t \in ToSet(queue[m]) /\ t \in Calls \ {c})
      BY <1>4, <2>2, <2>3, <2>4, <2>5
    <3>2. QED
      BY <1>3, <2>1, <3>1 DEF Locked, QueuesInFlight
  <2>7. QueuesApart'
    <3>1. \A m \in Turns : IsInjective(queue'[m])
      BY <1>2, <2>3, <2>4
    <3>2. \A m, n \in Turns : m # n => ToSet(queue'[m]) \cap ToSet(queue'[n]) = {}
      BY <2>2, <2>3, <2>4 DEF Locked, QueuesApart
    <3>3. QED
      BY <1>10, <3>1, <3>2 DEF QueuesApart
  <2>8. InFlightQueued'
    <3> SUFFICES ASSUME NEW t \in Turns, InFlight(t)'
                 PROVE  \E m \in Turns : t \in ToSet(queue'[m])
                                       /\ (call'[t].at # "queued" => t = Head(queue'[m]))
      BY <1>10 DEF InFlightQueued, Stage
    <3>1. CASE t = c
      BY <2>1, <2>3, <3>1
    <3>2. CASE t # c
      <4>1. InFlight(t) /\ call'[t] = call[t]
        BY <1>3, <1>4, <3>2
      <4>2. PICK m \in Turns : t \in ToSet(queue[m]) /\ (Stage(t) # "queued" => t = Head(queue[m]))
        BY <4>1 DEF Locked, InFlightQueued
      <4>3. CASE m = l
        <5>1. queue[l] # <<>>
          <6>1. DOMAIN <<>> = {}
            OBVIOUS
          <6>2. QED
            BY <4>2, <4>3, <6>1 DEF ToSet
        <5>2. QED
          BY <2>3, <4>1, <4>2, <4>3, <5>1 DEF Stage
      <4>4. CASE m # l
        BY <2>4, <4>1, <4>2, <4>4 DEF Stage
      <4>5. QED
        BY <4>3, <4>4
    <3>3. QED
      BY <3>1, <3>2
  <2>9. QED
    BY <1>1, <2>6, <2>7, <2>8 DEF Locked
<1>8. CASE Enters(c)
  <2>1. c \in Turns /\ InFlight(c)' /\ queue' = queue
    BY <1>8 DEF Enters
  <2>2. PICK l \in Turns : queue[l] # <<>> /\ c = Head(queue[l])
    BY <1>8 DEF Enters
  <2>3. c \in ToSet(queue[l])
    BY <2>2, HeadQueued DEF Locked
  <2>4a. \A m \in Turns : ToSet(queue[m]) \subseteq Turns
    BY <1>2 DEF ToSet
  <2>4. QueuesInFlight' /\ QueuesApart'
    BY <1>3, <1>4, <1>10, <2>1, <2>4a DEF Locked, QueuesInFlight, QueuesApart
  <2>5. InFlightQueued'
    <3> SUFFICES ASSUME NEW t \in Turns, InFlight(t)'
                 PROVE  \E m \in Turns : t \in ToSet(queue'[m])
                                       /\ (call'[t].at # "queued" => t = Head(queue'[m]))
      BY <1>10 DEF InFlightQueued, Stage
    <3>1. CASE t = c
      BY <2>1, <2>2, <2>3, <3>1
    <3>2. CASE t # c
      BY <1>3, <1>4, <2>1, <3>2 DEF Locked, InFlightQueued, Stage
    <3>3. QED
      BY <3>1, <3>2
  <2>6. QED
    BY <1>1, <2>4, <2>5 DEF Locked
<1>9. QED
  BY <1>5, <1>6, <1>7, <1>8 DEF Shape

-----------------------------------------------------------------------------
(* The types and the queues, action by action.                              *)

StoreTyped == /\ cache \in Calls \cup {NoSession} /\ history \in [Calls -> SUBSET Calls]
              /\ equipped \in SUBSET Calls

LEMMA FinishShape ==
  ASSUME Locked, NEW c \in Calls, Finish(c)
  PROVE  /\ call' \in [Calls -> CallType] /\ queue' \in [Turns -> Seq(Turns)]
         /\ Shape(c) /\ call'[c].at = "done"
<1>1. call' = Left(c) /\ queue' = Released(c) /\ TypeOK /\ QueuesApart
  BY DEF Finish, Locked
<1>2. /\ call' \in [Calls -> CallType] /\ Others(c) /\ call'[c].at = "done"
      /\ queue' \in [Turns -> Seq(Turns)]
  BY <1>1, LeftEffect, ReleasedEffect
<1>3. QED
  BY <1>1, <1>2 DEF Shape, Leaves, Kind, Stage, Opening, Using

(* A call that has opened the session goes on, or is done if it is no turn. *)
LEMMA OpenedShape ==
  ASSUME Locked, NEW c \in Calls, InFlight(c), Stage(c) # "queued", Others(c),
         Kind(c)', c \in Turns => call'[c].at \notin {"idle", "done"}, queue' = queue
  PROVE  Shape(c)
BY DEF Shape, Keeps, InFlight

(* A call has its answer. *)
LEMMA ToldShape ==
  ASSUME Locked, NEW c \in Calls, InFlight(c), Stage(c) # "queued", call' = Told(c), queue' = queue
  PROVE  Shape(c) /\ call' \in [Calls -> CallType]
<1>1. /\ call' \in [Calls -> CallType] /\ Others(c)
      /\ call'[c].at = IF c \in Turns THEN "yielding" ELSE "done"
  BY ToldEffect DEF Locked
<1>2. Kind(c)'
  BY <1>1, SessionAssumption DEF Kind, Stage, Opening, Using
<1>3. QED
  BY <1>1, <1>2, OpenedShape

LEMMA StaysShape ==
  ASSUME Locked, NEW c \in Calls, InFlight(c), Stage(c) # "queued",
         NEW at \in Stages \ {"idle", "done"}, MoveTo(c, at), queue' = queue, Kind(c)'
  PROVE  Shape(c) /\ call' \in [Calls -> CallType] /\ call'[c].at = at
<1>1. call' \in [Calls -> CallType] /\ Others(c) /\ call'[c].at = at
  BY MoveToEffect DEF Locked
<1>2. QED
  BY <1>1 DEF Shape, Keeps, InFlight

(* Which calls can be at a stage. *)
LEMMA StageOf ==
  ASSUME Locked, NEW c \in Calls
  PROVE  /\ Stage(c) \in Opening => c \in Turns \cup Openers \cup Updaters
         /\ Stage(c) \in {"queued", "touching", "asking", "running", "turning", "answering"} => c \in Turns
         /\ Stage(c) = "updating" => c \in Updaters
         /\ Stage(c) = "registering" => c \in Openers
         /\ Stage(c) \in {"cleaning", "stopping", "deleting"} => c \in Closers
         /\ c \in Turns    => c \notin Openers \cup Updaters \cup Closers
         /\ c \in Openers  => c \notin Turns \cup Updaters \cup Closers
         /\ c \in Updaters => c \notin Turns \cup Openers \cup Closers
         /\ c \in Closers  => c \notin Turns \cup Openers \cup Updaters
<1>1. Kind(c)
  BY DEF Locked, Kinds
<1>2. c \in Turns \cup Openers \cup Updaters \cup Closers
  BY DEF Calls
<1>3. QED
  BY <1>1, <1>2, SessionAssumption DEF Kind, Stage, Opening, Using

LEMMA BeginShape ==
  ASSUME Locked, NEW c \in Calls, Begin(c)
  PROVE  TypeOK' /\ Shape(c)
<1>1. c \in Openers \cup Updaters /\ c \notin Turns /\ Aget(c)
  BY StageOf DEF Begin
<1>2. /\ StoreTyped' /\ writes' \in Seq([by : Calls, data : Snapshots])
      /\ acked' \in SUBSET Calls
      /\ call' \in [Calls -> CallType] /\ Others(c) /\ Kind(c)'
  BY <1>1, AgetEffect DEF Locked, StoreTyped
<1>3. QED
  BY <1>1, <1>2 DEF Begin, Locked, TypeOK, StoreTyped, CallType, Shape, Keeps

LEMMA ReadSnapshotShape ==
  ASSUME Locked, NEW c \in Calls, ReadSnapshot(c)
  PROVE  TypeOK' /\ Shape(c) /\ call'[c].at = "loaded" /\ call'[c].read = snapshot
<1>1. /\ Stage(c) = "loading"
      /\ call' = [call EXCEPT ![c].at = "loaded", ![c].read = snapshot]
  BY DEF ReadSnapshot, Stage
<1>2. /\ call' \in [Calls -> CallType] /\ Others(c)
      /\ call'[c].at = "loaded" /\ call'[c].read = snapshot
  BY <1>1 DEF Locked, TypeOK, CallType, Stages, Others
<1>3. c \in Turns \cup Openers \cup Updaters /\ c \notin Closers
  BY <1>1, StageOf DEF Opening
<1>4. Shape(c)
  BY <1>1, <1>2, <1>3 DEF ReadSnapshot, Shape, Keeps, Kind, Stage, InFlight, Opening, Using
<1>5. TypeOK'
  BY <1>2 DEF ReadSnapshot, Locked, TypeOK, CallType, store
<1>6. QED
  BY <1>2, <1>4, <1>5

LEMMA LoadedShape ==
  ASSUME Locked, NEW c \in Calls, Loaded(c)
  PROVE  TypeOK' /\ Shape(c)
<1>1. TypeOK /\ Stage(c) = "loaded" /\ InFlight(c) /\ queue' = queue
  BY DEF Locked, Loaded, Stage, InFlight
<1>2. /\ c \in Turns \cup Openers \cup Updaters
      /\ c \in Turns    => c \notin Openers \cup Updaters \cup Closers
      /\ c \in Openers  => c \notin Turns \cup Updaters \cup Closers
      /\ c \in Updaters => c \notin Turns \cup Openers \cup Closers
  BY <1>1, StageOf DEF Opening
<1>3. SUFFICES /\ StoreTyped' /\ writes' \in Seq([by : Calls, data : Snapshots])
               /\ acked' \in SUBSET Calls
               /\ call' \in [Calls -> CallType] /\ Others(c) /\ Kind(c)'
               /\ c \in Turns => call'[c].at \notin {"idle", "done"}
  <2>1. Shape(c)
    BY <1>1, <1>3, OpenedShape
  <2>2. QED
    BY <1>1, <1>3, <2>1 DEF Loaded, TypeOK, StoreTyped, CallType
<1>4. CASE NotFound(c) /\ UNCHANGED acked
  <2>1. /\ StoreTyped' /\ writes' \in Seq([by : Calls, data : Snapshots])
        /\ call' \in [Calls -> CallType] /\ Others(c)
        /\ c \in Openers  => call'[c].at = "registering"
        /\ c \in Turns    => call'[c].at = "yielding"
        /\ c \in Updaters => call'[c].at = "done"
    BY <1>1, <1>2, <1>4, NotFoundEffect DEF StoreTyped
  <2>2. Kind(c)' /\ (c \in Turns => call'[c].at \notin {"idle", "done"})
    BY <1>2, <2>1 DEF Kind, Stage, Opening, Using
  <2>3. acked' \in SUBSET Calls
    BY <1>1, <1>4 DEF TypeOK
  <2>4. QED
    BY <2>1, <2>2, <2>3
<1>5. CASE /\ call[c].read # NoSnapshot /\ cache' = c /\ UNCHANGED acked
           /\ Proceed(c, c, [history EXCEPT ![c] = call[c].read])
  <2> DEFINE h == [history EXCEPT ![c] = call[c].read]
  <2>1. h \in [Calls -> SUBSET Calls] /\ Proceed(c, c, h)
    BY <1>1, <1>5 DEF TypeOK, Snapshots
  <2> HIDE DEF h
  <2>2. /\ history' \in [Calls -> SUBSET Calls] /\ equipped' \in SUBSET Calls
        /\ writes' \in Seq([by : Calls, data : Snapshots])
        /\ call' \in [Calls -> CallType] /\ Others(c)
        /\ c \in Turns    => call'[c].at = "touching" /\ call'[c].obj \in Calls
        /\ c \in Openers  => call'[c].at = "done"
        /\ c \in Updaters => call'[c].at = "updating" /\ call'[c].obj \in Calls
    BY <1>1, <1>2, <2>1, ProceedEffect
  <2>3. Kind(c)' /\ (c \in Turns => call'[c].at \notin {"idle", "done"})
    BY <1>2, <2>2 DEF Kind, Stage, Opening, Using
  <2>4. QED
    BY <1>1, <1>5, <2>2, <2>3 DEF StoreTyped, TypeOK
<1>6. CASE Evict(c)
  <2>1. StoreTyped' /\ writes' \in Seq([by : Calls, data : Snapshots]) /\ acked' \in SUBSET Calls
        /\ call' \in [Calls -> CallType] /\ Others(c) /\ call'[c].at = "evicting"
    BY <1>1, <1>6, EvictEffect DEF StoreTyped
  <2>2. Kind(c)' /\ (c \in Turns => call'[c].at \notin {"idle", "done"})
    BY <1>2, <2>1 DEF Kind, Stage, Opening, Using
  <2>3. QED
    BY <2>1, <2>2
<1>7. QED
  BY <1>4, <1>5, <1>6 DEF Loaded

LEMMA EvictedShape ==
  ASSUME Locked, NEW c \in Calls, Evicted(c)
  PROVE  TypeOK' /\ Shape(c)
<1>1. TypeOK /\ Stage(c) = "evicting" /\ InFlight(c) /\ queue' = queue /\ NotFound(c)
  BY DEF Locked, Evicted, Stage, InFlight
<1>2. /\ c \in Turns \cup Openers \cup Updaters
      /\ c \in Turns    => c \notin Openers \cup Updaters \cup Closers
      /\ c \in Openers  => c \notin Turns \cup Updaters \cup Closers
      /\ c \in Updaters => c \notin Turns \cup Openers \cup Closers
  BY <1>1, StageOf DEF Opening
<1>3. /\ StoreTyped' /\ writes' \in Seq([by : Calls, data : Snapshots])
      /\ call' \in [Calls -> CallType] /\ Others(c)
      /\ c \in Openers  => call'[c].at = "registering"
      /\ c \in Turns    => call'[c].at = "yielding"
      /\ c \in Updaters => call'[c].at = "done"
  BY <1>1, <1>2, NotFoundEffect DEF StoreTyped
<1>4. Kind(c)' /\ (c \in Turns => call'[c].at \notin {"idle", "done"})
  BY <1>2, <1>3 DEF Kind, Stage, Opening, Using
<1>5. Shape(c)
  BY <1>1, <1>3, <1>4, OpenedShape
<1>6. QED
  BY <1>1, <1>3, <1>5 DEF Evicted, TypeOK, StoreTyped, CallType

LEMMA TurnBeginsShape ==
  ASSUME Locked, NEW t \in Turns, TurnBegins(t)
  PROVE  TypeOK' /\ Shape(t)
<1> DEFINE l == IF lock = NoLock THEN t ELSE lock
<1>1. /\ TypeOK /\ t \in Calls /\ l \in Turns /\ ~InFlight(t) /\ lock' = l
      /\ UNCHANGED <<snapshot, forgotten, orderly>>
  BY DEF Locked, TypeOK, TurnBegins, Calls, InFlight
<1>2. /\ \/ queue[l] = <<>> /\ Aget(t) /\ queue' = [queue EXCEPT ![l] = <<t>>]
         \/ /\ queue[l] # <<>> /\ queue' = [queue EXCEPT ![l] = Append(@, t)]
            /\ MoveTo(t, "queued") /\ UNCHANGED <<store, writes, acked>>
  BY DEF TurnBegins
<1> HIDE DEF l
<1>3. CASE queue[l] = <<>> /\ Aget(t) /\ queue' = [queue EXCEPT ![l] = <<t>>]
  <2>1. /\ StoreTyped' /\ writes' \in Seq([by : Calls, data : Snapshots])
        /\ acked' \in SUBSET Calls
        /\ call' \in [Calls -> CallType] /\ Others(t) /\ Kind(t)' /\ InFlight(t)'
    BY <1>1, <1>3, AgetEffect DEF StoreTyped
  <2>2. Append(queue[l], t) = <<t>> /\ <<t>> \in Seq(Turns)
    BY <1>3
  <2>3. queue' = [queue EXCEPT ![l] = Append(@, t)] /\ queue' \in [Turns -> Seq(Turns)]
    BY <1>1, <1>3, <2>2 DEF TypeOK
  <2>4. Shape(t)
    BY <1>1, <1>3, <2>1, <2>3 DEF Shape, Joins
  <2>5. TypeOK'
    BY <1>1, <2>1, <2>3 DEF TypeOK, StoreTyped, CallType
  <2>6. QED
    BY <2>4, <2>5
<1>4. CASE /\ queue[l] # <<>> /\ queue' = [queue EXCEPT ![l] = Append(@, t)]
           /\ MoveTo(t, "queued") /\ UNCHANGED <<store, writes, acked>>
  <2>1. "queued" \in Stages
    BY DEF Stages
  <2>2. call' \in [Calls -> CallType] /\ Others(t) /\ call'[t].at = "queued"
    BY <1>1, <1>4, <2>1, MoveToEffect
  <2>3. Kind(t)' /\ InFlight(t)'
    BY <2>2, StageOf, SessionAssumption DEF Kind, Stage, InFlight, Using
  <2>4. queue' \in [Turns -> Seq(Turns)]
    BY <1>1, <1>4, AppendProperties DEF TypeOK
  <2>5. Shape(t)
    BY <1>1, <1>4, <2>2, <2>3 DEF Shape, Joins
  <2>6. TypeOK'
    BY <1>1, <1>4, <2>2, <2>4 DEF TypeOK, CallType, store
  <2>7. QED
    BY <2>5, <2>6
<1>5. QED
  BY <1>2, <1>3, <1>4

LEMMA TurnEntersShape ==
  ASSUME Locked, NEW t \in Turns, TurnEnters(t)
  PROVE  TypeOK' /\ Shape(t)
<1>1. TypeOK /\ t \in Calls /\ InFlight(t)
  BY DEF Locked, TurnEnters, Calls, InFlight
<1>2. /\ StoreTyped' /\ writes' \in Seq([by : Calls, data : Snapshots])
      /\ acked' \in SUBSET Calls
      /\ call' \in [Calls -> CallType] /\ Others(t) /\ Kind(t)' /\ InFlight(t)'
  BY <1>1, AgetEffect DEF TurnEnters, StoreTyped
<1>3. Shape(t)
  BY <1>1, <1>2 DEF TurnEnters, Shape, Enters
<1>4. TypeOK'
  BY <1>1, <1>2 DEF TurnEnters, TypeOK, StoreTyped, CallType
<1>5. QED
  BY <1>3, <1>4

(* What a call that uses the session has in hand. *)
LEMMA UsedTyped ==
  ASSUME Locked, NEW c \in Calls, Stage(c) \in Using
  PROVE  call[c].obj \in Calls /\ history[call[c].obj] \in SUBSET Calls
BY DEF Locked, Kinds, Kind, TypeOK

LEMMA TouchedShape ==
  ASSUME Locked, NEW t \in Turns, Touched(t)
  PROVE  TypeOK' /\ Shape(t)
<1>1. /\ TypeOK /\ t \in Calls /\ Stage(t) = "touching" /\ InFlight(t) /\ Stage(t) # "queued"
      /\ UNCHANGED <<store, snapshot, lock, queue, forgotten, acked, orderly>>
  BY DEF Locked, Touched, Calls, Stage, InFlight
<1>2. t \notin Openers \cup Updaters \cup Closers
  BY SessionAssumption
<1>3. call[t].obj \in Calls /\ history[call[t].obj] \in Snapshots
  BY <1>1, UsedTyped DEF Using, Snapshots
<1>4. CASE call' = Told(t) /\ UNCHANGED writes
  <2>1. Shape(t) /\ call' \in [Calls -> CallType]
    BY <1>1, <1>4, ToldShape
  <2>2. QED
    BY <1>1, <1>4, <2>1 DEF TypeOK, CallType, store
<1>5. CASE MoveTo(t, "turning") /\ UNCHANGED writes
  <2>1. "turning" \in Stages \ {"idle", "done"} /\ "turning" \in Stages
    BY DEF Stages
  <2>2. call' \in [Calls -> CallType] /\ Kind(t)'
    BY <1>1, <1>2, <1>3, <1>5, <2>1, MoveToEffect DEF Kind, Stage, Using
  <2>3. Shape(t)
    BY <1>1, <1>5, <2>1, <2>2, StaysShape
  <2>4. QED
    BY <1>1, <1>5, <2>2, <2>3 DEF TypeOK, CallType, store
<1>6. CASE MoveTo(t, "asking") /\ Write(t, history[call[t].obj])
  <2>1. "asking" \in Stages \ {"idle", "done"} /\ "asking" \in Stages
    BY DEF Stages
  <2>2. call' \in [Calls -> CallType] /\ Kind(t)'
    BY <1>1, <1>2, <1>3, <1>6, <2>1, MoveToEffect DEF Kind, Stage, Using
  <2>3. Shape(t)
    BY <1>1, <1>6, <2>1, <2>2, StaysShape
  <2>4. writes' \in Seq([by : Calls, data : Snapshots])
    BY <1>1, <1>3, <1>6, WriteEffect
  <2>5. QED
    BY <1>1, <1>6, <2>2, <2>3, <2>4 DEF TypeOK, CallType, store
<1>7. QED
  BY <1>4, <1>5, <1>6 DEF Touched

LEMMA AskedShape ==
  ASSUME Locked, NEW t \in Turns, Asked(t)
  PROVE  TypeOK' /\ Shape(t)
<1>1. /\ TypeOK /\ t \in Calls /\ Stage(t) = "asking" /\ InFlight(t) /\ Stage(t) # "queued"
      /\ MoveTo(t, "running")
      /\ UNCHANGED <<store, snapshot, lock, queue, forgotten, writes, acked, orderly>>
  BY DEF Locked, Asked, Calls, Stage, InFlight
<1>2. "running" \in Stages \ {"idle", "done"} /\ "running" \in Stages
  BY DEF Stages
<1>3. call[t].obj \in Calls /\ t \notin Openers \cup Updaters \cup Closers
  BY <1>1, UsedTyped, SessionAssumption DEF Using
<1>4. call' \in [Calls -> CallType] /\ Kind(t)'
  BY <1>1, <1>2, <1>3, MoveToEffect DEF Kind, Stage, Using
<1>5. Shape(t)
  BY <1>1, <1>2, <1>4, StaysShape
<1>6. QED
  BY <1>1, <1>4, <1>5 DEF TypeOK, CallType, store

LEMMA AnsweredShape ==
  ASSUME Locked, NEW t \in Turns, Answered(t)
  PROVE  TypeOK' /\ Shape(t)
<1> DEFINE held == history[call[t].obj] \cup {t}
<1>1. /\ TypeOK /\ t \in Calls /\ Stage(t) = "running" /\ InFlight(t) /\ Stage(t) # "queued"
      /\ history' = [history EXCEPT ![call[t].obj] = held]
      /\ Write(t, held) /\ MoveTo(t, "answering")
      /\ UNCHANGED <<cache, equipped, snapshot, lock, queue, forgotten, acked, orderly>>
  BY DEF Locked, Answered, Calls, Stage, InFlight
<1>2. "answering" \in Stages \ {"idle", "done"} /\ "answering" \in Stages
  BY DEF Stages
<1>3. call[t].obj \in Calls /\ t \notin Openers \cup Updaters \cup Closers /\ held \in SUBSET Calls
  BY <1>1, UsedTyped, SessionAssumption DEF Using
<1>4. call' \in [Calls -> CallType] /\ Kind(t)'
  BY <1>1, <1>2, <1>3, MoveToEffect DEF Kind, Stage, Using
<1>5. Shape(t)
  BY <1>1, <1>2, <1>4, StaysShape
<1>6. writes' \in Seq([by : Calls, data : Snapshots])
  BY <1>1, <1>3, WriteEffect DEF Snapshots
<1>7. history' \in [Calls -> SUBSET Calls]
  BY <1>1, <1>3 DEF TypeOK
<1>8. QED
  BY <1>1, <1>4, <1>5, <1>6, <1>7 DEF TypeOK, CallType

(* StreamEnds, Registered, Abandon and Raises end their call. *)
LEMMA EndsShape ==
  ASSUME Locked, NEW c \in Calls, Finish(c), writes' \in Seq([by : Calls, data : Snapshots]),
         acked' \in SUBSET Calls, UNCHANGED <<store, snapshot, lock, forgotten, orderly>>
  PROVE  TypeOK' /\ Shape(c)
<1>1. /\ call' \in [Calls -> CallType] /\ queue' \in [Turns -> Seq(Turns)]
      /\ Shape(c)
  BY FinishShape
<1>2. QED
  BY <1>1 DEF Locked, TypeOK, CallType, store

LEMMA AcknowledgeShape ==
  ASSUME Locked, NEW c \in Calls, Acknowledge(c)
  PROVE  TypeOK' /\ Shape(c)
<1>1. /\ TypeOK /\ InFlight(c) /\ Stage(c) # "queued" /\ call' = Told(c)
      /\ acked' = acked \cup {c}
      /\ UNCHANGED <<store, snapshot, lock, queue, forgotten, writes, orderly>>
  BY DEF Locked, Acknowledge, InFlight, Stage
<1>2. Shape(c) /\ call' \in [Calls -> CallType]
  BY <1>1, ToldShape
<1>3. QED
  BY <1>1, <1>2 DEF TypeOK, CallType, store

LEMMA RemovedTyped ==
  ASSUME TypeOK, NEW i \in DOMAIN writes, writes' = RemoveAt(writes, i)
  PROVE  /\ i \in 1..Len(writes) /\ Len(writes) \in Nat
         /\ writes' \in Seq([by : Calls, data : Snapshots]) /\ Len(writes') = Len(writes) - 1
         /\ \A j \in 1..(Len(writes) - 1) : writes'[j] = IF j < i THEN writes[j] ELSE writes[j + 1]
         /\ writes[i].data \in Snapshots
<1>1. writes \in Seq([by : Calls, data : Snapshots])
  BY DEF TypeOK
<1>2. i \in 1..Len(writes) /\ Len(writes) \in Nat /\ writes[i] \in [by : Calls, data : Snapshots]
  BY <1>1, LenProperties, ElementOfSeq
<1>3. QED
  BY <1>1, <1>2, RemoveAtSeq

LEMMA RaisesShape ==
  ASSUME Locked, NEW c \in Calls, Raises(c)
  PROVE  TypeOK' /\ Shape(c)
<1>1. /\ UNCHANGED <<store, snapshot, lock, forgotten, acked, orderly>>
      /\ writes' = writes \/ \E i \in DOMAIN writes : writes' = RemoveAt(writes, i)
  BY DEF Raises
<1>2. writes' \in Seq([by : Calls, data : Snapshots]) /\ acked' \in SUBSET Calls
  BY <1>1, RemovedTyped DEF Locked, TypeOK
<1>3. CASE Finish(c)
  BY <1>1, <1>2, <1>3, EndsShape
<1>4. CASE Stage(c) = "answering" /\ call' = Told(c) /\ UNCHANGED queue
  <2>1. TypeOK /\ InFlight(c) /\ Stage(c) # "queued"
    BY <1>4 DEF Locked, InFlight, Stage
  <2>2. Shape(c) /\ call' \in [Calls -> CallType]
    BY <1>1, <1>4, <2>1, ToldShape
  <2>3. QED
    BY <1>1, <1>2, <1>4, <2>1, <2>2 DEF TypeOK, CallType, store
<1>5. QED
  BY <1>3, <1>4 DEF Raises, Stage

LEMMA CloseShape ==
  ASSUME Locked, NEW c \in Closers, Close(c)
  PROVE  TypeOK' /\ Shape(c)
<1>1. /\ TypeOK /\ c \in Calls /\ c \notin Turns \cup Openers \cup Updaters
      /\ cache' = NoSession /\ acked' = {}
      /\ UNCHANGED <<history, equipped, snapshot, lock, queue, forgotten, orderly>>
  BY StageOf DEF Locked, Close, Calls
<1>2. {"cleaning", "deleting"} \subseteq Stages /\ NoSnapshot \in Snapshots
  BY DEF Stages, Snapshots
<1>3. \/ MoveTo(c, "cleaning") /\ UNCHANGED writes
      \/ MoveTo(c, "deleting") /\ Write(c, NoSnapshot)
  BY DEF Close
<1>4. writes' \in Seq([by : Calls, data : Snapshots])
  BY <1>1, <1>2, <1>3, WriteEffect DEF TypeOK
<1>5. /\ call' \in [Calls -> CallType] /\ Others(c)
      /\ call'[c].at \in {"cleaning", "deleting"}
  BY <1>1, <1>2, <1>3, MoveToEffect
<1>6. Shape(c)
  BY <1>1, <1>5 DEF Shape, Keeps, Kind, Stage, Using
<1>7. QED
  BY <1>1, <1>4, <1>5, <1>6 DEF TypeOK, CallType

LEMMA CleanedShape ==
  ASSUME Locked, NEW c \in Closers, Cleaned(c)
  PROVE  TypeOK' /\ Shape(c)
<1>1. /\ TypeOK /\ c \in Calls /\ c \notin Turns \cup Openers \cup Updaters
      /\ MoveTo(c, "deleting") /\ Write(c, NoSnapshot)
      /\ UNCHANGED <<store, snapshot, lock, queue, forgotten, acked, orderly>>
  BY StageOf DEF Locked, Cleaned, Calls
<1>2. "deleting" \in Stages /\ NoSnapshot \in Snapshots
  BY DEF Stages, Snapshots
<1>3. /\ call' \in [Calls -> CallType] /\ Others(c) /\ call'[c].at = "deleting"
      /\ writes' \in Seq([by : Calls, data : Snapshots])
  BY <1>1, <1>2, MoveToEffect, WriteEffect
<1>4. Shape(c)
  BY <1>1, <1>3 DEF Shape, Keeps, Kind, Stage, Using
<1>5. QED
  BY <1>1, <1>3, <1>4 DEF TypeOK, CallType, store

LEMMA CloseAllShape ==
  ASSUME Locked, NEW c \in Closers, CloseAll(c)
  PROVE  TypeOK' /\ Shape(c)
<1>1. /\ TypeOK /\ c \in Calls /\ c \notin Turns \cup Openers \cup Updaters
      /\ cache' = NoSession
      /\ UNCHANGED <<history, equipped, snapshot, queue, writes, acked, orderly>>
  BY StageOf DEF Locked, CloseAll, Calls
<1>2. \/ MoveTo(c, "stopping") /\ UNCHANGED <<lock, forgotten>>
      \/ call' = Left(c) /\ ForgetLock
  BY DEF CloseAll
<1>3. "stopping" \in Stages
  BY DEF Stages
<1>4. call' \in [Calls -> CallType] /\ Others(c) /\ call'[c].at \in {"stopping", "done"}
  BY <1>1, <1>2, <1>3, MoveToEffect, LeftEffect
<1>5. Shape(c)
  BY <1>1, <1>4 DEF Shape, Keeps, Kind, Stage, Using
<1>6. QED
  BY <1>1, <1>2, <1>4, <1>5 DEF TypeOK, CallType, ForgetLock

LEMMA ClosedShape ==
  ASSUME Locked, NEW c \in Closers, Closed(c)
  PROVE  TypeOK' /\ Shape(c)
<1>1. /\ TypeOK /\ c \in Calls /\ c \notin Turns \cup Openers \cup Updaters
      /\ ForgetLock /\ call' = Left(c)
      /\ UNCHANGED <<store, snapshot, queue, writes, acked, orderly>>
  BY StageOf DEF Locked, Closed, Calls
<1>2. call' \in [Calls -> CallType] /\ Others(c) /\ call'[c].at = "done"
  BY <1>1, LeftEffect
<1>3. Shape(c)
  BY <1>1, <1>2 DEF Shape, Keeps, Kind, Stage, Using
<1>4. QED
  BY <1>1, <1>2, <1>3 DEF TypeOK, CallType, store, ForgetLock

LEMMA FileWritesLocked ==
  ASSUME Locked, FileWrites
  PROVE  Locked'
<1>1. /\ TypeOK
      /\ \E i \in DOMAIN writes : snapshot' = writes[i].data /\ writes' = RemoveAt(writes, i)
      /\ UNCHANGED <<store, lock, queue, forgotten, call, acked, orderly>>
  BY DEF Locked, FileWrites
<1>2. writes' \in Seq([by : Calls, data : Snapshots]) /\ snapshot' \in Snapshots
  BY <1>1, RemovedTyped
<1>3. TypeOK'
  BY <1>1, <1>2 DEF TypeOK, store
<1>4. Kinds' /\ QueuesInFlight' /\ QueuesApart' /\ InFlightQueued'
  <2>1. queue' = queue /\ call' = call
    BY <1>1
  <2>2. Kinds'
    BY <2>1 DEF Locked, Kinds, Kind, Stage
  <2>3. QueuesInFlight'
    BY <2>1 DEF Locked, QueuesInFlight, InFlight, ToSet
  <2>4. QueuesApart'
    BY <2>1 DEF Locked, QueuesApart, ToSet, IsInjective
  <2>5. InFlightQueued'
    BY <2>1 DEF Locked, InFlightQueued, InFlight, Stage, ToSet
  <2>6. QED
    BY <2>2, <2>3, <2>4, <2>5
<1>5. QED
  BY <1>3, <1>4 DEF Locked

LEMMA CrashLocked ==
  ASSUME Locked, Crash
  PROVE  Locked' /\ \A c \in Calls : ~InFlight(c)'
<1>1. /\ cache' = NoSession /\ equipped' = {} /\ history' = [c \in Calls |-> {}]
      /\ lock' = NoLock /\ queue' = [t \in Turns |-> <<>>] /\ forgotten' = {}
      /\ writes' = <<>>
      /\ call' = [c \in Calls |-> IF InFlight(c) THEN Left(c)[c] ELSE call[c]]
      /\ UNCHANGED <<snapshot, acked, orderly>> /\ TypeOK
  BY DEF Crash, Locked
<1>2. \A c \in Calls : Left(c)[c] = [at |-> "done", obj |-> NoSession, read |-> NoSnapshot]
  BY <1>1 DEF Left, TypeOK
<1>3. \A c \in Calls : call'[c] \in CallType /\ call'[c].at \in {"idle", "done"}
  <2> SUFFICES ASSUME NEW c \in Calls
               PROVE  call'[c] \in CallType /\ call'[c].at \in {"idle", "done"}
    OBVIOUS
  <2>1. CASE InFlight(c)
    <3>1. call'[c] = [at |-> "done", obj |-> NoSession, read |-> NoSnapshot]
      BY <1>1, <1>2, <2>1
    <3>2. QED
      BY <3>1 DEF CallType, Stages, Snapshots
  <2>2. CASE ~InFlight(c)
    <3>1. call'[c] = call[c]
      BY <1>1, <2>2
    <3>2. QED
      BY <1>1, <2>2, <3>1 DEF TypeOK, CallType, InFlight
  <2>3. QED
    BY <2>1, <2>2
<1>4. TypeOK'
  <2>1. call' \in [Calls -> CallType] /\ queue' \in [Turns -> Seq(Turns)]
        /\ writes' \in Seq([by : Calls, data : Snapshots])
    BY <1>1, <1>3
  <2>2. QED
    BY <1>1, <2>1 DEF TypeOK, CallType
<1>5. \A c \in Calls : ~InFlight(c)'
  BY <1>3 DEF InFlight
<1>6. Kinds'
  BY <1>3 DEF Kinds, Kind, Stage, Using
<1>7. \A l \in Turns : queue'[l] = <<>> /\ DOMAIN queue'[l] = {}
  BY <1>1
<1>8. QueuesInFlight' /\ QueuesApart'
  BY <1>7 DEF QueuesInFlight, QueuesApart, ToSet, IsInjective
<1>9. InFlightQueued'
  BY <1>5 DEF InFlightQueued, Calls
<1>10. QED
  BY <1>4, <1>5, <1>6, <1>8, <1>9 DEF Locked

LEMMA LockedStep ==
  ASSUME Locked, [Next]_vars
  PROVE  Locked'
<1>1. CASE UNCHANGED vars
  <2>1. UNCHANGED <<cache, history, equipped, snapshot, lock, queue, forgotten, call, writes, acked, orderly>>
    BY <1>1 DEF vars
  <2>2. TypeOK'
    BY <2>1 DEF Locked, TypeOK
  <2>3. Kinds'
    BY <2>1 DEF Locked, Kinds, Kind, Stage
  <2>4. QueuesInFlight'
    BY <2>1 DEF Locked, QueuesInFlight, InFlight, ToSet
  <2>5. QueuesApart'
    BY <2>1 DEF Locked, QueuesApart, ToSet, IsInjective
  <2>6. InFlightQueued'
    BY <2>1 DEF Locked, InFlightQueued, InFlight, Stage, ToSet
  <2>7. QED
    BY <2>2, <2>3, <2>4, <2>5, <2>6 DEF Locked
<1>2. SUFFICES ASSUME NEW c \in Calls,
                      \/ Begin(c) \/ Step(c) \/ Raises(c) \/ Abandon(c)
                      \/ c \in Turns /\ TurnBegins(c)
                      \/ c \in Closers /\ (Close(c) \/ CloseAll(c))
               PROVE  TypeOK' /\ Shape(c)
  <2>1. CASE FileWrites
    BY <2>1, FileWritesLocked
  <2>2. CASE Crash
    BY <2>2, CrashLocked
  <2>3. Turns \subseteq Calls /\ Closers \subseteq Calls
    BY DEF Calls
  <2>4. QED
    BY <1>1, <1>2, <2>1, <2>2, <2>3, ShapeLocked DEF Next
<1>3. ASSUME Finish(c), UNCHANGED <<store, snapshot, lock, forgotten, orderly>>, writes' = writes,
             acked' \in SUBSET Calls
      PROVE  TypeOK' /\ Shape(c)
  BY <1>3, EndsShape DEF Locked, TypeOK
<1>4. acked \in SUBSET Calls /\ acked \cup {c} \in SUBSET Calls
  BY DEF Locked, TypeOK
<1>5. CASE Begin(c)
  BY <1>5, BeginShape
<1>6. CASE Step(c)
  <2>1. CASE ReadSnapshot(c)
    BY <2>1, ReadSnapshotShape
  <2>2. CASE Loaded(c)
    BY <2>2, LoadedShape
  <2>3. CASE Evicted(c)
    BY <2>3, EvictedShape
  <2>4. CASE Registered(c)
    BY <1>3, <1>4, <2>4 DEF Registered
  <2>5. CASE Acknowledge(c)
    BY <2>5, AcknowledgeShape
  <2>6. CASE c \in Turns /\ TurnEnters(c)
    BY <2>6, TurnEntersShape
  <2>7. CASE c \in Turns /\ Touched(c)
    BY <2>7, TouchedShape
  <2>8. CASE c \in Turns /\ Asked(c)
    BY <2>8, AskedShape
  <2>9. CASE c \in Turns /\ Answered(c)
    BY <2>9, AnsweredShape
  <2>10. CASE c \in Turns /\ StreamEnds(c)
    BY <1>3, <1>4, <2>10 DEF StreamEnds
  <2>11. CASE c \in Closers /\ Cleaned(c)
    BY <2>11, CleanedShape
  <2>12. CASE c \in Closers /\ Closed(c)
    BY <2>12, ClosedShape
  <2>13. QED
    BY <1>6, <2>1, <2>2, <2>3, <2>4, <2>5, <2>6, <2>7, <2>8, <2>9, <2>10, <2>11, <2>12 DEF Step
<1>7. CASE Raises(c)
  BY <1>7, RaisesShape
<1>8. CASE Abandon(c)
  BY <1>3, <1>4, <1>8 DEF Abandon
<1>9. CASE c \in Turns /\ TurnBegins(c)
  BY <1>9, TurnBeginsShape
<1>10. CASE c \in Closers /\ Close(c)
  BY <1>10, CloseShape
<1>11. CASE c \in Closers /\ CloseAll(c)
  BY <1>11, CloseAllShape
<1>12. QED
  BY <1>2, <1>5, <1>6, <1>7, <1>8, <1>9, <1>10, <1>11

-----------------------------------------------------------------------------
(* Every lock in use is the session's, or one that a close has popped.      *)

LEMMA QueuesKept ==
  ASSUME Locked, NEW c, queue' = queue \/ queue' = Released(c)
  PROVE  \A l \in Turns : queue'[l] # <<>> => queue[l] # <<>>
<1>1. \A l \in Turns : queue[l] \in Seq(Turns) /\ IsInjective(queue[l])
  BY DEF Locked, TypeOK, QueuesApart
<1>2. QED
  BY <1>1, WithoutTurn DEF Released

LocksKept(c) ==
  /\ queue' = queue \/ queue' = Released(c)
  /\ UNCHANGED <<lock, forgotten>> \/ ForgetLock

LEMMA StepKeepsLocks ==
  ASSUME NEW c \in Calls, Step(c)
  PROVE  LocksKept(c)
<1>1. CASE ReadSnapshot(c) \/ Loaded(c) \/ Evicted(c) \/ Acknowledge(c)
  BY <1>1 DEF ReadSnapshot, Loaded, Evicted, Acknowledge, LocksKept
<1>2. CASE TurnEnters(c) \/ Touched(c) \/ Asked(c) \/ Answered(c)
  BY <1>2 DEF TurnEnters, Touched, Asked, Answered, LocksKept
<1>3. CASE Registered(c) \/ StreamEnds(c)
  BY <1>3 DEF Registered, StreamEnds, Finish, LocksKept
<1>4. CASE Cleaned(c) \/ Closed(c)
  BY <1>4 DEF Cleaned, Closed, LocksKept
<1>5. QED
  BY <1>1, <1>2, <1>3, <1>4 DEF Step

LEMMA LocksNamedStep ==
  ASSUME Locked, LocksNamed, [Next]_vars
  PROVE  LocksNamed'
<1>1. ASSUME NEW c, LocksKept(c)
      PROVE  LocksNamed'
  BY <1>1, QueuesKept, SessionAssumption DEF LocksKept, ForgetLock, LocksNamed
<1>2. CASE UNCHANGED vars
  BY <1>2 DEF vars, LocksNamed
<1>3. CASE \E c \in Calls : Begin(c) \/ Step(c) \/ Raises(c) \/ Abandon(c)
  <2>1. PICK c \in Calls : Begin(c) \/ Step(c) \/ Raises(c) \/ Abandon(c)
    BY <1>3
  <2>2. LocksKept(c)
    BY <2>1, StepKeepsLocks DEF Begin, Raises, Abandon, Finish, LocksKept
  <2>3. QED
    BY <1>1, <2>2
<1>4. ASSUME NEW t \in Turns, TurnBegins(t)
      PROVE  LocksNamed'
  <2> DEFINE l == IF lock = NoLock THEN t ELSE lock
  <2>1. /\ lock' = l /\ forgotten' = forgotten /\ l \in Turns
        /\ \A m \in Turns \ {l} : queue'[m] = queue[m]
    BY <1>4 DEF TurnBegins, Locked, TypeOK
  <2>2. \A m \in Turns : queue[m] # <<>> => m = l \/ m \in forgotten
    BY SessionAssumption DEF LocksNamed
  <2>3. QED
    BY <2>1, <2>2 DEF LocksNamed
<1>5. CASE \E c \in Closers : Close(c) \/ CloseAll(c)
  <2>1. PICK c \in Closers : Close(c) \/ CloseAll(c)
    BY <1>5
  <2>2. LocksKept(c)
    BY <2>1 DEF Close, CloseAll, LocksKept
  <2>3. QED
    BY <1>1, <2>2
<1>6. CASE FileWrites
  BY <1>6 DEF FileWrites, LocksNamed
<1>7. CASE Crash
  BY <1>7 DEF Crash, LocksNamed
<1>8. QED
  BY <1>2, <1>3, <1>4, <1>5, <1>6, <1>7 DEF Next

-----------------------------------------------------------------------------
(* One lock, one call at a time, one write at a time, in an orderly world.  *)

LEMMA EmptyQueues ==
  ASSUME Locked, \A t \in Turns : ~InFlight(t)
  PROVE  \A l \in Turns : queue[l] = <<>>
BY HeadQueued DEF Locked, QueuesInFlight

(* Turns in flight are in the queue of the session's lock; only its head is *)
(* past the lock.                                                           *)
LEMMA LockHeld ==
  ASSUME Locked, OneLock, orderly, NEW t \in Turns, InFlight(t)
  PROVE  /\ lock \in Turns /\ queue[lock] # <<>>
         /\ Stage(t) # "queued" => t = Head(queue[lock])
<1>1. PICK l \in Turns : t \in ToSet(queue[l]) /\ (Stage(t) # "queued" => t = Head(queue[l]))
  BY DEF Locked, InFlightQueued
<1>2. queue[l] # <<>>
  <2>1. ASSUME queue[l] = <<>> PROVE FALSE
    <3>1. DOMAIN queue[l] = {}
      BY <2>1
    <3>2. QED
      BY <1>1, <3>1 DEF ToSet
  <2>2. QED
    BY <2>1
<1>3. QED
  BY <1>1, <1>2 DEF OneLock

LEMMA OneLockKept ==
  ASSUME Locked, OneLock, NEW c, queue' = queue \/ queue' = Released(c), lock' = lock,
         orderly' = orderly
  PROVE  OneLock'
BY QueuesKept DEF OneLock

(* Who does more than wait has the session to itself,                       *)
LEMMA ActiveIsSolo ==
  ASSUME Ordered, orderly, NEW c \in Calls, InFlight(c), Stage(c) # "queued"
  PROVE  Solo(c)
BY DEF Ordered, ActiveSolo, Active

LEMMA AloneSolo ==
  ASSUME NEW c \in Calls, Alone(c)
  PROVE  Solo(c)
BY DEF Alone, Solo

LEMMA TurnBeginsSolo ==
  ASSUME Locked, Ordered, orderly, NEW t \in Turns, Apart(t),
         queue[IF lock = NoLock THEN t ELSE lock] = <<>>
  PROVE  Solo(t)
<1>1. \A d \in Turns : ~InFlight(d)
  <2>1. ASSUME NEW d \in Turns, InFlight(d) PROVE FALSE
    BY <2>1, LockHeld, SessionAssumption DEF Ordered
  <2>2. QED
    BY <2>1
<1>2. QED
  BY <1>1 DEF Apart, Solo

LEMMA TurnEntersSolo ==
  ASSUME Locked, Ordered, orderly, NEW t \in Turns, TurnEnters(t)
  PROVE  Solo(t)
<1>1. /\ Stage(t) = "queued" /\ InFlight(t) /\ t \in Calls
      /\ \E l \in Turns : queue[l] # <<>> /\ Head(queue[l]) = t
  BY DEF TurnEnters, Stage, InFlight, Calls
<1>2. t = Head(queue[lock])
  BY <1>1 DEF Ordered, OneLock
<1>3. SUFFICES ASSUME NEW d \in Calls \ {t}, InFlight(d)
               PROVE  d \in Turns /\ Stage(d) = "queued"
  BY DEF Solo
<1>4. CASE Stage(d) = "queued"
  BY <1>4, StageOf
<1>5. CASE Stage(d) # "queued"
  <2>1. Solo(d)
    BY <1>3, <1>5, ActiveIsSolo
  <2>2. d \in Turns
    BY <1>1, <1>3, <2>1 DEF Solo
  <2>3. d = Head(queue[lock])
    BY <1>3, <1>5, <2>2, LockHeld DEF Ordered
  <2>4. QED
    BY <1>2, <1>3, <2>3
<1>6. QED
  BY <1>4, <1>5

(* and finds nothing on its way to the file but what it waits for.          *)
LEMMA NothingWritten ==
  ASSUME Locked, Ordered, orderly, NEW c \in Calls, Solo(c), ~Pending(c) \/ Stage(c) \notin Saving
  PROVE  writes = <<>>
<1>1. writes \in Seq([by : Calls, data : Snapshots])
  BY DEF Locked, TypeOK
<1>2. SUFFICES ASSUME writes # <<>> PROVE FALSE
  OBVIOUS
<1>3. 1 \in DOMAIN writes /\ writes[1].by \in Calls
  <2>1. Len(writes) \in Nat /\ Len(writes) # 0 /\ DOMAIN writes = 1..Len(writes)
    BY <1>1, <1>2, EmptySeq, LenProperties
  <2>2. 1 \in 1..Len(writes)
    BY <2>1
  <2>3. writes[1] \in [by : Calls, data : Snapshots]
    BY <1>1, <2>2, ElementOfSeq
  <2>4. QED
    BY <2>1, <2>2, <2>3
<1>4. Stage(writes[1].by) \in Saving
  BY <1>3 DEF Ordered, WritesAwaited
<1>5. writes[1].by = c
  <2>1. ASSUME writes[1].by # c PROVE FALSE
    BY <1>3, <1>4, <2>1 DEF Solo, InFlight, Stage, Saving
  <2>2. QED
    BY <2>1
<1>6. QED
  BY <1>3, <1>4, <1>5 DEF Pending

-----------------------------------------------------------------------------
(* What a step of a call that has the session to itself must leave behind:  *)
(* the session,                                                             *)
Leads(c) ==
  /\ snapshot' = snapshot /\ Holds(snapshot, acked')
  /\ cache' # NoSession => acked' \subseteq history'[cache']
  /\ call'[c].at \in Opening => cache' = NoSession
  /\ call'[c].at \in Using => cache' # NoSession /\ call'[c].obj = cache'
  /\ call'[c].at = "registering" => cache' # NoSession
  /\ call'[c].at = "loaded" => Holds(call'[c].read, acked')
  /\ call'[c].at \in {"evicting", "cleaning"} => acked' = {}
(* and what is on its way to the file.                                      *)
Hands(c, data) ==
  /\ data \in Snapshots /\ writes' = <<[by |-> c, data |-> data]>>
  /\ call'[c].at \in Saving /\ Holds(data, acked')
  /\ call'[c].at \in Answering => c \in history'[cache'] /\ Holds(data, {c})
Keeping(c) == writes' = <<>> /\ call'[c].at \notin Answering

LEMMA SoloStep ==
  ASSUME NEW c \in Calls, Solo(c), Others(c), Leads(c),
         Keeping(c) \/ \E data : Hands(c, data)
  PROVE  ActiveSolo' /\ SessionInHand' /\ WritesAwaited' /\ Remembered'
<1>1. ASSUME NEW d \in Calls \ {c}
      PROVE  /\ call'[d] = call[d] /\ (InFlight(d)' <=> InFlight(d))
             /\ InFlight(d) => c \in Turns /\ d \in Turns /\ call[d].at = "queued"
             /\ call'[d].at \in {"idle", "done", "queued"}
  BY <1>1 DEF Others, Solo, InFlight, Stage
<1>2. ActiveSolo'
  BY <1>1 DEF ActiveSolo, Active, Solo, Stage, InFlight
<1>3. SessionInHand'
  <2> SUFFICES ASSUME NEW d \in Calls
               PROVE  /\ call'[d].at \in Opening => cache' = NoSession
                      /\ call'[d].at \in Using => cache' # NoSession /\ call'[d].obj = cache'
                      /\ call'[d].at = "registering" => cache' # NoSession
    BY DEF SessionInHand, Stage
  <2>1. CASE d = c
    BY <2>1 DEF Leads
  <2>2. CASE d # c
    BY <1>1, <2>2 DEF Opening, Using
  <2>3. QED
    BY <2>1, <2>2
<1>4. AckedInCache'
  BY DEF AckedInCache, Leads
<1>5. AckedInRead' /\ NothingAcked'
  <2> SUFFICES ASSUME NEW d \in Calls
               PROVE  /\ call'[d].at = "loaded" => Holds(call'[d].read, acked')
                      /\ call'[d].at \in {"evicting", "cleaning"} => acked' = {}
    BY DEF AckedInRead, NothingAcked, Stage, Holds
  <2>1. CASE d = c
    BY <2>1 DEF Leads
  <2>2. CASE d # c
    BY <1>1, <2>2
  <2>3. QED
    BY <2>1, <2>2
<1>6. CASE Keeping(c)
  <2>1. writes' = <<>> /\ Len(writes') = 0 /\ DOMAIN writes' = {}
    BY <1>6 DEF Keeping
  <2>2. \A d \in Calls : call'[d].at \notin Answering
    BY <1>1, <1>6 DEF Keeping, Answering
  <2>3. WritesAwaited' /\ AckedInFile'
    BY <2>1 DEF WritesAwaited, AckedInFile, Leads, Holds
  <2>4. EffectSaved'
    BY <2>2 DEF EffectSaved, Stage
  <2>5. QED
    BY <1>2, <1>3, <1>4, <1>5, <2>3, <2>4 DEF Remembered
<1>7. ASSUME NEW data, Hands(c, data)
      PROVE  WritesAwaited' /\ Remembered'
  <2> DEFINE w == [by |-> c, data |-> data]
  <2>1. /\ writes' = <<w>> /\ Len(writes') = 1 /\ DOMAIN writes' = {1}
        /\ writes'[1].by = c /\ writes'[1].data = data
    BY <1>7 DEF Hands
  <2>2. WritesAwaited'
    BY <1>7, <2>1 DEF WritesAwaited, Hands, Stage
  <2>3. AckedInFile'
    BY <1>7, <2>1 DEF AckedInFile, Hands, Leads, Holds
  <2>4. EffectSaved'
    <3> SUFFICES ASSUME NEW d \in Calls, call'[d].at \in Answering
                 PROVE  d \in history'[cache'] /\ Holds(data, {d})
      BY <2>1 DEF EffectSaved, Stage, Holds
    <3>1. d = c
      BY <1>1 DEF Answering
    <3>2. QED
      BY <1>7, <3>1 DEF Hands
  <2>5. QED
    BY <1>4, <1>5, <2>2, <2>3, <2>4 DEF Remembered
<1>8. QED
  BY <1>2, <1>3, <1>6, <1>7

(* A turn that joins the queue, or is abandoned in it, disturbs nothing.    *)
LEMMA WaitsStep ==
  ASSUME Locked, Ordered, Remembered, orderly, NEW c \in Calls, Others(c), ~Active(c),
         \/ call'[c].at = "done"
         \/ call'[c].at = "queued" /\ c \in Turns /\ \A d \in Calls \ Turns : ~InFlight(d),
         UNCHANGED <<cache, history, snapshot, writes, acked>>
  PROVE  ActiveSolo' /\ SessionInHand' /\ WritesAwaited' /\ Remembered'
<1>1. \A d \in Calls \ {c} : call'[d] = call[d] /\ (InFlight(d)' <=> InFlight(d))
  BY DEF Others, InFlight
<1>2. ActiveSolo'
  <2> SUFFICES ASSUME NEW d \in Calls, Active(d)', NEW e \in Calls \ {d}, InFlight(e)'
               PROVE  d \in Turns /\ e \in Turns /\ call'[e].at = "queued"
    BY DEF ActiveSolo, Solo, Stage
  <2>1. d # c /\ call'[d] = call[d]
    BY <1>1 DEF Active, InFlight, Stage
  <2>2. Active(d) /\ Solo(d)
    BY <2>1 DEF Active, InFlight, Stage, Ordered, ActiveSolo
  <2>3. CASE e = c
    BY <2>2, <2>3 DEF Active, InFlight
  <2>4. CASE e # c
    BY <1>1, <2>2, <2>4 DEF Solo, Stage
  <2>5. QED
    BY <2>3, <2>4
<1>3. SessionInHand'
  BY <1>1 DEF Ordered, SessionInHand, Stage, Opening, Using
<1>4. WritesAwaited'
  <2> SUFFICES ASSUME NEW i \in DOMAIN writes PROVE call'[writes[i].by].at \in Saving
    BY DEF Ordered, WritesAwaited, Stage
  <2>1. writes[i].by \in Calls
    <3>1. writes \in Seq([by : Calls, data : Snapshots]) /\ i \in 1..Len(writes)
      BY LenProperties DEF Locked, TypeOK
    <3>2. writes[i] \in [by : Calls, data : Snapshots]
      BY <3>1, ElementOfSeq
    <3>3. QED
      BY <3>2
  <2>2. Stage(writes[i].by) \in Saving
    BY DEF Ordered, WritesAwaited
  <2>3. writes[i].by # c
    BY <2>2 DEF Active, InFlight, Stage, Saving
  <2>4. QED
    BY <1>1, <2>1, <2>2, <2>3 DEF Stage
<1>5. AckedInFile' /\ AckedInCache'
  BY DEF Remembered, AckedInFile, AckedInCache, Holds
<1>6. AckedInRead' /\ NothingAcked'
  BY <1>1 DEF Remembered, AckedInRead, NothingAcked, Stage, Holds
<1>7. EffectSaved'
  BY <1>1 DEF Remembered, EffectSaved, Stage, Holds, Answering
<1>8. QED
  BY <1>2, <1>3, <1>4, <1>5, <1>6, <1>7 DEF Remembered

(* The one write reaches the file: it holds what was acknowledged. *)
LEMMA FileWritesInv ==
  ASSUME SessionInv, orderly, FileWrites
  PROVE  Ordered' /\ Remembered'
<1>1. PICK i \in DOMAIN writes : snapshot' = writes[i].data /\ writes' = RemoveAt(writes, i)
  BY DEF FileWrites
<1>2. UNCHANGED <<cache, history, equipped, lock, queue, forgotten, call, acked, orderly>>
  BY DEF FileWrites, store
<1>3. writes' = <<>> /\ DOMAIN writes' = {} /\ Len(writes') = 0
  <2>1. /\ i \in 1..Len(writes) /\ Len(writes) \in Nat /\ Len(writes') = Len(writes) - 1
        /\ writes' \in Seq([by : Calls, data : Snapshots])
    BY <1>1, RemovedTyped DEF SessionInv, Locked
  <2>2. Len(writes') = 0
    BY <2>1 DEF SessionInv, Ordered, WritesAwaited
  <2>3. QED
    BY <2>1, <2>2, EmptySeq
<1>4. OneLock' /\ ActiveSolo' /\ SessionInHand'
  BY <1>2 DEF SessionInv, Ordered, OneLock, ActiveSolo, Active, Solo, SessionInHand, InFlight, Stage
<1>5. WritesAwaited'
  BY <1>3 DEF WritesAwaited
<1>6. AckedInFile'
  BY <1>1, <1>2, <1>3 DEF SessionInv, Remembered, AckedInFile, Holds
<1>7. AckedInCache' /\ AckedInRead' /\ NothingAcked'
  BY <1>2 DEF SessionInv, Remembered, AckedInCache, AckedInRead, NothingAcked, Stage, Holds
<1>8. EffectSaved'
  BY <1>1, <1>2, <1>3 DEF SessionInv, Remembered, EffectSaved, Stage, Holds
<1>9. QED
  BY <1>4, <1>5, <1>6, <1>7, <1>8 DEF Ordered, Remembered

(* A call's write when nothing else is on its way. *)
LEMMA WriteOne ==
  ASSUME writes = <<>>, NEW c, NEW data, Write(c, data)
  PROVE  writes' = <<[by |-> c, data |-> data]>>
BY DEF Write

-----------------------------------------------------------------------------
(* Opening and using the session, action by action, in an orderly world.    *)

(* Nothing acknowledged is forgotten by a step that acknowledges nothing.   *)
LEMMA AckedStays ==
  ASSUME Remembered, orderly, acked' \subseteq acked
  PROVE  /\ Holds(snapshot, acked')
         /\ cache # NoSession => acked' \subseteq history[cache]
BY DEF Remembered, AckedInFile, AckedInCache, Holds

LEMMA ProceedLeads ==
  ASSUME Locked, Remembered, orderly, writes = <<>>, NEW c \in Turns \cup Openers \cup Updaters,
         NEW o \in Calls, NEW h \in [Calls -> SUBSET Calls], Proceed(c, o, h), cache' = o,
         UNCHANGED <<snapshot, acked>>, acked \subseteq h[o]
  PROVE  Others(c) /\ Leads(c) /\ (Keeping(c) \/ \E data : Hands(c, data))
<1>1. /\ TypeOK /\ c \in Calls /\ cache' # NoSession /\ Holds(snapshot, acked')
      /\ h[o] \in SUBSET Calls
  BY AckedStays, SessionAssumption DEF Locked, Calls
<1>2. /\ Others(c)
      /\ c \in Turns    => call'[c].at = "touching" /\ call'[c].obj = o
      /\ c \in Openers  => call'[c].at = "done"
      /\ c \in Updaters => call'[c].at = "updating" /\ call'[c].obj = o
  BY <1>1, ProceedEffect
<1>3. CASE c \in Turns
  <2>1. Write(c, h[o]) /\ history' = h /\ h[o] \in Snapshots /\ h[o] # NoSnapshot
    BY <1>1, <1>3, SessionAssumption DEF Proceed, Snapshots
  <2>2. Hands(c, h[o])
    BY <1>2, <1>3, <2>1, WriteOne DEF Hands, Saving, Answering, Holds
  <2>3. Leads(c)
    BY <1>1, <1>2, <1>3, <2>1 DEF Leads, Opening, Using
  <2>4. QED
    BY <1>2, <2>2, <2>3
<1>4. CASE c \in Openers
  <2>1. history' = h /\ writes' = writes
    BY <1>4, SessionAssumption DEF Proceed
  <2>2. Keeping(c)
    BY <1>2, <1>4, <2>1 DEF Keeping, Answering
  <2>3. Leads(c)
    BY <1>1, <1>2, <1>4, <2>1 DEF Leads, Opening, Using
  <2>4. QED
    BY <1>2, <2>2, <2>3
<1>5. CASE c \in Updaters
  <2> DEFINE data == h[o] \cup {c}
  <2>1. /\ Write(c, data) /\ history'[o] = data
        /\ data \in Snapshots /\ data # NoSnapshot
    BY <1>1, <1>5, SessionAssumption DEF Proceed, Snapshots
  <2>2. acked \subseteq data /\ c \in data
    OBVIOUS
  <2> HIDE DEF data
  <2>3. Hands(c, data)
    BY <1>2, <1>5, <2>1, <2>2, WriteOne DEF Hands, Saving, Holds
  <2>4. Leads(c)
    BY <1>1, <1>2, <1>5, <2>1, <2>2 DEF Leads, Opening, Using
  <2>5. QED
    BY <1>2, <2>3, <2>4
<1>6. QED
  BY <1>3, <1>4, <1>5

LEMMA EvictLeads ==
  ASSUME Locked, writes = <<>>, NEW c \in Turns \cup Openers \cup Updaters,
         Evict(c), snapshot' = snapshot
  PROVE  Others(c) /\ Leads(c) /\ (Keeping(c) \/ \E data : Hands(c, data))
<1>1. TypeOK /\ c \in Calls /\ NoSnapshot \in Snapshots /\ "evicting" \in Stages
  BY DEF Locked, Calls, Snapshots, Stages
<1>2. cache' = NoSession /\ acked' = {} /\ Write(c, NoSnapshot) /\ MoveTo(c, "evicting")
  BY DEF Evict
<1>3. Others(c) /\ call'[c].at = "evicting"
  BY <1>1, <1>2, MoveToEffect
<1>4. Leads(c)
  BY <1>2, <1>3 DEF Leads, Holds, Using
<1>5. Hands(c, NoSnapshot)
  BY <1>1, <1>2, <1>3, WriteOne DEF Hands, Holds, Saving, Answering
<1>6. QED
  BY <1>3, <1>4, <1>5

LEMMA AgetLeads ==
  ASSUME Locked, Remembered, orderly, writes = <<>>, NEW c \in Turns \cup Openers \cup Updaters,
         Aget(c), snapshot' = snapshot
  PROVE  Others(c) /\ Leads(c) /\ (Keeping(c) \/ \E data : Hands(c, data))
<1>1. TypeOK /\ c \in Calls /\ "loading" \in Stages
  BY DEF Locked, Calls, Stages
<1>2. CASE cache = NoSession /\ MoveTo(c, "loading") /\ UNCHANGED <<store, writes, acked>>
  <2>1. Others(c) /\ call'[c].at = "loading" /\ UNCHANGED <<cache, history, equipped>>
    BY <1>1, <1>2, MoveToEffect DEF store
  <2>2. Holds(snapshot, acked')
    BY <1>2, AckedStays
  <2>3. Leads(c) /\ Keeping(c)
    BY <1>2, <2>1, <2>2 DEF Leads, Keeping, Using, Answering
  <2>4. QED
    BY <2>1, <2>3
<1>3. CASE cache # NoSession /\ Proceed(c, cache, history) /\ UNCHANGED <<cache, acked>>
  <2>1. cache \in Calls /\ history \in [Calls -> SUBSET Calls] /\ acked \subseteq history[cache]
    BY <1>1, <1>3, AckedStays DEF TypeOK
  <2>2. QED
    BY <1>3, <2>1, ProceedLeads
<1>4. CASE cache # NoSession /\ Evict(c)
  BY <1>4, EvictLeads
<1>5. QED
  BY <1>2, <1>3, <1>4 DEF Aget

LEMMA NotFoundLeads ==
  ASSUME Locked, writes = <<>>, NEW c \in Turns \cup Openers \cup Updaters,
         NotFound(c), cache = NoSession, acked = {}, UNCHANGED <<snapshot, acked>>
  PROVE  Others(c) /\ Leads(c) /\ (Keeping(c) \/ \E data : Hands(c, data))
<1>1. TypeOK /\ c \in Calls /\ c # NoSession /\ {} \in Snapshots
  BY SessionAssumption DEF Locked, Calls, Snapshots
<1>2. /\ Others(c)
      /\ c \in Openers  => call'[c].at = "registering"
      /\ c \in Turns    => call'[c].at = "yielding"
      /\ c \in Updaters => call'[c].at = "done"
  BY <1>1, NotFoundEffect
<1>3. CASE c \in Openers
  <2>1. cache' = c /\ Write(c, {})
    BY <1>3 DEF NotFound
  <2>2. Leads(c)
    BY <1>1, <1>2, <1>3, <2>1 DEF Leads, Holds, Opening, Using
  <2>3. Hands(c, {})
    BY <1>1, <1>2, <1>3, <2>1, WriteOne DEF Hands, Holds, Saving, Answering
  <2>4. QED
    BY <1>2, <2>2, <2>3
<1>4. CASE c \notin Openers
  <2>1. UNCHANGED <<cache, writes>>
    BY <1>4 DEF NotFound, store
  <2>2. Leads(c) /\ Keeping(c)
    BY <1>2, <1>4, <2>1 DEF Leads, Keeping, Holds, Opening, Using, Answering
  <2>3. QED
    BY <1>2, <2>2
<1>5. QED
  BY <1>3, <1>4

(* A step of a call that has the session to itself and keeps the lock.      *)
LEMMA SoloInv ==
  ASSUME SessionInv, NEW c \in Calls, Solo(c), Others(c), Leads(c),
         Keeping(c) \/ \E data : Hands(c, data),
         queue' = queue \/ queue' = Released(c), lock' = lock, orderly' = orderly
  PROVE  Ordered' /\ Remembered'
<1>1. OneLock'
  BY OneLockKept DEF SessionInv, Ordered
<1>2. ActiveSolo' /\ SessionInHand' /\ WritesAwaited' /\ Remembered'
  BY SoloStep
<1>3. QED
  BY <1>1, <1>2 DEF Ordered

LEMMA BeginInv ==
  ASSUME SessionInv, orderly, NEW c \in Calls, Begin(c)
  PROVE  Ordered' /\ Remembered'
<1>1. /\ c \in Openers \cup Updaters /\ Apart(c) /\ Aget(c) /\ Stage(c) = "idle"
      /\ UNCHANGED <<snapshot, lock, queue, orderly>>
      /\ Locked /\ Ordered /\ Remembered
  BY DEF Begin, SessionInv, Stage
<1>2. Solo(c)
  BY <1>1, AloneSolo, SessionAssumption DEF Apart
<1>3. writes = <<>>
  BY <1>1, <1>2, NothingWritten DEF Saving
<1>4. QED
  BY <1>1, <1>2, <1>3, AgetLeads, SoloInv

LEMMA TurnEntersInv ==
  ASSUME SessionInv, orderly, NEW t \in Turns, TurnEnters(t)
  PROVE  Ordered' /\ Remembered'
<1>1. /\ t \in Calls /\ Aget(t) /\ Stage(t) = "queued"
      /\ UNCHANGED <<snapshot, lock, queue, orderly>>
      /\ Locked /\ Ordered /\ Remembered
  BY DEF TurnEnters, SessionInv, Stage, Calls
<1>2. Solo(t)
  BY <1>1, TurnEntersSolo
<1>3. writes = <<>>
  BY <1>1, <1>2, NothingWritten DEF Saving
<1>4. QED
  BY <1>1, <1>2, <1>3, AgetLeads, SoloInv

LEMMA TurnBeginsInv ==
  ASSUME SessionInv, orderly, NEW t \in Turns, TurnBegins(t)
  PROVE  Ordered' /\ Remembered'
<1> DEFINE l == IF lock = NoLock THEN t ELSE lock
<1>1. /\ Locked /\ TypeOK /\ Ordered /\ Remembered /\ OneLock
      /\ t \in Calls /\ l \in Turns /\ Stage(t) = "idle" /\ Apart(t) /\ lock' = l
      /\ UNCHANGED <<snapshot, orderly>>
  BY DEF SessionInv, Ordered, Locked, TypeOK, TurnBegins, Calls, Stage
<1>2. /\ \/ queue[l] = <<>> /\ Aget(t) /\ queue' = [queue EXCEPT ![l] = <<t>>]
         \/ /\ queue[l] # <<>> /\ queue' = [queue EXCEPT ![l] = Append(@, t)]
            /\ MoveTo(t, "queued") /\ UNCHANGED <<store, writes, acked>>
  BY DEF TurnBegins
<1>3. OneLock'
  <2>1. \A m \in Turns \ {l} : queue'[m] = queue[m]
    BY <1>1, <1>2 DEF TypeOK
  <2>2. \A m \in Turns : queue[m] # <<>> => m = l
    BY <1>1, SessionAssumption DEF OneLock
  <2>3. QED
    BY <1>1, <2>1, <2>2 DEF OneLock
<1>4. CASE queue[l] = <<>> /\ Aget(t)
  <2>1. Solo(t)
    BY <1>1, <1>4, TurnBeginsSolo
  <2>2. writes = <<>>
    BY <1>1, <2>1, NothingWritten DEF Saving
  <2>3. Others(t) /\ Leads(t) /\ (Keeping(t) \/ \E data : Hands(t, data))
    BY <1>1, <1>4, <2>2, AgetLeads
  <2>4. QED
    BY <1>1, <1>3, <2>1, <2>3, SoloStep DEF Ordered
<1>5. CASE MoveTo(t, "queued") /\ UNCHANGED <<store, writes, acked>>
  <2>1. "queued" \in Stages
    BY DEF Stages
  <2>2. Others(t) /\ call'[t].at = "queued" /\ UNCHANGED <<cache, history>>
    BY <1>1, <1>5, <2>1, MoveToEffect DEF store
  <2>3. \A d \in Calls \ Turns : ~InFlight(d)
    BY <1>1 DEF Apart
  <2>4. ~Active(t)
    BY <1>1 DEF Active, InFlight, Stage
  <2>5. ActiveSolo' /\ SessionInHand' /\ WritesAwaited' /\ Remembered'
    BY <1>1, <1>5, <2>2, <2>3, <2>4, WaitsStep
  <2>6. QED
    BY <1>3, <2>5 DEF Ordered
<1>6. QED
  BY <1>2, <1>4, <1>5

LEMMA ReadSnapshotInv ==
  ASSUME SessionInv, orderly, NEW c \in Calls, ReadSnapshot(c)
  PROVE  Ordered' /\ Remembered'
<1>1. /\ Locked /\ TypeOK /\ Ordered /\ Remembered /\ Stage(c) = "loading" /\ InFlight(c)
      /\ UNCHANGED <<cache, history, equipped, snapshot, lock, queue, writes, acked, orderly>>
  BY DEF SessionInv, Locked, ReadSnapshot, store, Stage, InFlight
<1>2. Others(c) /\ call'[c].at = "loaded" /\ call'[c].read = snapshot
  BY <1>1, ReadSnapshotShape DEF Shape
<1>3. Solo(c) /\ writes = <<>>
  BY <1>1, ActiveIsSolo, NothingWritten DEF Saving
<1>4. cache = NoSession
  BY <1>1 DEF Ordered, SessionInHand, Opening
<1>5. Leads(c) /\ Keeping(c)
  BY <1>1, <1>2, <1>3, <1>4, AckedStays DEF Leads, Keeping, Using, Answering
<1>6. QED
  BY <1>1, <1>2, <1>3, <1>5, SoloInv

LEMMA LoadedInv ==
  ASSUME SessionInv, orderly, NEW c \in Calls, Loaded(c)
  PROVE  Ordered' /\ Remembered'
<1>1. /\ Locked /\ TypeOK /\ Ordered /\ Remembered /\ Stage(c) = "loaded" /\ InFlight(c)
      /\ UNCHANGED <<snapshot, lock, queue, orderly>>
  BY DEF SessionInv, Locked, Loaded, Stage, InFlight
<1>2. c \in Turns \cup Openers \cup Updaters
  BY <1>1, StageOf DEF Opening
<1>3. Solo(c) /\ writes = <<>>
  BY <1>1, ActiveIsSolo, NothingWritten DEF Saving
<1>4. Holds(call[c].read, acked) /\ cache = NoSession
  BY <1>1 DEF Remembered, AckedInRead, Ordered, SessionInHand, Opening
<1>5. SUFFICES Others(c) /\ Leads(c) /\ (Keeping(c) \/ \E data : Hands(c, data))
  BY <1>1, <1>3, SoloInv
<1>6. CASE call[c].read = NoSnapshot /\ NotFound(c) /\ UNCHANGED acked
  <2>1. acked = {}
    BY <1>4, <1>6 DEF Holds
  <2>2. QED
    BY <1>1, <1>2, <1>3, <1>4, <1>6, <2>1, NotFoundLeads
<1>7. CASE /\ call[c].read # NoSnapshot /\ cache' = c /\ UNCHANGED acked
           /\ Proceed(c, c, [history EXCEPT ![c] = call[c].read])
  <2> DEFINE h == [history EXCEPT ![c] = call[c].read]
  <2>1. /\ h \in [Calls -> SUBSET Calls] /\ Proceed(c, c, h) /\ acked \subseteq h[c]
    BY <1>1, <1>4, <1>7 DEF TypeOK, Snapshots, Holds
  <2> HIDE DEF h
  <2>2. QED
    BY <1>1, <1>2, <1>3, <1>7, <2>1, ProceedLeads
<1>8. CASE Evict(c)
  BY <1>1, <1>2, <1>3, <1>8, EvictLeads
<1>9. QED
  BY <1>6, <1>7, <1>8 DEF Loaded

LEMMA EvictedInv ==
  ASSUME SessionInv, orderly, NEW c \in Calls, Evicted(c)
  PROVE  Ordered' /\ Remembered'
<1>1. /\ Locked /\ Ordered /\ Remembered /\ Stage(c) = "evicting" /\ InFlight(c)
      /\ ~Pending(c) /\ NotFound(c)
      /\ UNCHANGED <<snapshot, lock, queue, acked, orderly>>
  BY DEF SessionInv, Evicted, Stage, InFlight
<1>2. c \in Turns \cup Openers \cup Updaters
  BY <1>1, StageOf DEF Opening
<1>3. Solo(c) /\ writes = <<>>
  BY <1>1, ActiveIsSolo, NothingWritten
<1>4. acked = {} /\ cache = NoSession
  BY <1>1 DEF Remembered, NothingAcked, Ordered, SessionInHand, Opening
<1>5. QED
  BY <1>1, <1>2, <1>3, <1>4, NotFoundLeads, SoloInv

(* A call goes on, or ends, and touches neither the session nor the file.   *)
LEMMA QuietInv ==
  ASSUME SessionInv, orderly, NEW c \in Calls, InFlight(c), Stage(c) # "queued",
         ~Pending(c) \/ Stage(c) \notin Saving, Others(c),
         \/ call'[c].at \in {"done", "yielding", "stopping"}
         \/ /\ call'[c].at \in {"turning", "running"} /\ Stage(c) \in Using
            /\ call'[c].obj = call[c].obj,
         UNCHANGED <<cache, history, snapshot, lock, writes, acked, orderly>>,
         queue' = queue \/ queue' = Released(c)
  PROVE  Ordered' /\ Remembered'
<1>1. Locked /\ Ordered /\ Remembered
  BY DEF SessionInv
<1>2. Solo(c) /\ writes = <<>>
  BY <1>1, ActiveIsSolo, NothingWritten
<1>3. /\ Holds(snapshot, acked') /\ (cache' # NoSession => acked' \subseteq history'[cache'])
      /\ Stage(c) \in Using => cache # NoSession /\ call[c].obj = cache
  BY <1>1, AckedStays DEF Ordered, SessionInHand
<1>4. Leads(c) /\ Keeping(c)
  BY <1>2, <1>3 DEF Leads, Keeping, Opening, Using, Answering
<1>5. QED
  BY <1>2, <1>4, SoloInv

LEMMA RegisteredInv ==
  ASSUME SessionInv, orderly, NEW c \in Calls, Registered(c)
  PROVE  Ordered' /\ Remembered'
<1>1. /\ InFlight(c) /\ Stage(c) # "queued" /\ ~Pending(c) /\ Finish(c)
      /\ UNCHANGED <<store, snapshot, lock, forgotten, writes, acked, orderly>>
  BY DEF Registered, InFlight, Stage
<1>2. Others(c) /\ call'[c].at = "done"
  BY <1>1, FinishShape DEF SessionInv, Shape
<1>3. QED
  BY <1>1, <1>2, QuietInv DEF Finish, store

LEMMA StreamEndsInv ==
  ASSUME SessionInv, orderly, NEW t \in Turns, StreamEnds(t)
  PROVE  Ordered' /\ Remembered'
<1>1. /\ t \in Calls /\ InFlight(t) /\ Stage(t) \notin Saving \cup {"queued"} /\ Finish(t)
      /\ UNCHANGED <<store, snapshot, lock, forgotten, writes, acked, orderly>>
  BY DEF StreamEnds, InFlight, Stage, Saving, Calls
<1>2. Others(t) /\ call'[t].at = "done"
  BY <1>1, FinishShape DEF SessionInv, Shape
<1>3. QED
  BY <1>1, <1>2, QuietInv DEF Finish, store

(* A turn is abandoned in the queue, or a call where it awaits no save.     *)
LEMMA AbandonInv ==
  ASSUME SessionInv, orderly, NEW c \in Calls, Abandon(c)
  PROVE  Ordered' /\ Remembered'
<1>1. /\ Locked /\ Ordered /\ Remembered /\ OneLock
      /\ InFlight(c) /\ ~Pending(c) /\ Finish(c)
      /\ UNCHANGED <<store, snapshot, lock, forgotten, writes, acked, orderly>>
  BY DEF Abandon, SessionInv, Ordered
<1>2. Others(c) /\ call'[c].at = "done"
  BY <1>1, FinishShape DEF Shape
<1>3. CASE Stage(c) = "queued"
  <2>1. ActiveSolo' /\ SessionInHand' /\ WritesAwaited' /\ Remembered'
    BY <1>1, <1>2, <1>3, WaitsStep DEF Active, store
  <2>2. OneLock'
    BY <1>1, OneLockKept DEF Finish
  <2>3. QED
    BY <2>1, <2>2 DEF Ordered
<1>4. CASE Stage(c) # "queued"
  BY <1>1, <1>2, <1>4, QuietInv DEF Finish, store
<1>5. QED
  BY <1>3, <1>4

(* A save that raises never reaches the file, and nobody was told. *)
LEMMA RaisesInv ==
  ASSUME SessionInv, orderly, NEW c \in Calls, Raises(c)
  PROVE  Ordered' /\ Remembered'
<1>1. /\ Locked /\ TypeOK /\ Ordered /\ Remembered /\ InFlight(c)
      /\ UNCHANGED <<store, snapshot, lock, forgotten, acked, orderly>>
  BY DEF SessionInv, Locked, Raises
<1>2. /\ Others(c) /\ call'[c].at \in {"yielding", "done"}
      /\ queue' = queue \/ queue' = Released(c)
  BY <1>1, LeftEffect, ToldEffect DEF Raises, Finish
<1>3. CASE Stage(c) \in {"loading", "cleaning", "stopping"} /\ UNCHANGED writes
  <2>1. Finish(c)
    BY <1>3 DEF Raises, Stage
  <2>2. Others(c) /\ call'[c].at = "done"
    BY <1>1, <2>1, FinishShape DEF Shape
  <2>3. QED
    BY <1>1, <1>3, <2>1, <2>2, QuietInv DEF Finish, store, Saving
<1>4. ASSUME NEW i \in DOMAIN writes, writes[i].by = c, writes' = RemoveAt(writes, i)
      PROVE  Ordered' /\ Remembered'
  <2>1. Stage(c) \in Saving
    BY <1>1, <1>4 DEF Ordered, WritesAwaited
  <2>2. Solo(c)
    BY <1>1, <2>1, ActiveIsSolo DEF Saving
  <2>3. writes' = <<>>
    <3>1. /\ i \in 1..Len(writes) /\ Len(writes) \in Nat /\ Len(writes') = Len(writes) - 1
          /\ writes' \in Seq([by : Calls, data : Snapshots])
      BY <1>1, <1>4, RemovedTyped
    <3>2. Len(writes') = 0
      BY <1>1, <3>1 DEF Ordered, WritesAwaited
    <3>3. QED
      BY <3>1, <3>2, EmptySeq
  <2>4. Holds(snapshot, acked') /\ (cache' # NoSession => acked' \subseteq history'[cache'])
    BY <1>1, AckedStays DEF store
  <2>5. Leads(c) /\ Keeping(c)
    BY <1>1, <1>2, <2>3, <2>4 DEF Leads, Keeping, Opening, Using, Answering
  <2>6. QED
    BY <1>1, <1>2, <2>2, <2>5, SoloInv
<1>5. QED
  BY <1>3, <1>4 DEF Raises, Stage

(* What a call has in hand is the cached session. *)
LEMMA InHand ==
  ASSUME SessionInv, orderly, NEW c \in Calls, Stage(c) \in Using
  PROVE  /\ cache # NoSession /\ call[c].obj = cache /\ cache \in Calls
         /\ history[cache] \in SUBSET Calls /\ acked \subseteq history[cache]
<1>1. cache # NoSession /\ call[c].obj = cache
  BY DEF SessionInv, Ordered, SessionInHand
<1>2. cache \in Calls /\ history[cache] \in SUBSET Calls
  BY <1>1 DEF SessionInv, Locked, TypeOK
<1>3. acked \subseteq history[cache]
  BY <1>1 DEF SessionInv, Remembered, AckedInCache
<1>4. QED
  BY <1>1, <1>2, <1>3

LEMMA TouchedInv ==
  ASSUME SessionInv, orderly, NEW t \in Turns, Touched(t)
  PROVE  Ordered' /\ Remembered'
<1>1. /\ Locked /\ TypeOK /\ Ordered /\ Remembered /\ t \in Calls /\ Stage(t) = "touching"
      /\ InFlight(t) /\ Stage(t) \in Using /\ ~Pending(t)
      /\ UNCHANGED <<cache, history, equipped, snapshot, lock, queue, acked, orderly>>
  BY DEF SessionInv, Locked, Touched, Calls, Stage, InFlight, store, Using
<1>2. {"turning", "asking"} \subseteq Stages
  BY DEF Stages
<1>3. CASE call' = Told(t) /\ UNCHANGED writes
  <2>1. Others(t) /\ call'[t].at = "yielding"
    BY <1>1, <1>3, ToldEffect
  <2>2. QED
    BY <1>1, <1>3, <2>1, QuietInv
<1>4. CASE MoveTo(t, "turning") /\ UNCHANGED writes
  <2>1. Others(t) /\ call'[t].at = "turning" /\ call'[t].obj = call[t].obj
    BY <1>1, <1>2, <1>4, MoveToEffect
  <2>2. QED
    BY <1>1, <1>4, <2>1, QuietInv
<1>5. CASE MoveTo(t, "asking") /\ Write(t, history[call[t].obj])
  <2>1. Others(t) /\ call'[t].at = "asking" /\ call'[t].obj = call[t].obj
    BY <1>1, <1>2, <1>5, MoveToEffect
  <2>2. Solo(t) /\ writes = <<>>
    BY <1>1, ActiveIsSolo, NothingWritten
  <2>3. /\ cache # NoSession /\ call[t].obj = cache
        /\ history[cache] \in Snapshots /\ history[cache] # NoSnapshot
        /\ acked \subseteq history[cache]
    BY <1>1, InHand, SessionAssumption DEF Snapshots
  <2>4. Hands(t, history[cache])
    BY <1>1, <1>5, <2>1, <2>2, <2>3, WriteOne DEF Hands, Holds, Saving, Answering
  <2>5. Leads(t)
    BY <1>1, <2>1, <2>3, AckedStays DEF Leads, Opening, Using
  <2>6. QED
    BY <1>1, <2>1, <2>2, <2>4, <2>5, SoloInv
<1>6. QED
  BY <1>3, <1>4, <1>5 DEF Touched

LEMMA AskedInv ==
  ASSUME SessionInv, orderly, NEW t \in Turns, Asked(t)
  PROVE  Ordered' /\ Remembered'
<1>1. /\ TypeOK /\ t \in Calls /\ Stage(t) = "asking" /\ InFlight(t) /\ ~Pending(t)
      /\ MoveTo(t, "running") /\ "running" \in Stages
      /\ UNCHANGED <<cache, history, equipped, snapshot, lock, queue, writes, acked, orderly>>
  BY DEF SessionInv, Locked, Asked, Calls, Stage, InFlight, store, Stages
<1>2. Others(t) /\ call'[t].at = "running" /\ call'[t].obj = call[t].obj
  BY <1>1, MoveToEffect
<1>3. QED
  BY <1>1, <1>2, QuietInv DEF Using

LEMMA AnsweredInv ==
  ASSUME SessionInv, orderly, NEW t \in Turns, Answered(t)
  PROVE  Ordered' /\ Remembered'
<1> DEFINE data == history[cache] \cup {t}
<1>1. /\ Locked /\ TypeOK /\ Ordered /\ Remembered /\ t \in Calls /\ Stage(t) = "running"
      /\ InFlight(t) /\ Stage(t) \in Using /\ MoveTo(t, "answering") /\ "answering" \in Stages
      /\ UNCHANGED <<cache, equipped, snapshot, lock, queue, acked, orderly>>
  BY DEF SessionInv, Locked, Answered, Calls, Stage, InFlight, Using, Stages
<1>2. Solo(t) /\ writes = <<>>
  BY <1>1, ActiveIsSolo, NothingWritten DEF Saving
<1>3. /\ cache # NoSession /\ cache \in Calls /\ history[cache] \in SUBSET Calls
      /\ call[t].obj = cache /\ acked \subseteq history[cache]
  BY <1>1, InHand
<1>4. /\ data \in Snapshots /\ data # NoSnapshot /\ Write(t, data)
      /\ history'[cache] = data /\ acked \subseteq data /\ t \in data
  BY <1>1, <1>3, SessionAssumption DEF Answered, Snapshots, TypeOK
<1>5. Others(t) /\ call'[t].at = "answering" /\ call'[t].obj = call[t].obj
  BY <1>1, MoveToEffect
<1> HIDE DEF data
<1>6. Hands(t, data)
  BY <1>1, <1>2, <1>4, <1>5, WriteOne DEF Hands, Holds, Saving
<1>7. Leads(t)
  BY <1>1, <1>3, <1>4, <1>5, AckedStays DEF Leads, Opening, Using
<1>8. QED
  BY <1>1, <1>2, <1>5, <1>6, <1>7, SoloInv

(* What is acknowledged is in the file and in the session from now on. *)
LEMMA AcknowledgeInv ==
  ASSUME SessionInv, orderly, NEW c \in Calls, Acknowledge(c)
  PROVE  Ordered' /\ Remembered'
<1>1. /\ Locked /\ TypeOK /\ Ordered /\ Remembered /\ Stage(c) \in Answering /\ InFlight(c)
      /\ Stage(c) \in Using /\ Stage(c) # "queued" /\ ~Pending(c)
      /\ call' = Told(c) /\ acked' = acked \cup {c}
      /\ UNCHANGED <<cache, history, equipped, snapshot, lock, queue, writes, orderly>>
  BY DEF SessionInv, Locked, Acknowledge, Stage, InFlight, store, Using, Answering
<1>2. Others(c) /\ call'[c].at \in {"yielding", "done"}
  BY <1>1, ToldEffect
<1>3. Solo(c) /\ writes = <<>>
  BY <1>1, ActiveIsSolo, NothingWritten
<1>4. c \in history[cache] /\ Holds(snapshot, {c}) /\ Holds(snapshot, acked)
  BY <1>1, <1>3 DEF Remembered, EffectSaved, AckedInFile
<1>5. acked \subseteq history[cache]
  BY <1>1, InHand
<1>6. Leads(c) /\ Keeping(c)
  BY <1>1, <1>2, <1>3, <1>4, <1>5 DEF Leads, Keeping, Holds, Opening, Using, Answering
<1>7. QED
  BY <1>1, <1>2, <1>3, <1>6, SoloInv

-----------------------------------------------------------------------------
(* Closing, and the crash.                                                  *)

(* A close has nobody beside it: no queue holds a turn. *)
LEMMA CloserInv ==
  ASSUME SessionInv, NEW c \in Closers, Solo(c), Others(c), Leads(c),
         Keeping(c) \/ \E data : Hands(c, data), queue' = queue
  PROVE  Ordered' /\ Remembered'
<1>1. c \in Calls /\ c \notin Turns
  BY SessionAssumption DEF Calls
<1>2. \A t \in Turns : ~InFlight(t)
  BY <1>1 DEF Solo, Calls
<1>3. OneLock'
  BY <1>2, EmptyQueues DEF SessionInv, OneLock
<1>4. ActiveSolo' /\ SessionInHand' /\ WritesAwaited' /\ Remembered'
  BY <1>1, SoloStep
<1>5. QED
  BY <1>3, <1>4 DEF Ordered

LEMMA CloserBegins ==
  ASSUME SessionInv, orderly, NEW c \in Closers, call[c].at = "idle", Apart(c)
  PROVE  Solo(c) /\ writes = <<>>
<1>1. c \in Calls /\ c \notin Turns /\ Stage(c) = "idle"
  BY SessionAssumption DEF Calls, Stage
<1>2. Solo(c)
  BY <1>1, AloneSolo DEF Apart
<1>3. QED
  BY <1>1, <1>2, NothingWritten DEF SessionInv, Saving

LEMMA CloseInv ==
  ASSUME SessionInv, orderly, NEW c \in Closers, Close(c)
  PROVE  Ordered' /\ Remembered'
<1>1. /\ TypeOK /\ c \in Calls /\ Solo(c) /\ writes = <<>>
      /\ cache' = NoSession /\ acked' = {}
      /\ UNCHANGED <<history, equipped, snapshot, lock, queue, orderly>>
  BY CloserBegins DEF SessionInv, Locked, Close, Calls
<1>2. {"cleaning", "deleting"} \subseteq Stages /\ NoSnapshot \in Snapshots
  BY DEF Stages, Snapshots
<1>3. CASE MoveTo(c, "cleaning") /\ UNCHANGED writes
  <2>1. Others(c) /\ call'[c].at = "cleaning"
    BY <1>1, <1>2, <1>3, MoveToEffect
  <2>2. Leads(c) /\ Keeping(c)
    BY <1>1, <1>3, <2>1 DEF Leads, Keeping, Holds, Using, Answering
  <2>3. QED
    BY <1>1, <2>1, <2>2, CloserInv
<1>4. CASE MoveTo(c, "deleting") /\ Write(c, NoSnapshot)
  <2>1. Others(c) /\ call'[c].at = "deleting"
    BY <1>1, <1>2, <1>4, MoveToEffect
  <2>2. Leads(c)
    BY <1>1, <2>1 DEF Leads, Holds, Using
  <2>3. Hands(c, NoSnapshot)
    BY <1>1, <1>2, <1>4, <2>1, WriteOne DEF Hands, Holds, Saving, Answering
  <2>4. QED
    BY <1>1, <2>1, <2>2, <2>3, CloserInv
<1>5. QED
  BY <1>3, <1>4 DEF Close

LEMMA CleanedInv ==
  ASSUME SessionInv, orderly, NEW c \in Closers, Cleaned(c)
  PROVE  Ordered' /\ Remembered'
<1>1. /\ Locked /\ TypeOK /\ Ordered /\ Remembered /\ c \in Calls
      /\ Stage(c) = "cleaning" /\ InFlight(c)
      /\ MoveTo(c, "deleting") /\ Write(c, NoSnapshot)
      /\ UNCHANGED <<cache, history, snapshot, queue, acked, orderly>>
  BY DEF SessionInv, Locked, Cleaned, Calls, Stage, InFlight, store
<1>2. "deleting" \in Stages /\ NoSnapshot \in Snapshots
  BY DEF Stages, Snapshots
<1>3. Others(c) /\ call'[c].at = "deleting"
  BY <1>1, <1>2, MoveToEffect
<1>4. Solo(c) /\ writes = <<>>
  BY <1>1, ActiveIsSolo, NothingWritten DEF Saving
<1>5. acked = {} /\ Holds(NoSnapshot, acked')
  BY <1>1 DEF Remembered, NothingAcked, Holds
<1>6. Leads(c)
  BY <1>1, <1>3, <1>5 DEF Leads, Holds, Opening, Using
<1>7. Hands(c, NoSnapshot)
  BY <1>1, <1>2, <1>3, <1>4, <1>5, WriteOne DEF Hands, Saving, Answering
<1>8. QED
  BY <1>1, <1>3, <1>4, <1>6, <1>7, CloserInv

LEMMA CloseAllInv ==
  ASSUME SessionInv, orderly, NEW c \in Closers, CloseAll(c)
  PROVE  Ordered' /\ Remembered'
<1>1. /\ TypeOK /\ Remembered /\ c \in Calls /\ Solo(c) /\ writes = <<>> /\ cache' = NoSession
      /\ UNCHANGED <<history, equipped, snapshot, queue, writes, acked, orderly>>
  BY CloserBegins DEF SessionInv, Locked, CloseAll, Calls
<1>2. MoveTo(c, "stopping") \/ call' = Left(c)
  BY DEF CloseAll
<1>3. "stopping" \in Stages
  BY DEF Stages
<1>4. Others(c) /\ call'[c].at \in {"stopping", "done"}
  BY <1>1, <1>2, <1>3, MoveToEffect, LeftEffect
<1>5. Leads(c) /\ Keeping(c)
  BY <1>1, <1>4, AckedStays DEF Leads, Keeping, Opening, Using, Answering
<1>6. QED
  BY <1>1, <1>4, <1>5, CloserInv

LEMMA ClosedInv ==
  ASSUME SessionInv, orderly, NEW c \in Closers, Closed(c)
  PROVE  Ordered' /\ Remembered'
<1>1. /\ Locked /\ TypeOK /\ Ordered /\ Remembered /\ c \in Calls /\ InFlight(c)
      /\ Stage(c) # "queued" /\ ~Pending(c) /\ call' = Left(c)
      /\ UNCHANGED <<cache, history, equipped, snapshot, queue, writes, acked, orderly>>
  BY DEF SessionInv, Locked, Closed, Calls, InFlight, store, Stage
<1>2. Others(c) /\ call'[c].at = "done"
  BY <1>1, LeftEffect
<1>3. Solo(c) /\ writes = <<>>
  BY <1>1, ActiveIsSolo, NothingWritten
<1>4. Leads(c) /\ Keeping(c)
  BY <1>1, <1>2, <1>3, AckedStays DEF Leads, Keeping, Opening, Using, Answering
<1>5. QED
  BY <1>1, <1>2, <1>3, <1>4, CloserInv

LEMMA CrashInv ==
  ASSUME SessionInv, orderly, Crash
  PROVE  Ordered' /\ Remembered'
<1>1. /\ cache' = NoSession /\ queue' = [t \in Turns |-> <<>>] /\ writes' = <<>>
      /\ UNCHANGED <<snapshot, acked, orderly>> /\ Locked /\ Remembered
  BY DEF Crash, SessionInv
<1>2. \A c \in Calls : call'[c].at \in {"idle", "done"}
  BY <1>1, CrashLocked DEF InFlight
<1>3. OneLock'
  BY <1>1 DEF OneLock
<1>4. ActiveSolo' /\ SessionInHand'
  BY <1>2 DEF ActiveSolo, Active, SessionInHand, InFlight, Stage, Opening, Using
<1>5. Len(writes') = 0 /\ DOMAIN writes' = {}
  BY <1>1
<1>6. WritesAwaited'
  BY <1>5 DEF WritesAwaited
<1>7. AckedInFile'
  BY <1>1, <1>5 DEF Remembered, AckedInFile, Holds
<1>8. AckedInCache' /\ AckedInRead' /\ NothingAcked' /\ EffectSaved'
  BY <1>1, <1>2 DEF AckedInCache, AckedInRead, NothingAcked, EffectSaved, Stage, Answering
<1>9. QED
  BY <1>3, <1>4, <1>6, <1>7, <1>8 DEF Ordered, Remembered

-----------------------------------------------------------------------------
(* The inductive invariant.                                                 *)

LEMMA SessionInvInit == Init => SessionInv
<1> SUFFICES ASSUME Init PROVE SessionInv
  OBVIOUS
<1>1. /\ cache = NoSession /\ lock = NoLock
      /\ history = [c \in Calls |-> {}] /\ equipped = {}
      /\ queue = [t \in Turns |-> <<>>] /\ forgotten = {}
      /\ writes = <<>> /\ acked = {}
  BY DEF Init
<1>2. PICK w \in Worlds :
        /\ orderly = w.orderly /\ snapshot = w.saved
        /\ call = [c \in Calls |-> [at |-> IF c \in w.calls THEN "idle" ELSE "done",
                                  obj |-> NoSession, read |-> NoSnapshot]]
  BY DEF Init
<1>3. orderly \in BOOLEAN /\ snapshot \in Snapshots /\ \A c \in Calls : call[c].at \in {"idle", "done"}
  BY <1>2, SessionAssumption DEF Snapshots
<1>4. call \in [Calls -> CallType]
  BY <1>2 DEF CallType, Stages, Snapshots
<1>5. TypeOK
  BY <1>1, <1>3, <1>4 DEF TypeOK, CallType, Snapshots
<1>6. Kinds
  BY <1>3 DEF Kinds, Kind, Stage, Using
<1>7. \A l \in Turns : queue[l] = <<>> /\ DOMAIN queue[l] = {}
  BY <1>1
<1>8. QueuesInFlight /\ QueuesApart
  BY <1>7 DEF QueuesInFlight, QueuesApart, ToSet, IsInjective
<1>9. InFlightQueued
  BY <1>3 DEF InFlightQueued, InFlight, Calls
<1>10. Ordered
  BY <1>1, <1>3, <1>7 DEF Ordered, OneLock, ActiveSolo, Active, SessionInHand, WritesAwaited,
                          InFlight, Stage, Opening, Using
<1>11. Remembered
  BY <1>1, <1>3 DEF Remembered, AckedInFile, AckedInCache, AckedInRead, NothingAcked, EffectSaved,
                    Holds, Stage, Answering
<1>12. LocksNamed
  BY <1>7 DEF LocksNamed
<1>13. QED
  BY <1>5, <1>6, <1>8, <1>9, <1>10, <1>11, <1>12 DEF SessionInv, Locked

LEMMA SessionInvStep == SessionInv /\ [Next]_vars => SessionInv'
<1> SUFFICES ASSUME SessionInv, [Next]_vars PROVE SessionInv'
  OBVIOUS
<1>1. Locked' /\ LocksNamed'
  BY LockedStep, LocksNamedStep DEF SessionInv
<1>2. orderly' = orderly
  BY DEF Next, vars, Begin, Step, Raises, Abandon, TurnBegins, Close, CloseAll, FileWrites, Crash,
         ReadSnapshot, Loaded, Evicted, Registered, Acknowledge, TurnEnters, Touched, Asked,
         Answered, StreamEnds, Cleaned, Closed
<1>3. CASE ~orderly
  <2>1. Ordered'
    BY <1>2, <1>3 DEF Ordered, OneLock, ActiveSolo, SessionInHand, WritesAwaited
  <2>2. Remembered'
    BY <1>2, <1>3 DEF Remembered, AckedInFile, AckedInCache, AckedInRead, NothingAcked, EffectSaved
  <2>3. QED
    BY <1>1, <2>1, <2>2 DEF SessionInv
<1>4. CASE orderly /\ UNCHANGED vars
  <2>1. UNCHANGED <<cache, history, snapshot, lock, queue, call, writes, acked, orderly>>
    BY <1>4 DEF vars
  <2>2. Ordered'
    BY <2>1 DEF SessionInv, Ordered, OneLock, ActiveSolo, Active, Solo, SessionInHand,
                WritesAwaited, InFlight, Stage
  <2>3. Remembered'
    BY <2>1 DEF SessionInv, Remembered, AckedInFile, AckedInCache, AckedInRead, NothingAcked,
                EffectSaved, Holds, Stage
  <2>4. QED
    BY <1>1, <2>2, <2>3 DEF SessionInv
<1>5. CASE orderly /\ Next
  <2> SUFFICES Ordered' /\ Remembered'
    BY <1>1 DEF SessionInv
  <2>1. ASSUME NEW c \in Calls, Step(c)
        PROVE  Ordered' /\ Remembered'
    <3>1. CASE ReadSnapshot(c)
      BY <1>5, <3>1, ReadSnapshotInv
    <3>2. CASE Loaded(c)
      BY <1>5, <3>2, LoadedInv
    <3>3. CASE Evicted(c)
      BY <1>5, <3>3, EvictedInv
    <3>4. CASE Registered(c)
      BY <1>5, <3>4, RegisteredInv
    <3>5. CASE Acknowledge(c)
      BY <1>5, <3>5, AcknowledgeInv
    <3>6. CASE c \in Turns /\ TurnEnters(c)
      BY <1>5, <3>6, TurnEntersInv
    <3>7. CASE c \in Turns /\ Touched(c)
      BY <1>5, <3>7, TouchedInv
    <3>8. CASE c \in Turns /\ Asked(c)
      BY <1>5, <3>8, AskedInv
    <3>9. CASE c \in Turns /\ Answered(c)
      BY <1>5, <3>9, AnsweredInv
    <3>10. CASE c \in Turns /\ StreamEnds(c)
      BY <1>5, <3>10, StreamEndsInv
    <3>11. CASE c \in Closers /\ Cleaned(c)
      BY <1>5, <3>11, CleanedInv
    <3>12. CASE c \in Closers /\ Closed(c)
      BY <1>5, <3>12, ClosedInv
    <3>13. QED
      BY <2>1, <3>1, <3>2, <3>3, <3>4, <3>5, <3>6, <3>7, <3>8, <3>9, <3>10, <3>11, <3>12 DEF Step
  <2>2. ASSUME NEW c \in Calls, Begin(c) PROVE Ordered' /\ Remembered'
    BY <1>5, <2>2, BeginInv
  <2>3. ASSUME NEW c \in Calls, Raises(c) PROVE Ordered' /\ Remembered'
    BY <1>5, <2>3, RaisesInv
  <2>4. ASSUME NEW c \in Calls, Abandon(c) PROVE Ordered' /\ Remembered'
    BY <1>5, <2>4, AbandonInv
  <2>5. ASSUME NEW t \in Turns, TurnBegins(t) PROVE Ordered' /\ Remembered'
    BY <1>5, <2>5, TurnBeginsInv
  <2>6. ASSUME NEW c \in Closers, Close(c) PROVE Ordered' /\ Remembered'
    BY <1>5, <2>6, CloseInv
  <2>7. ASSUME NEW c \in Closers, CloseAll(c) PROVE Ordered' /\ Remembered'
    BY <1>5, <2>7, CloseAllInv
  <2>8. CASE FileWrites
    BY <1>5, <2>8, FileWritesInv
  <2>9. CASE Crash
    BY <1>5, <2>9, CrashInv
  <2>10. QED
    BY <1>5, <2>1, <2>2, <2>3, <2>4, <2>5, <2>6, <2>7, <2>8, <2>9 DEF Next
<1>6. QED
  BY <1>3, <1>4, <1>5

(* In every world a turn in flight is in the queue of the session's lock or *)
(* of one that a close has popped (get_lock, close).  When openings,        *)
(* updates and closes are made apart and no save is cancelled, at most one  *)
(* save is on its way, its call awaits it, and what was acknowledged is in  *)
(* the file, in that save and in the cached session (manager.py).           *)
THEOREM SessionInvariant == Spec => []SessionInv
<1>1. QED
  BY SessionInvInit, SessionInvStep, PTL DEF Spec

(* Every variable has its type, in every world.                             *)
THEOREM SessionTypeCorrect == Spec => []TypeOK
<1>1. SessionInv => TypeOK
  BY DEF SessionInv, Locked
<1>2. QED
  BY <1>1, SessionInvariant, PTL

(* However many turns are made, cancelled or raise, two of them are past    *)
(* their locks only when a close has popped the lock of one under it, and   *)
(* never when closes are made apart (get_lock, run_turn, stream_reply).     *)
THEOREM TurnsSequentialCorrect == Spec => []TurnsAreSequential
<1>1. SessionInv => TurnsAreSequential
  <2> SUFFICES ASSUME SessionInv, NEW t \in Turns, NEW u \in Turns, PastLock(t), PastLock(u), t # u
               PROVE  ~orderly /\ \E l \in forgotten : queue[l] # <<>> /\ Head(queue[l]) \in {t, u}
    BY DEF TurnsAreSequential
  <2>1. /\ InFlight(t) /\ Stage(t) # "queued" /\ InFlight(u) /\ Stage(u) # "queued"
        /\ Locked /\ LocksNamed /\ Ordered
    BY DEF PastLock, Stage, SessionInv
  <2>2. ~orderly
    <3>1. ASSUME orderly PROVE FALSE
      <4>1. t = Head(queue[lock]) /\ u = Head(queue[lock])
        BY <2>1, <3>1, LockHeld DEF Ordered
      <4>2. QED
        BY <4>1
    <3>2. QED
      BY <3>1
  <2>3. PICK l \in Turns : t \in ToSet(queue[l]) /\ t = Head(queue[l])
    BY <2>1 DEF Locked, InFlightQueued
  <2>4. PICK m \in Turns : u \in ToSet(queue[m]) /\ u = Head(queue[m])
    BY <2>1 DEF Locked, InFlightQueued
  <2>5. l # m /\ queue[l] # <<>> /\ queue[m] # <<>>
    BY <2>3, <2>4 DEF ToSet
  <2>6. l \in forgotten \/ m \in forgotten
    BY <2>1, <2>5 DEF LocksNamed
  <2>7. QED
    BY <2>2, <2>3, <2>4, <2>5, <2>6
<1>2. QED
  BY <1>1, SessionInvariant, PTL

(* When openings, updates and closes are made apart and no call is          *)
(* cancelled in a save: whatever turns queue, are abandoned and raise,      *)
(* whichever saves fail, and whenever the process dies, a reply or a role   *)
(* that was acknowledged is in the session the next call finds              *)
(* (stream_reply, aupdate_role, _load_snapshot).                            *)
THEOREM AcknowledgedCorrect == Spec => []AcknowledgedIsRemembered
<1>1. SessionInv => AcknowledgedIsRemembered
  BY DEF SessionInv, Remembered, AckedInCache, AckedInFile, Holds, AcknowledgedIsRemembered
<1>2. QED
  BY <1>1, SessionInvariant, PTL

(* Who has a lock, and who waits for it: a turn that waits does so behind a *)
(* turn in flight.                                                          *)
LocksAreLive ==
  /\ \A l \in Turns : queue[l] # <<>> => InFlight(Head(queue[l]))
  /\ \A t \in Turns : Stage(t) = "queued" =>
       \E l \in Turns : t \in ToSet(queue[l]) /\ InFlight(Head(queue[l]))

(* No lock stays behind a turn that is over: however turns are cancelled    *)
(* and raise, sessions are closed under them and the process dies, the turn *)
(* that holds a lock is in flight, and a turn that waits is in its queue    *)
(* (the safety that EveryCallEnds rests on).                                *)
THEOREM LocksLiveCorrect == Spec => []LocksAreLive
<1>1. ASSUME SessionInv, NEW l \in Turns, queue[l] # <<>>
      PROVE  InFlight(Head(queue[l]))
  <2>1. queue[l] \in Seq(Turns)
    BY <1>1 DEF SessionInv, Locked, TypeOK
  <2>2. Head(queue[l]) \in ToSet(queue[l])
    <3>1. 1 \in 1..Len(queue[l]) /\ DOMAIN queue[l] = 1..Len(queue[l]) /\ Head(queue[l]) = queue[l][1]
      BY <1>1, <2>1, EmptySeq, LenProperties
    <3>2. QED
      BY <3>1 DEF ToSet
  <2>3. QED
    BY <1>1, <2>2 DEF SessionInv, Locked, QueuesInFlight
<1>2. ASSUME SessionInv, NEW t \in Turns, Stage(t) = "queued"
      PROVE  \E l \in Turns : t \in ToSet(queue[l]) /\ InFlight(Head(queue[l]))
  <2>1. PICK l \in Turns : t \in ToSet(queue[l])
    BY <1>2 DEF SessionInv, Locked, InFlightQueued, InFlight, Stage
  <2>2. queue[l] # <<>>
    BY <2>1 DEF ToSet
  <2>3. QED
    BY <1>1, <1>2, <2>1, <2>2
<1>3. SessionInv => LocksAreLive
  BY <1>1, <1>2 DEF LocksAreLive
<1>4. QED
  BY <1>3, SessionInvariant, PTL
=============================================================================
