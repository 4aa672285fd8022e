--------------------------- MODULE SessionManager ---------------------------
(***************************************************************************)
(* SessionManager: one session of the manager over the SQLite backend.     *)
(* Sessions share nothing, so one key is enough.                           *)
(*                                                                         *)
(* A call is made once.  Turns (run_turn, stream_reply) hold the session's *)
(* lock; openers (aget, then aregister when there is no session), updaters *)
(* (aupdate_role) and closers (close, close_all) take no lock.  State      *)
(* objects are named after the call that makes them, locks after the turn  *)
(* that makes them.  The content of a state is the set of calls whose      *)
(* effect, a reply or a role, is in it.                                    *)
(***************************************************************************)
EXTENDS Naturals, Sequences, SequencesExt

CONSTANTS
  Turns, Openers, Updaters, Closers,   \* the calls
  Worlds,       \* the environments checked: the calls made, what the file
                \* holds at first, and "orderly"
  NoSession, NoLock, NoSnapshot        \* None

Calls == Turns \cup Openers \cup Updaters \cup Closers

ASSUME SessionAssumption ==
  /\ Worlds \subseteq [orderly : BOOLEAN, calls : SUBSET Calls,
                       saved : {NoSnapshot} \cup SUBSET Calls]
  /\ NoSession \notin Calls /\ NoLock \notin Turns
  /\ \A held \in SUBSET Calls : held # NoSnapshot
  /\ Turns \cap (Openers \cup Updaters \cup Closers) = {}
  /\ Openers \cap (Updaters \cup Closers) = {} /\ Updaters \cap Closers = {}

VARIABLES
  cache,      \* _sessions[key]
  history,    \* per state object: what it holds
  equipped,   \* the state objects with a runtime
  snapshot,   \* the row of the session in the file
  lock,       \* _locks[key]
  queue,      \* per lock: its holder, then those who wait for it
  forgotten,  \* history variable: the locks that closes have popped from _locks
  call,       \* per call: where it is suspended, the state object it uses,
              \* the snapshot it has read
  writes,     \* the saves and deletes handed to threads
  acked,      \* the calls that were told their effect is there
  orderly     \* the application keeps calls without a lock apart from the
              \* others (Apart) and cancels no call that awaits the file (Abandon)

vars == <<cache, history, equipped, snapshot, lock, queue, forgotten, call, writes, acked, orderly>>
store == <<cache, history, equipped>>

-----------------------------------------------------------------------------
(* What a step is made of.                                                  *)

InFlight(c) == call[c].at \notin {"idle", "done"}
Pending(c)  == \E i \in DOMAIN writes : writes[i].by = c
Write(c, data) == writes' = Append(writes, [by |-> c, data |-> data])
MoveTo(c, at)  == call' = [call EXCEPT ![c].at = at]

(* The call returns or raises; leaving a turn releases its lock. *)
Left(c) == [call EXCEPT ![c] = [at |-> "done", obj |-> NoSession, read |-> NoSnapshot]]
(* Seeded bug: only the waiting are removed, the holder is not. *)
ReleasedWaiting(t) ==
  [l \in Turns |-> IF queue[l] = <<>> THEN <<>>
                   ELSE <<Head(queue[l])>> \o SelectSeq(Tail(queue[l]), LAMBDA u : u # t)]

Without(q, t) == IF t \in ToSet(q) THEN RemoveAt(q, CHOOSE i \in DOMAIN q : q[i] = t) ELSE q
Released(t) == [l \in Turns |-> Without(queue[l], t)]
Finish(c) == call' = Left(c) /\ queue' = Released(c)

(* A call has its answer: a turn is suspended at the yield of its last      *)
(* event, its lock held, until the consumer goes on; others return.         *)
Told(c) == IF c \in Turns THEN [call EXCEPT ![c].at = "yielding"] ELSE Left(c)

(* An orderly application opens, updates and closes a session while no      *)
(* other call is in flight, and starts no turn before they return.          *)
Alone(c) == \A d \in Calls \ {c} : ~InFlight(d)
Apart(c) ==
  orderly => IF c \in Turns THEN \A d \in Calls \ Turns : ~InFlight(d) ELSE Alone(c)

(* The caller of aget goes on with state o; h is what states hold by then.  *)
(* An opener gives a restored state a runtime.                              *)
Proceed(c, o, h) ==
  CASE c \in Turns ->
         /\ Write(c, h[o]) /\ history' = h
         /\ call' = [call EXCEPT ![c].at = "touching", ![c].obj = o]
         /\ UNCHANGED equipped
    [] c \in Openers ->
         /\ history' = h /\ equipped' = equipped \cup {o}
         /\ call' = Left(c)
         /\ UNCHANGED writes
    [] c \in Updaters ->
         /\ history' = [h EXCEPT ![o] = @ \cup {c}]
         /\ Write(c, h[o] \cup {c})
         /\ call' = [call EXCEPT ![c].at = "updating", ![c].obj = o]
         /\ UNCHANGED equipped

(* aget returned None: an opener registers a new state. *)
NotFound(c) ==
  IF c \in Openers
  THEN /\ cache' = c /\ history' = [history EXCEPT ![c] = {}] /\ equipped' = equipped \cup {c}
       /\ Write(c, {})
       /\ MoveTo(c, "registering")
  ELSE call' = Told(c) /\ UNCHANGED <<store, writes>>

(* _evict_if_expired: whatever is cached is dropped, the row deleted.       *)
Evict(c) ==
  /\ cache' = NoSession
  /\ acked' = {}
  /\ Write(c, NoSnapshot)
  /\ MoveTo(c, "evicting")
  /\ UNCHANGED <<history, equipped>>

(* aget up to its first await. *)
Aget(c) ==
  \/ /\ cache = NoSession
     /\ MoveTo(c, "loading")
     /\ UNCHANGED <<store, writes, acked>>
  \/ cache # NoSession /\ Proceed(c, cache, history) /\ UNCHANGED <<cache, acked>>
  \/ cache # NoSession /\ Evict(c)

-----------------------------------------------------------------------------
(* aget.                                                                    *)

Begin(c) ==
  /\ c \in Openers \cup Updaters
  /\ call[c].at = "idle" /\ Apart(c)
  /\ Aget(c)
  /\ UNCHANGED <<snapshot, lock, queue, forgotten, orderly>>

ReadSnapshot(c) ==
  /\ call[c].at = "loading"
  /\ call' = [call EXCEPT ![c].at = "loaded", ![c].read = snapshot]
  /\ UNCHANGED <<store, snapshot, lock, queue, forgotten, writes, acked, orderly>>

Loaded(c) ==
  /\ call[c].at = "loaded"
  /\ \/ call[c].read = NoSnapshot /\ NotFound(c) /\ UNCHANGED acked
     \/ /\ call[c].read # NoSnapshot
        /\ \/ /\ cache' = c
              /\ Proceed(c, c, [history EXCEPT ![c] = call[c].read])
              /\ UNCHANGED acked
           \/ Evict(c)
  /\ UNCHANGED <<snapshot, lock, queue, forgotten, orderly>>

Evicted(c) ==
  /\ call[c].at = "evicting" /\ ~Pending(c)
  /\ NotFound(c)
  /\ UNCHANGED <<snapshot, lock, queue, forgotten, acked, orderly>>

-----------------------------------------------------------------------------
(* Turns.                                                                   *)

(* Seeded bug: get_lock does not look for the session's lock. *)
TurnBeginsUnlocked(t) ==
  /\ call[t].at = "idle" /\ Apart(t)
  /\ lock' = t
  /\ Aget(t) /\ queue' = [queue EXCEPT ![t] = <<t>>]
  /\ UNCHANGED <<snapshot, forgotten, orderly>>

(* get_lock, then aget at once when the lock is free. *)
TurnBegins(t) ==
  LET l == IF lock = NoLock THEN t ELSE lock IN
  /\ call[t].at = "idle" /\ Apart(t)
  /\ lock' = l
  /\ IF queue[l] = <<>>
     THEN Aget(t) /\ queue' = [queue EXCEPT ![l] = <<t>>]
     ELSE /\ queue' = [queue EXCEPT ![l] = Append(@, t)]
          /\ MoveTo(t, "queued")
          /\ UNCHANGED <<store, writes, acked>>
  /\ UNCHANGED <<snapshot, forgotten, orderly>>

TurnEnters(t) ==
  /\ call[t].at = "queued"
  /\ \E l \in Turns : queue[l] # <<>> /\ Head(queue[l]) = t
  /\ Aget(t)
  /\ UNCHANGED <<snapshot, lock, queue, forgotten, orderly>>

(* The activity is saved: without a runtime the turn is an error; run_turn  *)
(* runs it; stream_reply appends the message and saves again.               *)
Touched(t) ==
  /\ call[t].at = "touching" /\ ~Pending(t)
  /\ IF call[t].obj \notin equipped
     THEN call' = Told(t) /\ UNCHANGED writes
     ELSE \/ MoveTo(t, "turning") /\ UNCHANGED writes
          \/ MoveTo(t, "asking") /\ Write(t, history[call[t].obj])
  /\ UNCHANGED <<store, snapshot, lock, queue, forgotten, acked, orderly>>

Asked(t) ==
  /\ call[t].at = "asking" /\ ~Pending(t)
  /\ MoveTo(t, "running")
  /\ UNCHANGED <<store, snapshot, lock, queue, forgotten, writes, acked, orderly>>

(* The final event: the reply is appended and saved. *)
Answered(t) ==
  LET held == history[call[t].obj] \cup {t} IN
  /\ call[t].at = "running"
  /\ history' = [history EXCEPT ![call[t].obj] = held]
  /\ Write(t, held)
  /\ MoveTo(t, "answering")
  /\ UNCHANGED <<cache, equipped, snapshot, lock, queue, forgotten, acked, orderly>>

(* The stream ends: an error event, an exception, no final event; the end   *)
(* of run_turn, which keeps no history; or the consumer goes on after the   *)
(* last event.                                                              *)
StreamEnds(t) ==
  /\ call[t].at \in {"running", "turning", "yielding"}
  /\ Finish(t)
  /\ UNCHANGED <<store, snapshot, lock, forgotten, writes, acked, orderly>>

(* Seeded bug: the reply is acknowledged before its save has landed. *)
AcknowledgeEarly(c) ==
  /\ call[c].at \in {"answering", "updating"}
  /\ acked' = acked \cup {c}
  /\ call' = Told(c)
  /\ UNCHANGED <<store, snapshot, lock, queue, forgotten, writes, orderly>>

(* The done event of stream_reply, or the True of aupdate_role. *)
Acknowledge(c) ==
  /\ call[c].at \in {"answering", "updating"} /\ ~Pending(c)
  /\ acked' = acked \cup {c}
  /\ call' = Told(c)
  /\ UNCHANGED <<store, snapshot, lock, queue, forgotten, writes, orderly>>

Registered(a) ==
  /\ call[a].at = "registering" /\ ~Pending(a)
  /\ Finish(a)
  /\ UNCHANGED <<store, snapshot, lock, forgotten, writes, acked, orderly>>

-----------------------------------------------------------------------------
(* close and close_all.                                                     *)

ForgetLock == lock' = NoLock /\ forgotten' = forgotten \cup ({lock} \ {NoLock})

Close(c) ==
  /\ call[c].at = "idle" /\ Apart(c)
  /\ cache' = NoSession
  /\ acked' = {}
  /\ IF cache \in equipped
     THEN MoveTo(c, "cleaning") /\ UNCHANGED writes
     ELSE MoveTo(c, "deleting") /\ Write(c, NoSnapshot)
  /\ UNCHANGED <<history, equipped, snapshot, lock, queue, forgotten, orderly>>

Cleaned(c) ==
  /\ call[c].at = "cleaning"
  /\ MoveTo(c, "deleting") /\ Write(c, NoSnapshot)
  /\ UNCHANGED <<store, snapshot, lock, queue, forgotten, acked, orderly>>

(* close_all keeps the rows. *)
CloseAll(c) ==
  /\ call[c].at = "idle" /\ Apart(c)
  /\ cache' = NoSession
  /\ IF cache \in equipped
     THEN MoveTo(c, "stopping") /\ UNCHANGED <<lock, forgotten>>
     ELSE call' = Left(c) /\ ForgetLock
  /\ UNCHANGED <<history, equipped, snapshot, queue, writes, acked, orderly>>

(* The lock is forgotten last. *)
Closed(c) ==
  /\ call[c].at \in {"stopping", "deleting"} /\ ~Pending(c)
  /\ ForgetLock
  /\ call' = Left(c)
  /\ UNCHANGED <<store, snapshot, queue, writes, acked, orderly>>

-----------------------------------------------------------------------------
(* Threads, faults, crashes.                                                *)

(* A thread runs a save or a delete: threads take the file's lock in any    *)
(* order.                                                                   *)
FileWrites ==
  \E i \in DOMAIN writes :
    /\ snapshot' = writes[i].data
    /\ writes' = RemoveAt(writes, i)
    /\ UNCHANGED <<store, lock, queue, forgotten, call, acked, orderly>>

(* The file or a runtime's cleanup raises in the call that awaits it; the   *)
(* save of a reply is within the try of the stream, which tells the error.  *)
Raises(c) ==
  /\ InFlight(c)
  /\ \/ \E i \in DOMAIN writes : writes[i].by = c /\ writes' = RemoveAt(writes, i)
     \/ call[c].at \in {"loading", "cleaning", "stopping"} /\ UNCHANGED writes
  /\ IF call[c].at = "answering" THEN call' = Told(c) /\ UNCHANGED queue ELSE Finish(c)
  /\ UNCHANGED <<store, snapshot, lock, forgotten, acked, orderly>>

(* The task that makes the call is cancelled, at any await.  What it handed *)
(* to a thread is still written.  An orderly application cancels no call    *)
(* that awaits a save or a delete.                                          *)
Abandon(c) ==
  /\ InFlight(c)
  /\ orderly => ~Pending(c)
  /\ Finish(c)
  /\ UNCHANGED <<store, snapshot, lock, forgotten, writes, acked, orderly>>

(* The process dies; the file is all that is left. *)
Crash ==
  /\ cache' = NoSession /\ equipped' = {} /\ history' = [c \in Calls |-> {}]
  /\ lock' = NoLock /\ queue' = [t \in Turns |-> <<>>] /\ forgotten' = {}
  /\ writes' = <<>>
  /\ call' = [c \in Calls |-> IF InFlight(c) THEN Left(c)[c] ELSE call[c]]
  /\ UNCHANGED <<snapshot, acked, orderly>>

-----------------------------------------------------------------------------
Init ==
  /\ cache = NoSession /\ lock = NoLock
  /\ history = [c \in Calls |-> {}] /\ equipped = {}
  /\ queue = [t \in Turns |-> <<>>] /\ forgotten = {}
  /\ writes = <<>> /\ acked = {}
  /\ \E w \in Worlds :
       /\ orderly = w.orderly /\ snapshot = w.saved
       /\ call = [c \in Calls |-> [at |-> IF c \in w.calls THEN "idle" ELSE "done",
                                 obj |-> NoSession, read |-> NoSnapshot]]

(* What a call does once it was made. *)
Step(c) ==
  \/ ReadSnapshot(c) \/ Loaded(c) \/ Evicted(c) \/ Registered(c) \/ Acknowledge(c)
  \/ c \in Turns /\ (TurnEnters(c) \/ Touched(c) \/ Asked(c) \/ Answered(c) \/ StreamEnds(c))
  \/ c \in Closers /\ (Cleaned(c) \/ Closed(c))

Next ==
  \/ \E c \in Calls : Begin(c) \/ Step(c) \/ Raises(c) \/ Abandon(c)
  \/ \E t \in Turns : TurnBegins(t)
  \/ \E c \in Closers : Close(c) \/ CloseAll(c)
  \/ FileWrites
  \/ Crash

Spec == Init /\ [][Next]_vars

(* The event loop runs whoever is ready, threads reach the file, runtimes   *)
(* end their turns.                                                         *)
FairSpec == Spec /\ WF_vars(FileWrites) /\ \A c \in Calls : WF_vars(Step(c))

-----------------------------------------------------------------------------
(* Correctness.                                                             *)

Stages == {"idle", "queued", "loading", "loaded", "evicting", "registering", "touching",
           "asking", "running", "turning", "answering", "yielding", "updating", "cleaning", "stopping",
           "deleting", "done"}
Snapshots == {NoSnapshot} \cup SUBSET Calls

(* Every variable has its type. *)
TypeOK ==
  /\ cache \in Calls \cup {NoSession}
  /\ history \in [Calls -> SUBSET Calls]
  /\ equipped \in SUBSET Calls
  /\ snapshot \in Snapshots
  /\ lock \in Turns \cup {NoLock}
  /\ queue \in [Turns -> Seq(Turns)]
  /\ forgotten \in SUBSET Turns
  /\ call \in [Calls -> [at : Stages, obj : Calls \cup {NoSession}, read : Snapshots]]
  /\ writes \in Seq([by : Calls, data : Snapshots])
  /\ acked \in SUBSET Calls
  /\ orderly \in BOOLEAN

(* An application that keeps the calls without a lock apart and cancels no  *)
(* call in a save never loses a reply or a role that was acknowledged, not  *)
(* by turns that queue, raise or are abandoned, saves that fail, close_all  *)
(* or crashes: it is in the session the next call will find, until the      *)
(* session is closed or expires.                                            *)
AcknowledgedIsRemembered ==
  orderly => acked \subseteq IF cache # NoSession THEN history[cache]
                             ELSE IF snapshot # NoSnapshot THEN snapshot ELSE {}

(* "SessionManager is the source of truth for conversation history", with   *)
(* no premise: the session in memory holds every reply that was announced   *)
(* done since it was last closed or expired.                                *)
HistoryIsKept == cache # NoSession => acked \cap Turns \subseteq history[cache]

(* "asyncio.Lock ensures sequential turn processing per session": two turns *)
(* are past the lock at once only when a close has popped, under a turn in  *)
(* flight, the lock that one of them holds; in an orderly world, never.     *)
PastLock(t) == InFlight(t) /\ call[t].at # "queued"
TurnsAreSequential ==
  \A t, u \in Turns :
    PastLock(t) /\ PastLock(u) /\ t # u =>
      ~orderly /\ \E l \in forgotten : queue[l] # <<>> /\ Head(queue[l]) \in {t, u}

(* Every call ends, in any world: a turn that waits for a lock which a      *)
(* close has forgotten meanwhile, or behind turns that raise or are         *)
(* abandoned, gets its lock.                                                *)
EveryCallEnds == \A c \in Calls : InFlight(c) ~> call[c].at = "done"
=============================================================================
