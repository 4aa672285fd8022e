------------------------------ MODULE PidFile -------------------------------
(***************************************************************************)
(* PidFile: the pid file and its lock file, as the daemons started on one  *)
(* path and the commands that ask whether one runs use them.               *)
(*                                                                         *)
(* Every system call is a step: processes interleave between any two.  A   *)
(* lock belongs to the inode a process opened, not to the path, and goes   *)
(* with the process.  A process is named by its pid and acts once.         *)
(***************************************************************************)
EXTENDS Naturals, FiniteSets

CONSTANTS
  Procs, Inodes,
  None     \* neither a process nor an inode

VARIABLES
  path,      \* the inode at the path of the lock file, or None
  holder,    \* per inode: the process that has it locked, or None
  pid_file,  \* the pid in the pid file, or None
  at,        \* per process: its next call
  fd         \* per process: the inode it has open, or None

vars == <<path, holder, pid_file, at, fd>>

Goes(p, to) == at' = [at EXCEPT ![p] = to]
Closes(p)   == fd' = [fd EXCEPT ![p] = None]
Free(p)     == [i \in Inodes |-> IF holder[i] = p THEN None ELSE holder[i]]

Alive(p) == at[p] \notin {"absent", "gone"}
Daemons  == {p \in Procs : at[p] \in {"checking", "cleaning", "writing", "running",
                                      "removing", "unlocking"}}

-----------------------------------------------------------------------------
(* open with O_CREAT: the inode at the path, or a new one. *)
Open(p, to) ==
  /\ at[p] = "absent"
  /\ \E i \in Inodes :
       /\ IF path = None THEN i \notin {fd[q] : q \in Procs} ELSE i = path
       /\ path' = i
       /\ fd' = [fd EXCEPT ![p] = i]
  /\ Goes(p, to)
  /\ UNCHANGED <<holder, pid_file>>

(* flock without waiting. *)
Lock(p, from, to) ==
  /\ at[p] = from
  /\ holder[fd[p]] = None
  /\ holder' = [holder EXCEPT ![fd[p]] = p]
  /\ Goes(p, to)
  /\ UNCHANGED <<path, pid_file, fd>>

(* The lock is held: acquire raises, is_running answers. *)
Refused(p) ==
  /\ at[p] \in {"locking", "probing"}
  /\ holder[fd[p]] # None
  /\ Closes(p) /\ Goes(p, "gone")
  /\ UNCHANGED <<path, holder, pid_file>>

(* acquire: a pid file left by a dead process is removed, its own written. *)
Check(p) ==
  /\ at[p] = "checking"
  /\ Goes(p, IF pid_file # None /\ ~Alive(pid_file) THEN "cleaning" ELSE "writing")
  /\ UNCHANGED <<path, holder, pid_file, fd>>

RemovePid(p) ==
  /\ pid_file' = None
  /\ \/ at[p] = "cleaning" /\ Goes(p, "writing")
     \/ at[p] = "removing" /\ Goes(p, "unlocking")
  /\ UNCHANGED <<path, holder, fd>>

WritePid(p) ==
  /\ at[p] = "writing"
  /\ pid_file' = p
  /\ Goes(p, "running")
  /\ UNCHANGED <<path, holder, fd>>

(* release, at the end of the daemon's run: the pid file is its own or not. *)
Release(p) ==
  /\ at[p] = "running"
  /\ Goes(p, IF pid_file = p THEN "removing" ELSE "unlocking")
  /\ UNCHANGED <<path, holder, pid_file, fd>>

(* The lock is given up and the file closed: a daemon goes on to unlink it, *)
(* is_running leaves it.                                                    *)
Unlock(p) ==
  /\ holder' = Free(p)
  /\ Closes(p)
  /\ \/ at[p] = "unlocking" /\ Goes(p, "unlinking")
     \/ at[p] = "probed" /\ Goes(p, "gone")
  /\ UNCHANGED <<path, pid_file>>

(* Whatever is at the path by now. *)
Unlink(p) ==
  /\ at[p] = "unlinking"
  /\ path' = None
  /\ Goes(p, "gone")
  /\ UNCHANGED <<holder, pid_file, fd>>

(* The process dies: what it has open is closed. *)
Crash(p) ==
  /\ Alive(p)
  /\ holder' = Free(p)
  /\ Closes(p) /\ Goes(p, "gone")
  /\ UNCHANGED <<path, pid_file>>

-----------------------------------------------------------------------------
(* At first, or after a crash: a lock file nobody has open may be left. *)
Init ==
  /\ path \in Inodes \cup {None}
  /\ holder = [i \in Inodes |-> None]
  /\ pid_file = None
  /\ at = [p \in Procs |-> "absent"]
  /\ fd = [p \in Procs |-> None]

Acquire(p)   == Open(p, "locking") \/ Lock(p, "locking", "checking")
IsRunning(p) == Open(p, "probing") \/ Lock(p, "probing", "probed")

Next ==
  \E p \in Procs :
    \/ Acquire(p) \/ IsRunning(p) \/ Refused(p) \/ Check(p) \/ RemovePid(p) \/ WritePid(p)
    \/ Release(p) \/ Unlock(p) \/ Unlink(p) \/ Crash(p)

Spec == Init /\ [][Next]_vars

-----------------------------------------------------------------------------
(* "flock ... to eliminate TOCTOU races: the lock file is held for the      *)
(* lifetime of the daemon, and any concurrent acquire attempt fails": two   *)
(* processes never are the daemon at once.                                  *)
OneDaemon == Cardinality(Daemons) <= 1
=============================================================================
