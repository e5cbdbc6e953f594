------------------------------- MODULE FsCell -------------------------------
(***************************************************************************)
(* The memory provider of the file system (provider/fs/memory.rs with the  *)
(* native backend): one cell is one file, written by staging a temporary   *)
(* file and renaming it, and compare-and-swap is made atomic by a PID lock *)
(* file beside it.  Several tasks of several operating system processes    *)
(* call the provider at once; a process may die at any step, leaving its   *)
(* lock file and its staging files behind.                                 *)
(***************************************************************************)
EXTENDS MemoryEffect, Naturals, FiniteSets

CONSTANTS Task,        \* callers of the provider
          Process,     \* operating system processes, by PID
          ProcessOf,   \* the process each task runs in
          Content,     \* the values the cell can hold
          MaxCrashes   \* bound: how many processes die in a behaviour

ASSUME ProcessAssumption == ProcessOf \in [Task -> Process]
ASSUME NoneAssumption ==
    None \notin Content /\ None \notin Process /\ None \notin [blake3 : Content]

VARIABLES file,        \* content of {space}/{cell}, None when there is no file
          lock,        \* PID in {cell}.lock, None when there is no lock file
          staged,      \* content of the staging file of each task, or None
          dead,        \* the processes that have died
          task         \* where each task is in its effect

vars == <<file, lock, staged, dead, task>>

Versions == [blake3 : Content]
Editions == [content : Content, version : Versions]
Resolves  == [effect : {"resolve"}]
Publishes == [effect : {"publish"}, content : Content,
              when : Versions \union {None}]
Retracts  == [effect : {"retract"}, when : Versions]
Effects   == Resolves \union Publishes \union Retracts
Replies   == [resolved : Editions \union {None}]
               \union [status : {"ok", "mismatch", "error"}]

Status(s) == [status |-> s]

(***************************************************************************)
(* A task is idle, at some step of its effect, or has its reply ("unlock": *)
(* the reply is known, the guard not dropped yet).                         *)
(***************************************************************************)
Idle            == [at |-> "idle"]
At(step, op)    == [at |-> step, op |-> op]
Unlock(reply)   == [at |-> "unlock", reply |-> reply]
Done(reply)     == [at |-> "done", reply |-> reply]

Tasks ==
    {Idle}
      \union [at : {"read"}, op : Resolves]
      \union [at : {"lock", "check"}, op : Publishes \union Retracts]
      \union [at : {"stage", "rename"}, op : Publishes]
      \union [at : {"exists", "remove"}, op : Retracts]
      \union [at : {"unlock", "done"}, reply : Replies]

\* The steps of a task that holds the lock file.
Locked(t) == task[t].at \in {"check", "stage", "rename", "remove", "unlock"}

Goto(t, state) == task' = [task EXCEPT ![t] = state]

Init ==
    /\ file = None
    /\ lock = None
    /\ staged = [t \in Task |-> None]
    /\ dead = {}
    /\ task = [t \in Task |-> Idle]

(***************************************************************************)
(* A call arrives.  Resolve reads the file without a lock, Publish starts  *)
(* with the lock, Retract first asks whether the file exists.              *)
(***************************************************************************)
FirstStep == [resolve |-> "read", publish |-> "lock", retract |-> "exists"]

Invoke(t, op) ==
    /\ task[t].at = "idle"
    /\ ProcessOf[t] \notin dead
    /\ Goto(t, At(FirstStep[op.effect], op))
    /\ UNCHANGED <<file, lock, staged, dead>>

\* Mutant of Resolve: the content is answered without its version.
ResolveBare(t) ==
    /\ task[t].at = "read"
    /\ Goto(t, Done([resolved |-> file]))
    /\ UNCHANGED <<file, lock, staged, dead>>

\* Provider<Resolve>: read_optional, then hash what was read.
Resolve(t) ==
    /\ task[t].at = "read"
    /\ Goto(t, Done([resolved |-> EditionOf(file)]))
    /\ UNCHANGED <<file, lock, staged, dead>>

\* Provider<Retract> before it locks: an absent file needs no lock.
RetractExists(t) ==
    /\ task[t].at = "exists"
    /\ Goto(t, IF file = None THEN Done(Status("ok"))
                              ELSE At("lock", task[t].op))
    /\ UNCHANGED <<file, lock, staged, dead>>

\* The same step when the path or its metadata cannot be read: exists()
\* answers false whatever the error, so the retract ends in ok and the file,
\* if there is one, stays.
ExistsFails(t) ==
    /\ task[t].at = "exists"
    /\ Goto(t, Done(Status("ok")))
    /\ UNCHANGED <<file, lock, staged, dead>>

(***************************************************************************)
(* LockGuard::acquire.  A lock file whose process has died is stale and is *)
(* replaced; a lock file of a live process, the caller's own included, is  *)
(* an error at once: the provider never waits for a lock.                  *)
(***************************************************************************)
\* Mutant: a lock file that holds our own PID counts as ours.
LockReentrant(t) == lock \in dead \union {None, ProcessOf[t]}

LockAvailable(t) == lock = None \/ lock \in dead

Acquire(t) ==
    /\ task[t].at = "lock"
    /\ LockAvailable(t)
    /\ lock' = ProcessOf[t]
    /\ Goto(t, At("check", task[t].op))
    /\ UNCHANGED <<file, staged, dead>>

AcquireFails(t) ==
    /\ task[t].at = "lock"
    /\ ~LockAvailable(t)
    /\ Goto(t, Done(Status("error")))
    /\ UNCHANGED <<file, lock, staged, dead>>

\* Publish under the lock: read the file, compare, and decide.
PublishCheck(t) ==
    /\ task[t].at = "check"
    /\ task[t].op.effect = "publish"
    /\ LET op == task[t].op IN
       Goto(t, IF ~PublishAccepted(file, op.content, op.when)
               THEN Unlock(Status("mismatch"))
               ELSE IF VersionOf(file) = Version(op.content)
                    THEN Unlock(Status("ok"))
                    ELSE At("stage", op))
    /\ UNCHANGED <<file, lock, staged, dead>>

\* write_atomic, first half: the staging file.
Stage(t) ==
    /\ task[t].at = "stage"
    /\ staged' = [staged EXCEPT ![t] = task[t].op.content]
    /\ Goto(t, At("rename", task[t].op))
    /\ UNCHANGED <<file, lock, dead>>

\* write_atomic, second half: the rename that makes the content visible.
Rename(t) ==
    /\ task[t].at = "rename"
    /\ file' = staged[t]
    /\ staged' = [staged EXCEPT ![t] = None]
    /\ Goto(t, Unlock(Status("ok")))
    /\ UNCHANGED <<lock, dead>>

\* Mutant of RetractCheck: the version is not compared under the lock.
RetractUnchecked(t) ==
    /\ task[t].at = "check"
    /\ task[t].op.effect = "retract"
    /\ Goto(t, At("remove", task[t].op))
    /\ UNCHANGED <<file, lock, staged, dead>>

\* Retract under the lock: the file is read again before it is compared.
RetractCheck(t) ==
    /\ task[t].at = "check"
    /\ task[t].op.effect = "retract"
    /\ Goto(t, IF file = None THEN Unlock(Status("ok"))
               ELSE IF RetractAccepted(file, task[t].op.when)
                    THEN At("remove", task[t].op)
                    ELSE Unlock(Status("mismatch")))
    /\ UNCHANGED <<file, lock, staged, dead>>

Remove(t) ==
    /\ task[t].at = "remove"
    /\ file' = None
    /\ Goto(t, Unlock(Status("ok")))
    /\ UNCHANGED <<lock, staged, dead>>

(***************************************************************************)
(* An I/O error ends the effect where it stands, at every step but the     *)
(* question whether the file exists, whose errors are no (ExistsFails).  A *)
(* failed write leaves the staging file behind, a failed rename removes it *)
(***************************************************************************)
IoError(t) ==
    /\ \/ /\ task[t].at \in {"read", "lock"}
          /\ Goto(t, Done(Status("error")))
          /\ UNCHANGED staged
       \/ /\ task[t].at \in {"check", "stage", "remove"}
          /\ Goto(t, Unlock(Status("error")))
          /\ UNCHANGED staged
       \/ /\ task[t].at = "stage"
          /\ Goto(t, Unlock(Status("error")))
          /\ staged' = [staged EXCEPT ![t] = task[t].op.content]
       \/ /\ task[t].at = "rename"
          /\ Goto(t, Unlock(Status("error")))
          /\ staged' = [staged EXCEPT ![t] = None]
    /\ UNCHANGED <<file, lock, dead>>

\* The guard is dropped when the effect returns.  Drop ignores the outcome:
\* a lock file that cannot be removed stays, and refuses every later writer
\* while this process lives.
Release(t) ==
    /\ task[t].at = "unlock"
    /\ lock' \in {None, lock}
    /\ Goto(t, Done(task[t].reply))
    /\ UNCHANGED <<file, staged, dead>>

Return(t) ==
    /\ task[t].at = "done"
    /\ Goto(t, Idle)
    /\ UNCHANGED <<file, lock, staged, dead>>

\* A process dies: its tasks are gone, its lock and staging files stay.
Crash(p) ==
    /\ p \notin dead
    /\ Cardinality(dead) < MaxCrashes
    /\ dead' = dead \union {p}
    /\ task' = [t \in Task |-> IF ProcessOf[t] = p THEN Idle ELSE task[t]]
    /\ UNCHANGED <<file, lock, staged>>

Next ==
    \/ \E t \in Task :
         \/ \E op \in Effects : Invoke(t, op)
         \/ Resolve(t) \/ RetractExists(t) \/ ExistsFails(t)
         \/ Acquire(t) \/ AcquireFails(t)
         \/ PublishCheck(t) \/ Stage(t) \/ Rename(t)
         \/ RetractCheck(t) \/ Remove(t)
         \/ IoError(t) \/ Release(t) \/ Return(t)
    \/ \E p \in Process : Crash(p)

Spec == Init /\ [][Next]_vars

-----------------------------------------------------------------------------
(* Type invariant: every variable holds what the code can put in it. *)
TypeOK ==
    /\ file \in Content \union {None}
    /\ lock \in Process \union {None}
    /\ staged \in [Task -> Content \union {None}]
    /\ dead \subseteq Process
    /\ task \in [Task -> Tasks]

(***************************************************************************)
(* The lock file is what makes read-compare-write one step: of all live    *)
(* tasks at most one is inside the critical section of Publish or Retract, *)
(* the lock file names its process, and the comparison it made still holds *)
(* when it writes.  It survives crashes because only a dead process's lock *)
(* is taken over.                                                          *)
(***************************************************************************)
CriticalSection ==
    /\ \A t \in Task : task[t].at # "idle" => ProcessOf[t] \notin dead
    /\ \A t \in Task : Locked(t) => lock = ProcessOf[t]
    /\ \A t, u \in Task : Locked(t) /\ Locked(u) => t = u
    /\ \A t \in Task :
         /\ task[t].at \in {"stage", "rename"} =>
              task[t].op.when = VersionOf(file)
         /\ task[t].at = "rename" => staged[t] = task[t].op.content
         /\ task[t].at = "remove" => task[t].op.when = VersionOf(file)

(***************************************************************************)
(* The file system provider implements the abstract register: a call is    *)
(* pending until the step that decides it, and the file is the register.   *)
(* Publish and Resolve are linearizable although they are made of a lock   *)
(* file, a read, a staged write and a rename, and a retract removes the    *)
(* named version or nothing; that its ok may leave the file is the         *)
(* register's Overlook, which only the failed exists() needs.              *)
(***************************************************************************)
AbstractCall(t) ==
    IF task[t].at = "idle" THEN [state |-> "idle"]
    ELSE IF task[t].at \in {"unlock", "done"}
         THEN [state |-> "done", reply |-> task[t].reply]
         ELSE [state |-> "pending", op |-> task[t].op]

Register == INSTANCE CasRegister
    WITH Client <- Task, memory <- file,
         call <- [t \in Task |-> AbstractCall(t)]

ImplementsRegister == Register!Spec
=============================================================================
