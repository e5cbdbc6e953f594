----------------------------- MODULE MemoryCell -----------------------------
(***************************************************************************)
(* dialog-repository's Cell<T>: a handle to one memory cell that caches    *)
(* the last edition it saw behind an Arc<RwLock>.  Clones of a handle      *)
(* share the cache, independently opened handles do not.  Tasks use the    *)
(* handles concurrently; a task can be suspended wherever it awaits the    *)
(* provider, so a cache can move between the moment a task reads it and    *)
(* the moment the provider executes the effect.                            *)
(*                                                                         *)
(* The provider is the register of CasRegister: each effect takes place at *)
(* one instant.  A content is the set of updates it incorporates, so that  *)
(* a read-modify-write adds one update to the content it read and an       *)
(* overwritten update is visible as a missing element.                     *)
(***************************************************************************)
EXTENDS MemoryEffect

CONSTANTS Handle,      \* handles with a cache of their own
          Task,        \* concurrent users of the handles
          HandleOf,    \* the handle each task uses
          Operations,  \* the operations each task performs
          Preemptive   \* the tasks another thread may interrupt between two
                       \*   reads of the cache; the others share a thread
                       \*   and yield only at an await

ASSUME HandleAssumption == HandleOf \in [Task -> Handle]
ASSUME OperationsAssumption ==
    Operations \in [Task -> SUBSET {"resolve", "update", "publish", "snapshot"}]
ASSUME PreemptiveAssumption == Preemptive \subseteq Task

\* A task stands for the update it makes; a content is a set of updates.
Content  == SUBSET Task
Versions == [blake3 : Content]
Editions == [content : Content, version : Versions]

ASSUME NoneAssumption ==
    /\ \A content \in Content : content # None
    /\ \A version \in Versions : version # None
    /\ \A edition \in Editions : edition # None

VARIABLES store,       \* the content the provider holds for the cell
          cache,       \* the shared cache of each handle: an edition or None
          snapshot,    \* the persisted copy of an edition: see Reset
          task,        \* where each task is in its operation
          confirmed    \* history: the updates whose publish was answered with
                       \*   Ok and that no later writer knowingly left out

vars == <<store, cache, snapshot, task, confirmed>>

Idle                   == [at |-> "idle"]
Apply(edition)         == [at |-> "apply", edition |-> edition]
Checkpointed(expected) == [at |-> "checkpointed", expected |-> expected]
Publishing(expected, base, content) ==
    [at |-> "publish", expected |-> expected, base |-> base, content |-> content]

Tasks ==
    {Idle}
      \union [at : {"apply"}, edition : Editions \union {None}]
      \union [at : {"checkpointed"}, expected : Versions \union {None}]
      \union [at : {"publish"}, expected : Versions \union {None},
              base : Content \union {None}, content : Content]

Goto(t, state) == task' = [task EXCEPT ![t] = state]

\* Cache::content and Cache::version of the handle of a task.
CachedContent(t) ==
    LET e == cache[HandleOf[t]] IN IF e = None THEN None ELSE e.content
CachedVersion(t) ==
    LET e == cache[HandleOf[t]] IN IF e = None THEN None ELSE e.version

\* The read-modify-write of a caller: its update on top of what it read.
WithUpdate(base, t) == (IF base = None THEN {} ELSE base) \union {t}

Init ==
    /\ store = None
    /\ cache = [h \in Handle |-> None]
    /\ snapshot = None
    /\ task = [t \in Task |-> Idle]
    /\ confirmed = {}

(***************************************************************************)
(* Resolve::perform: the provider answers, and the answer is applied to    *)
(* the cache when the task runs again.  Other tasks of the same handle may *)
(* have moved the cache in between.                                        *)
(***************************************************************************)
ResolveRead(t) ==
    /\ "resolve" \in Operations[t]
    /\ task[t] = Idle
    /\ Goto(t, Apply(EditionOf(store)))
    /\ UNCHANGED <<store, cache, snapshot, confirmed>>

\* Mutant of CacheApply: a cached version outlives the content it belongs to.
CacheApplyContent(t) ==
    /\ task[t].at = "apply"
    /\ cache' = [cache EXCEPT ![HandleOf[t]] =
                   IF @ = None \/ task[t].edition = None THEN task[t].edition
                   ELSE [@ EXCEPT !.content = task[t].edition.content]]
    /\ Goto(t, Idle)
    /\ UNCHANGED <<store, snapshot, confirmed>>

CacheApply(t) ==
    /\ task[t].at = "apply"
    /\ cache' = [cache EXCEPT ![HandleOf[t]] = task[t].edition]
    /\ Goto(t, Idle)
    /\ UNCHANGED <<store, snapshot, confirmed>>

(***************************************************************************)
(* Cell::checkpoint, then Cell::content: the two reads of the cache with   *)
(* which Branch::commit and Branch::pull begin.  There is no await between *)
(* them, so they are one step on a single thread and two steps when        *)
(* threads run in parallel.                                                *)
(***************************************************************************)
Checkpoint(t) ==
    /\ "update" \in Operations[t]
    /\ task[t] = Idle
    /\ t \notin confirmed
    /\ Goto(t, IF t \in Preemptive
               THEN Checkpointed(CachedVersion(t))
               ELSE Publishing(CachedVersion(t), CachedContent(t),
                               WithUpdate(CachedContent(t), t)))
    /\ UNCHANGED <<store, cache, snapshot, confirmed>>

ReadBase(t) ==
    /\ task[t].at = "checkpointed"
    /\ Goto(t, Publishing(task[t].expected, CachedContent(t),
                          WithUpdate(CachedContent(t), t)))
    /\ UNCHANGED <<store, cache, snapshot, confirmed>>

\* Publish::perform without a checkpoint: the precondition is read live.
PublishLive(t) ==
    /\ "publish" \in Operations[t]
    /\ task[t] = Idle
    /\ \E content \in Content :
         Goto(t, Publishing(CachedVersion(t), CachedContent(t), content))
    /\ UNCHANGED <<store, cache, snapshot, confirmed>>

\* A successful publish confirms the update of its author, and knowingly drops
\* what a live publish had read and left out.
ConfirmedBy(t) ==
    (confirmed \ ((IF task[t].base = None THEN {} ELSE task[t].base) \ task[t].content))
      \union (task[t].content \intersect {t})

\* Mutant of PublishSwap: the checkpoint is ignored, the precondition is the
\* version the handle has cached by the time the provider is called.
PublishSwapLive(t) ==
    /\ task[t].at = "publish"
    /\ store' = AfterPublish(store, task[t].content, CachedVersion(t))
    /\ \/ /\ PublishAccepted(store, task[t].content, CachedVersion(t))
          /\ Goto(t, Apply(EditionOf(task[t].content)))
          /\ confirmed' = ConfirmedBy(t)
       \/ /\ ~PublishAccepted(store, task[t].content, CachedVersion(t))
          /\ Goto(t, Idle)
          /\ UNCHANGED confirmed
    /\ UNCHANGED <<cache, snapshot>>

(***************************************************************************)
(* The provider executes the publish.  On success the cache is updated     *)
(* when the task runs again, on a mismatch it is left alone and the caller *)
(* gets the error.                                                         *)
(***************************************************************************)
PublishSwap(t) ==
    /\ task[t].at = "publish"
    /\ store' = AfterPublish(store, task[t].content, task[t].expected)
    /\ \/ /\ PublishAccepted(store, task[t].content, task[t].expected)
          /\ Goto(t, Apply(EditionOf(task[t].content)))
          /\ confirmed' = ConfirmedBy(t)
       \/ /\ ~PublishAccepted(store, task[t].content, task[t].expected)
          /\ Goto(t, Idle)
          /\ UNCHANGED confirmed
    /\ UNCHANGED <<cache, snapshot>>

(***************************************************************************)
(* RemoteBranch keeps a persisted snapshot of the edition its in-memory    *)
(* cell last saw (fetch, publish) and primes a new handle from it with     *)
(* Cell::reset (open), without asking the provider.                        *)
(***************************************************************************)
SnapshotSave(t) ==
    /\ "snapshot" \in Operations[t]
    /\ task[t] = Idle
    /\ cache[HandleOf[t]] # None
    /\ snapshot' = cache[HandleOf[t]]
    /\ UNCHANGED <<store, cache, task, confirmed>>

Reset(t) ==
    /\ "snapshot" \in Operations[t]
    /\ task[t] = Idle
    /\ snapshot # None
    /\ cache' = [cache EXCEPT ![HandleOf[t]] = snapshot]
    /\ UNCHANGED <<store, snapshot, task, confirmed>>

Next == \E t \in Task :
    \/ ResolveRead(t) \/ CacheApply(t)
    \/ Checkpoint(t) \/ ReadBase(t) \/ PublishLive(t) \/ PublishSwap(t)
    \/ SnapshotSave(t) \/ Reset(t)

Spec == Init /\ [][Next]_vars

-----------------------------------------------------------------------------
(* Type invariant. *)
TypeOK ==
    /\ store \in Content \union {None}
    /\ cache \in [Handle -> Editions \union {None}]
    /\ snapshot \in Editions \union {None}
    /\ task \in [Task -> Tasks]
    /\ confirmed \subseteq Task

(***************************************************************************)
(* No lost update: once the publish of an update has been answered with    *)
(* Ok, the cell keeps that update until somebody who has read it publishes *)
(* a content without it, no matter which handles and tasks write the cell, *)
(* how stale their caches are and which snapshot they were primed from.    *)
(* Writers through checkpoints, as Branch::commit and Branch::pull are for *)
(* the head of a branch, never leave out what they read.                   *)
(***************************************************************************)
ConfirmedSurvive ==
    confirmed \subseteq (IF store = None THEN {} ELSE store)

(***************************************************************************)
(* Every write replaces the content its author had read: the base of a     *)
(* checkpointed update, the cached content at the time of a live publish.  *)
(* This is what the version precondition is for, and it must hold although *)
(* versions are content hashes, so that a cell which returned to an old    *)
(* content also returns to its old version.                                *)
(***************************************************************************)
WritesReplaceWhatWasRead ==
    [][\A t \in Task :
         PublishSwap(t) /\ store' # store => store = task[t].base]_vars

(***************************************************************************)
(* When the two reads of a read-modify-write cannot be torn: a task that   *)
(* may be interrupted between them shares its handle with no other.        *)
(***************************************************************************)
Untorn == \A t \in Preemptive, u \in Task : HandleOf[t] = HandleOf[u] => t = u

(***************************************************************************)
(* The strengthening that makes both inductive when Untorn: caches and     *)
(* snapshots pair a content with its own version, a checkpoint holds the   *)
(* version that is still cached when the base is read, and a publish in    *)
(* flight expects the version of the content it was computed from.         *)
(***************************************************************************)
Coherent(edition) == edition # None => edition = EditionOf(edition.content)

InFlightCoherent ==
    /\ \A h \in Handle : Coherent(cache[h])
    /\ Coherent(snapshot)
    /\ \A t \in Task :
         /\ task[t].at = "apply" => Coherent(task[t].edition)
         /\ task[t].at = "checkpointed" =>
              t \in Preemptive /\ task[t].expected = CachedVersion(t)
         /\ task[t].at = "publish" =>
              task[t].expected = VersionOf(task[t].base)
=============================================================================
