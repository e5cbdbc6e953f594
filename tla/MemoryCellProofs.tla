-------------------------- MODULE MemoryCellProofs --------------------------
(***************************************************************************)
(* The cached cell, for any number of tasks and handles: its state is well *)
(* typed, and when a read-modify-write cannot be torn (Untorn) its writes  *)
(* replace what was read and no confirmed update is lost.                  *)
(***************************************************************************)
EXTENDS MemoryCell, TLAPS

OptContent == Content \union {None}
OptVersion == Versions \union {None}
OptEdition == Editions \union {None}

\* What a task carries at each step.
LEMMA TaskShape ==
    ASSUME TypeOK, NEW t \in Task
    PROVE  /\ task[t].at = "apply" => task[t].edition \in OptEdition
           /\ task[t].at = "checkpointed" => task[t].expected \in OptVersion
           /\ task[t].at = "publish" => /\ task[t].expected \in OptVersion
                                       /\ task[t].base \in OptContent
                                       /\ task[t].content \in Content
  BY DEF TypeOK, Tasks, Idle, OptContent, OptVersion, OptEdition

\* The states a task is sent to are states of a task.
LEMMA StatesTyped ==
    /\ Idle \in Tasks
    /\ \A edition \in OptEdition : Apply(edition) \in Tasks
    /\ \A expected \in OptVersion : Checkpointed(expected) \in Tasks
    /\ \A expected \in OptVersion, base \in OptContent, content \in Content :
         Publishing(expected, base, content) \in Tasks
  BY DEF Tasks, Idle, Apply, Checkpointed, Publishing, OptContent, OptVersion, OptEdition

\* The fields of constructed states.
LEMMA StateAt ==
    /\ Idle.at = "idle"
    /\ \A e : Apply(e).at = "apply" /\ Apply(e).edition = e
    /\ \A v : Checkpointed(v).at = "checkpointed" /\ Checkpointed(v).expected = v
    /\ \A v, b, c : LET p == Publishing(v, b, c) IN
         p.at = "publish" /\ p.expected = v /\ p.base = b /\ p.content = c
  BY DEF Idle, Apply, Checkpointed, Publishing

\* Moving one task keeps the types, and leaves every other task where it is.
LEMMA GotoTyped ==
    ASSUME TypeOK, NEW t \in Task, NEW state \in Tasks, Goto(t, state)
    PROVE  task' \in [Task -> Tasks]
  BY DEF TypeOK, Goto

\* The task that moves is in the given state; the others do not move.
LEMMA GotoOne ==
    ASSUME TypeOK, NEW t \in Task, NEW state, Goto(t, state)
    PROVE  /\ task'[t] = state
           /\ \A u \in Task : u # t => task'[u] = task[u]
  BY DEF TypeOK, Goto

\* What the provider answers, and what the cache of a handle yields.
LEMMA EditionTyped ==
    ASSUME NEW current \in OptContent
    PROVE  EditionOf(current) \in OptEdition
  BY DEF EditionOf, Version, Editions, Versions, OptContent, OptEdition

\* Both accessors of the cache are total on typed states.
LEMMA CachedTyped ==
    ASSUME TypeOK, NEW t \in Task
    PROVE  CachedContent(t) \in OptContent /\ CachedVersion(t) \in OptVersion
  BY HandleAssumption
     DEF TypeOK, CachedContent, CachedVersion, Editions, OptContent, OptVersion

\* Adding an update to what a cell holds gives a content again.
LEMMA UpdateTyped ==
    ASSUME NEW base \in OptContent, NEW t \in Task
    PROVE  WithUpdate(base, t) \in Content
  BY DEF WithUpdate, Content, OptContent

\* One step keeps the types.
LEMMA TypeStep == TypeOK /\ [Next]_vars => TypeOK'
<1>0. SUFFICES ASSUME TypeOK, [Next]_vars PROVE TypeOK'
  OBVIOUS
<1>1. ASSUME NEW t \in Task, ResolveRead(t) PROVE TypeOK'
  <2>1. EditionOf(store) \in OptEdition
    BY <1>0, EditionTyped DEF TypeOK, OptContent
  <2> QED
    BY <1>0, <1>1, <2>1, StatesTyped, GotoTyped DEF ResolveRead, TypeOK
<1>2. ASSUME NEW t \in Task, CacheApply(t) PROVE TypeOK'
  BY <1>0, <1>2, TaskShape, StatesTyped, GotoTyped DEF CacheApply, TypeOK, OptEdition
<1>3. ASSUME NEW t \in Task, Checkpoint(t) PROVE TypeOK'
  <2>1. /\ Checkpointed(CachedVersion(t)) \in Tasks
        /\ Publishing(CachedVersion(t), CachedContent(t),
                      WithUpdate(CachedContent(t), t)) \in Tasks
    BY <1>0, CachedTyped, UpdateTyped, StatesTyped
  <2> QED
    BY <1>0, <1>3, <2>1, GotoTyped DEF Checkpoint, TypeOK
<1>4. ASSUME NEW t \in Task, ReadBase(t) PROVE TypeOK'
  <2>1. Publishing(task[t].expected, CachedContent(t),
                   WithUpdate(CachedContent(t), t)) \in Tasks
    BY <1>0, <1>4, TaskShape, CachedTyped, UpdateTyped, StatesTyped DEF ReadBase
  <2> QED
    BY <1>0, <1>4, <2>1, GotoTyped DEF ReadBase, TypeOK
<1>5. ASSUME NEW t \in Task, PublishLive(t) PROVE TypeOK'
  <2>1. \A content \in Content :
          Publishing(CachedVersion(t), CachedContent(t), content) \in Tasks
    BY <1>0, CachedTyped, StatesTyped
  <2> QED
    BY <1>0, <1>5, <2>1, GotoTyped DEF PublishLive, TypeOK
<1>6. ASSUME NEW t \in Task, PublishSwap(t) PROVE TypeOK'
  <2>1. task[t].content \in Content
    BY <1>0, <1>6, TaskShape DEF PublishSwap
  <2>2. store' \in OptContent
    BY <1>0, <1>6, <2>1 DEF PublishSwap, AfterPublish, TypeOK, OptContent
  <2>3. Apply(EditionOf(task[t].content)) \in Tasks
    BY <2>1, EditionTyped, StatesTyped DEF OptContent
  <2>4. confirmed' \subseteq Task
    BY <1>0, <1>6 DEF PublishSwap, TypeOK, ConfirmedBy
  <2> QED
    BY <1>0, <1>6, <2>2, <2>3, <2>4, StatesTyped, GotoTyped
       DEF PublishSwap, TypeOK, OptContent
<1>7. ASSUME NEW t \in Task, SnapshotSave(t) PROVE TypeOK'
  BY <1>0, <1>7, HandleAssumption DEF SnapshotSave, TypeOK
<1>8. ASSUME NEW t \in Task, Reset(t) PROVE TypeOK'
  BY <1>0, <1>8, HandleAssumption DEF Reset, TypeOK
<1>9. CASE UNCHANGED vars
  BY <1>0, <1>9 DEF vars, TypeOK
<1> QED
  BY <1>0, <1>1, <1>2, <1>3, <1>4, <1>5, <1>6, <1>7, <1>8, <1>9 DEF Next

(***************************************************************************)
(* Cells, caches, snapshots and operations in flight keep their types,     *)
(* whatever the tasks do.                                                  *)
(***************************************************************************)
THEOREM TypeCorrect == Spec => []TypeOK
<1>1. Init => TypeOK
  BY StatesTyped DEF Init, TypeOK
<1> QED
  BY <1>1, TypeStep, PTL DEF Spec

-----------------------------------------------------------------------------
(***************************************************************************)
(* The inductive invariant.                                                *)
(***************************************************************************)
Inv == TypeOK /\ InFlightCoherent

\* Versions identify contents: hashing is injective, and never None.
LEMMA VersionIdentifies ==
    ASSUME NEW x \in OptContent, NEW y \in OptContent, VersionOf(x) = VersionOf(y)
    PROVE  x = y
<1>1. \A c \in Content : Version(c) \in Versions /\ Version(c) # None
  BY NoneAssumption DEF Version, Versions
<1>2. \A c, d \in Content : Version(c) = Version(d) => c = d
  BY DEF Version
<1> QED
  BY <1>1, <1>2, NoneAssumption DEF VersionOf, OptContent

\* What the provider answers is coherent, and a coherent cache yields the
\* version of the content it yields.
LEMMA EditionCoherent ==
    ASSUME NEW current \in OptContent
    PROVE  Coherent(EditionOf(current))
<1>1. CASE current = None
  BY <1>1 DEF Coherent, EditionOf
<1>2. CASE current # None
  BY <1>2 DEF Coherent, EditionOf
<1> QED
  BY <1>1, <1>2

\* The version a coherent cache yields is the version of the content it yields.
LEMMA CachedCoherent ==
    ASSUME TypeOK, NEW t \in Task, Coherent(cache[HandleOf[t]])
    PROVE  CachedVersion(t) = VersionOf(CachedContent(t))
<1>1. cache[HandleOf[t]] \in OptEdition
  BY HandleAssumption DEF TypeOK, OptEdition
<1>2. CASE cache[HandleOf[t]] = None
  BY <1>2 DEF CachedVersion, CachedContent, VersionOf
<1>3. CASE cache[HandleOf[t]] # None
  <2>1. cache[HandleOf[t]].content \in Content
    BY <1>1, <1>3 DEF OptEdition, Editions
  <2>2. cache[HandleOf[t]].content # None
    BY <2>1, NoneAssumption
  <2>3. cache[HandleOf[t]].version = Version(cache[HandleOf[t]].content)
    BY <1>3, <2>2 DEF Coherent, EditionOf
  <2> QED
    BY <1>3, <2>2, <2>3 DEF CachedVersion, CachedContent, VersionOf
<1> QED
  BY <1>2, <1>3

\* A task's cached version moves only with its own handle's cache.
LEMMA CacheKept ==
    ASSUME NEW t \in Task, cache'[HandleOf[t]] = cache[HandleOf[t]]
    PROVE  CachedVersion(t)' = CachedVersion(t)
  BY DEF CachedVersion

\* When a read cannot be torn, a cache that some task writes is not the one
\* another task is between two reads of.
LEMMA CacheMovesAlone ==
    ASSUME Untorn, TypeOK, InFlightCoherent, NEW t \in Task, NEW edition,
           task[t].at # "checkpointed",
           cache' = [cache EXCEPT ![HandleOf[t]] = edition]
    PROVE  \A u \in Task : task[u].at = "checkpointed" =>
             u # t /\ CachedVersion(u)' = CachedVersion(u)
<1> SUFFICES ASSUME NEW u \in Task, task[u].at = "checkpointed"
             PROVE  u # t /\ CachedVersion(u)' = CachedVersion(u)
  OBVIOUS
<1>1. u \in Preemptive
  BY DEF InFlightCoherent
<1>2. u # t /\ HandleOf[u] # HandleOf[t]
  BY <1>1 DEF Untorn
<1>3. cache'[HandleOf[u]] = cache[HandleOf[u]]
  BY <1>2, HandleAssumption DEF TypeOK
<1> QED
  BY <1>2, <1>3, CacheKept

\* One step keeps the caches and the operations in flight coherent.
LEMMA CoherentStep == Untorn /\ Inv /\ [Next]_vars => InFlightCoherent'
<1>0. SUFFICES ASSUME Untorn, TypeOK, InFlightCoherent, [Next]_vars
               PROVE  InFlightCoherent'
  BY DEF Inv
<1> USE DEF InFlightCoherent
<1>1. ASSUME NEW t \in Task, ResolveRead(t) PROVE InFlightCoherent'
  <2>1. Coherent(EditionOf(store))
    BY <1>0, EditionCoherent DEF TypeOK, OptContent
  <2> QED
    BY <1>0, <1>1, <2>1, GotoOne, StateAt DEF ResolveRead, Coherent, CachedVersion
<1>2. ASSUME NEW t \in Task, CacheApply(t) PROVE InFlightCoherent'
  <2>1. \A u \in Task : task[u].at = "checkpointed" =>
          u # t /\ CachedVersion(u)' = CachedVersion(u)
    BY <1>0, <1>2, CacheMovesAlone DEF CacheApply
  <2>2. \A h \in Handle : Coherent(cache'[h])
    BY <1>0, <1>2 DEF CacheApply, TypeOK
  <2> QED
    BY <1>0, <1>2, <2>1, <2>2, GotoOne, StateAt DEF CacheApply, Coherent
<1>3. ASSUME NEW t \in Task, Checkpoint(t) PROVE InFlightCoherent'
  <2>1. CachedVersion(t) = VersionOf(CachedContent(t))
    BY <1>0, CachedCoherent, HandleAssumption
  <2> QED
    BY <1>0, <1>3, <2>1, GotoOne, StateAt DEF Checkpoint, Coherent, CachedVersion
<1>4. ASSUME NEW t \in Task, ReadBase(t) PROVE InFlightCoherent'
  <2>1. task[t].expected = VersionOf(CachedContent(t))
    BY <1>0, <1>4, CachedCoherent, HandleAssumption DEF ReadBase
  <2> QED
    BY <1>0, <1>4, <2>1, GotoOne, StateAt DEF ReadBase, Coherent, CachedVersion
<1>5. ASSUME NEW t \in Task, PublishLive(t) PROVE InFlightCoherent'
  <2>1. CachedVersion(t) = VersionOf(CachedContent(t))
    BY <1>0, CachedCoherent, HandleAssumption
  <2> QED
    BY <1>0, <1>5, <2>1, GotoOne, StateAt DEF PublishLive, Coherent, CachedVersion
<1>6. ASSUME NEW t \in Task, PublishSwap(t) PROVE InFlightCoherent'
  <2>1. Coherent(EditionOf(task[t].content))
    BY <1>0, <1>6, TaskShape, EditionCoherent DEF PublishSwap, OptContent
  <2> QED
    BY <1>0, <1>6, <2>1, GotoOne, StateAt DEF PublishSwap, Coherent, CachedVersion
<1>7. ASSUME NEW t \in Task, SnapshotSave(t) PROVE InFlightCoherent'
  BY <1>0, <1>7, HandleAssumption DEF SnapshotSave, Coherent, CachedVersion
<1>8. ASSUME NEW t \in Task, Reset(t) PROVE InFlightCoherent'
  <2>1. \A u \in Task : task[u].at = "checkpointed" =>
          u # t /\ CachedVersion(u)' = CachedVersion(u)
    BY <1>0, <1>8, StateAt, CacheMovesAlone DEF Reset
  <2>2. \A h \in Handle : Coherent(cache'[h])
    BY <1>0, <1>8 DEF Reset, TypeOK
  <2> QED
    BY <1>0, <1>8, <2>1, <2>2 DEF Reset, Coherent
<1>9. CASE UNCHANGED vars
  BY <1>0, <1>9 DEF vars, Coherent, CachedVersion
<1> QED
  BY <1>0, <1>1, <1>2, <1>3, <1>4, <1>5, <1>6, <1>7, <1>8, <1>9 DEF Next

(***************************************************************************)
(* Caches, snapshots and operations in flight stay coherent whenever the   *)
(* two reads of the cache cannot be torn apart.                            *)
(***************************************************************************)
THEOREM StaysCoherent == ASSUME Untorn PROVE Spec => []InFlightCoherent
<1>1. Init => Inv
  BY StatesTyped, StateAt DEF Init, Inv, TypeOK, InFlightCoherent, Coherent
<1>2. Inv /\ [Next]_vars => Inv'
  BY TypeStep, CoherentStep, Untorn DEF Inv
<1>3. Inv => InFlightCoherent
  BY DEF Inv
<1> QED
  BY <1>1, <1>2, <1>3, PTL DEF Spec

\* A publish that changes the cell replaces the content it was based on.
LEMMA SwapReplacesBase ==
    ASSUME Inv, NEW t \in Task, PublishSwap(t), store' # store
    PROVE  store = task[t].base
<1>1. /\ task[t].content \in Content
      /\ task[t].base \in OptContent
      /\ store \in OptContent
  BY TaskShape DEF Inv, PublishSwap, TypeOK, OptContent
<1>2. store' = task[t].content /\ PublishAccepted(store, task[t].content, task[t].expected)
  BY DEF PublishSwap, AfterPublish
<1>3. VersionOf(store) # Version(task[t].content)
  <2>1. VersionOf(task[t].content) = Version(task[t].content)
    BY <1>1, NoneAssumption DEF VersionOf
  <2> QED
    BY <1>1, <1>2, <2>1, VersionIdentifies DEF OptContent
<1>4. VersionOf(store) = VersionOf(task[t].base)
  BY <1>2, <1>3 DEF PublishAccepted, Inv, InFlightCoherent, PublishSwap
<1> QED
  BY <1>1, <1>4, VersionIdentifies

(***************************************************************************)
(* Every write of a cell replaces the content its author had read, for any *)
(* number of tasks and handles, stale caches and restored snapshots.       *)
(***************************************************************************)
THEOREM WritesAreBased == ASSUME Untorn PROVE Spec => WritesReplaceWhatWasRead
<1>1. Init => Inv
  BY StatesTyped, StateAt DEF Init, Inv, TypeOK, InFlightCoherent, Coherent
<1>2. Inv /\ [Next]_vars => Inv'
  BY TypeStep, CoherentStep, Untorn DEF Inv
<1>3. Inv => \A t \in Task : PublishSwap(t) /\ store' # store => store = task[t].base
  BY SwapReplacesBase
<1> QED
  BY <1>1, <1>2, <1>3, PTL DEF Spec, WritesReplaceWhatWasRead

(***************************************************************************)
(* No lost update: an update whose publish was answered with Ok stays in   *)
(* the cell until a writer that has read it leaves it out.                 *)
(***************************************************************************)
THEOREM NoLostUpdate ==
    ASSUME Untorn PROVE Spec => []ConfirmedSurvive
<1> DEFINE Stored == IF store = None THEN {} ELSE store
<1>1. Init => Inv /\ ConfirmedSurvive
  BY StatesTyped, StateAt
     DEF Init, Inv, TypeOK, InFlightCoherent, Coherent, ConfirmedSurvive
<1>2. Inv /\ [Next]_vars => Inv'
  BY TypeStep, CoherentStep, Untorn DEF Inv
<1>3. Inv /\ ConfirmedSurvive /\ [Next]_vars => ConfirmedSurvive'
  <2>0. SUFFICES ASSUME Inv, ConfirmedSurvive, [Next]_vars PROVE ConfirmedSurvive'
    OBVIOUS
  <2>1. ASSUME NEW t \in Task, PublishSwap(t) PROVE ConfirmedSurvive'
    <3>1. task[t].content \in Content /\ task[t].content # None
      BY <2>0, <2>1, TaskShape, NoneAssumption DEF Inv, PublishSwap
    <3>2. CASE PublishAccepted(store, task[t].content, task[t].expected)
      <4> DEFINE Base == IF task[t].base = None THEN {} ELSE task[t].base
      <4>1. store' = task[t].content
        BY <2>1, <3>2 DEF PublishSwap, AfterPublish
      <4>2. confirmed \subseteq task[t].content \/ confirmed \subseteq Base
        BY <2>0, <2>1, <3>1, <4>1, SwapReplacesBase DEF ConfirmedSurvive
      <4>3. confirmed' = (confirmed \ (Base \ task[t].content))
                           \union (task[t].content \intersect {t})
        BY <2>1, <3>2 DEF PublishSwap, ConfirmedBy
      <4>4. confirmed' \subseteq task[t].content
        BY <4>2, <4>3
      <4> QED
        BY <3>1, <4>1, <4>4 DEF ConfirmedSurvive
    <3>3. CASE ~PublishAccepted(store, task[t].content, task[t].expected)
      BY <2>0, <2>1, <3>3 DEF PublishSwap, AfterPublish, ConfirmedSurvive
    <3> QED
      BY <3>2, <3>3
  <2>2. ASSUME UNCHANGED <<store, confirmed>> PROVE ConfirmedSurvive'
    BY <2>0, <2>2 DEF ConfirmedSurvive
  <2> QED
    BY <2>0, <2>1, <2>2
       DEF Next, vars, ResolveRead, CacheApply, Checkpoint, ReadBase, PublishLive,
           SnapshotSave, Reset
<1> QED
  BY <1>1, <1>2, <1>3, PTL DEF Spec
=============================================================================
