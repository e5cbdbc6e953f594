-------------------------- MODULE BranchSyncProofs --------------------------
(***************************************************************************)
(* Proofs about branches and their synchronisation, for every topology of  *)
(* branches, remotes, handles and tasks and for every bound.               *)
(*                                                                         *)
(* Five inductive invariants: Typed (the type invariant with what a task   *)
(* is at), AllHeld (what a remote archive holds), AllReadable (what a      *)
(* branch reads through), Keeps (which trees contain which) and AllLocal   *)
(* (which nodes of two trees are in the local archive), each with one      *)
(* lemma per action or group of actions.                                   *)
(***************************************************************************)
EXTENDS BranchSync, TreeMergeProofs

Syncing == {"resolve", "record", "merge", "check",
            "pushHead", "pushSnapshot", "pushMarker"}
Pushing == {"check", "pushHead", "pushSnapshot", "pushMarker"}

\* What the steps a task went through tell of the operation it is in.
TaskOK(x) ==
    /\ x.at \in Pushing => x.op = "push"
    /\ x.at = "merge" => x.op = "pull"
    /\ x.at \in {"record", "merge"} => x.remote # None
    /\ x.at \in Syncing /\ x.op = "push" => x.revision # None
    /\ x.at \in {"resolve", "record", "pushSnapshot"} => x.upstream.site \in Remote

Typed == TypeOK /\ \A t \in Task : TaskOK(task[t])

-----------------------------------------------------------------------------
(* Records of tasks. *)

SyncTasks == [at : Syncing, op : {"pull", "push", "fetch"}, upstream : Upstreams,
              revision : OptRevision, snap : OptRevision, remote : OptRevision]

\* What a task that syncs carries.
LEMMA SyncFields ==
    ASSUME NEW x \in TaskType, x.at \in Syncing
    PROVE  /\ x \in SyncTasks
           /\ x.op \in {"pull", "push", "fetch"}
           /\ x.upstream \in Upstreams
           /\ x.upstream.site \in Site
           /\ x.upstream.tree \in Tree
           /\ x.revision \in OptRevision
           /\ x.snap \in OptRevision
           /\ x.remote \in OptRevision
  BY DEF TaskType, SyncTasks, Syncing, Idle, Upstreams

\* What a task that is about to publish a commit or a merge carries.
LEMMA CommitFields ==
    ASSUME NEW x \in TaskType, x.at = "commit"
    PROVE  /\ x \in [at : {"commit"}, expected : OptRevision, revision : Revisions]
           /\ x.expected \in OptRevision
           /\ x.revision \in Revisions
  BY DEF TaskType, Idle

\* What a task that is about to publish a pull carries.
LEMMA PullFields ==
    ASSUME NEW x \in TaskType, x.at \in {"pullHead", "pullMarker"}
    PROVE  /\ x \in [at : {"pullHead", "pullMarker"}, expected : OptRevision,
                     revision : Revisions, tree : Tree]
           /\ x.expected \in OptRevision
           /\ x.revision \in Revisions
           /\ x.tree \in Tree
  BY DEF TaskType, Idle

\* A task that syncs is a task.
LEMMA SyncTasksType == SyncTasks \subseteq TaskType
  BY DEF SyncTasks, TaskType, Syncing

\* A task moves on to another step of its sync.
LEMMA SyncMoves ==
    ASSUME NEW x \in TaskType, x.at \in Syncing, NEW step \in Syncing,
           NEW y, y = [x EXCEPT !.at = step]
    PROVE  /\ y \in TaskType
           /\ y.at = step /\ y.op = x.op /\ y.upstream = x.upstream
           /\ y.revision = x.revision /\ y.snap = x.snap /\ y.remote = x.remote
<1>1. /\ y \in SyncTasks
      /\ y.at = step /\ y.op = x.op /\ y.upstream = x.upstream
      /\ y.revision = x.revision /\ y.snap = x.snap /\ y.remote = x.remote
  BY SyncFields DEF SyncTasks
<1> QED BY <1>1, SyncTasksType

\* A sync begins.
LEMMA SyncBegins ==
    ASSUME NEW step \in Syncing, NEW op \in {"pull", "push", "fetch"},
           NEW upstream \in Upstreams, NEW revision \in OptRevision,
           NEW snap \in OptRevision, NEW remote \in OptRevision,
           NEW y, y = Contacting(step, op, upstream, revision, snap, remote)
    PROVE  /\ y \in TaskType
           /\ y.at = step /\ y.op = op /\ y.upstream = upstream
           /\ y.revision = revision /\ y.snap = snap /\ y.remote = remote
  BY DEF TaskType, Syncing, Contacting

\* The first publish of a pull succeeded.
LEMMA PullMoves ==
    ASSUME NEW x \in TaskType, x.at = "pullHead",
           NEW y, y = [x EXCEPT !.at = "pullMarker"]
    PROVE  /\ y \in TaskType
           /\ y.at = "pullMarker" /\ y.expected = x.expected
           /\ y.revision = x.revision /\ y.tree = x.tree
<1>1. /\ y \in [at : {"pullHead", "pullMarker"}, expected : OptRevision,
                revision : Revisions, tree : Tree]
      /\ y.at = "pullMarker" /\ y.expected = x.expected
      /\ y.revision = x.revision /\ y.tree = x.tree
  BY PullFields
<1> QED BY <1>1 DEF TaskType

\* An idle task has no obligations.
LEMMA IdleOK == Idle \in TaskType /\ Idle.at = "idle" /\ TaskOK(Idle)
  BY DEF Idle, TaskType, TaskOK, Pushing, Syncing

-----------------------------------------------------------------------------
(* Trees, revisions and blocks. *)

LEMMA EmptyTreeType == EmptyTree \in Tree
  BY DEF EmptyTree, Tree, Slot

\* The tree of a revision, or of none, is a tree.
LEMMA TreeOfType ==
    ASSUME NEW r \in OptRevision
    PROVE  TreeOf(r) \in Tree
  BY EmptyTreeType DEF TreeOf, OptRevision, Revisions

\* An edit of a tree gives a tree.
LEMMA ApplyType ==
    ASSUME NEW tree \in Tree, NEW i \in Instruction
    PROVE  Apply(tree, i) \in Tree
<1>1. i.key \in Key /\ i.apply \in {"assert", "retract", "replace"}
  BY InstructionAssumption
<1>2. Added \in Slot /\ Removed \in Slot /\ None \in Slot
  BY InstructionAssumption DEF Slot
<1>3. CASE i.apply = "assert"
  <2>1. Apply(tree, i) = [tree EXCEPT ![i.key] = Added]
    BY <1>3 DEF Apply
  <2> QED BY <1>1, <1>2, <2>1 DEF Tree
<1>4. CASE i.apply = "retract"
  <2>1. Apply(tree, i) = [tree EXCEPT ![i.key] = Removed]
    BY <1>4 DEF Apply
  <2> QED BY <1>1, <1>2, <2>1 DEF Tree
<1>5. CASE i.apply = "replace"
  <2>1. Apply(tree, i) = [k \in Key |-> IF k = i.key THEN Added
                              ELSE IF k \in Superseded(tree, i.key) THEN None
                              ELSE tree[k]]
    BY <1>5 DEF Apply
  <2> QED BY <1>1, <1>2, <2>1 DEF Tree
<1> QED BY <1>1, <1>3, <1>4, <1>5

\* The blocks of a tree, and the blocks the differential and the edits read.
LEMMA NodesType ==
    ASSUME NEW tree \in Tree, NEW keys, keys \subseteq Key
    PROVE  /\ RootNodes(tree) \subseteq NodeType
           /\ EntryNodes(tree, keys) \subseteq NodeType
           /\ Nodes(tree) \subseteq NodeType
<1>1. RootNodes(tree) \subseteq NodeType
  BY DEF RootNodes, RootNode, NodeType
<1>2. ASSUME NEW some, some \subseteq Key
      PROVE  EntryNodes(tree, some) \subseteq NodeType
  BY <1>2 DEF EntryNodes, EntryNode, NodeType, Tree
<1> QED BY <1>1, <1>2 DEF Nodes

\* What a difference, an edit and an upload read are nodes.
LEMMA ReadsType ==
    ASSUME NEW from \in Tree, NEW to \in Tree, NEW keys, keys \subseteq Key
    PROVE  /\ DiffReads(from, to) \subseteq NodeType
           /\ EditReads(from, keys) \subseteq NodeType
           /\ NovelNodes(from, to) \subseteq NodeType
<1>1. Changed(from, to) \subseteq Key
  BY DEF Changed
<1>2. DiffReads(from, to) \subseteq NodeType
  BY <1>1, NodesType DEF DiffReads
<1>3. EditReads(from, keys) \subseteq NodeType
  BY NodesType DEF EditReads
<1>4. NovelNodes(from, to) \subseteq NodeType
  BY NodesType DEF NovelNodes
<1> QED BY <1>2, <1>3, <1>4

\* The revisions of commits and merges.
LEMMA RevisionType ==
    ASSUME NEW base \in Revisions, NEW theirs \in Revisions, NEW tree \in Tree,
           NEW issuer \in Issuer
    PROVE  /\ NewRevision(tree, issuer) \in Revisions
           /\ MergeRevision(base, theirs, tree, issuer) \in Revisions
           /\ NewRevision(tree, issuer).tree = tree
           /\ MergeRevision(base, theirs, tree, issuer).tree = tree
  BY DEF NewRevision, MergeRevision, Revisions

\* A revision advances to a revision with the new tree.
LEMMA AdvanceType ==
    ASSUME NEW base \in Revisions, NEW tree \in Tree, NEW issuer \in Issuer,
           NEW r, r = Advance(base, tree, issuer)
    PROVE  r \in Revisions /\ r.tree = tree
  BY DEF Advance, Revisions

\* The places of a task.
LEMMA PlaceType ==
    ASSUME NEW t \in Task
    PROVE  /\ HandleT(t) \in Handle /\ BranchT(t) \in Branch /\ BranchT(t) \in Site
           /\ BranchT(t) \notin Remote
           /\ RepoT(t) \in Repo /\ IssuerOf[RepoT(t)] \in Issuer
           /\ BranchT(t) = BranchOf[HandleT(t)] /\ RepoT(t) = RepoOf[BranchT(t)]
  BY TopologyAssumption DEF HandleT, BranchT, RepoT, Site

\* An accepted publish found the expected content, or its own.
LEMMA SwapsMeans ==
    ASSUME NEW S, S = Revisions \/ S = Upstreams,
           NEW c \in S \union {None}, NEW x \in S, NEW e \in S \union {None},
           Swaps(c, x, e)
    PROVE  c = e \/ c = x
<1>1. ASSUME NEW v \in S
      PROVE  Version(v) # None
  <2>1. Version(v) \in [blake3 : Revisions \union Upstreams]
    BY DEF Version
  <2> QED BY <2>1, NoneAssumption
<1>2. ASSUME NEW v \in S, NEW w \in S, Version(v) = Version(w)
      PROVE  v = w
  <2>1. Version(v).blake3 = v /\ Version(w).blake3 = w
    BY DEF Version
  <2> QED BY <2>1, <1>2
<1>3. VersionOf(c) = Version(x) \/ VersionOf(e) = VersionOf(c)
  BY DEF Swaps, PublishAccepted
<1>4. None \notin S
  BY NoneAssumption
<1>5. CASE c = None
  BY <1>1, <1>3, <1>4, <1>5 DEF VersionOf
<1>6. CASE c # None
  BY <1>1, <1>2, <1>3, <1>4, <1>6 DEF VersionOf
<1> QED BY <1>5, <1>6

-----------------------------------------------------------------------------
(* Typed is inductive. *)

LEMMA GotoTyped ==
    ASSUME Typed, NEW t \in Task, NEW y \in TaskType, TaskOK(y), Goto(t, y)
    PROVE  /\ task' \in [Task -> TaskType]
           /\ \A u \in Task : TaskOK(task'[u])
<1>1. task' = [task EXCEPT ![t] = y] /\ task \in [Task -> TaskType]
  BY DEF Goto, Typed, TypeOK
<1>2. ASSUME NEW u \in Task
      PROVE  task'[u] = IF u = t THEN y ELSE task[u]
  BY <1>1
<1>3. ASSUME NEW u \in Task PROVE TaskOK(task'[u])
  <2>1. CASE u = t  BY <1>2, <2>1
  <2>2. CASE u # t  BY <1>2, <2>2 DEF Typed
  <2> QED BY <2>1, <2>2
<1> QED BY <1>1, <1>3

\* What Typed says of one task.
LEMMA TaskTyped ==
    ASSUME Typed, NEW t \in Task
    PROVE  task[t] \in TaskType /\ TaskOK(task[t])
  BY DEF Typed, TypeOK

\* Branch::refresh, the head.
LEMMA RefreshHeadTyped ==
    ASSUME Typed, NEW t \in Task, RefreshHead(t)
    PROVE  Typed'
<1>1. [at |-> "refresh"] \in TaskType /\ TaskOK([at |-> "refresh"])
  BY DEF TaskType, TaskOK, Pushing, Syncing
<1>2. Goto(t, [at |-> "refresh"])
  BY DEF RefreshHead
<1>3. /\ task' \in [Task -> TaskType]
      /\ \A u \in Task : TaskOK(task'[u])
  BY <1>1, <1>2, GotoTyped
<1>4. headCache' \in [Handle -> OptRevision]
  BY PlaceType DEF RefreshHead, Typed, TypeOK
<1> QED BY <1>3, <1>4 DEF RefreshHead, Typed, TypeOK, cells, bounds

\* Branch::refresh, the marker.
LEMMA RefreshMarkerTyped ==
    ASSUME Typed, NEW t \in Task, RefreshMarker(t)
    PROVE  Typed'
<1>1. /\ task' \in [Task -> TaskType]
      /\ \A u \in Task : TaskOK(task'[u])
  BY IdleOK, GotoTyped DEF RefreshMarker
<1>2. markerCache' \in [Handle -> OptUpstream] /\ closed' \subseteq Handle
  BY PlaceType DEF RefreshMarker, Typed, TypeOK
<1> QED BY <1>1, <1>2 DEF RefreshMarker, Typed, TypeOK, cells, bounds

\* Blocks that were read are kept, but for the lost ones; written ones are all kept.
LEMMA KeepBlocks ==
    ASSUME NEW r, NEW reads, NEW written, Keep(r, reads, written)
    PROVE  \E lost \in SUBSET reads :
             /\ archive' = [archive EXCEPT ![r] =
                              archive[r] \union ((reads \ lost) \union written)]
             /\ uncached' = [uncached EXCEPT ![r] = uncached[r] \union lost]
<1>1. PICK lost :
        /\ lost \in IF disruptions < MaxDisruptions THEN SUBSET (reads \ archive[r]) ELSE {{}}
        /\ archive' = [archive EXCEPT ![r] = @ \union (reads \ lost) \union written]
        /\ uncached' = [uncached EXCEPT ![r] = @ \union lost]
  BY DEF Keep
<1>2. lost \in SUBSET reads
  BY <1>1
<1>3. archive[r] \union (reads \ lost) \union written
        = archive[r] \union ((reads \ lost) \union written)
  OBVIOUS
<1> QED BY <1>1, <1>2, <1>3

\* Keeping blocks keeps the types.
LEMMA KeepTyped ==
    ASSUME Typed, NEW r \in Repo, NEW reads \in SUBSET NodeType,
           NEW written \in SUBSET NodeType, Keep(r, reads, written)
    PROVE  /\ archive' \in [Repo -> SUBSET NodeType]
           /\ uncached' \in [Repo -> SUBSET NodeType]
           /\ disruptions' \in 0 .. MaxDisruptions
<1>1. PICK lost \in SUBSET reads :
        /\ archive' = [archive EXCEPT ![r] =
                         archive[r] \union ((reads \ lost) \union written)]
        /\ uncached' = [uncached EXCEPT ![r] = uncached[r] \union lost]
  BY KeepBlocks
<1>2. archive' \in [Repo -> SUBSET NodeType] /\ uncached' \in [Repo -> SUBSET NodeType]
  BY <1>1 DEF Typed, TypeOK
<1>3. disruptions' \in 0 .. MaxDisruptions
  <2>1. PICK gone : /\ gone \in IF disruptions < MaxDisruptions
                              THEN SUBSET (reads \ archive[r]) ELSE {{}}
                    /\ disruptions' = IF gone = {} THEN disruptions ELSE disruptions + 1
    BY DEF Keep
  <2>2. \/ disruptions' = disruptions
        \/ disruptions < MaxDisruptions /\ disruptions' = disruptions + 1
    BY <2>1
  <2> QED BY <2>2, BoundAssumption DEF Typed, TypeOK
<1> QED BY <1>2, <1>3

\* What CommitPrepare does: it applies the instruction `i` to the tree of the
\* cached revision `base`, reading some blocks, and the task becomes `y`.
CommitStep(t, i, y, base, tree, reads) ==
    /\ i \in Instruction /\ y \in TaskType
    /\ task[t] = Idle
    /\ Goto(t, y) /\ TaskOK(y)
    /\ y.at = "commit" /\ y.expected = base
    /\ y.revision \in Revisions /\ y.revision.tree = tree
    /\ base = headCache[HandleT(t)]
    /\ tree = Apply(TreeOf(base), i)
    /\ base \in OptRevision /\ TreeOf(base) \in Tree /\ tree \in Tree
    /\ reads = EditReads(TreeOf(base), {i.key} \union Changed(TreeOf(base), tree))
    /\ reads \subseteq NodeType
    /\ reads \subseteq Reachable(RepoT(t), markerCache[HandleT(t)])
    /\ Keep(RepoT(t), reads, NovelNodes(TreeOf(base), tree))
    /\ UNCHANGED <<cells, caches>>

\* Commit prepares a revision to publish.
LEMMA CommitTask ==
    ASSUME Typed, NEW t \in Task, CommitPrepare(t)
    PROVE  \E i, y, base, tree, reads :
             CommitStep(t, i, y, base, tree, reads)
<1>1. PICK i \in Instruction :
        LET base     == headCache[HandleT(t)]
            tree     == Apply(TreeOf(base), i)
            reads    == EditReads(TreeOf(base), {i.key} \union Changed(TreeOf(base), tree))
            issuer   == IssuerOf[RepoT(t)]
            revision == IF base = None THEN NewRevision(tree, issuer)
                                       ELSE Advance(base, tree, issuer)
        IN  /\ reads \subseteq Reachable(RepoT(t), markerCache[HandleT(t)])
            /\ Keep(RepoT(t), reads, NovelNodes(TreeOf(base), tree))
            /\ Goto(t, [at |-> "commit", expected |-> base, revision |-> revision])
  BY DEF CommitPrepare
<1>2. PICK base : base = headCache[HandleT(t)]
  OBVIOUS
<1>3. base \in OptRevision
  BY <1>2, PlaceType DEF Typed, TypeOK
<1>4. PICK tree : tree = Apply(TreeOf(base), i)
  OBVIOUS
<1>5. TreeOf(base) \in Tree /\ tree \in Tree
  BY <1>3, <1>4, TreeOfType, ApplyType
<1>6. PICK reads : reads = EditReads(TreeOf(base), {i.key} \union Changed(TreeOf(base), tree))
  OBVIOUS
<1>7. reads \subseteq NodeType
  <2>1. {i.key} \union Changed(TreeOf(base), tree) \subseteq Key
    BY InstructionAssumption DEF Changed
  <2> QED BY <1>5, <1>6, <2>1, ReadsType
<1>8. PICK revision : revision = IF base = None THEN NewRevision(tree, IssuerOf[RepoT(t)])
                                 ELSE Advance(base, tree, IssuerOf[RepoT(t)])
  OBVIOUS
<1>9. revision \in Revisions /\ revision.tree = tree
  <2>1. CASE base = None
    BY <1>5, <1>8, <2>1, PlaceType DEF NewRevision, Revisions
  <2>2. CASE base # None
    <3>1. base \in Revisions /\ revision = Advance(base, tree, IssuerOf[RepoT(t)])
      BY <1>3, <1>8, <2>2 DEF OptRevision
    <3>2. IssuerOf[RepoT(t)] \in Issuer
      BY PlaceType
    <3> QED BY <1>5, <3>1, <3>2, AdvanceType
  <2> QED BY <2>1, <2>2
<1>10. /\ reads \subseteq Reachable(RepoT(t), markerCache[HandleT(t)])
       /\ Keep(RepoT(t), reads, NovelNodes(TreeOf(base), tree))
       /\ Goto(t, [at |-> "commit", expected |-> base, revision |-> revision])
  BY <1>1, <1>2, <1>4, <1>6, <1>8, Zenon
<1>11. PICK y : y = [at |-> "commit", expected |-> base, revision |-> revision]
  OBVIOUS
<1>12. y \in TaskType /\ TaskOK(y) /\ y.at = "commit" /\ y.expected = base
       /\ y.revision = revision
  BY <1>3, <1>9, <1>11 DEF TaskType, TaskOK, Pushing, Syncing
<1>13. task[t] = Idle /\ UNCHANGED <<cells, caches>>
  BY DEF CommitPrepare, Starts
<1>14. Goto(t, y)
  BY <1>10, <1>11
<1>15. CommitStep(t, i, y, base, tree, reads)
  BY <1>2, <1>3, <1>4, <1>5, <1>6, <1>7, <1>9, <1>10, <1>12, <1>13, <1>14, Zenon DEF CommitStep
<1> QED BY <1>12, <1>15

\* Commit up to its publish.
LEMMA CommitPrepareTyped ==
    ASSUME Typed, NEW t \in Task, CommitPrepare(t)
    PROVE  Typed'
<1>1. PICK i, y, base, tree, reads :
        CommitStep(t, i, y, base, tree, reads)
  BY CommitTask
<1>2. /\ task' \in [Task -> TaskType]
      /\ \A u \in Task : TaskOK(task'[u])
  BY <1>1, GotoTyped DEF CommitStep
<1>3. NovelNodes(TreeOf(base), tree) \subseteq NodeType
  BY <1>1, ReadsType DEF CommitStep
<1>4. /\ archive' \in [Repo -> SUBSET NodeType] /\ uncached' \in [Repo -> SUBSET NodeType]
      /\ disruptions' \in 0 .. MaxDisruptions
  <2> HIDE DEF NovelNodes
  <2> QED BY <1>1, <1>3, PlaceType, KeepTyped DEF CommitStep
<1>5. commits' \in 0 .. MaxCommits
  BY BoundAssumption DEF CommitPrepare, Typed, TypeOK
<1>6. interrupted' = interrupted
  BY DEF CommitPrepare
<1> QED BY <1>1, <1>2, <1>4, <1>5, <1>6 DEF CommitStep, Typed, TypeOK, cells, caches

\* The publish of a commit.
LEMMA CommitPublishTyped ==
    ASSUME Typed, NEW t \in Task, CommitPublish(t)
    PROVE  Typed'
<1>1. /\ task' \in [Task -> TaskType]
      /\ \A u \in Task : TaskOK(task'[u])
  BY IdleOK, GotoTyped DEF CommitPublish
<1>2. task[t].revision \in OptRevision
  BY TaskTyped, CommitFields DEF CommitPublish, OptRevision
<1>3. head' \in [Site -> OptRevision] /\ headCache' \in [Handle -> OptRevision]
  BY <1>2, PlaceType DEF CommitPublish, Typed, TypeOK
<1> QED BY <1>1, <1>3 DEF CommitPublish, Typed, TypeOK, bounds

(* What the steps of a sync make of the task, field by field. *)

LEMMA ContactTask ==
    ASSUME Typed, NEW t \in Task, NEW op \in {"pull", "push", "fetch"}, Contact(t, op)
    PROVE  \E y \in TaskType :
             /\ Goto(t, y) /\ TaskOK(y)
             /\ UNCHANGED <<cells, archive, caches, bounds>>
             /\ task[t] = Idle
             /\ HandleT(t) \notin closed
             /\ y.at \in Syncing
             /\ y.op = op
             /\ y.upstream = markerCache[HandleT(t)]
             /\ markerCache[HandleT(t)] # None
             /\ y.revision = IF op = "push" THEN headCache[HandleT(t)] ELSE None
             /\ \/ /\ y.upstream.site \in Branch
                   /\ y.at \in {"merge", "check"}
                   /\ y.snap = None /\ y.remote = head[y.upstream.site]
                \/ /\ y.upstream.site \in Remote
                   /\ y.at = "resolve"
                   /\ y.snap = snapshot[RepoT(t)][y.upstream.site] /\ y.remote = None
<1>1. PICK upstream : upstream = markerCache[HandleT(t)]
  OBVIOUS
<1>2. PICK revision : revision = IF op = "push" THEN headCache[HandleT(t)] ELSE None
  OBVIOUS
<1>3. upstream \in Upstreams /\ upstream # None
  BY <1>1, PlaceType DEF Contact, Typed, TypeOK, OptUpstream
<1>4. revision \in OptRevision /\ (op = "push" => revision # None)
  BY <1>2, PlaceType DEF Contact, Typed, TypeOK, OptRevision
<1>5. upstream.site \in Site
  BY <1>3 DEF Upstreams
<1>6. UNCHANGED <<cells, archive, caches, bounds>> /\ task[t] = Idle /\ HandleT(t) \notin closed
  BY DEF Contact, Starts
<1>7. \/ /\ upstream.site \in Branch
         /\ op \in {"pull", "push"}
         /\ op = "pull" => head[upstream.site] # None
         /\ Goto(t, Contacting(Contacted(op), op, upstream, revision,
                               None, head[upstream.site]))
      \/ /\ upstream.site \in Remote
         /\ Goto(t, Contacting("resolve", op, upstream, revision,
                               snapshot[RepoT(t)][upstream.site], None))
  BY <1>1, <1>2 DEF Contact
<1>8. CASE /\ upstream.site \in Branch
           /\ op \in {"pull", "push"}
           /\ op = "pull" => head[upstream.site] # None
           /\ Goto(t, Contacting(Contacted(op), op, upstream, revision,
                                 None, head[upstream.site]))
  <2>1. PICK step : step = Contacted(op)
    OBVIOUS
  <2>2. step = IF op = "pull" THEN "merge" ELSE "check"
    BY <1>8, <2>1 DEF Contacted
  <2>3. PICK remote : remote = head[upstream.site]
    OBVIOUS
  <2>4. remote \in OptRevision /\ None \in OptRevision
    BY <1>5, <2>3 DEF Typed, TypeOK, OptRevision
  <2>5. PICK y : y = Contacting(step, op, upstream, revision, None, remote)
    OBVIOUS
  <2>6. step \in Syncing
    BY <2>2 DEF Syncing
  <2>7. /\ y \in TaskType
        /\ y.at = step /\ y.op = op /\ y.upstream = upstream
        /\ y.revision = revision /\ y.snap = None /\ y.remote = remote
    BY <1>3, <1>4, <2>4, <2>5, <2>6, SyncBegins
  <2>8. TaskOK(y)
    BY <1>4, <1>8, <2>2, <2>3, <2>7 DEF TaskOK, Pushing, Syncing
  <2>9. Goto(t, y)
    BY <1>8, <2>1, <2>3, <2>5
  <2>10. y.at \in Syncing /\ y.at \in {"merge", "check"}
    BY <2>2, <2>6, <2>7
  <2> QED BY <1>1, <1>2, <1>3, <1>6, <1>8, <2>3, <2>7, <2>8, <2>9, <2>10
<1>9. CASE /\ upstream.site \in Remote
           /\ Goto(t, Contacting("resolve", op, upstream, revision,
                                 snapshot[RepoT(t)][upstream.site], None))
  <2>1. PICK snap : snap = snapshot[RepoT(t)][upstream.site]
    OBVIOUS
  <2>2. snap \in OptRevision /\ None \in OptRevision /\ "resolve" \in Syncing
    BY <1>9, <2>1, PlaceType DEF Typed, TypeOK, OptRevision, Syncing
  <2>3. PICK y : y = Contacting("resolve", op, upstream, revision, snap, None)
    OBVIOUS
  <2>4. /\ y \in TaskType
        /\ y.at = "resolve" /\ y.op = op /\ y.upstream = upstream
        /\ y.revision = revision /\ y.snap = snap /\ y.remote = None
    BY <1>3, <1>4, <2>2, <2>3, SyncBegins
  <2>5. TaskOK(y)
    BY <1>4, <1>9, <2>4 DEF TaskOK, Pushing, Syncing
  <2>6. Goto(t, y)
    BY <1>9, <2>1, <2>3
  <2> QED BY <1>1, <1>2, <1>3, <1>6, <1>9, <2>1, <2>2, <2>4, <2>5, <2>6
<1> QED BY <1>7, <1>8, <1>9

\* Fetch resolves the remote's head.
LEMMA ResolveTask ==
    ASSUME Typed, NEW t \in Task, FetchResolve(t)
    PROVE  LET x == task[t] IN
           \E y \in TaskType :
             /\ Goto(t, y) /\ TaskOK(y)
             /\ UNCHANGED <<cells, archive, caches, bounds>>
             /\ x.at = "resolve"
             /\ \/ y = Idle
                \/ /\ y.op = x.op /\ y.upstream = x.upstream
                   /\ y.revision = x.revision /\ y.snap = x.snap
                   /\ \/ /\ y.at = "record"
                         /\ y.remote = head[x.upstream.site]
                         /\ y.remote # None
                      \/ /\ y.at = "check"
                         /\ head[x.upstream.site] = None
                         /\ y.remote = x.remote
<1>1. PICK x : x = task[t]
  OBVIOUS
<1>2. x \in TaskType /\ TaskOK(x) /\ x.at = "resolve"
  BY <1>1, TaskTyped DEF FetchResolve
<1>3. x.at \in Syncing
  BY <1>2 DEF Syncing
<1>4. PICK remote : remote = head[x.upstream.site]
  OBVIOUS
<1>5. remote \in OptRevision
  BY <1>2, <1>3, <1>4, SyncFields DEF Typed, TypeOK
<1>6. Goto(t, IF remote # None
              THEN [x EXCEPT !.at = "record", !.remote = remote]
              ELSE IF x.op = "push" THEN [x EXCEPT !.at = "check"] ELSE Idle)
  BY <1>1, <1>4 DEF FetchResolve
<1>7. UNCHANGED <<cells, archive, caches, bounds>>
  BY DEF FetchResolve
<1>8. CASE remote # None
  <2>1. PICK y : y = [x EXCEPT !.at = "record", !.remote = remote]
    OBVIOUS
  <2>2. remote \in Revisions
    BY <1>5, <1>8 DEF OptRevision
  <2>3. /\ y \in SyncTasks
        /\ y.at = "record" /\ y.op = x.op /\ y.upstream = x.upstream
        /\ y.revision = x.revision /\ y.snap = x.snap /\ y.remote = remote
    BY <1>2, <1>3, <2>1, <2>2, SyncFields DEF SyncTasks, Syncing, OptRevision
  <2>7. y \in TaskType
    BY <2>3, SyncTasksType
  <2>4. TaskOK(y)
    BY <1>2, <1>8, <2>3 DEF TaskOK, Pushing, Syncing
  <2>5. Goto(t, y)
    BY <1>6, <1>8, <2>1
  <2> QED BY <1>1, <1>2, <1>4, <1>7, <1>8, <2>3, <2>4, <2>7, <2>5
<1>9. CASE remote = None /\ x.op = "push"
  <2>1. PICK y : y = [x EXCEPT !.at = "check"]
    OBVIOUS
  <2>2. "check" \in Syncing
    BY DEF Syncing
  <2>3. /\ y \in TaskType
        /\ y.at = "check" /\ y.op = x.op /\ y.upstream = x.upstream
        /\ y.revision = x.revision /\ y.snap = x.snap /\ y.remote = x.remote
    BY <1>2, <1>3, <2>1, <2>2, SyncMoves
  <2>4. TaskOK(y)
    BY <1>2, <1>3, <1>9, <2>3 DEF TaskOK, Pushing, Syncing
  <2>5. Goto(t, y)
    BY <1>6, <1>9, <2>1
  <2> QED BY <1>1, <1>2, <1>4, <1>7, <1>9, <2>3, <2>4, <2>5
<1>10. CASE remote = None /\ x.op # "push"
  <2>1. Goto(t, Idle)
    BY <1>6, <1>10
  <2> QED BY <1>1, <1>2, <1>7, <2>1, IdleOK
<1> QED BY <1>8, <1>9, <1>10

\* Fetch records the snapshot.
LEMMA RecordTask ==
    ASSUME Typed, NEW t \in Task, FetchRecord(t)
    PROVE  LET x == task[t] IN
           \E y \in TaskType, swap \in BOOLEAN :
             /\ Goto(t, y) /\ TaskOK(y)
             /\ UNCHANGED <<head, marker, archive, caches, bounds>>
             /\ x.at = "record"
             /\ snapshot' = [snapshot EXCEPT ![RepoT(t)] =
                              [snapshot[RepoT(t)] EXCEPT ![x.upstream.site] =
                                 IF swap THEN x.remote
                                 ELSE snapshot[RepoT(t)][x.upstream.site]]]
             /\ \/ y = Idle
                \/ /\ y.op = x.op /\ y.upstream = x.upstream
                   /\ y.revision = x.revision /\ y.remote = x.remote
                   /\ y.snap = x.remote
                   /\ y.at \in {"merge", "check"}
<1>1. PICK x : x = task[t]
  OBVIOUS
<1>2. x \in TaskType /\ TaskOK(x) /\ x.at = "record"
  BY <1>1, TaskTyped DEF FetchRecord
<1>3. x.at \in Syncing
  BY <1>2 DEF Syncing
<1>4. x.op \in {"pull", "push", "fetch"} /\ x.remote \in OptRevision /\ x.remote # None
  BY <1>2, <1>3, SyncFields DEF TaskOK
<1>5. PICK next : next = Contacted(x.op)
  OBVIOUS
<1>6. \/ x.op = "pull" /\ next = "merge"
      \/ x.op = "push" /\ next = "check"
      \/ x.op = "fetch" /\ next = "idle"
  BY <1>4, <1>5 DEF Contacted
<1>7. PICK swap : swap = Swaps(snapshot[RepoT(t)][x.upstream.site], x.remote, x.snap)
  OBVIOUS
<1>8. swap \in BOOLEAN
  BY <1>7 DEF Swaps, PublishAccepted
<1>9. /\ snapshot' = [snapshot EXCEPT ![RepoT(t)] =
                       [snapshot[RepoT(t)] EXCEPT ![x.upstream.site] =
                          IF swap THEN x.remote ELSE snapshot[RepoT(t)][x.upstream.site]]]
      /\ Goto(t, IF ~swap \/ next = "idle" THEN Idle
                 ELSE [x EXCEPT !.at = next, !.snap = x.remote])
  BY <1>1, <1>5, <1>7, Zenon DEF FetchRecord
<1>10. UNCHANGED <<head, marker, archive, caches, bounds>>
  BY DEF FetchRecord
<1>11. CASE ~swap \/ next = "idle"
  <2>1. Goto(t, Idle)
    BY <1>9, <1>11
  <2> QED BY <1>1, <1>2, <1>8, <1>9, <1>10, <2>1, IdleOK
<1>12. CASE swap /\ next # "idle"
  <2>1. PICK y : y = [x EXCEPT !.at = next, !.snap = x.remote]
    OBVIOUS
  <2>2. next \in Syncing /\ next \in {"merge", "check"}
    BY <1>6, <1>12 DEF Syncing
  <2>3. /\ y \in SyncTasks
        /\ y.at = next /\ y.op = x.op /\ y.upstream = x.upstream
        /\ y.revision = x.revision /\ y.snap = x.remote /\ y.remote = x.remote
    BY <1>2, <1>3, <1>4, <2>1, <2>2, SyncFields DEF SyncTasks
  <2>7. y \in TaskType
    BY <2>3, SyncTasksType
  <2>4. TaskOK(y)
    BY <1>2, <1>3, <1>4, <1>6, <1>12, <2>3 DEF TaskOK, Pushing, Syncing
  <2>5. Goto(t, y)
    BY <1>9, <1>12, <2>1
  <2>6. y.at \in {"merge", "check"}
    BY <2>2, <2>3
  <2> QED BY <1>1, <1>2, <1>8, <1>9, <1>10, <2>3, <2>4, <2>7, <2>5, <2>6
<1> QED BY <1>8, <1>11, <1>12

\* The base of a merge: the tree of the cached marker.
Base(h) == IF markerCache[h] = None THEN EmptyTree ELSE markerCache[h].tree

\* Pull merges, or takes the upstream's revision over.
LEMMA MergeTask ==
    ASSUME Typed, NEW t \in Task, PullMerge(t)
    PROVE  LET x     == task[t]
               base  == Base(HandleT(t))
               ours  == headCache[HandleT(t)]
               tree  == Merge(base, TreeOf(ours), x.remote.tree)
               reads == DiffReads(base, TreeOf(ours))
                          \union EditReads(x.remote.tree, Changed(base, TreeOf(ours)))
           IN
           /\ x.at = "merge"
           /\ UNCHANGED <<cells, caches, commits, interrupted>>
           /\ base \in Tree /\ tree \in Tree /\ x.remote \in Revisions
           /\ ours \in OptRevision /\ TreeOf(ours) \in Tree
           /\ \E y \in TaskType :
             /\ Goto(t, y) /\ TaskOK(y)
             /\ \/ y = Idle /\ UNCHANGED <<archive, disruptions, uncached>>
                \/ /\ y.at = "pullHead"
                   /\ y.expected = ours
                   /\ y.tree = x.remote.tree
                   /\ \/ y.revision = x.remote /\ (tree = x.remote.tree \/ ours = None)
                      \/ y.revision.tree = tree
                   /\ reads \subseteq Reachable(RepoT(t), x.upstream)
                   /\ Keep(RepoT(t), reads, NovelNodes(x.remote.tree, tree))
<1>1. PICK x : x = task[t]
  OBVIOUS
<1>2. x \in TaskType /\ TaskOK(x) /\ x.at = "merge"
  BY <1>1, TaskTyped DEF PullMerge
<1>3. x.at \in Syncing
  BY <1>2 DEF Syncing
<1>4. PICK theirs : theirs = x.remote
  OBVIOUS
<1>5. theirs \in Revisions /\ theirs.tree \in Tree
  <2>1. theirs \in Revisions
    BY <1>2, <1>3, <1>4, SyncFields DEF TaskOK, OptRevision
  <2> QED BY <2>1 DEF Revisions
<1>6. PICK base : base = Base(HandleT(t))
  OBVIOUS
<1>7. base \in Tree
  <2>1. markerCache[HandleT(t)] \in Upstreams \union {None}
    BY PlaceType DEF Typed, TypeOK, OptUpstream
  <2> QED BY <1>6, <2>1, EmptyTreeType DEF Base, Upstreams
<1>8. PICK ours : ours = headCache[HandleT(t)]
  OBVIOUS
<1>9. ours \in OptRevision /\ TreeOf(ours) \in Tree
  BY <1>8, PlaceType, TreeOfType DEF Typed, TypeOK
<1>10. PICK tree : tree = Merge(base, TreeOf(ours), theirs.tree)
  OBVIOUS
<1>11. tree \in Tree
  BY <1>5, <1>7, <1>9, <1>10, MergeType
<1>12. PICK reads : reads = DiffReads(base, TreeOf(ours))
                             \union EditReads(theirs.tree, Changed(base, TreeOf(ours)))
  OBVIOUS
<1>13. PICK revision :
         revision = IF tree = theirs.tree \/ ours = None THEN theirs
                    ELSE MergeRevision(ours, theirs, tree, IssuerOf[RepoT(t)])
  OBVIOUS
<1>14. /\ revision \in Revisions
       /\ \/ revision = theirs /\ (tree = theirs.tree \/ ours = None)
          \/ revision.tree = tree
  <2>1. CASE tree = theirs.tree \/ ours = None
    BY <1>5, <1>13, <2>1
  <2>2. CASE ~(tree = theirs.tree \/ ours = None)
    <3>1. ours \in Revisions
      BY <1>9, <2>2 DEF OptRevision
    <3> QED BY <1>5, <1>11, <1>13, <2>2, <3>1, PlaceType, RevisionType
  <2> QED BY <2>1, <2>2
<1>15. /\ UNCHANGED <<cells, caches, commits, interrupted>>
       /\ \/ /\ Goto(t, Idle)
             /\ UNCHANGED <<archive, disruptions, uncached>>
          \/ /\ reads \subseteq Reachable(RepoT(t), x.upstream)
             /\ Keep(RepoT(t), reads, NovelNodes(theirs.tree, tree))
             /\ Goto(t, [at |-> "pullHead", expected |-> ours,
                         revision |-> revision, tree |-> theirs.tree])
  BY <1>1, <1>4, <1>6, <1>8, <1>10, <1>12, <1>13, Zenon DEF PullMerge, Base
<1>16. CASE Goto(t, Idle) /\ UNCHANGED <<archive, disruptions, uncached>>
  BY <1>1, <1>2, <1>4, <1>5, <1>6, <1>7, <1>8, <1>9, <1>10, <1>11, <1>15, <1>16, IdleOK
<1>17. CASE /\ reads \subseteq Reachable(RepoT(t), x.upstream)
            /\ Keep(RepoT(t), reads, NovelNodes(theirs.tree, tree))
            /\ Goto(t, [at |-> "pullHead", expected |-> ours,
                        revision |-> revision, tree |-> theirs.tree])
  <2>1. PICK y : y = [at |-> "pullHead", expected |-> ours,
                      revision |-> revision, tree |-> theirs.tree]
    OBVIOUS
  <2>2. /\ y.at = "pullHead" /\ y.expected = ours /\ y.revision = revision
        /\ y.tree = theirs.tree
    BY <2>1
  <2>3. y \in TaskType
    BY <1>5, <1>9, <1>14, <2>1 DEF TaskType
  <2>4. TaskOK(y)
    BY <2>2 DEF TaskOK, Pushing, Syncing
  <2>5. Goto(t, y)
    BY <1>17, <2>1
  <2>6. \/ y.revision = theirs /\ (tree = theirs.tree \/ ours = None)
        \/ y.revision.tree = tree
    BY <1>14, <2>2
  <2> HIDE DEF NovelNodes
  <2> QED BY <1>1, <1>2, <1>4, <1>5, <1>6, <1>7, <1>8, <1>9, <1>10, <1>11, <1>12, <1>15,
             <1>17, <2>2, <2>3, <2>4, <2>5, <2>6
<1> QED BY <1>15, <1>16, <1>17

\* Pull publishes the head.
LEMMA PullHeadTask ==
    ASSUME Typed, NEW t \in Task, PullHead(t)
    PROVE  LET x == task[t] IN
           \E y \in TaskType :
             /\ Goto(t, y) /\ TaskOK(y)
             /\ UNCHANGED <<marker, snapshot, archive, markerCache, closed, bounds>>
             /\ x.at = "pullHead"
             /\ \/ y = Idle /\ UNCHANGED <<head, headCache>>
                \/ /\ Swaps(head[BranchT(t)], x.revision, x.expected)
                   /\ head' = [head EXCEPT ![BranchT(t)] = x.revision]
                   /\ headCache' = [headCache EXCEPT ![HandleT(t)] = x.revision]
                   /\ y.at = "pullMarker" /\ y.revision = x.revision /\ y.tree = x.tree
<1>1. PICK x : x = task[t]
  OBVIOUS
<1>2. x \in TaskType /\ x.at = "pullHead"
  BY <1>1, TaskTyped DEF PullHead
<1>3. PICK y : y = [x EXCEPT !.at = "pullMarker"]
  OBVIOUS
<1>4. y \in TaskType /\ y.at = "pullMarker" /\ y.revision = x.revision /\ y.tree = x.tree
  BY <1>2, <1>3, PullMoves
<1>5. TaskOK(y)
  BY <1>4 DEF TaskOK, Pushing, Syncing
<1>6. /\ UNCHANGED <<marker, snapshot, archive, markerCache, closed, bounds>>
      /\ \/ Goto(t, Idle) /\ UNCHANGED <<head, headCache>>
         \/ /\ Swaps(head[BranchT(t)], x.revision, x.expected)
            /\ head' = [head EXCEPT ![BranchT(t)] = x.revision]
            /\ headCache' = [headCache EXCEPT ![HandleT(t)] = x.revision]
            /\ Goto(t, y)
  BY <1>1, <1>3, Zenon DEF PullHead
<1> QED BY <1>1, <1>2, <1>4, <1>5, <1>6, IdleOK

\* The steps that only move a push on, and the branch of their outcome.
LEMMA CheckTask ==
    ASSUME Typed, NEW t \in Task, PushCheck(t)
    PROVE  LET x == task[t] IN
           \E y \in TaskType :
             /\ Goto(t, y) /\ TaskOK(y)
             /\ UNCHANGED <<cells, caches, bounds>>
             /\ x.at = "check"
             /\ \/ y = Idle /\ UNCHANGED archive
                \/ /\ FastForward(t)
                   /\ y.at = "pushHead" /\ y.op = x.op /\ y.upstream = x.upstream
                   /\ y.revision = x.revision /\ y.snap = x.snap /\ y.remote = x.remote
                   /\ \/ x.upstream.site \in Branch /\ UNCHANGED archive
                      \/ /\ x.upstream.site \in Remote
                         /\ archive' = [archive EXCEPT ![RepoOf[x.upstream.site]] =
                               archive[RepoOf[x.upstream.site]]
                                 \union NovelNodes(x.upstream.tree, x.revision.tree)]
<1>1. PICK x : x = task[t]
  OBVIOUS
<1>2. x \in TaskType /\ TaskOK(x) /\ x.at = "check"
  BY <1>1, TaskTyped DEF PushCheck
<1>3. x.at \in Syncing /\ "pushHead" \in Syncing
  BY <1>2 DEF Syncing
<1>4. PICK y : y = [x EXCEPT !.at = "pushHead"]
  OBVIOUS
<1>5. /\ y \in TaskType
      /\ y.at = "pushHead" /\ y.op = x.op /\ y.upstream = x.upstream
      /\ y.revision = x.revision /\ y.snap = x.snap /\ y.remote = x.remote
  BY <1>2, <1>3, <1>4, SyncMoves
<1>6. TaskOK(y)
  BY <1>2, <1>3, <1>5 DEF TaskOK, Pushing, Syncing
<1>7. /\ UNCHANGED <<cells, caches, bounds>>
      /\ \/ Goto(t, Idle) /\ UNCHANGED archive
         \/ /\ FastForward(t)
            /\ Goto(t, y)
            /\ \/ x.upstream.site \in Branch /\ UNCHANGED archive
               \/ /\ x.upstream.site \in Remote
                  /\ archive' = [archive EXCEPT ![RepoOf[x.upstream.site]] =
                        archive[RepoOf[x.upstream.site]]
                          \union NovelNodes(x.upstream.tree, x.revision.tree)]
  BY <1>1, <1>4, Zenon DEF PushCheck
<1> QED BY <1>1, <1>2, <1>5, <1>6, <1>7, IdleOK

\* Push publishes the upstream's head.
LEMMA PushHeadTask ==
    ASSUME Typed, NEW t \in Task, PushHead(t)
    PROVE  LET x == task[t] IN
           \E y \in TaskType :
             /\ Goto(t, y) /\ TaskOK(y)
             /\ UNCHANGED <<marker, snapshot, archive, caches, bounds>>
             /\ x.at = "pushHead"
             /\ \/ y = Idle /\ UNCHANGED head
                \/ /\ Swaps(head[x.upstream.site], x.revision, x.remote)
                   /\ head' = [head EXCEPT ![x.upstream.site] = x.revision]
                   /\ y.at = IF x.upstream.site \in Branch THEN "pushMarker"
                                                           ELSE "pushSnapshot"
                   /\ y.op = x.op /\ y.upstream = x.upstream
                   /\ y.revision = x.revision /\ y.snap = x.snap /\ y.remote = x.remote
<1>1. PICK x : x = task[t]
  OBVIOUS
<1>2. x \in TaskType /\ TaskOK(x) /\ x.at = "pushHead"
  BY <1>1, TaskTyped DEF PushHead
<1>3. PICK step : step = IF x.upstream.site \in Branch THEN "pushMarker" ELSE "pushSnapshot"
  OBVIOUS
<1>4. x.at \in Syncing /\ step \in Syncing
  BY <1>2, <1>3 DEF Syncing
<1>5. PICK y : y = [x EXCEPT !.at = step]
  OBVIOUS
<1>6. /\ y \in TaskType
      /\ y.at = step /\ y.op = x.op /\ y.upstream = x.upstream
      /\ y.revision = x.revision /\ y.snap = x.snap /\ y.remote = x.remote
  BY <1>2, <1>4, <1>5, SyncMoves
<1>7. TaskOK(y)
  <2>1. x.upstream.site \in Branch \/ x.upstream.site \in Remote
    BY <1>2, <1>4, SyncFields DEF Site
  <2> QED BY <1>2, <1>3, <1>6, <2>1 DEF TaskOK, Pushing, Syncing
<1>8. /\ UNCHANGED <<marker, snapshot, archive, caches, bounds>>
      /\ \/ Goto(t, Idle) /\ UNCHANGED head
         \/ /\ Swaps(head[x.upstream.site], x.revision, x.remote)
            /\ head' = [head EXCEPT ![x.upstream.site] = x.revision]
            /\ Goto(t, y)
  BY <1>1, <1>3, <1>5, Zenon DEF PushHead
<1> QED BY <1>1, <1>2, <1>3, <1>6, <1>7, <1>8, IdleOK

\* Push publishes the snapshot.
LEMMA PushSnapshotTask ==
    ASSUME Typed, NEW t \in Task, PushSnapshot(t)
    PROVE  LET x == task[t] IN
           \E y \in TaskType, swap \in BOOLEAN :
             /\ Goto(t, y) /\ TaskOK(y)
             /\ UNCHANGED <<head, marker, archive, caches, bounds>>
             /\ x.at = "pushSnapshot"
             /\ snapshot' = [snapshot EXCEPT ![RepoT(t)] =
                              [snapshot[RepoT(t)] EXCEPT ![x.upstream.site] =
                                 IF swap THEN x.revision
                                 ELSE snapshot[RepoT(t)][x.upstream.site]]]
             /\ \/ y = Idle
                \/ /\ y.at = "pushMarker" /\ y.op = x.op /\ y.upstream = x.upstream
                   /\ y.revision = x.revision /\ y.snap = x.snap /\ y.remote = x.remote
<1>1. PICK x : x = task[t]
  OBVIOUS
<1>2. x \in TaskType /\ TaskOK(x) /\ x.at = "pushSnapshot"
  BY <1>1, TaskTyped DEF PushSnapshot
<1>3. x.at \in Syncing /\ "pushMarker" \in Syncing
  BY <1>2 DEF Syncing
<1>4. PICK y : y = [x EXCEPT !.at = "pushMarker"]
  OBVIOUS
<1>5. /\ y \in TaskType
      /\ y.at = "pushMarker" /\ y.op = x.op /\ y.upstream = x.upstream
      /\ y.revision = x.revision /\ y.snap = x.snap /\ y.remote = x.remote
  BY <1>2, <1>3, <1>4, SyncMoves
<1>6. TaskOK(y)
  BY <1>2, <1>3, <1>5 DEF TaskOK, Pushing, Syncing
<1>7. PICK swap : swap = Swaps(snapshot[RepoT(t)][x.upstream.site], x.revision, x.snap)
  OBVIOUS
<1>8. swap \in BOOLEAN
  BY <1>7 DEF Swaps, PublishAccepted
<1>9. /\ UNCHANGED <<head, marker, archive, caches, bounds>>
      /\ snapshot' = [snapshot EXCEPT ![RepoT(t)] =
                       [snapshot[RepoT(t)] EXCEPT ![x.upstream.site] =
                          IF swap THEN x.revision ELSE snapshot[RepoT(t)][x.upstream.site]]]
      /\ Goto(t, IF swap THEN y ELSE Idle)
  BY <1>1, <1>4, <1>7, Zenon DEF PushSnapshot
<1>10. CASE swap
  BY <1>1, <1>2, <1>5, <1>6, <1>8, <1>9, <1>10
<1>11. CASE ~swap
  BY <1>1, <1>2, <1>8, <1>9, <1>11, IdleOK
<1> QED BY <1>10, <1>11

\* A marker publish keeps the types.
LEMMA PublishMarkerTyped ==
    ASSUME Typed, NEW t \in Task, NEW content \in Upstreams, PublishMarker(t, content),
           disruptions' \in 0 .. MaxDisruptions
    PROVE  Typed'
<1>1. /\ task' \in [Task -> TaskType]
      /\ \A u \in Task : TaskOK(task'[u])
  BY IdleOK, GotoTyped DEF PublishMarker
<1>2. content \in OptUpstream
  BY DEF OptUpstream
<1>3. marker' \in [Branch -> OptUpstream] /\ markerCache' \in [Handle -> OptUpstream]
  <2>1. \/ marker' = marker /\ markerCache' = markerCache
        \/ /\ marker' = [marker EXCEPT ![BranchT(t)] = content]
           /\ markerCache' = [markerCache EXCEPT ![HandleT(t)] = content]
    BY Zenon DEF PublishMarker
  <2> QED BY <1>2, <2>1 DEF Typed, TypeOK
<1>4. interrupted' \subseteq Branch
  BY PlaceType DEF PublishMarker, Typed, TypeOK
<1> QED BY <1>1, <1>3, <1>4 DEF PublishMarker, Typed, TypeOK

\* The contents markers are given.
LEMMA WithTreeType ==
    ASSUME NEW u \in Upstreams, NEW tree \in Tree
    PROVE  /\ WithTree(u, tree) \in Upstreams
           /\ WithTree(u, tree).site = u.site
           /\ WithTree(u, tree).tree = tree
  BY DEF WithTree, Upstreams

\* The marker that a pull publishes.
LEMMA PullMarkerContent ==
    ASSUME Typed, NEW t \in Task, PullMarker(t)
    PROVE  /\ task[t].at = "pullMarker"
           /\ task[t].tree \in Tree
           /\ markerCache[HandleT(t)] # None
           /\ markerCache[HandleT(t)] \in Upstreams
           /\ \E content \in Upstreams :
                /\ content.site = markerCache[HandleT(t)].site
                /\ content.tree = task[t].tree
                /\ PublishMarker(t, content)
           /\ UNCHANGED disruptions
<1>1. task[t].tree \in Tree
  BY TaskTyped, PullFields DEF PullMarker
<1>2. markerCache[HandleT(t)] \in Upstreams
  BY PlaceType DEF PullMarker, Typed, TypeOK, OptUpstream
<1> QED BY <1>1, <1>2, WithTreeType DEF PullMarker

\* The marker that a push publishes.
LEMMA PushMarkerContent ==
    ASSUME Typed, NEW t \in Task, PushMarker(t)
    PROVE  /\ task[t].at = "pushMarker"
           /\ task[t].revision \in Revisions
           /\ \E content \in Upstreams :
                /\ content.site = task[t].upstream.site
                /\ content.tree = task[t].revision.tree
                /\ PublishMarker(t, content)
           /\ UNCHANGED disruptions
<1>1. PICK x : x = task[t]
  OBVIOUS
<1>2. x \in TaskType /\ TaskOK(x) /\ x.at = "pushMarker" /\ x.at \in Syncing
  BY <1>1, TaskTyped DEF PushMarker, Syncing
<1>3. x.upstream \in Upstreams /\ x.revision \in OptRevision
  BY <1>2, SyncFields
<1>4. x.revision \in Revisions
  BY <1>2, <1>3 DEF TaskOK, Pushing, Syncing, OptRevision
<1>5. x.revision.tree \in Tree
  BY <1>4 DEF Revisions
<1> QED BY <1>1, <1>2, <1>3, <1>4, <1>5, WithTreeType DEF PushMarker

\* The marker that set_upstream publishes.
LEMMA SetUpstreamContent ==
    ASSUME Typed, NEW t \in Task, SetUpstream(t)
    PROVE  /\ "set_upstream" \in Operations[t]
           /\ task[t] = Idle
           /\ disruptions' \in 0 .. MaxDisruptions
           /\ \E content \in Upstreams :
                content.tree = EmptyTree /\ PublishMarker(t, content)
<1>1. PICK site \in Site : PublishMarker(t, [site |-> site, tree |-> EmptyTree])
  BY DEF SetUpstream
<1>2. [site |-> site, tree |-> EmptyTree] \in Upstreams
  BY EmptyTreeType DEF Upstreams
<1>3. disruptions' \in 0 .. MaxDisruptions
  BY BoundAssumption DEF SetUpstream, Typed, TypeOK
<1> QED BY <1>1, <1>2, <1>3 DEF SetUpstream, Starts

\* The steps of a pull, of a push and of a fetch keep the types.
LEMMA SnapshotTyped ==
    ASSUME Typed, NEW t \in Task, NEW s \in Site, NEW r \in OptRevision,
           NEW swap \in BOOLEAN,
           snapshot' = [snapshot EXCEPT ![RepoT(t)] =
                          [snapshot[RepoT(t)] EXCEPT ![s] =
                             IF swap THEN r ELSE snapshot[RepoT(t)][s]]]
    PROVE  snapshot' \in [Repo -> [Remote -> OptRevision]]
<1>1. snapshot \in [Repo -> [Remote -> OptRevision]] /\ RepoT(t) \in Repo
  BY PlaceType DEF Typed, TypeOK
<1>2. PICK row : row = [snapshot[RepoT(t)] EXCEPT ![s] =
                          IF swap THEN r ELSE snapshot[RepoT(t)][s]]
  OBVIOUS
<1>3. row \in [Remote -> OptRevision]
  <2>1. snapshot[RepoT(t)] \in [Remote -> OptRevision]
    BY <1>1
  <2>2. CASE swap
    BY <1>2, <2>1, <2>2
  <2>3. CASE ~swap
    BY <1>2, <2>1, <2>3
  <2> QED BY <2>2, <2>3
<1> QED BY <1>1, <1>2, <1>3

\* The steps a sync begins with.
LEMMA SyncTyped ==
    ASSUME Typed, NEW t \in Task,
           \/ PullStart(t) \/ PushStart(t) \/ FetchStart(t)
           \/ FetchResolve(t) \/ FetchRecord(t)
    PROVE  Typed'
<1>1. CASE PullStart(t) \/ PushStart(t) \/ FetchStart(t)
  <2>1. PICK op \in {"pull", "push", "fetch"} : Contact(t, op)
    BY <1>1 DEF PullStart, PushStart, FetchStart
  <2>2. PICK y \in TaskType : Goto(t, y) /\ TaskOK(y) /\ UNCHANGED <<cells, archive, caches, bounds>>
    BY <2>1, ContactTask
  <2>3. /\ task' \in [Task -> TaskType]
        /\ \A u \in Task : TaskOK(task'[u])
    BY <2>2, GotoTyped
  <2> QED BY <2>2, <2>3 DEF Typed, TypeOK, cells, caches, bounds
<1>2. CASE FetchResolve(t)
  <2>2. PICK y \in TaskType : Goto(t, y) /\ TaskOK(y) /\ UNCHANGED <<cells, archive, caches, bounds>>
    BY <1>2, ResolveTask
  <2>3. /\ task' \in [Task -> TaskType]
        /\ \A u \in Task : TaskOK(task'[u])
    BY <2>2, GotoTyped
  <2> QED BY <2>2, <2>3 DEF Typed, TypeOK, cells, caches, bounds
<1>3. CASE FetchRecord(t)
  <2>1. PICK x : x = task[t]
    OBVIOUS
  <2>2. PICK y \in TaskType, swap \in BOOLEAN :
             /\ Goto(t, y) /\ TaskOK(y)
             /\ UNCHANGED <<head, marker, archive, caches, bounds>>
             /\ x.at = "record"
             /\ snapshot' = [snapshot EXCEPT ![RepoT(t)] =
                              [snapshot[RepoT(t)] EXCEPT ![x.upstream.site] =
                                 IF swap THEN x.remote
                                 ELSE snapshot[RepoT(t)][x.upstream.site]]]
    BY <1>3, <2>1, RecordTask
  <2>3. /\ task' \in [Task -> TaskType]
        /\ \A u \in Task : TaskOK(task'[u])
    BY <2>2, GotoTyped
  <2>4. x.upstream.site \in Site /\ x.remote \in OptRevision
    BY <2>1, <2>2, TaskTyped, SyncFields DEF Syncing
  <2>5. snapshot' \in [Repo -> [Remote -> OptRevision]]
    BY <2>2, <2>4, SnapshotTyped
  <2> QED BY <2>2, <2>3, <2>5 DEF Typed, TypeOK, caches, bounds
<1> QED BY <1>1, <1>2, <1>3

\* The steps of a pull.
LEMMA PullTyped ==
    ASSUME Typed, NEW t \in Task, PullMerge(t) \/ PullHead(t) \/ PullMarker(t)
    PROVE  Typed'
<1>1. CASE PullMerge(t)
  <2>1. PICK x, base, ours, tree, reads :
          /\ x = task[t] /\ base = Base(HandleT(t)) /\ ours = headCache[HandleT(t)]
          /\ tree = Merge(base, TreeOf(ours), x.remote.tree)
          /\ reads = DiffReads(base, TreeOf(ours))
                       \union EditReads(x.remote.tree, Changed(base, TreeOf(ours)))
    OBVIOUS
  <2>2. /\ UNCHANGED <<cells, caches, commits, interrupted>>
        /\ base \in Tree /\ tree \in Tree /\ x.remote \in Revisions
        /\ TreeOf(ours) \in Tree
    BY <1>1, <2>1, MergeTask
  <2>3. PICK y \in TaskType :
          /\ Goto(t, y) /\ TaskOK(y)
          /\ \/ UNCHANGED <<archive, disruptions, uncached>>
             \/ Keep(RepoT(t), reads, NovelNodes(x.remote.tree, tree))
    BY <1>1, <2>1, MergeTask
  <2>4. /\ task' \in [Task -> TaskType]
        /\ \A u \in Task : TaskOK(task'[u])
    BY <2>3, GotoTyped
  <2>5. x.remote.tree \in Tree /\ Changed(base, TreeOf(ours)) \subseteq Key
    BY <2>2 DEF Revisions, Changed
  <2>6. reads \subseteq NodeType /\ NovelNodes(x.remote.tree, tree) \subseteq NodeType
    BY <2>1, <2>2, <2>5, ReadsType
  <2>7. /\ archive' \in [Repo -> SUBSET NodeType] /\ uncached' \in [Repo -> SUBSET NodeType]
        /\ disruptions' \in 0 .. MaxDisruptions
    <3> HIDE DEF NovelNodes
    <3>1. CASE UNCHANGED <<archive, disruptions, uncached>>
      BY <3>1 DEF Typed, TypeOK
    <3>2. CASE Keep(RepoT(t), reads, NovelNodes(x.remote.tree, tree))
      BY <3>2, <2>6, PlaceType, KeepTyped
    <3> QED BY <2>3, <3>1, <3>2
  <2> QED BY <2>2, <2>4, <2>7 DEF Typed, TypeOK, cells, caches
<1>2. CASE PullHead(t)
  <2>1. PICK x : x = task[t]
    OBVIOUS
  <2>2. PICK y \in TaskType :
             /\ Goto(t, y) /\ TaskOK(y)
             /\ UNCHANGED <<marker, snapshot, archive, markerCache, closed, bounds>>
             /\ x.at = "pullHead"
             /\ \/ UNCHANGED <<head, headCache>>
                \/ /\ head' = [head EXCEPT ![BranchT(t)] = x.revision]
                   /\ headCache' = [headCache EXCEPT ![HandleT(t)] = x.revision]
    BY <1>2, <2>1, PullHeadTask
  <2>3. /\ task' \in [Task -> TaskType]
        /\ \A u \in Task : TaskOK(task'[u])
    BY <2>2, GotoTyped
  <2>4. x.revision \in OptRevision
    BY <2>1, <2>2, TaskTyped, PullFields DEF OptRevision
  <2>5. head' \in [Site -> OptRevision] /\ headCache' \in [Handle -> OptRevision]
    BY <2>2, <2>4, PlaceType DEF Typed, TypeOK
  <2> QED BY <2>2, <2>3, <2>5 DEF Typed, TypeOK, bounds
<1>3. CASE PullMarker(t)
  BY <1>3, PullMarkerContent, PublishMarkerTyped DEF Typed, TypeOK
<1> QED BY <1>1, <1>2, <1>3

\* The steps of a push.
LEMMA PushTyped ==
    ASSUME Typed, NEW t \in Task,
           \/ PushCheck(t) \/ PushUploadFails(t) \/ PushHead(t)
           \/ PushSnapshot(t) \/ PushMarker(t)
    PROVE  Typed'
<1>1. PICK x : x = task[t]
  OBVIOUS
<1>2. ASSUME x.at \in Pushing
      PROVE  /\ x.at \in Syncing
             /\ x.upstream.site \in Site /\ x.upstream.tree \in Tree
             /\ x.revision \in Revisions /\ x.revision.tree \in Tree
             /\ RepoOf[x.upstream.site] \in Repo
             /\ NovelNodes(x.upstream.tree, x.revision.tree) \subseteq NodeType
  <2>1. x.at \in Syncing /\ x \in TaskType /\ TaskOK(x)
    BY <1>1, <1>2, TaskTyped DEF Pushing, Syncing
  <2>2. x.upstream.site \in Site /\ x.upstream.tree \in Tree /\ x.revision \in OptRevision
    BY <2>1, SyncFields
  <2>3. x.revision \in Revisions
    BY <1>2, <2>1, <2>2 DEF TaskOK, OptRevision
  <2>4. x.revision.tree \in Tree /\ RepoOf[x.upstream.site] \in Repo
    BY <2>2, <2>3, TopologyAssumption DEF Revisions
  <2>5. NovelNodes(x.upstream.tree, x.revision.tree) \subseteq NodeType
    BY <2>2, <2>4, ReadsType
  <2> QED BY <2>1, <2>2, <2>3, <2>4, <2>5
<1>3. CASE PushCheck(t)
  <2>1. PICK y \in TaskType :
             /\ Goto(t, y) /\ TaskOK(y)
             /\ UNCHANGED <<cells, caches, bounds>>
             /\ x.at = "check"
             /\ \/ UNCHANGED archive
                \/ archive' = [archive EXCEPT ![RepoOf[x.upstream.site]] =
                               archive[RepoOf[x.upstream.site]]
                                 \union NovelNodes(x.upstream.tree, x.revision.tree)]
    BY <1>1, <1>3, CheckTask
  <2>2. /\ task' \in [Task -> TaskType]
        /\ \A u \in Task : TaskOK(task'[u])
    BY <2>1, GotoTyped
  <2>3. archive' \in [Repo -> SUBSET NodeType]
    BY <1>2, <2>1 DEF Typed, TypeOK, Pushing
  <2> QED BY <2>1, <2>2, <2>3 DEF Typed, TypeOK, cells, caches, bounds
<1>4. CASE PushUploadFails(t)
  <2>1. x.at = "check" /\ UNCHANGED <<cells, caches, commits>> /\ Goto(t, Idle)
    BY <1>1, <1>4 DEF PushUploadFails
  <2>2. PICK sent \in SUBSET NovelNodes(x.upstream.tree, x.revision.tree) :
          archive' = [archive EXCEPT ![RepoOf[x.upstream.site]] =
                        archive[RepoOf[x.upstream.site]] \union sent]
    <3> HIDE DEF NovelNodes
    <3> QED BY <1>1, <1>4 DEF PushUploadFails
  <2>3. disruptions' \in 0 .. MaxDisruptions
    BY <1>4, BoundAssumption DEF PushUploadFails, Typed, TypeOK
  <2>4. /\ task' \in [Task -> TaskType]
        /\ \A u \in Task : TaskOK(task'[u])
    BY <2>1, GotoTyped, IdleOK
  <2>5. archive' \in [Repo -> SUBSET NodeType]
    <3>1. NovelNodes(x.upstream.tree, x.revision.tree) \subseteq NodeType
      BY <1>2, <2>1 DEF Pushing
    <3>2. sent \subseteq NodeType
      BY <3>1, <2>2
    <3> QED BY <1>2, <2>1, <2>2, <3>2 DEF Typed, TypeOK, Pushing
  <2>6. interrupted' = interrupted /\ uncached' = uncached
    BY <1>4 DEF PushUploadFails
  <2> QED BY <2>1, <2>3, <2>4, <2>5, <2>6 DEF Typed, TypeOK, cells, caches
<1>5. CASE PushHead(t)
  <2>1. PICK y \in TaskType :
             /\ Goto(t, y) /\ TaskOK(y)
             /\ UNCHANGED <<marker, snapshot, archive, caches, bounds>>
             /\ x.at = "pushHead"
             /\ \/ UNCHANGED head
                \/ head' = [head EXCEPT ![x.upstream.site] = x.revision]
    BY <1>1, <1>5, PushHeadTask
  <2>2. /\ task' \in [Task -> TaskType]
        /\ \A u \in Task : TaskOK(task'[u])
    BY <2>1, GotoTyped
  <2>3. head' \in [Site -> OptRevision]
    BY <1>2, <2>1 DEF Typed, TypeOK, Pushing, OptRevision
  <2> QED BY <2>1, <2>2, <2>3 DEF Typed, TypeOK, caches, bounds
<1>6. CASE PushSnapshot(t)
  <2>1. PICK y \in TaskType, swap \in BOOLEAN :
             /\ Goto(t, y) /\ TaskOK(y)
             /\ UNCHANGED <<head, marker, archive, caches, bounds>>
             /\ x.at = "pushSnapshot"
             /\ snapshot' = [snapshot EXCEPT ![RepoT(t)] =
                              [snapshot[RepoT(t)] EXCEPT ![x.upstream.site] =
                                 IF swap THEN x.revision
                                 ELSE snapshot[RepoT(t)][x.upstream.site]]]
    BY <1>1, <1>6, PushSnapshotTask
  <2>2. /\ task' \in [Task -> TaskType]
        /\ \A u \in Task : TaskOK(task'[u])
    BY <2>1, GotoTyped
  <2>3. x.upstream.site \in Site /\ x.revision \in OptRevision
    BY <1>2, <2>1 DEF Pushing, OptRevision
  <2>4. snapshot' \in [Repo -> [Remote -> OptRevision]]
    BY <2>1, <2>3, SnapshotTyped
  <2> QED BY <2>1, <2>2, <2>4 DEF Typed, TypeOK, caches, bounds
<1>7. CASE PushMarker(t)
  BY <1>7, PushMarkerContent, PublishMarkerTyped DEF Typed, TypeOK
<1> QED BY <1>3, <1>4, <1>5, <1>6, <1>7

\* A crash closes handles and ends their tasks.
LEMMA CrashTyped ==
    ASSUME Typed, NEW r \in Repo, Crash(r)
    PROVE  Typed'
<1>1. PICK lost : lost = {h \in Handle : RepoOf[BranchOf[h]] = r}
  OBVIOUS
<1>2. /\ closed' = closed \union lost
      /\ headCache' = [h \in Handle |-> IF h \in lost THEN None ELSE headCache[h]]
      /\ markerCache' = [h \in Handle |-> IF h \in lost THEN None ELSE markerCache[h]]
      /\ task' = [t \in Task |-> IF HandleOf[t] \in lost THEN Idle ELSE task[t]]
      /\ UNCHANGED <<cells, archive, commits, uncached>>
  BY <1>1 DEF Crash
<1>3. headCache' \in [Handle -> OptRevision] /\ markerCache' \in [Handle -> OptUpstream]
  BY <1>2 DEF Typed, TypeOK, OptRevision, OptUpstream
<1>4. closed' \subseteq Handle
  BY <1>1, <1>2 DEF Typed, TypeOK
<1>5. ASSUME NEW t \in Task
      PROVE  task'[t] \in TaskType /\ TaskOK(task'[t])
  <2>1. task'[t] = Idle \/ task'[t] = task[t]
    BY <1>2
  <2> QED BY <2>1, IdleOK, TaskTyped
<1>6. task' \in [Task -> TaskType]
  BY <1>2, <1>5
<1>7. disruptions' \in 0 .. MaxDisruptions
  BY BoundAssumption DEF Crash, Typed, TypeOK
<1>8. interrupted' \subseteq Branch
  BY PlaceType DEF Crash, Typed, TypeOK
<1> QED BY <1>2, <1>3, <1>4, <1>5, <1>6, <1>7, <1>8 DEF Typed, TypeOK, cells

\* Typed is inductive.
LEMMA TypedNext ==
    ASSUME Typed, [Next]_vars
    PROVE  Typed'
<1>1. ASSUME NEW t \in Task, Step(t) PROVE Typed'
  <2>1. CASE SetUpstream(t)
    BY <2>1, SetUpstreamContent, PublishMarkerTyped
  <2> QED BY <1>1, <2>1, RefreshHeadTyped, RefreshMarkerTyped, CommitPrepareTyped,
             CommitPublishTyped, SyncTyped, PullTyped, PushTyped DEF Step
<1>2. CASE UNCHANGED vars
  BY <1>2 DEF Typed, TypeOK, vars, cells, caches, bounds
<1> QED BY <1>1, <1>2, CrashTyped DEF Next

\* Typed holds in the initial states.
LEMMA TypedInit == Init => Typed
<1> SUFFICES ASSUME Init PROVE Typed
  OBVIOUS
<1>1. ASSUME NEW b \in Branch PROVE marker[b] \in OptUpstream
  BY EmptyTreeType, TopologyAssumption DEF Init, OptUpstream, Upstreams, Site
<1>2. marker \in [Branch -> OptUpstream]
  BY <1>1 DEF Init
<1>3. markerCache \in [Handle -> OptUpstream]
  BY <1>1, TopologyAssumption DEF Init
<1>4. task \in [Task -> TaskType] /\ \A t \in Task : TaskOK(task[t])
  BY IdleOK DEF Init
<1>5. /\ head \in [Site -> OptRevision]
      /\ snapshot \in [Repo -> [Remote -> OptRevision]]
      /\ headCache \in [Handle -> OptRevision]
  BY DEF Init, OptRevision
<1>6. /\ archive \in [Repo -> SUBSET NodeType] /\ closed \subseteq Handle
      /\ uncached \in [Repo -> SUBSET NodeType]
  BY DEF Init
<1>7. commits \in 0 .. MaxCommits /\ disruptions \in 0 .. MaxDisruptions
  <2>1. commits = 0 /\ disruptions = 0
    BY DEF Init
  <2>2. 0 \in 0 .. MaxCommits /\ 0 \in 0 .. MaxDisruptions
    BY BoundAssumption
  <2> QED BY <2>1, <2>2
<1>8. interrupted \subseteq Branch
  BY DEF Init
<1> QED BY <1>2, <1>3, <1>4, <1>5, <1>6, <1>7, <1>8 DEF Typed, TypeOK

\* Typed is an invariant.
LEMMA TypedHolds == Spec => []Typed
  BY TypedInit, TypedNext, PTL DEF Spec

(***************************************************************************)
(* Every cell, cache, archive and task of the branches has its type: a     *)
(* push that goes on has a revision to publish, and a merge an upstream.   *)
(***************************************************************************)
THEOREM TypesHold == Spec => []TypeOK
<1>1. Typed => TypeOK
  BY DEF Typed
<1> QED BY <1>1, TypedHolds, PTL

-----------------------------------------------------------------------------
(***************************************************************************)
(* What a remote archive holds.  The remote's own head is not inductive: a *)
(* push uploads the difference to the tree it takes for the remote's, so   *)
(* the snapshots and what the tasks in flight remember of a remote have to *)
(* be held there as well, and a push past the check its own revision.      *)
(***************************************************************************)
Held(store, site, revision) ==
    site \in Remote => Nodes(TreeOf(revision)) \subseteq store[RepoOf[site]]

TaskHeld(store, x) ==
    /\ x.at \in Syncing => /\ Held(store, x.upstream.site, x.snap)
                           /\ Held(store, x.upstream.site, x.remote)
    /\ x.at \in {"pushHead", "pushSnapshot", "pushMarker"} =>
         Held(store, x.upstream.site, x.revision)

AllHeld ==
    /\ \A s \in Remote : Held(archive, s, head[s])
    /\ \A s \in Remote, r \in Repo : Held(archive, s, snapshot[r][s])
    /\ \A t \in Task : TaskHeld(archive, task[t])

Grows(store, later) == \A r \in Repo : store[r] \subseteq later[r]

\* The repository of a remote is not one of a branch's site.
LEMMA RemoteType ==
    ASSUME NEW s \in Remote
    PROVE  s \in Site /\ s \notin Branch /\ RepoOf[s] \in Repo
  BY TopologyAssumption DEF Site

\* An archive that grows still holds what it held.
LEMMA HeldGrows ==
    ASSUME NEW store, NEW later, Grows(store, later), NEW s, NEW r, Held(store, s, r)
    PROVE  Held(later, s, r)
  BY RemoteType DEF Held, Grows

\* So does what tasks rely on.
LEMMA TaskHeldGrows ==
    ASSUME NEW store, NEW later, Grows(store, later), NEW x, TaskHeld(store, x)
    PROVE  TaskHeld(later, x)
  BY HeldGrows DEF TaskHeld

\* The empty tree has no blocks.
LEMMA NoneHeld ==
    ASSUME NEW store, NEW s
    PROVE  Held(store, s, None)
<1>1. Nodes(EmptyTree) = {}
  BY DEF Nodes, RootNodes, EntryNodes, EmptyTree
<1> QED BY <1>1 DEF Held, TreeOf

\* A task at rest relies on nothing.
LEMMA IdleHeld ==
    ASSUME NEW store, NEW x, x.at \notin Syncing
    PROVE  TaskHeld(store, x)
  BY DEF TaskHeld, Syncing

\* One repository's archive takes some blocks.
LEMMA GrowsAt ==
    ASSUME Typed, NEW r \in Repo, NEW blocks,
           archive' = [archive EXCEPT ![r] = archive[r] \union blocks]
    PROVE  Grows(archive, archive') /\ blocks \subseteq archive'[r]
  BY DEF Grows, Typed, TypeOK

\* A repository that keeps what it read loses nothing, and has what it wrote.
LEMMA KeepGrows ==
    ASSUME Typed, NEW r \in Repo, NEW reads, NEW written, Keep(r, reads, written)
    PROVE  Grows(archive, archive') /\ written \subseteq archive'[r]
<1>1. PICK lost \in SUBSET reads :
        archive' = [archive EXCEPT ![r] = archive[r] \union ((reads \ lost) \union written)]
  BY KeepBlocks
<1>2. (reads \ lost) \union written \subseteq archive'[r] /\ Grows(archive, archive')
  BY <1>1, GrowsAt
<1> QED BY <1>2

\* An archive left alone has not lost anything.
LEMMA GrowsNot ==
    ASSUME archive' = archive
    PROVE  Grows(archive, archive')
  BY DEF Grows

\* A step of one task keeps AllHeld if what it writes is held.
LEMMA HeldFrame ==
    ASSUME Typed, AllHeld, NEW t \in Task, NEW y, Goto(t, y),
           Grows(archive, archive'), TaskHeld(archive', y),
           \A s \in Remote : head'[s] = head[s] \/ Held(archive', s, head'[s]),
           \A s \in Remote, r \in Repo :
             snapshot'[r][s] = snapshot[r][s] \/ Held(archive', s, snapshot'[r][s])
    PROVE  AllHeld'
<1>1. ASSUME NEW s \in Remote
      PROVE  Held(archive', s, head'[s])
  BY HeldGrows DEF AllHeld
<1>2. ASSUME NEW s \in Remote, NEW r \in Repo
      PROVE  Held(archive', s, snapshot'[r][s])
  BY HeldGrows DEF AllHeld
<1>3. ASSUME NEW u \in Task
      PROVE  TaskHeld(archive', task'[u])
  <2>1. task'[u] = y \/ task'[u] = task[u]
    BY DEF Goto, Typed, TypeOK
  <2>2. TaskHeld(archive, task[u])
    BY DEF AllHeld
  <2> QED BY <2>1, <2>2, TaskHeldGrows
<1> QED BY <1>1, <1>2, <1>3 DEF AllHeld

\* A step that writes no cell of a remote and no archive, and ends elsewhere.
LEMMA HeldQuiet ==
    ASSUME Typed, AllHeld, NEW t \in Task, NEW y, Goto(t, y), y.at \notin Syncing,
           Grows(archive, archive'), snapshot' = snapshot,
           \A s \in Remote : head'[s] = head[s]
    PROVE  AllHeld'
<1>1. TaskHeld(archive', y)
  BY IdleHeld
<1> QED BY <1>1, HeldFrame

\* A refresh or a commit of a branch leaves the remotes alone.
LEMMA RefreshCommitHeld ==
    ASSUME Typed, AllHeld, NEW t \in Task,
           RefreshHead(t) \/ RefreshMarker(t) \/ CommitPrepare(t) \/ CommitPublish(t)
    PROVE  AllHeld'
<1>1. Idle.at \notin Syncing
  BY DEF Idle, Syncing
<1>2. CASE RefreshHead(t)
  <2>1. PICK y : y = [at |-> "refresh"]
    OBVIOUS
  <2>2. y.at \notin Syncing
    BY <2>1 DEF Syncing
  <2> QED BY <1>2, <2>1, <2>2, HeldQuiet, GrowsNot DEF RefreshHead, cells
<1>3. CASE RefreshMarker(t)
  BY <1>1, <1>3, HeldQuiet, GrowsNot DEF RefreshMarker, cells
<1>4. CASE CommitPrepare(t)
  <2>1. PICK i, y, base, tree, reads :
          CommitStep(t, i, y, base, tree, reads)
    BY <1>4, CommitTask
  <2>2. Grows(archive, archive') /\ Goto(t, y)
    BY <2>1, KeepGrows, PlaceType DEF CommitStep
  <2>3. y.at \notin Syncing
    BY <2>1 DEF CommitStep, Syncing
  <2> QED BY <1>4, <2>2, <2>3, HeldQuiet DEF CommitPrepare, cells
<1>5. CASE CommitPublish(t)
  <2>1. \A s \in Remote : head'[s] = head[s]
    BY <1>5, PlaceType, RemoteType DEF CommitPublish, Typed, TypeOK
  <2>2. Goto(t, Idle) /\ snapshot' = snapshot /\ archive' = archive
    BY <1>5 DEF CommitPublish
  <2> QED BY <1>1, <2>1, <2>2, HeldQuiet, GrowsNot
<1> QED BY <1>2, <1>3, <1>4, <1>5

\* A sync starts from the snapshot, which the remote holds.
LEMMA ContactHeld ==
    ASSUME Typed, AllHeld, NEW t \in Task, PullStart(t) \/ PushStart(t) \/ FetchStart(t)
    PROVE  AllHeld'
<1>1. PICK op \in {"pull", "push", "fetch"} : Contact(t, op)
  BY DEF PullStart, PushStart, FetchStart
<1>2. PICK y \in TaskType :
        /\ Goto(t, y)
        /\ UNCHANGED <<cells, archive, caches, bounds>>
        /\ y.at \in Syncing
        /\ \/ /\ y.upstream.site \in Branch
              /\ y.at \in {"merge", "check"}
           \/ /\ y.upstream.site \in Remote
              /\ y.at = "resolve"
              /\ y.snap = snapshot[RepoT(t)][y.upstream.site] /\ y.remote = None
  BY <1>1, ContactTask
<1>3. archive' = archive /\ head' = head /\ snapshot' = snapshot
  BY <1>2 DEF cells
<1>4. TaskHeld(archive, y)
  <2>1. CASE y.upstream.site \in Branch /\ y.at \in {"merge", "check"}
    BY <2>1, RemoteType DEF TaskHeld, Held
  <2>2. CASE /\ y.upstream.site \in Remote
             /\ y.at = "resolve"
             /\ y.snap = snapshot[RepoT(t)][y.upstream.site] /\ y.remote = None
    <3>1. Held(archive, y.upstream.site, y.snap)
      BY <2>2, PlaceType DEF AllHeld
    <3>2. Held(archive, y.upstream.site, y.remote)
      BY <2>2, NoneHeld
    <3> QED BY <2>2, <3>1, <3>2 DEF TaskHeld
  <2> QED BY <1>2, <2>1, <2>2
<1> QED BY <1>2, <1>3, <1>4, GrowsNot, HeldFrame

\* Fetch answers with the remote's head, which the remote holds.
LEMMA ResolveHeld ==
    ASSUME Typed, AllHeld, NEW t \in Task, FetchResolve(t)
    PROVE  AllHeld'
<1>1. PICK x : x = task[t]
  OBVIOUS
<1>2. PICK y \in TaskType :
        /\ Goto(t, y)
        /\ UNCHANGED <<cells, archive, caches, bounds>>
        /\ x.at = "resolve"
        /\ \/ y = Idle
           \/ /\ y.upstream = x.upstream /\ y.snap = x.snap
              /\ \/ y.at = "record" /\ y.remote = head[x.upstream.site]
                 \/ y.at = "check" /\ y.remote = x.remote
  BY <1>1, ResolveTask
<1>3. archive' = archive /\ head' = head /\ snapshot' = snapshot
  BY <1>2 DEF cells
<1>4. TaskHeld(archive, x) /\ x.at \in Syncing
  BY <1>1, <1>2 DEF AllHeld, Syncing
<1>5. Held(archive, x.upstream.site, x.snap) /\ Held(archive, x.upstream.site, x.remote)
  BY <1>4 DEF TaskHeld
<1>6. Held(archive, x.upstream.site, head[x.upstream.site])
  BY DEF AllHeld, Held
<1>7. TaskHeld(archive, y)
  <2>1. CASE y = Idle
    BY <2>1, IdleHeld, IdleOK DEF Syncing
  <2>2. CASE y # Idle
    BY <1>2, <1>5, <1>6, <2>2 DEF TaskHeld
  <2> QED BY <2>1, <2>2
<1> QED BY <1>2, <1>3, <1>7, GrowsNot, HeldFrame

\* The snapshot cell of a remote takes a revision that is held there.
LEMMA SnapshotHeld ==
    ASSUME Typed, AllHeld, NEW t \in Task, NEW y, Goto(t, y),
           archive' = archive, head' = head, TaskHeld(archive, y),
           NEW site, NEW r, Held(archive, site, r), NEW swap \in BOOLEAN,
           snapshot' = [snapshot EXCEPT ![RepoT(t)] =
                          [snapshot[RepoT(t)] EXCEPT ![site] =
                             IF swap THEN r ELSE snapshot[RepoT(t)][site]]]
    PROVE  AllHeld'
<1>1. ASSUME NEW s \in Remote, NEW repo \in Repo
      PROVE  snapshot'[repo][s] = snapshot[repo][s] \/ Held(archive, s, snapshot'[repo][s])
  <2>0. snapshot \in [Repo -> [Remote -> OptRevision]] /\ RepoT(t) \in Repo
    BY PlaceType DEF Typed, TypeOK
  <2>1. PICK row : row = [snapshot[RepoT(t)] EXCEPT ![site] =
                             IF swap THEN r ELSE snapshot[RepoT(t)][site]]
    OBVIOUS
  <2>2. snapshot'[repo] = IF repo = RepoT(t) THEN row ELSE snapshot[repo]
    BY <2>0, <2>1
  <2>3. snapshot[RepoT(t)] \in [Remote -> OptRevision]
    BY <2>0
  <2>4. row[s] = IF s = site /\ swap THEN r ELSE snapshot[RepoT(t)][s]
    <3>1. CASE s = site
      BY <2>1, <2>3, <3>1
    <3>2. CASE s # site
      BY <2>1, <2>3, <3>2
    <3> QED BY <3>1, <3>2
  <2> QED BY <2>2, <2>4
<1>2. TaskHeld(archive', y)
  OBVIOUS
<1> QED BY <1>1, <1>2, GrowsNot, HeldFrame

\* The recorded snapshot is the head that was resolved.
LEMMA RecordHeld ==
    ASSUME Typed, AllHeld, NEW t \in Task, FetchRecord(t)
    PROVE  AllHeld'
<1>1. PICK x : x = task[t]
  OBVIOUS
<1>2. PICK y \in TaskType, swap \in BOOLEAN :
        /\ Goto(t, y)
        /\ UNCHANGED <<head, marker, archive, caches, bounds>>
        /\ x.at = "record"
        /\ snapshot' = [snapshot EXCEPT ![RepoT(t)] =
                         [snapshot[RepoT(t)] EXCEPT ![x.upstream.site] =
                            IF swap THEN x.remote
                            ELSE snapshot[RepoT(t)][x.upstream.site]]]
        /\ \/ y = Idle
           \/ /\ y.upstream = x.upstream /\ y.remote = x.remote
              /\ y.snap = x.remote
              /\ y.at \in {"merge", "check"}
  BY <1>1, RecordTask
<1>3. TaskHeld(archive, x) /\ x.at \in Syncing
  BY <1>1, <1>2 DEF AllHeld, Syncing
<1>4. Held(archive, x.upstream.site, x.remote)
  BY <1>3 DEF TaskHeld
<1>5. TaskHeld(archive, y)
  <2>1. CASE y = Idle
    BY <2>1, IdleHeld, IdleOK DEF Syncing
  <2>2. CASE y # Idle
    BY <1>2, <1>4, <2>2 DEF TaskHeld
  <2> QED BY <2>1, <2>2
<1>6. PICK site, r : site = x.upstream.site /\ r = x.remote
  OBVIOUS
<1> QED BY <1>2, <1>4, <1>5, <1>6, SnapshotHeld

\* A pull publishes to a branch and imports blocks, which adds to archives.
LEMMA PullHeld ==
    ASSUME Typed, AllHeld, NEW t \in Task, PullMerge(t) \/ PullHead(t)
    PROVE  AllHeld'
<1>1. CASE PullMerge(t)
  <2>1. PICK y, reads, novel :
          /\ y \in TaskType /\ Goto(t, y)
          /\ \/ y = Idle /\ UNCHANGED archive
             \/ /\ y.at = "pullHead"
                /\ Keep(RepoT(t), reads, novel)
    <3>1. PICK x, base, ours : /\ x = task[t] /\ base = Base(HandleT(t))
                               /\ ours = headCache[HandleT(t)]
      OBVIOUS
    <3>2. PICK novel : novel = NovelNodes(x.remote.tree, Merge(base, TreeOf(ours), x.remote.tree))
      OBVIOUS
    <3>3. PICK reads : reads = DiffReads(base, TreeOf(ours))
                          \union EditReads(x.remote.tree, Changed(base, TreeOf(ours)))
      OBVIOUS
    <3>4. \E y \in TaskType :
             /\ Goto(t, y)
             /\ \/ y = Idle /\ UNCHANGED archive
                \/ /\ y.at = "pullHead"
                   /\ Keep(RepoT(t), reads, novel)
      BY <1>1, <3>1, <3>2, <3>3, MergeTask
    <3> QED BY <3>4
  <2>2. Grows(archive, archive')
    BY <2>1, KeepGrows, GrowsNot, PlaceType
  <2>3. y.at \notin Syncing
    BY <2>1, IdleOK DEF Syncing
  <2>4. head' = head /\ snapshot' = snapshot
    BY <1>1 DEF PullMerge, cells
  <2> QED BY <2>1, <2>2, <2>3, <2>4, HeldQuiet
<1>2. CASE PullHead(t)
  <2>1. PICK y \in TaskType :
          /\ Goto(t, y)
          /\ UNCHANGED <<snapshot, archive>>
          /\ y = Idle \/ y.at = "pullMarker"
    BY <1>2, PullHeadTask
  <2>2. \A s \in Remote : head'[s] = head[s]
    BY <1>2, PlaceType, RemoteType DEF PullHead, Typed, TypeOK
  <2>3. y.at \notin Syncing
    BY <2>1, IdleOK DEF Syncing
  <2> QED BY <2>1, <2>2, <2>3, GrowsNot, HeldQuiet
<1> QED BY <1>1, <1>2

\* Marker publishes touch nothing of a remote.
LEMMA MarkerHeld ==
    ASSUME Typed, AllHeld, NEW t \in Task, PullMarker(t) \/ PushMarker(t) \/ SetUpstream(t)
    PROVE  AllHeld'
<1>1. Goto(t, Idle) /\ UNCHANGED <<head, snapshot, archive>>
  BY DEF PullMarker, PushMarker, SetUpstream, PublishMarker
<1>2. Idle.at \notin Syncing
  BY DEF Idle, Syncing
<1> QED BY <1>1, <1>2, GrowsNot, HeldQuiet

\* The divergence check: the tree a push takes for the remote's is held
\* there, and the upload adds what the revision has beyond it.
LEMMA CheckHeld ==
    ASSUME Typed, AllHeld, NEW t \in Task, PushCheck(t)
    PROVE  AllHeld'
<1>1. PICK x : x = task[t]
  OBVIOUS
<1>2. PICK y \in TaskType :
        /\ Goto(t, y)
        /\ UNCHANGED <<cells, caches, bounds>>
        /\ x.at = "check"
        /\ \/ y = Idle /\ UNCHANGED archive
           \/ /\ FastForward(t)
              /\ y.at = "pushHead" /\ y.upstream = x.upstream
              /\ y.revision = x.revision /\ y.snap = x.snap /\ y.remote = x.remote
              /\ \/ x.upstream.site \in Branch /\ UNCHANGED archive
                 \/ /\ x.upstream.site \in Remote
                    /\ archive' = [archive EXCEPT ![RepoOf[x.upstream.site]] =
                          archive[RepoOf[x.upstream.site]]
                            \union NovelNodes(x.upstream.tree, x.revision.tree)]
  BY <1>1, CheckTask
<1>3. head' = head /\ snapshot' = snapshot
  BY <1>2 DEF cells
<1>4. TaskHeld(archive, x) /\ x.at \in Syncing /\ x \in TaskType /\ TaskOK(x)
  BY <1>1, <1>2, TaskTyped DEF AllHeld, Syncing
<1>5. Held(archive, x.upstream.site, x.snap) /\ Held(archive, x.upstream.site, x.remote)
  BY <1>4 DEF TaskHeld
<1>6. TreeOf(x.revision) = x.revision.tree
  BY <1>2, <1>4 DEF TaskOK, Pushing, Syncing, TreeOf
<1>7. CASE y = Idle /\ UNCHANGED archive
  BY <1>2, <1>3, <1>7, IdleOK, GrowsNot, HeldQuiet DEF Syncing
<1>8. CASE /\ y.at = "pushHead" /\ y.upstream = x.upstream
           /\ y.snap = x.snap /\ y.remote = x.remote
           /\ x.upstream.site \in Branch /\ UNCHANGED archive
  <2>1. TaskHeld(archive', y)
    BY <1>8, RemoteType DEF TaskHeld, Held
  <2> QED BY <1>2, <1>3, <1>8, <2>1, GrowsNot, HeldFrame
<1>9. CASE /\ FastForward(t)
           /\ y.at = "pushHead" /\ y.upstream = x.upstream
           /\ y.revision = x.revision /\ y.snap = x.snap /\ y.remote = x.remote
           /\ x.upstream.site \in Remote
           /\ archive' = [archive EXCEPT ![RepoOf[x.upstream.site]] =
                 archive[RepoOf[x.upstream.site]]
                   \union NovelNodes(x.upstream.tree, x.revision.tree)]
  <2>1. PICK blocks, repo : /\ blocks = NovelNodes(x.upstream.tree, x.revision.tree)
                            /\ repo = RepoOf[x.upstream.site]
    OBVIOUS
  <2>2. repo \in Repo /\ x.upstream.site \notin Branch
    BY <1>9, <2>1, RemoteType
  <2>3. archive' = [archive EXCEPT ![repo] = archive[repo] \union blocks]
    BY <1>9, <2>1
  <2>4. Grows(archive, archive') /\ blocks \subseteq archive'[repo]
    BY <2>2, <2>3, GrowsAt
  <2>5. TreeOf(x.snap) = x.upstream.tree
    BY <1>1, <1>9, <2>2 DEF FastForward, Current
  <2>6. Nodes(x.upstream.tree) \subseteq archive'[repo]
    BY <1>5, <1>9, <2>1, <2>2, <2>4, <2>5 DEF Held, Grows
  <2>7. Nodes(x.revision.tree) \subseteq archive'[repo]
    BY <2>1, <2>4, <2>6 DEF NovelNodes
  <2>8. Held(archive', x.upstream.site, x.revision)
    BY <1>6, <2>1, <2>7 DEF Held
  <2>9. Held(archive', x.upstream.site, x.snap) /\ Held(archive', x.upstream.site, x.remote)
    BY <1>5, <2>4, HeldGrows
  <2>10. TaskHeld(archive', y)
    BY <1>9, <2>8, <2>9 DEF TaskHeld
  <2> QED BY <1>2, <1>3, <2>4, <2>10, HeldFrame
<1> QED BY <1>2, <1>7, <1>8, <1>9

\* An upload beyond a tree that the remote holds makes it hold the revision.
LEMMA UploadHeld ==
    ASSUME Typed, AllHeld, NEW t \in Task, PushUploadFails(t)
    PROVE  AllHeld'
<1>1. PICK repo : repo = RepoOf[task[t].upstream.site]
  OBVIOUS
<1>2. repo \in Repo
  BY <1>1, RemoteType DEF PushUploadFails
<1>3. PICK sent : archive' = [archive EXCEPT ![repo] = archive[repo] \union sent]
  <2> HIDE DEF NovelNodes
  <2> QED BY <1>1 DEF PushUploadFails
<1>4. Grows(archive, archive')
  BY <1>2, <1>3, GrowsAt
<1>5. Goto(t, Idle) /\ head' = head /\ snapshot' = snapshot
  BY DEF PushUploadFails, cells
<1> QED BY <1>4, <1>5, IdleOK, HeldQuiet DEF Syncing

\* A push publishes, at the remote and in the snapshot, what it uploaded.
LEMMA PushHeld ==
    ASSUME Typed, AllHeld, NEW t \in Task, PushHead(t) \/ PushSnapshot(t)
    PROVE  AllHeld'
<1>1. PICK x : x = task[t]
  OBVIOUS
<1>2. TaskHeld(archive, x)
  BY <1>1 DEF AllHeld
<1>3. CASE PushHead(t)
  <2>1. PICK y \in TaskType :
             /\ Goto(t, y)
             /\ UNCHANGED <<snapshot, archive>>
             /\ x.at = "pushHead"
             /\ \/ y = Idle /\ UNCHANGED head
                \/ /\ head' = [head EXCEPT ![x.upstream.site] = x.revision]
                   /\ y.at \in {"pushMarker", "pushSnapshot"}
                   /\ y.upstream = x.upstream
                   /\ y.revision = x.revision /\ y.snap = x.snap /\ y.remote = x.remote
    <3>1. PICK y \in TaskType :
             /\ Goto(t, y)
             /\ UNCHANGED <<snapshot, archive>>
             /\ x.at = "pushHead"
             /\ \/ y = Idle /\ UNCHANGED head
                \/ /\ head' = [head EXCEPT ![x.upstream.site] = x.revision]
                   /\ y.at = IF x.upstream.site \in Branch THEN "pushMarker"
                                                           ELSE "pushSnapshot"
                   /\ y.upstream = x.upstream
                   /\ y.revision = x.revision /\ y.snap = x.snap /\ y.remote = x.remote
      BY <1>1, <1>3, PushHeadTask
    <3> QED BY <3>1
  <2>2. /\ Held(archive, x.upstream.site, x.revision)
        /\ Held(archive, x.upstream.site, x.snap)
        /\ Held(archive, x.upstream.site, x.remote)
    BY <1>2, <2>1 DEF TaskHeld, Syncing
  <2>3. TaskHeld(archive, y)
    <3>1. CASE y = Idle
      BY <3>1, IdleHeld, IdleOK DEF Syncing
    <3>2. CASE y # Idle
      BY <2>1, <2>2, <3>2 DEF TaskHeld
    <3> QED BY <3>1, <3>2
  <2>4. ASSUME NEW s \in Remote
        PROVE  head'[s] = head[s] \/ Held(archive, s, head'[s])
    <3>1. head \in [Site -> OptRevision] /\ s \in Site
      BY RemoteType DEF Typed, TypeOK
    <3>2. head'[s] = head[s] \/ (s = x.upstream.site /\ head'[s] = x.revision)
      BY <2>1, <3>1
    <3> QED BY <2>2, <3>2
  <2> QED BY <2>1, <2>3, <2>4, GrowsNot, HeldFrame
<1>4. CASE PushSnapshot(t)
  <2>1. PICK y \in TaskType, swap \in BOOLEAN :
             /\ Goto(t, y)
             /\ UNCHANGED <<head, archive>>
             /\ x.at = "pushSnapshot"
             /\ snapshot' = [snapshot EXCEPT ![RepoT(t)] =
                              [snapshot[RepoT(t)] EXCEPT ![x.upstream.site] =
                                 IF swap THEN x.revision
                                 ELSE snapshot[RepoT(t)][x.upstream.site]]]
             /\ \/ y = Idle
                \/ /\ y.at = "pushMarker" /\ y.upstream = x.upstream
                   /\ y.revision = x.revision /\ y.snap = x.snap /\ y.remote = x.remote
    BY <1>1, <1>4, PushSnapshotTask
  <2>2. /\ Held(archive, x.upstream.site, x.revision)
        /\ Held(archive, x.upstream.site, x.snap)
        /\ Held(archive, x.upstream.site, x.remote)
    BY <1>2, <2>1 DEF TaskHeld, Syncing
  <2>3. TaskHeld(archive, y)
    <3>1. CASE y = Idle
      BY <3>1, IdleHeld, IdleOK DEF Syncing
    <3>2. CASE y # Idle
      BY <2>1, <2>2, <3>2 DEF TaskHeld
    <3> QED BY <3>1, <3>2
  <2>4. PICK site, r : site = x.upstream.site /\ r = x.revision
    OBVIOUS
  <2> QED BY <2>1, <2>2, <2>3, <2>4, SnapshotHeld
<1> QED BY <1>3, <1>4

\* A crash changes no cell and no archive.
LEMMA CrashHeld ==
    ASSUME Typed, AllHeld, NEW r \in Repo, Crash(r)
    PROVE  AllHeld'
<1>1. UNCHANGED <<head, snapshot, archive>>
  BY DEF Crash, cells
<1>2. ASSUME NEW t \in Task
      PROVE  TaskHeld(archive', task'[t])
  <2>1. task'[t] = Idle \/ task'[t] = task[t]
    BY DEF Crash
  <2>2. TaskHeld(archive, Idle)
    BY IdleOK, IdleHeld DEF Syncing
  <2> QED BY <1>1, <2>1, <2>2 DEF AllHeld
<1> QED BY <1>1, <1>2 DEF AllHeld

\* AllHeld is inductive relative to Typed.
LEMMA HeldNext ==
    ASSUME Typed, AllHeld, [Next]_vars
    PROVE  AllHeld'
<1>1. ASSUME NEW t \in Task, Step(t) PROVE AllHeld'
  BY <1>1, RefreshCommitHeld, ContactHeld, ResolveHeld, RecordHeld, PullHeld, MarkerHeld,
     CheckHeld, UploadHeld, PushHeld DEF Step
<1>2. CASE UNCHANGED vars
  BY <1>2 DEF AllHeld, vars, cells
<1> QED BY <1>1, <1>2, CrashHeld DEF Next

\* Nothing is published in the initial states.
LEMMA HeldInit == Init => AllHeld
<1> SUFFICES ASSUME Init PROVE AllHeld
  OBVIOUS
<1>1. ASSUME NEW s \in Remote
      PROVE  head[s] = None /\ \A r \in Repo : snapshot[r][s] = None
  BY RemoteType DEF Init
<1>2. ASSUME NEW t \in Task PROVE TaskHeld(archive, task[t])
  BY IdleOK, IdleHeld DEF Init, Syncing
<1> QED BY <1>1, <1>2, NoneHeld DEF AllHeld

\* AllHeld is an invariant.
LEMMA HeldHolds == Spec => []AllHeld
  BY HeldInit, HeldNext, TypedHolds, PTL DEF Spec

(***************************************************************************)
(* Whatever a remote publishes can be hydrated from its own archive: with  *)
(* any number of replicas pushing to it, although each push uploads only   *)
(* the blocks beyond the tree it last synced with, uploads fail half way,  *)
(* handles share caches, upstreams are switched and processes crash        *)
(* between any two steps.                                                  *)
(***************************************************************************)
THEOREM HydrationHolds == Spec => []RemoteHydratable
<1>1. AllHeld => RemoteHydratable
  BY DEF AllHeld, Held, RemoteHydratable
<1> QED BY <1>1, HeldHolds, PTL

-----------------------------------------------------------------------------
(***************************************************************************)
(* What a branch reads through.  Stated for branches that keep the         *)
(* upstream they are configured with: a branch reads the local archive and *)
(* that of the remote it tracks, so a switched upstream takes the blocks   *)
(* of the old one out of reach.  A branch that tracks a local branch reads *)
(* the local archive only, so that one must not read through a remote.     *)
(***************************************************************************)
Steady ==
    /\ \A t \in Task : "set_upstream" \notin Operations[t]
    /\ \A b \in Branch : Tracks[b] \in Branch =>
          RepoOf[Tracks[b]] = RepoOf[b] /\ Tracks[Tracks[b]] \notin Remote

View(store, b) ==
    store[RepoOf[b]]
      \union (IF Tracks[b] \in Remote THEN store[RepoOf[Tracks[b]]] ELSE {})

Readable(store, b, revision) == Nodes(TreeOf(revision)) \subseteq View(store, b)

Follows(b, upstream) ==
    IF Tracks[b] = None THEN upstream = None
    ELSE upstream # None /\ upstream.site = Tracks[b]

TaskReadable(store, b, x) ==
    /\ x.at \in {"commit", "pullHead"} => Readable(store, b, x.revision)
    /\ x.at \in Syncing => /\ Tracks[b] # None /\ x.upstream.site = Tracks[b]
                           /\ Readable(store, b, x.revision)
                           /\ Readable(store, b, x.remote)

AllReadable ==
    /\ \A b \in Branch : Readable(archive, b, head[b])
    /\ \A b \in Branch : Follows(b, marker[b])
    /\ \A h \in Handle : Readable(archive, BranchOf[h], headCache[h])
    /\ \A h \in Handle : markerCache[h] # None => Follows(BranchOf[h], markerCache[h])
    /\ \A t \in Task : TaskReadable(archive, BranchT(t), task[t])

\* The branch of a handle.
LEMMA HandleType ==
    ASSUME NEW h \in Handle
    PROVE  BranchOf[h] \in Branch
  BY TopologyAssumption

\* The site, repository and upstream of a branch.
LEMMA BranchType ==
    ASSUME NEW b \in Branch
    PROVE  /\ b \in Site /\ RepoOf[b] \in Repo
           /\ Tracks[b] # None => Tracks[b] \in Site
           /\ Tracks[b] \in Remote => RepoOf[Tracks[b]] \in Repo
  BY TopologyAssumption DEF Site

\* Archives that grow show a branch no less.
LEMMA ViewGrows ==
    ASSUME NEW store, NEW later, Grows(store, later), NEW b \in Branch
    PROVE  View(store, b) \subseteq View(later, b)
  BY BranchType DEF View, Grows

\* What could be read can still be read.
LEMMA ReadableGrows ==
    ASSUME NEW store, NEW later, Grows(store, later), NEW b \in Branch,
           NEW r, Readable(store, b, r)
    PROVE  Readable(later, b, r)
  BY ViewGrows DEF Readable

\* So can what tasks rely on.
LEMMA TaskReadableGrows ==
    ASSUME NEW store, NEW later, Grows(store, later), NEW b \in Branch,
           NEW x, TaskReadable(store, b, x)
    PROVE  TaskReadable(later, b, x)
  BY ReadableGrows DEF TaskReadable

\* A branch without a revision has nothing to read.
LEMMA NoneReadable ==
    ASSUME NEW store, NEW b
    PROVE  Readable(store, b, None)
<1>1. Nodes(EmptyTree) = {}
  BY DEF Nodes, RootNodes, EntryNodes, EmptyTree
<1> QED BY <1>1 DEF Readable, TreeOf

\* A task at rest relies on nothing.
LEMMA IdleReadable ==
    ASSUME NEW store, NEW b, NEW x, x.at \notin Syncing, x.at \notin {"commit", "pullHead"}
    PROVE  TaskReadable(store, b, x)
  BY DEF TaskReadable

\* What a remote holds, the branches that track it can read.
LEMMA HeldReadable ==
    ASSUME NEW store, NEW b \in Branch, Tracks[b] \in Remote, NEW r,
           Held(store, Tracks[b], r)
    PROVE  Readable(store, b, r)
  BY DEF Held, Readable, View

\* A tree can be read when its novel nodes are in the branch's own archive
\* and the tree they are novel to can be read.
LEMMA NovelReadable ==
    ASSUME NEW store, NEW b \in Branch, NEW from, NEW to,
           Nodes(from) \subseteq View(store, b),
           NovelNodes(from, to) \subseteq store[RepoOf[b]]
    PROVE  Nodes(to) \subseteq View(store, b)
  BY DEF View, NovelNodes

\* A step of one task keeps AllReadable if what it writes is readable.
LEMMA ReadableFrame ==
    ASSUME Typed, AllReadable, NEW t \in Task, NEW y, Goto(t, y),
           Grows(archive, archive'), TaskReadable(archive', BranchT(t), y),
           \A b \in Branch : head'[b] = head[b] \/ Readable(archive', b, head'[b]),
           \A b \in Branch : marker'[b] = marker[b] \/ Follows(b, marker'[b]),
           \A h \in Handle : headCache'[h] = headCache[h]
                              \/ Readable(archive', BranchOf[h], headCache'[h]),
           \A h \in Handle : markerCache'[h] = markerCache[h]
                              \/ Follows(BranchOf[h], markerCache'[h])
                              \/ markerCache'[h] = None
    PROVE  AllReadable'
<1>1. ASSUME NEW b \in Branch
      PROVE  Readable(archive', b, head'[b]) /\ Follows(b, marker'[b])
  BY ReadableGrows DEF AllReadable
<1>2. ASSUME NEW h \in Handle
      PROVE  Readable(archive', BranchOf[h], headCache'[h])
  <2>1. Readable(archive, BranchOf[h], headCache[h]) /\ BranchOf[h] \in Branch
    BY HandleType DEF AllReadable
  <2> QED BY <2>1, ReadableGrows
<1>3. ASSUME NEW h \in Handle, markerCache'[h] # None
      PROVE  Follows(BranchOf[h], markerCache'[h])
  BY <1>3 DEF AllReadable
<1>4. ASSUME NEW u \in Task
      PROVE  TaskReadable(archive', BranchT(u), task'[u])
  <2>1. CASE u = t
    <3>1. task'[t] = y
      BY DEF Goto, Typed, TypeOK
    <3> QED BY <2>1, <3>1
  <2>2. CASE u # t
    <3>1. task'[u] = task[u] /\ BranchT(u) \in Branch
      BY <2>2, PlaceType DEF Goto, Typed, TypeOK
    <3>2. TaskReadable(archive, BranchT(u), task[u])
      BY DEF AllReadable
    <3> QED BY <3>1, <3>2, TaskReadableGrows
  <2> QED BY <2>1, <2>2
<1> QED BY <1>1, <1>2, <1>3, <1>4 DEF AllReadable

\* A refresh caches what its branch's cells hold.
LEMMA RefreshReadable ==
    ASSUME Typed, AllReadable, NEW t \in Task, RefreshHead(t) \/ RefreshMarker(t)
    PROVE  AllReadable'
<1>1. CASE RefreshHead(t)
  <2>1. PICK y : y = [at |-> "refresh"]
    OBVIOUS
  <2>2. TaskReadable(archive', BranchT(t), y)
    BY <2>1, IdleReadable DEF Syncing
  <2>3. /\ Goto(t, y) /\ archive' = archive /\ head' = head /\ marker' = marker
        /\ markerCache' = markerCache
        /\ headCache' = [headCache EXCEPT ![HandleT(t)] = head[BranchT(t)]]
    BY <1>1, <2>1 DEF RefreshHead, cells
  <2>4. ASSUME NEW h \in Handle
        PROVE  headCache'[h] = headCache[h] \/ Readable(archive', BranchOf[h], headCache'[h])
    <3>1. CASE h = HandleT(t)
      <4>1. headCache'[h] = head[BranchOf[h]] /\ BranchOf[h] \in Branch
        BY <2>3, <3>1, PlaceType DEF Typed, TypeOK
      <4>2. Readable(archive, BranchOf[h], head[BranchOf[h]])
        BY <4>1 DEF AllReadable
      <4> QED BY <2>3, <4>1, <4>2
    <3>2. CASE h # HandleT(t)
      BY <2>3, <3>2 DEF Typed, TypeOK
    <3> QED BY <3>1, <3>2
  <2> QED BY <2>2, <2>3, <2>4, GrowsNot, ReadableFrame
<1>2. CASE RefreshMarker(t)
  <2>1. TaskReadable(archive', BranchT(t), Idle)
    BY IdleReadable, IdleOK DEF Syncing
  <2>2. /\ Goto(t, Idle) /\ archive' = archive /\ head' = head /\ marker' = marker
        /\ headCache' = headCache
        /\ markerCache' = [markerCache EXCEPT ![HandleT(t)] = marker[BranchT(t)]]
    BY <1>2 DEF RefreshMarker, cells
  <2>3. ASSUME NEW h \in Handle
        PROVE  markerCache'[h] = markerCache[h] \/ Follows(BranchOf[h], markerCache'[h])
    <3>1. CASE h = HandleT(t)
      <4>1. markerCache'[h] = marker[BranchOf[h]] /\ BranchOf[h] \in Branch
        BY <2>2, <3>1, PlaceType DEF Typed, TypeOK
      <4> QED BY <4>1 DEF AllReadable
    <3>2. CASE h # HandleT(t)
      BY <2>2, <3>2 DEF Typed, TypeOK
    <3> QED BY <3>1, <3>2
  <2> QED BY <2>1, <2>2, <2>3, GrowsNot, ReadableFrame
<1> QED BY <1>1, <1>2

\* A commit imports the blocks that are not in the head's tree.
LEMMA PrepareReadable ==
    ASSUME Typed, AllReadable, NEW t \in Task, CommitPrepare(t)
    PROVE  AllReadable'
<1>1. PICK i, y, base, tree, reads :
        CommitStep(t, i, y, base, tree, reads)
  BY CommitTask
<1>2. PICK b : b = BranchT(t)
  OBVIOUS
<1>3. b \in Branch /\ RepoT(t) = RepoOf[b] /\ RepoOf[b] \in Repo
  BY <1>2, PlaceType, BranchType
<1>4. PICK novel : novel = NovelNodes(TreeOf(base), tree)
  OBVIOUS
<1>5. Keep(RepoOf[b], reads, novel)
  BY <1>1, <1>3, <1>4 DEF CommitStep
<1>6. Grows(archive, archive') /\ novel \subseteq archive'[RepoOf[b]]
  BY <1>3, <1>5, KeepGrows
<1>7. Readable(archive, b, base)
  <2>1. Readable(archive, BranchOf[HandleT(t)], headCache[HandleT(t)])
    BY PlaceType DEF AllReadable
  <2> QED BY <1>1, <1>2, <2>1, PlaceType DEF CommitStep
<1>8. Nodes(TreeOf(base)) \subseteq View(archive', b)
  BY <1>3, <1>6, <1>7, ViewGrows DEF Readable
<1>9. NovelNodes(TreeOf(base), tree) \subseteq archive'[RepoOf[b]]
  BY <1>4, <1>6
<1>10. Nodes(tree) \subseteq View(archive', b)
  BY <1>3, <1>8, <1>9, NovelReadable
<1>11. y.revision # None /\ y.revision.tree = tree /\ y.at = "commit" /\ Goto(t, y)
  BY <1>1, NoneAssumption DEF CommitStep
<1>12. TaskReadable(archive', b, y)
  BY <1>10, <1>11 DEF TaskReadable, Readable, TreeOf, Syncing
<1>13. head' = head /\ marker' = marker /\ headCache' = headCache /\ markerCache' = markerCache
  BY <1>1 DEF CommitStep, cells, caches
<1> QED BY <1>2, <1>6, <1>11, <1>12, <1>13, ReadableFrame

\* The head of a task's branch, and its handle's cache, take a readable revision.
LEMMA HeadReadableStep ==
    ASSUME Typed, AllReadable, NEW t \in Task, NEW y, Goto(t, y), NEW r,
           TaskReadable(archive, BranchT(t), y), Readable(archive, BranchT(t), r),
           UNCHANGED <<marker, archive, markerCache>>,
           \/ UNCHANGED <<head, headCache>>
           \/ /\ head' = [head EXCEPT ![BranchT(t)] = r]
              /\ headCache' = [headCache EXCEPT ![HandleT(t)] = r]
    PROVE  AllReadable'
<1>1. ASSUME NEW b \in Branch
      PROVE  head'[b] = head[b] \/ Readable(archive', b, head'[b])
  <2>1. b \in Site
    BY BranchType
  <2> QED BY <2>1 DEF Typed, TypeOK
<1>2. ASSUME NEW h \in Handle
      PROVE  headCache'[h] = headCache[h] \/ Readable(archive', BranchOf[h], headCache'[h])
  BY PlaceType DEF Typed, TypeOK
<1> QED BY <1>1, <1>2, GrowsNot, ReadableFrame

\* A commit or a pull publishes a revision that can be read.
LEMMA PublishReadable ==
    ASSUME Typed, AllReadable, NEW t \in Task, CommitPublish(t) \/ PullHead(t)
    PROVE  AllReadable'
<1>1. PICK x : x = task[t]
  OBVIOUS
<1>2. TaskReadable(archive, BranchT(t), x)
  BY <1>1 DEF AllReadable
<1>3. PICK r : r = x.revision
  OBVIOUS
<1>4. x.at \in {"commit", "pullHead"}
  BY <1>1 DEF CommitPublish, PullHead
<1>5. Readable(archive, BranchT(t), r)
  BY <1>2, <1>3, <1>4 DEF TaskReadable
<1>6. CASE CommitPublish(t)
  <2>1. /\ Goto(t, Idle) /\ UNCHANGED <<marker, archive, markerCache>>
        /\ \/ UNCHANGED <<head, headCache>>
           \/ /\ head' = [head EXCEPT ![BranchT(t)] = r]
              /\ headCache' = [headCache EXCEPT ![HandleT(t)] = r]
    BY <1>1, <1>3, <1>6 DEF CommitPublish
  <2>2. TaskReadable(archive, BranchT(t), Idle)
    BY IdleReadable, IdleOK DEF Syncing
  <2> QED BY <1>5, <2>1, <2>2, HeadReadableStep
<1>7. CASE PullHead(t)
  <2>1. PICK y \in TaskType :
          /\ Goto(t, y) /\ UNCHANGED <<marker, archive, markerCache>>
          /\ \/ UNCHANGED <<head, headCache>>
             \/ /\ head' = [head EXCEPT ![BranchT(t)] = r]
                /\ headCache' = [headCache EXCEPT ![HandleT(t)] = r]
          /\ y = Idle \/ y.at = "pullMarker"
    BY <1>1, <1>3, <1>7, PullHeadTask
  <2>2. TaskReadable(archive, BranchT(t), y)
    BY <2>1, IdleReadable, IdleOK DEF Syncing
  <2> QED BY <1>5, <2>1, <2>2, HeadReadableStep
<1> QED BY <1>6, <1>7

\* A step that writes no cell and no cache of a branch.
LEMMA ReadableQuiet ==
    ASSUME Typed, AllReadable, NEW t \in Task, NEW y, Goto(t, y),
           Grows(archive, archive'), TaskReadable(archive', BranchT(t), y),
           UNCHANGED <<head, marker, headCache, markerCache>>
    PROVE  AllReadable'
  BY ReadableFrame

\* A sync starts from the handle's head and the configured upstream.
LEMMA ContactReadable ==
    ASSUME Steady, Typed, AllReadable, NEW t \in Task,
           PullStart(t) \/ PushStart(t) \/ FetchStart(t)
    PROVE  AllReadable'
<1>1. PICK op \in {"pull", "push", "fetch"} : Contact(t, op)
  BY DEF PullStart, PushStart, FetchStart
<1>2. PICK y \in TaskType :
        /\ Goto(t, y)
        /\ UNCHANGED <<cells, archive, caches, bounds>>
        /\ y.at \in Syncing
        /\ y.upstream = markerCache[HandleT(t)]
        /\ markerCache[HandleT(t)] # None
        /\ y.revision = IF op = "push" THEN headCache[HandleT(t)] ELSE None
        /\ \/ y.upstream.site \in Branch /\ y.remote = head[y.upstream.site]
           \/ y.upstream.site \in Remote /\ y.remote = None
  BY <1>1, ContactTask
<1>3. PICK b : b = BranchT(t)
  OBVIOUS
<1>4. b \in Branch /\ b = BranchOf[HandleT(t)] /\ HandleT(t) \in Handle
  BY <1>3, PlaceType
<1>5. Tracks[b] # None /\ y.upstream.site = Tracks[b]
  <2>1. Follows(b, markerCache[HandleT(t)])
    BY <1>2, <1>4 DEF AllReadable
  <2> QED BY <1>2, <2>1 DEF Follows
<1>6. Readable(archive, b, y.revision)
  BY <1>2, <1>4, NoneReadable DEF AllReadable
<1>7. Readable(archive, b, y.remote)
  <2>1. CASE y.upstream.site \in Branch /\ y.remote = head[y.upstream.site]
    <3>1. PICK c : c = Tracks[b]
      OBVIOUS
    <3>2. c \in Branch /\ RepoOf[c] = RepoOf[b] /\ Tracks[c] \notin Remote
      BY <1>4, <1>5, <2>1, <3>1 DEF Steady
    <3>3. Readable(archive, c, head[c]) /\ y.remote = head[c]
      BY <1>5, <2>1, <3>1, <3>2 DEF AllReadable
    <3>4. View(archive, c) \subseteq View(archive, b)
      BY <3>2 DEF View
    <3> QED BY <3>3, <3>4 DEF Readable
  <2>2. CASE y.upstream.site \in Remote /\ y.remote = None
    BY <2>2, NoneReadable
  <2> QED BY <1>2, <2>1, <2>2
<1>8. y.at \notin {"commit", "pullHead"}
  BY <1>2 DEF Syncing
<1>9. TaskReadable(archive, b, y)
  BY <1>5, <1>6, <1>7, <1>8 DEF TaskReadable
<1>10. UNCHANGED <<archive, head, marker, headCache, markerCache>>
  BY <1>2 DEF cells, caches
<1> QED BY <1>2, <1>3, <1>9, <1>10, GrowsNot, ReadableQuiet

\* A task that moves on within its sync, or ends it.
LEMMA MoveReadable ==
    ASSUME NEW store, NEW b \in Branch, NEW x, NEW y,
           x.at \in Syncing, TaskReadable(store, b, x),
           \/ y = Idle
           \/ /\ y.at \in Syncing
              /\ y.upstream = x.upstream /\ y.revision = x.revision
              /\ y.remote = x.remote \/ Readable(store, b, y.remote)
    PROVE  TaskReadable(store, b, y)
<1>1. CASE y = Idle
  BY <1>1, IdleReadable, IdleOK DEF Syncing
<1>2. CASE /\ y.at \in Syncing
           /\ y.upstream = x.upstream /\ y.revision = x.revision
           /\ y.remote = x.remote \/ Readable(store, b, y.remote)
  BY <1>2 DEF TaskReadable, Syncing
<1> QED BY <1>1, <1>2

\* What the remote holds, a branch that tracks it can read.
LEMMA ResolveReadable ==
    ASSUME Typed, AllHeld, AllReadable, NEW t \in Task, FetchResolve(t)
    PROVE  AllReadable'
<1>1. PICK x : x = task[t]
  OBVIOUS
<1>2. PICK y \in TaskType :
        /\ Goto(t, y)
        /\ UNCHANGED <<cells, archive, caches, bounds>>
        /\ x.at = "resolve"
        /\ \/ y = Idle
           \/ /\ y.upstream = x.upstream /\ y.revision = x.revision
              /\ \/ y.at = "record" /\ y.remote = head[x.upstream.site]
                 \/ y.at = "check" /\ y.remote = x.remote
  BY <1>1, ResolveTask
<1>3. PICK b : b = BranchT(t)
  OBVIOUS
<1>4. b \in Branch
  BY <1>3, PlaceType
<1>5. TaskReadable(archive, b, x) /\ x.at \in Syncing
  BY <1>1, <1>2, <1>3 DEF AllReadable, Syncing
<1>6. ASSUME y.remote = head[x.upstream.site]
      PROVE  y.remote = x.remote \/ Readable(archive, b, y.remote)
  <2>1. PICK s : s = x.upstream.site
    OBVIOUS
  <2>2. s = Tracks[b] /\ Tracks[b] # None
    BY <1>5, <2>1 DEF TaskReadable
  <2>3. s \in Remote
    BY <1>1, <1>2, <2>1, TaskTyped DEF TaskOK
  <2>4. Held(archive, Tracks[b], head[s])
    BY <2>2, <2>3 DEF AllHeld
  <2> QED BY <1>4, <1>6, <2>1, <2>2, <2>3, <2>4, HeldReadable
<1>7. TaskReadable(archive, b, y)
  BY <1>2, <1>4, <1>5, <1>6, MoveReadable DEF Syncing
<1>8. UNCHANGED <<archive, head, marker, headCache, markerCache>>
  BY <1>2 DEF cells, caches
<1> QED BY <1>2, <1>3, <1>7, <1>8, GrowsNot, ReadableQuiet

\* A snapshot is no head and no archive.
LEMMA RecordReadable ==
    ASSUME Typed, AllReadable, NEW t \in Task, FetchRecord(t) \/ PushSnapshot(t)
    PROVE  AllReadable'
<1>1. PICK x : x = task[t]
  OBVIOUS
<1>2. PICK y \in TaskType :
        /\ Goto(t, y)
        /\ UNCHANGED <<head, marker, archive, caches, bounds>>
        /\ x.at \in {"record", "pushSnapshot"}
        /\ \/ y = Idle
           \/ /\ y.upstream = x.upstream /\ y.revision = x.revision
              /\ y.remote = x.remote
              /\ y.at \in {"merge", "check", "pushMarker"}
  <2>1. CASE FetchRecord(t)
    BY <1>1, <2>1, RecordTask
  <2>2. CASE PushSnapshot(t)
    BY <1>1, <2>2, PushSnapshotTask
  <2> QED BY <2>1, <2>2
<1>3. PICK b : b = BranchT(t)
  OBVIOUS
<1>4. b \in Branch
  BY <1>3, PlaceType
<1>5. TaskReadable(archive, b, x) /\ x.at \in Syncing
  BY <1>1, <1>2, <1>3 DEF AllReadable, Syncing
<1>6. y = Idle \/ y.at \in Syncing
  BY <1>2 DEF Syncing
<1>7. TaskReadable(archive, b, y)
  BY <1>2, <1>4, <1>5, <1>6, MoveReadable
<1>8. UNCHANGED <<archive, head, marker, headCache, markerCache>>
  BY <1>2 DEF caches
<1> QED BY <1>2, <1>3, <1>7, <1>8, GrowsNot, ReadableQuiet

\* A merge reads, and imports, what is new to the branch.
LEMMA MergeReadable ==
    ASSUME Typed, AllReadable, NEW t \in Task, PullMerge(t)
    PROVE  AllReadable'
<1>1. PICK x, base, ours, tree, reads :
        /\ x = task[t] /\ base = Base(HandleT(t)) /\ ours = headCache[HandleT(t)]
        /\ tree = Merge(base, TreeOf(ours), x.remote.tree)
        /\ reads = DiffReads(base, TreeOf(ours))
                     \union EditReads(x.remote.tree, Changed(base, TreeOf(ours)))
  OBVIOUS
<1>2. x.at = "merge" /\ UNCHANGED <<cells, caches>> /\ x.remote \in Revisions
  BY <1>1, MergeTask
<1>3. PICK y \in TaskType :
        /\ Goto(t, y)
        /\ \/ y = Idle /\ UNCHANGED archive
           \/ /\ y.at = "pullHead"
              /\ y.revision = x.remote \/ y.revision.tree = tree
              /\ Keep(RepoT(t), reads, NovelNodes(x.remote.tree, tree))
  BY <1>1, MergeTask
<1>4. PICK b : b = BranchT(t)
  OBVIOUS
<1>5. b \in Branch /\ RepoT(t) = RepoOf[b] /\ RepoOf[b] \in Repo
  BY <1>4, PlaceType, BranchType
<1>6. UNCHANGED <<head, marker, headCache, markerCache>>
  BY <1>2 DEF cells, caches
<1>7. CASE y = Idle /\ UNCHANGED archive
  <2>1. TaskReadable(archive', b, y)
    BY <1>7, IdleReadable, IdleOK DEF Syncing
  <2> QED BY <1>3, <1>4, <1>6, <1>7, <2>1, GrowsNot, ReadableQuiet
<1>8. CASE /\ y.at = "pullHead"
           /\ y.revision = x.remote \/ y.revision.tree = tree
           /\ Keep(RepoT(t), reads, NovelNodes(x.remote.tree, tree))
  <2>1. PICK novel : novel = NovelNodes(x.remote.tree, tree)
    OBVIOUS
  <2>2. Keep(RepoOf[b], reads, novel)
    BY <1>5, <1>8, <2>1
  <2>3. Grows(archive, archive') /\ novel \subseteq archive'[RepoOf[b]]
    BY <1>5, <2>2, KeepGrows
  <2>4. Readable(archive, b, x.remote) /\ TreeOf(x.remote) = x.remote.tree
    <3>1. TaskReadable(archive, b, x)
      BY <1>1, <1>4 DEF AllReadable
    <3> QED BY <1>2, <3>1, NoneAssumption DEF TaskReadable, Syncing, TreeOf
  <2>5. Nodes(x.remote.tree) \subseteq View(archive', b)
    BY <1>5, <2>3, <2>4, ViewGrows DEF Readable
  <2>6. NovelNodes(x.remote.tree, tree) \subseteq archive'[RepoOf[b]]
    BY <2>1, <2>3
  <2>7. Nodes(tree) \subseteq View(archive', b)
    BY <1>5, <2>5, <2>6, NovelReadable
  <2>8. y.revision \in Revisions
    BY <1>8, PullFields
  <2>9. TreeOf(y.revision) = y.revision.tree
    BY <2>8, NoneAssumption DEF TreeOf
  <2>10. Nodes(TreeOf(y.revision)) \subseteq View(archive', b)
    BY <1>8, <2>4, <2>5, <2>7, <2>9
  <2>11. TaskReadable(archive', b, y)
    BY <1>8, <2>10 DEF TaskReadable, Readable, Syncing
  <2> QED BY <1>3, <1>4, <1>6, <2>3, <2>11, ReadableQuiet
<1> QED BY <1>3, <1>7, <1>8

\* A marker keeps the upstream it is configured with.
LEMMA MarkerReadable ==
    ASSUME Steady, Typed, AllReadable, NEW t \in Task,
           PullMarker(t) \/ PushMarker(t) \/ SetUpstream(t)
    PROVE  AllReadable'
<1>1. ~SetUpstream(t)
  BY SetUpstreamContent DEF Steady
<1>2. PICK b : b = BranchT(t)
  OBVIOUS
<1>3. b \in Branch /\ b = BranchOf[HandleT(t)] /\ HandleT(t) \in Handle
  BY <1>2, PlaceType
<1>4. PICK content \in Upstreams : Follows(b, content) /\ PublishMarker(t, content)
  <2>1. CASE PullMarker(t)
    <3>1. PICK content \in Upstreams : /\ content.site = markerCache[HandleT(t)].site
                                       /\ PublishMarker(t, content)
      BY <2>1, PullMarkerContent
    <3>2. Follows(b, markerCache[HandleT(t)]) /\ markerCache[HandleT(t)] # None
      BY <1>3, <2>1, PullMarkerContent DEF AllReadable
    <3>3. Follows(b, content)
      BY <3>1, <3>2, NoneAssumption DEF Follows
    <3> QED BY <3>1, <3>3
  <2>2. CASE PushMarker(t)
    <3>1. PICK content \in Upstreams : /\ content.site = task[t].upstream.site
                                       /\ PublishMarker(t, content)
      BY <2>2, PushMarkerContent
    <3>2. TaskReadable(archive, b, task[t]) /\ task[t].at = "pushMarker"
      BY <1>2, <2>2, PushMarkerContent DEF AllReadable
    <3>3. Tracks[b] # None /\ task[t].upstream.site = Tracks[b]
      BY <3>2 DEF TaskReadable, Syncing
    <3>4. Follows(b, content)
      BY <3>1, <3>3, NoneAssumption DEF Follows
    <3> QED BY <3>1, <3>4
  <2> QED BY <1>1, <2>1, <2>2
<1>5. /\ Goto(t, Idle) /\ UNCHANGED <<head, archive, headCache>>
      /\ \/ UNCHANGED <<marker, markerCache>>
         \/ /\ marker' = [marker EXCEPT ![b] = content]
            /\ markerCache' = [markerCache EXCEPT ![HandleT(t)] = content]
  BY <1>2, <1>4 DEF PublishMarker
<1>6. \A c \in Branch : marker'[c] = marker[c] \/ Follows(c, marker'[c])
  BY <1>4, <1>5 DEF Typed, TypeOK
<1>7. \A h \in Handle : markerCache'[h] = markerCache[h] \/ Follows(BranchOf[h], markerCache'[h])
  BY <1>3, <1>4, <1>5 DEF Typed, TypeOK
<1>8. TaskReadable(archive', BranchT(t), Idle)
  BY IdleReadable, IdleOK DEF Syncing
<1> QED BY <1>5, <1>6, <1>7, <1>8, GrowsNot, ReadableFrame

\* A push that passes the check, or fails in its upload, adds to an archive.
\* Nothing that is read changes.
LEMMA CheckReadable ==
    ASSUME Typed, AllReadable, NEW t \in Task, PushCheck(t) \/ PushUploadFails(t)
    PROVE  AllReadable'
<1>1. PICK x, repo : x = task[t] /\ repo = RepoOf[x.upstream.site]
  OBVIOUS
<1>2. PICK y, sent :
        /\ y \in TaskType /\ Goto(t, y)
        /\ UNCHANGED <<cells, caches>>
        /\ x.at = "check"
        /\ \/ y = Idle
           \/ /\ y.at = "pushHead" /\ y.upstream = x.upstream
              /\ y.revision = x.revision /\ y.remote = x.remote
        /\ \/ UNCHANGED archive
           \/ /\ x.upstream.site \in Remote
              /\ archive' = [archive EXCEPT ![repo] = archive[repo] \union sent]
  <2>1. CASE PushCheck(t)
    <3>1. PICK novel : novel = NovelNodes(x.upstream.tree, x.revision.tree)
      OBVIOUS
    <3>2. \E y \in TaskType :
             /\ Goto(t, y)
             /\ UNCHANGED <<cells, caches>>
             /\ x.at = "check"
             /\ \/ y = Idle
                \/ /\ y.at = "pushHead" /\ y.upstream = x.upstream
                   /\ y.revision = x.revision /\ y.remote = x.remote
             /\ \/ UNCHANGED archive
                \/ /\ x.upstream.site \in Remote
                   /\ archive' = [archive EXCEPT ![repo] = archive[repo] \union novel]
      BY <1>1, <2>1, <3>1, CheckTask
    <3> QED BY <3>2
  <2>2. CASE PushUploadFails(t)
    <3>1. PICK sent : archive' = [archive EXCEPT ![repo] = archive[repo] \union sent]
      <4> HIDE DEF NovelNodes
      <4> QED BY <1>1, <2>2 DEF PushUploadFails
    <3> QED BY <1>1, <2>2, <3>1, IdleOK DEF PushUploadFails
  <2> QED BY <2>1, <2>2
<1>3. PICK b : b = BranchT(t)
  OBVIOUS
<1>4. b \in Branch
  BY <1>3, PlaceType
<1>5. Grows(archive, archive')
  BY <1>1, <1>2, RemoteType, GrowsAt, GrowsNot
<1>6. TaskReadable(archive, b, x) /\ x.at \in Syncing
  BY <1>1, <1>2, <1>3 DEF AllReadable, Syncing
<1>7. y = Idle \/ y.at \in Syncing
  BY <1>2 DEF Syncing
<1>8. TaskReadable(archive, b, y)
  BY <1>2, <1>4, <1>6, <1>7, MoveReadable
<1>9. TaskReadable(archive', b, y)
  BY <1>4, <1>5, <1>8, TaskReadableGrows
<1>10. UNCHANGED <<head, marker, headCache, markerCache>>
  BY <1>2 DEF cells, caches
<1> QED BY <1>2, <1>3, <1>5, <1>9, <1>10, ReadableQuiet

\* A push into a local branch: the pusher reads the local archive only.
LEMMA PushHeadReadable ==
    ASSUME Steady, Typed, AllReadable, NEW t \in Task, PushHead(t)
    PROVE  AllReadable'
<1>1. PICK x : x = task[t]
  OBVIOUS
<1>2. PICK y \in TaskType :
        /\ Goto(t, y)
        /\ UNCHANGED <<marker, snapshot, archive, caches, bounds>>
        /\ x.at = "pushHead"
        /\ \/ y = Idle /\ UNCHANGED head
           \/ /\ head' = [head EXCEPT ![x.upstream.site] = x.revision]
              /\ y.at = IF x.upstream.site \in Branch THEN "pushMarker"
                                                      ELSE "pushSnapshot"
              /\ y.upstream = x.upstream
              /\ y.revision = x.revision /\ y.remote = x.remote
  BY <1>1, PushHeadTask
<1>3. PICK b : b = BranchT(t)
  OBVIOUS
<1>4. b \in Branch
  BY <1>3, PlaceType
<1>5. TaskReadable(archive, b, x) /\ x.at \in Syncing
  BY <1>1, <1>2, <1>3 DEF AllReadable, Syncing
<1>6. y = Idle \/ y.at \in Syncing
  BY <1>2 DEF Syncing
<1>7. TaskReadable(archive, b, y)
  BY <1>2, <1>4, <1>5, <1>6, MoveReadable
<1>8. ASSUME NEW c \in Branch
      PROVE  head'[c] = head[c] \/ Readable(archive', c, head'[c])
  <2>1. c \in Site /\ head \in [Site -> OptRevision]
    BY BranchType DEF Typed, TypeOK
  <2>2. head'[c] = head[c] \/ (c = x.upstream.site /\ head'[c] = x.revision)
    BY <1>2, <2>1
  <2>3. CASE c = x.upstream.site /\ head'[c] = x.revision
    <3>1. c = Tracks[b] /\ Readable(archive, b, x.revision)
      BY <1>5, <2>3 DEF TaskReadable
    <3>2. RepoOf[c] = RepoOf[b] /\ Tracks[b] \notin Remote
      BY <1>4, <3>1, RemoteType DEF Steady
    <3>3. View(archive, b) \subseteq View(archive, c)
      BY <3>2 DEF View
    <3> QED BY <1>2, <2>3, <3>1, <3>3 DEF Readable
  <2> QED BY <2>2, <2>3
<1>9. UNCHANGED <<archive, marker, headCache, markerCache>>
  BY <1>2 DEF caches
<1> QED BY <1>2, <1>3, <1>7, <1>8, <1>9, GrowsNot, ReadableFrame

\* A crash changes no cell and no archive.
LEMMA CrashReadable ==
    ASSUME Typed, AllReadable, NEW r \in Repo, Crash(r)
    PROVE  AllReadable'
<1>1. UNCHANGED <<head, marker, archive>>
  BY DEF Crash, cells
<1>2. ASSUME NEW h \in Handle
      PROVE  /\ headCache'[h] = headCache[h] \/ headCache'[h] = None
             /\ markerCache'[h] = markerCache[h] \/ markerCache'[h] = None
  BY DEF Crash
<1>3. ASSUME NEW h \in Handle
      PROVE  /\ Readable(archive', BranchOf[h], headCache'[h])
             /\ markerCache'[h] # None => Follows(BranchOf[h], markerCache'[h])
  BY <1>1, <1>2, NoneReadable DEF AllReadable
<1>4. ASSUME NEW t \in Task
      PROVE  TaskReadable(archive', BranchT(t), task'[t])
  <2>1. task'[t] = Idle \/ task'[t] = task[t]
    BY DEF Crash
  <2>2. TaskReadable(archive, BranchT(t), Idle)
    BY IdleReadable, IdleOK DEF Syncing
  <2>3. TaskReadable(archive, BranchT(t), task[t])
    BY DEF AllReadable
  <2> QED BY <1>1, <2>1, <2>2, <2>3
<1> QED BY <1>1, <1>3, <1>4 DEF AllReadable

\* AllReadable is inductive relative to Typed and AllHeld.
LEMMA ReadableNext ==
    ASSUME Steady, Typed, AllHeld, AllReadable, [Next]_vars
    PROVE  AllReadable'
<1>1. ASSUME NEW t \in Task, Step(t) PROVE AllReadable'
  BY <1>1, RefreshReadable, PrepareReadable, PublishReadable, ContactReadable,
     ResolveReadable, RecordReadable, MergeReadable, MarkerReadable, CheckReadable,
     PushHeadReadable DEF Step
<1>2. CASE UNCHANGED vars
  BY <1>2 DEF AllReadable, vars, cells, caches
<1> QED BY <1>1, <1>2, CrashReadable DEF Next

\* No branch has anything to read in the initial states.
LEMMA ReadableInit == Init => AllReadable
<1> SUFFICES ASSUME Init PROVE AllReadable
  OBVIOUS
<1>1. ASSUME NEW b \in Branch
      PROVE  head[b] = None /\ Follows(b, marker[b])
  <2>1. b \in Site
    BY BranchType
  <2>2. marker[b] = IF Tracks[b] = None THEN None ELSE [site |-> Tracks[b], tree |-> EmptyTree]
    BY DEF Init
  <2>3. CASE Tracks[b] = None
    BY <2>1, <2>2, <2>3 DEF Init, Follows
  <2>4. CASE Tracks[b] # None
    <3>1. marker[b] \in Upstreams
      BY <2>2, <2>4, BranchType, EmptyTreeType DEF Upstreams
    <3>2. marker[b].site = Tracks[b]
      BY <2>2, <2>4
    <3> QED BY <2>1, <2>4, <3>1, <3>2, NoneAssumption DEF Init, Follows
  <2> QED BY <2>3, <2>4
<1>2. ASSUME NEW h \in Handle
      PROVE  headCache[h] = None /\ markerCache[h] = marker[BranchOf[h]]
  BY DEF Init
<1>3. ASSUME NEW t \in Task PROVE TaskReadable(archive, BranchT(t), task[t])
  BY IdleOK, IdleReadable DEF Init, Syncing
<1> QED BY <1>1, <1>2, <1>3, NoneReadable, HandleType DEF AllReadable

(***************************************************************************)
(* Every revision a branch points at can be read from the archives the     *)
(* branch reads through, although a pull copies no more than the blocks    *)
(* its merge touched and a push to a local branch copies none: for any     *)
(* number of branches, handles and tasks, while the upstreams are the      *)
(* configured ones and a local upstream does not read through a remote.    *)
(***************************************************************************)
THEOREM ReadsHold ==
    ASSUME Steady
    PROVE  Spec => []HeadReadable
<1>1. Init => AllReadable
  BY ReadableInit
<1>2. Typed /\ AllHeld /\ AllReadable /\ [Next]_vars => AllReadable'
  BY ReadableNext
<1>3. AllReadable => HeadReadable
  <2> SUFFICES ASSUME AllReadable, NEW b \in Branch
               PROVE  Nodes(TreeOf(head[b])) \subseteq Reachable(RepoOf[b], marker[b])
    BY DEF HeadReadable
  <2>1. Nodes(TreeOf(head[b])) \subseteq View(archive, b) /\ Follows(b, marker[b])
    BY DEF AllReadable, Readable
  <2>2. Tracks[b] = None => Tracks[b] \notin Remote
    BY TopologyAssumption DEF Site
  <2>3. View(archive, b) \subseteq Reachable(RepoOf[b], marker[b])
    BY <2>1, <2>2 DEF View, Follows, Reachable
  <2> QED BY <2>1, <2>3
<1> QED BY <1>1, <1>2, <1>3, TypedHolds, HeldHolds, PTL DEF Spec

-----------------------------------------------------------------------------
(***************************************************************************)
(* Nothing is lost.  Stated for edits that keep every entry they find:     *)
(* assertions, and retractions, which leave a tombstone (a replacement     *)
(* removes entries on purpose); and for tasks that keep apart: each has a  *)
(* handle of its own, and one that refreshes its handle and pushes from it *)
(* is alone on its branch.  Without the first, a task merges a revision it *)
(* fetched before a clone's pull moved the base; without the second, it    *)
(* pushes a head it read before and a marker it read after another's push. *)
(***************************************************************************)
AddOnly == \A i \in Instruction : i.apply # "replace"
Apart ==
    /\ \A t, u \in Task : HandleT(t) = HandleT(u) => t = u
    /\ \A t, u \in Task :
         BranchT(t) = BranchT(u) /\ {"refresh", "push"} \subseteq Operations[t] => t = u

Within(x, y) == Entries(x) \subseteq Entries(y)

\* A marker is behind what its site publishes and behind the branch itself.
MarkerKeeps(heads, revision, m) ==
    m # None => /\ Within(m.tree, TreeOf(heads[m.site]))
                /\ Within(m.tree, TreeOf(revision))

\* Task t at work on a branch with the marker `at_branch`, through a handle
\* with the cached revision `cached` and the cached marker m.  Only a handle
\* that is pushed from needs its marker behind its cached revision: a merge
\* from a torn handle is refused by the head's compare-and-swap.
TaskKeeps(t, heads, at_branch, cached, m, x) ==
    /\ x.at = "refresh" => "refresh" \in Operations[t]
    /\ "push" \in Operations[t] =>
         /\ m # None => Within(m.tree, TreeOf(cached))
         /\ x.at = "refresh" /\ at_branch # None => Within(at_branch.tree, TreeOf(cached))
    /\ x.at \in {"commit", "pullHead"} => x.expected = cached
    /\ x.at = "commit" => Within(TreeOf(cached), TreeOf(x.revision))
    /\ x.at \in Syncing =>
         /\ x.upstream = m
         /\ Within(TreeOf(x.remote), TreeOf(heads[m.site]))
         /\ x.remote # None => Within(m.tree, TreeOf(x.remote))
         /\ x.op = "push" => /\ "push" \in Operations[t]
                             /\ Within(m.tree, TreeOf(x.revision))
                             /\ Within(TreeOf(x.revision), TreeOf(cached))
    /\ x.at = "resolve" => x.remote = None
    /\ x.at = "check" /\ x.upstream.site \in Remote => x.remote \in {None, x.snap}
    /\ x.at = "pushHead" => Within(TreeOf(x.remote), TreeOf(x.revision))
    /\ x.at \in {"pushSnapshot", "pushMarker"} =>
         Within(TreeOf(x.revision), TreeOf(heads[m.site]))
    /\ x.at \in {"pullHead", "pullMarker"} =>
         /\ m # None
         /\ Within(x.tree, TreeOf(heads[m.site]))
         /\ Within(m.tree, x.tree)
    /\ x.at = "pullHead" =>
         /\ Within(m.tree, TreeOf(cached)) => Within(TreeOf(cached), TreeOf(x.revision))
         /\ Within(m.tree, TreeOf(x.revision)) => Within(x.tree, TreeOf(x.revision))
    /\ x.at = "pullMarker" => Within(x.tree, TreeOf(cached))

Keeps ==
    /\ \A b \in Branch : MarkerKeeps(head, head[b], marker[b])
    /\ \A h \in Handle : Within(TreeOf(headCache[h]), TreeOf(head[BranchOf[h]]))
    /\ \A h \in Handle : MarkerKeeps(head, head[BranchOf[h]], markerCache[h])
    /\ \A t \in Task :
         TaskKeeps(t, head, marker[BranchT(t)], headCache[HandleT(t)],
                   markerCache[HandleT(t)], task[t])

HeadsGrow(heads, later) == \A s \in Site : Within(TreeOf(heads[s]), TreeOf(later[s]))

\* Containment of entries is transitive.
LEMMA WithinTransitive ==
    ASSUME NEW x, NEW y, NEW z, Within(x, y), Within(y, z)
    PROVE  Within(x, z)
  BY DEF Within

\* The empty tree is within every tree, and every tree within itself.
LEMMA EmptyWithin ==
    ASSUME NEW x
    PROVE  Within(EmptyTree, x) /\ Within(TreeOf(None), x) /\ Within(x, x)
  BY DEF Within, Entries, EmptyTree, TreeOf

\* The tree of a revision.
LEMMA TreeOfRevision ==
    ASSUME NEW r \in Revisions
    PROVE  r # None /\ TreeOf(r) = r.tree /\ r.tree \in Tree
  BY NoneAssumption DEF TreeOf, Revisions

\* Heads left alone have not lost anything.
LEMMA HeadsGrowNot ==
    ASSUME NEW heads, NEW later, later = heads
    PROVE  HeadsGrow(heads, later)
  BY DEF HeadsGrow, Within

\* An assertion or a retraction keeps the entries of the tree.
LEMMA ApplyKeeps ==
    ASSUME AddOnly, NEW tree \in Tree, NEW i \in Instruction
    PROVE  Within(tree, Apply(tree, i))
<1>1. i.key \in Key /\ i.apply \in {"assert", "retract"}
  BY InstructionAssumption DEF AddOnly
<1>2. Added # None /\ Removed # None
  BY InstructionAssumption, ValueAssumption
<1>3. PICK v : v \in {Added, Removed} /\ Apply(tree, i) = [tree EXCEPT ![i.key] = v]
  BY <1>1 DEF Apply
<1> QED BY <1>1, <1>2, <1>3 DEF Within, Entries, Tree

(***************************************************************************)
(* A merge keeps the entries of both sides when neither has lost one of    *)
(* the base: an entry changed locally is written, never removed.           *)
(***************************************************************************)
LEMMA MergeKeeps ==
    ASSUME NEW base \in Tree, NEW local \in Tree, NEW theirs \in Tree,
           Within(base, local), Within(base, theirs)
    PROVE  /\ Within(local, Merge(base, local, theirs))
           /\ Within(theirs, Merge(base, local, theirs))
<1>1. ASSUME NEW k \in Key, local[k] # None \/ theirs[k] # None
      PROVE  Merge(base, local, theirs)[k] # None
  <2>1. Merge(base, local, theirs)[k] = IntegrateSlot(base[k], local[k], theirs[k])
    BY DEF Merge
  <2>2. base[k] # None => local[k] # None /\ theirs[k] # None
    BY DEF Within, Entries
  <2>3. CASE base[k] = local[k]
    BY <1>1, <2>1, <2>2, <2>3 DEF IntegrateSlot
  <2>4. CASE base[k] # local[k]
    <3>1. local[k] # None
      BY <2>2, <2>4
    <3>2. PICK removed : IntegrateSlot(base[k], local[k], theirs[k]) = AddTo(removed, local[k])
      BY <2>4, <3>1 DEF IntegrateSlot
    <3> QED BY <2>1, <3>1, <3>2 DEF AddTo
  <2> QED BY <2>3, <2>4
<1> QED BY <1>1 DEF Within, Entries

\* Whatever local edits removed, a merge drops no entry of the upstream but
\* those of the base.
LEMMA MergeCovers ==
    ASSUME NEW base \in Tree, NEW local \in Tree, NEW theirs \in Tree,
           NEW z, Within(base, z), Within(Merge(base, local, theirs), z)
    PROVE  Within(theirs, z)
<1> SUFFICES ASSUME NEW k \in Key, theirs[k] # None PROVE z[k] # None
  BY DEF Within, Entries
<1>1. Merge(base, local, theirs)[k] = IntegrateSlot(base[k], local[k], theirs[k])
  BY DEF Merge
<1>2. CASE base[k] # None
  BY <1>2 DEF Within, Entries
<1>3. CASE base[k] = None /\ local[k] = None
  BY <1>1, <1>3 DEF IntegrateSlot, Within, Entries
<1>4. CASE base[k] = None /\ local[k] # None
  <2>1. PICK removed : IntegrateSlot(base[k], local[k], theirs[k]) = AddTo(removed, local[k])
    BY <1>4 DEF IntegrateSlot
  <2>2. AddTo(removed, local[k]) # None
    BY <1>4 DEF AddTo
  <2> QED BY <1>1, <2>1, <2>2 DEF Within, Entries
<1> QED BY <1>2, <1>3, <1>4

\* A marker stays behind heads that grow.
LEMMA MarkerKeepsGrows ==
    ASSUME NEW heads, NEW later, HeadsGrow(heads, later), NEW m \in OptUpstream,
           NEW r, NEW q, Within(TreeOf(r), TreeOf(q)), MarkerKeeps(heads, r, m)
    PROVE  MarkerKeeps(later, q, m)
<1>1. m # None => m.site \in Site
  BY DEF OptUpstream, Upstreams
<1> QED BY <1>1, WithinTransitive DEF MarkerKeeps, HeadsGrow

\* What a task found stays behind heads that grow.
LEMMA TaskKeepsGrows ==
    ASSUME NEW heads, NEW later, HeadsGrow(heads, later), NEW m \in OptUpstream,
           NEW t, NEW k, NEW c, NEW x \in TaskType, TaskKeeps(t, heads, k, c, m, x)
    PROVE  TaskKeeps(t, later, k, c, m, x)
<1>1. x.at \in Syncing => m # None
  BY SyncFields, NoneAssumption DEF TaskKeeps
<1>2. m # None => m.site \in Site
  BY DEF OptUpstream, Upstreams
<1>3. m # None => Within(TreeOf(heads[m.site]), TreeOf(later[m.site]))
  BY <1>2 DEF HeadsGrow
<1>4. ASSUME NEW z, m # None, Within(z, TreeOf(heads[m.site]))
      PROVE  Within(z, TreeOf(later[m.site]))
  BY <1>3, <1>4, WithinTransitive
<1>5. x.at \in {"pushSnapshot", "pushMarker"} => x.at \in Syncing
  BY DEF Syncing
<1> HIDE DEF Within
<1> QED BY <1>1, <1>4, <1>5 DEF TaskKeeps

\* A task at rest relies on its handle only.
LEMMA IdleKeeps ==
    ASSUME NEW t, NEW heads, NEW k, NEW c, NEW m,
           "push" \in Operations[t] /\ m # None => Within(m.tree, TreeOf(c))
    PROVE  TaskKeeps(t, heads, k, c, m, Idle)
  BY IdleOK DEF TaskKeeps, Syncing

\* A task that gives up relies on no more than before.
LEMMA StopKeeps ==
    ASSUME NEW t, NEW heads, NEW k, NEW c, NEW m, NEW x, TaskKeeps(t, heads, k, c, m, x)
    PROVE  TaskKeeps(t, heads, k, c, m, Idle)
  BY IdleKeeps DEF TaskKeeps

\* What a task relies on when another one moves its branch's marker.
LEMMA OthersKeep ==
    ASSUME NEW t, NEW heads, NEW k, NEW z, NEW c, NEW m, NEW x,
           TaskKeeps(t, heads, k, c, m, x),
           {"refresh", "push"} \subseteq Operations[t] => z = k
    PROVE  TaskKeeps(t, heads, z, c, m, x)
  BY DEF TaskKeeps

\* A step of one task keeps Keeps if it keeps its own branch and handle so.
LEMMA KeepsFrame ==
    ASSUME Typed, Apart, Keeps, NEW t \in Task, NEW y, Goto(t, y),
           HeadsGrow(head, head'),
           \A b \in Branch : b # BranchT(t) => marker'[b] = marker[b],
           \A h \in Handle : h # HandleT(t) =>
               headCache'[h] = headCache[h] /\ markerCache'[h] = markerCache[h],
           MarkerKeeps(head', head'[BranchT(t)], marker'[BranchT(t)]),
           Within(TreeOf(headCache'[HandleT(t)]), TreeOf(head'[BranchT(t)])),
           MarkerKeeps(head', head'[BranchT(t)], markerCache'[HandleT(t)]),
           TaskKeeps(t, head', marker'[BranchT(t)], headCache'[HandleT(t)],
                     markerCache'[HandleT(t)], y)
    PROVE  Keeps'
<1>1. ASSUME NEW b \in Branch
      PROVE  MarkerKeeps(head', head'[b], marker'[b])
  <2>1. CASE b = BranchT(t)
    BY <2>1
  <2>2. CASE b # BranchT(t)
    <3>1. marker'[b] = marker[b] /\ marker[b] \in OptUpstream
      BY <2>2 DEF Typed, TypeOK
    <3>2. MarkerKeeps(head, head[b], marker[b])
      BY DEF Keeps
    <3>3. Within(TreeOf(head[b]), TreeOf(head'[b]))
      BY BranchType DEF HeadsGrow
    <3> QED BY <3>1, <3>2, <3>3, MarkerKeepsGrows
  <2> QED BY <2>1, <2>2
<1>2. ASSUME NEW h \in Handle
      PROVE  /\ Within(TreeOf(headCache'[h]), TreeOf(head'[BranchOf[h]]))
             /\ MarkerKeeps(head', head'[BranchOf[h]], markerCache'[h])
  <2>1. CASE h = HandleT(t)
    BY <2>1, PlaceType
  <2>2. CASE h # HandleT(t)
    <3>1. /\ headCache'[h] = headCache[h] /\ markerCache'[h] = markerCache[h]
          /\ markerCache[h] \in OptUpstream
      BY <2>2 DEF Typed, TypeOK
    <3>2. /\ MarkerKeeps(head, head[BranchOf[h]], markerCache[h])
          /\ Within(TreeOf(headCache[h]), TreeOf(head[BranchOf[h]]))
      BY DEF Keeps
    <3>3. Within(TreeOf(head[BranchOf[h]]), TreeOf(head'[BranchOf[h]]))
      BY HandleType, BranchType DEF HeadsGrow
    <3> QED BY <3>1, <3>2, <3>3, MarkerKeepsGrows, WithinTransitive
  <2> QED BY <2>1, <2>2
<1>3. ASSUME NEW u \in Task
      PROVE  TaskKeeps(u, head', marker'[BranchT(u)], headCache'[HandleT(u)],
                       markerCache'[HandleT(u)], task'[u])
  <2>1. CASE u = t
    <3>1. task'[t] = y
      BY DEF Goto, Typed, TypeOK
    <3> QED BY <2>1, <3>1
  <2>2. CASE u # t
    <3>1. HandleT(u) # HandleT(t) /\ BranchT(u) \in Branch /\ HandleT(u) \in Handle
      BY <2>2, PlaceType DEF Apart
    <3>2. /\ task'[u] = task[u] /\ task[u] \in TaskType
          /\ headCache'[HandleT(u)] = headCache[HandleT(u)]
          /\ markerCache'[HandleT(u)] = markerCache[HandleT(u)]
          /\ markerCache[HandleT(u)] \in OptUpstream
      BY <2>2, <3>1 DEF Goto, Typed, TypeOK
    <3>3. {"refresh", "push"} \subseteq Operations[u] => marker'[BranchT(u)] = marker[BranchT(u)]
      BY <2>2, <3>1 DEF Apart
    <3>4. TaskKeeps(u, head, marker[BranchT(u)], headCache[HandleT(u)],
                    markerCache[HandleT(u)], task[u])
      BY DEF Keeps
    <3>5. TaskKeeps(u, head', marker[BranchT(u)], headCache[HandleT(u)],
                    markerCache[HandleT(u)], task[u])
      BY <3>2, <3>4, TaskKeepsGrows
    <3> QED BY <3>2, <3>3, <3>5, OthersKeep
  <2> QED BY <2>1, <2>2
<1> QED BY <1>1, <1>2, <1>3 DEF Keeps

\* What Keeps says of a task, its branch and its handle.
LEMMA KeepsAt ==
    ASSUME Typed, Keeps, NEW t \in Task
    PROVE  /\ MarkerKeeps(head, head[BranchT(t)], marker[BranchT(t)])
           /\ Within(TreeOf(headCache[HandleT(t)]), TreeOf(head[BranchT(t)]))
           /\ MarkerKeeps(head, head[BranchT(t)], markerCache[HandleT(t)])
           /\ TaskKeeps(t, head, marker[BranchT(t)], headCache[HandleT(t)],
                        markerCache[HandleT(t)], task[t])
           /\ markerCache[HandleT(t)] \in OptUpstream
           /\ marker[BranchT(t)] \in OptUpstream
           /\ headCache[HandleT(t)] \in OptRevision
  BY PlaceType DEF Keeps, Typed, TypeOK

\* A step that writes no cell and no cache of a branch.
LEMMA KeepsQuiet ==
    ASSUME Typed, Apart, Keeps, NEW t \in Task, NEW y, Goto(t, y),
           UNCHANGED <<head, marker, headCache, markerCache>>,
           TaskKeeps(t, head, marker[BranchT(t)], headCache[HandleT(t)],
                     markerCache[HandleT(t)], y)
    PROVE  Keeps' /\ HeadsGrow(head, head')
  BY KeepsAt, KeepsFrame, HeadsGrowNot

\* No publish comes between the two reads of a handle that is pushed from.
LEMMA RefreshKeeps ==
    ASSUME Typed, Apart, Keeps, NEW t \in Task, RefreshHead(t) \/ RefreshMarker(t)
    PROVE  Keeps' /\ HeadsGrow(head, head')
<1>1. PICK b, h, c, m, k : /\ b = BranchT(t) /\ h = HandleT(t) /\ c = headCache[h]
                           /\ m = markerCache[h] /\ k = marker[b]
  OBVIOUS
<1>2. /\ MarkerKeeps(head, head[b], k)
      /\ Within(TreeOf(c), TreeOf(head[b]))
      /\ MarkerKeeps(head, head[b], m)
      /\ TaskKeeps(t, head, k, c, m, task[t])
      /\ m \in OptUpstream /\ k \in OptUpstream
  BY <1>1, KeepsAt
<1>3. h \in Handle /\ b \in Branch
  BY <1>1, PlaceType
<1>4. head' = head /\ marker' = marker
  BY DEF RefreshHead, RefreshMarker, cells
<1>5. HeadsGrow(head, head')
  BY <1>4, HeadsGrowNot
<1>6. CASE RefreshHead(t)
  <2>1. PICK y : y = [at |-> "refresh"]
    OBVIOUS
  <2>2. /\ Goto(t, y) /\ markerCache' = markerCache /\ "refresh" \in Operations[t]
        /\ headCache' = [headCache EXCEPT ![h] = head[b]]
    BY <1>1, <1>6, <2>1 DEF RefreshHead
  <2>3. /\ headCache'[h] = head[b]
        /\ \A g \in Handle : g # h => headCache'[g] = headCache[g]
    BY <1>3, <2>2 DEF Typed, TypeOK
  <2>4. TaskKeeps(t, head, k, head[b], m, y)
    BY <1>2, <2>1, <2>2 DEF TaskKeeps, MarkerKeeps, Syncing
  <2>5. Within(TreeOf(head[b]), TreeOf(head[b]))
    BY EmptyWithin
  <2> QED BY <1>1, <1>2, <1>4, <1>5, <2>2, <2>3, <2>4, <2>5, KeepsFrame
<1>7. CASE RefreshMarker(t)
  <2>1. /\ Goto(t, Idle) /\ headCache' = headCache
        /\ markerCache' = [markerCache EXCEPT ![h] = k]
        /\ task[t].at = "refresh"
    BY <1>1, <1>7 DEF RefreshMarker
  <2>2. /\ markerCache'[h] = k
        /\ \A g \in Handle : g # h => markerCache'[g] = markerCache[g]
    BY <1>3, <2>1 DEF Typed, TypeOK
  <2>3. "push" \in Operations[t] /\ k # None => Within(k.tree, TreeOf(c))
    BY <1>2, <2>1 DEF TaskKeeps
  <2>4. TaskKeeps(t, head, k, c, k, Idle)
    BY <2>3, IdleKeeps
  <2> QED BY <1>1, <1>2, <1>4, <1>5, <2>1, <2>2, <2>4, KeepsFrame
<1> QED BY <1>6, <1>7

\* A commit contains what it is based on.
LEMMA PrepareKeeps ==
    ASSUME AddOnly, Typed, Apart, Keeps, NEW t \in Task, CommitPrepare(t)
    PROVE  Keeps' /\ HeadsGrow(head, head')
<1>1. PICK i, y, base, tree, reads :
        CommitStep(t, i, y, base, tree, reads)
  BY CommitTask
<1>2. Within(TreeOf(base), tree)
  BY <1>1, ApplyKeeps DEF CommitStep
<1>3. TreeOf(y.revision) = tree /\ y.at = "commit" /\ y.expected = base
      /\ base = headCache[HandleT(t)]
  BY <1>1, TreeOfRevision DEF CommitStep
<1>4. TaskKeeps(t, head, marker[BranchT(t)], base, markerCache[HandleT(t)], y)
  BY <1>2, <1>3, KeepsAt DEF TaskKeeps, Syncing
<1>5. Goto(t, y) /\ UNCHANGED <<head, marker, headCache, markerCache>>
  BY <1>1 DEF CommitStep, cells, caches
<1> QED BY <1>3, <1>4, <1>5, KeepsQuiet

\* The head of a task's branch moves from the cached revision on.
LEMMA HeadKeeps ==
    ASSUME Typed, Apart, Keeps, NEW t \in Task, NEW y, Goto(t, y),
           NEW r \in Revisions,
           Within(TreeOf(head[BranchT(t)]), TreeOf(r)),
           head' = [head EXCEPT ![BranchT(t)] = r],
           headCache' = [headCache EXCEPT ![HandleT(t)] = r],
           UNCHANGED <<marker, markerCache>>,
           TaskKeeps(t, head, marker[BranchT(t)], r, markerCache[HandleT(t)], y),
           y \in TaskType
    PROVE  Keeps' /\ HeadsGrow(head, head')
<1>1. PICK b, h, c, m, k : /\ b = BranchT(t) /\ h = HandleT(t) /\ c = headCache[h]
                           /\ m = markerCache[h] /\ k = marker[b]
  OBVIOUS
<1>2. /\ MarkerKeeps(head, head[b], k)
      /\ MarkerKeeps(head, head[b], m)
      /\ m \in OptUpstream /\ k \in OptUpstream
  BY <1>1, KeepsAt
<1>3. h \in Handle /\ b \in Site
  BY <1>1, PlaceType
<1>5. Within(TreeOf(head[b]), TreeOf(r)) /\ Within(TreeOf(r), TreeOf(r))
  BY <1>1, EmptyWithin
<1>6. ASSUME NEW s \in Site
      PROVE  /\ s = b => head'[s] = r
             /\ s # b => head'[s] = head[s]
  BY <1>1, <1>3 DEF Typed, TypeOK
<1>7. HeadsGrow(head, head')
  BY <1>5, <1>6, EmptyWithin DEF HeadsGrow
<1>8. headCache'[h] = r /\ \A g \in Handle : g # h => headCache'[g] = headCache[g]
  BY <1>1, <1>3 DEF Typed, TypeOK
<1>9. head'[b] = r
  BY <1>3, <1>6
<1>10. MarkerKeeps(head', r, k)
  BY <1>2, <1>5, <1>7, MarkerKeepsGrows
<1>11. MarkerKeeps(head', r, m)
  BY <1>2, <1>5, <1>7, MarkerKeepsGrows
<1>12. TaskKeeps(t, head', k, r, m, y)
  BY <1>1, <1>2, <1>7, TaskKeepsGrows
<1> QED BY <1>1, <1>5, <1>7, <1>8, <1>9, <1>10, <1>11, <1>12, KeepsFrame

(***************************************************************************)
(* The publish of a commit or a pull swaps the head it was based on.  The  *)
(* base of a merge may be ahead of the cached head, and the merge then     *)
(* lack what the head has: but every base is behind the head, and the      *)
(* publish is refused unless the head is the cached one, or is already     *)
(* what would be published.                                                *)
(***************************************************************************)
LEMMA PublishKeeps ==
    ASSUME Typed, Apart, Keeps, NEW t \in Task, CommitPublish(t) \/ PullHead(t)
    PROVE  Keeps' /\ HeadsGrow(head, head')
<1>1. PICK x, c, m, k, top : /\ x = task[t] /\ c = headCache[HandleT(t)]
                             /\ m = markerCache[HandleT(t)] /\ k = marker[BranchT(t)]
                             /\ top = head[BranchT(t)]
  OBVIOUS
<1>2. /\ TaskKeeps(t, head, k, c, m, x)
      /\ MarkerKeeps(head, top, m) /\ c \in OptRevision
  BY <1>1, KeepsAt
<1>3. x \in TaskType /\ x.at \in {"commit", "pullHead"}
  BY <1>1, TaskTyped DEF CommitPublish, PullHead
<1>4. x.revision \in Revisions
  BY <1>3, CommitFields, PullFields
<1>5. x.expected = c
  BY <1>2, <1>3 DEF TaskKeeps
<1>6. PICK r : r = x.revision
  OBVIOUS
<1>7. ASSUME Swaps(top, r, c)
      PROVE  top = c \/ top = r
  <2>1. top \in OptRevision
    BY <1>1, PlaceType DEF Typed, TypeOK
  <2> QED BY <1>2, <1>4, <1>6, <1>7, <2>1, SwapsMeans DEF OptRevision
<1>8. TaskKeeps(t, head, k, c, m, Idle)
  BY <1>2, StopKeeps
<1>9. CASE CommitPublish(t)
  <2>1. /\ Goto(t, Idle) /\ UNCHANGED <<marker, markerCache>> /\ x.at = "commit"
        /\ \/ UNCHANGED <<head, headCache>>
           \/ /\ Swaps(top, r, c)
              /\ head' = [head EXCEPT ![BranchT(t)] = r]
              /\ headCache' = [headCache EXCEPT ![HandleT(t)] = r]
    BY <1>1, <1>5, <1>6, <1>9 DEF CommitPublish
  <2>2. CASE UNCHANGED <<head, headCache>>
    BY <1>1, <1>8, <2>1, <2>2, KeepsQuiet
  <2>3. CASE /\ Swaps(top, r, c)
             /\ head' = [head EXCEPT ![BranchT(t)] = r]
             /\ headCache' = [headCache EXCEPT ![HandleT(t)] = r]
    <3>1. Within(TreeOf(c), TreeOf(r))
      BY <1>2, <1>6, <2>1 DEF TaskKeeps
    <3>2. Within(TreeOf(top), TreeOf(r))
      BY <1>7, <2>3, <3>1, EmptyWithin
    <3>3. "push" \in Operations[t] /\ m # None => Within(m.tree, TreeOf(r))
      BY <1>2, <3>1, WithinTransitive DEF TaskKeeps
    <3>4. TaskKeeps(t, head, k, r, m, Idle)
      BY <3>3, IdleKeeps
    <3> QED BY <1>1, <1>4, <1>6, <2>1, <2>3, <3>2, <3>4, IdleOK, HeadKeeps
  <2> QED BY <2>1, <2>2, <2>3
<1>10. CASE PullHead(t)
  <2>1. PICK y \in TaskType :
          /\ Goto(t, y) /\ UNCHANGED <<marker, markerCache>> /\ x.at = "pullHead"
          /\ \/ y = Idle /\ UNCHANGED <<head, headCache>>
             \/ /\ Swaps(top, r, c)
                /\ head' = [head EXCEPT ![BranchT(t)] = r]
                /\ headCache' = [headCache EXCEPT ![HandleT(t)] = r]
                /\ y.at = "pullMarker" /\ y.tree = x.tree
    BY <1>1, <1>5, <1>6, <1>10, PullHeadTask
  <2>2. CASE y = Idle /\ UNCHANGED <<head, headCache>>
    BY <1>1, <1>8, <2>1, <2>2, KeepsQuiet
  <2>3. CASE /\ Swaps(top, r, c)
             /\ head' = [head EXCEPT ![BranchT(t)] = r]
             /\ headCache' = [headCache EXCEPT ![HandleT(t)] = r]
             /\ y.at = "pullMarker" /\ y.tree = x.tree
    <3>1. m # None /\ Within(m.tree, TreeOf(top))
      BY <1>2, <2>1 DEF TaskKeeps, MarkerKeeps
    <3>2. Within(TreeOf(top), TreeOf(r)) /\ Within(m.tree, TreeOf(r))
      <4>1. CASE top = c
        <5>1. Within(TreeOf(c), TreeOf(r))
          BY <1>2, <1>6, <2>1, <3>1, <4>1 DEF TaskKeeps
        <5> QED BY <3>1, <4>1, <5>1, WithinTransitive
      <4>2. CASE top = r
        BY <3>1, <4>2, EmptyWithin
      <4> QED BY <1>7, <2>3, <4>1, <4>2
    <3>3. Within(x.tree, TreeOf(r))
      BY <1>2, <1>6, <2>1, <3>2 DEF TaskKeeps
    <3>4. TaskKeeps(t, head, k, r, m, y)
      BY <1>2, <2>1, <2>3, <3>2, <3>3 DEF TaskKeeps, Syncing
    <3> QED BY <1>1, <1>4, <1>6, <2>1, <2>3, <3>2, <3>4, HeadKeeps
  <2> QED BY <2>1, <2>2, <2>3
<1> QED BY <1>9, <1>10

\* A sync starts from a marker behind both heads.
LEMMA ContactKeeps ==
    ASSUME Typed, Apart, Keeps, NEW t \in Task,
           PullStart(t) \/ PushStart(t) \/ FetchStart(t)
    PROVE  Keeps' /\ HeadsGrow(head, head')
<1>1. PICK op \in {"pull", "push", "fetch"} : Contact(t, op)
  BY DEF PullStart, PushStart, FetchStart
<1>2. PICK c, m, k : /\ c = headCache[HandleT(t)] /\ m = markerCache[HandleT(t)]
                     /\ k = marker[BranchT(t)]
  OBVIOUS
<1>3. PICK y \in TaskType :
        /\ Goto(t, y)
        /\ UNCHANGED <<cells, archive, caches, bounds>>
        /\ y.at \in Syncing
        /\ y.op = op
        /\ y.upstream = m /\ m # None
        /\ y.revision = IF op = "push" THEN c ELSE None
        /\ \/ /\ y.upstream.site \in Branch
              /\ y.at \in {"merge", "check"}
              /\ y.remote = head[y.upstream.site]
           \/ /\ y.at = "resolve" /\ y.remote = None
  BY <1>1, <1>2, ContactTask
<1>4. /\ op \in Operations[t] /\ Within(m.tree, TreeOf(head[m.site]))
      /\ "push" \in Operations[t] => Within(m.tree, TreeOf(c))
  BY <1>1, <1>2, <1>3, KeepsAt DEF MarkerKeeps, TaskKeeps, Contact, Starts
<1>5. Within(TreeOf(c), TreeOf(c)) /\ Within(TreeOf(head[m.site]), TreeOf(head[m.site]))
      /\ Within(TreeOf(None), TreeOf(head[m.site]))
  BY EmptyWithin
<1>6. m.site \in Branch => m.site \notin Remote
  BY RemoteType
<1>7. TaskKeeps(t, head, k, c, m, y)
  <2>1. CASE /\ y.upstream.site \in Branch
             /\ y.at \in {"merge", "check"}
             /\ y.remote = head[y.upstream.site]
    BY <1>3, <1>4, <1>5, <1>6, <2>1 DEF TaskKeeps
  <2>2. CASE y.at = "resolve" /\ y.remote = None
    BY <1>3, <1>4, <1>5, <2>2 DEF TaskKeeps
  <2> QED BY <1>3, <2>1, <2>2
<1>8. UNCHANGED <<head, marker, headCache, markerCache>>
  BY <1>3 DEF cells, caches
<1> QED BY <1>2, <1>3, <1>7, <1>8, KeepsQuiet

\* What a fetch finds contains the marker: heads only grow.
LEMMA ResolveKeeps ==
    ASSUME Typed, Apart, Keeps, NEW t \in Task, FetchResolve(t) \/ FetchRecord(t)
    PROVE  Keeps' /\ HeadsGrow(head, head')
<1>1. PICK x, c, m, k : /\ x = task[t] /\ c = headCache[HandleT(t)]
                        /\ m = markerCache[HandleT(t)] /\ k = marker[BranchT(t)]
  OBVIOUS
<1>2. /\ TaskKeeps(t, head, k, c, m, x) /\ MarkerKeeps(head, head[BranchT(t)], m)
      /\ m \in OptUpstream
  BY <1>1, KeepsAt
<1>3. x \in TaskType /\ x.at \in Syncing
  BY <1>1, TaskTyped DEF FetchResolve, FetchRecord, Syncing
<1>4. x.upstream = m /\ m # None
  BY <1>2, <1>3, SyncFields, NoneAssumption DEF TaskKeeps
<1>5. Within(m.tree, TreeOf(head[m.site]))
  BY <1>2, <1>4 DEF MarkerKeeps
<1>6. Within(TreeOf(head[m.site]), TreeOf(head[m.site]))
  BY EmptyWithin
<1>7. CASE FetchResolve(t)
  <2>1. PICK y \in TaskType :
          /\ Goto(t, y)
          /\ UNCHANGED <<cells, archive, caches, bounds>>
          /\ x.at = "resolve"
          /\ \/ y = Idle
             \/ /\ y.op = x.op /\ y.upstream = x.upstream
                /\ y.revision = x.revision /\ y.snap = x.snap
                /\ \/ y.at = "record" /\ y.remote = head[m.site]
                   \/ y.at = "check" /\ y.remote = x.remote
    BY <1>1, <1>4, <1>7, ResolveTask
  <2>2. TaskKeeps(t, head, k, c, m, y)
    <3>1. CASE y = Idle
      BY <1>2, <3>1, StopKeeps
    <3>2. CASE y # Idle
      BY <1>2, <1>3, <1>5, <1>6, <2>1, <3>2 DEF TaskKeeps, Syncing
    <3> QED BY <3>1, <3>2
  <2>3. UNCHANGED <<head, marker, headCache, markerCache>>
    BY <2>1 DEF cells, caches
  <2> QED BY <1>1, <2>1, <2>2, <2>3, KeepsQuiet
<1>8. CASE FetchRecord(t)
  <2>1. PICK y \in TaskType :
          /\ Goto(t, y)
          /\ UNCHANGED <<head, marker, archive, caches, bounds>>
          /\ x.at = "record"
          /\ \/ y = Idle
             \/ /\ y.op = x.op /\ y.upstream = x.upstream
                /\ y.revision = x.revision /\ y.remote = x.remote
                /\ y.snap = x.remote
                /\ y.at \in {"merge", "check"}
    BY <1>1, <1>8, RecordTask
  <2>2. TaskKeeps(t, head, k, c, m, y)
    <3>1. CASE y = Idle
      BY <1>2, <3>1, StopKeeps
    <3>2. CASE y # Idle
      BY <1>2, <1>3, <2>1, <3>2 DEF TaskKeeps, Syncing
    <3> QED BY <3>1, <3>2
  <2>3. UNCHANGED <<head, marker, headCache, markerCache>>
    BY <2>1 DEF caches
  <2> QED BY <1>1, <2>1, <2>2, <2>3, KeepsQuiet
<1> QED BY <1>7, <1>8

\* A merge over a base within both sides contains both.
LEMMA MergeStepKeeps ==
    ASSUME Typed, Apart, Keeps, NEW t \in Task, PullMerge(t)
    PROVE  Keeps' /\ HeadsGrow(head, head')
<1>1. PICK x, c, m, k : /\ x = task[t] /\ c = headCache[HandleT(t)]
                        /\ m = markerCache[HandleT(t)] /\ k = marker[BranchT(t)]
  OBVIOUS
<1>2. PICK base, tree : /\ base = Base(HandleT(t))
                        /\ tree = Merge(base, TreeOf(c), x.remote.tree)
  OBVIOUS
<1>3. /\ x.at = "merge"
      /\ UNCHANGED <<cells, caches>>
      /\ base \in Tree /\ tree \in Tree /\ x.remote \in Revisions
      /\ TreeOf(c) \in Tree
  BY <1>1, <1>2, MergeTask
<1>4. PICK y \in TaskType :
        /\ Goto(t, y)
        /\ \/ y = Idle
           \/ /\ y.at = "pullHead" /\ y.expected = c /\ y.tree = x.remote.tree
              /\ \/ y.revision = x.remote /\ (tree = x.remote.tree \/ c = None)
                 \/ y.revision.tree = tree
  BY <1>1, <1>2, MergeTask
<1>5. TaskKeeps(t, head, k, c, m, x)
  BY <1>1, KeepsAt
<1>6. x \in TaskType /\ x.at \in Syncing
  BY <1>1, <1>3, TaskTyped DEF Syncing
<1>7. x.upstream = m /\ m # None
  BY <1>5, <1>6, SyncFields, NoneAssumption DEF TaskKeeps
<1>8. TreeOf(x.remote) = x.remote.tree /\ x.remote # None /\ x.remote.tree \in Tree
  BY <1>3, TreeOfRevision
<1>9. base = m.tree
  BY <1>1, <1>2, <1>7 DEF Base
<1>10. Within(base, x.remote.tree) /\ Within(x.remote.tree, TreeOf(head[m.site]))
  BY <1>5, <1>6, <1>8, <1>9 DEF TaskKeeps
<1>11. Within(base, TreeOf(c)) => Within(TreeOf(c), tree)
  BY <1>2, <1>3, <1>8, <1>10, MergeKeeps
<1>12. ASSUME NEW z, Within(base, z), Within(tree, z)
       PROVE  Within(x.remote.tree, z)
  BY <1>2, <1>3, <1>8, <1>12, MergeCovers
<1>13. UNCHANGED <<head, marker, headCache, markerCache>>
  BY <1>3 DEF cells, caches
<1>14. CASE y = Idle
  BY <1>1, <1>4, <1>5, <1>13, <1>14, StopKeeps, KeepsQuiet
<1>15. CASE /\ y.at = "pullHead" /\ y.expected = c /\ y.tree = x.remote.tree
            /\ \/ y.revision = x.remote /\ (tree = x.remote.tree \/ c = None)
               \/ y.revision.tree = tree
  <2>1. y.revision \in Revisions
    BY <1>4, <1>15, PullFields
  <2>2. TreeOf(y.revision) = y.revision.tree
    BY <2>1, TreeOfRevision
  <2>3. Within(base, TreeOf(y.revision)) => Within(x.remote.tree, TreeOf(y.revision))
    BY <1>12, <1>15, <2>2, EmptyWithin
  <2>4. Within(base, TreeOf(c)) => Within(TreeOf(c), TreeOf(y.revision))
    BY <1>11, <1>15, <2>2, EmptyWithin
  <2>5. TaskKeeps(t, head, k, c, m, y)
    BY <1>5, <1>7, <1>9, <1>10, <1>15, <2>3, <2>4 DEF TaskKeeps, Syncing
  <2> QED BY <1>1, <1>4, <1>13, <2>5, KeepsQuiet
<1> QED BY <1>4, <1>14, <1>15

\* What the markers are given: a tree the head, the cached head and the
\* upstream contain, and beyond what the cached marker has if it is a sync.
LEMMA ContentKeeps ==
    ASSUME Typed, Keeps, NEW t \in Task, PullMarker(t) \/ PushMarker(t) \/ SetUpstream(t)
    PROVE  \E content \in Upstreams :
             /\ PublishMarker(t, content)
             /\ MarkerKeeps(head, headCache[HandleT(t)], content)
             /\ \/ content.tree = EmptyTree
                \/ /\ markerCache[HandleT(t)] # None
                   /\ Within(markerCache[HandleT(t)].tree, content.tree)
<1>1. PICK x, c, m, k : /\ x = task[t] /\ c = headCache[HandleT(t)]
                        /\ m = markerCache[HandleT(t)] /\ k = marker[BranchT(t)]
  OBVIOUS
<1>2. /\ TaskKeeps(t, head, k, c, m, x) /\ MarkerKeeps(head, head[BranchT(t)], m)
      /\ m \in OptUpstream
  BY <1>1, KeepsAt
<1>3. CASE PullMarker(t)
  <2>1. PICK content \in Upstreams : /\ content.site = m.site /\ content.tree = x.tree
                                     /\ PublishMarker(t, content)
    BY <1>1, <1>3, PullMarkerContent
  <2>2. x.at = "pullMarker"
    BY <1>1, <1>3, PullMarkerContent
  <2>3. /\ m # None /\ Within(x.tree, TreeOf(head[m.site]))
        /\ Within(m.tree, x.tree) /\ Within(x.tree, TreeOf(c))
    BY <1>2, <2>2 DEF TaskKeeps
  <2>4. MarkerKeeps(head, c, content)
    BY <2>1, <2>3 DEF MarkerKeeps
  <2> QED BY <1>1, <2>1, <2>3, <2>4
<1>4. CASE PushMarker(t)
  <2>1. PICK content \in Upstreams : /\ content.site = x.upstream.site
                                     /\ content.tree = x.revision.tree
                                     /\ PublishMarker(t, content)
    BY <1>1, <1>4, PushMarkerContent
  <2>2. x.at = "pushMarker" /\ x.at \in Syncing /\ x \in TaskType /\ TaskOK(x)
    BY <1>1, <1>4, PushMarkerContent, TaskTyped DEF Syncing
  <2>3. x.op = "push" /\ TreeOf(x.revision) = x.revision.tree
    BY <1>1, <1>4, <2>2, PushMarkerContent, TreeOfRevision DEF TaskOK, Pushing
  <2>4. x.upstream = m /\ m # None
    BY <1>2, <2>2, SyncFields, NoneAssumption DEF TaskKeeps
  <2>5. /\ Within(x.revision.tree, TreeOf(head[m.site]))
        /\ Within(m.tree, x.revision.tree) /\ Within(x.revision.tree, TreeOf(c))
    BY <1>2, <2>2, <2>3 DEF TaskKeeps
  <2>6. MarkerKeeps(head, c, content)
    BY <2>1, <2>4, <2>5 DEF MarkerKeeps
  <2> QED BY <1>1, <2>1, <2>4, <2>5, <2>6
<1>5. CASE SetUpstream(t)
  <2>1. PICK content \in Upstreams : content.tree = EmptyTree /\ PublishMarker(t, content)
    BY <1>5, SetUpstreamContent
  <2>2. MarkerKeeps(head, c, content)
    BY <2>1, EmptyWithin DEF MarkerKeeps
  <2> QED BY <1>1, <1>5, <2>1, <2>2
<1> QED BY <1>3, <1>4, <1>5

\* A marker is published after the head that contains it.
LEMMA MarkerStepKeeps ==
    ASSUME Typed, Apart, Keeps, NEW t \in Task,
           PullMarker(t) \/ PushMarker(t) \/ SetUpstream(t)
    PROVE  Keeps' /\ HeadsGrow(head, head')
<1>1. PICK b, h, c, m, k : /\ b = BranchT(t) /\ h = HandleT(t) /\ c = headCache[h]
                           /\ m = markerCache[h] /\ k = marker[b]
  OBVIOUS
<1>2. PICK content \in Upstreams : PublishMarker(t, content) /\ MarkerKeeps(head, c, content)
  BY <1>1, ContentKeeps
<1>3. /\ MarkerKeeps(head, head[b], k)
      /\ Within(TreeOf(c), TreeOf(head[b]))
      /\ TaskKeeps(t, head, k, c, m, task[t])
  BY <1>1, KeepsAt
<1>4. /\ Goto(t, Idle) /\ UNCHANGED <<head, headCache>>
      /\ \/ UNCHANGED <<marker, markerCache>>
         \/ /\ marker' = [marker EXCEPT ![b] = content]
            /\ markerCache' = [markerCache EXCEPT ![h] = content]
  BY <1>1, <1>2 DEF PublishMarker
<1>5. CASE UNCHANGED <<marker, markerCache>>
  BY <1>1, <1>3, <1>4, <1>5, StopKeeps, KeepsQuiet
<1>6. CASE /\ marker' = [marker EXCEPT ![b] = content]
           /\ markerCache' = [markerCache EXCEPT ![h] = content]
  <2>1. h \in Handle /\ b \in Branch
    BY <1>1, PlaceType
  <2>2. /\ marker'[b] = content /\ markerCache'[h] = content
        /\ \A a \in Branch : a # b => marker'[a] = marker[a]
        /\ \A g \in Handle : g # h => markerCache'[g] = markerCache[g]
    BY <1>6, <2>1 DEF Typed, TypeOK
  <2>3. HeadsGrow(head, head')
    BY <1>4, HeadsGrowNot
  <2>4. content \in OptUpstream
    BY DEF OptUpstream
  <2>5. MarkerKeeps(head', head[b], content)
    BY <1>2, <1>3, <2>3, <2>4, MarkerKeepsGrows
  <2>6. TaskKeeps(t, head', content, c, content, Idle)
    BY <1>2, IdleKeeps DEF MarkerKeeps
  <2> QED BY <1>1, <1>2, <1>3, <1>4, <2>2, <2>3, <2>5, <2>6, KeepsFrame
<1> QED BY <1>4, <1>5, <1>6

\* A push goes on only if its revision contains what the upstream had.
LEMMA CheckKeeps ==
    ASSUME Typed, Apart, Keeps, NEW t \in Task, PushCheck(t) \/ PushUploadFails(t)
    PROVE  Keeps' /\ HeadsGrow(head, head')
<1>1. PICK x, c, m, k : /\ x = task[t] /\ c = headCache[HandleT(t)]
                        /\ m = markerCache[HandleT(t)] /\ k = marker[BranchT(t)]
  OBVIOUS
<1>2. TaskKeeps(t, head, k, c, m, x)
  BY <1>1, KeepsAt
<1>3. CASE PushUploadFails(t)
  <2>1. Goto(t, Idle) /\ UNCHANGED <<head, marker, headCache, markerCache>>
    BY <1>3 DEF PushUploadFails, cells, caches
  <2> QED BY <1>1, <1>2, <2>1, StopKeeps, KeepsQuiet
<1>4. CASE PushCheck(t)
  <2>1. PICK y \in TaskType :
          /\ Goto(t, y)
          /\ UNCHANGED <<cells, caches, bounds>>
          /\ x.at = "check"
          /\ \/ y = Idle
             \/ /\ FastForward(t)
                /\ y.at = "pushHead" /\ y.op = x.op /\ y.upstream = x.upstream
                /\ y.revision = x.revision /\ y.snap = x.snap /\ y.remote = x.remote
    BY <1>1, <1>4, CheckTask
  <2>2. UNCHANGED <<head, marker, headCache, markerCache>>
    BY <2>1 DEF cells, caches
  <2>3. CASE y = Idle
    BY <1>1, <1>2, <2>1, <2>2, <2>3, StopKeeps, KeepsQuiet
  <2>4. CASE /\ FastForward(t)
             /\ y.at = "pushHead" /\ y.op = x.op /\ y.upstream = x.upstream
             /\ y.revision = x.revision /\ y.snap = x.snap /\ y.remote = x.remote
    <3>1. x \in TaskType /\ x.at \in Syncing /\ x.op = "push"
      BY <1>1, <2>1, TaskTyped DEF Syncing, TaskOK, Pushing
    <3>2. x.upstream = m /\ Within(m.tree, TreeOf(x.revision))
      BY <1>2, <3>1 DEF TaskKeeps
    <3>3. TreeOf(IF x.upstream.site \in Branch THEN x.remote ELSE x.snap) = m.tree
      BY <1>1, <2>4, <3>2 DEF FastForward, Current
    <3>4. Within(TreeOf(x.remote), TreeOf(x.revision))
      <4>1. CASE x.upstream.site \in Branch
        BY <3>2, <3>3, <4>1
      <4>2. CASE x.upstream.site \notin Branch
        <5>1. x.upstream.site \in Remote
          BY <3>1, <4>2, SyncFields DEF Site
        <5>2. x.remote = None \/ x.remote = x.snap
          BY <1>2, <2>1, <5>1 DEF TaskKeeps
        <5> QED BY <3>2, <3>3, <4>2, <5>2, EmptyWithin
      <4> QED BY <4>1, <4>2
    <3>5. TaskKeeps(t, head, k, c, m, y)
      BY <1>2, <2>4, <3>1, <3>4 DEF TaskKeeps, Syncing
    <3> QED BY <1>1, <2>1, <2>2, <3>5, KeepsQuiet
  <2> QED BY <2>1, <2>3, <2>4
<1> QED BY <1>3, <1>4

\* The upstream's head moves to a revision that contains it.
LEMMA PushHeadKeeps ==
    ASSUME Typed, Apart, Keeps, NEW t \in Task, PushHead(t)
    PROVE  Keeps' /\ HeadsGrow(head, head')
<1>1. PICK b, h, x, c, m, k : /\ b = BranchT(t) /\ h = HandleT(t) /\ x = task[t]
                              /\ c = headCache[h] /\ m = markerCache[h] /\ k = marker[b]
  OBVIOUS
<1>2. /\ TaskKeeps(t, head, k, c, m, x) /\ MarkerKeeps(head, head[b], m)
      /\ MarkerKeeps(head, head[b], k)
      /\ Within(TreeOf(c), TreeOf(head[b]))
      /\ m \in OptUpstream /\ k \in OptUpstream
  BY <1>1, KeepsAt
<1>3. PICK s, r : s = x.upstream.site /\ r = x.revision
  OBVIOUS
<1>4. PICK y \in TaskType :
        /\ Goto(t, y)
        /\ UNCHANGED <<marker, snapshot, archive, caches, bounds>>
        /\ x.at = "pushHead"
        /\ \/ y = Idle /\ UNCHANGED head
           \/ /\ Swaps(head[s], r, x.remote)
              /\ head' = [head EXCEPT ![s] = r]
              /\ y.at = IF s \in Branch THEN "pushMarker" ELSE "pushSnapshot"
              /\ y.op = x.op /\ y.upstream = x.upstream
              /\ y.revision = x.revision /\ y.snap = x.snap /\ y.remote = x.remote
  BY <1>1, <1>3, PushHeadTask
<1>5. UNCHANGED <<marker, headCache, markerCache>>
  BY <1>4 DEF caches
<1>6. CASE y = Idle /\ UNCHANGED head
  BY <1>1, <1>2, <1>4, <1>5, <1>6, StopKeeps, KeepsQuiet
<1>7. CASE /\ Swaps(head[s], r, x.remote)
           /\ head' = [head EXCEPT ![s] = r]
           /\ y.at = IF s \in Branch THEN "pushMarker" ELSE "pushSnapshot"
           /\ y.op = x.op /\ y.upstream = x.upstream
           /\ y.revision = x.revision /\ y.snap = x.snap /\ y.remote = x.remote
  <2>1. x \in TaskType /\ x.at \in Syncing /\ TaskOK(x)
    BY <1>1, <1>4, TaskTyped DEF Syncing
  <2>2. s \in Site /\ x.remote \in OptRevision /\ r \in OptRevision
    BY <1>3, <2>1, SyncFields
  <2>3. r \in Revisions /\ x.op = "push"
    BY <1>3, <1>4, <2>1, <2>2 DEF TaskOK, Pushing, Syncing, OptRevision
  <2>4. head[s] \in OptRevision /\ x.upstream = m
    BY <1>2, <2>1, <2>2 DEF Typed, TypeOK, TaskKeeps
  <2>5. head[s] = x.remote \/ head[s] = r
    BY <1>7, <2>2, <2>3, <2>4, SwapsMeans DEF OptRevision
  <2>6. Within(TreeOf(head[s]), TreeOf(r)) /\ Within(TreeOf(r), TreeOf(r))
    BY <1>2, <1>3, <1>4, <2>5, EmptyWithin DEF TaskKeeps
  <2>7. ASSUME NEW z \in Site
        PROVE  /\ z = s => head'[z] = r
               /\ z # s => head'[z] = head[z]
    BY <1>7, <2>2 DEF Typed, TypeOK
  <2>8. HeadsGrow(head, head')
    BY <2>6, <2>7, EmptyWithin DEF HeadsGrow
  <2>9. Within(TreeOf(head[b]), TreeOf(head'[b]))
    BY <1>1, <2>8, PlaceType DEF HeadsGrow
  <2>10. MarkerKeeps(head', head'[b], k)
    BY <1>2, <2>8, <2>9, MarkerKeepsGrows
  <2>11. MarkerKeeps(head', head'[b], m)
    BY <1>2, <2>8, <2>9, MarkerKeepsGrows
  <2>12. Within(TreeOf(c), TreeOf(head'[b]))
    BY <1>2, <2>9, WithinTransitive
  <2>13. TaskKeeps(t, head', k, c, m, x)
    BY <1>2, <2>1, <2>8, TaskKeepsGrows
  <2>14. Within(TreeOf(y.revision), TreeOf(head'[m.site]))
    <3>1. m.site = s
      BY <1>3, <2>4
    <3> QED BY <1>3, <1>7, <2>2, <2>6, <2>7, <3>1
  <2>15. TaskKeeps(t, head', k, c, m, y)
    BY <1>7, <2>1, <2>13, <2>14 DEF TaskKeeps, Syncing
  <2> QED BY <1>1, <1>4, <1>5, <2>8, <2>10, <2>11, <2>12, <2>15, KeepsFrame
<1> QED BY <1>4, <1>6, <1>7

\* The snapshot of a push changes no head.
LEMMA SnapshotKeeps ==
    ASSUME Typed, Apart, Keeps, NEW t \in Task, PushSnapshot(t)
    PROVE  Keeps' /\ HeadsGrow(head, head')
<1>1. PICK x, c, m, k : /\ x = task[t] /\ c = headCache[HandleT(t)]
                        /\ m = markerCache[HandleT(t)] /\ k = marker[BranchT(t)]
  OBVIOUS
<1>2. TaskKeeps(t, head, k, c, m, x)
  BY <1>1, KeepsAt
<1>3. PICK y \in TaskType :
        /\ Goto(t, y)
        /\ UNCHANGED <<head, marker, archive, caches, bounds>>
        /\ x.at = "pushSnapshot"
        /\ \/ y = Idle
           \/ /\ y.at = "pushMarker" /\ y.op = x.op /\ y.upstream = x.upstream
              /\ y.revision = x.revision /\ y.snap = x.snap /\ y.remote = x.remote
  BY <1>1, PushSnapshotTask
<1>4. TaskKeeps(t, head, k, c, m, y)
  <2>1. CASE y = Idle
    BY <1>2, <2>1, StopKeeps
  <2>2. CASE y # Idle
    BY <1>2, <1>3, <2>2 DEF TaskKeeps, Syncing
  <2> QED BY <2>1, <2>2
<1>5. UNCHANGED <<head, marker, headCache, markerCache>>
  BY <1>3 DEF caches
<1> QED BY <1>1, <1>3, <1>4, <1>5, KeepsQuiet

\* A crash changes no cell.
LEMMA CrashKeeps ==
    ASSUME Typed, Keeps, NEW r \in Repo, Crash(r)
    PROVE  Keeps' /\ HeadsGrow(head, head')
<1>1. PICK lost : lost = {h \in Handle : RepoOf[BranchOf[h]] = r}
  OBVIOUS
<1>2. /\ UNCHANGED <<head, marker>>
      /\ headCache' = [h \in Handle |-> IF h \in lost THEN None ELSE headCache[h]]
      /\ markerCache' = [h \in Handle |-> IF h \in lost THEN None ELSE markerCache[h]]
      /\ task' = [t \in Task |-> IF HandleOf[t] \in lost THEN Idle ELSE task[t]]
  BY <1>1 DEF Crash, cells
<1>3. ASSUME NEW h \in Handle
      PROVE  /\ Within(TreeOf(headCache'[h]), TreeOf(head'[BranchOf[h]]))
             /\ MarkerKeeps(head', head'[BranchOf[h]], markerCache'[h])
  <2>1. CASE h \in lost
    BY <1>2, <2>1, EmptyWithin DEF MarkerKeeps
  <2>2. CASE h \notin lost
    BY <1>2, <2>2 DEF Keeps
  <2> QED BY <2>1, <2>2
<1>4. ASSUME NEW t \in Task
      PROVE  TaskKeeps(t, head', marker'[BranchT(t)], headCache'[HandleT(t)],
                       markerCache'[HandleT(t)], task'[t])
  <2>1. CASE HandleOf[t] \in lost
    <3>1. task'[t] = Idle /\ markerCache'[HandleT(t)] = None
      BY <1>2, <2>1, PlaceType DEF HandleT
    <3> QED BY <3>1, IdleKeeps
  <2>2. CASE HandleOf[t] \notin lost
    <3>1. /\ task'[t] = task[t] /\ headCache'[HandleT(t)] = headCache[HandleT(t)]
          /\ markerCache'[HandleT(t)] = markerCache[HandleT(t)]
      BY <1>2, <2>2, PlaceType DEF HandleT
    <3> QED BY <1>2, <3>1, KeepsAt
  <2> QED BY <2>1, <2>2
<1> QED BY <1>2, <1>3, <1>4, HeadsGrowNot DEF Keeps

\* Keeps is inductive relative to Typed, and no step takes an entry from a head.
LEMMA KeepsNext ==
    ASSUME AddOnly, Apart, Typed, Keeps, [Next]_vars
    PROVE  Keeps' /\ HeadsGrow(head, head')
<1>1. ASSUME NEW t \in Task, Step(t) PROVE Keeps' /\ HeadsGrow(head, head')
  BY <1>1, RefreshKeeps, PrepareKeeps, PublishKeeps, ContactKeeps, ResolveKeeps,
     MergeStepKeeps, MarkerStepKeeps, CheckKeeps, PushHeadKeeps, SnapshotKeeps DEF Step
<1>2. CASE UNCHANGED vars
  BY <1>2, HeadsGrowNot DEF Keeps, vars, cells, caches
<1> QED BY <1>1, <1>2, CrashKeeps DEF Next

\* Every tree is empty in the initial states.
LEMMA KeepsInit == Init => Keeps
<1> SUFFICES ASSUME Init PROVE Keeps
  OBVIOUS
<1>1. ASSUME NEW b \in Branch, NEW q
      PROVE  MarkerKeeps(head, q, marker[b])
  <2>1. marker[b] = IF Tracks[b] = None THEN None ELSE [site |-> Tracks[b], tree |-> EmptyTree]
    BY DEF Init
  <2>2. marker[b] # None => marker[b].tree = EmptyTree
    BY <2>1
  <2> QED BY <2>2, EmptyWithin DEF MarkerKeeps
<1>2. ASSUME NEW h \in Handle
      PROVE  /\ headCache[h] = None
             /\ MarkerKeeps(head, head[BranchOf[h]], markerCache[h])
  <2>1. headCache[h] = None /\ markerCache[h] = marker[BranchOf[h]]
    BY DEF Init
  <2> QED BY <1>1, <2>1, HandleType
<1>3. ASSUME NEW t \in Task
      PROVE  TaskKeeps(t, head, marker[BranchT(t)], headCache[HandleT(t)],
                       markerCache[HandleT(t)], task[t])
  <2>1. task[t] = Idle /\ markerCache[HandleT(t)] = marker[BranchT(t)]
    BY PlaceType DEF Init
  <2>2. MarkerKeeps(head, headCache[HandleT(t)], marker[BranchT(t)])
    BY <1>1, PlaceType
  <2> QED BY <2>1, <2>2, IdleKeeps DEF MarkerKeeps
<1> QED BY <1>1, <1>2, <1>3, EmptyWithin DEF Keeps

(***************************************************************************)
(* No head ever loses an entry, local or remote: a commit, a merge and a   *)
(* fast-forward push all contain what they replace.  For any number of     *)
(* replicas, remotes and chained branches whose pulls and pushes           *)
(* interleave, with crashes, failed uploads, switched upstreams and        *)
(* several handles to a branch, when edits assert or retract and the tasks *)
(* keep apart.                                                             *)
(***************************************************************************)
THEOREM LosesNothing ==
    ASSUME AddOnly, Apart
    PROVE  Spec => NothingLost
<1>1. Init => Keeps
  BY KeepsInit
<1>2. Typed /\ Keeps /\ [Next]_vars => Keeps'
  BY KeepsNext
<1>3. Typed /\ Keeps /\ [Next]_vars =>
        [\A s \in Site : Entries(TreeOf(head[s])) \subseteq Entries(TreeOf(head'[s]))]_vars
  BY KeepsNext DEF HeadsGrow, Within
<1> QED BY <1>1, <1>2, <1>3, TypedHolds, PTL DEF Spec, NothingLost

(***************************************************************************)
(* Under the same hypotheses the sync base of a branch never runs ahead of *)
(* its head, whichever publish of a pull or push a crash or a lost         *)
(* compare-and-swap comes after.                                           *)
(***************************************************************************)
THEOREM MarkersBehind ==
    ASSUME AddOnly, Apart
    PROVE  Spec => []MarkerBehindHead
<1>1. Init => Keeps
  BY KeepsInit
<1>2. Typed /\ Keeps /\ [Next]_vars => Keeps'
  BY KeepsNext
<1>3. Keeps => MarkerBehindHead
  BY DEF Keeps, MarkerKeeps, Within, MarkerBehindHead
<1> QED BY <1>1, <1>2, <1>3, TypedHolds, PTL DEF Spec

\* A marker moves on from the tree of the last sync.
LEMMA AdvancesNext ==
    ASSUME Typed, Keeps, [Next]_vars, NEW b \in Branch
    PROVE  marker[b] # None /\ marker'[b] # None =>
             Within(marker[b].tree, marker'[b].tree) \/ marker'[b].tree = EmptyTree
<1>1. CASE UNCHANGED marker
  BY <1>1, EmptyWithin
<1>2. CASE \E t \in Task : PullMarker(t) \/ PushMarker(t) \/ SetUpstream(t)
  <2>1. PICK t \in Task : PullMarker(t) \/ PushMarker(t) \/ SetUpstream(t)
    BY <1>2
  <2>3. PICK m, k : m = markerCache[HandleT(t)] /\ k = marker[BranchT(t)]
    OBVIOUS
  <2>4. PICK content \in Upstreams :
          /\ PublishMarker(t, content)
          /\ Within(m.tree, content.tree) \/ content.tree = EmptyTree
    BY <2>1, <2>3, ContentKeeps
  <2>5. \/ UNCHANGED marker
        \/ /\ Swaps(k, content, m)
           /\ marker' = [marker EXCEPT ![BranchT(t)] = content]
    BY <2>3, <2>4 DEF PublishMarker, MarkerMoves
  <2>6. CASE /\ Swaps(k, content, m)
             /\ marker' = [marker EXCEPT ![BranchT(t)] = content]
    <3>1. k \in OptUpstream /\ m \in OptUpstream
      BY <2>3, KeepsAt
    <3>2. k = m \/ k = content
      BY <2>6, <3>1, SwapsMeans DEF OptUpstream
    <3>3. Within(k.tree, content.tree) \/ content.tree = EmptyTree
      BY <2>4, <3>2, EmptyWithin
    <3>4. marker'[b] = IF b = BranchT(t) THEN content ELSE marker[b]
      BY <2>6, PlaceType DEF Typed, TypeOK
    <3> QED BY <2>3, <3>3, <3>4, EmptyWithin
  <2> QED BY <1>1, <2>5, <2>6
<1>3. ASSUME NEW t \in Task, Step(t)
      PROVE  UNCHANGED marker \/ PullMarker(t) \/ PushMarker(t) \/ SetUpstream(t)
  BY <1>3 DEF Step, RefreshHead, RefreshMarker, CommitPrepare, CommitPublish, PullStart,
     PushStart, FetchStart, Contact, FetchResolve, FetchRecord, PullMerge, PullHead,
     PushCheck, PushUploadFails, PushHead, PushSnapshot, cells
<1>4. ASSUME NEW r \in Repo, Crash(r)
      PROVE  UNCHANGED marker
  BY <1>4 DEF Crash, cells
<1>5. UNCHANGED vars => UNCHANGED marker
  BY DEF vars, cells
<1> QED BY <1>1, <1>2, <1>3, <1>4, <1>5 DEF Next

(***************************************************************************)
(* The sync base does not move backwards unless an upstream is set anew:   *)
(* the pulls and pushes of a branch only advance its marker.               *)
(***************************************************************************)
THEOREM MarkersAdvance ==
    ASSUME AddOnly, Apart
    PROVE  Spec => MarkerAdvances
<1>1. Init => Keeps
  BY KeepsInit
<1>2. Typed /\ Keeps /\ [Next]_vars => Keeps'
  BY KeepsNext
<1>3. Typed /\ Keeps /\ [Next]_vars =>
        [\A b \in Branch :
           marker[b] # None /\ marker'[b] # None /\ marker'[b].site = marker[b].site
             => \/ Entries(marker[b].tree) \subseteq Entries(marker'[b].tree)
                \/ marker'[b].tree = EmptyTree]_vars
  BY AdvancesNext DEF Within
<1> QED BY <1>1, <1>2, <1>3, TypedHolds, PTL DEF Spec, MarkerAdvances

-----------------------------------------------------------------------------
(***************************************************************************)
(* What a push finds in the local archive.  For a branch whose last pull   *)
(* was not interrupted, the nodes that tell its head from its sync base    *)
(* are local, or would be had every block that was read been written,      *)
(* although the rest of either tree may only be at the remote:             *)
(* a commit and a merge copy what they read and add what they make, and    *)
(* the nodes that tell two trees apart are among those that tell each from *)
(* a third.  Stated for branches that one task at a time works on, whose   *)
(* upstream is the configured one, and that no other branch is pushed to:  *)
(* a push to a local branch reads no block, so the pushed head may lie on  *)
(* blocks that an interrupted pull of the other branch never copied.       *)
(***************************************************************************)
Exclusive == \A t, u \in Task : BranchT(t) = BranchT(u) => t = u
Replicated ==
    \A t \in Task : /\ "set_upstream" \notin Operations[t]
                    /\ "push" \in Operations[t] => Tracks[BranchT(t)] \notin Branch

Local(t, store, from, to) == DiffReads(from, to) \subseteq store[RepoT(t)]

\* Task t is at x, on a branch with the head `top` and the marker k, through
\* a handle with the cached revision c and the cached marker m; the handles
\* `shut` are closed and the branches `cut` are interrupted.
TaskLocal(t, store, top, k, shut, c, m, cut, x) ==
    /\ k # None => k.site = Tracks[BranchT(t)]
    /\ HandleT(t) \notin shut => c = top /\ m = k
    /\ HandleT(t) \in shut => x.at \in {"idle", "refresh"}
    /\ x.at = "refresh" => c = top
    /\ BranchT(t) \notin cut /\ k # None /\ x.at # "pullMarker" =>
         Local(t, store, k.tree, TreeOf(top))
    /\ x.at = "commit" => Local(t, store, TreeOf(c), TreeOf(x.revision))
    /\ x.at = "pullHead" => Local(t, store, x.tree, TreeOf(x.revision))
    /\ x.at = "pullMarker" => Local(t, store, x.tree, TreeOf(top))
    /\ x.at \in Syncing => x.upstream = k
    /\ x.at \in Syncing /\ x.op = "push" =>
         x.revision = c /\ "push" \in Operations[t]

\* What a repository keeps, and what it would keep had every write succeeded.
Kept == [r \in Repo |-> Fetched(r)]

AllLocal ==
    \A t \in Task :
      TaskLocal(t, Kept, head[BranchT(t)], marker[BranchT(t)], closed,
                headCache[HandleT(t)], markerCache[HandleT(t)], interrupted, task[t])

\* The nodes the differential of two trees loads.
LEMMA DiffMembers ==
    ASSUME NEW x, NEW y, NEW n
    PROVE  n \in DiffReads(x, y) <=>
             /\ x # y
             /\ \/ n \in RootNodes(x) \/ n \in RootNodes(y)
                \/ \E k \in Key : /\ x[k] # y[k]
                                  /\ \/ x[k] # None /\ n = EntryNode(x, k)
                                     \/ y[k] # None /\ n = EntryNode(y, k)
  BY DEF DiffReads, EntryNodes, Changed

\* What tells two trees apart tells one of them from any third.
LEMMA DiffTriangle ==
    ASSUME NEW x, NEW y, NEW z
    PROVE  DiffReads(x, z) \subseteq DiffReads(x, y) \union DiffReads(y, z)
<1> SUFFICES ASSUME NEW n \in DiffReads(x, z), x # y, y # z
             PROVE  n \in DiffReads(x, y) \/ n \in DiffReads(y, z)
  OBVIOUS
<1>1. CASE n \in RootNodes(x) \/ n \in RootNodes(z)
  BY <1>1, DiffMembers
<1>2. CASE \E k \in Key : /\ x[k] # z[k]
                          /\ \/ x[k] # None /\ n = EntryNode(x, k)
                             \/ z[k] # None /\ n = EntryNode(z, k)
  <2>1. PICK k \in Key : /\ x[k] # z[k]
                         /\ \/ x[k] # None /\ n = EntryNode(x, k)
                            \/ z[k] # None /\ n = EntryNode(z, k)
    BY <1>2
  <2>2. CASE x[k] # None /\ n = EntryNode(x, k)
    <3>1. CASE x[k] = y[k]
      <4>1. EntryNode(y, k) = EntryNode(x, k) /\ y[k] # z[k]
        BY <2>1, <3>1 DEF EntryNode
      <4> QED BY <2>2, <3>1, <4>1, DiffMembers
    <3>2. CASE x[k] # y[k]
      BY <2>2, <3>2, DiffMembers
    <3> QED BY <3>1, <3>2
  <2>3. CASE z[k] # None /\ n = EntryNode(z, k)
    <3>1. CASE z[k] = y[k]
      <4>1. EntryNode(y, k) = EntryNode(z, k) /\ x[k] # y[k]
        BY <2>1, <3>1 DEF EntryNode
      <4> QED BY <2>3, <3>1, <4>1, DiffMembers
    <3>2. CASE z[k] # y[k]
      BY <2>3, <3>2, DiffMembers
    <3> QED BY <3>1, <3>2
  <2> QED BY <2>1, <2>2, <2>3
<1> QED BY <1>1, <1>2, DiffMembers

\* The novel nodes of a tree tell it from the other one.
LEMMA DiffNovel ==
    ASSUME NEW x, NEW y
    PROVE  NovelNodes(x, y) \subseteq DiffReads(x, y)
<1> SUFFICES ASSUME NEW n \in NovelNodes(x, y) PROVE n \in DiffReads(x, y)
  OBVIOUS
<1>1. n \in Nodes(y) /\ n \notin Nodes(x) /\ x # y
  BY DEF NovelNodes
<1>2. CASE n \in RootNodes(y)
  BY <1>1, <1>2, DiffMembers
<1>3. CASE n \in EntryNodes(y, Key)
  <2>1. PICK k \in Key : y[k] # None /\ n = EntryNode(y, k)
    BY <1>3 DEF EntryNodes
  <2>2. x[k] # y[k]
    <3>1. SUFFICES ASSUME x[k] = y[k] PROVE FALSE
      OBVIOUS
    <3>2. n = EntryNode(x, k) /\ x[k] # None
      BY <2>1, <3>1 DEF EntryNode
    <3> QED BY <1>1, <3>2 DEF Nodes, EntryNodes
  <2> QED BY <1>1, <2>1, <2>2, DiffMembers
<1> QED BY <1>1, <1>2, <1>3 DEF Nodes

\* A root is no entry.
LEMMA RootNoEntry ==
    ASSUME NEW x, NEW y, NEW k
    PROVE  RootNode(x) # EntryNode(y, k)
<1>1. DOMAIN RootNode(x) = {"root"}
  BY DEF RootNode
<1>2. "key" \in DOMAIN EntryNode(y, k)
  BY DEF EntryNode
<1> QED BY <1>1, <1>2

\* What an edit loads and makes tells its result from what it found.
LEMMA EditDiff ==
    ASSUME NEW x \in Tree, NEW y \in Tree, NEW keys, Changed(x, y) \subseteq keys
    PROVE  DiffReads(x, y) \subseteq EditReads(x, keys) \union NovelNodes(x, y)
<1> SUFFICES ASSUME NEW n \in DiffReads(x, y)
             PROVE  n \in EditReads(x, keys) \/ n \in NovelNodes(x, y)
  OBVIOUS
<1>1. x # y
  BY DiffMembers
<1>2. PICK j \in Key : x[j] # y[j]
  BY <1>1 DEF Tree
<1>3. j \in keys
  BY <1>2 DEF Changed
<1>4. EditReads(x, keys) = RootNodes(x) \union EntryNodes(x, keys)
  BY <1>3 DEF EditReads
<1>5. CASE n \in RootNodes(x)
  BY <1>4, <1>5
<1>6. CASE n \in RootNodes(y)
  <2>1. n = RootNode(y)
    BY <1>6 DEF RootNodes
  <2>2. RootNode(y) # RootNode(x)
    BY <1>1 DEF RootNode
  <2>3. n \notin Nodes(x)
    BY <2>1, <2>2, RootNoEntry DEF Nodes, RootNodes, EntryNodes
  <2> QED BY <1>6, <2>3 DEF NovelNodes, Nodes
<1>7. ASSUME NEW k \in Key, x[k] # y[k], x[k] # None, n = EntryNode(x, k)
      PROVE  n \in EditReads(x, keys)
  <2>1. k \in keys
    BY <1>7 DEF Changed
  <2> QED BY <1>4, <1>7, <2>1 DEF EntryNodes
<1>8. ASSUME NEW k \in Key, x[k] # y[k], y[k] # None, n = EntryNode(y, k)
      PROVE  n \in NovelNodes(x, y)
  <2>1. ASSUME NEW i \in Key PROVE EntryNode(x, i) # EntryNode(y, k)
    BY <1>8 DEF EntryNode
  <2>2. n \notin Nodes(x)
    BY <1>8, <2>1, RootNoEntry DEF Nodes, RootNodes, EntryNodes
  <2> QED BY <1>8, <2>2 DEF NovelNodes, Nodes, EntryNodes
<1> QED BY <1>5, <1>6, <1>7, <1>8, DiffMembers

\* A merge changes of the upstream's tree only what was changed locally.
LEMMA MergeChanged ==
    ASSUME NEW base \in Tree, NEW local \in Tree, NEW theirs \in Tree
    PROVE  Changed(theirs, Merge(base, local, theirs)) \subseteq Changed(base, local)
<1> SUFFICES ASSUME NEW k \in Key, base[k] = local[k]
             PROVE  Merge(base, local, theirs)[k] = theirs[k]
  BY DEF Changed
<1> QED BY DEF Merge, IntegrateSlot

\* What is kept, with and without lost writes, after a step that keeps blocks.
LEMMA KeptGrows ==
    ASSUME Typed, NEW r \in Repo, NEW reads, NEW written, Keep(r, reads, written)
    PROVE  Grows(Kept, Kept') /\ reads \union written \subseteq Kept'[r]
<1>1. PICK lost \in SUBSET reads :
        /\ archive' = [archive EXCEPT ![r] =
                         archive[r] \union ((reads \ lost) \union written)]
        /\ uncached' = [uncached EXCEPT ![r] = uncached[r] \union lost]
  BY KeepBlocks
<1>2. \A s \in Repo : archive[s] \subseteq archive'[s] /\ uncached[s] \subseteq uncached'[s]
  BY <1>1 DEF Typed, TypeOK
<1>3. reads \union written \subseteq archive'[r] \union uncached'[r]
  BY <1>1 DEF Typed, TypeOK
<1> QED BY <1>2, <1>3 DEF Grows, Kept, Fetched

\* What is kept grows with the archives.
LEMMA KeptWith ==
    ASSUME Grows(archive, archive'), uncached' = uncached
    PROVE  Grows(Kept, Kept')
  BY DEF Grows, Kept, Fetched

\* A step that keeps no blocks.
LEMMA KeptSame ==
    ASSUME archive' = archive, uncached' = uncached
    PROVE  Kept' = Kept
  BY DEF Kept, Fetched

\* What stays has not shrunk.
LEMMA KeptNot ==
    ASSUME Kept' = Kept
    PROVE  Grows(Kept, Kept')
  BY DEF Grows

\* Locality is kept by archives that grow.
LEMMA LocalGrows ==
    ASSUME NEW t \in Task, NEW store, NEW later, Grows(store, later),
           NEW x, NEW y, Local(t, store, x, y)
    PROVE  Local(t, later, x, y)
  BY PlaceType DEF Local, Grows

\* Locality composes.
LEMMA LocalTriangle ==
    ASSUME NEW t, NEW store, NEW x, NEW y, NEW z,
           Local(t, store, x, y), Local(t, store, y, z)
    PROVE  Local(t, store, x, z)
  BY DiffTriangle DEF Local

\* A tree does not differ from itself.
LEMMA LocalSame ==
    ASSUME NEW t, NEW store, NEW x
    PROVE  Local(t, store, x, x)
  BY DEF Local, DiffReads

\* What a task relies on is kept by archives that grow.
LEMMA TaskLocalGrows ==
    ASSUME NEW t \in Task, NEW store, NEW later, Grows(store, later),
           NEW top, NEW k, NEW shut, NEW c, NEW m, NEW cut, NEW x,
           TaskLocal(t, store, top, k, shut, c, m, cut, x)
    PROVE  TaskLocal(t, later, top, k, shut, c, m, cut, x)
  BY LocalGrows DEF TaskLocal

\* What AllLocal says of a task.
LEMMA LocalAt ==
    ASSUME AllLocal, Typed, NEW t \in Task
    PROVE  /\ TaskLocal(t, Kept, head[BranchT(t)], marker[BranchT(t)], closed,
                        headCache[HandleT(t)], markerCache[HandleT(t)], interrupted, task[t])
           /\ head[BranchT(t)] \in OptRevision
           /\ marker[BranchT(t)] \in OptUpstream
           /\ task[t] \in TaskType /\ TaskOK(task[t])
  BY PlaceType DEF AllLocal, Typed, TypeOK

\* A step of one task leaves what the others rely on alone.
LEMMA LocalFrame ==
    ASSUME Typed, Exclusive, AllLocal, NEW t \in Task, NEW y, Goto(t, y),
           Grows(Kept, Kept'),
           \A b \in Branch : b # BranchT(t) =>
               /\ head'[b] = head[b] /\ marker'[b] = marker[b]
               /\ b \in interrupted' <=> b \in interrupted,
           \A h \in Handle : h # HandleT(t) =>
               /\ headCache'[h] = headCache[h] /\ markerCache'[h] = markerCache[h]
               /\ h \in closed' <=> h \in closed,
           TaskLocal(t, Kept', head'[BranchT(t)], marker'[BranchT(t)], closed',
                     headCache'[HandleT(t)], markerCache'[HandleT(t)], interrupted', y)
    PROVE  AllLocal'
<1> SUFFICES ASSUME NEW u \in Task
             PROVE  TaskLocal(u, Kept', head'[BranchT(u)], marker'[BranchT(u)], closed',
                              headCache'[HandleT(u)], markerCache'[HandleT(u)],
                              interrupted', task'[u])
  BY DEF AllLocal
<1>1. CASE u = t
  <2>1. task'[t] = y
    BY DEF Goto, Typed, TypeOK
  <2> QED BY <1>1, <2>1
<1>2. CASE u # t
  <2>1. BranchT(u) # BranchT(t) /\ BranchT(u) \in Branch /\ HandleT(u) \in Handle
    BY <1>2, PlaceType DEF Exclusive
  <2>2. HandleT(u) # HandleT(t)
    BY <2>1, PlaceType
  <2>3. /\ task'[u] = task[u]
        /\ head'[BranchT(u)] = head[BranchT(u)]
        /\ marker'[BranchT(u)] = marker[BranchT(u)]
        /\ headCache'[HandleT(u)] = headCache[HandleT(u)]
        /\ markerCache'[HandleT(u)] = markerCache[HandleT(u)]
        /\ HandleT(u) \in closed' <=> HandleT(u) \in closed
        /\ BranchT(u) \in interrupted' <=> BranchT(u) \in interrupted
    BY <1>2, <2>1, <2>2 DEF Goto, Typed, TypeOK
  <2>4. TaskLocal(u, Kept', head[BranchT(u)], marker[BranchT(u)], closed,
                  headCache[HandleT(u)], markerCache[HandleT(u)], interrupted, task[u])
    BY LocalAt, TaskLocalGrows
  <2> QED BY <2>3, <2>4 DEF TaskLocal
<1> QED BY <1>1, <1>2

\* A step that writes no cell and no cache.
LEMMA LocalQuiet ==
    ASSUME Typed, Exclusive, AllLocal, NEW t \in Task, NEW y, Goto(t, y),
           Grows(Kept, Kept'),
           UNCHANGED <<head, marker, headCache, markerCache, closed, interrupted>>,
           TaskLocal(t, Kept', head[BranchT(t)], marker[BranchT(t)], closed,
                     headCache[HandleT(t)], markerCache[HandleT(t)], interrupted, y)
    PROVE  AllLocal'
  BY LocalFrame

\* A task that gives up relies on no more than before.
LEMMA IdleLocal ==
    ASSUME NEW t, NEW store, NEW top, NEW k, NEW shut, NEW c, NEW m, NEW cut, NEW x,
           TaskLocal(t, store, top, k, shut, c, m, cut, x), x.at # "pullMarker"
    PROVE  TaskLocal(t, store, top, k, shut, c, m, cut, Idle)
  BY IdleOK DEF TaskLocal, Syncing

\* A sync that goes on with the upstream and the revision it began with.
LEMMA SyncLocal ==
    ASSUME NEW t, NEW store, NEW top, NEW k, NEW shut, NEW c, NEW m, NEW cut, NEW x, NEW y,
           TaskLocal(t, store, top, k, shut, c, m, cut, x),
           x.at \in Syncing, y.at \in Syncing,
           y.op = x.op, y.upstream = x.upstream, y.revision = x.revision
    PROVE  TaskLocal(t, store, top, k, shut, c, m, cut, y)
  BY DEF TaskLocal, Syncing

\* With one task per branch a refresh brings the two caches up to date.
LEMMA RefreshLocal ==
    ASSUME Typed, Exclusive, AllLocal, NEW t \in Task, RefreshHead(t) \/ RefreshMarker(t)
    PROVE  AllLocal'
<1>1. PICK b, h, top, k, c, m, x :
        /\ b = BranchT(t) /\ h = HandleT(t) /\ top = head[b] /\ k = marker[b]
        /\ c = headCache[h] /\ m = markerCache[h] /\ x = task[t]
  OBVIOUS
<1>2. TaskLocal(t, Kept, top, k, closed, c, m, interrupted, x)
  BY <1>1, LocalAt
<1>3. h \in Handle /\ b \in Branch
  BY <1>1, PlaceType
<1>4. UNCHANGED <<head, marker, Kept, interrupted>>
  BY KeptSame DEF RefreshHead, RefreshMarker, cells, bounds
<1>5. Grows(Kept, Kept')
  BY <1>4, KeptNot
<1>6. CASE RefreshHead(t)
  <2>1. PICK y : y = [at |-> "refresh"]
    OBVIOUS
  <2>2. /\ Goto(t, y) /\ UNCHANGED <<markerCache, closed>> /\ x = Idle
        /\ headCache' = [headCache EXCEPT ![h] = top]
    BY <1>1, <1>6, <2>1 DEF RefreshHead
  <2>3. /\ headCache'[h] = top
        /\ \A g \in Handle : g # h => headCache'[g] = headCache[g]
    BY <1>3, <2>2 DEF Typed, TypeOK
  <2>4. x.at = "idle" /\ y.at = "refresh"
    BY <2>1, <2>2, IdleOK
  <2>5. TaskLocal(t, Kept, top, k, closed, top, m, interrupted, y)
    BY <1>1, <1>2, <2>4 DEF TaskLocal, Syncing
  <2> QED BY <1>1, <1>4, <1>5, <2>2, <2>3, <2>5, LocalFrame
<1>7. CASE RefreshMarker(t)
  <2>1. /\ Goto(t, Idle) /\ headCache' = headCache /\ closed' = closed \ {h}
        /\ markerCache' = [markerCache EXCEPT ![h] = k]
        /\ x.at = "refresh"
    BY <1>1, <1>7 DEF RefreshMarker
  <2>2. /\ markerCache'[h] = k
        /\ \A g \in Handle : g # h => markerCache'[g] = markerCache[g]
    BY <1>3, <2>1 DEF Typed, TypeOK
  <2>3. TaskLocal(t, Kept, top, k, closed', c, k, interrupted, Idle)
    BY <1>1, <1>2, <2>1, IdleOK DEF TaskLocal, Syncing
  <2>4. \A g \in Handle : g # h => (g \in closed' <=> g \in closed)
    BY <2>1
  <2> QED BY <1>1, <1>4, <1>5, <2>1, <2>2, <2>3, <2>4, LocalFrame
<1> QED BY <1>6, <1>7

\* A commit imports the blocks that tell its tree from the head's.
LEMMA PrepareLocal ==
    ASSUME Typed, Exclusive, AllLocal, NEW t \in Task, CommitPrepare(t)
    PROVE  AllLocal'
<1>1. PICK i, y, base, tree, reads :
        CommitStep(t, i, y, base, tree, reads)
  BY CommitTask
<1>2. PICK r, novel, blocks : /\ r = RepoT(t) /\ novel = NovelNodes(TreeOf(base), tree)
                              /\ blocks = reads \union novel
  OBVIOUS
<1>3. Keep(r, reads, novel)
  BY <1>1, <1>2 DEF CommitStep
<1>4. Grows(Kept, Kept') /\ blocks \subseteq Kept'[r]
  BY <1>2, <1>3, PlaceType, KeptGrows
<1>5. DiffReads(TreeOf(base), tree) \subseteq blocks
  <2>1. Changed(TreeOf(base), tree) \subseteq {i.key} \union Changed(TreeOf(base), tree)
    OBVIOUS
  <2> QED BY <1>1, <1>2, <2>1, EditDiff DEF CommitStep
<1>6. Local(t, Kept', TreeOf(base), tree)
  BY <1>2, <1>4, <1>5 DEF Local
<1>7. /\ Goto(t, y) /\ y.at = "commit" /\ TreeOf(y.revision) = tree
      /\ base = headCache[HandleT(t)] /\ task[t] = Idle
  BY <1>1, TreeOfRevision DEF CommitStep
<1>8. UNCHANGED <<head, marker, headCache, markerCache, closed, interrupted>>
  BY <1>1 DEF CommitStep, CommitPrepare, cells, caches
<1>9. HandleT(t) \notin closed
  BY DEF CommitPrepare, Starts
<1>10. TaskLocal(t, Kept', head[BranchT(t)], marker[BranchT(t)], closed,
                 base, markerCache[HandleT(t)], interrupted, Idle)
  BY <1>4, <1>7, LocalAt, TaskLocalGrows
<1>11. TaskLocal(t, Kept', head[BranchT(t)], marker[BranchT(t)], closed,
                 base, markerCache[HandleT(t)], interrupted, y)
  BY <1>6, <1>7, <1>9, <1>10, IdleOK DEF TaskLocal, Syncing
<1> QED BY <1>4, <1>7, <1>8, <1>11, LocalQuiet

\* The head of a branch, and the cache of its handle, move together.
LEMMA HeadLocal ==
    ASSUME Typed, Exclusive, AllLocal, NEW t \in Task, NEW y, Goto(t, y),
           NEW r \in Revisions,
           head' = [head EXCEPT ![BranchT(t)] = r],
           headCache' = [headCache EXCEPT ![HandleT(t)] = r],
           UNCHANGED <<marker, Kept, markerCache, closed, interrupted>>,
           TaskLocal(t, Kept, r, marker[BranchT(t)], closed, r,
                     markerCache[HandleT(t)], interrupted, y)
    PROVE  AllLocal'
<1>1. HandleT(t) \in Handle /\ BranchT(t) \in Site
  BY PlaceType
<1>2. /\ head'[BranchT(t)] = r /\ headCache'[HandleT(t)] = r
      /\ \A b \in Branch : b # BranchT(t) => head'[b] = head[b]
      /\ \A h \in Handle : h # HandleT(t) => headCache'[h] = headCache[h]
  BY <1>1, BranchType DEF Typed, TypeOK
<1>3. Grows(Kept, Kept')
  BY KeptNot
<1> QED BY <1>2, <1>3, LocalFrame

\* The publish of a commit, and the first one of a pull.
LEMMA PublishLocal ==
    ASSUME Typed, Exclusive, AllLocal, NEW t \in Task, CommitPublish(t) \/ PullHead(t)
    PROVE  AllLocal'
<1>1. PICK top, k, c, m, x :
        /\ top = head[BranchT(t)] /\ k = marker[BranchT(t)]
        /\ c = headCache[HandleT(t)] /\ m = markerCache[HandleT(t)] /\ x = task[t]
  OBVIOUS
<1>2. /\ TaskLocal(t, Kept, top, k, closed, c, m, interrupted, x)
      /\ x \in TaskType
  BY <1>1, LocalAt
<1>3. CASE CommitPublish(t)
  <2>1. /\ Goto(t, Idle) /\ x.at = "commit"
        /\ UNCHANGED <<marker, Kept, markerCache, closed, interrupted>>
        /\ \/ /\ head' = [head EXCEPT ![BranchT(t)] = x.revision]
              /\ headCache' = [headCache EXCEPT ![HandleT(t)] = x.revision]
           \/ UNCHANGED <<head, headCache>>
    BY <1>1, <1>3, KeptSame DEF CommitPublish, bounds
  <2>2. x.revision \in Revisions
    BY <1>2, <2>1, CommitFields
  <2>3. HandleT(t) \notin closed /\ c = top /\ m = k /\ Local(t, Kept, TreeOf(c), TreeOf(x.revision))
    BY <1>2, <2>1 DEF TaskLocal
  <2>4. BranchT(t) \notin interrupted /\ k # None =>
          Local(t, Kept, k.tree, TreeOf(x.revision))
    BY <1>2, <2>1, <2>3, LocalTriangle DEF TaskLocal
  <2>5. TaskLocal(t, Kept, x.revision, k, closed, x.revision, m, interrupted, Idle)
    BY <1>2, <2>1, <2>3, <2>4, IdleOK DEF TaskLocal, Syncing
  <2>6. TaskLocal(t, Kept, top, k, closed, c, m, interrupted, Idle)
    BY <1>2, <2>1, IdleLocal
  <2> QED BY <1>1, <2>1, <2>2, <2>5, <2>6, HeadLocal, LocalQuiet, KeptNot
<1>4. CASE PullHead(t)
  <2>1. PICK y \in TaskType :
          /\ Goto(t, y)
          /\ UNCHANGED <<marker, Kept, markerCache, closed, interrupted>>
          /\ x.at = "pullHead"
          /\ \/ y = Idle /\ UNCHANGED <<head, headCache>>
             \/ /\ head' = [head EXCEPT ![BranchT(t)] = x.revision]
                /\ headCache' = [headCache EXCEPT ![HandleT(t)] = x.revision]
                /\ y.at = "pullMarker" /\ y.tree = x.tree
    BY <1>1, <1>4, PullHeadTask, KeptSame DEF bounds
  <2>2. x.revision \in Revisions
    BY <1>2, <2>1, PullFields
  <2>3. /\ HandleT(t) \notin closed /\ c = top /\ m = k
        /\ Local(t, Kept, x.tree, TreeOf(x.revision))
    BY <1>2, <2>1 DEF TaskLocal
  <2>4. y.at = "pullMarker" /\ y.tree = x.tree =>
          TaskLocal(t, Kept, x.revision, k, closed, x.revision, m, interrupted, y)
    BY <1>2, <2>1, <2>3 DEF TaskLocal, Syncing
  <2>5. TaskLocal(t, Kept, top, k, closed, c, m, interrupted, Idle)
    BY <1>2, <2>1, IdleLocal
  <2> QED BY <1>1, <2>1, <2>2, <2>4, <2>5, HeadLocal, LocalQuiet, KeptNot
<1> QED BY <1>3, <1>4

\* A sync begins with what its handle has cached.
LEMMA ContactLocal ==
    ASSUME Typed, Exclusive, AllLocal, NEW t \in Task,
           PullStart(t) \/ PushStart(t) \/ FetchStart(t)
    PROVE  AllLocal'
<1>1. PICK op \in {"pull", "push", "fetch"} : Contact(t, op)
  BY DEF PullStart, PushStart, FetchStart
<1>2. PICK y \in TaskType :
        /\ Goto(t, y)
        /\ UNCHANGED <<cells, Kept, caches, bounds>>
        /\ task[t] = Idle
        /\ HandleT(t) \notin closed
        /\ y.at \in Syncing
        /\ y.op = op
        /\ y.upstream = markerCache[HandleT(t)]
        /\ y.revision = IF op = "push" THEN headCache[HandleT(t)] ELSE None
  BY <1>1, ContactTask, KeptSame DEF bounds
<1>3. op \in Operations[t]
  BY <1>1 DEF Contact, Starts
<1>4. UNCHANGED <<head, marker, headCache, markerCache, closed, interrupted>>
  BY <1>2 DEF cells, caches, bounds
<1>5. TaskLocal(t, Kept, head[BranchT(t)], marker[BranchT(t)], closed,
                headCache[HandleT(t)], markerCache[HandleT(t)], interrupted, Idle)
  BY <1>2, LocalAt
<1>6. TaskLocal(t, Kept, head[BranchT(t)], marker[BranchT(t)], closed,
                headCache[HandleT(t)], markerCache[HandleT(t)], interrupted, y)
  BY <1>2, <1>3, <1>5, IdleOK DEF TaskLocal, Syncing
<1> QED BY <1>2, <1>4, <1>6, LocalQuiet, KeptNot

\* The steps of a sync that only learn about the upstream or record it.
LEMMA ResolveLocal ==
    ASSUME Typed, Exclusive, AllLocal, NEW t \in Task,
           FetchResolve(t) \/ FetchRecord(t) \/ PushSnapshot(t)
    PROVE  AllLocal'
<1>1. PICK x : x = task[t]
  OBVIOUS
<1>2. PICK y \in TaskType :
        /\ Goto(t, y)
        /\ UNCHANGED <<head, marker, Kept, caches, bounds>>
        /\ x.at \in {"resolve", "record", "pushSnapshot"}
        /\ \/ y = Idle
           \/ /\ y.at \in {"record", "merge", "check", "pushMarker"}
              /\ y.op = x.op /\ y.upstream = x.upstream /\ y.revision = x.revision
  <2>1. CASE FetchResolve(t)
    BY <1>1, <2>1, ResolveTask, KeptSame DEF cells, bounds
  <2>2. CASE FetchRecord(t)
    BY <1>1, <2>2, RecordTask, KeptSame DEF bounds
  <2>3. CASE PushSnapshot(t)
    BY <1>1, <2>3, PushSnapshotTask, KeptSame DEF bounds
  <2> QED BY <2>1, <2>2, <2>3
<1>3. UNCHANGED <<head, marker, headCache, markerCache, closed, interrupted>>
  BY <1>2 DEF caches, bounds
<1>4. TaskLocal(t, Kept, head[BranchT(t)], marker[BranchT(t)], closed,
                headCache[HandleT(t)], markerCache[HandleT(t)], interrupted, x)
  BY <1>1, LocalAt
<1>5. TaskLocal(t, Kept, head[BranchT(t)], marker[BranchT(t)], closed,
                headCache[HandleT(t)], markerCache[HandleT(t)], interrupted, y)
  <2>1. CASE y = Idle
    BY <1>2, <1>4, <2>1, IdleLocal
  <2>2. CASE y # Idle
    <3>1. x.at \in Syncing /\ y.at \in Syncing
      BY <1>2, <2>2 DEF Syncing
    <3> QED BY <1>2, <1>4, <2>2, <3>1, SyncLocal
  <2> QED BY <2>1, <2>2
<1> QED BY <1>2, <1>3, <1>5, LocalQuiet, KeptNot

\* A merge imports the blocks that tell its tree from the upstream's.
LEMMA MergeLocal ==
    ASSUME Typed, Exclusive, AllLocal, NEW t \in Task, PullMerge(t)
    PROVE  AllLocal'
<1>1. PICK x, base, ours, theirs, tree, reads :
        /\ x = task[t] /\ base = Base(HandleT(t)) /\ ours = headCache[HandleT(t)]
        /\ theirs = x.remote
        /\ tree = Merge(base, TreeOf(ours), theirs.tree)
        /\ reads = DiffReads(base, TreeOf(ours))
                     \union EditReads(theirs.tree, Changed(base, TreeOf(ours)))
  OBVIOUS
<1>2. /\ x.at = "merge"
      /\ UNCHANGED <<cells, caches, interrupted>>
      /\ base \in Tree /\ tree \in Tree /\ theirs \in Revisions
      /\ TreeOf(ours) \in Tree
  BY <1>1, MergeTask
<1>3. PICK y \in TaskType :
        /\ Goto(t, y)
        /\ \/ y = Idle /\ UNCHANGED <<archive, uncached>>
           \/ /\ y.at = "pullHead" /\ y.tree = theirs.tree
              /\ y.revision = theirs \/ y.revision.tree = tree
              /\ Keep(RepoT(t), reads, NovelNodes(theirs.tree, tree))
  BY <1>1, MergeTask
<1>4. UNCHANGED <<head, marker, headCache, markerCache, closed, interrupted>>
  BY <1>2 DEF cells, caches
<1>5. TaskLocal(t, Kept, head[BranchT(t)], marker[BranchT(t)], closed,
                ours, markerCache[HandleT(t)], interrupted, x)
  BY <1>1, LocalAt
<1>6. CASE y = Idle /\ UNCHANGED <<archive, uncached>>
  <2>1. TaskLocal(t, Kept, head[BranchT(t)], marker[BranchT(t)], closed,
                  ours, markerCache[HandleT(t)], interrupted, Idle)
    BY <1>2, <1>5, IdleLocal
  <2>2. Kept' = Kept
    BY <1>6, KeptSame
  <2> QED BY <1>1, <1>3, <1>4, <1>6, <2>1, <2>2, LocalQuiet, KeptNot
<1>7. CASE /\ y.at = "pullHead" /\ y.tree = theirs.tree
           /\ y.revision = theirs \/ y.revision.tree = tree
           /\ Keep(RepoT(t), reads, NovelNodes(theirs.tree, tree))
  <2>1. PICK novel, blocks : /\ novel = NovelNodes(theirs.tree, tree)
                             /\ blocks = reads \union novel
    OBVIOUS
  <2>2. Keep(RepoT(t), reads, novel)
    BY <1>7, <2>1
  <2>3. Grows(Kept, Kept') /\ blocks \subseteq Kept'[RepoT(t)]
    BY <2>1, <2>2, PlaceType, KeptGrows
  <2>4. theirs.tree \in Tree /\ TreeOf(theirs) = theirs.tree
    BY <1>2, TreeOfRevision
  <2>5. DiffReads(theirs.tree, tree) \subseteq blocks
    BY <1>1, <1>2, <2>1, <2>4, MergeChanged, EditDiff
  <2>6. y.revision \in Revisions
    BY <1>7, PullFields
  <2>7. Local(t, Kept', y.tree, TreeOf(y.revision))
    BY <1>7, <2>3, <2>4, <2>5, <2>6, LocalSame, TreeOfRevision DEF Local
  <2>8. TaskLocal(t, Kept', head[BranchT(t)], marker[BranchT(t)], closed,
                  ours, markerCache[HandleT(t)], interrupted, x)
    BY <1>5, <2>3, TaskLocalGrows
  <2>9. TaskLocal(t, Kept', head[BranchT(t)], marker[BranchT(t)], closed,
                  ours, markerCache[HandleT(t)], interrupted, y)
    BY <1>2, <1>7, <2>7, <2>8 DEF TaskLocal, Syncing
  <2> QED BY <1>1, <1>3, <1>4, <2>3, <2>9, LocalQuiet
<1> QED BY <1>3, <1>6, <1>7

\* The divergence check and the uploads, complete or not.
LEMMA CheckLocal ==
    ASSUME Typed, Exclusive, AllLocal, NEW t \in Task, PushCheck(t) \/ PushUploadFails(t)
    PROVE  AllLocal'
<1>1. PICK x : x = task[t]
  OBVIOUS
<1>2. PICK y \in TaskType :
        /\ Goto(t, y)
        /\ UNCHANGED <<cells, caches, interrupted>>
        /\ x.at = "check"
        /\ \/ y = Idle
           \/ /\ y.at = "pushHead"
              /\ y.op = x.op /\ y.upstream = x.upstream /\ y.revision = x.revision
  <2>1. CASE PushCheck(t)
    BY <1>1, <2>1, CheckTask DEF bounds
  <2>2. CASE PushUploadFails(t)
    BY <1>1, <2>2, IdleOK DEF PushUploadFails
  <2> QED BY <2>1, <2>2
<1>3. Grows(Kept, Kept')
  <2>1. x \in TaskType /\ x.at \in Syncing
    BY <1>1, <1>2, LocalAt DEF Syncing
  <2>2. RepoOf[x.upstream.site] \in Repo
    BY <2>1, SyncFields, TopologyAssumption
  <2>3. \/ UNCHANGED archive
        \/ \E blocks : archive' = [archive EXCEPT ![RepoOf[x.upstream.site]] =
                                     archive[RepoOf[x.upstream.site]] \union blocks]
    <3>1. CASE PushCheck(t)
      BY <1>1, <3>1 DEF PushCheck
    <3>2. CASE PushUploadFails(t)
      BY <1>1, <3>2 DEF PushUploadFails
    <3> QED BY <3>1, <3>2
  <2>4. Grows(archive, archive')
    BY <2>2, <2>3, GrowsAt, GrowsNot
  <2>5. uncached' = uncached
    BY DEF PushCheck, PushUploadFails, bounds
  <2> QED BY <2>4, <2>5, KeptWith
<1>4. UNCHANGED <<head, marker, headCache, markerCache, closed, interrupted>>
  BY <1>2 DEF cells, caches
<1>5. TaskLocal(t, Kept', head[BranchT(t)], marker[BranchT(t)], closed,
                headCache[HandleT(t)], markerCache[HandleT(t)], interrupted, x)
  BY <1>1, <1>3, LocalAt, TaskLocalGrows
<1>6. TaskLocal(t, Kept', head[BranchT(t)], marker[BranchT(t)], closed,
                headCache[HandleT(t)], markerCache[HandleT(t)], interrupted, y)
  <2>1. CASE y = Idle
    BY <1>2, <1>5, <2>1, IdleLocal
  <2>2. CASE y # Idle
    <3>1. x.at \in Syncing /\ y.at \in Syncing
      BY <1>2, <2>2 DEF Syncing
    <3> QED BY <1>2, <1>5, <2>2, <3>1, SyncLocal
  <2> QED BY <2>1, <2>2
<1> QED BY <1>2, <1>3, <1>4, <1>6, LocalQuiet

\* A push moves the head of a remote only.
LEMMA PushHeadLocal ==
    ASSUME Replicated, Typed, Exclusive, AllLocal, NEW t \in Task, PushHead(t)
    PROVE  AllLocal'
<1>1. PICK x, s : x = task[t] /\ s = x.upstream.site
  OBVIOUS
<1>2. PICK y \in TaskType :
        /\ Goto(t, y)
        /\ UNCHANGED <<marker, snapshot, Kept, caches, bounds>>
        /\ x.at = "pushHead"
        /\ \/ y = Idle /\ UNCHANGED head
           \/ /\ head' = [head EXCEPT ![s] = x.revision]
              /\ y.at \in {"pushMarker", "pushSnapshot"}
              /\ y.op = x.op /\ y.upstream = x.upstream /\ y.revision = x.revision
  BY <1>1, PushHeadTask, KeptSame DEF bounds
<1>3. /\ TaskLocal(t, Kept, head[BranchT(t)], marker[BranchT(t)], closed,
                   headCache[HandleT(t)], markerCache[HandleT(t)], interrupted, x)
      /\ x \in TaskType /\ TaskOK(x)
  BY <1>1, LocalAt
<1>4. x.at \in Syncing /\ x.op = "push" /\ x.upstream \in Upstreams
  BY <1>2, <1>3, SyncFields DEF Syncing, TaskOK, Pushing
<1>5. s \notin Branch
  <2>1. "push" \in Operations[t] /\ x.upstream = marker[BranchT(t)] /\ x.upstream # None
    BY <1>3, <1>4, NoneAssumption DEF TaskLocal
  <2>2. s = Tracks[BranchT(t)]
    BY <1>1, <1>3, <2>1 DEF TaskLocal
  <2> QED BY <2>1, <2>2 DEF Replicated
<1>6. \A b \in Branch : head'[b] = head[b]
  BY <1>2, <1>5, BranchType DEF Typed, TypeOK
<1>7. UNCHANGED <<marker, Kept, headCache, markerCache, closed, interrupted>>
  BY <1>2 DEF caches, bounds
<1>8. TaskLocal(t, Kept, head[BranchT(t)], marker[BranchT(t)], closed,
                headCache[HandleT(t)], markerCache[HandleT(t)], interrupted, y)
  <2>1. CASE y = Idle
    BY <1>2, <1>3, <2>1, IdleLocal
  <2>2. CASE y # Idle
    <3>1. y.at \in Syncing
      BY <1>2, <2>2 DEF Syncing
    <3> QED BY <1>2, <1>3, <1>4, <2>2, <3>1, SyncLocal
  <2> QED BY <2>1, <2>2
<1> QED BY <1>2, <1>6, <1>7, <1>8, PlaceType, LocalFrame, KeptNot

\* The marker is published after the head it belongs to.
LEMMA MarkerLocal ==
    ASSUME Replicated, Typed, Exclusive, AllLocal, NEW t \in Task,
           PullMarker(t) \/ PushMarker(t) \/ SetUpstream(t)
    PROVE  AllLocal'
<1>1. PICK b, h, top, k, c, m, x :
        /\ b = BranchT(t) /\ h = HandleT(t) /\ top = head[b] /\ k = marker[b]
        /\ c = headCache[h] /\ m = markerCache[h] /\ x = task[t]
  OBVIOUS
<1>2. /\ TaskLocal(t, Kept, top, k, closed, c, m, interrupted, x)
      /\ x \in TaskType /\ TaskOK(x) /\ k \in OptUpstream /\ top \in OptRevision
  BY <1>1, LocalAt
<1>3. ~SetUpstream(t)
  BY SetUpstreamContent DEF Replicated
<1>4. PICK content \in Upstreams :
        /\ PublishMarker(t, content)
        /\ x.at \in {"pullMarker", "pushMarker"}
        /\ k # None => content.site = k.site
        /\ k # None
        /\ Local(t, Kept, content.tree, TreeOf(top))
  <2>1. CASE PullMarker(t)
    <3>1. PICK content \in Upstreams : /\ content.site = m.site /\ content.tree = x.tree
                                       /\ PublishMarker(t, content)
      BY <1>1, <2>1, PullMarkerContent
    <3>2. x.at = "pullMarker" /\ m # None
      BY <1>1, <2>1, PullMarkerContent
    <3>3. m = k
      BY <1>1, <1>2, <3>2 DEF TaskLocal
    <3> QED BY <1>2, <3>1, <3>2, <3>3 DEF TaskLocal
  <2>2. CASE PushMarker(t)
    <3>1. PICK content \in Upstreams : /\ content.site = x.upstream.site
                                       /\ content.tree = x.revision.tree
                                       /\ PublishMarker(t, content)
      BY <1>1, <2>2, PushMarkerContent
    <3>2. x.at = "pushMarker" /\ x.revision \in Revisions
      BY <1>1, <2>2, PushMarkerContent
    <3>3. x.at \in Syncing /\ x.op = "push" /\ x.upstream # None
      BY <1>2, <3>2, SyncFields, NoneAssumption DEF Syncing, TaskOK, Pushing
    <3>4. x.upstream = k /\ x.revision = c /\ c = top
      BY <1>1, <1>2, <3>2, <3>3 DEF TaskLocal
    <3>5. TreeOf(top) = x.revision.tree
      BY <3>2, <3>4, TreeOfRevision
    <3> QED BY <3>1, <3>2, <3>3, <3>4, <3>5, LocalSame
  <2> QED BY <1>3, <2>1, <2>2
<1>5. Goto(t, Idle) /\ UNCHANGED <<head, Kept, headCache, closed>>
  BY <1>4, KeptSame DEF PublishMarker
<1>6. HandleT(t) \notin closed /\ c = top /\ k.site = Tracks[BranchT(t)]
  BY <1>2, <1>4 DEF TaskLocal
<1>7. b \in Branch /\ h \in Handle
  BY <1>1, PlaceType
<1>8. CASE /\ marker' = [marker EXCEPT ![b] = content]
           /\ markerCache' = [markerCache EXCEPT ![h] = content]
           /\ interrupted' = interrupted \ {b}
  <2>1. /\ marker'[b] = content /\ markerCache'[h] = content
        /\ \A a \in Branch : a # b => marker'[a] = marker[a]
        /\ \A g \in Handle : g # h => markerCache'[g] = markerCache[g]
    BY <1>7, <1>8 DEF Typed, TypeOK
  <2>2. TaskLocal(t, Kept, top, content, closed, c, content, interrupted', Idle)
    BY <1>2, <1>4, <1>6, IdleOK DEF TaskLocal, Syncing
  <2>3. \A a \in Branch : a # b => (a \in interrupted' <=> a \in interrupted)
    BY <1>8
  <2> QED BY <1>1, <1>5, <2>1, <2>2, <2>3, LocalFrame, KeptNot
<1>9. CASE /\ UNCHANGED <<marker, markerCache>>
           /\ interrupted' = interrupted \union (IF x.at = "pullMarker" THEN {b} ELSE {})
  <2>1. TaskLocal(t, Kept, top, k, closed, c, m, interrupted', Idle)
    <3>1. CASE x.at = "pullMarker"
      <4>1. BranchT(t) \in interrupted'
        BY <1>1, <1>9, <3>1
      <4> QED BY <1>2, <1>6, <4>1, IdleOK DEF TaskLocal, Syncing
    <3>2. CASE x.at # "pullMarker"
      <4>1. interrupted' = interrupted
        BY <1>9, <3>2
      <4> QED BY <1>2, <3>2, <4>1, IdleLocal
    <3> QED BY <3>1, <3>2
  <2>2. \A a \in Branch : a # b => (a \in interrupted' <=> a \in interrupted)
    BY <1>9
  <2> QED BY <1>1, <1>5, <1>9, <2>1, <2>2, LocalFrame, KeptNot
<1> QED BY <1>1, <1>4, <1>8, <1>9 DEF PublishMarker

\* A crash leaves the branches of the pulls it cut off interrupted.
LEMMA CrashLocal ==
    ASSUME Typed, AllLocal, NEW r \in Repo, Crash(r)
    PROVE  AllLocal'
<1>1. PICK lost : lost = {h \in Handle : RepoOf[BranchOf[h]] = r}
  OBVIOUS
<1>2. /\ UNCHANGED <<head, marker, Kept>>
      /\ closed' = closed \union lost
      /\ headCache' = [h \in Handle |-> IF h \in lost THEN None ELSE headCache[h]]
      /\ markerCache' = [h \in Handle |-> IF h \in lost THEN None ELSE markerCache[h]]
      /\ task' = [t \in Task |-> IF HandleOf[t] \in lost THEN Idle ELSE task[t]]
      /\ interrupted' = interrupted \union
           {BranchT(t) : t \in {u \in Task : HandleOf[u] \in lost
                                             /\ task[u].at = "pullMarker"}}
  BY <1>1, KeptSame DEF Crash, cells
<1> SUFFICES ASSUME NEW t \in Task
             PROVE  TaskLocal(t, Kept, head[BranchT(t)], marker[BranchT(t)], closed',
                              headCache'[HandleT(t)], markerCache'[HandleT(t)],
                              interrupted', task'[t])
  BY <1>2 DEF AllLocal
<1>3. TaskLocal(t, Kept, head[BranchT(t)], marker[BranchT(t)], closed,
                headCache[HandleT(t)], markerCache[HandleT(t)], interrupted, task[t])
  BY LocalAt
<1>4. interrupted \subseteq interrupted'
  BY <1>2
<1>5. CASE HandleOf[t] \in lost
  <2>1. task'[t] = Idle /\ HandleT(t) \in closed'
    BY <1>2, <1>5 DEF HandleT
  <2>2. task[t].at = "pullMarker" => BranchT(t) \in interrupted'
    BY <1>2, <1>5
  <2> QED BY <1>3, <1>4, <2>1, <2>2, IdleOK DEF TaskLocal, Syncing
<1>6. CASE HandleOf[t] \notin lost
  <2>1. /\ task'[t] = task[t] /\ headCache'[HandleT(t)] = headCache[HandleT(t)]
        /\ markerCache'[HandleT(t)] = markerCache[HandleT(t)]
        /\ HandleT(t) \in closed' <=> HandleT(t) \in closed
    BY <1>2, <1>6, PlaceType DEF HandleT
  <2> QED BY <1>3, <1>4, <2>1 DEF TaskLocal
<1> QED BY <1>5, <1>6

\* AllLocal is inductive relative to Typed.
LEMMA LocalNext ==
    ASSUME Replicated, Exclusive, Typed, AllLocal, [Next]_vars
    PROVE  AllLocal'
<1>1. ASSUME NEW t \in Task, Step(t) PROVE AllLocal'
  BY <1>1, RefreshLocal, PrepareLocal, PublishLocal, ContactLocal, ResolveLocal,
     MergeLocal, CheckLocal, PushHeadLocal, MarkerLocal DEF Step
<1>2. CASE UNCHANGED vars
  BY <1>2 DEF AllLocal, Kept, Fetched, vars, cells, caches, bounds
<1> QED BY <1>1, <1>2, CrashLocal DEF Next

\* Head and sync base are both empty in the initial states.
LEMMA LocalInit == Init => AllLocal
<1> SUFFICES ASSUME Init, NEW t \in Task
             PROVE  TaskLocal(t, Kept, head[BranchT(t)], marker[BranchT(t)], closed,
                              headCache[HandleT(t)], markerCache[HandleT(t)],
                              interrupted, task[t])
  BY DEF AllLocal
<1>1. PICK k : k = marker[BranchT(t)]
  OBVIOUS
<1>2. /\ head[BranchT(t)] = None /\ headCache[HandleT(t)] = None
      /\ markerCache[HandleT(t)] = k /\ task[t] = Idle /\ closed = {}
  BY <1>1, PlaceType DEF Init
<1>3. k # None => k.site = Tracks[BranchT(t)] /\ k.tree = EmptyTree
  BY <1>1, PlaceType DEF Init
<1>4. TreeOf(None) = EmptyTree
  BY DEF TreeOf
<1>5. k # None => Local(t, Kept, k.tree, TreeOf(None))
  BY <1>3, <1>4, LocalSame
<1> QED BY <1>1, <1>2, <1>3, <1>5, IdleOK DEF TaskLocal, Syncing

(***************************************************************************)
(* A push finds every block it reads in the local archive, for any number  *)
(* of replicas, branches and remotes whose pulls and pushes interleave,    *)
(* with any edits, failed uploads and crashes: push.rs reads through the   *)
(* local index alone, although pulls leave most of a tree at the remote.   *)
(* There are two exceptions: a branch whose last pull was cut off between  *)
(* its two publishes, and a block that was read from the remote but could  *)
(* not be written to the local archive, which networked.rs:96 ignores.     *)
(***************************************************************************)
THEOREM PushesFind ==
    ASSUME Replicated, Exclusive
    PROVE  Spec => []PushFindsBlocks
<1>1. Init => AllLocal
  BY LocalInit
<1>2. Typed /\ AllLocal /\ [Next]_vars => AllLocal'
  BY LocalNext
<1>3. Typed /\ AllLocal => PushFindsBlocks
  <2> SUFFICES ASSUME Typed, AllLocal, NEW t \in Task, task[t].at = "check",
                      BranchT(t) \notin interrupted
               PROVE  PushReads(t) \subseteq Kept[RepoT(t)]
    BY PlaceType DEF PushFindsBlocks, Kept
  <2>1. PICK x, k, top : x = task[t] /\ k = marker[BranchT(t)] /\ top = head[BranchT(t)]
    OBVIOUS
  <2>2. /\ TaskLocal(t, Kept, top, k, closed, headCache[HandleT(t)],
                     markerCache[HandleT(t)], interrupted, x)
        /\ x \in TaskType /\ TaskOK(x)
    BY <2>1, LocalAt
  <2>3. /\ x.at \in Syncing /\ x.op = "push"
        /\ x.upstream # None /\ x.revision \in Revisions
    BY <2>1, <2>2, SyncFields, NoneAssumption
       DEF Syncing, TaskOK, Pushing, OptRevision
  <2>4. x.upstream = k /\ x.revision = top
    BY <2>1, <2>2, <2>3 DEF TaskLocal
  <2>5. Local(t, Kept, k.tree, x.revision.tree)
    BY <2>1, <2>2, <2>3, <2>4, TreeOfRevision DEF TaskLocal
  <2> QED BY <2>1, <2>4, <2>5, DiffNovel DEF Local, PushReads
<1> QED BY <1>1, <1>2, <1>3, TypedHolds, PTL DEF Spec

=============================================================================
