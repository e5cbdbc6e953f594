----------------------------- MODULE BranchSync -----------------------------
(***************************************************************************)
(* Branches of dialog-repository and their synchronisation: commit, pull,  *)
(* push, fetch, refresh and set_upstream on branches that track a local    *)
(* branch or a branch at a remote site.                                    *)
(*                                                                         *)
(* A branch has two memory cells, the head (its revision) and the upstream *)
(* marker (what it tracks and the upstream tree of the last sync).  They   *)
(* are written one after the other, each by compare-and-swap.  A Branch    *)
(* handle caches both; clones share the caches, so several tasks can work  *)
(* on one handle, and one branch can be open through several handles.  An  *)
(* operation is a sequence of steps: one per effect it awaits whose place  *)
(* in the interleaving matters (cell reads and writes), with the           *)
(* synchronous code around it.  Reading and writing immutable blocks is    *)
(* joined to the neighbouring step.                                        *)
(***************************************************************************)
EXTENDS MemoryEffect, TreeMerge, FiniteSets

CONSTANTS Branch,      \* branches of the repositories that run this code
          Remote,      \* branches at remote sites
          Repo,        \* repositories: each has one archive
          RepoOf,      \* the repository of every branch, remote ones too
          Handle,      \* open Branch handles
          BranchOf,    \* the branch of each handle
          Task,        \* concurrent users of the handles
          HandleOf,    \* the handle each task uses
          Issuer,      \* identities revisions are attributed to
          IssuerOf,    \* the identity each repository is operated under
          Added, Removed,    \* State::Added(datum) and State::Removed
          AttributeOf, \* the (entity, attribute) a fact is about
          Instruction, \* the instructions commits carry
          Tracks,      \* the upstream each branch is configured with
          Operations,  \* the operations each task performs
          MaxCommits,  \* bound: commits prepared in a behaviour
          MaxDisruptions   \* bound: crashes, failed writes, set_upstreams

Site == Branch \union Remote

ASSUME TopologyAssumption ==
    /\ Branch \intersect Remote = {}
    /\ RepoOf \in [Site -> Repo]
    /\ BranchOf \in [Handle -> Branch]
    /\ HandleOf \in [Task -> Handle]
    /\ IssuerOf \in [Repo -> Issuer]
    /\ \A s \in Site : s # None
    /\ Tracks \in [Branch -> Site \union {None}]
    /\ \A b \in Branch : Tracks[b] # b
ASSUME InstructionAssumption ==
    /\ {Added, Removed} \subseteq Value
    /\ Key \subseteq DOMAIN AttributeOf
    /\ Instruction \subseteq [apply : {"assert", "retract", "replace"}, key : Key]
ASSUME BoundAssumption == MaxCommits \in Nat /\ MaxDisruptions \in Nat

VARIABLES head,        \* revision cell of every branch, local and remote
          marker,      \* upstream cell of every local branch
          snapshot,    \* per repository, the last-known edition of a remote
          archive,     \* the blocks each repository's archive holds
          headCache,   \* per handle, the cached revision cell
          markerCache, \* per handle, the cached upstream cell
          closed,      \* handles lost in a crash and not reopened yet
          task,        \* where each task is in its operation
          commits, disruptions,  \* how much of the bounds is used
          interrupted, \* history, read by no action: branches whose last pull
                       \* published the head and not the marker
          uncached     \* history, read by no action: blocks each repository
                       \* read from a remote and failed to keep

cells   == <<head, marker, snapshot>>
caches  == <<headCache, markerCache, closed>>
bounds  == <<commits, disruptions, interrupted, uncached>>
vars    == <<cells, archive, caches, task, bounds>>

-----------------------------------------------------------------------------
(* Revisions (revision.rs).  The logical clock is (period, moment). *)

Revisions == [tree : Tree, issuer : Issuer, period : Nat, moment : Nat,
              cause : SUBSET Tree]
Upstreams == [site : Site, tree : Tree]

ASSUME NoneAssumption ==
    /\ None \notin Revisions
    /\ None \notin Upstreams
    /\ None \notin [blake3 : Revisions \union Upstreams]

TreeOf(revision) == IF revision = None THEN EmptyTree ELSE revision.tree

NewRevision(tree, issuer) ==
    [tree |-> tree, issuer |-> issuer, period |-> 0, moment |-> 0, cause |-> {}]

Advance(base, tree, issuer) ==
    [tree   |-> tree, issuer |-> issuer,
     period |-> IF base.issuer = issuer THEN base.period ELSE base.period + 1,
     moment |-> IF base.issuer = issuer THEN base.moment + 1 ELSE 0,
     cause  |-> {base.tree}]

\* Mutant of MergeRevision: the cause names the revision, not its tree.
MergeRevisionCause(ours, theirs, tree, issuer) ==
    [tree |-> tree, issuer |-> issuer, period |-> ours.period + 1, moment |-> 0,
     cause |-> {theirs}]

MergeRevision(ours, theirs, tree, issuer) ==
    [tree   |-> tree, issuer |-> issuer,
     period |-> (IF ours.period > theirs.period THEN ours.period
                                                ELSE theirs.period) + 1,
     moment |-> 0,
     cause  |-> {theirs.tree}]

-----------------------------------------------------------------------------
(***************************************************************************)
(* ArtifactTreeExt::apply for one instruction.  A key stands for the three *)
(* index entries of one fact, which are always written together.  Retract  *)
(* leaves a tombstone; Replace deletes the other facts that are Added      *)
(* under its (entity, attribute), and passes over tombstones.              *)
(***************************************************************************)
Superseded(tree, key) ==
    {k \in Key \ {key} : AttributeOf[k] = AttributeOf[key] /\ tree[k] = Added}

Apply(tree, instruction) ==
    LET key == instruction.key IN
    CASE instruction.apply = "assert"  -> [tree EXCEPT ![key] = Added]
      [] instruction.apply = "retract" -> [tree EXCEPT ![key] = Removed]
      [] instruction.apply = "replace" ->
           [k \in Key |-> IF k = key THEN Added
                          ELSE IF k \in Superseded(tree, key) THEN None
                          ELSE tree[k]]

-----------------------------------------------------------------------------
(***************************************************************************)
(* Blocks.  A tree is a root node over one node per entry; the empty tree  *)
(* has none.  Trees with equal entries share the nodes of those entries.   *)
(***************************************************************************)
RootNode(tree)    == [root |-> tree]
EntryNode(tree, k) == [key |-> k, slot |-> tree[k]]

EntryNodes(tree, keys) == {EntryNode(tree, k) : k \in {j \in keys : tree[j] # None}}
RootNodes(tree)   == IF tree = EmptyTree THEN {} ELSE {RootNode(tree)}
Nodes(tree)       == RootNodes(tree) \union EntryNodes(tree, Key)

Changed(from, to) == {k \in Key : from[k] # to[k]}

\* The nodes the differential of two trees loads: none if the roots agree.
DiffReads(from, to) ==
    IF from = to THEN {}
    ELSE UNION {RootNodes(t) \union EntryNodes(t, Changed(from, to)) : t \in {from, to}}

\* Mutant of EditReads: the root that was loaded is not kept.
EditReadsBelowRoot(tree, keys) == EntryNodes(tree, keys)

\* The nodes an edit of some keys loads: their paths.
EditReads(tree, keys) ==
    IF keys = {} THEN {} ELSE RootNodes(tree) \union EntryNodes(tree, keys)

\* Mutant of NovelNodes: only the new root is collected.
NovelRoot(from, to) == RootNodes(to) \ Nodes(from)

\* TreeDifference::novel_nodes, and what persist puts into the delta.
NovelNodes(from, to) == Nodes(to) \ Nodes(from)

\* NetworkedIndex: the local archive, with the tracked remote's behind it.
Reachable(repo, upstream) ==
    archive[repo] \union
      (IF upstream # None /\ upstream.site \in Remote
       THEN archive[RepoOf[upstream.site]] ELSE {})

\* NetworkedIndex::get, for all the blocks a task reads: what comes from the
\* remote is kept in the local archive, but an error of that write is dropped.
\* `written` are new blocks, imported or the operation fails.
Keep(repo, reads, written) ==
    \E lost \in IF disruptions < MaxDisruptions THEN SUBSET (reads \ archive[repo])
                ELSE {{}} :
        /\ archive' = [archive EXCEPT ![repo] = @ \union (reads \ lost) \union written]
        /\ uncached' = [uncached EXCEPT ![repo] = @ \union lost]
        /\ disruptions' = IF lost = {} THEN disruptions ELSE disruptions + 1

-----------------------------------------------------------------------------
(* Control state of a task. *)

Idle == [at |-> "idle"]

Goto(t, state) == task' = [task EXCEPT ![t] = state]

HandleT(t) == HandleOf[t]
BranchT(t) == BranchOf[HandleOf[t]]
RepoT(t)   == RepoOf[BranchOf[HandleOf[t]]]

\* A task starts an operation on an open handle.
Starts(t, operation) ==
    /\ operation \in Operations[t]
    /\ task[t] = Idle
    /\ HandleT(t) \notin closed

\* Mutant of Swaps: the precondition is not sent.
SwapsAlways(current, content, expected) == TRUE

\* Cell publishes: accepted against the expected content's version.
Swaps(current, content, expected) ==
    PublishAccepted(current, content, VersionOf(expected))

Init ==
    /\ head = [s \in Site |-> None]
    /\ marker = [b \in Branch |-> IF Tracks[b] = None THEN None
                                  ELSE [site |-> Tracks[b], tree |-> EmptyTree]]
    /\ snapshot = [r \in Repo |-> [s \in Remote |-> None]]
    /\ archive = [r \in Repo |-> {}]
    /\ headCache = [h \in Handle |-> None]
    /\ markerCache = [h \in Handle |-> marker[BranchOf[h]]]
    /\ closed = {}
    /\ task = [t \in Task |-> Idle]
    /\ commits = 0
    /\ disruptions = 0
    /\ interrupted = {}
    /\ uncached = [r \in Repo |-> {}]

-----------------------------------------------------------------------------
(***************************************************************************)
(* OpenBranch::perform and Branch::refresh: the head is resolved, then the *)
(* marker.  The two reads are not one: the cells may move in between.      *)
(***************************************************************************)
RefreshHead(t) ==
    /\ "refresh" \in Operations[t]
    /\ task[t] = Idle
    /\ headCache' = [headCache EXCEPT ![HandleT(t)] = head[BranchT(t)]]
    /\ Goto(t, [at |-> "refresh"])
    /\ UNCHANGED <<cells, archive, markerCache, closed, bounds>>

\* Mutant of RefreshMarker: the upstream cell is not resolved.
RefreshMarkerSkipped(t) ==
    /\ task[t].at = "refresh"
    /\ closed' = closed \ {HandleT(t)}
    /\ Goto(t, Idle)
    /\ UNCHANGED <<cells, archive, headCache, markerCache, bounds>>

RefreshMarker(t) ==
    /\ task[t].at = "refresh"
    /\ markerCache' = [markerCache EXCEPT ![HandleT(t)] = marker[BranchT(t)]]
    /\ closed' = closed \ {HandleT(t)}
    /\ Goto(t, Idle)
    /\ UNCHANGED <<cells, archive, headCache, bounds>>

-----------------------------------------------------------------------------
(***************************************************************************)
(* Commit::perform.  The head is checkpointed and read, the edit applied   *)
(* to its tree and the new blocks imported; then the revision is published *)
(* through the checkpoint.  A mismatch is the caller's to retry.           *)
(***************************************************************************)
CommitPrepare(t) ==
    /\ Starts(t, "commit")
    /\ commits < MaxCommits
    /\ \E instruction \in Instruction :
       LET base     == headCache[HandleT(t)]
           tree     == Apply(TreeOf(base), instruction)
           reads    == EditReads(TreeOf(base), {instruction.key}
                                   \union Changed(TreeOf(base), tree))
           issuer   == IssuerOf[RepoT(t)]
           revision == IF base = None THEN NewRevision(tree, issuer)
                                      ELSE Advance(base, tree, issuer)
       IN  /\ reads \subseteq Reachable(RepoT(t), markerCache[HandleT(t)])
           /\ Keep(RepoT(t), reads, NovelNodes(TreeOf(base), tree))
           /\ Goto(t, [at |-> "commit", expected |-> base, revision |-> revision])
    /\ commits' = commits + 1
    /\ UNCHANGED <<cells, caches, interrupted>>

CommitPublish(t) ==
    /\ task[t].at = "commit"
    /\ \/ /\ Swaps(head[BranchT(t)], task[t].revision, task[t].expected)
          /\ head' = [head EXCEPT ![BranchT(t)] = task[t].revision]
          /\ headCache' = [headCache EXCEPT ![HandleT(t)] = task[t].revision]
       \/ /\ ~Swaps(head[BranchT(t)], task[t].revision, task[t].expected)
          /\ UNCHANGED <<head, headCache>>
    /\ Goto(t, Idle)
    /\ UNCHANGED <<marker, snapshot, archive, markerCache, closed, bounds>>

-----------------------------------------------------------------------------
(***************************************************************************)
(* The part pull, push and fetch share.  A local upstream is read at once  *)
(* by opening it.  A remote one is opened from the snapshot cell (`snap`), *)
(* then its revision cell is resolved across the network (`remote`), and   *)
(* what was found is recorded in the snapshot cell by compare-and-swap.    *)
(* `upstream` and `revision` are what push read from its handle when it    *)
(* began.                                                                  *)
(***************************************************************************)
Contacting(step, op, upstream, revision, snap, remote) ==
    [at |-> step, op |-> op, upstream |-> upstream, revision |-> revision,
     snap |-> snap, remote |-> remote]

\* The step at which an operation knows the upstream's revision.
Contacted(op) == CASE op = "pull" -> "merge"
                   [] op = "push" -> "check"
                   [] op = "fetch" -> "idle"

Contact(t, op) ==
    LET upstream == markerCache[HandleT(t)]
        revision == IF op = "push" THEN headCache[HandleT(t)] ELSE None
    IN  /\ Starts(t, op)
        /\ upstream # None                      \* BranchHasNoUpstream
        /\ op = "push" => revision # None       \* nothing to push
        /\ \/ /\ upstream.site \in Branch
              /\ op \in {"pull", "push"}        \* a local fetch only reads
              /\ op = "pull" => head[upstream.site] # None   \* load: NotFound
              /\ Goto(t, Contacting(Contacted(op), op, upstream, revision,
                                    None, head[upstream.site]))
           \/ /\ upstream.site \in Remote
              /\ Goto(t, Contacting("resolve", op, upstream, revision,
                                    snapshot[RepoT(t)][upstream.site], None))
        /\ UNCHANGED <<cells, archive, caches, bounds>>

PullStart(t)  == Contact(t, "pull")
PushStart(t)  == Contact(t, "push")
FetchStart(t) == Contact(t, "fetch")

\* FetchRemoteBranch: an upstream without revision leaves the snapshot alone.
FetchResolve(t) ==
    /\ task[t].at = "resolve"
    /\ LET remote == head[task[t].upstream.site] IN
       Goto(t, IF remote # None
               THEN [task[t] EXCEPT !.at = "record", !.remote = remote]
               ELSE IF task[t].op = "push" THEN [task[t] EXCEPT !.at = "check"]
                                           ELSE Idle)
    /\ UNCHANGED <<cells, archive, caches, bounds>>

FetchRecord(t) ==
    /\ task[t].at = "record"
    /\ LET r    == RepoT(t)
           s    == task[t].upstream.site
           swap == Swaps(snapshot[r][s], task[t].remote, task[t].snap)
           next == Contacted(task[t].op)
       IN  /\ snapshot' = [snapshot EXCEPT ![r][s] =
                             IF swap THEN task[t].remote ELSE @]
           /\ Goto(t, IF ~swap \/ next = "idle" THEN Idle
                      ELSE [task[t] EXCEPT !.at = next, !.snap = task[t].remote])
    /\ UNCHANGED <<head, marker, archive, caches, bounds>>

-----------------------------------------------------------------------------
(***************************************************************************)
(* Pull::prepare after the upstream is known: the marker is read again for *)
(* the base, the head checkpointed, the trees merged, the merged blocks    *)
(* imported and the new revision made.                                     *)
(***************************************************************************)
PullMerge(t) ==
    /\ task[t].at = "merge"
    /\ LET h      == HandleT(t)
           theirs == task[t].remote
           base   == IF markerCache[h] = None THEN EmptyTree
                                              ELSE markerCache[h].tree
           ours   == headCache[h]
           local  == TreeOf(ours)
           tree   == Merge(base, local, theirs.tree)
           reads  == DiffReads(base, local)
                       \union EditReads(theirs.tree, Changed(base, local))
           revision == IF tree = theirs.tree \/ ours = None THEN theirs
                       ELSE MergeRevision(ours, theirs, tree, IssuerOf[RepoT(t)])
       IN  \/ /\ base = theirs.tree             \* nothing new upstream
              /\ Goto(t, Idle)
              /\ UNCHANGED <<archive, disruptions, uncached>>
           \/ /\ base # theirs.tree              \* a block cannot be read
              /\ ~(reads \subseteq Reachable(RepoT(t), task[t].upstream))
              /\ Goto(t, Idle)
              /\ UNCHANGED <<archive, disruptions, uncached>>
           \/ /\ base # theirs.tree
              /\ reads \subseteq Reachable(RepoT(t), task[t].upstream)
              /\ Keep(RepoT(t), reads, NovelNodes(theirs.tree, tree))
              /\ Goto(t, [at |-> "pullHead", expected |-> ours,
                          revision |-> revision, tree |-> theirs.tree])
    /\ UNCHANGED <<cells, caches, commits, interrupted>>

\* Mutant of PullHead: the mismatch of the first publish is swallowed.
PullHeadIgnored(t) ==
    /\ task[t].at = "pullHead"
    /\ \/ /\ Swaps(head[BranchT(t)], task[t].revision, task[t].expected)
          /\ head' = [head EXCEPT ![BranchT(t)] = task[t].revision]
          /\ headCache' = [headCache EXCEPT ![HandleT(t)] = task[t].revision]
       \/ /\ ~Swaps(head[BranchT(t)], task[t].revision, task[t].expected)
          /\ UNCHANGED <<head, headCache>>
    /\ Goto(t, [task[t] EXCEPT !.at = "pullMarker"])
    /\ UNCHANGED <<marker, snapshot, archive, markerCache, closed, bounds>>

\* PreparedPull::commit, first publish: the head, through the checkpoint.
PullHead(t) ==
    /\ task[t].at = "pullHead"
    /\ \/ /\ Swaps(head[BranchT(t)], task[t].revision, task[t].expected)
          /\ head' = [head EXCEPT ![BranchT(t)] = task[t].revision]
          /\ headCache' = [headCache EXCEPT ![HandleT(t)] = task[t].revision]
          /\ Goto(t, [task[t] EXCEPT !.at = "pullMarker"])
       \/ /\ ~Swaps(head[BranchT(t)], task[t].revision, task[t].expected)
          /\ Goto(t, Idle)
          /\ UNCHANGED <<head, headCache>>
    /\ UNCHANGED <<marker, snapshot, archive, markerCache, closed, bounds>>

\* Mutant of MarkerMoves: the marker is published without a precondition.
MarkerOverwrites(t, content) == TRUE

(***************************************************************************)
(* A marker publish: `content` against the version the handle has cached   *)
(* now.  pull takes its checkpoint just before the write, push and         *)
(* set_upstream publish live, so all three expect the cached version.      *)
(***************************************************************************)
MarkerMoves(t, content) ==
    Swaps(marker[BranchT(t)], content, markerCache[HandleT(t)])

PublishMarker(t, content) ==
    /\ \/ /\ MarkerMoves(t, content)
          /\ marker' = [marker EXCEPT ![BranchT(t)] = content]
          /\ markerCache' = [markerCache EXCEPT ![HandleT(t)] = content]
          /\ interrupted' = interrupted \ {BranchT(t)}
       \/ /\ ~MarkerMoves(t, content)
          /\ interrupted' = interrupted \union
               (IF task[t].at = "pullMarker" THEN {BranchT(t)} ELSE {})
          /\ UNCHANGED <<marker, markerCache>>
    /\ Goto(t, Idle)
    /\ UNCHANGED <<head, snapshot, archive, headCache, closed, commits, uncached>>

WithTree(upstream, tree) == [upstream EXCEPT !.tree = tree]

\* Second publish of pull: the marker as cached, with the tree merged in.
PullMarker(t) ==
    /\ task[t].at = "pullMarker"
    /\ markerCache[HandleT(t)] # None   \* an upstream is never unset
    /\ PublishMarker(t, WithTree(markerCache[HandleT(t)], task[t].tree))
    /\ UNCHANGED disruptions

-----------------------------------------------------------------------------
(***************************************************************************)
(* Push::perform after the upstream is known.  `Current` is what the       *)
(* divergence check compares with the marker: the opened local branch, or  *)
(* the snapshot of the remote one.                                         *)
(***************************************************************************)
Current(t) ==
    TreeOf(IF task[t].upstream.site \in Branch THEN task[t].remote ELSE task[t].snap)

FastForward(t) == Current(t) = task[t].upstream.tree

PushReads(t) == DiffReads(task[t].upstream.tree, task[t].revision.tree)
                  \union NovelNodes(task[t].upstream.tree, task[t].revision.tree)

\* NonFastForward, or the novel nodes are read locally and uploaded.
PushCheck(t) ==
    /\ task[t].at = "check"
    /\ \/ /\ ~FastForward(t)
          /\ Goto(t, Idle)
          /\ UNCHANGED archive
       \/ /\ FastForward(t)
          /\ task[t].upstream.site \in Branch
          /\ Goto(t, [task[t] EXCEPT !.at = "pushHead"])
          /\ UNCHANGED archive
       \/ /\ FastForward(t)
          /\ task[t].upstream.site \in Remote
          /\ PushReads(t) \subseteq archive[RepoT(t)]
          /\ archive' = [archive EXCEPT ![RepoOf[task[t].upstream.site]] =
                @ \union NovelNodes(task[t].upstream.tree, task[t].revision.tree)]
          /\ Goto(t, [task[t] EXCEPT !.at = "pushHead"])
    /\ UNCHANGED <<cells, caches, bounds>>

\* Mutant of PushUploadFails: the push goes on after a failed upload.
PushUploadIgnored(t) ==
    /\ task[t].at = "check"
    /\ FastForward(t)
    /\ task[t].upstream.site \in Remote
    /\ disruptions < MaxDisruptions
    /\ disruptions' = disruptions + 1
    /\ Goto(t, [task[t] EXCEPT !.at = "pushHead"])
    /\ UNCHANGED <<cells, archive, caches, commits, interrupted, uncached>>

\* A block is missing locally, or an upload fails.  Uploads run concurrently
\* with each other and with the reading: any part of them is left behind.
PushUploadFails(t) ==
    /\ task[t].at = "check"
    /\ FastForward(t)
    /\ task[t].upstream.site \in Remote
    /\ \/ /\ ~(PushReads(t) \subseteq archive[RepoT(t)])
          /\ UNCHANGED disruptions
       \/ /\ disruptions < MaxDisruptions
          /\ disruptions' = disruptions + 1
    /\ \E sent \in SUBSET (archive[RepoT(t)] \intersect
              NovelNodes(task[t].upstream.tree, task[t].revision.tree)) :
         archive' = [archive EXCEPT ![RepoOf[task[t].upstream.site]] = @ \union sent]
    /\ Goto(t, Idle)
    /\ UNCHANGED <<cells, caches, commits, interrupted, uncached>>

\* The upstream's own head, against the edition read before the check.
PushHead(t) ==
    /\ task[t].at = "pushHead"
    /\ LET s == task[t].upstream.site IN
       \/ /\ Swaps(head[s], task[t].revision, task[t].remote)
          /\ head' = [head EXCEPT ![s] = task[t].revision]
          /\ Goto(t, [task[t] EXCEPT !.at = IF s \in Branch THEN "pushMarker"
                                                            ELSE "pushSnapshot"])
       \/ /\ ~Swaps(head[s], task[t].revision, task[t].remote)
          /\ Goto(t, Idle)
          /\ UNCHANGED head
    /\ UNCHANGED <<marker, snapshot, archive, caches, bounds>>

\* PublishRemoteBranch, after the fork: record the new remote edition.
PushSnapshot(t) ==
    /\ task[t].at = "pushSnapshot"
    /\ LET r    == RepoT(t)
           s    == task[t].upstream.site
           swap == Swaps(snapshot[r][s], task[t].revision, task[t].snap)
       IN  /\ snapshot' = [snapshot EXCEPT ![r][s] =
                             IF swap THEN task[t].revision ELSE @]
           /\ Goto(t, IF swap THEN [task[t] EXCEPT !.at = "pushMarker"] ELSE Idle)
    /\ UNCHANGED <<head, marker, archive, caches, bounds>>

\* The sync point: the upstream as push found it when it began.
PushMarker(t) ==
    /\ task[t].at = "pushMarker"
    /\ PublishMarker(t, WithTree(task[t].upstream, task[t].revision.tree))
    /\ UNCHANGED disruptions

-----------------------------------------------------------------------------
\* SetUpstream::perform: a remote, or another branch of the repository;
\* nothing is synced with it yet.
SetUpstream(t) ==
    /\ Starts(t, "set_upstream")
    /\ disruptions < MaxDisruptions
    /\ disruptions' = disruptions + 1
    /\ \E site \in {s \in Site \ {BranchT(t)} : s \in Branch => RepoOf[s] = RepoT(t)} :
         PublishMarker(t, [site |-> site, tree |-> EmptyTree])

\* The process dies: the handles of a repository and their tasks are gone.
Crash(r) ==
    /\ disruptions < MaxDisruptions
    /\ disruptions' = disruptions + 1
    /\ LET lost == {h \in Handle : RepoOf[BranchOf[h]] = r} IN
       /\ lost # {}
       /\ closed' = closed \union lost
       /\ headCache' = [h \in Handle |-> IF h \in lost THEN None ELSE headCache[h]]
       /\ markerCache' = [h \in Handle |-> IF h \in lost THEN None ELSE markerCache[h]]
       /\ task' = [t \in Task |-> IF HandleOf[t] \in lost THEN Idle ELSE task[t]]
       /\ interrupted' = interrupted \union
            {BranchT(t) : t \in {u \in Task : HandleOf[u] \in lost
                                              /\ task[u].at = "pullMarker"}}
    /\ UNCHANGED <<cells, archive, commits, uncached>>

Step(t) ==
    \/ RefreshHead(t) \/ RefreshMarker(t)
    \/ CommitPrepare(t) \/ CommitPublish(t)
    \/ PullStart(t) \/ PushStart(t) \/ FetchStart(t)
    \/ FetchResolve(t) \/ FetchRecord(t)
    \/ PullMerge(t) \/ PullHead(t) \/ PullMarker(t)
    \/ PushCheck(t) \/ PushUploadFails(t)
    \/ PushHead(t) \/ PushSnapshot(t) \/ PushMarker(t)
    \/ SetUpstream(t)

Next == (\E t \in Task : Step(t)) \/ (\E r \in Repo : Crash(r))

Spec == Init /\ [][Next]_vars

(***************************************************************************)
(* Fairness.  An operation that has begun is driven by the executor until  *)
(* it returns.  The repository starts no sync by itself: that the user of  *)
(* every handle keeps pulling and pushing, and reopens a handle lost in a  *)
(* crash, is an assumption about the application.                          *)
(***************************************************************************)
Continue(t) == task[t] # Idle /\ Step(t)
Reopen(t)   == HandleT(t) \in closed /\ RefreshHead(t)

Fairness == \A t \in Task :
    /\ WF_vars(Continue(t))
    /\ WF_vars(Reopen(t))
    /\ SF_vars(PullStart(t))
    /\ SF_vars(PushStart(t))

FairSpec == Spec /\ Fairness

-----------------------------------------------------------------------------
(* Type invariant. *)
OptRevision == Revisions \union {None}
OptUpstream == Upstreams \union {None}

TaskType ==
    {Idle} \union [at : {"refresh"}]
      \union [at : {"commit"}, expected : OptRevision, revision : Revisions]
      \union [at : {"resolve", "record", "merge", "check",
                    "pushHead", "pushSnapshot", "pushMarker"},
              op : {"pull", "push", "fetch"}, upstream : Upstreams,
              revision : OptRevision, snap : OptRevision, remote : OptRevision]
      \union [at : {"pullHead", "pullMarker"}, expected : OptRevision,
              revision : Revisions, tree : Tree]

NodeType == [root : Tree] \union [key : Key, slot : Slot]

TypeOK ==
    /\ head \in [Site -> OptRevision]
    /\ marker \in [Branch -> OptUpstream]
    /\ snapshot \in [Repo -> [Remote -> OptRevision]]
    /\ archive \in [Repo -> SUBSET NodeType]
    /\ headCache \in [Handle -> OptRevision]
    /\ markerCache \in [Handle -> OptUpstream]
    /\ closed \subseteq Handle
    /\ task \in [Task -> TaskType]
    /\ commits \in 0..MaxCommits
    /\ disruptions \in 0..MaxDisruptions
    /\ interrupted \subseteq Branch
    /\ uncached \in [Repo -> SUBSET NodeType]

(***************************************************************************)
(* A revision only points at durable blocks.  Whatever a remote publishes  *)
(* can be hydrated from the remote's own archive, although a push uploads  *)
(* no more than the difference to the last synced tree and may fail half   *)
(* way; and every revision a local branch points at can be read from the   *)
(* archives the branch reads through, although a pull copies no more than  *)
(* the blocks its merge touched.                                           *)
(***************************************************************************)
RemoteHydratable ==
    \A s \in Remote : Nodes(TreeOf(head[s])) \subseteq archive[RepoOf[s]]

HeadReadable ==
    \A b \in Branch :
        Nodes(TreeOf(head[b])) \subseteq Reachable(RepoOf[b], marker[b])

(***************************************************************************)
(* A push that passed the divergence check finds every block it has to     *)
(* read in the local archive, which is the only one it reads from.  Stated *)
(* for branches whose last pull was not interrupted: a head published      *)
(* without its marker lies on blocks that were never copied, and only the  *)
(* next pull that finds the upstream moved, or push, catches up.  A block  *)
(* can also be missing because the write that was to keep it failed when   *)
(* it was read from the remote, and nobody noticed (networked.rs:96).      *)
(***************************************************************************)
Fetched(repo) == archive[repo] \union uncached[repo]

PushFindsBlocks ==
    \A t \in Task :
        (/\ task[t].at = "check" /\ task[t].upstream.site \in Remote
         /\ FastForward(t)
         /\ BranchT(t) \notin interrupted)
          => PushReads(t) \subseteq Fetched(RepoT(t))

(***************************************************************************)
(* With edits that only add entries, no head ever loses one: a commit, a   *)
(* merge and a fast-forward push all contain what they replace.  This is   *)
(* what the compare-and-swap of the head, the divergence check of push and *)
(* the order of the two publishes of pull are for.                         *)
(***************************************************************************)
Entries(tree) == {k \in Key : tree[k] # None}

NothingLost ==
    [][\A s \in Site : Entries(TreeOf(head[s])) \subseteq Entries(TreeOf(head'[s]))]_vars

(***************************************************************************)
(* The sync base never runs ahead of the head: the marker is advanced only *)
(* to a tree the head already contains, so the differential from base to   *)
(* local never turns upstream entries into removals.                       *)
(***************************************************************************)
MarkerBehindHead ==
    \A b \in Branch : marker[b] # None =>
        Entries(marker[b].tree) \subseteq Entries(TreeOf(head[b]))

(***************************************************************************)
(* The sync base does not move backwards while it tracks the same upstream *)
(* (edits only add entries); set_upstream may start it afresh.  Stated for *)
(* pulls through handles of their own: pull reads the version it expects   *)
(* of the marker from its handle's cache just before it writes, so another *)
(* pull through a clone of the same handle goes unnoticed.                 *)
(***************************************************************************)
MarkerAdvances ==
    [][\A b \in Branch :
         marker[b] # None /\ marker'[b] # None /\ marker'[b].site = marker[b].site
           => \/ Entries(marker[b].tree) \subseteq Entries(marker'[b].tree)
              \/ marker'[b].tree = EmptyTree]_vars

(***************************************************************************)
(* Once commits stop, replicas that keep syncing converge: from some point *)
(* on every branch has the tree of its upstream.  Rejected pushes, failed  *)
(* compare-and-swaps, failed uploads and crashes between any two publishes *)
(* only delay it.                                                          *)
(***************************************************************************)
Synced == \A b \in Branch : Tracks[b] # None =>
              TreeOf(head[b]) = TreeOf(head[Tracks[b]])

\* Pulls and pushes of branch/pull.rs and branch/push.rs bring all replicas to
\* one tree, whatever interrupts them (notes/glossary.md, "Eventual Consistency").
ReplicasAgree == <>[]Synced

\* The same for replicas none of which stays for ever with a pull that was cut
\* off between its two publishes, or without a block it failed to keep: those may
\* neither pull nor push (pull.rs:124, networked.rs:96).
Converges ==
    (\A b \in Branch : []<>(/\ b \notin interrupted
                           /\ uncached[RepoOf[b]] \subseteq archive[RepoOf[b]]))
        => <>[]Synced
=============================================================================
