# Verification of dialog-db

TLA+ models of the core of dialog-db: the compare-and-swap cells everything
mutable is kept in, the search tree and the three-way merge of two trees, the
branches that commit, pull and push on top of both, the certificates that
authorize what they do, and the rules a query over a branch is answered with.
TLC checks the models on small instances; TLAPS proves, for every value of the
constants, the safety properties of all of them but the search tree.

`PROJECT.json` lists components, runs, mutants, the map from definitions to
source lines, findings, hazards and theorems. Paths below are relative to
`src/rust/`.

## 1. The system

dialog-db is an embeddable, local-first database. Facts (entity, attribute,
value, cause) are entries of a content-addressed search tree. A *repository*
has an archive of immutable blocks and a set of mutable *memory cells*; a
*branch* is a pair of cells, one that names the current tree and one that names
what the branch tracks. Replicas exchange blocks and heads through a remote
site, which offers the same two things: an archive and cells.

| Component | State | Operations | Correct when |
| --- | --- | --- | --- |
| Memory providers (`dialog-effects/src/memory.rs`, `dialog-storage/src/storage/provider/{volatile,fs,indexeddb}`) | content of every cell; on a file system also lock and staging files | resolve, publish, retract | each call takes effect at one instant, or not at all, whichever process dies or whichever file operation fails |
| Cells (`dialog-repository/src/repository/memory`) | the last edition seen, shared by clones of a handle | resolve, publish, checkpoint + publish, reset | a confirmed update is never overwritten by a writer that had not seen it |
| Merge (`dialog-search-tree/src/differential.rs`, `tree/transient.rs`) | two ordered cursors, a batch being edited | differentiate, integrate | replicas that merge the same edits agree; no edit is dropped |
| Branches and sync (`dialog-repository/src/repository/{branch,remote,archive}`) | head and marker cells, snapshots of remote heads, archives, handle caches, operations in flight | commit, pull, push, fetch, open/refresh, set_upstream | nothing committed is lost; published revisions can be hydrated; replicas converge |
| Artifact indexes (`dialog-artifacts/src/tree.rs`) | three orders of each fact in one tree | assert, retract, replace, select | the three orders agree; replace leaves one value |
| Search tree (`dialog-search-tree/src/{tree,node}`, `walker.rs`, `differential.rs`) | persistent nodes, the live spine of a batch, the delta of a persist | insert, delete, get, range read, persist, difference | an ordered map whose shape is a function of its entries; a persist and a difference name every new node |
| Transactional memory (`dialog-storage/src/storage/transactional_memory.rs`; no other crate uses it) | cells shared by address, retry counters | open, replace, update with retries | optimistic updates are atomic, retries bounded |
| Archive and blob providers | blocks, blobs, temporary files | put, get, import | content matches its hash |
| Operators and profiles (`dialog-operator`) | a certificate store for each profile | claim, delegate, save | what a profile delegates, its receiver can prove |
| UCAN (`dialog-capability/src/access.rs`, `dialog-ucan`, `dialog-ucan-core`) | stored certificates, the paths of a search | prove, delegate, retain, check an invocation | a claim is proved iff the store has a chain, and a service accepts the proof |
| Query engine (`dialog-query`, `dialog-repository/src/rules.rs`, `branch/session.rs`) | rules in the tree, the caches of rules and plans, rows in flight | compile, install, retract, look up, plan, evaluate | each step of a plan finds its inputs bound; a query uses the rules of its moment |
| Capabilities, macros, credentials, signatures, encodings, remote transports, CSV, diagnose, dbsp, TypeScript | little or none | conversions and I/O | out of scope |

**How they interact.** A branch handle (`Branch`) holds two `Cell`s. `Cell`
performs memory effects on a provider and caches the answer. Commit edits the
head's tree, imports new blocks into the archive, and publishes the head
through a checkpoint. Pull resolves the upstream (another branch's cell, or a
remote cell with a local snapshot of its last known edition), replays the
difference from the last synced tree to the local tree on the upstream tree,
and publishes the head and then the marker. Push checks that the upstream still
has the last synced tree, uploads what is new, publishes the upstream's head,
the snapshot and the marker. Nothing spans two cells: every multi-cell
operation is a sequence of single compare-and-swaps. Effects on a remote carry
a proof that the operator may perform them, found in the certificate store of
its profile. A query reads the tree of a branch's head; concepts in it are
answered by rules stored in the same tree, found and planned through caches
that belong to the branch.

**What is hard.** Clones of a handle share caches, so an operation can find its
cache moved after an await. Two handles to one branch, two processes on one
directory, and two replicas on one remote all race. A process can die between
any two writes. Uploads run sixteen at a time and fail half way. Replication is
partial: pull copies only the blocks a merge touched, and push sends only the
difference to the last synced tree, so whether a published root is complete
depends on the whole history. Versions are content hashes, so a cell that
returns to an old content returns to its old version. Where a tree is cut into
nodes depends on all its keys, and a delete can fuse nodes several levels up.
Certificates form circles and overlap in time. Plans are shared by callers that
bind different variables, and the head a query started at may move while it
reads. The hazards are listed
one by one, with their lines, in `PROJECT.json`.

## 2. Modules

| Module | Models | State and actions |
| --- | --- | --- |
| `Option` | `Option<T>` | the value `None` |
| `MemoryEffect` | what publish and retract accept and make of a cell | `Version` (a content hash), `EditionOf`, `PublishAccepted`, `AfterPublish`, ... |
| `CasRegister` | the promise of a memory provider | one register, calls in progress: `Invoke`, `Execute`, `Overlook` (a retract that answers ok without having done anything), `Fail`, `Return`, `Crash` |
| `FsCell` | the file system provider | `file`, `lock`, `staged`, dead processes, one control state per task. One action per file operation: lock, exists, read-compare, stage, rename, remove, unlock, I/O error (which `exists()` takes for absence), process death |
| `MemoryCell` | `Cell`, its cache and checkpoints | `store`, one `cache` per handle, the persisted `snapshot` of a remote cell, tasks. `Checkpoint` and `ReadBase` are the two cache reads commit and pull begin with |
| `SearchTree` | `TransientTree` over `PersistentTree` | `saved` and `tree` (nodes as nested records, live or persistent), `delta`, and `content`, the ordered map the tree stands for: `Insert`, `Delete`, `Persist`; `Get` and `StreamRange` are operators |
| `TreeDifference` | `TreeDifference::compute` and `novel_nodes` | operators over two trees: prune, expand, converge |
| `TreeMerge` | `TransientTree::integrate` on a differential, as an operator | `Merge(base, local, upstream)` key by key; conflicts go to the larger value hash |
| `Integrate` | the change stream, entry by entry | two cursors, the pending half of a (Remove, Add) pair, the batch |
| `BranchSync` | branches, remotes, archives | head, marker, snapshot, archive, handle caches, tasks; the history variables `interrupted` and `uncached`. One action per awaited effect on a cell |
| `Authorization` | certificate stores, the search for a chain, delegation | `store` per profile, the search's `queue` and `claim`, what its listings answered (`known`), the `proof` found, certificates being saved: `Request`, `ListSpecific`, `FollowPath`, `AbandonPath`, `Deny`, `SearchFails`, `Delegate`, `Import`, `Save`, `SaveFails` |
| `Planner` | schemas, feasibility, estimates, one round of `Planner::plan`, what a premise needs and binds | operators over premises (records) and environments (sets of variables) |
| `RuleResolution` | rules of one concept from compilation to rows | accepted rules, revisions and head, the caches `discovery`, `bodies` and `plans`, and per thread what it compiles or queries. One action per awaited read, cache access, round of the planner or step of a plan |
| `MC*` | instances for TLC | topologies and constants only |
| `*Proofs` | theorems | see section 5 |

`FsCell` refines `CasRegister` (`INSTANCE CasRegister WITH memory <- file, ...`);
`MemoryCell` and `BranchSync` rely on that promise: a cell effect is one step
there. `BranchSync` uses `TreeMerge` for pull, and `Integrate` shows that the
streaming code computes that operator. `TreeDifference` extends `SearchTree` and
justifies what `BranchSync` takes for granted of trees: equal content has equal
nodes, a difference is exact, and the novel nodes complete what a remote has.
`RuleResolution` extends `Planner` and sees a branch as a list of revisions.

### Abstractions

- In `BranchSync`, `TreeMerge` and `Integrate` a search tree is a function from
  keys to values or `None`. That equal content means equal root hash is shown
  by `SearchTree` up to a chain of single-child roots (section 6); such a chain
  costs a merge that could have been a fast-forward and no entry. Blocks are a
  root node and one node per entry: enough to tell apart what a differential
  reads, what an edit reads and what is new. Real trees have more levels, which
  share more, not less, between versions.
- In `SearchTree` the hash of a node is its content and the rank of a key, which
  the code takes from a hash, is an input: the run quantifies over ranks.
- One key stands for the three index entries of a fact. `Retract` writes a
  tombstone (`State::Removed`); `Replace` deletes the other facts added under
  the same entity and attribute. A commit carries one instruction.
- The version of a cell is a content hash, as in the volatile, file system and
  IndexedDB providers. An S3 remote uses ETags, which are as fine.
- `pidlock` is external: taking over a dead process's lock is one step, as the
  comment at `fs/native.rs` and the crate say.
- In `BranchSync` reading or writing blocks is joined to the neighbouring cell
  step: blocks are immutable and content-addressed, so the moment they appear
  only matters relative to the cell writes. A failed commit or pull before its
  publish is a step that changes no cell; crashes may come between any two
  steps. A block read from the remote may fail to be written to the local
  archive, which the code ignores (`networked.rs:96`): `Keep` then leaves it out.
- A crash closes all handles of a repository and ends their operations. Cells
  and archives are durable; loss of power (unflushed renames) is not modelled.
- A remote's cell and archive are in memory of the model like the local ones;
  a lost request or answer is a failed operation. A push whose answer is lost
  after the remote's head moved is `PushHead` followed by `Crash`.
- In `Authorization` signatures are valid, a command is a sequence of segments
  and a policy the set of parameters it fixes, as the code builds them. The
  order in which a store lists certificates is not fixed, and a listing may leave
  out any of them, as `fs/certificate.rs:43-65` does on errors and with files it
  cannot decode. A save writes its file in place, so that one that is cut off may
  destroy a certificate stored before. There is no clock: windows are compared
  with the window a claim asks for.
- In `Planner` and `RuleResolution` a row is the set of the variables it binds;
  values, and whether a bound variable is Absent, are left out. Of types only
  whether a slot admits Nothing is kept, with the demotion of a left join whose
  value another premise requires. A commit or retraction of a rule is
  one step, which is what `BranchSync` shows commits to be.

## 3. Runs

| Run | Instance | Shows |
| --- | --- | --- |
| `fs_cell` | 3 callers, 2 of them in one process; 2 contents; 1 process death, I/O errors at any step | `CriticalSection`: one live task between lock and unlock, its comparison valid until it writes. `ImplementsRegister`: the provider refines `CasRegister`, in which a retract removes the version it names or nothing |
| `cells` | 2 tasks on one handle and thread, a third on a thread and handle of its own; updates, resolves, stale snapshots, live publishes | `ConfirmedSurvive`: no confirmed update is lost. `WritesReplaceWhatWasRead`: what is overwritten is what the writer had read, in spite of versions that recur. `InFlightCoherent` is their inductive strengthening |
| `search_tree` | 4 keys, every assignment of ranks 1 to 3 that differs in its cuts, 2 values, batches of up to 3 edits, any number of batches | `ReadsContent`, `StreamsContent`: an ordered map. `CanonicalBelowRoot`: the shape below the root chain is a function of the entries. `DeltaComplete`, `DifferenceExact`, `NovelNodesComplete`: persists and differences name every node and entry that is new |
| `integrate` | every triple of trees over 3 keys and 2 values | `IntegratesToMerge`, `PrefixIntegrated`, and `Convergence`: commutative, associative, idempotent, drops no edit |
| `replicas` | 2 replicas, 1 remote, 2 keys, 2 commits of any kind, 1 crash, failed upload or lost cache write | `RemoteHydratable`, `HeadReadable`, `PushFindsBlocks`: no revision points at blocks that cannot be read, and a push finds its blocks. `Converges`: replicas that keep syncing agree, unless one stays for ever with a pull that was cut off or without a block it could not keep. 367 thousand states |
| `handles` | 2 handles to a branch that tracks a local branch that tracks one of 2 remotes, 2 commits that add, 1 of crash, failed upload, set_upstream | `NothingLost`, `MarkerBehindHead`, `MarkerAdvances` along the chain, `RemoteHydratable` at both remotes. 1.1 million states |
| `authorization` | a space, two profiles and an operator; 6 certificates to import, with powerlines, time windows and a circle; imports until 2 are stored, chains of up to 2; 1 delegation, 1 incomplete listing or destroyed certificate | `ProofsVerify`: a service accepts what the search proved. `SearchComplete`: a denied claim has no chain among the certificates the listings answered with. `GrantsBacked`: what was delegated and retained can be proved by its receiver, unless a cut-off save destroyed part of it. `SearchEnds` |
| `query_rules` | 5 rules and the implicit one, 3 callers with different operands and rows, two of which use names of variables in the bodies, 2 queries among installs, retractions, resets and evictions | `StepsReady`, `PlannableByConstruction`, `RefusalJustified`, `HeadsBound`: what planning guarantees whatever the cache holds. `RulesCurrent`: a query uses the rules of its moment. 1.6 million states |
| `torn_refresh`, `returned_upstream`, `tree_shape`, `partial_rows` | small; `returned_upstream` has 3 replacements, so that a tree comes back, and 1 crash | **violated**, see section 6 |

`NothingLost`, `MarkerBehindHead` and `MarkerAdvances` compare sets of entries,
so their runs use assertions only: with assertions alone no correct step ever
removes an entry, and a missing one is a lost write. `replicas` has retractions
and replacements and checks the block properties and convergence, which do not
need that restriction.

**Bounds.** Two keys give disjoint and conflicting edits; two commits are the
fewest that conflict, and pulls, pushes, fetches and refreshes are not bounded.
`MaxDisruptions` counts crashes, failed uploads, upstream switches and reads
whose blocks could not all be kept together: each can fall between any two steps. The proofs have no such bound, and cover
every combination of them. Revisions and clocks are bounded through
the commits (a merge of synced branches is a fast-forward). `MaxCrashes = 1`
with two processes leaves one that has to recover. Three keys in `integrate`
let either cursor lead, lag, meet and end first. Four keys with ranks up to 3
make trees of height three with a fusion across parents; the rank of the last
key cuts nothing, so it is fixed. `MaxEdits` bounds a batch, not the history:
any tree that batches can produce is the start of the next. `MaxDepth` is 2
where the code has 10 so that the limit is met by paths that exist; two
certificates are the fewest with a chain at the limit, and the delegation adds
its own and copies theirs to its receiver. `MaxErrors = 1` lets one listing of a
search be incomplete, or one save destroy a certificate; the proofs have no such
bound. In
`query_rules` one thread runs the queries one after the other, while the branch
moves under them: caches are shared between queries, and nothing else is. The
bodies of the rules have each kind of premise that a stored rule can have, the
implicit rule has attributes and left joins, and three of the five are refused:
one by the analysis, one by the planner and one by the grounding check.

**Fairness.** `replicas` and `returned_upstream`: an operation that has begun is
driven to its end by the async executor: weak fairness of `Continue`. The repository starts no sync
by itself; that applications keep pulling and pushing, and reopen a handle lost
in a crash, is an assumption about the application: strong fairness of
`PullStart` and `PushStart`, weak fairness of `Reopen`. Strong, because an
attempt can be disabled while another operation of the handle runs. Commits are
bounded, so they stop. Nothing is assumed of any outcome: rejected pushes and
lost compare-and-swaps stay possible for ever, and convergence follows from
what the code does about them. `authorization`: weak fairness of the search,
which is a loop the executor drives.

Deadlock is checked in all passing runs but `query_rules`, where the queries
and revisions are bounded and a thread may come to its end.

Every property has a mutant, an alternative definition of one piece of the code
with a plausible bug, under which TLC finds the property violated in the same
run.

## 4. Properties

- `CriticalSection` relates all tasks, the lock file and the content of the
  cell across process deaths; a lock taken over from a dead process must not be
  released by anybody else.
- `ConfirmedSurvive` needs checkpoint, base and swap to belong to one edition,
  with caches moved by late answers, snapshots and clones.
- `PrefixIntegrated` says what the batch holds after every change, so also when
  the stream is cut short by a read error.
- `RemoteHydratable` and `PushFindsBlocks` are what makes incremental upload
  sound: they depend on what earlier pulls and pushes copied where.
- `MarkerBehindHead` is the direction in which head and marker may disagree: a
  base ahead of the head would turn upstream entries into local removals.
- `PushFindsBlocks` and `Converges` speak of branches whose last pull was not
  cut off between its publishes of head and marker. Which those are is recorded
  in `interrupted`, a history variable of `BranchSync` that no action reads: a
  crash or a refused marker adds a branch, the next marker takes it out. What
  happens to the others is `returned_upstream` (section 6). They also allow for
  blocks that were read from the remote and could not be kept, recorded in
  `uncached`: a replica that lacks one fails every push, and finds the upstream
  unmoved at every pull, until a commit reads the block again or the upstream
  moves.
- `MarkerAdvances` lets a sync base start afresh: `set_upstream` writes a marker
  without a tree, also when it names the upstream the branch already has.
- `Converges` covers the whole protocol: a replica stuck behind a stale
  snapshot, marker or cache would violate it.
- `CanonicalBelowRoot` compares every tree a history of batches can reach with
  the tree built from its entries alone; splits, fusions, the fast path of an
  edit and root sealing all have to agree with the shape rule.
- `DifferenceExact` and `NovelNodesComplete` are what pull and push rely on:
  subtrees are skipped by hash at whatever level both sides are expanded to.
- `SearchComplete` compares a depth-first search with depth limit, time windows
  and powerlines, over a store that grows while it runs, with the existence of
  a chain in what its listings answered with; `GrantsBacked` adds a delegation whose certificates are written one
  by one.
- `StepsReady` relates what a plan was made for (first row, adornment, another
  caller's scope) to the rows it is run on. A plan keeps the scope it was made
  for (`Conjunction.env`); a step may count on the variables of that scope, and
  the property speaks of rows that bind those of them the step uses. On the
  others the code fails (section 6).
- `RulesCurrent` bounds what two caches and three reads of a moving head can do
  to the set of rules of a query.

## 5. Proofs

All proofs are checked by TLAPS, for any constants that satisfy the named
assumptions of the modules (handles, processes and keys are maps and sets as in
the code; `None` is not a value; distinct values have distinct hashes, the
collision resistance the code relies on too; `Order` lists each key once; a
premise has a term for every slot of its schema and a concept requires an
attribute, which the code's types and `TypeError::EmptyConcept` see to; each
handle has a branch and each branch a repository). TLC evaluates the same
assumptions on every run. A theorem that needs more says so in its `ASSUME`;
those hypotheses are met by the instances of the runs named below.

- **`FsCellProofs`.** `TypeCorrect`; `LockProtects`: `CriticalSection` is
  inductive together with `TypeOK`. The second conjunct (the lock file names
  the process) makes `Acquire` exclude every other task, the first (tasks that
  are not idle are alive) makes a takeover safe; without them mutual exclusion
  alone is not inductive. `RegisterImplemented`: `Spec => Register!Spec`, each step
  being a step of the register or a stutter; the comparison that
  `CriticalSection` carries from check to rename makes rename the `Execute` of
  the abstract publish.
- **`MemoryCellProofs`.** `TypeCorrect`; `StaysCoherent`: `InFlightCoherent` is
  inductive if `Untorn` holds: a task that can be interrupted between its two
  cache reads shares its handle with nobody. `WritesAreBased` and
  `NoLostUpdate` follow from it, since equal versions mean equal contents. Live
  publishes, which write what they like over what their handle has cached, are covered: they end an update only if they had read it.
- **`TreeMergeProofs`.** The merge is a join, key by key: an unmoved slot is
  the bottom, a removal above it, values by hash above that. Hence
  `MergeConvergesEverywhere`, `MergeIsConservativeEverywhere` and
  `EditsSurviveEverywhere`, for every set of keys and values.
- **`IntegrateProofs`.** `PrefixAlwaysIntegrated`: `PrefixIntegrated` with the
  types is inductive; one lemma (`Advance`) covers every way the cursors move.
  `IntegrateMerges` reads it off at the end of both walks. `AlwaysConvergent`
  carries the algebra over to every walk.

- **`BranchSyncProofs`.** For every topology of branches, remotes, handles and
  tasks. `TypesHold`: the type invariant with what the step of a task tells of
  its operation (`TaskOK`: a push past its start has a revision, a merge has an
  upstream), without which the fields an action reads need not exist.
  - `HydrationHolds` (`RemoteHydratable`) has no hypothesis. A remote holding
    its own head is not inductive, since a push uploads the difference to the
    tree it takes for the remote's. `AllHeld` adds that the snapshots, what a
    task in flight remembers of the remote, and the revision of a push past its
    upload are held there as well; archives only grow.
  - `ReadsHold` (`HeadReadable`) assumes `Steady`: no `set_upstream`, and a local
    upstream in the same repository that does not itself read through a remote.
    Both are needed (hazards at `set_upstream.rs:40` and `select.rs:70`); the
    `replicas` run satisfies them. `AllReadable` carries caches and revisions in
    flight, and rests on `AllHeld` for what a fetch finds; a block that could not
    be kept stays at the remote it was read from.
  - `LosesNothing` (`NothingLost`), `MarkersBehind` (`MarkerBehindHead`) and
    `MarkersAdvance` (`MarkerAdvances`) assume `AddOnly` (no replacement, which
    removes entries on purpose; retractions are allowed, since a tombstone is an
    entry) and `Apart`: each task has a handle of its own, and one that both
    refreshes its handle and pushes from it is alone on its branch. Any number
    of handles to a branch may commit, pull and push at once. Both parts are
    needed: section 6 says what fails with clones of a handle, and
    `torn_refresh` is a refreshed handle that pushes beside another. `handles`
    satisfies both hypotheses. The invariant
    `Keeps` orders everything by containment of entries: markers behind the
    upstream's head and their own branch's, caches behind their cells, and for
    a task at each step what it fetched, merged or checked. Only a handle that
    is pushed from needs its cached marker behind its cached head: a merge from
    a torn handle is refused by the compare-and-swap of the head, so its marker
    is never written. That a merge over a
    base within both sides contains both sides comes from `TreeMerge`.
  - `PushesFind` (`PushFindsBlocks`) has no restriction on edits. It assumes
    `Exclusive` (one task at a time works on a branch) and `Replicated` (no
    `set_upstream`, and no branch is pushed to a local branch, which would give
    that branch a head on blocks its own interrupted pull never copied);
    `replicas` satisfies both. That the blocks a push reads are local is not
    inductive: a pull replaces marker and head one after the other, by trees
    whose blocks are mostly at the remote. `AllLocal` says instead that the
    nodes which tell one tree from another are local, for marker and head, for
    cached head and commit, and at every step of a pull for fetched tree and
    merge. Steps are joined by `DiffTriangle` (what tells x from z tells x from
    y or y from z), and a step adds what it needs by `EditDiff` (a commit) and
    `MergeCovers` (a merge differs from the fetched tree only where the branch
    had differed from its base). Local means in the archive, or read and not
    kept (`Kept`).
- **`AuthorizationProofs`.** For every set of principals, certificates, claims
  and every depth limit. `TypesHold` (with `SearchState`: stores are finite, a
  listing belongs to the path on top). `ProofsHold` (`ProofsVerify`) from
  `SearchSound`: every path in the queue is a linked chain whose accumulated
  range is exactly the window the service computes from the whole chain.
  `DenialsHold` (`SearchComplete`) from `SearchCovers`: for each chain in what
  the store had at the request, less what a listing left out since, some path in
  the queue is an end of it; following, abandoning and listing keep that, so an
  empty queue means there was none.
  `GrantsHold` (`GrantsBacked`) from `SavingBacked`: what a delegation has
  already saved is one end of a chain and what is left to save the other.
- **`PlannerProofs`** has lemmas only: feasibility is monotone in the
  environment, a feasible premise that selects something can be evaluated, and
  a greedy planner that is stuck proves that no order exists (the first premise
  of such an order that is left would be feasible).
- **`RuleResolutionProofs`.** For every set of rules, callers, threads, commits
  and resets. `Sound` says what every cache and task holds: a compiled rule has
  an order from the empty scope, a cached plan has every premise of its rule, a
  row binds what the steps behind it bind on every row. It gives `TypesHold`,
  `PlansExist` (`PlannableByConstruction`: an order for the empty scope is one
  for every scope), `RefusalsHold` (`RefusalJustified`) and `HeadsHold`
  (`HeadsBound`, also for concepts whose rules leave optional operands out).
  `RulesHold` (`RulesCurrent`) from `InUse`: what is cached for a head is what is
  committed there unless it was reset to, which is where the property makes its
  exception. `StepsHold` (`StepsReady`) from `PlansReady`: every plan is feasible
  from the scope it was made for, whichever caller's names that has, and the
  binding of a row grows with each step. It assumes `BodiesReady`: the concepts in
  bodies derive all their operands, and premises select something. `query_rules`
  satisfies it; without it the property is false (`partial_rows`).

Only model-checked:

- `PushFindsBlocks` where replicas share a remote and several tasks work on one
  branch, or upstreams are switched: which blocks are local then depends on
  which handle's cache a pull and a push used, and `AllLocal` does not carry over.
- `SearchTree` and `TreeDifference`, whose trees are recursive: TLAPS neither
  expands recursive operators nor does induction over data.
- `Converges` and `SearchEnds`: fairness and ENABLED are outside what TLAPS
  handles.

## 6. Where comments and code differ

Four are runs whose property states the comment.

- `torn_refresh` / `NothingLost`: refresh and open resolve head and marker one
  after the other. A push through another handle in between leaves an old head
  with a new marker, whose own push passes the divergence check and takes the
  upstream back. `push.rs:46` says push is fast-forward only.
- `returned_upstream` / `ReplicasAgree`: a replica pulls the tree T, publishes
  its head and ends before its marker, which still has the tree M. The upstream
  comes back to M. Now `pull.rs:124` compares the marker with the upstream, takes
  it for unmoved and pulls nothing, although the head is at T; push passes its
  own divergence check, which compares the same trees, but reads T's blocks from
  the local archive only (`push.rs:142`), where they never were, and fails. The
  replica stays apart until somebody else moves the upstream. `src/notes/glossary.md:238`
  says all replicas eventually reach identical states.
- `tree_shape` / `CanonicalRoot`: `seal_root` strips single-child roots only
  while the child is transient (`transient.rs:1032`). Persist a key of rank 3
  and a larger key, then delete the larger: the root keeps a chain that a tree
  built from the remaining entries does not have. `tree.rs:2364-2367` calls
  "same entries, same root hash" the invariant the crate is built around.
- `partial_rows` / `StepsReady`: a rule need not derive the optional operands of
  its conclusion, so rows of one concept bind different variables. A coalesce,
  comparison or formula scheduled behind the concept then fails on some rows and
  ends the query. `conjunction.rs:13-14` says each step's prerequisites are
  satisfied by earlier steps. `query_rules` assumes concepts in bodies whose
  rules derive every operand.

Others were met while modelling and limit how a property is stated:

- Commit and pull read the shared cache twice, once for the checkpoint and once
  for the base. With threads on clones of one handle, the late answer of a
  resolve can move the cache back between the two, and the publish is accepted
  over a confirmed update (`commit.rs:64-67` says that it fails). The proofs
  about cells assume `Untorn` for that reason.
- A push through another handle moves the marker without the head, so the
  `debug_assert` at `pull.rs:295` can fail.
- `MarkerAdvances` is for pulls through separate handles. On clones of one
  handle the checkpoint of the marker (`pull.rs:286`) is read from a cache the
  other pull has already moved, and the older base is written over the newer.
- Pull fetches the upstream's revision and then reads the base from the same
  cache (`pull.rs:120`). A pull on a clone of the handle that completes in
  between moves the base past the fetched revision, and the merge leaves out of
  the head what lies between the two. The marker written next takes the base
  back, so that a later pull merges it again. `LosesNothing` is for tasks that
  each have a handle of their own.
- `Converges` is for replicas that push as well as pull. A replica that only
  pulls, and crashes between the two publishes of a pull, keeps the old base;
  if the upstream then replaces a fact, the next pull replays the upstream's
  own addition as a local one and the fact stays on that replica.
- The search for a chain is documented as breadth-first (`access.rs:439`, `458`)
  and takes the last path of its queue, so it is depth-first. A chain longer
  than `MAX_DEPTH` can be delegated and never proved: `GrantsBacked` is for
  grants within the limit. A claim without a time range may be proved by an
  expired chain although a valid one is in the store.
- The scope a rule is planned for has the caller's variable names
  (`adornment.rs:73`) and the body has the rule's. They meet in the default query
  of a derived concept, whose variables are named like its operands
  (`dialog-macros/src/query/concept.rs:352-353`): for a row that binds `this` and
  `nick` the left join of the implicit rule on `nick` is scheduled first, and on a
  row that binds neither, or for another caller that gets the plan from the cache,
  it runs before its entity is bound and fails. `plan_cache.rs:3-6` calls planning
  name-independent. `StepsReady` without its condition on rows is violated in
  `query_rules`.
- `exists()` of the file system provider turns every error into absence
  (`native.rs:325-330`), and a retract then answers ok with the content in place
  (`fs/memory.rs:164-166`). `CasRegister` promises no more than that.
- The certificate store on a file system answers a failed listing with an empty
  one (`fs/certificate.rs:43-65`), so that a claim whose chain is stored can be
  denied rather than fail.
- A discovery is tagged with the head read before the scan (`session.rs:389`).
  If the head moves during the scan and `Branch::reset` brings the old one back,
  the cache answers with the rules of the newer. `RulesCurrent` is for queries
  whose head was not reset to.
- An attribute constrained by its cause alone is feasible and has no estimate;
  the sum of the costs of its plan overflows (`planner.rs:89`).

## 7. Not modelled, and the plan

The map covers a small part of the repository's lines (about five in a hundred).
Two fifths of the lines are tests, and most of the rest is typed builders,
macros, encodings, transports and bindings, which have no state that a model
could tell apart. Of the code that decides and changes state, these
parts are left, in this order:

1. Proofs: `PushFindsBlocks` for several handles to a branch and for switched
   upstreams of replicas that share a remote.
2. `BranchSync` further: `set_upstream` on a shared handle during a push or
   pull (`push.rs:218`, `pull.rs:285`), commits of several instructions, the blobs a
   push ships, `Branch::reset` next to pulls.
3. `ArtifactIndex`: the three orders of the index and batches of instructions,
   with the invariant that the orders agree also after a merge that resolves
   each key by itself, and what `Replace` promises (`instruction.rs:17-21`
   documents a cause taken from the fact it replaces).
4. `TransactionalMemory`: optimistic update with bounded retries over cells
   shared by address, on top of `CasRegister`. It reads value and edition of
   the shared state one after the other, as commit does. No other crate of the
   workspace uses it.
5. `Retain`, blob import with a temporary file, the node cache, the creation of
   profiles and spaces, inductive rules, queries over several branches.

Left out for good: transports, signatures, encodings, macros, CSV, the
diagnostic terminal and the TypeScript bindings (conversions and I/O), and
`dialog-dbsp`, which no other crate uses.
