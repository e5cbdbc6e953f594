----------------------------- MODULE SearchTree -----------------------------
(***************************************************************************)
(* The search tree of dialog-search-tree: a batch of inserts and deletes   *)
(* over the live spine of a persistent tree (TransientTree), sealed by     *)
(* persist into content-addressed nodes (PersistentTree).                  *)
(*                                                                         *)
(* A node is a segment (entries in key order) or an index (children in key *)
(* order).  `live` tells a Node::Transient from a Node::Persistent; a      *)
(* persistent node stands for its link: its hash is its content, its upper *)
(* bound the key of its rightmost entry, and loading it opens one level.   *)
(* Where a node ends is decided by the ranks of the keys alone, so that    *)
(* trees with the same entries have the same root.                         *)
(***************************************************************************)
EXTENDS Option, Integers, SequencesExt

CONSTANTS Key,         \* keys, in their order
          Value,       \* values an entry can have
          Ranks,       \* assignments of ranks to keys (Distribution::rank)
          MaxEdits     \* bound: edits of one batch

ASSUME KeyAssumption  == Key \subseteq Int
ASSUME RankAssumption == Ranks \subseteq [Key -> Nat \ {0}]
ASSUME EditAssumption == MaxEdits \in Nat

VARIABLES rank,        \* the rank of every key; never changes
          saved,       \* root of the tree the batch was opened on, or None
          tree,        \* root of the batch, or None: an empty tree
          delta,       \* the nodes a persist serialized, until they are flushed
          content,     \* the entries an ordered map would hold
          edits        \* edits of this batch so far

vars == <<rank, saved, tree, delta, content, edits>>

BOTTOM_RANK == 1

Segment(entries) == [kind |-> "segment", live |-> TRUE, items |-> entries]
Index(children)  == [kind |-> "index", live |-> TRUE, items |-> children]

IsSegment(node) == node.kind = "segment"

RECURSIVE UpperBound(_)
UpperBound(node) ==
    IF IsSegment(node) THEN Last(node.items).key ELSE UpperBound(Last(node.items))

\* The entries below a node, in key order.
RECURSIVE Entries(_)
Entries(node) ==
    IF IsSegment(node) THEN node.items
    ELSE FlattenSeq([i \in DOMAIN node.items |-> Entries(node.items[i])])

-----------------------------------------------------------------------------
(* The shape rule. *)

\* Where the first group ends: at the first rank above the threshold.
Cut(ranks, threshold) == SelectInSeq(ranks, LAMBDA r : r > threshold)

RECURSIVE GroupByRank(_, _, _)
GroupByRank(items, ranks, threshold) ==
    IF items = <<>> THEN <<>>
    ELSE LET cut == Cut(ranks, threshold)
             n   == IF cut = 0 THEN Len(items) ELSE cut
         IN  <<SubSeq(items, 1, n)>>
               \o GroupByRank(SubSeq(items, n + 1, Len(items)),
                              SubSeq(ranks, n + 1, Len(ranks)), threshold)

RegroupEntries(entries) ==
    LET groups == GroupByRank(entries,
                    [i \in DOMAIN entries |-> rank[entries[i].key]], BOTTOM_RANK)
    IN  [g \in DOMAIN groups |-> Segment(groups[g])]

RegroupChildren(children, level) ==
    LET groups == GroupByRank(children,
                    [i \in DOMAIN children |-> rank[UpperBound(children[i])]],
                    BOTTOM_RANK + level)
    IN  [g \in DOMAIN groups |-> Index(groups[g])]

-----------------------------------------------------------------------------
(* Routing and reading. *)

\* Mutant of ChildFor: a key equal to a bound is sent to the next child.
ChildAfter(children, key) ==
    LET at == SelectInSeq(children, LAMBDA c : UpperBound(c) > key)
    IN  IF at = 0 THEN Len(children) ELSE at

\* The first child whose bound is not below the key, or the last child.
ChildFor(children, key) ==
    LET at == SelectInSeq(children, LAMBDA c : UpperBound(c) >= key)
    IN  IF at = 0 THEN Len(children) ELSE at

RECURSIVE PathTo(_, _)
PathTo(node, key) ==
    IF IsSegment(node) THEN <<>>
    ELSE LET at == ChildFor(node.items, key)
         IN  <<at>> \o PathTo(node.items[at], key)

RECURSIVE Follow(_, _)
Follow(node, path) ==
    IF path = <<>> THEN node ELSE Follow(node.items[Head(path)], Tail(path))

Find(entries, key) == SelectInSeq(entries, LAMBDA e : e.key = key)

\* TransientTree::get and PersistentTree::get: one descent, one search.
Get(root, key) ==
    IF root = None THEN None
    ELSE LET leaf == Follow(root, PathTo(root, key)).items
             at   == Find(leaf, key)
         IN  IF at = 0 THEN None ELSE leaf[at].value

RECURSIVE Leaves(_)
Leaves(node) ==
    IF IsSegment(node) THEN <<node>>
    ELSE FlattenSeq([i \in DOMAIN node.items |-> Leaves(node.items[i])])

\* Mutant of Entered: the walk ends at the first entry outside the range.
EnteredAtOnce(run, range) == run

\* Entries before the range are passed over.
Entered(run, range) ==
    LET enter == SelectInSeq(run, LAMBDA e : e.key \in range)
    IN  IF enter = 0 THEN <<>> ELSE SubSeq(run, enter, Len(run))

(***************************************************************************)
(* TreeWalker::stream: from the leaf that `start` is routed to, leaf by    *)
(* leaf to the right; once in the range, the first entry after it ends the *)
(* walk.  An excluded lower bound is a start just below the range.         *)
(***************************************************************************)
Walk(node, start, range) ==
    LET leaves == Leaves(node)
        first  == SelectInSeq(leaves, LAMBDA l : l = Follow(node, PathTo(node, start)))
        run    == FlattenSeq([i \in 1..(Len(leaves) - first + 1) |->
                                 leaves[first + i - 1].items])
        within == Entered(run, range)
        out    == SelectInSeq(within, LAMBDA e : e.key \notin range)
    IN  SubSeq(within, 1, IF out = 0 THEN Len(within) ELSE out - 1)

\* TransientTree::stream_range: live leaves are filtered, persistent
\* subtrees are walked, left to right.
RECURSIVE StreamRange(_, _, _)
StreamRange(node, start, range) ==
    CASE node = None -> <<>>
      [] node # None /\ ~node.live -> Walk(node, start, range)
      [] node # None /\ node.live /\ IsSegment(node) ->
           SelectSeq(node.items, LAMBDA e : e.key \in range)
      [] OTHER -> FlattenSeq([i \in DOMAIN node.items |->
                                 StreamRange(node.items[i], start, range)])

-----------------------------------------------------------------------------
(* Editing. *)

UpsertEdit(key, value) == [op |-> "upsert", key |-> key, value |-> value]
DeleteEdit(key)        == [op |-> "delete", key |-> key]

\* apply_to_segment: entries stay sorted.
ApplyToSegment(entries, edit) ==
    LET below == SelectSeq(entries, LAMBDA e : e.key < edit.key)
        above == SelectSeq(entries, LAMBDA e : e.key > edit.key)
    IN  IF edit.op = "delete" THEN below \o above
        ELSE below \o <<[key |-> edit.key, value |-> edit.value]>> \o above

\* Whether the edit leaves the leaf one run that ends where it ended.
FastPathKeepsCanonical(entries, edit) ==
    LET present == Find(entries, edit.key) # 0 IN
    IF edit.op = "delete" THEN present => Len(entries) > 1
    ELSE \/ present
         \/ /\ rank[edit.key] <= BOTTOM_RANK
            /\ ~ /\ Last(entries).key < edit.key
                 /\ rank[Last(entries).key] > BOTTOM_RANK

\* Replaces `count` children from position `at` and re-cuts the list; an
\* empty list is an empty run, which removes the node from its parent.
SpliceAndRegroup(children, at, count, run, height) ==
    RegroupChildren(SubSeq(children, 1, at - 1) \o run
                      \o SubSeq(children, at + count, Len(children)), height)

\* The fast path: the path is lifted, the leaf edited, nothing re-cut.
RECURSIVE EditInPlace(_, _, _)
EditInPlace(node, path, edit) ==
    IF path = <<>> THEN Segment(ApplyToSegment(node.items, edit))
    ELSE Index([node.items EXCEPT ![Head(path)] = EditInPlace(@, Tail(path), edit)])

RECURSIVE ReshapePath(_, _, _, _)
ReshapePath(node, path, edit, height) ==
    IF path = <<>> THEN RegroupEntries(ApplyToSegment(node.items, edit))
    ELSE SpliceAndRegroup(node.items, Head(path), 1,
           ReshapePath(node.items[Head(path)], Tail(path), edit, height - 1), height)

(***************************************************************************)
(* fuse_subtrees: the leaf that lost its boundary and the leftmost leaf of *)
(* the subtree to its right become one run, and every level above is       *)
(* folded and re-cut.  Both subtrees have the same height (Balanced).      *)
(***************************************************************************)
RECURSIVE FuseSubtrees(_, _, _, _)
FuseSubtrees(main, neighbor, key, height) ==
    IF IsSegment(main)
    THEN RegroupEntries(SelectSeq(main.items, LAMBDA e : e.key # key) \o neighbor.items)
    ELSE RegroupChildren(
           Front(main.items)
             \o FuseSubtrees(Last(main.items), Head(neighbor.items), key, height - 1)
             \o Tail(neighbor.items), height)

\* lift_right_neighbor_spine: the depth of the deepest index on the path
\* with a child to the right of it; 0 when the leaf is the rightmost.
LcaDepth(root, path) ==
    LET Forks == {d \in DOMAIN path :
                    path[d] < Len(Follow(root, SubSeq(path, 1, d - 1)).items)}
    IN  IF Forks = {} THEN 0 ELSE Max(Forks)

RECURSIVE ReshapeFused(_, _, _, _, _)
ReshapeFused(node, path, lca, key, height) ==
    LET at == Head(path) IN
    IF lca = 1
    THEN SpliceAndRegroup(node.items, at, 2,
           FuseSubtrees(node.items[at], node.items[at + 1], key, height - 1), height)
    ELSE SpliceAndRegroup(node.items, at, 1,
           ReshapeFused(node.items[at], Tail(path), lca - 1, key, height - 1), height)

RECURSIVE Wrap(_, _)
Wrap(run, level) ==
    IF Len(run) > 1 \/ (run[1].live /\ IsSegment(run[1]))
    THEN Wrap(RegroupChildren(run, level), level + 1)
    ELSE run[1]

\* Strips single-child indexes over indexes, live ones only.
RECURSIVE Strip(_)
Strip(node) ==
    IF /\ ~IsSegment(node) /\ Len(node.items) = 1
       /\ node.items[1].live /\ ~IsSegment(node.items[1])
    THEN Strip(node.items[1]) ELSE node

\* seal_root.
SealRoot(run, height) ==
    IF run = <<>> THEN None
    ELSE LET root == Wrap(run, height + 1)
         IN  IF root.live THEN Strip(root) ELSE Index(<<root>>)

\* Mutant of IsBoundaryDelete: the entries before a boundary stay alone.
NeverBoundary(leaf, edit) == FALSE

\* The delete removes the entry that ends its leaf.
IsBoundaryDelete(leaf, edit) == edit.op = "delete" /\ Last(leaf).key = edit.key

\* Edit::apply, on a loaded root.
Apply(root, edit) ==
    LET path     == PathTo(root, edit.key)
        leaf     == Follow(root, path).items
        height   == Len(path)
        boundary == IsBoundaryDelete(leaf, edit)
        lca      == IF boundary THEN LcaDepth(root, path) ELSE 0
    IN  IF ~boundary /\ FastPathKeepsCanonical(leaf, edit)
        THEN EditInPlace(root, path, edit)
        ELSE SealRoot(IF lca > 0
                      THEN ReshapeFused(root, path, lca, edit.key, height)
                      ELSE ReshapePath(root, path, edit, height), height)

-----------------------------------------------------------------------------
\* persist turns every live node into a persistent one and records it.
RECURSIVE Sealed(_)
Sealed(node) ==
    IF ~node.live THEN node
    ELSE [node EXCEPT !.live = FALSE,
            !.items = IF IsSegment(node) THEN @ ELSE [i \in DOMAIN @ |-> Sealed(@[i])]]

\* Mutant of LiveNodes: the children of the root are not recorded.
LiveRoot(node) == IF node.live THEN {Sealed(node)} ELSE {}

RECURSIVE LiveNodes(_)
LiveNodes(node) ==
    IF ~node.live THEN {}
    ELSE {Sealed(node)} \union
         IF IsSegment(node) THEN {}
         ELSE UNION {LiveNodes(node.items[i]) : i \in DOMAIN node.items}

\* The blocks of a persisted tree.
RECURSIVE Blocks(_)
Blocks(node) ==
    IF node = None THEN {}
    ELSE {node} \union
         IF IsSegment(node) THEN {}
         ELSE UNION {Blocks(node.items[i]) : i \in DOMAIN node.items}

SealedRoot(root) == IF root = None THEN None ELSE Sealed(root)

-----------------------------------------------------------------------------
Init ==
    /\ rank \in Ranks
    /\ saved = None
    /\ tree = None
    /\ delta = {}
    /\ content = [k \in Key |-> None]
    /\ edits = 0

\* Mutant of FirstEntry: the root is a bare segment.
FirstSegment(entry) == Segment(<<entry>>)

\* The root is always an index, over a lone segment at first.
FirstEntry(entry) == Index(<<Segment(<<entry>>)>>)

\* TransientTree::insert.
Insert(key, value) ==
    /\ edits < MaxEdits
    /\ edits' = edits + 1
    /\ tree' = IF tree = None
               THEN FirstEntry([key |-> key, value |-> value])
               ELSE Apply(tree, UpsertEdit(key, value))
    /\ content' = [content EXCEPT ![key] = value]
    /\ delta' = {}
    /\ UNCHANGED <<rank, saved>>

\* TransientTree::delete.  A missing key is a no-op.
Delete(key) ==
    /\ edits < MaxEdits
    /\ edits' = edits + 1
    /\ tree' = IF tree = None THEN None ELSE Apply(tree, DeleteEdit(key))
    /\ content' = [content EXCEPT ![key] = None]
    /\ delta' = {}
    /\ UNCHANGED <<rank, saved>>

\* TransientTree::persist; before the next edit the caller stores the delta,
\* which reads do not consult.
Persist ==
    /\ edits > 0
    /\ edits' = 0
    /\ saved' = SealedRoot(tree)
    /\ tree' = SealedRoot(tree)
    /\ delta' = IF tree = None THEN {} ELSE LiveNodes(tree)
    /\ UNCHANGED <<rank, content>>

Next ==
    \/ \E key \in Key, value \in Value : Insert(key, value)
    \/ \E key \in Key : Delete(key)
    \/ Persist

Spec == Init /\ [][Next]_vars

-----------------------------------------------------------------------------
(* Properties. *)

\* The entries of the ordered map, in key order.
Sorted(S) == SetToSortSeq(S, LAMBDA e, f : e.key < f.key)
ContentIn(range) ==
    Sorted({[key |-> k, value |-> content[k]] :
              k \in {j \in Key \intersect range : content[j] # None}})

RECURSIVE Height(_)
Height(node) == IF IsSegment(node) THEN 0 ELSE 1 + Height(node.items[1])

RECURSIVE Balanced(_)
Balanced(node) ==
    /\ node.items # <<>>
    /\ ~IsSegment(node) => \A i \in DOMAIN node.items :
         /\ Balanced(node.items[i])
         /\ Height(node.items[i]) = Height(node.items[1])
         /\ ~node.live => ~node.items[i].live

\* Type invariant: no node is empty, all leaves are equally deep, the root
\* is an index, and a persistent node has persistent children only.
TypeOK ==
    /\ \A root \in {saved, tree} \ {None} : ~IsSegment(root) /\ Balanced(root)
    /\ saved # None => ~saved.live
    /\ \A node \in delta : ~node.live
    /\ edits \in 0..MaxEdits

(***************************************************************************)
(* The tree is an ordered map: every key is found with its last value, and *)
(* no deleted key is, although splits, fusions and removals move entries   *)
(* between leaves whose bounds route the reads.                            *)
(***************************************************************************)
ReadsContent == \A k \in Key : Get(tree, k) = content[k]

(***************************************************************************)
(* A range read of the batch returns the entries in the range in key order *)
(* whichever leaves are live or persistent and wherever the bounds fall,   *)
(* for included and excluded lower bounds.                                 *)
(***************************************************************************)
StreamsContent ==
    \A lo, hi \in Key :
        /\ StreamRange(tree, lo, lo..hi) = ContentIn(lo..hi)
        /\ StreamRange(tree, lo, (lo + 1)..hi) = ContentIn((lo + 1)..hi)

\* The tree built from the entries alone: level by level, to a single index.
Canonical ==
    LET entries == ContentIn(Key)
    IN  IF entries = <<>> THEN None ELSE Sealed(Wrap(RegroupEntries(entries), 1))

RECURSIVE WithoutChain(_)
WithoutChain(node) ==
    IF ~IsSegment(node) /\ Len(node.items) = 1 /\ ~IsSegment(node.items[1])
    THEN WithoutChain(node.items[1]) ELSE node

(***************************************************************************)
(* History independence up to a chain of single-child indexes above the    *)
(* root: however the entries came about, in one batch or many, the tree is *)
(* the one built from the entries alone.                                   *)
(***************************************************************************)
CanonicalBelowRoot ==
    IF tree = None THEN Canonical = None
    ELSE WithoutChain(Sealed(tree)) = Canonical

(***************************************************************************)
(* History independence as the crate states it: byte for byte the same     *)
(* root.                                                                   *)
(***************************************************************************)
CanonicalRoot == SealedRoot(tree) = Canonical

(***************************************************************************)
(* A persisted tree is complete: each of its blocks was stored before the  *)
(* batch or is in the delta of the persist that sealed it.                 *)
(***************************************************************************)
DeltaComplete ==
    [][saved' # saved => Blocks(saved') \subseteq Blocks(saved) \union delta']_vars
=============================================================================
