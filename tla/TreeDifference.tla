--------------------------- MODULE TreeDifference ---------------------------
(***************************************************************************)
(* TreeDifference::compute: the difference between two persisted trees,    *)
(* found by expanding both from the root and dropping the subtrees they    *)
(* share.  `changes` walks what is left (module Integrate); `novel_nodes`  *)
(* is what push uploads to a remote that holds the source tree.            *)
(*                                                                         *)
(* A side is its frontier, the nodes not yet expanded in key order, and    *)
(* the set of index nodes it expanded on the way.                          *)
(***************************************************************************)
EXTENDS SearchTree

Side(root) == [nodes |-> IF root = None THEN <<>> ELSE <<root>>, expanded |-> {}]

\* Mutant of Unshared: nodes are compared by their bounds only.
UnsharedBounds(nodes, others) ==
    SelectSeq(nodes, LAMBDA n : \A i \in DOMAIN others :
                                  UpperBound(others[i]) # UpperBound(n))

\* prune: nodes with the bound and the hash of one on the other side go.
Unshared(nodes, others) ==
    SelectSeq(nodes, LAMBDA n : \A i \in DOMAIN others : others[i] # n)

Prune(source, target) ==
    <<[source EXCEPT !.nodes = Unshared(@, target.nodes)],
      [target EXCEPT !.nodes = Unshared(@, source.nodes)]>>

\* expand_at: the first node that covers the bound, if it is an index.
ExpandAt(side, bound) ==
    LET at == SelectInSeq(side.nodes, LAMBDA n : UpperBound(n) >= bound) IN
    IF at = 0 \/ IsSegment(side.nodes[at]) THEN side
    ELSE [nodes    |-> SubSeq(side.nodes, 1, at - 1) \o side.nodes[at].items
                         \o SubSeq(side.nodes, at + 1, Len(side.nodes)),
          expanded |-> side.expanded \union {side.nodes[at]}]

(***************************************************************************)
(* One pass over both frontiers.  The side whose node covers the larger    *)
(* range is expanded, both sides where the ranges are equal and the nodes  *)
(* are not; the pass ends with the first expansion.                        *)
(***************************************************************************)
RECURSIVE Pass(_, _, _, _)
Pass(source, target, i, j) ==
    IF i > Len(source.nodes) \/ j > Len(target.nodes) THEN <<source, target>>
    ELSE LET a == UpperBound(source.nodes[i])
             b == UpperBound(target.nodes[j])
             differ == source.nodes[i] # target.nodes[j]
             s == IF a > b \/ (a = b /\ differ) THEN ExpandAt(source, b) ELSE source
             t == IF a < b \/ (a = b /\ differ) THEN ExpandAt(target, a) ELSE target
         IN  IF s # source \/ t # target THEN <<s, t>>
             ELSE Pass(source, target, IF a <= b THEN i + 1 ELSE i,
                                       IF a >= b THEN j + 1 ELSE j)

RECURSIVE Converge(_, _)
Converge(source, target) ==
    LET pruned == Prune(source, target)
        passed == Pass(pruned[1], pruned[2], 1, 1)
    IN  IF passed = pruned THEN pruned ELSE Converge(passed[1], passed[2])

\* Mutant of ExpandRest: subtrees only the target has are left unopened.
ExpandNone(target) == target

\* What is left of the target is novel: open it down to the segments.
RECURSIVE ExpandRest(_)
ExpandRest(target) ==
    LET at == SelectInSeq(target.nodes, LAMBDA n : ~IsSegment(n)) IN
    IF at = 0 THEN target
    ELSE ExpandRest(ExpandAt(target, UpperBound(target.nodes[at])))

\* compute: nothing is read when the roots are the same.
Compute(source, target) ==
    IF source = target THEN <<Side(None), Side(None)>>
    ELSE LET sides == Converge(Side(source), Side(target))
         IN  <<sides[1], ExpandRest(sides[2])>>

NovelNodes(difference) == difference[2].expanded \union ToSet(difference[2].nodes)

Left(side) == UNION {ToSet(Entries(side.nodes[i])) : i \in DOMAIN side.nodes}

-----------------------------------------------------------------------------
EntrySet(root) == IF root = None THEN {} ELSE ToSet(Entries(root))

(***************************************************************************)
(* The changes are exact in both directions: what the pruned frontiers     *)
(* still disagree on is what the trees disagree on, although subtrees are  *)
(* compared by hash at whatever level both sides happen to be expanded to, *)
(* between trees of different heights.                                     *)
(***************************************************************************)
DifferenceExact ==
    LET now  == SealedRoot(tree)
        diff == Compute(saved, now)
    IN  /\ Left(diff[1]) \ Left(diff[2]) = EntrySet(saved) \ EntrySet(now)
        /\ Left(diff[2]) \ Left(diff[1]) = EntrySet(now) \ EntrySet(saved)

(***************************************************************************)
(* A remote that holds the blocks of the source and receives the novel     *)
(* nodes can read the whole target: push may publish the target's root.    *)
(***************************************************************************)
NovelNodesComplete ==
    LET now == SealedRoot(tree)
    IN  Blocks(now) \subseteq Blocks(saved) \union NovelNodes(Compute(saved, now))
=============================================================================
