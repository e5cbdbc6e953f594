----------------------------- MODULE TreeMerge -----------------------------
(***************************************************************************)
(* The content of a search tree and the three-way merge of Branch::pull:   *)
(* the differential from the last synced tree to the local tree, replayed  *)
(* on the upstream tree with deterministic conflict resolution.            *)
(*                                                                         *)
(* A tree is a function from keys to the value stored under them, None     *)
(* where the key is absent.  Two trees with the same content have the same *)
(* root hash (the tree shape depends on the content only), so a tree also  *)
(* stands for its TreeReference.                                           *)
(***************************************************************************)
EXTENDS Option, Integers

CONSTANTS Key,         \* keys of the search tree
          Value,       \* values an entry can have
          Identity     \* value_identity: the hash a value is ordered by

ASSUME ValueAssumption == \A v \in Value : v # None
ASSUME IdentityAssumption ==
    /\ Identity \in [Value -> Int]
    /\ \A v, w \in Value : Identity[v] = Identity[w] => v = w

Slot == Value \union {None}
Tree == [Key -> Slot]

\* EMPTY_TREE_HASH and TreeReference::default.
EmptyTree == [k \in Key |-> None]

\* Mutant of AddTo: the value that is integrated last wins.
AddOverwrites(existing, value) == value

\* Integrating Change::Add(value) at a key that holds `existing`.
AddTo(existing, value) ==
    IF existing = None THEN value
    ELSE IF existing # value /\ Identity[value] > Identity[existing]
         THEN value ELSE existing

\* Integrating Change::Remove(value): only the exact entry is removed.
RemoveFrom(existing, value) == IF existing = value THEN None ELSE existing

(***************************************************************************)
(* What the changes of one key from `old` to `new` make of the slot        *)
(* `existing`: a value only in the source is removed, a value only in the  *)
(* target is added, a changed value is removed and then added.             *)
(***************************************************************************)
IntegrateSlot(old, new, existing) ==
    IF old = new THEN existing
    ELSE LET removed == IF old = None THEN existing ELSE RemoveFrom(existing, old)
         IN  IF new = None THEN removed ELSE AddTo(removed, new)

\* merged = upstream.edit().integrate(base.differentiate(local)).
Merge(base, local, upstream) ==
    [k \in Key |-> IntegrateSlot(base[k], local[k], upstream[k])]

-----------------------------------------------------------------------------
(***************************************************************************)
(* For a fixed base the merge is the join of a semilattice, key by key: a  *)
(* slot that did not move from the base is the bottom, a removal is above  *)
(* it, and values are ordered by their identity above both.  Two or three  *)
(* replicas that merge the same edits therefore agree, whoever pulls from  *)
(* whom, in whichever order and however often.                             *)
(***************************************************************************)
MergeConverges(base, x, y, z) ==
    /\ Merge(base, x, y) = Merge(base, y, x)
    /\ Merge(base, Merge(base, x, y), z) = Merge(base, x, Merge(base, y, z))
    /\ Merge(base, x, x) = x

(***************************************************************************)
(* The two degenerate pulls, and the pull repeated with the base advanced  *)
(* to the upstream tree: with no local edits the upstream tree is adopted, *)
(* with no upstream edits the local tree is kept, and merging a tree that  *)
(* was already merged changes nothing.                                     *)
(***************************************************************************)
MergeIsConservative(base, local, upstream) ==
    /\ Merge(base, base, upstream) = upstream
    /\ Merge(base, local, base) = local
    /\ Merge(upstream, Merge(base, local, upstream), upstream)
         = Merge(base, local, upstream)

(***************************************************************************)
(* No edit is dropped: where only one side moved away from the base its    *)
(* slot survives, and a value either side wrote can only lose to another   *)
(* value written under the same key.                                       *)
(***************************************************************************)
EditsSurvive(base, local, upstream) ==
    \A k \in Key :
      LET merged == Merge(base, local, upstream)[k] IN
      /\ upstream[k] = base[k] => merged = local[k]
      /\ local[k] = base[k] => merged = upstream[k]
      /\ local[k] # base[k] /\ upstream[k] # base[k] =>
           /\ merged \in {local[k], upstream[k]}
           /\ merged = None => local[k] = None /\ upstream[k] = None
=============================================================================
