----------------------------- MODULE Integrate -----------------------------
(***************************************************************************)
(* TreeDifference::changes feeding TransientTree::integrate: a two-cursor  *)
(* walk over the entries of the source (base) and target (local) trees in  *)
(* key order that yields one change at a time, each of which is resolved   *)
(* against the batch as the earlier changes left it.                       *)
(***************************************************************************)
EXTENDS TreeMerge, Sequences

CONSTANT Order         \* the keys in ascending order

ASSUME OrderAssumption ==
    /\ Order \in Seq(Key)
    /\ \A k \in Key : \E i \in DOMAIN Order : Order[i] = k
    /\ \A i, j \in DOMAIN Order : Order[i] = Order[j] => i = j

VARIABLES source, target,    \* the two trees compared: base and local
          onto,              \* the tree the changes are integrated into
          sourceAt, targetAt,\* index in Order of the next entry of each walk
          pending,           \* a change of the pair (Remove, Add) yet to yield
          batch              \* the transient tree being edited

vars == <<source, target, onto, sourceAt, targetAt, pending, batch>>

End == Len(Order) + 1

\* The entry stream of a tree: the next index whose key has an entry.
NextEntry(tree, from) ==
    CHOOSE i \in from..End :
        /\ i = End \/ tree[Order[i]] # None
        /\ \A j \in from..(i - 1) : tree[Order[j]] = None

Init ==
    /\ source \in Tree
    /\ target \in Tree
    /\ onto \in Tree
    /\ sourceAt = NextEntry(source, 1)
    /\ targetAt = NextEntry(target, 1)
    /\ pending = <<>>
    /\ batch = onto

ApplyAdd(i)    == batch' = [batch EXCEPT ![Order[i]] =
                              AddTo(@, target[Order[i]])]
ApplyRemove(i) == batch' = [batch EXCEPT ![Order[i]] =
                              RemoveFrom(@, source[Order[i]])]

\* Only the source has the key: Change::Remove.
YieldRemove ==
    /\ pending = <<>>
    /\ sourceAt < targetAt
    /\ ApplyRemove(sourceAt)
    /\ sourceAt' = NextEntry(source, sourceAt + 1)
    /\ UNCHANGED <<targetAt, pending>>

\* Only the target has the key: Change::Add.
YieldAdd ==
    /\ pending = <<>>
    /\ sourceAt > targetAt
    /\ ApplyAdd(targetAt)
    /\ targetAt' = NextEntry(target, targetAt + 1)
    /\ UNCHANGED <<sourceAt, pending>>

\* Mutant of AdvanceBoth: the target walk stays on the shared key.
AdvanceSource ==
    /\ sourceAt' = NextEntry(source, sourceAt + 1)
    /\ UNCHANGED targetAt

AdvanceBoth ==
    /\ sourceAt' = NextEntry(source, sourceAt + 1)
    /\ targetAt' = NextEntry(target, targetAt + 1)

\* Mutant of SkipEqual: keys are compared, values are not.
SkipSameKey ==
    /\ pending = <<>>
    /\ sourceAt = targetAt /\ sourceAt < End
    /\ AdvanceBoth
    /\ UNCHANGED <<pending, batch>>

\* Both have the key with the same value: nothing is yielded.
SkipEqual ==
    /\ pending = <<>>
    /\ sourceAt = targetAt /\ sourceAt < End
    /\ source[Order[sourceAt]] = target[Order[targetAt]]
    /\ AdvanceBoth
    /\ UNCHANGED <<pending, batch>>

\* Mutant of YieldOld: the wrong entry is kept for the Add that follows.
YieldOldNext ==
    /\ pending = <<>>
    /\ sourceAt = targetAt /\ sourceAt < End
    /\ source[Order[sourceAt]] # target[Order[targetAt]]
    /\ ApplyRemove(sourceAt)
    /\ pending' = <<targetAt + 1>>
    /\ UNCHANGED <<sourceAt, targetAt>>

\* Both have the key with different values: Remove the old entry ...
YieldOld ==
    /\ pending = <<>>
    /\ sourceAt = targetAt /\ sourceAt < End
    /\ source[Order[sourceAt]] # target[Order[targetAt]]
    /\ ApplyRemove(sourceAt)
    /\ pending' = <<targetAt>>
    /\ UNCHANGED <<sourceAt, targetAt>>

\* ... then Add the new one.
YieldNew ==
    /\ pending # <<>>
    /\ ApplyAdd(Head(pending))
    /\ pending' = <<>>
    /\ AdvanceBoth

Finished == pending = <<>> /\ sourceAt = End /\ targetAt = End

Done == Finished /\ UNCHANGED <<sourceAt, targetAt, pending, batch>>

Next ==
    /\ YieldRemove \/ YieldAdd \/ SkipEqual \/ YieldOld \/ YieldNew \/ Done
    /\ UNCHANGED <<source, target, onto>>

Spec == Init /\ [][Next]_vars

-----------------------------------------------------------------------------
(* Type invariant. *)
TypeOK ==
    /\ {source, target, onto, batch} \subseteq Tree
    /\ sourceAt \in 1..End /\ targetAt \in 1..End
    /\ pending \in {<<>>} \union {<<i>> : i \in 1..Len(Order)}

(***************************************************************************)
(* When the stream is exhausted the batch is exactly the three-way merge,  *)
(* for every base, local and upstream tree: no change is yielded twice,    *)
(* skipped at a boundary of either walk, or resolved against a slot that   *)
(* an earlier change of the same stream should have cleared.               *)
(***************************************************************************)
IntegratesToMerge == Finished => batch = Merge(source, target, onto)

(***************************************************************************)
(* Keys both walks have passed are final and keys they have not are still  *)
(* those of the upstream, so a stream cut short by an error has applied a  *)
(* prefix only; a walk that lags behind has no entry of the other tree in  *)
(* front of it that was passed over.                                       *)
(***************************************************************************)
Passed(i) == i < sourceAt /\ i < targetAt

PrefixIntegrated ==
    /\ sourceAt < End => source[Order[sourceAt]] # None
    /\ targetAt < End => target[Order[targetAt]] # None
    /\ pending # <<>> => /\ pending = <<targetAt>>
                        /\ sourceAt = targetAt /\ targetAt < End
                        /\ source[Order[targetAt]] # target[Order[targetAt]]
    /\ \A i \in 1..Len(Order) :
         LET k == Order[i] IN
         /\ sourceAt <= i /\ i < targetAt => target[k] = None
         /\ targetAt <= i /\ i < sourceAt => source[k] = None
         /\ Passed(i) => batch[k] = Merge(source, target, onto)[k]
         /\ ~Passed(i) => batch[k] = IF pending # <<>> /\ i = targetAt
                                     THEN RemoveFrom(onto[k], source[k])
                                     ELSE onto[k]

\* The algebra of the merge, on the trees of this behaviour.
Convergence ==
    /\ MergeConverges(source, target, onto, batch)
    /\ MergeIsConservative(source, target, onto)
    /\ EditsSurvive(source, target, onto)
=============================================================================
