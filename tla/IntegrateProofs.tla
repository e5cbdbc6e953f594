--------------------------- MODULE IntegrateProofs ---------------------------
(***************************************************************************)
(* The change stream of TreeDifference::changes, integrated entry by       *)
(* entry, computes the three-way merge: for every set of keys, every order *)
(* of them, and every base, local and upstream tree.                       *)
(***************************************************************************)
EXTENDS Integrate, TreeMergeProofs, WellFoundedInduction

\* Indices of keys, and of the end of a walk.
Index == 1..Len(Order)

\* The order lists every key exactly once.
LEMMA OrderFacts ==
    /\ Len(Order) \in Nat /\ End \in Nat /\ End = Len(Order) + 1
    /\ \A i \in Index : Order[i] \in Key
    /\ \A i, j \in Index : Order[i] = Order[j] => i = j
    /\ \A k \in Key : \E i \in Index : Order[i] = k
  BY OrderAssumption DEF End, Index

\* A non-empty set of naturals has a least element.
LEMMA Least ==
    ASSUME NEW S, S \subseteq Nat, S # {}
    PROVE  \E n \in S : \A m \in S : n <= m
<1>1. PICK n \in S : \A m \in S : <<m, n>> \notin OpToRel(<, Nat)
  BY NatLessThanWellFounded, WFMin
<1>2. \A m \in S : ~(m < n)
  BY <1>1 DEF OpToRel
<1> QED
  BY <1>2

\* The next entry of a walk: the first index at or after `from` that has one.
LEMMA NextEntryFirst ==
    ASSUME NEW tree, NEW from \in 1..End
    PROVE  LET i == NextEntry(tree, from) IN
           /\ i \in from..End
           /\ i < End => tree[Order[i]] # None
           /\ \A j \in from..(i - 1) : tree[Order[j]] = None
<1> DEFINE S == {i \in from..End : i = End \/ tree[Order[i]] # None}
<1>1. S \subseteq Nat /\ End \in S
  BY OrderFacts
<1>2. PICK n \in S : \A m \in S : n <= m
  BY <1>1, Least
<1>3. n \in from..End
  OBVIOUS
<1>4. \A j \in from..(n - 1) : tree[Order[j]] = None
  <2> SUFFICES ASSUME NEW j \in from..(n - 1), tree[Order[j]] # None PROVE FALSE
    OBVIOUS
  <2>1. j \in from..End
    BY <1>3, OrderFacts
  <2>2. j \in S
    BY <2>1
  <2> QED
    BY <1>2, <1>3, <2>2, OrderFacts
<1>5. \E i \in from..End : /\ i = End \/ tree[Order[i]] # None
                           /\ \A j \in from..(i - 1) : tree[Order[j]] = None
  BY <1>3, <1>4
<1> DEFINE first == NextEntry(tree, from)
<1>6. /\ first \in from..End
      /\ first = End \/ tree[Order[first]] # None
      /\ \A j \in from..(first - 1) : tree[Order[j]] = None
  BY <1>5, Zenon DEF NextEntry
<1> QED
  BY <1>6, OrderFacts

-----------------------------------------------------------------------------
(***************************************************************************)
(* The inductive invariant is PrefixIntegrated with the types.             *)
(***************************************************************************)
Inv == TypeOK /\ PrefixIntegrated

\* The types of the variables, and of the slots at an index of the order.
LEMMA Typed ==
    ASSUME TypeOK
    PROVE  /\ source \in Tree /\ target \in Tree /\ onto \in Tree /\ batch \in Tree
           /\ sourceAt \in 1..End /\ targetAt \in 1..End
           /\ \A i \in Index : /\ source[Order[i]] \in Slot /\ target[Order[i]] \in Slot
                              /\ onto[Order[i]] \in Slot /\ batch[Order[i]] \in Slot
  BY OrderFacts DEF TypeOK, Tree

\* What the merge makes of one key.
LEMMA MergeAt ==
    ASSUME NEW i \in Index
    PROVE  Merge(source, target, onto)[Order[i]]
             = IntegrateSlot(source[Order[i]], target[Order[i]], onto[Order[i]])
  BY OrderFacts DEF Merge

\* Editing the batch at one key leaves the other keys alone.
LEMMA EditOne ==
    ASSUME TypeOK, NEW i \in Index, NEW slot \in Slot,
           batch' = [batch EXCEPT ![Order[i]] = slot]
    PROVE  /\ batch' \in Tree
           /\ batch'[Order[i]] = slot
           /\ \A j \in Index : j # i => batch'[Order[j]] = batch[Order[j]]
  BY OrderFacts DEF TypeOK, Tree

\* The slots that integrating one change gives.
LEMMA ChangeTyped ==
    ASSUME NEW x \in Slot, NEW y \in Slot
    PROVE  AddTo(x, y) \in Slot /\ RemoveFrom(x, y) \in Slot
  BY DEF AddTo, RemoveFrom, Slot

(***************************************************************************)
(* The one argument all completed changes share: both walks stand at or    *)
(* past i, the walks that stand at i move to their next entry, and key i   *)
(* of the batch becomes what the merge makes of it.                        *)
(***************************************************************************)
LEMMA Advance ==
    ASSUME Inv, UNCHANGED <<source, target, onto>>,
           NEW i \in Index, i <= sourceAt, i <= targetAt,
           i = sourceAt \/ i = targetAt,
           sourceAt' = IF sourceAt = i THEN NextEntry(source, i + 1) ELSE sourceAt,
           targetAt' = IF targetAt = i THEN NextEntry(target, i + 1) ELSE targetAt,
           pending' = <<>>,
           batch' = [batch EXCEPT ![Order[i]] = Merge(source, target, onto)[Order[i]]]
    PROVE  Inv'
<1> DEFINE merged == Merge(source, target, onto)
<1>1. /\ i \in Nat /\ i + 1 \in 1..End
      /\ sourceAt \in 1..End /\ targetAt \in 1..End
  BY OrderFacts, Typed DEF Inv, Index
<1>2. merged[Order[i]] \in Slot
  BY Typed, MergeAt, SlotType DEF Inv
<1>3. /\ batch' \in Tree /\ batch'[Order[i]] = merged[Order[i]]
      /\ \A j \in Index : j # i => batch'[Order[j]] = batch[Order[j]]
  BY <1>2, EditOne DEF Inv
<1>4. /\ sourceAt' \in (i + 1)..End
      /\ sourceAt' < End => source[Order[sourceAt']] # None
      /\ \A j \in (i + 1)..(sourceAt' - 1) : source[Order[j]] = None
  <2>1. CASE sourceAt = i
    BY <1>1, <2>1, NextEntryFirst
  <2>2. CASE sourceAt # i
    <3>1. sourceAt' = sourceAt /\ targetAt = i /\ sourceAt \in (i + 1)..End
      BY <1>1, <2>2, OrderFacts
    <3>2. ASSUME NEW j \in (i + 1)..(sourceAt - 1) PROVE source[Order[j]] = None
      <4>1. j \in Index /\ targetAt <= j /\ j < sourceAt
        BY <1>1, <3>1, OrderFacts DEF Index
      <4> QED
        BY <4>1 DEF Inv, PrefixIntegrated, Index
    <3> QED
      BY <3>1, <3>2 DEF Inv, PrefixIntegrated
  <2> QED
    BY <2>1, <2>2
<1>5. /\ targetAt' \in (i + 1)..End
      /\ targetAt' < End => target[Order[targetAt']] # None
      /\ \A j \in (i + 1)..(targetAt' - 1) : target[Order[j]] = None
  <2>1. CASE targetAt = i
    BY <1>1, <2>1, NextEntryFirst
  <2>2. CASE targetAt # i
    <3>1. targetAt' = targetAt /\ sourceAt = i /\ targetAt \in (i + 1)..End
      BY <1>1, <2>2, OrderFacts
    <3>2. ASSUME NEW j \in (i + 1)..(targetAt - 1) PROVE target[Order[j]] = None
      <4>1. j \in Index /\ sourceAt <= j /\ j < targetAt
        BY <1>1, <3>1, OrderFacts DEF Index
      <4> QED
        BY <4>1 DEF Inv, PrefixIntegrated, Index
    <3> QED
      BY <3>1, <3>2 DEF Inv, PrefixIntegrated
  <2> QED
    BY <2>1, <2>2
<1>6. TypeOK'
  BY <1>1, <1>3, <1>4, <1>5, OrderFacts DEF Inv, TypeOK
<1>7. ASSUME NEW j \in Index
      PROVE  /\ sourceAt' <= j /\ j < targetAt' => target[Order[j]] = None
             /\ targetAt' <= j /\ j < sourceAt' => source[Order[j]] = None
             /\ j < sourceAt' /\ j < targetAt' => batch'[Order[j]] = merged[Order[j]]
             /\ ~(j < sourceAt' /\ j < targetAt') => batch'[Order[j]] = onto[Order[j]]
  <2>0. j \in Nat
    BY OrderFacts DEF Index
  <2>1. CASE j < i
    <3>1. j < sourceAt /\ j < targetAt /\ j < sourceAt' /\ j < targetAt'
      BY <1>1, <1>4, <1>5, <2>0, <2>1, OrderFacts
    <3>2. batch[Order[j]] = merged[Order[j]]
      BY <3>1 DEF Inv, PrefixIntegrated, Passed, Index
    <3> QED
      BY <1>1, <1>3, <1>4, <1>5, <2>0, <2>1, <3>1, <3>2, OrderFacts
  <2>2. CASE j = i
    <3>1. j < sourceAt' /\ j < targetAt'
      BY <1>1, <1>4, <1>5, <2>2, OrderFacts
    <3> QED
      BY <1>1, <1>3, <1>4, <1>5, <2>0, <2>2, <3>1, OrderFacts
  <2>3. CASE j > i
    <3>1. j < sourceAt' => source[Order[j]] = None
      BY <1>1, <1>4, <2>0, <2>3, OrderFacts
    <3>2. j < targetAt' => target[Order[j]] = None
      BY <1>1, <1>5, <2>0, <2>3, OrderFacts
    <3>3. batch'[Order[j]] = onto[Order[j]]
      <4>1. ~Passed(j) /\ ~(pending # <<>> /\ j = targetAt)
        BY <1>1, <2>0, <2>3 DEF Inv, PrefixIntegrated, Passed
      <4> QED
        BY <1>3, <2>0, <2>3, <4>1, <1>1 DEF Inv, PrefixIntegrated, Index
    <3>4. source[Order[j]] = None /\ target[Order[j]] = None
            => merged[Order[j]] = onto[Order[j]]
      BY MergeAt DEF IntegrateSlot
    <3> QED
      BY <3>1, <3>2, <3>3, <3>4
  <2> QED
    BY <1>1, <2>0, <2>1, <2>2, <2>3
<1>8. PrefixIntegrated'
  BY <1>4, <1>5, <1>7 DEF PrefixIntegrated, Passed, Index, End
<1> QED
  BY <1>6, <1>8 DEF Inv

\* What the batch holds at a key where both walks have not passed.
LEMMA Untouched ==
    ASSUME Inv, NEW i \in Index, i = sourceAt \/ i = targetAt, pending = <<>>
    PROVE  batch[Order[i]] = onto[Order[i]]
<1>1. ~Passed(i)
  BY Typed DEF Inv, Passed, Index
<1> QED
  BY <1>1 DEF Inv, PrefixIntegrated, Index

\* An entry only the base has: its removal is the whole change of the key.
LEMMA RemoveStep ==
    ASSUME Inv, YieldRemove, UNCHANGED <<source, target, onto>>
    PROVE  Inv'
<1> DEFINE i == sourceAt
<1>1. i \in Index /\ i < targetAt /\ pending = <<>> /\ pending' = <<>>
  BY Typed, OrderFacts DEF Inv, YieldRemove, Index
<1>2. source[Order[i]] # None /\ target[Order[i]] = None
  BY <1>1, OrderFacts, Typed DEF Inv, PrefixIntegrated, Index
<1>3. batch[Order[i]] = onto[Order[i]]
  BY <1>1, Untouched
<1>4. RemoveFrom(onto[Order[i]], source[Order[i]])
        = Merge(source, target, onto)[Order[i]]
  BY <1>1, <1>2, MergeAt DEF IntegrateSlot
<1>5. batch' = [batch EXCEPT ![Order[i]] = Merge(source, target, onto)[Order[i]]]
  BY <1>1, <1>3, <1>4, Typed, OrderFacts DEF Inv, YieldRemove, ApplyRemove, Tree
<1>6. i <= targetAt /\ i # targetAt /\ i <= sourceAt
  BY <1>1, Typed, OrderFacts DEF Inv, Index
<1>7. sourceAt' = NextEntry(source, i + 1) /\ targetAt' = targetAt
  BY DEF YieldRemove
<1> QED
  BY <1>1, <1>5, <1>6, <1>7, Advance

\* An entry only the local tree has: adding it is the whole change of the key.
LEMMA AddStep ==
    ASSUME Inv, YieldAdd, UNCHANGED <<source, target, onto>>
    PROVE  Inv'
<1> DEFINE i == targetAt
<1>1. i \in Index /\ i < sourceAt /\ pending = <<>> /\ pending' = <<>>
  BY Typed, OrderFacts DEF Inv, YieldAdd, Index
<1>2. target[Order[i]] # None /\ source[Order[i]] = None
  BY <1>1, OrderFacts, Typed DEF Inv, PrefixIntegrated, Index
<1>3. batch[Order[i]] = onto[Order[i]]
  BY <1>1, Untouched
<1>4. AddTo(onto[Order[i]], target[Order[i]])
        = Merge(source, target, onto)[Order[i]]
  BY <1>1, <1>2, MergeAt DEF IntegrateSlot
<1>5. batch' = [batch EXCEPT ![Order[i]] = Merge(source, target, onto)[Order[i]]]
  BY <1>1, <1>3, <1>4, Typed, OrderFacts DEF Inv, YieldAdd, ApplyAdd, Tree
<1>6. i <= sourceAt /\ i # sourceAt /\ i <= targetAt
  BY <1>1, Typed, OrderFacts DEF Inv, Index
<1>7. targetAt' = NextEntry(target, i + 1) /\ sourceAt' = sourceAt
  BY DEF YieldAdd
<1> QED
  BY <1>1, <1>5, <1>6, <1>7, Advance

\* An entry both trees have: no change, and the upstream's slot is the merge.
LEMMA SkipStep ==
    ASSUME Inv, SkipEqual, UNCHANGED <<source, target, onto>>
    PROVE  Inv'
<1> DEFINE i == sourceAt
<1>1. i \in Index /\ i = targetAt /\ pending = <<>> /\ pending' = <<>>
  BY Typed, OrderFacts DEF Inv, SkipEqual, Index
<1>2. batch[Order[i]] = Merge(source, target, onto)[Order[i]]
  BY <1>1, Untouched, MergeAt DEF SkipEqual, IntegrateSlot
<1>3. batch' = [batch EXCEPT ![Order[i]] = Merge(source, target, onto)[Order[i]]]
  BY <1>1, <1>2, Typed, OrderFacts DEF Inv, SkipEqual, Tree
<1>4. i <= sourceAt /\ i <= targetAt
  BY <1>1, Typed, OrderFacts DEF Inv, Index
<1>5. sourceAt' = NextEntry(source, i + 1) /\ targetAt' = NextEntry(target, i + 1)
  BY <1>1 DEF SkipEqual, AdvanceBoth
<1> QED
  BY <1>1, <1>3, <1>4, <1>5, Advance

\* The second change of a pair: the new value is added to what the removal of
\* the old one left, and both walks move on.
LEMMA NewStep ==
    ASSUME Inv, YieldNew, UNCHANGED <<source, target, onto>>
    PROVE  Inv'
<1> DEFINE i == targetAt
<1>1. /\ pending = <<i>> /\ pending # <<>> /\ sourceAt = i /\ i \in Index
      /\ source[Order[i]] # target[Order[i]] /\ pending' = <<>>
  BY Typed, OrderFacts DEF Inv, PrefixIntegrated, YieldNew, Index
<1>2. source[Order[i]] # None /\ target[Order[i]] # None
  BY <1>1, OrderFacts DEF Inv, PrefixIntegrated, Index
<1>3. batch[Order[i]] = RemoveFrom(onto[Order[i]], source[Order[i]])
  <2>1. ~Passed(i)
    BY Typed DEF Inv, Passed
  <2> QED
    BY <1>1, <2>1 DEF Inv, PrefixIntegrated, Index
<1>4. AddTo(batch[Order[i]], target[Order[i]])
        = Merge(source, target, onto)[Order[i]]
  BY <1>1, <1>2, <1>3, MergeAt DEF IntegrateSlot
<1>5. batch' = [batch EXCEPT ![Order[i]] = Merge(source, target, onto)[Order[i]]]
  <2>1. Head(pending) = i
    BY <1>1
  <2>2. batch' = [batch EXCEPT ![Order[i]] = AddTo(@, target[Order[i]])]
    BY <2>1 DEF YieldNew, ApplyAdd
  <2> QED
    BY <1>1, <1>4, <2>2, Typed, OrderFacts DEF Inv, Tree
<1>6. i <= sourceAt /\ i <= targetAt
  BY <1>1, Typed, OrderFacts DEF Inv, Index
<1>7. sourceAt' = NextEntry(source, i + 1) /\ targetAt' = NextEntry(target, i + 1)
  BY <1>1 DEF YieldNew, AdvanceBoth
<1> QED
  BY <1>1, <1>5, <1>6, <1>7, Advance

\* The first change of a pair: the old value is removed, the walks stay.
LEMMA OldStep ==
    ASSUME Inv, YieldOld, UNCHANGED <<source, target, onto>>
    PROVE  Inv'
<1> DEFINE i == targetAt
           slot == RemoveFrom(onto[Order[i]], source[Order[i]])
<1>1. /\ pending = <<>> /\ pending' = <<i>> /\ pending' # <<>>
      /\ sourceAt = i /\ i < End /\ i \in Index
      /\ source[Order[i]] # target[Order[i]]
      /\ sourceAt' = i /\ targetAt' = i
  BY Typed, OrderFacts DEF Inv, YieldOld, Index
<1>2. batch[Order[i]] = onto[Order[i]] /\ slot \in Slot
  BY <1>1, Untouched, Typed, ChangeTyped DEF Inv
<1>3. batch' = [batch EXCEPT ![Order[i]] = slot]
  BY <1>1, <1>2, Typed, OrderFacts DEF Inv, YieldOld, ApplyRemove, Tree
<1>4. /\ batch' \in Tree /\ batch'[Order[i]] = slot
      /\ \A j \in Index : j # i => batch'[Order[j]] = batch[Order[j]]
  BY <1>1, <1>2, <1>3, EditOne DEF Inv
<1>5. TypeOK'
  BY <1>1, <1>4 DEF Inv, TypeOK, Index
<1>6. ASSUME NEW j \in Index
      PROVE  /\ i <= j /\ j < i => target[Order[j]] = None
             /\ i <= j /\ j < i => source[Order[j]] = None
             /\ j < i => batch'[Order[j]] = Merge(source, target, onto)[Order[j]]
             /\ ~(j < i) => batch'[Order[j]] = IF j = i THEN slot ELSE onto[Order[j]]
  <2>1. j \in Nat /\ i \in Nat
    BY <1>1, OrderFacts DEF Index
  <2>2. CASE j < i
    <3>1. Passed(j) /\ j # i
      BY <1>1, <2>1, <2>2 DEF Passed
    <3> QED
      BY <1>4, <2>1, <2>2, <3>1 DEF Inv, PrefixIntegrated, Index
  <2>3. CASE j >= i
    <3>1. ~Passed(j)
      BY <1>1, <2>1, <2>3 DEF Passed
    <3>2. batch[Order[j]] = onto[Order[j]]
      BY <1>1, <3>1 DEF Inv, PrefixIntegrated, Index
    <3> QED
      BY <1>4, <2>1, <2>3, <3>2
  <2> QED
    BY <2>1, <2>2, <2>3
<1>7. /\ sourceAt' < End => source'[Order[sourceAt']] # None
      /\ targetAt' < End => target'[Order[targetAt']] # None
  BY <1>1 DEF Inv, PrefixIntegrated
<1>8. PrefixIntegrated'
  BY <1>1, <1>6, <1>7 DEF PrefixIntegrated, Passed, Index, End
<1> QED
  BY <1>5, <1>8 DEF Inv

-----------------------------------------------------------------------------
\* The walks start at their first entries with the upstream's tree as batch.
LEMMA InvInit == Init => Inv
<1> SUFFICES ASSUME Init PROVE Inv
  OBVIOUS
<1>1. 1 \in 1..End
  BY OrderFacts
<1>2. /\ sourceAt \in 1..End /\ (sourceAt < End => source[Order[sourceAt]] # None)
      /\ \A j \in 1..(sourceAt - 1) : source[Order[j]] = None
  BY <1>1, NextEntryFirst DEF Init
<1>3. /\ targetAt \in 1..End /\ (targetAt < End => target[Order[targetAt]] # None)
      /\ \A j \in 1..(targetAt - 1) : target[Order[j]] = None
  BY <1>1, NextEntryFirst DEF Init
<1>4. TypeOK
  BY <1>2, <1>3 DEF Init, TypeOK
<1>5. ASSUME NEW j \in Index
      PROVE  /\ sourceAt <= j /\ j < targetAt => target[Order[j]] = None
             /\ targetAt <= j /\ j < sourceAt => source[Order[j]] = None
             /\ Passed(j) => batch[Order[j]] = Merge(source, target, onto)[Order[j]]
             /\ batch[Order[j]] = onto[Order[j]]
  <2>1. j < sourceAt => source[Order[j]] = None
    BY <1>2, OrderFacts DEF Index
  <2>2. j < targetAt => target[Order[j]] = None
    BY <1>3, OrderFacts DEF Index
  <2>3. source[Order[j]] = None /\ target[Order[j]] = None
          => Merge(source, target, onto)[Order[j]] = onto[Order[j]]
    BY MergeAt DEF IntegrateSlot
  <2> QED
    BY <2>1, <2>2, <2>3 DEF Init, Passed
<1>6. PrefixIntegrated
  BY <1>2, <1>3, <1>5 DEF PrefixIntegrated, Init, Index
<1> QED
  BY <1>4, <1>6 DEF Inv

\* Every step of the walk, and every stuttering step, keeps the invariant.
LEMMA InvNext == Inv /\ [Next]_vars => Inv'
<1> SUFFICES ASSUME Inv, [Next]_vars PROVE Inv'
  OBVIOUS
<1>1. CASE YieldRemove /\ UNCHANGED <<source, target, onto>>
  BY <1>1, RemoveStep
<1>2. CASE YieldAdd /\ UNCHANGED <<source, target, onto>>
  BY <1>2, AddStep
<1>3. CASE SkipEqual /\ UNCHANGED <<source, target, onto>>
  BY <1>3, SkipStep
<1>4. CASE YieldOld /\ UNCHANGED <<source, target, onto>>
  BY <1>4, OldStep
<1>5. CASE YieldNew /\ UNCHANGED <<source, target, onto>>
  BY <1>5, NewStep
<1>6. CASE UNCHANGED vars
  BY <1>6 DEF Inv, TypeOK, PrefixIntegrated, Passed, vars
<1>7. Done /\ UNCHANGED <<source, target, onto>> => UNCHANGED vars
  BY DEF Done, vars
<1> QED
  BY <1>1, <1>2, <1>3, <1>4, <1>5, <1>6, <1>7 DEF Next

\* PrefixIntegrated with the types is an inductive invariant.
LEMMA InvAlways == Spec => []Inv
  BY InvInit, InvNext, PTL DEF Spec

(***************************************************************************)
(* Type correctness: the walks stay within the tree, and the batch is a    *)
(* tree after every change of the stream.                                  *)
(***************************************************************************)
THEOREM TypeCorrect == Spec => []TypeOK
<1>1. Inv => TypeOK
  BY DEF Inv
<1> QED
  BY <1>1, InvAlways, PTL

(***************************************************************************)
(* Keys both cursors of TreeDifference::changes have passed are merged and *)
(* the others are still the upstream's, after every change it yields.      *)
(***************************************************************************)
THEOREM PrefixAlwaysIntegrated == Spec => []PrefixIntegrated
<1>1. Inv => PrefixIntegrated
  BY DEF Inv
<1> QED
  BY <1>1, InvAlways, PTL

(***************************************************************************)
(* When the stream ends, integrate has computed the three-way merge.       *)
(***************************************************************************)
THEOREM IntegrateMerges == Spec => []IntegratesToMerge
<1>1. Inv => IntegratesToMerge
  <2> SUFFICES ASSUME Inv, Finished PROVE batch = Merge(source, target, onto)
    BY DEF IntegratesToMerge
  <2>1. \A i \in Index : Passed(i)
    BY OrderFacts DEF Finished, Passed, Index
  <2>2. \A i \in Index : batch[Order[i]] = Merge(source, target, onto)[Order[i]]
    BY <2>1 DEF Inv, PrefixIntegrated, Index
  <2>3. \A k \in Key : batch[k] = Merge(source, target, onto)[k]
    BY <2>2, OrderFacts
  <2>4. batch \in Tree /\ Merge(source, target, onto) \in Tree
    BY Typed, MergeType DEF Inv
  <2> QED
    BY <2>3, <2>4 DEF Tree
<1> QED
  BY <1>1, InvAlways, PTL

(***************************************************************************)
(* The trees the walk handles, the partially integrated batch among them,  *)
(* obey the algebra that makes replicas converge.                          *)
(***************************************************************************)
THEOREM AlwaysConvergent == Spec => []Convergence
<1>1. Inv => Convergence
  <2> SUFFICES ASSUME Inv PROVE Convergence
    OBVIOUS
  <2>1. source \in Tree /\ target \in Tree /\ onto \in Tree /\ batch \in Tree
    BY Typed DEF Inv
  <2> QED
    BY <2>1, MergeConvergesEverywhere, MergeIsConservativeEverywhere,
       EditsSurviveEverywhere DEF Convergence
<1> QED
  BY <1>1, InvAlways, PTL
=============================================================================
