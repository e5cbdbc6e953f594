--------------------------- MODULE TreeMergeProofs ---------------------------
(***************************************************************************)
(* The algebra of the three-way merge of Branch::pull, for every set of    *)
(* keys, every set of values and every injective value identity.  Each     *)
(* law is proved for one slot first; trees are functions of slots.         *)
(***************************************************************************)
EXTENDS TreeMerge, TLAPS

\* A slot merged into a slot is a slot: integrate stores nothing but values.
LEMMA SlotType ==
    ASSUME NEW b \in Slot, NEW x \in Slot, NEW y \in Slot
    PROVE  IntegrateSlot(b, x, y) \in Slot
  BY DEF IntegrateSlot, AddTo, RemoveFrom, Slot

\* Two concurrent edits of one key resolve to the same value on both sides.
LEMMA SlotCommutes ==
    ASSUME NEW b \in Slot, NEW x \in Slot, NEW y \in Slot
    PROVE  IntegrateSlot(b, x, y) = IntegrateSlot(b, y, x)
  BY ValueAssumption, IdentityAssumption
     DEF IntegrateSlot, AddTo, RemoveFrom, Slot

\* Three concurrent edits of one key resolve alike in any grouping.
LEMMA SlotAssociates ==
    ASSUME NEW b \in Slot, NEW x \in Slot, NEW y \in Slot, NEW z \in Slot
    PROVE  IntegrateSlot(b, IntegrateSlot(b, x, y), z)
             = IntegrateSlot(b, x, IntegrateSlot(b, y, z))
  BY ValueAssumption, IdentityAssumption, SMTT(60)
     DEF IntegrateSlot, AddTo, RemoveFrom, Slot

\* Replaying an edit on the slot it made, or on an untouched slot, makes the
\* slot it made; replaying no edit changes nothing.
LEMMA SlotNeutral ==
    ASSUME NEW b \in Slot, NEW x \in Slot
    PROVE  /\ IntegrateSlot(b, x, x) = x
           /\ IntegrateSlot(b, x, b) = x
           /\ IntegrateSlot(b, b, x) = x
  BY ValueAssumption DEF IntegrateSlot, AddTo, RemoveFrom, Slot

\* A merged slot merged again, from the upstream slot as the base.
LEMMA SlotRepeats ==
    ASSUME NEW b \in Slot, NEW x \in Slot, NEW y \in Slot
    PROVE  IntegrateSlot(y, IntegrateSlot(b, x, y), y) = IntegrateSlot(b, x, y)
  BY SlotType, SlotNeutral

\* Merging trees gives a tree.
LEMMA MergeType ==
    ASSUME NEW base \in Tree, NEW local \in Tree, NEW upstream \in Tree
    PROVE  Merge(base, local, upstream) \in Tree
  BY SlotType DEF Merge, Tree

(***************************************************************************)
(* Replicas that edited the same base agree on the merged tree, whoever    *)
(* pulls from whom, in whichever order and however often.                  *)
(***************************************************************************)
THEOREM MergeConvergesEverywhere ==
    \A base, x, y, z \in Tree : MergeConverges(base, x, y, z)
<1>1. SUFFICES ASSUME NEW base \in Tree, NEW x \in Tree, NEW y \in Tree, NEW z \in Tree
               PROVE  MergeConverges(base, x, y, z)
  OBVIOUS
<1>2. ASSUME NEW k \in Key
      PROVE  {base[k], x[k], y[k], z[k]} \subseteq Slot
  BY DEF Tree
<1>3. Merge(base, x, y) = Merge(base, y, x)
  BY <1>2, SlotCommutes DEF Merge
<1>4. Merge(base, Merge(base, x, y), z) = Merge(base, x, Merge(base, y, z))
  <2>1. ASSUME NEW k \in Key
        PROVE  /\ Merge(base, Merge(base, x, y), z)[k]
                    = IntegrateSlot(base[k], IntegrateSlot(base[k], x[k], y[k]), z[k])
               /\ Merge(base, x, Merge(base, y, z))[k]
                    = IntegrateSlot(base[k], x[k], IntegrateSlot(base[k], y[k], z[k]))
    BY DEF Merge
  <2>2. ASSUME NEW k \in Key
        PROVE  Merge(base, Merge(base, x, y), z)[k]
                 = Merge(base, x, Merge(base, y, z))[k]
    BY <1>2, <2>1, SlotAssociates
  <2> QED
    BY <2>2 DEF Merge
<1>5. Merge(base, x, x) = x
  BY <1>2, SlotNeutral DEF Merge, Tree
<1> QED
  BY <1>3, <1>4, <1>5 DEF MergeConverges

(***************************************************************************)
(* A pull without local edits adopts the upstream tree (the fast-forward   *)
(* case of Pull::prepare), one without upstream edits keeps the local      *)
(* tree, and a pull repeated after the base advanced changes nothing.      *)
(***************************************************************************)
THEOREM MergeIsConservativeEverywhere ==
    \A base, local, upstream \in Tree : MergeIsConservative(base, local, upstream)
<1>1. SUFFICES ASSUME NEW base \in Tree, NEW local \in Tree, NEW upstream \in Tree
               PROVE  MergeIsConservative(base, local, upstream)
  OBVIOUS
<1>2. ASSUME NEW k \in Key
      PROVE  {base[k], local[k], upstream[k]} \subseteq Slot
  BY DEF Tree
<1>3. Merge(base, base, upstream) = upstream
  BY <1>2, SlotNeutral DEF Merge, Tree
<1>4. Merge(base, local, base) = local
  BY <1>2, SlotNeutral DEF Merge, Tree
<1>5. Merge(upstream, Merge(base, local, upstream), upstream)
        = Merge(base, local, upstream)
  BY <1>2, SlotRepeats DEF Merge
<1> QED
  BY <1>3, <1>4, <1>5 DEF MergeIsConservative

(***************************************************************************)
(* No edit is dropped by a merge: where one side moved, its slot survives; *)
(* where both did, one of the two slots does, and never a removal against  *)
(* a value.                                                                *)
(***************************************************************************)
THEOREM EditsSurviveEverywhere ==
    \A base, local, upstream \in Tree : EditsSurvive(base, local, upstream)
<1>1. SUFFICES ASSUME NEW base \in Tree, NEW local \in Tree, NEW upstream \in Tree,
                      NEW k \in Key
               PROVE  LET merged == Merge(base, local, upstream)[k] IN
                      /\ upstream[k] = base[k] => merged = local[k]
                      /\ local[k] = base[k] => merged = upstream[k]
                      /\ local[k] # base[k] /\ upstream[k] # base[k] =>
                           /\ merged \in {local[k], upstream[k]}
                           /\ merged = None => local[k] = None /\ upstream[k] = None
  BY DEF EditsSurvive
<1>2. base[k] \in Slot /\ local[k] \in Slot /\ upstream[k] \in Slot
  BY DEF Tree
<1>3. Merge(base, local, upstream)[k] = IntegrateSlot(base[k], local[k], upstream[k])
  BY DEF Merge
<1>4. ASSUME local[k] # base[k], upstream[k] # base[k]
      PROVE  /\ Merge(base, local, upstream)[k] \in {local[k], upstream[k]}
             /\ Merge(base, local, upstream)[k] = None
                  => local[k] = None /\ upstream[k] = None
  BY <1>2, <1>3, <1>4, ValueAssumption DEF IntegrateSlot, AddTo, RemoveFrom, Slot
<1> QED
  BY <1>2, <1>3, <1>4, SlotNeutral
=============================================================================
