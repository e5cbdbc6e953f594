------------------------ MODULE AuthorizationProofs ------------------------
(***************************************************************************)
(* Delegated authority, for every set of principals, certificates and      *)
(* claims and every MAX_DEPTH: a proof that the search returns is accepted *)
(* by the service, a claim is denied only if the certificates the listings *)
(* answered with had no chain for it, and what was delegated and retained  *)
(* can be proved again, unless a save that was cut off destroyed a part.   *)
(***************************************************************************)
EXTENDS Authorization, SequenceTheorems, FiniteSetTheorems, TLAPS

(***************************************************************************)
(* The inductive invariants.                                               *)
(***************************************************************************)
\* Stores are finite, and a listing is open only for the path on top.
SearchState ==
    /\ \A p \in Profile : IsFiniteSet(store[p])
    /\ listed # None => /\ phase = "searching" /\ queue # <<>>
                        /\ Top.depth < MaxDepth
                        /\ IsFiniteSet(listed)

\* Each certificate hands what is claimed on to the issuer of the next one,
\* the last one to the principal of the claim.
Linked(chain, request) ==
    \A i \in 1..Len(chain) :
        /\ chain[i].subject \in {request.access.subject, None}
        /\ chain[i].audience = IF i = Len(chain) THEN request.principal
                               ELSE chain[i + 1].issuer
        /\ Verify(chain[i], request.access)
        /\ Covers(chain[i].range, request.duration)

Begins(chain) == {chain[i].range.not_before : i \in DOMAIN chain}
Ends(chain) == {chain[i].range.expiration : i \in DOMAIN chain}

IsLatest(t, S) ==
    \/ t = None /\ S \subseteq {None}
    \/ t \in S \ {None} /\ \A u \in S \ {None} : u <= t
IsEarliest(t, S) ==
    \/ t = None /\ S \subseteq {None}
    \/ t \in S \ {None} /\ \A u \in S \ {None} : t <= u

\* The range a search accumulates is the window of its chain.
Spans(range, chain) ==
    IsLatest(range.not_before, Begins(chain)) /\ IsEarliest(range.expiration, Ends(chain))

\* What a path of the search stands for.
PathSound(path, request) ==
    /\ Linked(path.chain, request)
    /\ path.audience = IF path.chain = <<>> THEN request.principal
                       ELSE path.chain[1].issuer
    /\ Spans(path.range, path.chain)
    /\ path.depth = Len(path.chain)

\* What a proof stands for, unless the principal needs none.
ProofSound(found, request) ==
    /\ found.proofs # <<>> /\ found.proofs[1].issuer = request.access.subject
    /\ Linked(found.proofs, request)
    /\ Spans(found.duration, found.proofs)

SearchSound ==
    /\ phase = "searching" =>
          /\ claim.access.subject \notin {claim.principal, None}
          /\ \A i \in 1..Len(queue) : PathSound(queue[i], claim)
          /\ listed # None =>
                \A c \in listed : c.audience = Top.audience /\ c.subject = claim.access.subject
    /\ phase = "granted" =>
          \/ claim.access.subject \in {claim.principal, None} /\ proof = SelfProof
          \/ ProofSound(proof, claim)

\* A path can still grow into a chain: the chain's end is what it has found.
Suffix(path, chain) ==
    /\ path.depth < Len(chain)
    /\ \A i \in 1..Len(path.chain) :
          path.chain[i] = chain[i + (Len(chain) - path.depth)]

\* The chains of a claim that the search has to take into account.
Chains(certs, request) ==
    {chain \in UNION {[1..n -> certs] : n \in 1..MaxDepth} : IsChain(chain, certs, request)}

\* While the search runs, the queue has a beginning of each chain of the
\* certificates it began with and no listing left out.
SearchCovers ==
    /\ phase = "searching" =>
          /\ \A chain \in Chains(known, claim) :
                \E i \in 1..Len(queue) : Suffix(queue[i], chain)
          /\ listed # None =>
                List(known, Top.audience, claim.access.subject) \subseteq listed
    /\ phase = "denied" =>
          /\ claim.access.subject \notin {claim.principal, None}
          /\ Chains(known, claim) = {}

\* What is left to save of a delegation is the end of a chain whose other
\* certificates its receiver has.
SavingGrant(bundle, n) ==
    /\ saving = SubSeq(bundle, n + 1, Len(bundle))
    /\ \A i \in 1..n : bundle[i] \in Retained(Home[granting.principal])
    /\ bundle # <<>> /\ n < Len(bundle)
    /\ bundle[Len(bundle)].audience = granting.principal
    /\ granting.access.subject # None =>
          /\ bundle[1].issuer = granting.access.subject
          /\ Linked(bundle, granting)
    /\ granting.hops = Len(bundle)

SavingBacked ==
    granting # None =>
        \E bundle \in Seq(Certificate) : \E n \in Nat : SavingGrant(bundle, n)

-----------------------------------------------------------------------------
(***************************************************************************)
(* Types.                                                                  *)
(***************************************************************************)
\* Intersecting or narrowing time ranges (TimeRange::intersect and
\* Delegate::perform) makes time ranges.
LEMMA RangeTypes ==
    ASSUME NEW r \in TimeRange, NEW q \in TimeRange
    PROVE  Intersect(r, q) \in TimeRange /\ Narrowed(r, q) \in TimeRange
  BY DEF TimeRange, Moment, Intersect, Later, Earlier, Narrowed

\* Extending a path by a certificate makes a path.
LEMMA ExtendType ==
    ASSUME NEW path \in Path, NEW cert \in Certificate
    PROVE  Extend(path, cert) \in Path
<1>1. Intersect(path.range, cert.range) \in TimeRange
  BY RangeTypes DEF Path, Certificate
<1>2. path.chain \in Seq(Certificate) /\ path.depth \in Nat /\ cert.issuer \in Did
  BY DEF Path, Certificate
<1>3. <<cert>> \o path.chain \in Seq(Certificate)
  BY <1>2
<1> QED
  BY <1>1, <1>2, <1>3 DEF Path, Extend

\* An order of a finite set is a sequence of all of its members.
LEMMA OrderTypes ==
    ASSUME NEW S, IsFiniteSet(S), NEW order \in Orders(S)
    PROVE  /\ order \in Seq(S)
           /\ \A c \in S : \E i \in 1..Len(order) : order[i] = c
           /\ S # {} => order[1] \in S
<1>1. Cardinality(S) \in Nat
  BY FS_CardinalityType
<1>2. order \in [1..Cardinality(S) -> S]
  BY DEF Orders
<1>3. order \in Seq(S) /\ Len(order) = Cardinality(S)
  BY <1>1, <1>2
<1>4. \A c \in S : \E i \in 1..Len(order) : order[i] = c
  BY <1>3 DEF Orders
<1>5. S # {} => order[1] \in S
  BY <1>1, <1>2, <1>3, <1>4
<1> QED
  BY <1>3, <1>4, <1>5

\* The path on top of a queue that is not empty, and the paths below it.
LEMMA TopTypes ==
    ASSUME queue \in Seq(Path), queue # <<>>
    PROVE  /\ Len(queue) \in Nat \ {0}
           /\ Top \in Path
           /\ Popped \in Seq(Path)
           /\ Len(Popped) = Len(queue) - 1
           /\ \A i \in 1..Len(Popped) : Popped[i] = queue[i]
<1>1. Len(queue) \in Nat \ {0}
  BY EmptySeq
<1>2. Top \in Path
  BY <1>1 DEF Top
<1> DEFINE n == Len(queue) - 1
<1>3. /\ SubSeq(queue, 1, n) \in Seq(Path)
      /\ Len(SubSeq(queue, 1, n)) = n
      /\ \A i \in 1..n : SubSeq(queue, 1, n)[i] = queue[i]
  <2>1. \A i \in 1..n : queue[i] \in Path
    BY <1>1
  <2>2. 1 \in Int /\ n \in Int /\ n \in Nat
    BY <1>1
  <2> HIDE DEF n
  <2>3. /\ SubSeq(queue, 1, n) \in Seq(Path)
        /\ Len(SubSeq(queue, 1, n)) = IF 1 <= n THEN n - 1 + 1 ELSE 0
        /\ \A i \in 1..(n - 1 + 1) : SubSeq(queue, 1, n)[i] = queue[1 + i - 1]
    BY <2>1, <2>2, SubSeqProperties
  <2> QED
    BY <2>2, <2>3
<1> QED
  BY <1>1, <1>2, <1>3 DEF Popped

\* The candidates of a listing: certificates, finitely many.
LEMMA CandidateTypes ==
    ASSUME TypeOK, SearchState, listed # None, NEW found \in Listings(Top.audience, None)
    PROVE  /\ Top \in Path
           /\ claim \in Prove
           /\ Candidates(found) \subseteq Certificate
           /\ Direct(found) \subseteq Candidates(found)
           /\ IsFiniteSet(Candidates(found)) /\ IsFiniteSet(Direct(found))
<1>1. phase = "searching" /\ queue # <<>> /\ listed \subseteq Certificate
  BY DEF SearchState, TypeOK
<1>2. claim \in Prove
  BY <1>1 DEF TypeOK
<1>3. Home[claim.principal] \in Profile
  BY <1>2, HomeAssumption DEF Prove
<1>4. Certs \subseteq Certificate /\ IsFiniteSet(Certs)
  BY <1>3 DEF Certs, TypeOK, SearchState
<1>5. Top \in Path
  BY <1>1, TopTypes DEF TypeOK
<1>6. found \subseteq Certs
  BY DEF List, Listings
<1>7. IsFiniteSet(listed \cup found)
  <2>1. IsFiniteSet(found)
    BY <1>4, <1>6, FS_Subset
  <2>2. IsFiniteSet(listed)
    BY DEF SearchState
  <2> QED
    BY <2>1, <2>2, FS_Union
<1>8. Candidates(found) \subseteq listed \cup found
  BY DEF Candidates
<1>9. Direct(found) \subseteq Candidates(found)
  BY DEF Direct
<1>10. IsFiniteSet(Candidates(found))
  BY <1>7, <1>8, FS_Subset
<1>11. IsFiniteSet(Direct(found))
  BY <1>9, <1>10, FS_Subset
<1> QED
  BY <1>1, <1>2, <1>4, <1>5, <1>6, <1>8, <1>9, <1>10, <1>11

\* The paths that FollowPath puts on the queue.
Followed(order) == [i \in 1..Len(order) |-> Extend(Top, order[i])]

\* The paths a listing extends to are paths, one for each certificate followed.
LEMMA FollowedType ==
    ASSUME TypeOK, SearchState, listed # None, NEW found \in Listings(Top.audience, None),
           NEW order \in Orders(Candidates(found))
    PROVE  /\ Followed(order) \in Seq(Path)
           /\ Len(Followed(order)) = Len(order)
           /\ order \in Seq(Candidates(found))
           /\ Popped \o Followed(order) \in Seq(Path)
<1>1. /\ order \in Seq(Candidates(found)) /\ Top \in Path
      /\ Candidates(found) \subseteq Certificate
  BY CandidateTypes, OrderTypes
<1>2. \A i \in 1..Len(order) : Extend(Top, order[i]) \in Path
  BY <1>1, ExtendType
<1>3. Followed(order) \in Seq(Path) /\ Len(Followed(order)) = Len(order)
  BY <1>1, <1>2 DEF Followed
<1>4. Popped \in Seq(Path)
  BY TopTypes DEF TypeOK, SearchState
<1> QED
  BY <1>1, <1>3, <1>4

\* A listing that leaves something out is counted only up to the bound.
LEMMA CountType ==
    ASSUME TypeOK, NEW audience, NEW subject, NEW found \in Listings(audience, subject),
           Counted(audience, subject, found)
    PROVE  errors' \in 0..MaxErrors
  BY BoundsAssumption DEF TypeOK, Counted, Listings

\* What a search, a delegation and a save do to the types of the state.
LEMMA TypeStep ==
    ASSUME TypeOK, SearchState, [Next]_vars
    PROVE  TypeOK' /\ SearchState'
<1> USE DEF saves, search
<1>1. ASSUME NEW request \in Claims, Request(request)
      PROVE  TypeOK' /\ SearchState'
  <2>1. request \in Prove /\ request # None
    BY ClaimsAssumption, NoneAssumption
  <2>2. Home[request.principal] \in Profile
    BY <2>1, HomeAssumption DEF Prove
  <2>3. SelfProof \in Proof
    BY DEF SelfProof, Proof, Unbounded, TimeRange, Moment
  <2>4. [audience |-> request.principal, chain |-> <<>>,
         range |-> Unbounded, depth |-> 0] \in Path
    BY <2>1 DEF Prove, Path, Unbounded, TimeRange, Moment
  <2>5. queue' \in Seq(Path)
    <3> DEFINE start == [audience |-> request.principal, chain |-> <<>>,
                         range |-> Unbounded, depth |-> 0]
    <3>1. start \in Path
      BY <2>4
    <3>2. queue' = <<>> \/ queue' = <<start>>
      BY <1>1 DEF Request
    <3> HIDE DEF start
    <3>3. <<>> \in Seq(Path) /\ <<start>> \in Seq(Path)
      BY <3>1
    <3> QED
      BY <3>2, <3>3
  <2>6. phase' \in {"searching", "granted"} /\ proof' = SelfProof /\ claim' = request
        /\ known' \subseteq store[Home[request.principal]]
    BY <1>1 DEF Request
  <2>7. TypeOK'
    BY <1>1, <2>1, <2>2, <2>3, <2>5, <2>6 DEF Request, TypeOK
  <2>8. SearchState'
    BY <1>1 DEF Request, SearchState
  <2> QED
    BY <2>7, <2>8
<1>2. CASE AbandonPath
  <2>1. queue' \in Seq(Path)
    BY <1>2, TopTypes DEF AbandonPath, TypeOK
  <2> QED
    BY <1>2, <2>1 DEF AbandonPath, TypeOK, SearchState, Top
<1>3. CASE ListSpecific
  <2>1. claim \in Prove
    BY <1>3 DEF ListSpecific, TypeOK
  <2>2. Home[claim.principal] \in Profile
    BY <2>1, HomeAssumption DEF Prove
  <2>3. Certs \subseteq Certificate /\ IsFiniteSet(Certs)
    BY <2>2 DEF Certs, TypeOK, SearchState
  <2>4. listed' \subseteq Certs /\ known' \subseteq known /\ errors' \in 0..MaxErrors
    BY <1>3, CountType DEF ListSpecific, List, Listings, StillKnown
  <2>5. IsFiniteSet(listed')
    BY <2>3, <2>4, FS_Subset
  <2> QED
    BY <1>3, <2>3, <2>4, <2>5 DEF ListSpecific, TypeOK, SearchState, Top
<1>4. CASE FollowPath
  <2>1. listed # None
    BY <1>4 DEF FollowPath
  <2>2. ASSUME NEW found \in Listings(Top.audience, None),
               NEW order \in Orders(Direct(found)), Direct(found) # {},
               proof' = [proofs |-> Extend(Top, order[1]).chain,
                         duration |-> Extend(Top, order[1]).range]
        PROVE  proof' \in Proof
    <3>1. order[1] \in Certificate
      BY <2>1, <2>2, CandidateTypes, OrderTypes
    <3>2. Extend(Top, order[1]) \in Path
      BY <2>1, <3>1, CandidateTypes, ExtendType
    <3> QED
      BY <2>2, <3>2 DEF Path, Proof
  <2>3. PICK found \in Listings(Top.audience, None) :
          /\ Counted(Top.audience, None, found)
          /\ \/ \E order \in Orders(Direct(found)) :
                   /\ Direct(found) # {}
                   /\ proof' = [proofs |-> Extend(Top, order[1]).chain,
                                duration |-> Extend(Top, order[1]).range]
                   /\ phase' = "granted"
                   /\ queue' = <<>>
                   /\ known' = {}
             \/ \E order \in Orders(Candidates(found)) :
                   /\ queue' = Popped \o Followed(order)
                   /\ known' = StillKnown(Top.audience, None, found)
                   /\ UNCHANGED <<phase, proof>>
    BY <1>4 DEF FollowPath, Followed
  <2>4. listed' = None /\ UNCHANGED <<store, torn, saving, granting, grants, claim>>
    BY <1>4 DEF FollowPath
  <2>9. \/ /\ proof' \in Proof /\ phase' = "granted" /\ queue' = <<>> /\ known' = {}
        \/ /\ queue' \in Seq(Path) /\ known' \subseteq known /\ UNCHANGED <<phase, proof>>
    BY <2>1, <2>2, <2>3, FollowedType DEF StillKnown
  <2>5. <<>> \in Seq(Path) /\ phase # "idle"
    BY <2>1 DEF SearchState
  <2>6. /\ proof' \in Proof /\ queue' \in Seq(Path) /\ known' \subseteq Certificate
        /\ phase' \in {"idle", "searching", "granted", "denied"}
    BY <2>5, <2>9 DEF TypeOK
  <2>10. errors' \in 0..MaxErrors
    BY <2>3, CountType
  <2>7. TypeOK'
    BY <2>4, <2>5, <2>6, <2>10 DEF TypeOK
  <2>8. SearchState'
    BY <2>4 DEF SearchState
  <2> QED
    BY <2>7, <2>8
<1>5. CASE Deny
  BY <1>5 DEF Deny, TypeOK, SearchState
<1>6. CASE SearchFails
  BY <1>6 DEF SearchFails, TypeOK, SearchState
<1>7. ASSUME NEW audience \in Did, Delegate(audience)
      PROVE  TypeOK' /\ SearchState'
  <2>1. claim \in Prove /\ proof \in Proof
    BY <1>7 DEF Delegate, TypeOK
  <2>2. Issued(audience) \in Certificate
    <3>1. Narrowed(proof.duration, claim.duration) \in TimeRange
      BY <2>1, RangeTypes DEF Prove, Proof
    <3> QED
      BY <2>1, <3>1 DEF Issued, Certificate, Prove, Scope
  <2>3. Bundle(audience) \in Seq(Certificate)
    BY <2>1, <2>2 DEF Bundle, Proof
  <2>4. granting' \in Grant
    BY <1>7, <2>1, <2>2, <2>3 DEF Delegate, Grant, Prove, Certificate
  <2>5. saving' \in Seq(Certificate) /\ UNCHANGED <<store, torn, grants, errors, search>>
    BY <1>7, <2>3 DEF Delegate
  <2>6. TypeOK'
    BY <2>4, <2>5 DEF TypeOK
  <2>7. SearchState'
    BY <2>5 DEF SearchState, Top
  <2> QED
    BY <2>6, <2>7
<1>8. ASSUME NEW cert \in Imports, Import(cert)
      PROVE  TypeOK' /\ SearchState'
  <2>1. cert \in Certificate
    BY ImportsAssumption
  <2>2. <<cert>> \in Seq(Certificate)
    BY <2>1
  <2>3. saving' = <<cert>> /\ granting' = None /\ UNCHANGED <<store, torn, grants, errors, search>>
    BY <1>8 DEF Import
  <2>4. TypeOK'
    BY <2>2, <2>3 DEF TypeOK
  <2>5. SearchState'
    BY <2>3 DEF SearchState, Top
  <2> QED
    BY <2>4, <2>5
<1>9. CASE Save
  <2>1. saving \in Seq(Certificate) /\ saving # <<>>
    BY <1>9 DEF Save, TypeOK
  <2>2. Keeper \in Profile
    <3>1. Len(saving) \in 1..Len(saving)
      BY <2>1, EmptySeq
    <3>2. saving[Len(saving)] \in Certificate
      BY <2>1, <3>1
    <3> QED
      BY <3>2, HomeAssumption DEF Keeper, Certificate
  <2>3. Head(saving) \in Certificate /\ Tail(saving) \in Seq(Certificate)
    BY <2>1, HeadTailProperties
  <2>4. store' \in [Profile -> SUBSET Certificate] /\ torn' \in [Profile -> SUBSET Certificate]
    BY <1>9, <2>2, <2>3 DEF Save, TypeOK
  <2>5. \A p \in Profile : IsFiniteSet(store'[p])
    <3> SUFFICES ASSUME NEW p \in Profile PROVE IsFiniteSet(store'[p])
      OBVIOUS
    <3>1. IsFiniteSet(store[p] \cup {Head(saving)})
      BY FS_AddElement DEF SearchState
    <3>2. store'[p] = IF p = Keeper THEN store[p] \cup {Head(saving)} ELSE store[p]
      BY <1>9 DEF Save, TypeOK
    <3> QED
      BY <3>1, <3>2 DEF SearchState
  <2> QED
    BY <1>9, <2>3, <2>4, <2>5 DEF Save, TypeOK, SearchState, Top
<1>10. CASE SaveFails
  <2>1. PICK lost \in SUBSET store[Keeper] :
            /\ store' = [store EXCEPT ![Keeper] = @ \ lost]
            /\ torn' = [torn EXCEPT ![Keeper] = @ \cup lost]
    BY <1>10 DEF SaveFails
  <2>2. Keeper \in Profile
    <3>1. saving \in Seq(Certificate) /\ saving # <<>>
      BY <1>10 DEF SaveFails, TypeOK
    <3>2. saving[Len(saving)] \in Certificate
      BY <3>1, EmptySeq
    <3> QED
      BY <3>2, HomeAssumption DEF Keeper, Certificate
  <2>3. store' \in [Profile -> SUBSET Certificate] /\ torn' \in [Profile -> SUBSET Certificate]
    BY <2>1, <2>2 DEF TypeOK
  <2>4. ASSUME NEW p \in Profile PROVE IsFiniteSet(store'[p])
    <3>1. store'[p] \subseteq store[p]
      BY <2>1 DEF TypeOK
    <3> QED
      BY <3>1, FS_Subset DEF SearchState
  <2>5. errors' \in 0..MaxErrors
    BY <1>10, BoundsAssumption DEF SaveFails, TypeOK
  <2>6. saving' = <<>> /\ granting' = None /\ UNCHANGED <<grants, search>>
    BY <1>10 DEF SaveFails
  <2>7. TypeOK'
    BY <2>3, <2>5, <2>6 DEF TypeOK
  <2>8. SearchState'
    BY <2>4, <2>6 DEF SearchState, Top
  <2> QED
    BY <2>7, <2>8
<1>11. CASE UNCHANGED vars
  BY <1>11 DEF vars, TypeOK, SearchState, Top
<1> QED
  BY <1>1, <1>2, <1>3, <1>4, <1>5, <1>6, <1>7, <1>8, <1>9, <1>10, <1>11 DEF Next, Search

\* The types hold before the first request.
LEMMA TypeInit ==
    ASSUME Init
    PROVE  TypeOK /\ SearchState
<1>1. SelfProof \in Proof
  BY DEF SelfProof, Proof, Unbounded, TimeRange, Moment
<1>2. IsFiniteSet({})
  BY FS_EmptySet
<1> QED
  BY <1>1, <1>2, BoundsAssumption DEF Init, TypeOK, SearchState

\* The stores, the paths and proofs of the search and the delegations being
\* retained have the types of access.rs, for every store and every claim.
THEOREM TypesHold == Spec => []TypeOK
<1>1. Init => TypeOK /\ SearchState
  BY TypeInit
<1>2. TypeOK /\ SearchState /\ [Next]_vars => (TypeOK /\ SearchState)'
  BY TypeStep
<1> QED
  BY <1>1, <1>2, PTL DEF Spec

-----------------------------------------------------------------------------
(***************************************************************************)
(* Windows.  The range that a search intersects step by step is the window *)
(* that the service computes from the whole chain.                         *)
(***************************************************************************)
\* TimeRange::intersect keeps the latest beginning and the earliest end.
LEMMA BoundsAdd ==
    ASSUME NEW S \in SUBSET Moment, NEW t \in Moment, NEW u \in Moment
    PROVE  /\ IsLatest(t, S) => IsLatest(Later(t, u), S \cup {u})
           /\ IsEarliest(t, S) => IsEarliest(Earlier(t, u), S \cup {u})
  BY NoneAssumption DEF Moment, IsLatest, IsEarliest, Later, Earlier

\* There is at most one latest and one earliest moment.
LEMMA BoundsUnique ==
    ASSUME NEW S \in SUBSET Moment, NEW t \in Moment
    PROVE  /\ IsLatest(t, S) => t = Latest(S)
           /\ IsEarliest(t, S) => t = Earliest(S)
<1>1. ASSUME IsLatest(t, S) PROVE t = Latest(S)
  <2>1. CASE S \subseteq {None}
    BY <1>1, <2>1 DEF IsLatest, Latest
  <2>2. CASE ~(S \subseteq {None})
    <3>1. t \in S \ {None} /\ \A u \in S \ {None} : u <= t
      BY <1>1, <2>2 DEF IsLatest
    <3> DEFINE c == CHOOSE v \in S \ {None} : \A u \in S \ {None} : u <= v
    <3>2. c \in S \ {None} /\ \A u \in S \ {None} : u <= c
      BY <3>1
    <3>3. Latest(S) = c
      BY <2>2 DEF Latest
    <3> HIDE DEF c
    <3>4. t \in Nat /\ c \in Nat /\ t <= c /\ c <= t
      BY <3>1, <3>2 DEF Moment
    <3> QED
      BY <3>3, <3>4
  <2> QED
    BY <2>1, <2>2
<1>2. ASSUME IsEarliest(t, S) PROVE t = Earliest(S)
  <2>1. CASE S \subseteq {None}
    BY <1>2, <2>1 DEF IsEarliest, Earliest
  <2>2. CASE ~(S \subseteq {None})
    <3>1. t \in S \ {None} /\ \A u \in S \ {None} : t <= u
      BY <1>2, <2>2 DEF IsEarliest
    <3> DEFINE c == CHOOSE v \in S \ {None} : \A u \in S \ {None} : v <= u
    <3>2. c \in S \ {None} /\ \A u \in S \ {None} : c <= u
      BY <3>1
    <3>3. Earliest(S) = c
      BY <2>2 DEF Earliest
    <3> HIDE DEF c
    <3>4. t \in Nat /\ c \in Nat /\ t <= c /\ c <= t
      BY <3>1, <3>2 DEF Moment
    <3> QED
      BY <3>3, <3>4
  <2> QED
    BY <2>1, <2>2
<1> QED
  BY <1>1, <1>2

\* The moments of a chain of certificates are moments.
LEMMA ChainMoments ==
    ASSUME NEW chain \in Seq(Certificate)
    PROVE  /\ Begins(chain) \subseteq Moment /\ Ends(chain) \subseteq Moment
           /\ \A i \in 1..Len(chain) :
                 chain[i].range.not_before \in Begins(chain)
                 /\ chain[i].range.expiration \in Ends(chain)
<1>1. DOMAIN chain = 1..Len(chain)
  OBVIOUS
<1>2. \A i \in 1..Len(chain) : chain[i] \in Certificate
  OBVIOUS
<1>3. \A i \in 1..Len(chain) :
         chain[i].range.not_before \in Moment /\ chain[i].range.expiration \in Moment
  BY <1>2 DEF Certificate, TimeRange
<1> QED
  BY <1>1, <1>3 DEF Begins, Ends

\* A chain with one more certificate at its beginning.
LEMMA ChainGrows ==
    ASSUME NEW chain \in Seq(Certificate), NEW cert \in Certificate
    PROVE  LET longer == <<cert>> \o chain IN
           /\ longer \in Seq(Certificate) /\ Len(longer) = Len(chain) + 1
           /\ longer # <<>> /\ longer[1] = cert
           /\ \A i \in 2..Len(longer) : longer[i] = chain[i - 1]
           /\ Begins(longer) = Begins(chain) \cup {cert.range.not_before}
           /\ Ends(longer) = Ends(chain) \cup {cert.range.expiration}
<1> DEFINE longer == <<cert>> \o chain
<1>1. longer \in Seq(Certificate) /\ Len(longer) = Len(chain) + 1 /\ Len(chain) \in Nat
  OBVIOUS
<1>2. longer[1] = cert /\ \A i \in 2..Len(longer) : longer[i] = chain[i - 1]
  BY <1>1
<1>3. longer # <<>>
  BY <1>1
<1> HIDE DEF longer
<1>4. \A i \in 1..Len(chain) : i + 1 \in 2..Len(longer) /\ longer[i + 1] = chain[i]
  BY <1>1, <1>2
<1>5. DOMAIN longer = 1..Len(longer) /\ DOMAIN chain = 1..Len(chain)
  BY <1>1
<1>6. Begins(longer) = Begins(chain) \cup {cert.range.not_before}
  <2>1. \A m \in Begins(longer) : m \in Begins(chain) \cup {cert.range.not_before}
    <3> SUFFICES ASSUME NEW i \in 1..Len(longer)
                 PROVE  longer[i].range.not_before \in Begins(chain) \cup {cert.range.not_before}
      BY <1>5 DEF Begins
    <3>1. i = 1 \/ (i \in 2..Len(longer) /\ i - 1 \in DOMAIN chain)
      BY <1>1, <1>5
    <3> QED
      BY <1>2, <3>1 DEF Begins
  <2>2. \A m \in Begins(chain) : m \in Begins(longer)
    BY <1>1, <1>4, <1>5 DEF Begins
  <2>3. cert.range.not_before \in Begins(longer)
    BY <1>1, <1>2, <1>5 DEF Begins
  <2> QED
    BY <2>1, <2>2, <2>3
<1>7. Ends(longer) = Ends(chain) \cup {cert.range.expiration}
  <2>1. \A m \in Ends(longer) : m \in Ends(chain) \cup {cert.range.expiration}
    <3> SUFFICES ASSUME NEW i \in 1..Len(longer)
                 PROVE  longer[i].range.expiration \in Ends(chain) \cup {cert.range.expiration}
      BY <1>5 DEF Ends
    <3>1. i = 1 \/ (i \in 2..Len(longer) /\ i - 1 \in DOMAIN chain)
      BY <1>1, <1>5
    <3> QED
      BY <1>2, <3>1 DEF Ends
  <2>2. \A m \in Ends(chain) : m \in Ends(longer)
    BY <1>1, <1>4, <1>5 DEF Ends
  <2>3. cert.range.expiration \in Ends(longer)
    BY <1>1, <1>2, <1>5 DEF Ends
  <2> QED
    BY <2>1, <2>2, <2>3
<1> QED
  BY <1>1, <1>2, <1>3, <1>6, <1>7 DEF longer

\* The range of a sound path or proof is the window of its chain.
LEMMA SpansWindow ==
    ASSUME NEW chain \in Seq(Certificate), NEW range \in TimeRange, Spans(range, chain)
    PROVE  Window(chain) = range
<1>1. range.not_before \in Moment /\ range.expiration \in Moment
  BY DEF TimeRange
<1>2. Begins(chain) \in SUBSET Moment /\ Ends(chain) \in SUBSET Moment
  BY ChainMoments
<1>3. range.not_before = Latest(Begins(chain)) /\ range.expiration = Earliest(Ends(chain))
  BY <1>1, <1>2, BoundsUnique DEF Spans
<1>4. range = [not_before |-> range.not_before, expiration |-> range.expiration]
  BY DEF TimeRange
<1> QED
  BY <1>3, <1>4 DEF Window, Begins, Ends

\* A range that spans a chain covers every time that each certificate covers.
LEMMA SpansCovers ==
    ASSUME NEW chain \in Seq(Certificate), NEW range \in TimeRange, Spans(range, chain),
           NEW required \in TimeRange,
           \A i \in 1..Len(chain) : Covers(chain[i].range, required)
    PROVE  Covers(range, required)
<1>1. ASSUME required.not_before # None, range.not_before # None
      PROVE  range.not_before <= required.not_before
  <2>1. PICK i \in DOMAIN chain : range.not_before = chain[i].range.not_before
    BY <1>1 DEF Spans, IsLatest, Begins
  <2> QED
    BY <1>1, <2>1 DEF Covers
<1>2. ASSUME required.expiration # None, range.expiration # None
      PROVE  range.expiration >= required.expiration
  <2>1. PICK i \in DOMAIN chain : range.expiration = chain[i].range.expiration
    BY <1>2 DEF Spans, IsEarliest, Ends
  <2> QED
    BY <1>2, <2>1 DEF Covers
<1> QED
  BY <1>1, <1>2 DEF Covers

\* A certificate that verifies and covers the claim extends a sound path to a
\* sound path.
LEMMA ExtendSound ==
    ASSUME NEW path \in Path, NEW cert \in Certificate, NEW request \in Prove,
           PathSound(path, request), cert.audience = path.audience,
           cert.subject \in {request.access.subject, None},
           Verify(cert, request.access), Covers(cert.range, request.duration)
    PROVE  PathSound(Extend(path, cert), request)
<1> DEFINE longer == <<cert>> \o path.chain
<1>1. path.chain \in Seq(Certificate) /\ path.range \in TimeRange /\ Len(path.chain) \in Nat
  BY DEF Path
<1>2. /\ longer \in Seq(Certificate) /\ Len(longer) = Len(path.chain) + 1
      /\ longer # <<>> /\ longer[1] = cert
      /\ \A i \in 2..Len(longer) : longer[i] = path.chain[i - 1]
      /\ Begins(longer) = Begins(path.chain) \cup {cert.range.not_before}
      /\ Ends(longer) = Ends(path.chain) \cup {cert.range.expiration}
  BY <1>1, ChainGrows
<1>3. /\ Extend(path, cert).chain = longer /\ Extend(path, cert).audience = cert.issuer
      /\ Extend(path, cert).range = Intersect(path.range, cert.range)
      /\ Extend(path, cert).depth = path.depth + 1
  BY DEF Extend
<1> HIDE DEF longer
<1>4. path.chain = <<>> <=> Len(path.chain) = 0
  BY <1>1, EmptySeq
<1>5. ASSUME NEW i \in 1..Len(longer)
      PROVE  /\ longer[i].subject \in {request.access.subject, None}
             /\ longer[i].audience = IF i = Len(longer) THEN request.principal
                                     ELSE longer[i + 1].issuer
             /\ Verify(longer[i], request.access)
             /\ Covers(longer[i].range, request.duration)
  <2>1. CASE i = 1
    <3>1. CASE path.chain = <<>>
      BY <1>1, <1>2, <1>4, <2>1, <3>1 DEF PathSound
    <3>2. CASE path.chain # <<>>
      <4>1. Len(longer) # 1 /\ longer[2] = path.chain[1]
        <5>1. Len(path.chain) # 0 /\ Len(longer) = Len(path.chain) + 1
          BY <1>2, <1>4, <3>2
        <5>2. 2 \in 2..Len(longer) /\ Len(longer) # 1 /\ 2 - 1 = 1
          BY <1>1, <5>1
        <5> QED
          BY <1>2, <5>2
      <4>2. path.audience = path.chain[1].issuer
        BY <3>2 DEF PathSound
      <4> QED
        BY <1>2, <2>1, <4>1, <4>2
    <3> QED
      BY <3>1, <3>2
  <2>2. CASE i # 1
    <3>1. i - 1 \in 1..Len(path.chain) /\ longer[i] = path.chain[i - 1]
      BY <1>1, <1>2, <2>2
    <3>2. i = Len(longer) <=> i - 1 = Len(path.chain)
      BY <1>1, <1>2
    <3>3. i # Len(longer) => longer[i + 1] = path.chain[i] /\ (i - 1) + 1 = i
      BY <1>1, <1>2
    <3>4. /\ path.chain[i - 1].subject \in {request.access.subject, None}
          /\ path.chain[i - 1].audience = IF i - 1 = Len(path.chain) THEN request.principal
                                          ELSE path.chain[(i - 1) + 1].issuer
          /\ Verify(path.chain[i - 1], request.access)
          /\ Covers(path.chain[i - 1].range, request.duration)
      BY <3>1 DEF PathSound, Linked
    <3> QED
      BY <3>1, <3>2, <3>3, <3>4
  <2> QED
    BY <2>1, <2>2
<1>6. Linked(longer, request)
  BY <1>5 DEF Linked
<1>7. Spans(Intersect(path.range, cert.range), longer)
  <2>1. /\ Begins(path.chain) \in SUBSET Moment /\ Ends(path.chain) \in SUBSET Moment
        /\ path.range.not_before \in Moment /\ path.range.expiration \in Moment
        /\ cert.range.not_before \in Moment /\ cert.range.expiration \in Moment
    BY <1>1, ChainMoments DEF Certificate, TimeRange
  <2>2. /\ IsLatest(path.range.not_before, Begins(path.chain))
        /\ IsEarliest(path.range.expiration, Ends(path.chain))
    BY DEF PathSound, Spans
  <2>3. IsLatest(Later(path.range.not_before, cert.range.not_before),
                 Begins(path.chain) \cup {cert.range.not_before})
    BY <2>1, <2>2, BoundsAdd
  <2>4. IsEarliest(Earlier(path.range.expiration, cert.range.expiration),
                   Ends(path.chain) \cup {cert.range.expiration})
    BY <2>1, <2>2, BoundsAdd
  <2> QED
    BY <1>2, <2>3, <2>4 DEF Spans, Intersect
<1>8. path.depth + 1 = Len(longer)
  BY <1>2 DEF PathSound
<1> QED
  BY <1>2, <1>3, <1>6, <1>7, <1>8 DEF PathSound

-----------------------------------------------------------------------------
(***************************************************************************)
(* What is found is a chain of the claim.                                  *)
(***************************************************************************)
\* A candidate extends the path on top to a sound path.
LEMMA CandidateSound ==
    ASSUME TypeOK, SearchState, SearchSound, listed # None,
           NEW found \in Listings(Top.audience, None), NEW c \in Candidates(found)
    PROVE  PathSound(Extend(Top, c), claim)
<1>1. phase = "searching" /\ queue # <<>>
  BY DEF SearchState
<1>2. Top \in Path /\ c \in Certificate /\ claim \in Prove
  BY CandidateTypes
<1>3. PathSound(Top, claim)
  BY <1>1, TopTypes DEF TypeOK, SearchSound, Top
<1>4. /\ c.audience = Top.audience /\ c.subject \in {claim.access.subject, None}
      /\ Verify(c, claim.access) /\ Covers(c.range, claim.duration)
  BY <1>1 DEF SearchSound, Candidates, List, Listings
<1> QED
  BY <1>2, <1>3, <1>4, ExtendSound

\* An empty chain is linked, and spanned by the unbounded range.
LEMMA EmptySound ==
    ASSUME NEW request
    PROVE  Linked(<<>>, request) /\ Spans(Unbounded, <<>>)
  BY DEF Linked, Spans, IsLatest, IsEarliest, Begins, Ends, Unbounded

\* Every step of a search keeps its paths linked and its range their window.
LEMMA SoundStep ==
    ASSUME TypeOK, SearchState, SearchSound, [Next]_vars
    PROVE  SearchSound'
<1> USE DEF saves, search
<1>1. ASSUME NEW request \in Claims, Request(request)
      PROVE  SearchSound'
  <2>1. CASE request.access.subject \in {request.principal, None}
    BY <1>1, <2>1 DEF Request, SearchSound
  <2>2. CASE request.access.subject \notin {request.principal, None}
    <3> DEFINE start == [audience |-> request.principal, chain |-> <<>>,
                         range |-> Unbounded, depth |-> 0]
    <3>1. phase' = "searching" /\ claim' = request /\ queue' = <<start>> /\ listed' = None
      BY <1>1, <2>2 DEF Request
    <3>2. PathSound(start, request)
      BY EmptySound DEF PathSound
    <3> HIDE DEF start
    <3>3. \A i \in 1..Len(<<start>>) : <<start>>[i] = start
      OBVIOUS
    <3> QED
      BY <2>2, <3>1, <3>2, <3>3 DEF SearchSound
  <2> QED
    BY <2>1, <2>2
<1>2. CASE AbandonPath
  <2>1. /\ Len(Popped) = Len(queue) - 1 /\ Len(queue) \in Nat
        /\ \A i \in 1..Len(Popped) : Popped[i] = queue[i]
    BY <1>2, TopTypes DEF AbandonPath, TypeOK
  <2>2. queue' = Popped /\ listed' = None /\ UNCHANGED <<phase, claim, proof>>
    BY <1>2 DEF AbandonPath
  <2>3. \A i \in 1..Len(Popped) : i \in 1..Len(queue)
    BY <2>1
  <2> QED
    BY <2>1, <2>2, <2>3 DEF SearchSound
<1>3. CASE ListSpecific
  <2>1. \A c \in listed' : c.audience = Top.audience /\ c.subject = claim.access.subject
    BY <1>3 DEF ListSpecific, List, Listings
  <2>2. UNCHANGED <<phase, claim, queue, proof>> /\ phase = "searching"
    BY <1>3 DEF ListSpecific
  <2> QED
    BY <2>1, <2>2 DEF SearchSound, Top
<1>4. CASE FollowPath
  <2>1. listed # None /\ phase = "searching" /\ listed' = None /\ claim' = claim
    BY <1>4 DEF FollowPath
  <2>2. ASSUME NEW found \in Listings(Top.audience, None),
               NEW order \in Orders(Direct(found)), Direct(found) # {},
               proof' = [proofs |-> Extend(Top, order[1]).chain,
                         duration |-> Extend(Top, order[1]).range],
               phase' = "granted"
        PROVE  SearchSound'
    <3>1. order[1] \in Direct(found)
      BY <2>1, <2>2, CandidateTypes, OrderTypes
    <3>2. PathSound(Extend(Top, order[1]), claim)
      BY <2>1, <3>1, CandidateTypes, CandidateSound
    <3>3. Extend(Top, order[1]).audience = claim.access.subject
      BY <3>1 DEF Direct, Extend
    <3>4. Extend(Top, order[1]).chain # <<>>
      <4>1. Top \in Path /\ order[1] \in Certificate
        BY <2>1, <3>1, CandidateTypes
      <4> QED
        BY <4>1, ChainGrows DEF Extend, Path
    <3>5. ProofSound(proof', claim)
      BY <2>2, <3>2, <3>3, <3>4 DEF ProofSound, PathSound
    <3> QED
      BY <2>1, <2>2, <3>5 DEF SearchSound
  <2>3. ASSUME NEW found \in Listings(Top.audience, None),
               NEW order \in Orders(Candidates(found)),
               queue' = Popped \o Followed(order), UNCHANGED <<phase, proof>>
        PROVE  SearchSound'
    <3>1. /\ Followed(order) \in Seq(Path) /\ Len(Followed(order)) = Len(order)
          /\ order \in Seq(Candidates(found))
      BY <2>1, FollowedType
    <3>2. /\ Popped \in Seq(Path) /\ Len(Popped) = Len(queue) - 1 /\ Len(queue) \in Nat
          /\ \A i \in 1..Len(Popped) : Popped[i] = queue[i]
      BY <2>1, TopTypes DEF TypeOK, SearchState
    <3>3. \A i \in 1..Len(Popped) : PathSound(Popped[i], claim)
      BY <2>1, <3>2 DEF SearchSound
    <3>4. \A i \in 1..Len(Followed(order)) : PathSound(Followed(order)[i], claim)
      BY <2>1, <3>1, CandidateSound DEF Followed
    <3>5. ASSUME NEW i \in 1..Len(queue') PROVE PathSound(queue'[i], claim)
      <4> DEFINE more == Followed(order)
      <4>1. /\ Len(queue') = Len(Popped) + Len(more)
            /\ queue'[i] = IF i <= Len(Popped) THEN Popped[i] ELSE more[i - Len(Popped)]
        <5>1. more \in Seq(Path) /\ Popped \in Seq(Path) /\ queue' = Popped \o more
          BY <2>3, <3>1, <3>2
        <5> HIDE DEF more
        <5>2. /\ Len(Popped \o more) = Len(Popped) + Len(more)
              /\ \A j \in 1..(Len(Popped) + Len(more)) : (Popped \o more)[j] =
                    IF j <= Len(Popped) THEN Popped[j] ELSE more[j - Len(Popped)]
          BY <5>1, ConcatProperties
        <5> QED
          BY <5>1, <5>2
      <4>2. i <= Len(Popped) \/ i - Len(Popped) \in 1..Len(more)
        <5> HIDE DEF more
        <5> QED
          BY <3>1, <3>2, <4>1 DEF more
      <4>3. i <= Len(Popped) => i \in 1..Len(Popped)
        BY <3>2
      <4> QED
        BY <3>3, <3>4, <4>1, <4>2, <4>3
    <3> QED
      BY <2>1, <2>3, <3>5 DEF SearchSound
  <2> QED
    BY <1>4, <2>2, <2>3 DEF FollowPath, Followed
<1>5. CASE Deny
  BY <1>5 DEF Deny, SearchSound
<1>6. CASE SearchFails
  BY <1>6 DEF SearchFails, SearchSound
<1>7. CASE UNCHANGED search
  BY <1>7 DEF SearchSound, Top
<1> QED
  BY <1>1, <1>2, <1>3, <1>4, <1>5, <1>6, <1>7
     DEF Next, Search, Delegate, Import, Save, SaveFails, vars

\* A sound proof passes every check of the service but that of the window.
LEMMA LinkedChecks ==
    ASSUME NEW chain \in Seq(Certificate), NEW request \in Prove,
           request.access.subject # None,
           chain # <<>>, chain[1].issuer = request.access.subject, Linked(chain, request)
    PROVE  SyntacticChecks(Invocation(request), chain) <=> IsValid(Window(chain))
<1> DEFINE invocation == Invocation(request)
<1>1. /\ invocation.subject = request.access.subject
      /\ invocation.command = request.access.command
      /\ invocation.issuer = request.principal
      /\ invocation.arguments = request.access.parameters
  BY DEF Invocation
<1>2. Len(chain) \in Nat /\ Len(chain) # 0
  BY EmptySeq
<1>3. ASSUME NEW i \in 1..Len(chain)
      PROVE  /\ ResolvedSubject(chain, i, invocation.subject) = invocation.subject
             /\ chain[i].issuer = IF i = 1 THEN invocation.subject ELSE chain[i - 1].audience
             /\ StartsWith(invocation.command, chain[i].command)
             /\ chain[i].policy \subseteq invocation.arguments
  <2>1. chain[i].subject \in {request.access.subject, None} /\ Verify(chain[i], request.access)
    BY DEF Linked
  <2>2. ResolvedSubject(chain, i, request.access.subject) = request.access.subject
    BY <2>1 DEF ResolvedSubject
  <2>3. i # 1 => chain[i].issuer = chain[i - 1].audience
    <3> SUFFICES ASSUME i # 1 PROVE chain[i].issuer = chain[i - 1].audience
      OBVIOUS
    <3>1. i - 1 \in 1..Len(chain) /\ i - 1 # Len(chain) /\ (i - 1) + 1 = i
      BY <1>2
    <3>2. chain[i - 1].audience = chain[(i - 1) + 1].issuer
      BY <3>1 DEF Linked
    <3> QED
      BY <3>1, <3>2
  <2> QED
    BY <1>1, <2>1, <2>2, <2>3 DEF Verify
<1>4. chain[Len(chain)].audience = request.principal
  <2>1. Len(chain) \in 1..Len(chain)
    BY <1>2
  <2> QED
    BY <2>1 DEF Linked
<1> HIDE DEF invocation
<1>5. SyntacticChecks(invocation, chain) <=> IsValid(Window(chain))
  BY <1>1, <1>3, <1>4 DEF SyntacticChecks
<1> QED
  BY <1>5 DEF invocation

\* A linked chain whose range is its window passes the service's checks.
LEMMA SoundVerifies ==
    ASSUME TypeOK, SearchSound
    PROVE  ProofsVerify
<1> SUFFICES ASSUME phase = "granted", claim.access.subject # None
             PROVE  /\ SyntacticChecks(Invocation(claim), proof.proofs) <=> IsValid(proof.duration)
                    /\ (/\ None \notin {claim.duration.not_before, claim.duration.expiration}
                        /\ IsValid(claim.duration)) => IsValid(proof.duration)
                    /\ Covers(proof.duration, claim.duration)
  BY DEF ProofsVerify
<1>1. /\ claim \in Prove /\ claim.duration \in TimeRange
      /\ proof.proofs \in Seq(Certificate) /\ proof.duration \in TimeRange
  BY DEF TypeOK, Prove, Proof
<1>2. CASE claim.access.subject = claim.principal /\ proof = SelfProof
  <2>1. proof.proofs = <<>> /\ proof.duration = Unbounded
    BY <1>2 DEF SelfProof
  <2>2. Window(<<>>) = Unbounded
    BY DEF Window, Latest, Earliest, Unbounded
  <2>3. IsValid(Unbounded) /\ Covers(Unbounded, claim.duration)
    BY DEF IsValid, Covers, Unbounded
  <2>4. SyntacticChecks(Invocation(claim), <<>>)
    BY <1>2, <2>2, <2>3 DEF SyntacticChecks, Invocation
  <2> QED
    BY <2>1, <2>3, <2>4
<1>3. CASE ProofSound(proof, claim)
  <2>1. Window(proof.proofs) = proof.duration
    BY <1>1, <1>3, SpansWindow DEF ProofSound
  <2>2. SyntacticChecks(Invocation(claim), proof.proofs) <=> IsValid(proof.duration)
    BY <1>1, <1>3, <2>1, LinkedChecks DEF ProofSound
  <2>3. Covers(proof.duration, claim.duration)
    BY <1>1, <1>3, SpansCovers DEF ProofSound, Linked
  <2>4. ASSUME None \notin {claim.duration.not_before, claim.duration.expiration},
               IsValid(claim.duration)
        PROVE  IsValid(proof.duration)
    BY <1>1, <2>3, <2>4 DEF IsValid, Covers, TimeRange, Moment
  <2> QED
    BY <2>2, <2>3, <2>4
<1> QED
  BY <1>2, <1>3 DEF SearchSound

\* No path is open before the first request.
LEMMA SoundInit ==
    ASSUME Init
    PROVE  SearchSound
  BY DEF Init, SearchSound

\* What CertificateStore::prove grants, syntactic_checks accept as soon as the
\* certificates have a common moment, for every store, claim and depth.
THEOREM ProofsHold == Spec => []ProofsVerify
<1> DEFINE Inv == TypeOK /\ SearchState /\ SearchSound
<1>1. Init => Inv
  BY TypeInit, SoundInit
<1>2. Inv /\ [Next]_vars => Inv'
  BY TypeStep, SoundStep
<1>3. Inv => ProofsVerify
  BY SoundVerifies
<1> QED
  BY <1>1, <1>2, <1>3, PTL DEF Spec

-----------------------------------------------------------------------------
(***************************************************************************)
(* What is there is found.                                                 *)
(***************************************************************************)
\* A chain of a claim is a sequence of certificates, at most MAX_DEPTH long.
LEMMA ChainTypes ==
    ASSUME NEW certs, NEW request, NEW chain \in Chains(certs, request)
    PROVE  /\ chain \in Seq(certs) /\ Len(chain) \in 1..MaxDepth
           /\ IsChain(chain, certs, request)
<1>1. PICK n \in 1..MaxDepth : chain \in [1..n -> certs]
  BY DEF Chains
<1>2. n \in Nat
  BY BoundsAssumption
<1>3. chain \in Seq(certs) /\ Len(chain) = n
  BY <1>1, <1>2
<1> QED
  BY <1>1, <1>3 DEF Chains

\* The certificate that takes a beginning of a chain one step further.
LEMMA NextOfChain ==
    ASSUME NEW certs \in SUBSET Certificate, NEW request \in Prove,
           NEW chain \in Chains(certs, request),
           NEW path \in Path, PathSound(path, request), Suffix(path, chain)
    PROVE  \E c \in certs :
              /\ c.audience = path.audience /\ c.subject \in {request.access.subject, None}
              /\ Verify(c, request.access) /\ Covers(c.range, request.duration)
              /\ c.issuer # request.access.subject => Suffix(Extend(path, c), chain)
<1>1. /\ chain \in Seq(certs) /\ Len(chain) \in 1..MaxDepth
      /\ IsChain(chain, certs, request)
  BY ChainTypes
<1>2. /\ path.chain \in Seq(Certificate) /\ path.depth = Len(path.chain)
      /\ Len(path.chain) \in Nat /\ path.depth < Len(chain)
  BY DEF Path, PathSound, Suffix
<1> DEFINE at == Len(chain) - path.depth
           c == chain[at]
<1>3. at \in 1..Len(chain)
  BY <1>1, <1>2
<1>4. c \in certs
  BY <1>1, <1>3
<1>5. /\ c.subject \in {request.access.subject, None}
      /\ c.audience = IF at = Len(chain) THEN request.principal ELSE chain[at + 1].issuer
      /\ Verify(c, request.access) /\ Covers(c.range, request.duration)
  BY <1>1, <1>3 DEF IsChain
<1>6. c.audience = path.audience
  <2>1. CASE path.chain = <<>>
    BY <1>1, <1>2, <1>5, <2>1, EmptySeq DEF PathSound
  <2>2. CASE path.chain # <<>>
    <3>1. 1 \in 1..Len(path.chain) /\ at # Len(chain) /\ at + 1 = 1 + at
      BY <1>1, <1>2, <2>2, EmptySeq
    <3>2. path.chain[1] = chain[1 + at]
      BY <3>1 DEF Suffix
    <3>3. path.audience = path.chain[1].issuer
      BY <2>2 DEF PathSound
    <3> QED
      BY <1>5, <3>1, <3>2, <3>3
  <2> QED
    BY <2>1, <2>2
<1>7. ASSUME c.issuer # request.access.subject PROVE Suffix(Extend(path, c), chain)
  <2>1. at # 1
    BY <1>1, <1>7 DEF IsChain
  <2>2. path.depth + 1 < Len(chain)
    BY <1>1, <1>2, <1>3, <2>1
  <2> DEFINE longer == <<c>> \o path.chain
  <2>3. /\ Len(longer) = Len(path.chain) + 1 /\ longer[1] = c
        /\ \A i \in 2..Len(longer) : longer[i] = path.chain[i - 1]
    <3>1. c \in Certificate
      BY <1>4
    <3> HIDE DEF c
    <3> QED
      BY <1>2, <3>1, ChainGrows
  <2>4. /\ Extend(path, c).chain = longer /\ Extend(path, c).depth = path.depth + 1
    BY DEF Extend
  <2> HIDE DEF longer
  <2>5. ASSUME NEW i \in 1..Len(longer)
        PROVE  longer[i] = chain[i + (Len(chain) - (path.depth + 1))]
    <3>1. CASE i = 1
      <4>1. i + (Len(chain) - (path.depth + 1)) = at
        BY <1>1, <1>2, <3>1
      <4> QED
        BY <2>3, <3>1, <4>1
    <3>2. CASE i # 1
      <4>1. i \in 2..Len(longer) /\ i - 1 \in 1..Len(path.chain)
        BY <1>2, <2>3, <3>2
      <4>2. path.chain[i - 1] = chain[(i - 1) + (Len(chain) - path.depth)]
        BY <4>1 DEF Suffix
      <4>3. (i - 1) + (Len(chain) - path.depth) = i + (Len(chain) - (path.depth + 1))
        BY <1>1, <1>2
      <4> QED
        BY <2>3, <4>1, <4>2, <4>3
    <3> QED
      BY <3>1, <3>2
  <2> QED
    BY <2>2, <2>4, <2>5 DEF Suffix
<1> HIDE DEF c
<1> QED
  BY <1>4, <1>5, <1>6, <1>7

\* A chain of some certificates is a chain of more.
LEMMA ChainsOfFewer ==
    ASSUME NEW certs, NEW more, certs \subseteq more, NEW request
    PROVE  Chains(certs, request) \subseteq Chains(more, request)
<1> SUFFICES ASSUME NEW chain \in Chains(certs, request)
             PROVE  chain \in Chains(more, request)
  OBVIOUS
<1>1. PICK n \in 1..MaxDepth : chain \in [1..n -> certs]
  BY DEF Chains
<1>2. chain \in [1..n -> more]
  BY <1>1
<1>3. IsChain(chain, more, request)
  BY DEF Chains, IsChain
<1> QED
  BY <1>2, <1>3 DEF Chains

\* FollowPath puts the next beginning of a chain on the queue in place of the
\* one it takes off, unless the chain's root is among the candidates.
LEMMA FollowCovers ==
    ASSUME TypeOK, SearchState, SearchSound, SearchCovers, listed # None,
           NEW found \in Listings(Top.audience, None), Direct(found) = {},
           NEW order \in Orders(Candidates(found)),
           NEW chain \in Chains(StillKnown(Top.audience, None, found), claim)
    PROVE  LET next == Popped \o Followed(order) IN
           \E i \in 1..Len(next) : Suffix(next[i], chain)
<1> DEFINE more == Followed(order)
<1>1. phase = "searching" /\ queue # <<>>
  BY DEF SearchState
<1>2. /\ more \in Seq(Path) /\ Len(more) = Len(order)
      /\ order \in Seq(Candidates(found))
  BY FollowedType
<1>3. /\ Popped \in Seq(Path) /\ Len(Popped) = Len(queue) - 1 /\ Len(queue) \in Nat \ {0}
      /\ \A i \in 1..Len(Popped) : Popped[i] = queue[i]
  BY <1>1, TopTypes DEF TypeOK
<1>4. \A i \in 1..Len(order) : more[i] = Extend(Top, order[i])
  BY DEF Followed
<1> HIDE DEF more
<1> DEFINE next == Popped \o more
<1>5. /\ Len(next) = Len(Popped) + Len(more)
      /\ \A i \in 1..(Len(Popped) + Len(more)) :
            next[i] = IF i <= Len(Popped) THEN Popped[i] ELSE more[i - Len(Popped)]
  BY <1>2, <1>3, ConcatProperties
<1> HIDE DEF next
<1>9. chain \in Chains(known, claim)
  BY ChainsOfFewer DEF StillKnown
<1>6. PICK i \in 1..Len(queue) : Suffix(queue[i], chain)
  BY <1>1, <1>9 DEF SearchCovers
<1>7. CASE i # Len(queue)
  <2>1. i \in 1..Len(Popped) /\ i \in 1..Len(next)
    BY <1>2, <1>3, <1>5, <1>7
  <2>2. next[i] = queue[i]
    BY <1>2, <1>3, <1>5, <2>1
  <2> QED
    BY <1>6, <2>1, <2>2 DEF next, more
<1>8. CASE i = Len(queue)
  <2>1. Top \in Path /\ claim \in Prove /\ Candidates(found) \subseteq Certificate
    BY CandidateTypes
  <2>2. PathSound(Top, claim) /\ Suffix(Top, chain)
    BY <1>1, <1>3, <1>6, <1>8 DEF SearchSound, Top
  <2>3. StillKnown(Top.audience, None, found) \in SUBSET Certificate
    BY DEF TypeOK, StillKnown
  <2>4. PICK c \in StillKnown(Top.audience, None, found) :
              /\ c.audience = Top.audience /\ c.subject \in {claim.access.subject, None}
              /\ Verify(c, claim.access) /\ Covers(c.range, claim.duration)
              /\ c.issuer # claim.access.subject => Suffix(Extend(Top, c), chain)
    BY <2>1, <2>2, <2>3, NextOfChain
  <2>5. c \in Candidates(found)
    <3>1. c \in listed \cup found
      BY <1>1, <2>4 DEF SearchCovers, List, StillKnown
    <3> QED
      BY <2>4, <3>1 DEF Candidates
  <2>6. Suffix(Extend(Top, c), chain)
    BY <2>4, <2>5 DEF Direct
  <2>7. PICK j \in 1..Len(order) : order[j] = c
    BY <2>5, CandidateTypes, OrderTypes
  <2>8. Len(Popped) + j \in 1..Len(next) /\ next[Len(Popped) + j] = more[j]
    <3>1. Len(Popped) \in Nat /\ Len(more) \in Nat /\ j \in 1..Len(more)
      BY <1>2, <1>3, <2>7
    <3>2. /\ Len(Popped) + j \in 1..(Len(Popped) + Len(more))
          /\ ~(Len(Popped) + j <= Len(Popped))
          /\ (Len(Popped) + j) - Len(Popped) = j
      BY <3>1
    <3> QED
      BY <1>5, <3>2
  <2>9. more[j] = Extend(Top, c)
    BY <1>4, <2>7
  <2> QED
    BY <2>6, <2>8, <2>9 DEF next, more
<1> QED
  BY <1>7, <1>8

\* Every step keeps, for each chain the store had at the request and of which no
\* listing left a certificate out, a path that can grow into it.
LEMMA CoversStep ==
    ASSUME TypeOK, SearchState, SearchSound, SearchCovers, [Next]_vars
    PROVE  SearchCovers'
<1> USE DEF saves, search
<1>1. ASSUME NEW request \in Claims, Request(request)
      PROVE  SearchCovers'
  <2>1. CASE request.access.subject \in {request.principal, None}
    BY <1>1, <2>1 DEF Request, SearchCovers
  <2>2. CASE request.access.subject \notin {request.principal, None}
    <3> DEFINE start == [audience |-> request.principal, chain |-> <<>>,
                         range |-> Unbounded, depth |-> 0]
    <3>1. /\ phase' = "searching" /\ claim' = request /\ queue' = <<start>> /\ listed' = None
          /\ known' = store[Home[request.principal]] /\ store' = store
      BY <1>1, <2>2 DEF Request
    <3>2. ASSUME NEW chain \in Chains(known', claim') PROVE Suffix(start, chain)
      <4>1. Len(chain) \in 1..MaxDepth
        BY ChainTypes
      <4> QED
        BY <4>1, BoundsAssumption DEF Suffix
    <3> HIDE DEF start
    <3>3. 1 \in 1..Len(<<start>>) /\ <<start>>[1] = start
      OBVIOUS
    <3>4. \A chain \in Chains(known', claim') :
             \E i \in 1..Len(queue') : Suffix(queue'[i], chain)
      BY <3>1, <3>2, <3>3
    <3>6. Chains(known, claim)' = Chains(known', claim')
      BY DEF Chains, IsChain, Verify, StartsWith, Covers
    <3> QED
      BY <3>1, <3>4, <3>6 DEF SearchCovers
  <2> QED
    BY <2>1, <2>2
<1>2. CASE AbandonPath
  <2>1. /\ Len(Popped) = Len(queue) - 1 /\ Len(queue) \in Nat \ {0}
        /\ \A i \in 1..Len(Popped) : Popped[i] = queue[i]
    BY <1>2, TopTypes DEF AbandonPath, TypeOK
  <2>2. /\ queue' = Popped /\ listed' = None /\ UNCHANGED <<store, phase, claim, known>>
        /\ phase = "searching" /\ Top.depth >= MaxDepth
    BY <1>2 DEF AbandonPath
  <2>3. ASSUME NEW chain \in Chains(known, claim)
        PROVE  \E i \in 1..Len(Popped) : Suffix(Popped[i], chain)
    <3>1. PICK i \in 1..Len(queue) : Suffix(queue[i], chain)
      BY <2>2 DEF SearchCovers
    <3>2. Top \in Path /\ queue # <<>>
      BY <1>2, TopTypes DEF AbandonPath, TypeOK
    <3>3. i # Len(queue)
      <4> SUFFICES ASSUME i = Len(queue) PROVE FALSE
        OBVIOUS
      <4>1. Top.depth < Len(chain) /\ Len(chain) \in 1..MaxDepth /\ Top.depth \in Nat
        BY <3>1, <3>2, ChainTypes DEF Suffix, Top, Path
      <4> QED
        BY <2>2, <4>1, BoundsAssumption
    <3>4. i \in 1..Len(Popped)
      BY <2>1, <3>3
    <3> QED
      BY <2>1, <3>1, <3>4
  <2> QED
    BY <2>2, <2>3 DEF SearchCovers
<1>3. CASE ListSpecific
  <2>1. PICK found :
          /\ listed' = found
          /\ known' = StillKnown(Top.audience, claim.access.subject, found)
    BY <1>3 DEF ListSpecific
  <2>2. UNCHANGED <<phase, claim, queue>> /\ phase = "searching"
    BY <1>3 DEF ListSpecific
  <2>3. List(known', Top.audience, claim.access.subject) \subseteq listed'
    BY <2>1 DEF List, StillKnown
  <2>4. Chains(known', claim) \subseteq Chains(known, claim)
    BY <2>1, ChainsOfFewer DEF StillKnown
  <2>5. Chains(known, claim)' = Chains(known', claim)
    BY <2>2 DEF Chains, IsChain, Verify, StartsWith, Covers
  <2> QED
    BY <2>2, <2>3, <2>4, <2>5 DEF SearchCovers, Top, List
<1>4. CASE FollowPath
  <2>1. /\ listed # None /\ phase = "searching" /\ listed' = None
        /\ UNCHANGED <<store, claim>>
    BY <1>4 DEF FollowPath
  <2>2. CASE phase' = "granted"
    BY <2>2 DEF SearchCovers
  <2>3. ASSUME NEW found \in Listings(Top.audience, None),
               NEW order \in Orders(Candidates(found)), Direct(found) = {},
               queue' = Popped \o Followed(order),
               known' = StillKnown(Top.audience, None, found), UNCHANGED phase
        PROVE  SearchCovers'
    <3>1. \A chain \in Chains(known', claim) :
             \E i \in 1..Len(queue') : Suffix(queue'[i], chain)
      BY <2>1, <2>3, FollowCovers
    <3>2. Chains(known, claim)' = Chains(known', claim)
      BY <2>1 DEF Chains, IsChain, Verify, StartsWith, Covers
    <3> QED
      BY <2>1, <2>3, <3>1, <3>2 DEF SearchCovers
  <2> QED
    BY <1>4, <2>2, <2>3 DEF FollowPath, Followed
<1>5. CASE Deny
  <2>1. Chains(known, claim) = {}
    BY <1>5 DEF Deny, SearchCovers
  <2>2. claim.access.subject \notin {claim.principal, None}
    BY <1>5 DEF Deny, SearchSound
  <2> QED
    BY <1>5, <2>1, <2>2 DEF Deny, SearchCovers
<1>6. CASE SearchFails
  BY <1>6 DEF SearchFails, SearchCovers
<1>7. CASE UNCHANGED search
  BY <1>7 DEF SearchCovers, Top
<1> QED
  BY <1>1, <1>2, <1>3, <1>4, <1>5, <1>6, <1>7
     DEF Next, Search, Delegate, Import, Save, SaveFails, vars

\* No chain of the claim within MAX_DEPTH means that it is not provable.
LEMMA CoversDenies ==
    ASSUME SearchCovers
    PROVE  SearchComplete
<1> SUFFICES ASSUME phase = "denied" PROVE ~Provable(known, claim)
  BY DEF SearchComplete
<1>1. claim.access.subject \notin {claim.principal, None} /\ Chains(known, claim) = {}
  BY DEF SearchCovers
<1>2. ASSUME NEW n \in 1..MaxDepth, NEW chain \in [1..n -> known],
             IsChain(chain, known, claim)
      PROVE  FALSE
  <2>1. chain \in UNION {[1..m -> known] : m \in 1..MaxDepth}
    OBVIOUS
  <2>2. chain \in Chains(known, claim)
    BY <1>2, <2>1 DEF Chains
  <2> QED
    BY <1>1, <2>2
<1> QED
  BY <1>1, <1>2 DEF Provable

\* Nothing is searched for before the first request.
LEMMA CoversInit ==
    ASSUME Init
    PROVE  SearchCovers
  BY DEF Init, SearchCovers

\* CertificateStore::prove denies a claim only if, of the certificates stored
\* when the search began, those its listings answered with contain no chain for
\* it, whatever is retained, lost or unreadable while it reads the store.
THEOREM DenialsHold == Spec => []SearchComplete
<1> DEFINE Inv == TypeOK /\ SearchState /\ SearchSound /\ SearchCovers
<1>1. Init => Inv
  BY TypeInit, SoundInit, CoversInit
<1>2. Inv /\ [Next]_vars => Inv'
  BY TypeStep, SoundStep, CoversStep
<1>3. Inv => SearchComplete
  BY CoversDenies
<1> QED
  BY <1>1, <1>2, <1>3, PTL DEF Spec

-----------------------------------------------------------------------------
(***************************************************************************)
(* What was delegated and retained can be proved.                          *)
(***************************************************************************)
\* A claim that can be proved from a store can be proved from a larger one.
LEMMA ProvableGrows ==
    ASSUME NEW certs, NEW more, certs \subseteq more, NEW request,
           Provable(certs, request)
    PROVE  Provable(more, request)
<1>1. CASE request.access.subject \in {request.principal, None}
  BY <1>1 DEF Provable
<1>2. CASE \E n \in 1..MaxDepth : \E chain \in [1..n -> certs] : IsChain(chain, certs, request)
  <2>1. PICK n \in 1..MaxDepth : \E chain \in [1..n -> certs] : IsChain(chain, certs, request)
    BY <1>2
  <2>2. PICK chain \in [1..n -> certs] : IsChain(chain, certs, request)
    BY <2>1
  <2>3. chain \in [1..n -> more] /\ IsChain(chain, more, request)
    BY <2>2 DEF IsChain
  <2> QED
    BY <2>3 DEF Provable
<1> QED
  BY <1>1, <1>2 DEF Provable

\* The certificate that ends a delegation hands on what was claimed, for a time
\* that each certificate of the proof covers.
LEMMA BundleLinked ==
    ASSUME TypeOK, SearchSound, phase = "granted", claim.access.subject # None,
           NEW audience \in Did,
           NEW grant, grant.principal = audience, grant.access = claim.access,
           grant.duration = Issued(audience).range
    PROVE  /\ Bundle(audience)[1].issuer = grant.access.subject
           /\ Linked(Bundle(audience), grant)
<1>1. /\ claim \in Prove /\ claim.duration \in TimeRange
      /\ proof.proofs \in Seq(Certificate) /\ proof.duration \in TimeRange
      /\ claim.access \in Scope
  BY DEF TypeOK, Prove, Proof
<1> DEFINE last == Issued(audience)
           chain == proof.proofs
           bundle == Bundle(audience)
<1>2. Narrowed(proof.duration, claim.duration) \in TimeRange
  BY <1>1, RangeTypes
<1>3. last \in Certificate
  BY <1>1, <1>2 DEF Issued, Certificate, Prove, Scope
<1>4. /\ last.issuer = claim.principal /\ last.audience = audience
      /\ last.subject = claim.access.subject /\ last.command = claim.access.command
      /\ last.policy = claim.access.parameters
      /\ last.range = Narrowed(proof.duration, claim.duration)
  BY DEF Issued
<1> HIDE DEF last
<1>5. /\ bundle \in Seq(Certificate) /\ Len(bundle) = Len(chain) + 1 /\ Len(chain) \in Nat
      /\ \A i \in 1..Len(chain) : bundle[i] = chain[i]
      /\ bundle[Len(chain) + 1] = last
  BY <1>1, <1>3, AppendProperties DEF Bundle, last
<1> HIDE DEF bundle
<1>6. /\ last.subject \in {grant.access.subject, None}
      /\ Verify(last, grant.access)
      /\ Covers(last.range, grant.duration)
  <2>1. StartsWith(claim.access.command, claim.access.command)
    BY <1>1 DEF StartsWith, Scope
  <2>2. Covers(last.range, last.range)
    BY <1>2, <1>4 DEF Covers, TimeRange, Moment
  <2> QED
    BY <1>4, <2>1, <2>2 DEF Verify, last
<1>7. CASE claim.access.subject = claim.principal /\ proof = SelfProof
  <2>1. chain = <<>> /\ Len(chain) = 0
    BY <1>7 DEF SelfProof
  <2>2. Len(bundle) = 1 /\ bundle[1] = last
    BY <1>5, <2>1
  <2>3. \A i \in 1..Len(bundle) : i = Len(bundle) /\ bundle[i] = last
    BY <2>2
  <2> QED
    BY <1>4, <1>6, <1>7, <2>2, <2>3 DEF Linked, bundle
<1>8. CASE ProofSound(proof, claim)
  <2>1. /\ chain # <<>> /\ chain[1].issuer = claim.access.subject
        /\ Linked(chain, claim) /\ Spans(proof.duration, chain)
    BY <1>8 DEF ProofSound
  <2>2. Len(chain) # 0
    BY <1>1, <2>1, EmptySeq
  <2>3. bundle[1].issuer = grant.access.subject
    BY <1>5, <2>1, <2>2
  <2>4. ASSUME NEW i \in 1..Len(chain) PROVE Covers(chain[i].range, last.range)
    <3>1. /\ Covers(chain[i].range, claim.duration)
          /\ chain[i].range.not_before \in Begins(chain)
          /\ chain[i].range.expiration \in Ends(chain)
          /\ chain[i].range \in TimeRange
      <4>1. chain[i] \in Certificate
        BY <1>1
      <4>2. Covers(chain[i].range, claim.duration)
        BY <2>1 DEF Linked
      <4> QED
        BY <1>1, <4>1, <4>2, ChainMoments DEF Certificate
    <3>2. /\ chain[i].range.not_before # None /\ proof.duration.not_before # None
                => chain[i].range.not_before <= proof.duration.not_before
          /\ chain[i].range.expiration # None /\ proof.duration.expiration # None
                => chain[i].range.expiration >= proof.duration.expiration
      BY <1>1, <2>1, <3>1 DEF Spans, IsLatest, IsEarliest, TimeRange, Moment
    <3> QED
      BY <1>1, <1>4, <3>1, <3>2 DEF Covers, Narrowed
  <2>5. ASSUME NEW i \in 1..Len(bundle)
        PROVE  /\ bundle[i].subject \in {grant.access.subject, None}
               /\ bundle[i].audience = IF i = Len(bundle) THEN grant.principal
                                       ELSE bundle[i + 1].issuer
               /\ Verify(bundle[i], grant.access)
               /\ Covers(bundle[i].range, grant.duration)
    <3>1. CASE i = Len(bundle)
      BY <1>4, <1>5, <1>6, <3>1
    <3>2. CASE i # Len(bundle)
      <4>1. i \in 1..Len(chain) /\ bundle[i] = chain[i]
        BY <1>5, <3>2
      <4>2. chain[i].audience = bundle[i + 1].issuer
        <5>1. CASE i = Len(chain)
          BY <1>4, <1>5, <2>1, <4>1, <5>1 DEF Linked
        <5>2. CASE i # Len(chain)
          <6>1. i + 1 \in 1..Len(chain)
            BY <1>5, <4>1, <5>2
          <6> QED
            BY <1>5, <2>1, <4>1, <5>2, <6>1 DEF Linked
        <5> QED
          BY <5>1, <5>2
      <4>3. chain[i].subject \in {grant.access.subject, None} /\ Verify(chain[i], grant.access)
        BY <2>1, <4>1 DEF Linked
      <4>4. Covers(chain[i].range, grant.duration)
        BY <2>4, <4>1 DEF last
      <4> QED
        BY <3>2, <4>1, <4>2, <4>3, <4>4
    <3> QED
      BY <3>1, <3>2
  <2> QED
    BY <2>3, <2>5 DEF Linked, bundle
<1> QED
  BY <1>7, <1>8 DEF SearchSound

\* A delegation whose certificates the receiver has, and not more than
\* MAX_DEPTH of them, can be proved.
LEMMA RetainedProvable ==
    ASSUME NEW certs, NEW grant, NEW bundle \in Seq(Certificate), bundle # <<>>,
           \A i \in 1..Len(bundle) : bundle[i] \in certs,
           grant.access.subject # None =>
               bundle[1].issuer = grant.access.subject /\ Linked(bundle, grant),
           Len(bundle) <= MaxDepth
    PROVE  Provable(certs, grant)
<1>1. CASE grant.access.subject = None
  BY <1>1 DEF Provable
<1>2. CASE grant.access.subject # None
  <2>1. Len(bundle) \in 1..MaxDepth
    BY EmptySeq, BoundsAssumption
  <2>2. bundle \in [1..Len(bundle) -> certs]
    BY SeqMonotonic
  <2>3. IsChain(bundle, certs, grant)
    BY <1>2 DEF IsChain, Linked
  <2> QED
    BY <2>1, <2>2, <2>3 DEF Provable
<1> QED
  BY <1>1, <1>2

\* A delegation starts to save a chain for its receiver.
LEMMA DelegateStep ==
    ASSUME TypeOK, SearchSound, NEW audience \in Did, Delegate(audience)
    PROVE  SavingBacked'
<1>0. PICK bundle : bundle = Bundle(audience)
  OBVIOUS
<1>1. /\ phase = "granted" /\ saving' = bundle /\ store' = store
      /\ granting'.principal = audience /\ granting'.access = claim.access
      /\ granting'.duration = Issued(audience).range /\ granting'.hops = Len(bundle)
  BY <1>0 DEF Delegate
<1>2. claim \in Prove /\ proof \in Proof
  BY <1>1 DEF TypeOK
<1>3. Issued(audience) \in Certificate
  <2>1. Narrowed(proof.duration, claim.duration) \in TimeRange
    BY <1>2, RangeTypes DEF Prove, Proof
  <2> QED
    BY <1>2, <2>1 DEF Issued, Certificate, Prove, Scope
<1>4. proof.proofs \in Seq(Certificate)
  BY <1>2 DEF Proof
<1>5. /\ bundle \in Seq(Certificate) /\ bundle # <<>>
      /\ Len(bundle) = Len(proof.proofs) + 1
      /\ bundle[Len(proof.proofs) + 1] = Issued(audience)
  BY <1>0, <1>3, <1>4, AppendProperties DEF Bundle
<1>6. bundle[Len(bundle)].audience = audience
  BY <1>5 DEF Issued
<1>7. claim.access.subject # None =>
          bundle[1].issuer = claim.access.subject /\ Linked(bundle, granting')
  BY <1>0, <1>1, BundleLinked
<1>8. SubSeq(bundle, 1, Len(bundle)) = bundle
  BY <1>5, SubSeqFull
<1>9. 0 < Len(bundle) /\ 0 + 1 = 1 /\ 1..0 = {}
  BY <1>4, <1>5
<1>10. SavingGrant(bundle, 0)'
  <2>1. SubSeq(bundle, 0 + 1, Len(bundle)) = bundle
    BY <1>8, <1>9
  <2> QED
    BY <1>1, <1>5, <1>6, <1>7, <1>9, <2>1 DEF SavingGrant, Linked
<1> QED
  BY <1>5, <1>10 DEF SavingBacked

\* A save keeps the rest of a delegation, or ends it.
LEMMA SaveStep ==
    ASSUME TypeOK, SavingBacked, GrantsBacked, Save
    PROVE  SavingBacked' /\ GrantsBacked'
<1>1. /\ saving # <<>> /\ saving' = Tail(saving)
      /\ store' = [store EXCEPT ![Keeper] = @ \cup {Head(saving)}]
      /\ torn' = [torn EXCEPT ![Keeper] = @ \ {Head(saving)}]
      /\ grants' = IF Len(saving) = 1 /\ granting # None
                   THEN grants \cup {granting} ELSE grants
      /\ granting' = IF Len(saving) = 1 THEN None ELSE granting
  BY DEF Save
<1>2. \A p \in Profile : Retained(p) \subseteq Retained(p)'
  BY <1>1 DEF TypeOK, Retained
<1>3. ASSUME NEW g \in grants
      PROVE  g.hops <= MaxDepth => Provable(Retained(Home[g.principal])', g)
  <2>1. Home[g.principal] \in Profile
    BY HomeAssumption DEF TypeOK, Grant
  <2> QED
    BY <1>2, <2>1, ProvableGrows DEF GrantsBacked
<1>4. CASE granting = None
  BY <1>1, <1>3, <1>4 DEF SavingBacked, GrantsBacked
<1>5. CASE granting # None
  <2>1. PICK bundle \in Seq(Certificate), n \in Nat : SavingGrant(bundle, n)
    BY <1>5 DEF SavingBacked
  <2> DEFINE keeper == Home[granting.principal]
  <2>2. keeper \in Profile
    BY <1>5, HomeAssumption DEF TypeOK, Grant
  <2>3. Len(bundle) \in Nat /\ n < Len(bundle) /\ n + 1 \in 1..Len(bundle)
    BY <2>1 DEF SavingGrant
  <2>4. saving = SubSeq(bundle, n + 1, Len(bundle))
    BY <2>1 DEF SavingGrant
  <2>5. /\ Len(saving) = Len(bundle) - n
        /\ \A i \in 1..(Len(bundle) - n) : saving[i] = bundle[n + i]
    <3>1. \A i \in (n + 1)..Len(bundle) : bundle[i] \in Certificate
      BY <2>3
    <3> DEFINE m == n + 1
    <3>2. m \in Int /\ Len(bundle) \in Int /\ m <= Len(bundle)
      BY <2>3
    <3> HIDE DEF m
    <3>3. /\ Len(SubSeq(bundle, m, Len(bundle))) = Len(bundle) - m + 1
          /\ \A i \in 1..(Len(bundle) - m + 1) : SubSeq(bundle, m, Len(bundle))[i] = bundle[m + i - 1]
      BY <3>1, <3>2, SubSeqProperties DEF m
    <3>4. Len(bundle) - m + 1 = Len(bundle) - n
      BY <2>3 DEF m
    <3>5. Len(saving) = Len(bundle) - n
      BY <2>4, <3>3, <3>4 DEF m
    <3>6. ASSUME NEW i \in 1..(Len(bundle) - n) PROVE saving[i] = bundle[n + i]
      <4>1. i \in 1..(Len(bundle) - m + 1) /\ m + i - 1 = n + i
        BY <2>3, <3>4 DEF m
      <4>2. SubSeq(bundle, m, Len(bundle))[i] = bundle[m + i - 1]
        BY <3>3, <4>1
      <4> QED
        BY <2>4, <4>1, <4>2 DEF m
    <3> QED
      BY <3>5, <3>6
  <2>6. Head(saving) = bundle[n + 1]
    BY <1>1, <2>3, <2>5
  <2>7. saving[Len(saving)] = bundle[Len(bundle)]
    <3>1. Len(bundle) - n \in 1..(Len(bundle) - n) /\ n + (Len(bundle) - n) = Len(bundle)
      BY <2>3
    <3> QED
      BY <2>5, <3>1
  <2>8. Keeper = keeper
    BY <2>1, <2>7 DEF Keeper, SavingGrant
  <2>9. \A i \in 1..(n + 1) : bundle[i] \in store'[keeper] \cup torn'[keeper]
    <3>1. Retained(keeper) \cup {bundle[n + 1]} \subseteq store'[keeper] \cup torn'[keeper]
      BY <1>1, <2>2, <2>6, <2>8 DEF TypeOK, Retained
    <3>2. \A i \in 1..n : bundle[i] \in Retained(keeper)
      BY <2>1 DEF SavingGrant
    <3> QED
      BY <3>1, <3>2
  <2>10. /\ bundle # <<>> /\ bundle[Len(bundle)].audience = granting.principal
         /\ granting.access.subject # None =>
               bundle[1].issuer = granting.access.subject /\ Linked(bundle, granting)
         /\ granting.hops = Len(bundle)
    BY <2>1 DEF SavingGrant
  <2> HIDE DEF keeper
  <2>11. CASE Len(saving) = 1
    <3>1. n + 1 = Len(bundle)
      <4>1. Len(bundle) - n = 1
        BY <2>5, <2>11
      <4> QED
        BY <2>3, <4>1
    <3>2. granting.hops <= MaxDepth => Provable(store'[keeper] \cup torn'[keeper], granting)
      BY <2>9, <2>10, <3>1, RetainedProvable
    <3>3. granting' = None /\ grants' = grants \cup {granting}
      BY <1>1, <1>5, <2>11
    <3> QED
      BY <1>3, <3>2, <3>3 DEF SavingBacked, GrantsBacked, keeper, Retained
  <2>12. CASE Len(saving) # 1
    <3>1. granting' = granting /\ grants' = grants
      BY <1>1, <2>12
    <3>2. n + 1 < Len(bundle) /\ n + 1 \in Nat
      <4>1. Len(bundle) - n # 1
        BY <2>5, <2>12
      <4> QED
        BY <2>3, <4>1
    <3> DEFINE m == n + 1
    <3>3. Tail(SubSeq(bundle, m, Len(bundle))) = SubSeq(bundle, m + 1, Len(bundle))
      BY <2>3, HeadTailOfSubSeq
    <3>4. saving' = SubSeq(bundle, m + 1, Len(bundle))
      BY <1>1, <2>4, <3>3
    <3>5. \A i \in 1..m : bundle[i] \in store'[keeper] \cup torn'[keeper]
      BY <2>9
    <3>6. m < Len(bundle) /\ m \in Nat
      BY <3>2
    <3> HIDE DEF m
    <3>7. SavingGrant(bundle, m)'
      BY <2>10, <3>1, <3>4, <3>5, <3>6 DEF SavingGrant, keeper, Linked, Retained
    <3> QED
      BY <1>3, <3>1, <3>6, <3>7 DEF SavingBacked, GrantsBacked
  <2> QED
    BY <2>11, <2>12
<1> QED
  BY <1>4, <1>5

\* Saving the certificates one by one ends with the receiver's whole chain.
LEMMA BackedStep ==
    ASSUME TypeOK, SearchSound, SavingBacked, GrantsBacked, [Next]_vars
    PROVE  SavingBacked' /\ GrantsBacked'
<1>1. CASE UNCHANGED <<store, torn, saving, granting, grants>>
  BY <1>1 DEF SavingBacked, SavingGrant, GrantsBacked, Retained
<1>2. ASSUME NEW audience \in Did, Delegate(audience)
      PROVE  SavingBacked' /\ GrantsBacked'
  BY <1>2, DelegateStep DEF Delegate, GrantsBacked, Retained
<1>3. ASSUME NEW cert \in Imports, Import(cert)
      PROVE  SavingBacked' /\ GrantsBacked'
  BY <1>3 DEF Import, SavingBacked, GrantsBacked, Retained
<1>4. CASE Save
  BY <1>4, SaveStep
<1>5. CASE SaveFails
  <2>1. granting' = None /\ grants' = grants
    BY <1>5 DEF SaveFails
  <2>2. \A p \in Profile : Retained(p) \subseteq Retained(p)'
    BY <1>5 DEF SaveFails, Retained, TypeOK
  <2>3. \A g \in grants : Home[g.principal] \in Profile
    BY HomeAssumption DEF TypeOK, Grant
  <2>4. \A g \in grants :
          g.hops <= MaxDepth => Provable(Retained(Home[g.principal])', g)
    BY <2>2, <2>3, ProvableGrows DEF GrantsBacked
  <2> QED
    BY <2>1, <2>4 DEF SavingBacked, GrantsBacked
<1> QED
  BY <1>1, <1>2, <1>3, <1>4, <1>5
     DEF Next, Search, Request, AbandonPath, ListSpecific, FollowPath, Deny, SearchFails,
         saves, vars

\* A delegation made from a proof and retained can be proved by its receiver
\* from the store it was retained in, unless it is longer than MAX_DEPTH or a
\* save that was cut off destroyed one of its certificates, whichever
\* certificates are retained and searches made before and after.
THEOREM GrantsHold == Spec => []GrantsBacked
<1> DEFINE Inv == TypeOK /\ SearchState /\ SearchSound /\ SavingBacked /\ GrantsBacked
<1>1. Init => Inv
  <2>1. Init => SavingBacked /\ GrantsBacked
    BY DEF Init, SavingBacked, GrantsBacked
  <2> QED
    BY <2>1, TypeInit, SoundInit
<1>2. Inv /\ [Next]_vars => Inv'
  BY TypeStep, SoundStep, BackedStep
<1>3. Inv => GrantsBacked
  OBVIOUS
<1> QED
  BY <1>1, <1>2, <1>3, PTL DEF Spec
=============================================================================
