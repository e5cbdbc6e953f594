----------------------------- MODULE Authorization -----------------------------
(***************************************************************************)
(* Delegated authority: certificates that principals issue to each other,  *)
(* the stores that retain them, the search that proves a claim from a      *)
(* store (CertificateStore::prove), what may be made of a proof, and the   *)
(* check a service applies to an invocation (syntactic_checks).            *)
(*                                                                         *)
(* Signatures, encodings and nonces are left out: a certificate is the     *)
(* payload its issuer signed.  A policy is the set of parameters it fixes, *)
(* as Parameters::policy builds it, and a subject that is None is a        *)
(* powerline, Subject::Any.                                                *)
(***************************************************************************)
EXTENDS Option, Naturals, Sequences, FiniteSets

CONSTANTS
    Did,        \* principals
    Profile,    \* profiles, each with a certificate store of its own
    Home,       \* the profile whose store a principal's certificates are in
    Segment,    \* segments of a command path
    Param,      \* parameters of a capability, name and value
    Imports,    \* certificates built outside the searches of this system
    Claims,     \* the claims that are made
    MaxDepth,   \* CertificateStore::MAX_DEPTH
    MaxCerts,   \* bound: certificates retained when an import begins
    MaxGrants,  \* bound: delegations made from proofs
    MaxErrors   \* bound: listings that leave something out, and certificates lost

Moment == Nat \cup {None}
TimeRange == [not_before : Moment, expiration : Moment]
Certificate == [issuer : Did, audience : Did, subject : Did \cup {None},
                command : Seq(Segment), policy : SUBSET Param, range : TimeRange]
Scope == [subject : Did \cup {None}, command : Seq(Segment), parameters : SUBSET Param]
Prove == [principal : Did, access : Scope, duration : TimeRange]

ASSUME NoneAssumption == None \notin Nat /\ None \notin Did /\ None \notin Prove
ASSUME HomeAssumption == Home \in [Did -> Profile]
ASSUME ImportsAssumption == Imports \subseteq Certificate
ASSUME ClaimsAssumption == Claims \subseteq Prove
ASSUME BoundsAssumption == {MaxDepth, MaxCerts, MaxGrants, MaxErrors} \subseteq Nat

VARIABLES
    store,      \* the certificates each profile retains
    torn,       \* history: those a save that was cut off has destroyed
    saving,     \* what is left to write of a delegation, root first
    granting,   \* the delegation that is being retained, if a proof made it
    grants,     \* history: the delegations made from proofs and retained
    errors,     \* how many errors went unnoticed
    phase,      \* where the claim stands
    claim,      \* the claim
    queue,      \* the paths the search has still to follow
    listed,     \* the subject's certificates of the path being followed
    known,      \* history: of the store when the search began, what no
                \* listing of the search has left out
    proof       \* the proof that was found
saves == <<store, torn, saving, granting, grants, errors>>
search == <<phase, claim, queue, listed, known, proof>>
vars == <<saves, search>>

(***************************************************************************)
(* Time ranges.                                                            *)
(***************************************************************************)
Unbounded == [not_before |-> None, expiration |-> None]

Covers(range, required) ==
    /\ required.not_before # None /\ range.not_before # None
           => range.not_before <= required.not_before
    /\ required.expiration # None /\ range.expiration # None
           => range.expiration >= required.expiration

Later(a, b) == IF a = None \/ (b # None /\ b > a) THEN b ELSE a
Earlier(a, b) == IF a = None \/ (b # None /\ b < a) THEN b ELSE a
Intersect(r, q) == [not_before |-> Later(r.not_before, q.not_before),
                    expiration |-> Earlier(r.expiration, q.expiration)]

\* The latest beginning and the earliest end of a chain: DelegationChain's
\* not_before and expiration, and the range syntactic_checks accumulates.
Latest(S) == IF S \subseteq {None} THEN None
             ELSE CHOOSE t \in S \ {None} : \A u \in S \ {None} : u <= t
Earliest(S) == IF S \subseteq {None} THEN None
               ELSE CHOOSE t \in S \ {None} : \A u \in S \ {None} : t <= u
Window(proofs) ==
    [not_before |-> Latest({proofs[i].range.not_before : i \in DOMAIN proofs}),
     expiration |-> Earliest({proofs[i].range.expiration : i \in DOMAIN proofs})]

IsValid(range) ==
    range.not_before # None /\ range.expiration # None
        => range.not_before <= range.expiration

(***************************************************************************)
(* Certificates.                                                           *)
(***************************************************************************)
StartsWith(command, prefix) ==
    /\ Len(prefix) <= Len(command)
    /\ \A i \in 1..Len(prefix) : command[i] = prefix[i]

Verify(cert, access) ==
    /\ StartsWith(access.command, cert.command)
    /\ cert.policy \subseteq access.parameters

\* The certificates a listing is for.
List(certs, audience, subject) ==
    {c \in certs : c.audience = audience /\ c.subject = subject}

(***************************************************************************)
(* The check of an invocation and its proofs, root first.                  *)
(***************************************************************************)
ResolvedSubject(proofs, i, subject) ==
    CASE proofs[i].subject # None -> proofs[i].subject
      [] proofs[i].subject = None /\ i = 1 -> proofs[i].issuer
      [] OTHER -> subject

SyntacticChecks(invocation, proofs) ==
    /\ \A i \in 1..Len(proofs) :
          /\ ResolvedSubject(proofs, i, invocation.subject) = invocation.subject
          /\ proofs[i].issuer = IF i = 1 THEN invocation.subject
                                ELSE proofs[i - 1].audience
          /\ StartsWith(invocation.command, proofs[i].command)
          /\ proofs[i].policy \subseteq invocation.arguments
    /\ invocation.issuer = IF proofs = <<>> THEN invocation.subject
                           ELSE proofs[Len(proofs)].audience
    /\ IsValid(Window(proofs))

\* UcanAuthorization::invoke on a claim whose signer is its principal.
Invocation(request) ==
    [issuer |-> request.principal, subject |-> request.access.subject,
     command |-> request.access.command, arguments |-> request.access.parameters]

-----------------------------------------------------------------------------
(***************************************************************************)
(* The search.  A path is the part of a chain found so far, leaf last; it  *)
(* is to be continued by a certificate whose audience is path.audience.    *)
(***************************************************************************)
Path == [audience : Did, chain : Seq(Certificate), range : TimeRange, depth : Nat]
Proof == [proofs : Seq(Certificate), duration : TimeRange]
SelfProof == [proofs |-> <<>>, duration |-> Unbounded]

Certs == store[Home[claim.principal]]
Top == queue[Len(queue)]
Popped == SubSeq(queue, 1, Len(queue) - 1)

\* Mutant of Extend: the certificate goes to the end of the chain.
ExtendAtEnd(path, cert) ==
    [audience |-> cert.issuer, chain |-> Append(path.chain, cert),
     range |-> Intersect(path.range, cert.range), depth |-> path.depth + 1]

\* Mutant of Extend: the search goes on with the subject, not with the issuer.
ExtendToSubject(path, cert) ==
    [audience |-> cert.subject, chain |-> <<cert>> \o path.chain,
     range |-> Intersect(path.range, cert.range), depth |-> path.depth + 1]

Extend(path, cert) ==
    [audience |-> cert.issuer, chain |-> <<cert>> \o path.chain,
     range |-> Intersect(path.range, cert.range), depth |-> path.depth + 1]

\* What a listing may answer.  A directory that cannot be resolved or listed
\* counts as empty, and a certificate that cannot be read or decoded is passed
\* over: any part of what is stored can be missing, without an error.
Listings(audience, subject) ==
    LET stored == List(Certs, audience, subject) IN
    IF errors < MaxErrors THEN SUBSET stored ELSE {stored}

\* The errors counted once a listing has answered.
Counted(audience, subject, found) ==
    errors' = IF found = List(Certs, audience, subject) THEN errors ELSE errors + 1

StillKnown(audience, subject, found) ==
    known \ (List(known, audience, subject) \ found)

Candidates(powerlines) ==
    {c \in listed \cup powerlines :
        Verify(c, claim.access) /\ Covers(c.range, claim.duration)}
Direct(powerlines) ==
    {c \in Candidates(powerlines) : c.issuer = claim.access.subject}

\* The subject's certificates come before powerlines, in an order of the store.
Orders(S) ==
    {s \in [1..Cardinality(S) -> S] :
        /\ \A c \in S : \E i \in 1..Cardinality(S) : s[i] = c
        /\ \A i, j \in 1..Cardinality(S) :
              i < j /\ s[j].subject # None => s[i].subject # None}

Request(request) ==
    /\ phase # "searching"
    /\ claim' = request
    /\ IF request.access.subject \in {request.principal, None}
       THEN /\ phase' = "granted"
            /\ proof' = SelfProof
            /\ queue' = <<>>
            /\ known' = {}
       ELSE /\ phase' = "searching"
            /\ proof' = SelfProof
            /\ queue' = <<[audience |-> request.principal, chain |-> <<>>,
                           range |-> Unbounded, depth |-> 0]>>
            /\ known' = store[Home[request.principal]]
    /\ listed' = None
    /\ UNCHANGED saves

\* Mutant of AbandonPath: the limit is one certificate too low.
AbandonEarly ==
    /\ phase = "searching" /\ queue # <<>> /\ listed = None
    /\ Top.depth + 1 >= MaxDepth
    /\ queue' = Popped
    /\ UNCHANGED <<saves, phase, claim, listed, known, proof>>

\* Mutant of AbandonPath: the path that is given up stays in the queue.
AbandonInPlace ==
    /\ phase = "searching" /\ queue # <<>> /\ listed = None
    /\ Top.depth >= MaxDepth
    /\ UNCHANGED <<saves, phase, claim, queue, listed, known, proof>>

\* A path as long as the limit is given up.
AbandonPath ==
    /\ phase = "searching" /\ queue # <<>> /\ listed = None
    /\ Top.depth >= MaxDepth
    /\ queue' = Popped
    /\ UNCHANGED <<saves, phase, claim, listed, known, proof>>

ListSpecific ==
    /\ phase = "searching" /\ queue # <<>> /\ listed = None
    /\ Top.depth < MaxDepth
    /\ \E found \in Listings(Top.audience, claim.access.subject) :
          /\ listed' = found
          /\ known' = StillKnown(Top.audience, claim.access.subject, found)
          /\ Counted(Top.audience, claim.access.subject, found)
    /\ UNCHANGED <<store, torn, saving, granting, grants, phase, claim, queue, proof>>

\* The second listing and what follows it without an await.
FollowPath ==
    /\ phase = "searching" /\ listed # None
    /\ \E found \in Listings(Top.audience, None) :
       /\ Counted(Top.audience, None, found)
       /\ \/ \E order \in Orders(Direct(found)) :
                /\ Direct(found) # {}
                /\ LET path == Extend(Top, order[1]) IN
                   proof' = [proofs |-> path.chain, duration |-> path.range]
                /\ phase' = "granted"
                /\ queue' = <<>>
                /\ known' = {}
          \/ \E order \in Orders(Candidates(found)) :
                /\ Direct(found) = {}
                /\ queue' = Popped \o [i \in 1..Len(order) |-> Extend(Top, order[i])]
                /\ known' = StillKnown(Top.audience, None, found)
                /\ UNCHANGED <<phase, proof>>
    /\ listed' = None
    /\ UNCHANGED <<store, torn, saving, granting, grants, claim>>

Deny ==
    /\ phase = "searching" /\ queue = <<>>
    /\ phase' = "denied"
    /\ UNCHANGED <<saves, claim, queue, listed, known, proof>>

\* The few errors a listing does report, such as a file whose name is no path,
\* fail the claim.
SearchFails ==
    /\ phase = "searching" /\ queue # <<>> /\ Top.depth < MaxDepth
    /\ phase' = "idle"
    /\ queue' = <<>>
    /\ listed' = None
    /\ known' = {}
    /\ UNCHANGED <<saves, claim, proof>>

-----------------------------------------------------------------------------
(***************************************************************************)
(* Delegating what was proved, and retaining delegations.  A delegation is *)
(* the chain of the proof and a certificate that ends it; whoever receives *)
(* it retains all of it, one certificate after the other.                  *)
(***************************************************************************)
Narrowed(duration, required) ==
    [not_before |-> IF required.not_before = None THEN duration.not_before
                    ELSE required.not_before,
     expiration |-> IF required.expiration = None THEN duration.expiration
                    ELSE required.expiration]

Issued(audience) ==
    [issuer |-> claim.principal, audience |-> audience,
     subject |-> claim.access.subject, command |-> claim.access.command,
     policy |-> claim.access.parameters,
     range |-> Narrowed(proof.duration, claim.duration)]

\* Mutant of Bundle: the proofs of the delegation are left behind.
BundleOfOne(audience) == <<Issued(audience)>>

Bundle(audience) == Append(proof.proofs, Issued(audience))

Delegate(audience) ==
    /\ phase = "granted" /\ saving = <<>>
    /\ Covers(proof.duration, claim.duration)
    /\ Cardinality(grants) < MaxGrants
    /\ saving' = Bundle(audience)
    /\ granting' = [principal |-> audience, access |-> claim.access,
                    duration |-> Issued(audience).range, hops |-> Len(Bundle(audience))]
    /\ UNCHANGED <<store, torn, grants, errors, search>>

Import(cert) ==
    /\ saving = <<>>
    /\ Cardinality(UNION {store[p] : p \in Profile}) < MaxCerts
    /\ saving' = <<cert>>
    /\ granting' = None
    /\ UNCHANGED <<store, torn, grants, errors, search>>

\* Whoever a delegation is for retains it.
Keeper == Home[saving[Len(saving)].audience]

Save ==
    /\ saving # <<>>
    /\ store' = [store EXCEPT ![Keeper] = @ \cup {Head(saving)}]
    /\ saving' = Tail(saving)
    /\ torn' = [torn EXCEPT ![Keeper] = @ \ {Head(saving)}]
    /\ grants' = IF Len(saving) = 1 /\ granting # None
                 THEN grants \cup {granting} ELSE grants
    /\ granting' = IF Len(saving) = 1 THEN None ELSE granting
    /\ UNCHANGED <<errors, search>>

\* An I/O error, or the end of the process that was saving.  The file is
\* written in place: if the store had that very certificate, and a chain starts
\* with the certificates of the one it was made from, it may be lost.
SaveFails ==
    /\ saving # <<>>
    /\ \E lost \in IF errors < MaxErrors THEN SUBSET (store[Keeper] \cap {Head(saving)})
                    ELSE {{}} :
          /\ store' = [store EXCEPT ![Keeper] = @ \ lost]
          /\ torn' = [torn EXCEPT ![Keeper] = @ \cup lost]
          /\ errors' = IF lost = {} THEN errors ELSE errors + 1
    /\ saving' = <<>>
    /\ granting' = None
    /\ UNCHANGED <<grants, search>>

Init ==
    /\ store = [p \in Profile |-> {}]
    /\ torn = [p \in Profile |-> {}]
    /\ saving = <<>> /\ granting = None /\ grants = {} /\ errors = 0
    /\ phase = "idle" /\ claim = None
    /\ queue = <<>> /\ listed = None /\ known = {} /\ proof = SelfProof

Search == AbandonPath \/ ListSpecific \/ FollowPath \/ Deny

Next ==
    \/ \E request \in Claims : Request(request)
    \/ Search
    \/ SearchFails
    \/ \E audience \in Did : Delegate(audience)
    \/ \E cert \in Imports : Import(cert)
    \/ Save
    \/ SaveFails

Spec == Init /\ [][Next]_vars /\ WF_vars(Search)

-----------------------------------------------------------------------------
Grant == [principal : Did, access : Scope, duration : TimeRange, hops : Nat]

\* Types of the variables: access.rs's Prove, Proof, TimeRange and Certificate.
TypeOK ==
    /\ store \in [Profile -> SUBSET Certificate]
    /\ torn \in [Profile -> SUBSET Certificate]
    /\ saving \in Seq(Certificate)
    /\ granting \in Grant \cup {None}
    /\ grants \in SUBSET Grant
    /\ errors \in 0..MaxErrors
    /\ phase \in {"idle", "searching", "granted", "denied"}
    /\ claim \in Prove \cup {None}
    /\ phase # "idle" => claim # None
    /\ queue \in Seq(Path)
    /\ listed \in (SUBSET Certificate) \cup {None}
    /\ known \in SUBSET Certificate
    /\ proof \in Proof

\* A chain of certificates, root first, that gives a principal the access it
\* claims for all of the time it claims.
IsChain(chain, certs, request) ==
    /\ chain # <<>> /\ chain[1].issuer = request.access.subject
    /\ \A i \in 1..Len(chain) :
          /\ chain[i] \in certs
          /\ chain[i].subject \in {request.access.subject, None}
          /\ chain[i].audience = IF i = Len(chain) THEN request.principal
                                 ELSE chain[i + 1].issuer
          /\ Verify(chain[i], request.access)
          /\ Covers(chain[i].range, request.duration)

Provable(certs, request) ==
    \/ request.access.subject \in {request.principal, None}
    \/ \E n \in 1..MaxDepth : \E chain \in [1..n -> certs] : IsChain(chain, certs, request)

\* What CertificateStore::prove grants for a subject, the service's
\* syntactic_checks accept as soon as the certificates are valid at one common
\* moment, which they are if the claim said from when until when; and the
\* authorization may be narrowed to the claimed time, as Delegate::perform does.
ProofsVerify ==
    phase = "granted" /\ claim.access.subject # None =>
        /\ SyntacticChecks(Invocation(claim), proof.proofs) <=> IsValid(proof.duration)
        /\ (/\ None \notin {claim.duration.not_before, claim.duration.expiration}
            /\ IsValid(claim.duration)) => IsValid(proof.duration)
        /\ Covers(proof.duration, claim.duration)

\* CertificateStore::prove denies a claim only if the certificates its listings
\* answered with, of those stored when the search began, contain no chain for it
\* within MAX_DEPTH, although the search reads the store piece by piece while
\* delegations are retained.  A chain of which a listing left out a certificate
\* it could not read is denied, not reported as an error.
SearchComplete ==
    phase = "denied" => ~Provable(known, claim)

\* The certificates a profile has saved, those included that a later save of the
\* same certificate destroyed.
Retained(p) == store[p] \cup torn[p]

\* A delegation that was made from a proof and retained (Delegate::perform, then
\* CertificateStore::save) can be proved again by whoever received it, from that
\* profile's store alone, unless its chain is longer than MAX_DEPTH, or a later
\* save of one of its certificates was cut off and destroyed it.
GrantsBacked ==
    \A g \in grants :
        g.hops <= MaxDepth => Provable(Retained(Home[g.principal]), g)

\* Every search of CertificateStore::prove ends, also where certificates form a
\* circle.
SearchEnds == phase = "searching" ~> phase # "searching"
=============================================================================
