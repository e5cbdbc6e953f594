---------------------------- MODULE MCBranchSync ----------------------------
(* Topologies for the branch model. *)
EXTENDS BranchSync, TLC

CONSTANTS a, b,              \* local branches
          origin, backup,    \* remote branches
          ra, rb, ro, rk,    \* their repositories
          h1, h2, h3,        \* handles
          t1, t2, t3,        \* tasks
          fact, tombstone     \* entry values

MCIdentity    == [v \in Value |-> IF v = fact THEN 1 ELSE 2]
MCIssuerOf    == [r \in Repo |-> r]
OneAttribute  == [k \in Key |-> 1]

Asserts      == [apply : {"assert"}, key : Key]
Instructions == [apply : {"assert", "retract", "replace"}, key : Key]
\* Replacements of either fact, retraction of one: keys are interchangeable.
Edits        == [apply : {"replace"}, key : Key]
                  \union {[apply |-> "retract", key |-> 1]}

\* Two replicas of a repository, a handle each, that sync through a remote.
ReplicaRepo       == (a :> ra) @@ (b :> rb) @@ (origin :> ro)
ReplicaBranch     == (h1 :> a) @@ (h2 :> b)
ReplicaHandle     == (t1 :> h1) @@ (t2 :> h2)
ReplicaTracks     == (a :> origin) @@ (b :> origin)
SyncOperations    == [t \in Task |-> {"refresh", "commit", "pull", "push"}]

\* A branch with two handles that tracks another branch of its repository,
\* which tracks a remote and can be switched to a second one.
ChainRepo        == (a :> ra) @@ (b :> ra) @@ (origin :> ro) @@ (backup :> rk)
ChainTracks      == (a :> b) @@ (b :> origin)
TwoHandles       == (h1 :> a) @@ (h2 :> a) @@ (h3 :> b)
ThreeTasks       == (t1 :> h1) @@ (t2 :> h2) @@ (t3 :> h3)
ChainOperations  ==
    (t1 :> {"commit", "pull", "push"}) @@ (t2 :> {"refresh", "commit", "pull"})
      @@ (t3 :> {"refresh", "pull", "push", "fetch", "set_upstream"})

\* Two handles to one branch of one of two replicas.
TornOperations   ==
    (t1 :> {"refresh", "push"}) @@ (t2 :> {"commit", "push"}) @@ (t3 :> {})

\* A replica that pulls and pushes what the other one commits.
Replacements     == [apply : {"replace"}, key : Key]
FollowOperations ==
    (t1 :> {"refresh", "pull", "push"}) @@ (t2 :> {"refresh", "commit", "pull", "push"})
=============================================================================
