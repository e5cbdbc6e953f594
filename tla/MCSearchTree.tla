---------------------------- MODULE MCSearchTree ----------------------------
(* Small trees whose ranks force every level to be cut. *)
EXTENDS TreeDifference

CONSTANTS v, w         \* values

\* Nothing follows the last key, so its rank cuts nothing.
MCRanks == {r \in [Key -> 1..3] : r[4] = 1}

Symmetry == Permutations(Value)
=============================================================================
