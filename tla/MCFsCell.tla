------------------------------ MODULE MCFsCell ------------------------------
(* Three callers in two processes, two of them in the same process. *)
EXTENDS FsCell, TLC

CONSTANTS t1, t2, t3, p1, p2, a, b

MCProcessOf == (t1 :> p1) @@ (t2 :> p1) @@ (t3 :> p2)

\* Contents are interchangeable, and so are the two tasks of one process.
Symmetry == Permutations({a, b}) \union Permutations({t1, t2})
=============================================================================
