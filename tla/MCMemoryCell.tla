---------------------------- MODULE MCMemoryCell ----------------------------
(* Two handles; two of the three tasks share one of them. *)
EXTENDS MemoryCell, TLC

CONSTANTS t1, t2, t3, h1, h2

MCHandleOf == (t1 :> h1) @@ (t2 :> h1) @@ (t3 :> h2)

\* The task with a handle of its own runs on another thread, and publishes
\* whatever it likes, live, besides its update.
MixedOperations ==
    (t1 :> {"update"}) @@ (t2 :> {"resolve", "update", "snapshot"})
      @@ (t3 :> {"resolve", "update", "publish"})
=============================================================================
