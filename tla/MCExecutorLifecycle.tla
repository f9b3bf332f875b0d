------------------------- MODULE MCExecutorLifecycle -------------------------
(* A family of processes for ExecutorLifecycle: a parent and its child with  *)
(* two threads each, which may both fork the third process.                  *)
EXTENDS ExecutorLifecycle, TLC

CONSTANTS t1, t2, u1, u2, v1, parent, child, grandchild

Family        == {parent, child, grandchild}
FamilyThreads == {t1, t2, u1, u2, v1}
FamilyHome    == (t1 :> parent) @@ (t2 :> parent) @@ (u1 :> child) @@ (u2 :> child)
                 @@ (v1 :> grandchild)
==============================================================================
