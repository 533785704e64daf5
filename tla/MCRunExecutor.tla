--------------------------- MODULE MCRunExecutor ---------------------------
\* The executor with two submissions to one scope, one of which does not wait.
EXTENDS RunExecutor, TLC

CONSTANTS c1, c2, a, k1

SameScope == c1 :> a @@ c2 :> a
AnyOrder  == k1 :> {"stop", "wait", "shutdown"}
============================================================================
