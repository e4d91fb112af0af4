------------------------------ MODULE MCJobCache -----------------------------
(* One job with two readers, a search, an update, a close, a view, a recompute  *)
(* and a submit, and a second job that is created meanwhile.                    *)
EXTENDS JobCache

CONSTANTS j1, j2, g1, g2, s1, c1, u1, k1, v1, n1, a1

MCJobOf == [r \in Requests \ Searches |-> IF r = c1 THEN j2 ELSE j1]
===============================================================================
