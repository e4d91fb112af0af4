------------------------------ MODULE MCAccounts ------------------------------
(* Ann has applied for a job, Bob may be a member or a recruiter; each can be  *)
(* deleted.  Updates of Bob replace his details, remove them or keep them, and *)
(* a Google login and a sign-up are with his e-mail.  A sign-up, a recruiter's *)
(* and two logins are with one more e-mail.                                    *)
EXTENDS Accounts, TLC

CONSTANTS ann, bob, ea, eb, en, c1, c2, s1, s2, k1, l1, g1, g2, u1, u2, u3, x1, x2

MCEmailOf ==
    [x \in Ids |-> CASE x \in {ann, x1} -> ea
                     [] x \in {bob, x2, u1, u2, u3, s2, g2} -> eb
                     [] OTHER -> en]
MCListsOf ==
    [u \in Updates |-> CASE u = u1 -> "replaced" [] u = u2 -> "emptied" [] OTHER -> "kept"]
MCTargetOf == [r \in Updates \cup Deletes |-> IF r = x1 THEN ann ELSE bob]

\* An update that removes details or keeps them arrives with requests about Ann and Bob only.
AboutTheTwo ==
    (\A u \in {u2, u3} : at[u] = "new") \/ (\A r \in {s1, k1, l1, g1} : at[r] = "new")

MCSpec == Init /\ [][Next /\ AboutTheTwo']_vars

\* The connections of the pool are interchangeable.
Symmetry == Permutations({c1, c2})
===============================================================================
