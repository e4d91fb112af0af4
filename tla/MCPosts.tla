-------------------------------- MODULE MCPosts --------------------------------
(* Two members like and unlike one post, one of them from several windows; its *)
(* comment is deleted twice while another is added; its author and somebody    *)
(* else delete it.  A second post is created.                                  *)
EXTENDS Posts

CONSTANTS p1, p2, ann, bob, old, text, n1, t1, t2, t3, t4, a1, d1, d2, x1, x2

MCPostOf == [r \in Requests |-> IF r = n1 THEN p2 ELSE p1]
\* The post that is there is a seeded one: a like has no row.
MCSeeded ==
    [k \in Kinds |-> [p \in Posts |-> IF k = "reactions" /\ p = p1 THEN 1 ELSE 0]]
MCKeyOf ==
    [r \in Changes |->
        CASE r \in {t1, t2, t3} -> ann
          [] r = t4 -> bob
          [] r = a1 -> text
          [] OTHER -> old]
===============================================================================
