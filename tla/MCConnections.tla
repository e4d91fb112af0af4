---------------------------- MODULE MCConnections ----------------------------
(* Four requests about one pair: two decisions that race, a request after a     *)
(* rejection and one that comes from the other side.  Pairs share no state, so  *)
(* one is enough.                                                               *)
EXTENDS Connections, Sequences

CONSTANT p1

MCRequests == 1..4

BodyOrder == <<
    [pair |-> p1, kind |-> "ask",    rest |-> FALSE, by |-> "a"],
    [pair |-> p1, kind |-> "ask",    rest |-> TRUE,  by |-> "b"],
    [pair |-> p1, kind |-> "accept", rest |-> FALSE, by |-> "b"],
    [pair |-> p1, kind |-> "accept", rest |-> TRUE,  by |-> "b"],
    [pair |-> p1, kind |-> "reject", rest |-> FALSE, by |-> "b"],
    [pair |-> p1, kind |-> "reject", rest |-> TRUE,  by |-> "b"] >>

MCBodies == {BodyOrder[i] : i \in DOMAIN BodyOrder}

\* Requests differ in nothing but their bodies, so one order of the bodies is enough.
Rank(b) == CHOOSE i \in DOMAIN BodyOrder : BodyOrder[i] = b
MCInit == Init /\ \A q, r \in Requests : q <= r => Rank(body[q]) <= Rank(body[r])
MCSpec == MCInit /\ [][Next]_vars
===============================================================================
