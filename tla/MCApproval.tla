------------------------------ MODULE MCApproval ------------------------------
(* Three requests about two candidates and two runs of the task: enough for a  *)
(* retry of a failed send to race a third request, for one candidate's slot not*)
(* to block the other's, and for the task to run again under pending approvals.*)
EXTENDS Approval, Sequences

CONSTANTS c1, c2

MCRequests   == 1..3
MCCandidates == {c1, c2}

BodyOrder == <<
    [member |-> c1, action |-> "approve", content |-> FALSE],
    [member |-> c1, action |-> "reject",  content |-> FALSE],
    [member |-> c2, action |-> "edit",    content |-> TRUE],
    [member |-> c2, action |-> "edit",    content |-> FALSE] >>

MCBodies == {BodyOrder[i] : i \in DOMAIN BodyOrder}

\* The draft of c1 may be missing (below the score threshold).
MCResults ==
    {[c \in MCCandidates |-> "draft"],
     [c \in MCCandidates |-> IF c = c2 THEN "draft" ELSE "no_draft"]}

\* Requests differ in nothing but their bodies, so one order of the bodies is enough.
Rank(b) == CHOOSE i \in DOMAIN BodyOrder : BodyOrder[i] = b
MCInit == Init /\ \A q, r \in Requests : q <= r => Rank(body[q]) <= Rank(body[r])
MCFairSpec == MCInit /\ [][Next]_vars /\ \A r \in Requests : WF_vars(Handle(r))
===============================================================================
