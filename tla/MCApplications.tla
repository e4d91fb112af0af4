---------------------------- MODULE MCApplications ----------------------------
(* Submits of a member, of a recruiter without a members row and of one whose  *)
(* e-mail a member has race one another, a close and a recompute on one job    *)
(* with one earlier application; or else three status updates race one another *)
(* and a submit.                                                               *)
EXTENDS Applications, Sequences

CONSTANTS j1, m0, m1, rec, twin, old, k1, x1, u1, u2, u3

MCSubmits == 1..3

MCExistingOf == [a \in {old} |-> [job |-> j1, member |-> m0]]

\* The recruiter twin has the e-mail of the member m1.
MCEmails == {"m0", "m1", "rec"}
MCEmailOf ==
    [a \in Accounts |-> CASE a = m0 -> "m0" [] a = rec -> "rec" [] OTHER -> "m1"]

BodyOrder == <<
    [job |-> j1, member |-> m1,   email |-> NoOne],
    [job |-> j1, member |-> twin, email |-> "m1"],
    [job |-> j1, member |-> rec,  email |-> NoOne],
    [job |-> j1, member |-> rec,  email |-> "m1"] >>

MCSubmitBodies == {BodyOrder[i] : i \in DOMAIN BodyOrder}

\* Recruiters whose e-mail is their own.
MCOwnBodies == {b \in MCSubmitBodies : b.member # twin}

\* Of the earlier application, or of the one the submit stores.
MCUpdateBodies ==
    [application : {old}, status : {"interview", "offer", "rejected"}]
        \cup [application : {1}, status : {"reviewing"}]

Scenarios == {{1, 2, 3, k1, x1}, {1, 2, k1, x1}, {1, u1, u2, u3}}

\* Submits differ in nothing but their bodies, so one order of the bodies is enough.
Rank(b) == CHOOSE i \in DOMAIN BodyOrder : BodyOrder[i] = b
MCInit ==
    /\ Init
    /\ arriving \in Scenarios
    /\ \A q, r \in Submits : q <= r => Rank(sent[q]) <= Rank(sent[r])
    /\ \A r \in Submits \ arriving : sent[r] = BodyOrder[4]
    /\ 3 \in arriving => \A r \in Submits : sent[r] \in MCOwnBodies
    /\ u1 \notin arriving =>
          /\ row[old] = "submitted"
          /\ ordered = [u \in Updates |-> [application |-> 1, status |-> "reviewing"]]
MCSpec == MCInit /\ [][Next]_vars
MCFairSpec == MCSpec /\ \A r \in Submits : WF_vars(Submit(r))
===============================================================================
