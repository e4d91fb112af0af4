--------------------------- MODULE OutreachDecision ---------------------------
(***************************************************************************)
(* What POST /ai/approve promises a recruiter about one shortlist: each    *)
(* candidate has one decision, it is taken by one request at a time, and   *)
(* only a failed send may be decided again.  Module Approval is the code   *)
(* that has to keep this promise.                                          *)
(***************************************************************************)
CONSTANT Candidates

VARIABLE decision       \* decision[c]: where the decision about candidate c is

Decisions == {"open", "send_pending", "recorded", "completed", "send_failed", "rejected"}

Init == decision = [c \in Candidates |-> "open"]

\* A request takes the decision: nobody has it, or the last send failed.
Take(c) ==
    /\ decision[c] \in {"open", "send_failed"}
    /\ \E d \in {"send_pending", "recorded"} : decision' = [decision EXCEPT ![c] = d]

\* The request that took the decision says how it ended.
Conclude(c) ==
    \/ /\ decision[c] = "send_pending"
       /\ \E d \in {"completed", "send_failed"} : decision' = [decision EXCEPT ![c] = d]
    \/ /\ decision[c] = "recorded"
       /\ decision' = [decision EXCEPT ![c] = "rejected"]

Next == \E c \in Candidates : Take(c) \/ Conclude(c)

Spec == Init /\ [][Next]_decision
===============================================================================
