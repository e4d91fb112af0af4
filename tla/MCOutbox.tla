------------------------------- MODULE MCOutbox -------------------------------
(* Any two of three events are published: one of the Job service and two of      *)
(* Messaging with one key.  There are pollers in the Job and in the Application  *)
(* service, and batches of one row, so that a row blocks another.                *)
EXTENDS Outbox

CONSTANTS viewed, message, again, job, application, messaging, p1, p2

MCHomeOf == [e \in {viewed, message, again} |-> IF e = viewed THEN job ELSE messaging]
MCKeyOf  == [e \in {viewed, message, again} |-> IF e = viewed THEN "random" ELSE "thread"]
MCPollOf == [p \in {p1, p2} |-> IF p = p1 THEN job ELSE application]

\* The messages differ in nothing, so the order of their commits does not matter.
TwoEvents ==
    /\ Cardinality({e \in Events : publish[e] # "none"}) <= 2
    /\ publish[again] # "none" => publish[message] # "none"
MCSpec == Init /\ [][Next /\ TwoEvents']_vars /\ Fairness
===============================================================================
