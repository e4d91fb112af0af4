----------------------------- MODULE EventDelivery -----------------------------
(* What the services' event channel promises to analytics: an event that was  *)
(* accepted, by the broker or by the outbox table, stays accepted, and it is   *)
(* counted at most once and only then; of the events with one idempotency key  *)
(* at most one is.  An event may be given up before it is accepted; nothing is *)
(* said of when an accepted one is counted.                                    *)
EXTENDS Naturals

CONSTANTS
    Events,
    KeyOf       \* KeyOf[e]: the idempotency key of e

VARIABLES
    accepted,   \* events the channel has taken over
    counted     \* counted[e]: documents of e in the events collection

Init ==
    /\ accepted = {}
    /\ counted = [e \in Events |-> 0]

Accept(e) ==
    /\ e \notin accepted
    /\ accepted' = accepted \cup {e}
    /\ UNCHANGED counted

Count(e) ==
    /\ e \in accepted
    /\ \A f \in Events : KeyOf[f] = KeyOf[e] => counted[f] = 0
    /\ counted' = [counted EXCEPT ![e] = 1]
    /\ UNCHANGED accepted

Next == \E e \in Events : Accept(e) \/ Count(e)

Spec == Init /\ [][Next]_<<accepted, counted>>
===============================================================================
