----------------------------- MODULE MCAiPipeline -----------------------------
(* Two tasks on two replicas, w1 the owner of the partition: a message behind   *)
(* another one, duplicates from the outbox, a redelivery after a crash, and     *)
(* threads and coroutines that outlive their replica's ownership.               *)
EXTENDS AiPipeline

CONSTANTS t1, t2, w1, w2
MCTasks    == {t1, t2}
MCReplicas == {w1, w2}

\* Either the second request was refused, which leaves all faults to the first task, or
\* both tasks are to come and a fault is behind them.
MCInit ==
    \E refused \in {{}, {t2}} :
        /\ handler = [t \in Tasks |-> IF t \in refused THEN "500" ELSE "idle"]
        /\ faults = IF refused = {} THEN 1 ELSE 0
        /\ owner = w1 /\ position = 0 /\ committed = 0
        /\ awaited = [w \in Replicas |-> 0]
        /\ trace = [t \in Tasks |-> "absent"] /\ result = {} /\ lostWrite = {}
        /\ outbox = [t \in Tasks |-> "none"] /\ attempts = [t \in Tasks |-> 0] /\ flagged = {}
        /\ batch = [w \in Replicas |-> [t \in Tasks |-> NoRow]]
        /\ log = <<>> /\ delivery = <<>>
        /\ ledger = [t \in Tasks |-> "none"]
        /\ aged = [t \in Tasks |-> 0] /\ takeovers = [t \in Tasks |-> 0]

MCSpec == MCInit /\ [][Next]_vars /\ Fairness
===============================================================================
