CONSTANTS
    t1 = t1
    t2 = t2
    w1 = w1
    w2 = w2
    NoOne = NoOne
    Tasks <- MCTasks
    Replicas <- MCReplicas
    MaxLog = 2
    MaxDeliveries = 3
    MaxAttempts = 2
    MaxFaults = 2
SPECIFICATION MCSpec
INVARIANTS
    TypeOK
    OneRunPerClaim
    FinalizedIsTerminal
    CommittedWasDelivered
PROPERTIES
    TerminalIsFinal
    QueuedTaskEnds
CHECK_DEADLOCK FALSE
