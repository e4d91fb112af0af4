CONSTANTS
    t1 = t1
    t2 = t2
    w1 = w1
    w2 = w2
    NoOne = NoOne
    Tasks <- MCTasks
    Replicas <- MCReplicas
    MaxLog = 1
    MaxDeliveries = 2
    MaxAttempts = 1
    MaxFaults = 1
SPECIFICATION Spec
INVARIANT RunningTaskIsAlive
CHECK_DEADLOCK FALSE
