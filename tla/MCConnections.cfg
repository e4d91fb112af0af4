CONSTANTS
    p1 = p1
    Pairs = {p1}
    Requests <- MCRequests
    Bodies <- MCBodies
    MaxFaults = 1
SPECIFICATION MCSpec
INVARIANTS
    TypeOK
    OneRequestSucceeds
    OnlyRejectsPartTheStores
    SequentialCallsAgree
    DoubleCountNeedsRace
PROPERTIES
    AcceptedIsFinal
