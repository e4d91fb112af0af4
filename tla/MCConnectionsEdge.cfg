CONSTANTS
    p1 = p1
    Pairs = {p1}
    Requests <- MCRequests
    Bodies <- MCBodies
    MaxFaults = 0
SPECIFICATION MCSpec
INVARIANT EdgesAreAccepted
