CONSTANTS
    j1 = j1
    j2 = j2
    g1 = g1
    g2 = g2
    s1 = s1
    c1 = c1
    u1 = u1
    k1 = k1
    v1 = v1
    n1 = n1
    a1 = a1
    None = None
    Jobs = {j1, j2}
    Reads = {g1, g2}
    Searches = {s1}
    Creates = {c1}
    Updates = {u1}
    Closes = {k1}
    Views = {v1}
    Recomputes = {n1}
    Submits = {a1}
    JobOf <- MCJobOf
    MaxSent = 3
    MaxFaults = 2
SPECIFICATION FairSpec
INVARIANTS
    TypeOK
    OutdatedHasACause
PROPERTIES
    CopiesConverge
