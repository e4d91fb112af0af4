CONSTANTS
    ann = ann
    bob = bob
    ea = ea
    eb = eb
    en = en
    c1 = c1
    c2 = c2
    s1 = s1
    s2 = s2
    k1 = k1
    l1 = l1
    g1 = g1
    g2 = g2
    u1 = u1
    u2 = u2
    u3 = u3
    x1 = x1
    x2 = x2
    None = None
    Emails = {ea, eb, en}
    Connections = {c1, c2}
    Existing = {ann, bob}
    Applied = {ann}
    Signups = {s1, s2}
    Recruits = {k1}
    Logins = {l1}
    Googles = {g1, g2}
    Updates = {u1, u2, u3}
    Deletes = {x1, x2}
    EmailOf <- MCEmailOf
    ListsOf <- MCListsOf
    TargetOf <- MCTargetOf
    MaxSent = 4
    MaxFaults = 1
SPECIFICATION MCSpec
INVARIANTS
    TypeOK
    AnsweredIsKept
    OneAccountPerEmail
    DeletedTogether
SYMMETRY Symmetry
