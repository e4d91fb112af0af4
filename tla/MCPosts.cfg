CONSTANTS
    p1 = p1
    p2 = p2
    ann = ann
    bob = bob
    old = old
    text = text
    n1 = n1
    t1 = t1
    t2 = t2
    t3 = t3
    t4 = t4
    a1 = a1
    d1 = d1
    d2 = d2
    x1 = x1
    x2 = x2
    Posts = {p1, p2}
    Keys = {ann, bob, old, text}
    Creates = {n1}
    Toggles = {t1, t2, t3, t4}
    Adds = {a1}
    Removals = {d1, d2}
    Deletes = {x1, x2}
    PostOf <- MCPostOf
    KeyOf <- MCKeyOf
    Seeded <- MCSeeded
    ByAuthor = {d1, d2, x1}
    MaxSent = 4
    MaxFaults = 1
SPECIFICATION Spec
INVARIANTS
    TypeOK
    CountNeverExceeds
    DriftHasACause
