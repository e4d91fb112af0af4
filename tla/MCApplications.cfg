CONSTANTS
    j1 = j1
    m0 = m0
    m1 = m1
    rec = rec
    twin = twin
    NoOne = NoOne
    old = old
    k1 = k1
    x1 = x1
    u1 = u1
    u2 = u2
    u3 = u3
    Jobs = {j1}
    Members = {m0, m1}
    Recruiters = {rec, twin}
    Emails <- MCEmails
    EmailOf <- MCEmailOf
    Existing = {old}
    ExistingOf <- MCExistingOf
    Submits <- MCSubmits
    SubmitBodies <- MCSubmitBodies
    Closes = {k1}
    Recomputes = {x1}
    Updates = {u1, u2, u3}
    UpdateBodies <- MCUpdateBodies
SPECIFICATION MCFairSpec
INVARIANTS
    TypeOK
    OneApplicationPerMember
    CountNeverExceeds
    CountIsExactUntilRecompute
    OfferWasEarned
PROPERTIES
    EverySubmitEnds
