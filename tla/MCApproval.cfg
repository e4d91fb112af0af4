CONSTANTS
    c1 = c1
    c2 = c2
    Requests <- MCRequests
    Candidates <- MCCandidates
    Bodies <- MCBodies
    Results <- MCResults
    MaxRuns = 2
SPECIFICATION MCFairSpec
INVARIANTS
    TypeOK
    OneRecordPerCandidate
    ClaimIsALock
    DuplicateOnlyAfterLostAnswer
    RecordIsHonest
    NoSlotWithoutResult
PROPERTIES
    RefinesOutreachDecision
    EveryClaimSettles
