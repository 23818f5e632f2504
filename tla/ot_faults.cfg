\* A tenant's life with failing and half-applied calls, restarts.
CONSTANTS
    Tenants = {t1}
    Revisions = {p1, p2}
    ProfileId <- OwnVersion
    Default = p1
    Automation = TRUE
    AutoProvision = TRUE
    MaxFeed = 2
    MaxFaults = 2
SPECIFICATION FairSpec
INVARIANTS TypeOK AckedIsInitialised OneOSPerProfile
PROPERTIES CreatedIsAcked DeletedIsReleased CVEsConverge
