\* Two images; all policies; schedules that are and are not valid.
CONSTANTS
    Images <- MCImages
    Schedules <- MCSchedules
    Policies <- MCPolicies
    MaxInt = 5
    Times = {1}
    MaxFaults = 1
SPECIFICATION FairSpec
INVARIANTS TypeOK
PROPERTIES ClosestIsAnswered LatestNeverLeadsBack AdviceSettles InstalledIsShown OfferIsCurrent
