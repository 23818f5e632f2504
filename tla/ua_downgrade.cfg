\* A build of the morning and one of the evening.
CONSTANTS
    Images <- OneDay
    Schedules <- MCSchedules
    Policies <- MCPolicies
    MaxInt = 5
    Times = {1}
    MaxFaults = 0
SPECIFICATION Spec
PROPERTIES LatestNeverLeadsBackInNumbers
