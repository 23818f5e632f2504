\* No call fails, all profiles in one page; a query among changes.
CONSTANTS
    g1 = g1
    r1 = r1
    r2 = r2
    Profiles = {1, 2}
    Groups = {g1}
    Relations = {r1, r2}
    BatchSize = 2
    Failing = {}
    Restarts = TRUE
    MaxVersion = 1
    MaxEvents = 1
    Path <- MCPath
    Kind <- MCKind
    Inputs <- MCInputs
    Setting <- MCSetting
SPECIFICATION SystemFairSpec
INVARIANTS QuietCacheIsCurrent 
PROPERTIES SteadyIsConfigured AnswersConverge
