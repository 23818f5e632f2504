\* Pages of one, lost calls, restarts.
CONSTANTS
    Profiles = {1, 2}
    Groups = {g1, g2}
    Relations = {r1}
    BatchSize = 1
    Failing = {"get", "list"}
    Restarts = TRUE
    MaxVersion = 1
    MaxEvents = 2
SPECIFICATION FairSpec
INVARIANTS TypeOK CachedIsListed GhostsAreAnnounced
PROPERTIES CacheConverges
