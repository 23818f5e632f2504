\* The package-level status text grows.
CONSTANTS
    Instances = {i1}
    Immutable = {}
    Rpc = {r1}
    Types = {"UP_TO_DATE", "STARTED", "UPDATED", "FAILED", "DOWNLOADING", "DOWNLOADED"}
    LogSizes = {2}
    Lists = {0}
    MaxOS = 1
    SerialAgents = TRUE
    Failing = {}
    Restarts = FALSE
    MaxRuns = 2
    MaxDone = 2
SPECIFICATION Spec
PROPERTIES CompletedRunIsFinal
