\* Lost and half-applied calls and restarts, one report of a host at a time.
CONSTANTS
    Instances = {i1, i2}
    Immutable = {i1}
    Rpc = {r1}
    Types = {"UNSPECIFIED", "UP_TO_DATE", "STARTED", "UPDATED", "FAILED", "DOWNLOADING", "DOWNLOADED"}
    LogSizes = {}
    Lists = {0}
    MaxOS = 2
    SerialAgents = TRUE
    Failing = {"os", "instance", "create", "update"}
    Restarts = TRUE
    MaxRuns = 2
    MaxDone = 0
SPECIFICATION Spec
INVARIANTS TypeOK  FinishedRunIsEnded
PROPERTIES ImplementsLog
