\* One host and one handler; restarts and every change made by others.
CONSTANTS
    Host = {h1}
    Rpc = {r1}
    Task = {t1}
    MaxHb = 2
    ChanCap = 1
    EventCap = 1
    Timeout = 2
    InvTimeout = 2
    MaxRetries = 1
    Reported = {"running"}
    MaxTime = 3
    Changes = {"crash", "state", "instance", "maintenance", "agent"}
    MaxEnv = 2
SPECIFICATION Spec
INVARIANTS TypeOK RunningHostIsWatched SilenceIsReported
PROPERTIES TrustedHostStaysWatched ImplementsWatch
