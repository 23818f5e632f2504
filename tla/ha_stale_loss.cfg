\* A loss overwrites a report that came after it.
CONSTANTS
    Host = {h1}
    Rpc = {r1}
    Task = {t1}
    MaxHb = 2
    ChanCap = 1
    EventCap = 1
    Timeout = 2
    InvTimeout = 2
    MaxRetries = 1
    Reported = {"running", "error"}
    MaxTime = 4
    Changes = {}
    MaxEnv = 0
SPECIFICATION Spec
PROPERTIES NewerStatusIsNotOverwritten
