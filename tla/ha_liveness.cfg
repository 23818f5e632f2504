\* Silent hosts are marked, untrusted hosts are forgotten, reporting
\* hosts are shown again.
CONSTANTS
    Host = {h1}
    Rpc = {r1}
    Task = {t1}
    MaxHb = 1
    ChanCap = 1
    EventCap = 1
    Timeout = 1
    InvTimeout = 1
    MaxRetries = 1
    Reported = {"running"}
    MaxTime = 2
    Changes = {"agent", "state"}
    MaxEnv = 2
SPECIFICATION FairSpec
PROPERTIES SilentHostIsMarked UntrustedHostIsForgotten ReportingHostRecovers
