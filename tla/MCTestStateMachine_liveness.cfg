SPECIFICATION FairSpec
CONSTANTS
    r1 = r1
    r2 = r2
    NoRun = NoRun
    Runs = {r1, r2}
    V2G_HEARTBEAT_TIMEOUT = 0
    V2G_CANCELLATION_TIMEOUT = 0
    CLEANUP_PERIOD = 0
    SniffingEnabled = FALSE
PROPERTIES
    HungTestIsAborted
    CancelEnds
    EveryTestIsServed
