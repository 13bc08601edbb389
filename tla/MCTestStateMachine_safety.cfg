SPECIFICATION Spec
CONSTANTS
    r1 = r1
    r2 = r2
    NoRun = NoRun
    Runs = {r1, r2}
    V2G_HEARTBEAT_TIMEOUT = 1
    V2G_CANCELLATION_TIMEOUT = 1
    CLEANUP_PERIOD = 1
    SniffingEnabled = TRUE
SYMMETRY RunSymmetry
INVARIANTS
    TypeOK
    OneEndPerRun
    InScheduleOrder
    ResultsCarryOwnCapture
    SetUpAndCleanedUp
PROPERTIES
    ImplementsLifecycle
