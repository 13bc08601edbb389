SPECIFICATION Spec
CONSTANTS
    t1 = t1
    s1 = s1
    Conn = {t1, s1}
    Tls = {s1}
    NoConn = NoConn
INVARIANTS
    TypeOK
    RegisteredWrapperAlive
    ContextCleared
PROPERTIES
    LoneSessionUndisturbed
    SilentConnectionEnds
