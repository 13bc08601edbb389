SPECIFICATION Spec
CONSTANTS
    t1 = t1
    t2 = t2
    Conn = {t1, t2}
    Tls = {}
    NoConn = NoConn
INVARIANT OneSessionAtATime
