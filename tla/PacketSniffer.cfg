SPECIFICATION FairSpec
CONSTANTS
    t1 = t1
    t2 = t2
    t3 = t3
    Thread = {t1, t2, t3}
    OpenMayFail = TRUE
INVARIANTS
    TypeOK
    CapturesAreSeparate
PROPERTIES
    ImplementsCapture
    CapturesEnd
