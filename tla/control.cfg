\* A connection and its successor.
SPECIFICATION FairSpec
CONSTANTS
    Conns = {c1, c2}
    NoConn = NoConn
    Failures <- MCFailures
    MaxSignals = 1
CHECK_DEADLOCK FALSE
INVARIANTS
    TypeOK
    ShownStateIsDue
    DeletedIsUnused
PROPERTIES
    DroppedIsDeleted
    DeniedIsRetried
