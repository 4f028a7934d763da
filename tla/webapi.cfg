\* Two threads, and as many connections as they can log in.
SPECIFICATION FairSpec
CONSTANTS
    Threads = {t1, t2}
    Connections = {c1, c2, c3}
    NoConnection = NoConnection
    NoThread = NoThread
    ConnectionLimit = 2
CHECK_DEADLOCK FALSE
INVARIANTS
    TypeOK
    OpenConnectionsBounded
    PointersAreValid
PROPERTIES
    RequestsEnd
