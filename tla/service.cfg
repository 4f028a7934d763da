\* Two sessions that are opened, closed and removed at any time.
SPECIFICATION FairSpec
CONSTANTS
    Sessions = {"s1", "s2"}
    Configurations <- AllConfigurations
CHECK_DEADLOCK FALSE
INVARIANTS
    TypeOK
    ServersAreApart
PROPERTIES
    RemovedIsStopped
    ActiveIsServed
