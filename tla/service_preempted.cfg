\* Two sessions, and the server is to follow the latest.
SPECIFICATION FairSpec
CONSTANTS
    Sessions = {"s1", "s2"}
    Configurations <- OneServerAtATime
CHECK_DEADLOCK FALSE
PROPERTIES
    PreemptedIsRestarted
