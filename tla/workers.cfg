\* A managed and a session worker, ending at any time, stopped at any time or upon their answer.
CONSTANTS
    Features = {"dialog", "tray"}
    Managed = {"dialog"}
    StopsOnAnswer = {"dialog"}
    MayStop = {"dialog", "tray"}
    Procs = {p1, p2}
    NoProc = NoProcess
    MaxSent = 2
    MayEnd = TRUE
    MayShutdown = TRUE
SPECIFICATION FairSpec
INVARIANTS TypeOK WorkerHasLiveConnection HandledInOrder
PROPERTIES MessagesAreHandled ForgottenWorkerEnds
CHECK_DEADLOCK FALSE
