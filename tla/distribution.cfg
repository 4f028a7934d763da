\* Two runs, or one and a fault; a user who may log on late.
SPECIFICATION FairSpec
CONSTANTS
    c1 = c1
    f1 = f1
    f2 = f2
    f3 = f3
    NoFile = NoFile
    Computers = {c1}
    Files = {f1, f2, f3}
    Size <- MCSize
    Selections <- MCSelections
    Unreadable = {f3}
    Unsure = {f2}
    Existing <- MCExisting
    MaxRuns = 2
    MaxLate = 1
    MaxEvents = 2
CHECK_DEADLOCK FALSE
INVARIANTS
    TypeOK
    WrittenInOrder
PROPERTIES
    CancelRemovesItsOwn
    DistributionEnds
    UndisturbedIsReceived
