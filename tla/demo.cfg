\* Two viewers of a screen that changes in the middle, or at both ends.
SPECIFICATION FairSpec
CONSTANTS
    Viewers = {v1, v2}
    Regions <- MCRegions
    Corners <- MCCorners
    ChangeSets <- MCChangeSets
    MaxChanges = 3
    MemoryLimit = 1
    MaxInFlight = 2
INVARIANTS
    TypeOK
    PictureWasOnScreen
PROPERTIES
    ViewersFollow
