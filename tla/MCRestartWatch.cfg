SPECIFICATION FairSpec
CONSTANTS
    RestartLimit = 2
    MaxFaults = 1
INVARIANTS NotItsOwn OwnResetIsOwed RestartsAreBounded
PROPERTIES RestartIsMet
