SPECIFICATION FairSpec
CONSTANTS
  MaxGen = 2
  MaxSwitch = 1
  SpawnMayFail = TRUE
  MayCrash = TRUE
INVARIANTS OneHolder
PROPERTIES ResetBeforeBuild StopIsFinal ImplementsLifecycle StopTakesEffect EndedShowsComeDown
