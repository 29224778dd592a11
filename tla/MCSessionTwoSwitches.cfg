SPECIFICATION Spec
CONSTANTS
  MaxGen = 3
  MaxSwitch = 2
  SpawnMayFail = FALSE
  MayCrash = FALSE
INVARIANTS
  OneHolder
