SPECIFICATION FairSpec
CONSTANTS
  MaxScenes = 2
  Outcomes = {"plays", "ends", "raises"}
  CardMayRaise = FALSE
  Loops = {TRUE, FALSE}
  LossyTries = 1
  Requests = {"skip", "jump", "pause", "resume", "reload", "stop"}
  MaxAsks = 2
  MaxFaults = 1
PROPERTIES StopEnds JumpServed NothingStartsEnds ResumeWakes
INVARIANTS NothingUnderneath LeakIsOwed RestoredBeforeSetup
CHECK_DEADLOCK FALSE
