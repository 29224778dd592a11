SPECIFICATION Spec
CONSTANTS
  left = left
  middle = middle
  right = right
  Systems = {left, right}
  Shows <- MixedShows
  MayPause = TRUE
  MayJump = TRUE
  MayStop = TRUE
  MaxFaults = 1
INVARIANTS OneSounds SlotIsUsed LineIsServed NobodyMissed
CHECK_DEADLOCK FALSE
