SPECIFICATION FairSpec
CONSTANTS
  left = left
  middle = middle
  right = right
  Systems = {left, middle, right}
  Shows <- WaitShows
  MayPause = FALSE
  MayJump = FALSE
  MayStop = FALSE
  MaxFaults = 0
PROPERTIES InterruptedJoin WaitersServed
