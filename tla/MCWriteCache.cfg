CONSTANTS
  Regions = {screen}
  NumSlabs = 3
  Values = {v0, v1}
  Blank = blank
  Tries = 2
  MaxWire = 2
  MaxFaults = 2
  MaxChanges = 1
SPECIFICATION FairSpec
INVARIANTS CacheIsTrue ConfirmedHasRun
PROPERTIES PictureHeals
