SPECIFICATION FairSpec
CONSTANTS
  Kinds = {"write", "read", "spans", "file", "post", "reset", "ping", "drain"}
  Quiet = 6
  DeadQuiet = 4
  MinQuiet = 2
  HeaderWait = 7
  JobCeiling = 7
  IoTimeout = 2
  Reply = 1
  Late = 3
  Owed = 2
  Discard = 2
  HeaderGivesUp = 3
  Job = 6
  CutBehindPayload = FALSE
  MaxFaults = 4
INVARIANTS NothingMisread ReplyIsOwn
PROPERTIES LinkRecovers
