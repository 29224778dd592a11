SPECIFICATION FairSpec
CONSTANTS
  Callers = {c1, c2}
  Workers = {w1, w2, w3}
  NoThread = NoThread
INVARIANTS OneWorker StopSticks StartSticks
PROPERTIES QueuedStartResolves
