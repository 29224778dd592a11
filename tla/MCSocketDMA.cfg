CONSTANTS
  Threads = {render, audio}
  MainThread = render
  Identify = Identify
  NoThread = NoThread
  MaxWire = 2
  MaxFaults = 2
SPECIFICATION Spec
PROPERTIES FlushHonest ImplementsLossyLink
