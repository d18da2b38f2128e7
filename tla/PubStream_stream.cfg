SPECIFICATION RunningSpec
CONSTANTS
  Viewer = {v}
  Session = {s}
  Numbers = 5
  HighWater = 2
  MaxFaults = 2
  None = None
INVARIANTS PairsMatch FaultsCostTwo
PROPERTIES ViewerResyncs
