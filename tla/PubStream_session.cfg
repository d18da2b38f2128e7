SPECIFICATION RunningSpec
CONSTANTS
  Viewer = {}
  Session = {s}
  Numbers = 5
  HighWater = 3
  MaxFaults = 0
  None = None
PROPERTY SessionResyncs
