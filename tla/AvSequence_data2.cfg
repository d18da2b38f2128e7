SPECIFICATION Spec
CONSTANTS
  LockTimeout = 1
  NoPacket = none
PROPERTIES FlightStateIsIgnored
