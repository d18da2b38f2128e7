SPECIFICATION ThreadSpec
CONSTANTS
  LockTimeout = 1
  NoPacket = none
INVARIANT TurnsAreTaken
PROPERTIES BroadcastIsEarned RoundsEnd SettlesInBurn
