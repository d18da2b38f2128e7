SPECIFICATION InterfacesSpec
CONSTANTS
  Payload = {p1, p2}
  Nothing = none
  Heartbeat = 2
  InitialBackoff = 1
  MaxBackoff = 8
  SendTimeout = 4
  MaxConnect = 2
  MaxHeard = 4
  MaxTrouble = 3
  Nobody = nobody
SYMMETRY Symmetry
INVARIANTS
  HeartbeatIsKept PeerIsCurrent RecoversInTime
  ReadsWhatItHeard ListensUnlessRefused
