SPECIFICATION FairSpec
CONSTANTS
  Phones = {p1, p2}
  Devices = {d1, d2}
  Logins = {l1}
  NoDevice = NoDevice
  Setups <- MCSetups
  MaxSessions = 2
INVARIANTS
  OneDeviceEach
  NoImpersonation
PROPERTIES
  KickedForGood
  KickedInTheEnd
