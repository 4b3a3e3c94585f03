SPECIFICATION FairSpec
CONSTANTS
  Devices = {d1}
  Families = {f1}
  NoFamily = NoFamily
  Hashes = {h1}
  Prefixes = {p1}
  Behaviors = {}
  MaxVersion = 3
  DirectSwitch = FALSE
INVARIANTS
  NumbersDelivered
PROPERTIES
  VersionsGrow
  ImplementsDelivery
  EventuallyDelivered
