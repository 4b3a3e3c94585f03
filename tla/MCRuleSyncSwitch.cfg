SPECIFICATION Spec
CONSTANTS
  Devices = {d1}
  Families = {f1, f2}
  NoFamily = NoFamily
  Hashes = {h1}
  Prefixes = {p1}
  Behaviors = {}
  MaxVersion = 1
  DirectSwitch = TRUE
INVARIANT
  NumbersDelivered
