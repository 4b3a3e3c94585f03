SPECIFICATION Spec
CONSTANTS
  MaxCodes = 1
  MaxMisses = 0
  Sends = {s1}
  Checks = {k1}
INVARIANT
  ServedOnce
