SPECIFICATION FairSpec
CONSTANTS
  MaxCodes = 2
  MaxMisses = 1
  Sends = {s1, s2}
  Checks = {k1}
INVARIANTS
  OnceFromEachPlace
  OneMessagePerWindow
  NewestServesWithoutMiss
PROPERTIES
  WindowsEndInMemory
