SPECIFICATION Spec
CONSTANTS
  Numbers = {n1, n2}
  NoNumber = NoNumber
  UrgentMin = 3
  BlockMin = 2
  Copies = {1, 2}
  MaxCalls = 3
  MaxJobs = 3
SYMMETRY Symmetry
INVARIANTS
  EveryMissIsNoted
  UrgentCallsPass
