SPECIFICATION QueueFairSpec
CONSTANTS
  Calls = {c1, c2, c3}
  Fallback = {c1}
  BatchSize = 2
  MaxLost = 2
INVARIANTS
  QueueTypeOK
  DuplicatesOnlyAfterLoss
PROPERTIES
  ImplementsDelivery
  UploadedUnlessRefused
