SPECIFICATION FairSpec
CONSTANTS
  StartUp = init
  Workers = {init, cron, admin}
  MonthsBack = 1
  MonthsAhead = 2
  KeepMonths = 3
  LastMonth = 6
  Skew = 2
  MaxRows = 1
INVARIANTS
  SplitsInOrder
  MonthHasPartition
  OldRowsGo
PROPERTIES
  YoungRowsStay
  AheadInTheEnd
