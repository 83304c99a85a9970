SPECIFICATION FairSpec
CONSTANTS
  MaxFiles = 3
  WorkersFlag = 5
  MaxWorkers = 2
  ProgressThreshold = 2
INVARIANTS
  TypeOK
  EveryBatchOnce
  BoundedOvertaking
  ClosedAfterLastSend
  ProgressExact
  CleanAfterReturn
  NothingLeftRunning
PROPERTIES
  ShownNeverGoesBack
  ScanReturns
  KeepsPromise
