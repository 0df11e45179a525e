SPECIFICATION FairSpec
CONSTANTS
  MaxBytes = 4
  MaxQueue = 6
INVARIANTS
  TypeOK
  NothingReportedEarly
  EveryByteOnce
PROPERTIES
  CloseAfterWrites
  WritesComplete
CHECK_DEADLOCK FALSE
