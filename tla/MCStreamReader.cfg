SPECIFICATION FairSpec
CONSTANTS
  MaxBytes = 4
  MaxRoom = 3
  MaxEmpty = 2
INVARIANTS
  TypeOK
  ReadsInOrder
  EofIsTheEnd
PROPERTIES
  ReadsComplete
CHECK_DEADLOCK FALSE
