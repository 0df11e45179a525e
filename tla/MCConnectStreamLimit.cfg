SPECIFICATION Spec
CONSTANTS
  MAX_PREAMBLE_BYTES = 3
  BUF = 2
  LineLengths = {2, 3, 4, 6}
  VerifyLength = 2
  ConnectLength = 3
  MaxClientBytes = 7
  MaxBankBytes = 3
INVARIANTS
  LimitIsKept
