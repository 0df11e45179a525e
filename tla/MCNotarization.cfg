SPECIFICATION FairSpec
CONSTANTS
  b1 = b1
  b2 = b2
  Balances <- MCBalances
  MAX_SENT_DATA <- MCMaxSent
  MAX_RECV_DATA <- MCMaxRecv
  ProverInputs <- MCProverInputs
INVARIANTS
  TypeOK
  SuccessIsEarned
  MuxNeverEatsFrame
  PoliciesCoverValidation
  VerdictIsTold
  RefusalIsNamed
  HonestRunSucceeds
PROPERTIES
  Implements
  EveryoneStops
