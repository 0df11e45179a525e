SPECIFICATION Spec
CONSTANTS
  DAY = 2
  VALID_DAYS = 13
  RENEW_WHEN_DAYS_LEFT = 2
  CEILING_DAYS = 14
  MaxTime = 32
  MaxCerts = 3
INVARIANTS
  PageConnects
  ServedIsCached
PROPERTIES
  StableAcrossRestarts
