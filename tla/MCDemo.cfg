SPECIFICATION DemoSpec
CONSTANTS
  MaxRuns = 2
  MaxStrays = 1
  Balances <- MCBalances
  VerifierReasons = {"MissingBodyField"}
  ProverErrors = {"eof"}
INVARIANT CardIsVerdict
PROPERTY ButtonComesBack
CHECK_DEADLOCK FALSE
