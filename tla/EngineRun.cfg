SPECIFICATION FairSpec
CONSTANTS
  lint = lint
  test = test
  Errors <- TwoErrors
  MaxSameError = 2
  MaxTotalFailures = 3
  MaxIterations = 3
  MaxVerificationRetries = 2
  MaxFixTurns = 1
  MaxStallRetries = 1
  Caps = {0, 3}
  MaxCorrectionRounds = 4
  PlanSteps = 2
  MaxStreak = 2
  MaxVerificationStreak = 2
  MaxCorrections = 1
  MaxAttempts = 2
  MaxFailedFixes = 2
  MaxExecutions = 2
INVARIANTS TypeOK CompletedIsVerified FailedAsksNothing SpendWithinCap
PROPERTIES ExecutionEnds ContractSpec
CHECK_DEADLOCK FALSE
