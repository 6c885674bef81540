SPECIFICATION Spec
CONSTANTS
  U64 = 1024
  VaultSize = 1
  Rent <- MCRent
  MaxIncrease = 15
  KeyAsU64 = 700
  Bps = 4
  InnerValue = 6
  CuCeiling = 40
  Refused = Refused
  InitialBalance = 40
  UnlockDelay = 2
  Sample <- MCSample
  Inputs <- MCInputs
  MaxAmount <- MCMaxAmount
  CuBudget = 2
  CleanSource <- MCCleanSource
  Tests <- MCTests
  TestsOf <- MCTestsOf
  Idls <- MCIdls
  NoViolation = NoViolation
  MaxActions = 3
  MaxIterations = 2
INVARIANTS ReportsWhatIsWrong KillsAreDifferences DetectionsUnchanged VaultBacked NotReachedMadeNoDifference
PROPERTIES PaidInTurn
CHECK_DEADLOCK FALSE
