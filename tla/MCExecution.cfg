SPECIFICATION Spec
CHECK_DEADLOCK FALSE
CONSTANTS
  Runs <- AllRuns
  MaxItems = 2
INVARIANTS RetriedSafely BudgetExact NothingAfterFailureHere ParallelAllEntered RowReportsUnit
PROPERTY Terminates
