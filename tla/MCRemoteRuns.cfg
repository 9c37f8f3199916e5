SPECIFICATION FairSpec
CONSTANTS
  d1 = d1
  d2 = d2
  Sessions <- TwoDevices
  MaxChanges = 3
  MaxRoutes = 2
  MaxRuns = 1
INVARIANTS OnlyOwnRuns CancelledOrReplaced
PROPERTIES ClosingTold UnsharedCloses
