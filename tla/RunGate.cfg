SPECIFICATION FairSpec
CONSTANT MaxInvocations = 3
INVARIANTS ConsentBeforeEffect RefusedNotPerformed CancelStops
PROPERTY CancelEndsRun
