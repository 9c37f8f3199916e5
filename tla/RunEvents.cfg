SPECIFICATION FairSpec
CONSTANT MaxEvents = 3
\* A run that is over and followed to its end leaves nothing to do.
CHECK_DEADLOCK FALSE
INVARIANTS FollowsExactly EndMeansAll
PROPERTIES DeviceHearsEnd PauseReachesTab
