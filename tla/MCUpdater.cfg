CONSTANTS
    Procs = {p1, p2}
    NParts = 3
    UpdaterPart = 2
    MaxVersion = 3
    MaxStarts = 5
    MaxFaults = 2
    MaxCrashes = 1
SPECIFICATION FairSpec
INVARIANTS
    WholeOrKept
    ServiceReturns
PROPERTIES
    InstallsSigned
    WorkspaceReturns
CHECK_DEADLOCK FALSE
