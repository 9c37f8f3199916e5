CONSTANTS
    Docs = {d1, d2}
    Bodies = {b1, b2}
    Absent = Absent
    None = None
    MaxEdits = 1
    MaxChanges = 1
    MaxFaults = 1
    MaxSyncs = 2
SYMMETRY Symmetry
SPECIFICATION SyncSpec
INVARIANTS
    RecordsTrue
    RemovedOnlyHeld
    ReplacedOnlyPlanned
CHECK_DEADLOCK FALSE
