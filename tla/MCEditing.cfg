SPECIFICATION FairSpec
CONSTANTS
  b1 = b1
  b2 = b2
  b3 = b3
  Bodies = {b1, b2, b3}
  Original = b1
  Absent = Absent
  NoText = NoText
  Unwatched = Unwatched
  MaxEdits = 2
  MaxSaves = 1
  MaxReloads = 1
  MaxChanges = 2
  MaxDrops = 1
CHECK_DEADLOCK FALSE
INVARIANT OverwritesOnlyMet
PROPERTY ChangeNoticed
