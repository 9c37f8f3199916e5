SPECIFICATION Spec
CONSTANTS
  j1 = j1
  j2 = j2
  j3 = j3
  workspace = workspace
  service = service
  b1 = b1
  b2 = b2
  Jobs <- ThreeJobs
  Procs <- TwoProcesses
  Bodies <- TwoBodies
  Absent = Absent
  AnyRevision = AnyRevision
  None = None
  MaxOutside = 1
  MaxFailures = 1
CHECK_DEADLOCK FALSE
INVARIANTS ReplacedItsBase AnswersTrue
PROPERTY ImplementsStore
SYMMETRY Symmetry
