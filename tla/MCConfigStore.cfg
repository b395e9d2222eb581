\* Safety and the refinement of AtomicConfig: two processes, two calls each,
\* one kill and one power failure.
SPECIFICATION Spec
CONSTANTS
  p1 = p1
  p2 = p2
  Procs <- MCProcs
  NoProc = NoProc
  MaxUpdates = 2
  TempCreateAttempts = 2
  MaxKills = 1
  MaxPowerLosses = 1
SYMMETRY Symmetry
INVARIANTS ConfigWhole AckedSurvives
PROPERTIES ImplementsAtomic
\* The processes stop once every call is issued and has returned.
CHECK_DEADLOCK FALSE
