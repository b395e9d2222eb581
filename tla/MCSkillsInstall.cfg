\* Two processes, two destinations, three runs, one kill, one user's directory.
SPECIFICATION Spec
CONSTANTS
  p1 = p1
  p2 = p2
  agents = agents
  claude = claude
  Procs <- MCProcs
  NoProc = NoProc
  Dests <- MCDests
  Position <- MCPosition
  Targets <- MCTargets
  MaxRuns = 3
  MaxKills = 1
  MaxForeign = 1
SYMMETRY Symmetry
INVARIANTS SerializedUnlessRobbed NothingLost
\* The processes stop once every run is over.
CHECK_DEADLOCK FALSE
