\* Liveness under weak fairness of the running processes (no symmetry): two
\* destinations, which both runs lock.
SPECIFICATION FairSpec
CONSTANTS
  p1 = p1
  p2 = p2
  agents = agents
  claude = claude
  Procs <- MCProcs
  NoProc = NoProc
  Dests <- MCDests
  Position <- MCPosition
  Targets <- MCTargets
  MaxRuns = 2
  MaxKills = 1
  MaxForeign = 0
PROPERTIES EveryRunEnds
\* The processes stop once every run is over.
CHECK_DEADLOCK FALSE
