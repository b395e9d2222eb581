\* Liveness under weak fairness of the running processes (no symmetry), with a
\* temp name that may be taken on the only attempt.
SPECIFICATION FairSpec
CONSTANTS
  p1 = p1
  p2 = p2
  Procs <- MCProcs
  NoProc = NoProc
  MaxUpdates = 1
  TempCreateAttempts = 1
  MaxKills = 1
  MaxPowerLosses = 0
PROPERTIES EveryCallReturns
\* The processes stop once every call is issued and has returned.
CHECK_DEADLOCK FALSE
