\* Every command, run by two processes at a time and stopped anywhere.
SPECIFICATION Spec
CONSTANTS
  a = a
  b = b
  x = x
  Procs = {p1, p2}
  Servers <- MCServers
  Accounts <- MCAccounts
  None = None
  Default = Default
  EnvSecret = EnvSecret
  OldSecret = OldSecret
  Commands <- Every
  MaxCommands = 3
  MaxTokens = 2
INVARIANTS PointersResolve
PROPERTIES LogoutKeepsLiveToken
\* The users stop once MaxCommands commands have ended.
CHECK_DEADLOCK FALSE
