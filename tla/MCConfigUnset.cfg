\* Violated: unset-keyring races set-keyring.
SPECIFICATION Spec
CONSTANTS
  a = a
  b = b
  x = x
  Procs = {p1, p2}
  Servers <- MCServers
  Accounts <- MCAccounts
  None = None
  Default = Default
  EnvSecret = EnvSecret
  OldSecret = OldSecret
  Commands <- UnsetAndSet
  MaxCommands = 2
  MaxTokens = 0
PROPERTIES DeletesUnreferenced
\* The users stop once MaxCommands commands have ended.
CHECK_DEADLOCK FALSE
