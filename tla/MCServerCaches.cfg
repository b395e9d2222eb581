\* Two versions of bzr, two commands, two changes of the configuration.
SPECIFICATION Spec
CONSTANTS
  None = None
  old = old
  new = new
  s1 = s1
  s2 = s2
  u1 = u1
  u2 = u2
  redhat = redhat
  external = external
  f1 = f1
  f2 = f2
  Procs <- MCProcs
  Servers <- MCServers
  Urls <- MCUrls
  Caps <- MCCaps
  Known <- MCKnown
  Advertised <- MCAdvertised
  Names <- MCNames
  InitDeclared <- MCDeclared
  MaxCached = 1
  MaxCommands = 2
  MaxMoves = 2
SYMMETRY Symmetry
INVARIANTS GateTruthful FieldsTruthfulUnlessMislabelled NoStaleRefusal
\* The commands are bounded.
CHECK_DEADLOCK FALSE
