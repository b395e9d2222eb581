\* Two commands at a time through one entry, any probe failing.  Or a detection,
\* at every kind of server, with one answer that is not the server's; with two of
\* them (the same page before and after the comparison) SettingsTrue fails, as
\* ADR 0056 accepts.
SPECIFICATION MCConnectSpec
CONSTANTS
  u1 = u1
  u2 = u2
  c1 = c1
  c2 = c2
  c3 = c3
  i1 = i1
  i2 = i2
  header = header
  query = query
  Procs = {p1, p2}
  Urls <- MCUrls
  Certs <- MCCerts
  Issuers <- MCIssuers
  IssuerOf <- MCIssuerOf
  Trusted = {c2}
  Methods <- MCMethods
  Header = header
  Method <- MCMethod
  None = None
  InitEntries <- Start
  NewEntries <- AllNew
  Faults = {"network", "version"}
  MaxCommands = 3
  MaxRotations = 1
  Nil = Nil
  Servers <- MCServers
  MaxAnomalies = 1
INVARIANTS PinShown DetectedSound PinIssuerMatches SettingsTrue NoKeyAfterAlarm
PROPERTIES NoResurrection
\* The users stop once MaxCommands commands have ended, and a detection does.
CHECK_DEADLOCK FALSE
