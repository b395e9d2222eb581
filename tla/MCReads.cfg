\* Every operation, and the listings, with one answer spoiled and up to two bugs
\* that enter or leave; the commands of several bugs; two commands on saved queries.
SPECIFICATION MCAllSpec
CONSTANTS
  Nodes <- MCNodes
  Aliases <- MCAliases
  Relations <- MCRelations
  CoreRelations <- MCCore
  Graphs <- MCGraphs
  Reads <- MCCommands
  MaxRelated = 2
  ChunkSize = 2
  NoRead = NoRead
  MaxEdits = 1
  None = None
  b1 = b1
  b2 = b2
  b3 = b3
  Bugs <- MCBugs
  Private <- MCPrivate
  Categories = {"assignee", "cc"}
  Operations <- MCOperations
  Servers <- MCServers
  Listings <- MCListings
  Results <- MCResults
  MaxU32 = 6
  MaxPages = 4
  MaxFaults = 1
  MaxChanges = 2
  Runners = {r1, r2}
  Commands <- MCQueryCommands
  QueryNames = {"q1", "q2", "mine"}
  Stored <- MCStored
  Hosts <- MCHosts
  DefaultServer = "s1"
  Mode <- MCMode
  Extended = {"s2"}
  Me = "me"
  NaN = "many"
  Nothing = "nothing"
  MaxCommands = 2
INVARIANTS NotFoundMeansAbsent PrivateShown NothingMissed TruncatedTrue LinksExact InaccessibleProven ChartsDistinct FallbackAsksTheSame RunAsUpdated
PROPERTIES LargeNotRepeated UpdatesOnlyNamed
\* The command ends.
CHECK_DEADLOCK FALSE
