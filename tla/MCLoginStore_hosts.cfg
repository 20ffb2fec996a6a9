SPECIFICATION FairSpec
CONSTANTS
  Procs = {p1, p2}
  Hosts = {h1, h2}
  None = None
  LoggedIn = {h1, h2}
  Commands = {"use"}
  Kinds = {"file"}
  Lossy = TRUE
  MaxCommands = 4
  MaxCrashes = 1
  MaxSessions = 2
  MaxAged = 2
INVARIANTS
  UseKeepsLogins
PROPERTIES
  EveryCommandEnds
CHECK_DEADLOCK FALSE
