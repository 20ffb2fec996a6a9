SPECIFICATION Spec
CONSTANTS
  Procs = {p1, p2}
  Hosts = {h1}
  None = None
  LoggedIn = {h1}
  Commands = {"use", "logout"}
  Kinds = {"file"}
  Lossy = FALSE
  MaxCommands = 2
  MaxCrashes = 0
  MaxSessions = 1
  MaxAged = 1
INVARIANTS
  LogoutForgets
CHECK_DEADLOCK FALSE
