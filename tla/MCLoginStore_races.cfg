SPECIFICATION Spec
CONSTANTS
  Procs = {p1, p2, p3}
  Hosts = {h1}
  None = None
  LoggedIn = {h1}
  Commands = {"use", "login", "logout"}
  Kinds = {"keyring", "file"}
  Lossy = TRUE
  MaxCommands = 3
  MaxCrashes = 1
  MaxSessions = 3
  MaxAged = 2
SYMMETRY Interchangeable
INVARIANTS
  ReuseOnlyAfterInterruption
  StoredIsCurrent
CHECK_DEADLOCK FALSE
