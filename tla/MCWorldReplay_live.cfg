SPECIFICATION ReplaySpec
CONSTANTS
  Actors = {"e", "w1", "w2"}
  BaseCell <- LiveCells
  StartPresent = {"e"}
  Drivers = {"e"}
  Static = {}
  Script <- LiveScript
  ScriptBefore = 0
  AutoIds <- ModelAutoIds
  Mode = "live"
  ClipTicks = 1
  SpawnCells = {1, 9}
  OffRoad = {9}
  ActIds = {"e"}
  NamedIds = {}
  MaxBatch = 2
  MaxAdvance = 2
  MaxTicks = 2
  MaxEntries = 3
  Checkpoints = TRUE
INVARIANTS
  EventsExplainPresence
  CountersOnlyByCommit
  OutcomesMatch
