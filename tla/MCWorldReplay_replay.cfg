SPECIFICATION ReplaySpec
CONSTANTS
  Actors = {"e", "x", "w1", "w2"}
  BaseCell <- ModelCells
  StartPresent = {"e", "x"}
  Drivers = {"e"}
  Static = {}
  Script <- ModelScript
  ScriptBefore = 1
  AutoIds <- ModelAutoIds
  Mode = "clip"
  ClipTicks = 4
  SpawnCells = {1}
  OffRoad = {}
  ActIds = {"e"}
  NamedIds = {"w1"}
  MaxBatch = 1
  MaxAdvance = 2
  MaxTicks = 4
  MaxEntries = 4
  Checkpoints = TRUE
INVARIANTS
  HashedOnceInOrder
  EventsExplainPresence
  LastExistWins
  IdsNeverReused
  RebuildReproducesFrames
  OutcomesMatch
  DigestReproduced
