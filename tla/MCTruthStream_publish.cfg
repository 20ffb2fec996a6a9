SPECIFICATION FairSpec
CONSTANTS
  Actors = {a}
  Subs = {s1, s2}
  Capacities = {0, 2}
  MaxTicks = 3
  MaxAdvance = 3
INVARIANTS
  Bounded
  EveryTickAccounted
  NewestInOrder
  RowsTellTheTick
PROPERTIES
  AdvanceEnds
CHECK_DEADLOCK FALSE
