SPECIFICATION Spec
CONSTANTS
  a1 = a1
  a2 = a2
  ActorOrder <- TwoActors
  MaxInstants = 3
INVARIANTS
  ObserveShowsNow
