SPECIFICATION Spec
CONSTANTS
  NumActors = 2
  StartPresent = {1}
  StartTracked = {2}
  Storyboards <- ModelStoryboards
  WarmupTicks = 1
  ClipTicks = 3
INVARIANTS
  LifecycleOnce
  RunningIsInCharge
  UntilOwned
  WindowBounds
  DeadlineMet
  DependentsFollow
  PresentAsScripted
  TakenBackStaysBack
  CrashDisables
