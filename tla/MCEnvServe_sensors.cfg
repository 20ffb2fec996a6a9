SPECIFICATION Spec
CONSTANTS
  a1 = a1
  a2 = a2
  ActorOrder <- TwoActors
  MaxInstants = 2
INVARIANTS
  AnswerShowsNow
  InStep
  StepRecovers
  StartingOverWorks
