\* A plain process, a cascade, a pool of threads, and embedded evaluation.
CONSTANTS
  Configs <- Cascades
  Scores <- ScoresOfTwo
  Penalty <- Fine
  Unlimited = Unlimited
  NoResult = NoResult
  MaxFaults = 1
SPECIFICATION FairSpec
INVARIANTS
  WorkIsCounted
  EveryStageEarned
  BlameIsTrue
PROPERTIES
  EvaluationEnds
