SPECIFICATION FairSpec
CONSTANTS
  MaxNodes = 6
  WordMax = 10
  MaxRounds = 3
  DrawsPerDigest = 3
INVARIANTS
  TypeOK
  ExactGroup
  FailsOnlyExhausted
  DrawsStayCheap
  FairDraw
PROPERTIES
  ChoiceSpec
  Terminates
CHECK_DEADLOCK FALSE
