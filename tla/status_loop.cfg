SPECIFICATION Spec
CONSTANTS
  MaxTerms = 3
  MaxTime = 2
INVARIANTS
  LoopAgrees
  ListOrderIrrelevant
  OutcomeSurvivesTTL
CHECK_DEADLOCK FALSE
