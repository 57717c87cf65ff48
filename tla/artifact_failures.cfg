\* One failing call, one restart, an edit, and Pods read from old copies.
SPECIFICATION Spec
CONSTANTS
  MaxUid = 1
  MaxGen = 2
  MaxJobs = 2
  Lagging = {"pods"}
  EagerTTL = FALSE
  MaxErrors = 1
  MaxCrashes = 1
INVARIANTS TypeOK AtMostOneLiveJob StaleJobsCleaned RestsWhenTold
PROPERTIES TerminalIsStable NoPipelineAfterPush ObservedGenerationMonotone HonoursContract
\* The system stops when there is nothing left to do.
CHECK_DEADLOCK FALSE
