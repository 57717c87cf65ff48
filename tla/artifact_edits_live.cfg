\* Two generations, and the artifact read from old copies.
SPECIFICATION FairSpec
CONSTANTS
  MaxUid = 1
  MaxGen = 2
  MaxJobs = 2
  Lagging = {"artifact"}
  EagerTTL = FALSE
  MaxErrors = 0
  MaxCrashes = 0
PROPERTIES WorkspaceReleased StatusCatchesUp ObservedGenerationMonotone
\* The system stops when there is nothing left to do.
CHECK_DEADLOCK FALSE
