\* An edit of a finished artifact.
SPECIFICATION Spec
CONSTANTS
  MaxUid = 1
  MaxGen = 2
  MaxJobs = 2
  Lagging = {}
  EagerTTL = FALSE
  MaxErrors = 0
  MaxCrashes = 0
INVARIANTS ReadyMeansPushed
\* The system stops when there is nothing left to do.
CHECK_DEADLOCK FALSE
