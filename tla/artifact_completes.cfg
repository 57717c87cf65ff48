\* One generation, one failing call, and Pods read from old copies.
SPECIFICATION FairSpec
CONSTANTS
  MaxUid = 1
  MaxGen = 1
  MaxJobs = 2
  Lagging = {"pods"}
  EagerTTL = FALSE
  MaxErrors = 1
  MaxCrashes = 0
PROPERTIES Completes DigestRecorded OrphansCollected
\* The system stops when there is nothing left to do.
CHECK_DEADLOCK FALSE
