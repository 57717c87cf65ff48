\* Every kind of child; Deployments scaled to zero are ready at once.
SPECIFICATION Spec
CONSTANTS
  Specs <- PlainOrFull
  Operators <- OnlyIstio
  Tracked <- AllKinds
  Lagging = {}
  Missing = {}
  Replicas = 0
  MaxReady = 0
  MaxUid = 1
  MaxGen = 2
  MaxDrift = 0
  MaxErrors = 1
  MaxCrashes = 0
INVARIANTS ReadyMatches
PROPERTIES PrerequisitesFirst
\* The system stops when there is nothing left to do.
CHECK_DEADLOCK FALSE
