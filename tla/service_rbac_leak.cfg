\* Deletion with an old copy of the ClusterRoleBinding.
SPECIFICATION Spec
CONSTANTS
  Specs <- PlainOrPooled
  Operators <- OnlyPlain
  Tracked = {"decode", "clusterRole", "clusterRoleBinding"}
  Lagging = {"clusterRoleBinding"}
  Missing = {}
  Replicas = 1
  MaxReady = 0
  MaxUid = 1
  MaxGen = 2
  MaxDrift = 0
  MaxErrors = 0
  MaxCrashes = 0
INVARIANTS ClusterRBACHeld
\* The system stops when there is nothing left to do.
CHECK_DEADLOCK FALSE
