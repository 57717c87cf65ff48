\* Two services of one name, seen through old copies; a failing call, and a restart
\* that may be an upgrade.
SPECIFICATION FairSpec
CONSTANTS
  Specs <- PlainOrPooled
  Operators <- Upgraded
  Tracked = {"decode", "clusterRole", "clusterRoleBinding"}
  Lagging = {"ms"}
  Missing = {}
  Replicas = 1
  MaxReady = 0
  MaxUid = 2
  MaxGen = 1
  MaxDrift = 0
  MaxErrors = 1
  MaxCrashes = 1
INVARIANTS TypeOK ClusterRBACHeld RestsWhenDone
PROPERTIES ChildrenConverge DeletionCompletes NothingRemains
\* The system stops when there is nothing left to do.
CHECK_DEADLOCK FALSE
