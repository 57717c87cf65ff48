\* An edit, a failing call, a child deleted by somebody, Pods that come and go,
\* and PodMonitors that are not installed.
SPECIFICATION FairSpec
CONSTANTS
  Specs <- SplitOrMonitored
  Operators <- OnlyPlain
  Tracked = {"decode", "prefill", "configMap", "podMonitorDecode"}
  Lagging = {}
  Missing = {"podMonitorDecode"}
  Replicas = 1
  MaxReady = 1
  MaxUid = 1
  MaxGen = 2
  MaxDrift = 1
  MaxErrors = 1
  MaxCrashes = 0
INVARIANTS RestsWhenDone
PROPERTIES ChildrenConverge ReadyFollowsPods BlockedIsReported
\* The system stops when there is nothing left to do.
CHECK_DEADLOCK FALSE
