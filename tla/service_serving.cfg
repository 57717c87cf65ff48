\* Every plausible name is spelled; a service with one of them is edited, upgraded and
\* fails, or gets a neighbour whose name is that of its EPP.
SPECIFICATION FairSpec
CONSTANTS
  Alphabet = {"a", "A", "1", ".", "-", "?"}
  MaxLength = 5
  Served <- ServedNames
  Neighbours <- NeighbourNames
  Specs <- TwoSpecs
  Releases <- Released
  Namespace <- OneNamespace
  MaxChanges = 2
INVARIANTS TypeOK SanitizedIsLabel WritesAccepted PodsAdopted PoolSelectsOwnServers PodsReachable PickerReachable PickerEquipped PodsScraped
PROPERTIES NeighboursApart Settles
\* The system stops when there is nothing left to do.
CHECK_DEADLOCK FALSE
