SPECIFICATION Spec
CONSTANTS
  Alphabet = {"a", "epp", "-", "."}
  MaxLength = 3
INVARIANT ClusterRBACNameUnique
CHECK_DEADLOCK FALSE
