SPECIFICATION Spec
CONSTANTS
  Kinds <- SomeKinds
  MaxSeen = 10
INVARIANTS
  ReturnsSnapshot
CHECK_DEADLOCK FALSE
