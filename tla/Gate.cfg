SPECIFICATION GateSpec
CONSTANTS
  MaxEventsPerTask = 11
  MaxPending = 2
  MaxTtl = 1
  Specs <- AllSpecs
  Requests <- OneRequest
  Startable = {"Queued", "WaitingApproval"}
  MaxTasks = 2
  MaxTaskId = 2
  MaxApprovalId = 2
  Gates = {tool, network}
  OwnerEnds = TRUE
INVARIANTS
  GateIndexExact
  RetainedMatchPending
  ExecutionIsAudited
  ExecutesOnlyWhileRunning
  GrantsAreSpentAtOnce
PROPERTIES
  OperationsAreLinear
CHECK_DEADLOCK FALSE
