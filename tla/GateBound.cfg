SPECIFICATION GateSpec
CONSTANTS
  MaxEventsPerTask = 8
  MaxPending = 1
  MaxTtl = 1
  Specs <- GuardedSpecs
  Requests <- OneRequest
  Startable = {"Queued"}
  MaxTasks = 2
  MaxTaskId = 2
  MaxApprovalId = 2
  Gates = {tool, network}
  OwnerEnds = FALSE
INVARIANTS
  RetainedBounded
CHECK_DEADLOCK FALSE
