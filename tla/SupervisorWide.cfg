SPECIFICATION Spec
CONSTANTS
  MaxEventsPerTask = 9
  MaxPending = 2
  MaxTtl = 2
  Specs <- AllSpecs
  Requests <- AllRequests
  Startable = {"Queued"}
  MaxTasks = 2
  MaxTaskId = 3
  MaxApprovalId = 2
INVARIANTS
  LogsRecoverable
  RecoveredTasksHaveEnded
  TaskCapacityKept
  IdempotencyIndexExact
