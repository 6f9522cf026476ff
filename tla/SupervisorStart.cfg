SPECIFICATION Spec
CONSTANTS
  MaxEventsPerTask = 20
  MaxPending = 2
  MaxTtl = 2
  Specs <- OneSpec
  Requests <- OneRequest
  Startable = {"Queued", "WaitingApproval"}
  MaxTasks = 1
  MaxTaskId = 1
  MaxApprovalId = 2
INVARIANTS
  LogsRecoverable
CHECK_DEADLOCK FALSE
