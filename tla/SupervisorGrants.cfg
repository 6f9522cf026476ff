SPECIFICATION Spec
CONSTANTS
  MaxEventsPerTask = 20
  MaxPending = 2
  MaxTtl = 2
  Specs <- OneSpec
  Requests <- OneRequest
  Startable = {"Queued"}
  MaxTasks = 1
  MaxTaskId = 1
  MaxApprovalId = 2
INVARIANTS
  NoAuthorityAfterEnd
