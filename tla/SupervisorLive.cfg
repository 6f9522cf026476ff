SPECIFICATION FairSpec
CONSTANTS
  MaxEventsPerTask = 20
  MaxPending = 2
  MaxTtl = 1
  Specs <- TwoSpecs
  Requests <- OneRequest
  Startable = {"Queued"}
  MaxTasks = 2
  MaxTaskId = 2
  MaxApprovalId = 2
PROPERTIES
  WaitingEnds
