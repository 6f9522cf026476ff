SPECIFICATION FairAgentSpec
CONSTANTS
  tool = tool
  network = network
  MaxEventsPerTask = 12
  MaxPending = 1
  MaxTtl = 1
  Specs <- OneSpec
  Requests <- BothRequests
  Startable = {"Queued"}
  MaxTasks = 1
  MaxTaskId = 1
  MaxApprovalId = 1
  Gates <- BothGates
  OwnerEnds = FALSE
  ToolGate <- tool
  AdapterRequests <- RequestsOfGate
  MaxSteps = 2
PROPERTIES
  EndedSessionsAreDropped
CHECK_DEADLOCK FALSE
