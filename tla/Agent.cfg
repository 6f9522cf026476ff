SPECIFICATION FairAgentSpec
CONSTANTS
  tool = tool
  network = network
  MaxEventsPerTask = 9
  MaxPending = 1
  MaxTtl = 1
  Specs <- BothSpecs
  Requests <- BothRequests
  Startable = {"Queued", "WaitingApproval"}
  MaxTasks = 2
  MaxTaskId = 2
  MaxApprovalId = 2
  Gates <- BothGates
  OwnerEnds = TRUE
  ToolGate <- tool
  AdapterRequests <- RequestsOfGate
  MaxSteps = 2
INVARIANTS
  AgentTypeOK
  SessionCoversWork
  SessionWaitsForRetained
  DrivesRunningTask
PROPERTIES
  CallsReturn
CHECK_DEADLOCK FALSE
