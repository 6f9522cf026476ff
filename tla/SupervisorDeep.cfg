SPECIFICATION Spec
CONSTANTS
  MaxEventsPerTask = 16
  MaxPending = 1
  MaxTtl = 2
  Specs <- OneSpec
  Requests <- AllRequests
  Startable = {"Queued", "WaitingApproval"}
  MaxTasks = 1
  MaxTaskId = 1
  MaxApprovalId = 3
INVARIANTS
  TypeOK
  ApprovalsAgree
  DurableStateAgrees
  ApprovalsAreLinear
  AuthorityIsAudited
PROPERTIES
  TerminalIsFinal
CHECK_DEADLOCK FALSE
