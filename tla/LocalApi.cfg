SPECIFICATION ApiSpec
CONSTANTS
  MaxEventsPerTask = 6
  MaxPending = 1
  MaxTtl = 1
  Specs <- MCSpecs
  Requests = {}
  Startable = {"Queued"}
  MaxTasks = 1
  MaxTaskId = 1
  MaxApprovalId = 0
  Daemons = {1, 2}
  Clients <- MCClients
  Scenarios <- MCScenarios
  Limits = {2}
  MaxPageSize = 2
  MaxBacklog = 2
INVARIANTS
  SocketIsExclusive
  AnswersStayTrue
  PagesAreExact
PROPERTIES
  ClientsAnswered
