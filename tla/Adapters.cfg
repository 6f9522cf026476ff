SPECIFICATION FairSpec

CONSTANTS
  Tasks = {1, 2}
  Paths <- MCPaths
  Directories <- MCDirectories
  MaxPathBytes = 8
  Hosts <- MCHosts
  Ports <- MCPorts
  MaxRequest = 2
  MaxResponse = 2
  BufferBytes = 2
  Syscalls <- MCSyscalls
  MaxMounts = 2
  Routes = {"r"}
  ToolAction = "use"
  MaxRoutes = 1
  Identifiers = {"key", "x", "y", "use", "r"}
  MaxGoalChars = 2
  MaxListed = 2
  Builders = {1, 2}
  Outputs = {"r1"}
  Contents <- MCContents
  MaxFileBytes = 2
  MaxTotalBytes = 2
  MaxEntries = 6
  MaxChanges = 2
  Deployments <- MCDeployments

INVARIANTS
  AdapterTypeOK
  NoRunawayProcess
  StartsClean
  ToolRunsConfined
  BudgetVerdictsTrue
  LateCallsHaveNoEffect
  FilesWithinCapability
  SuccessIsComplete
  BuildsAreWhole
  SandboxIsAsPrepared

PROPERTIES
  NothingOverwritten
  GrantsAreExact
  AdapterCallsReturn
