SPECIFICATION Spec
CONSTANTS
  Component <- MCComponent
  Scenarios <- MCScenarios
INVARIANTS
  UnauthorizedCommitFailsClaim
  HaltNeedsExecutionPath
  UndetectedMeansOneRolePerFault
  LostPathsAreExplained
CHECK_DEADLOCK FALSE
