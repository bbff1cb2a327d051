SPECIFICATION Spec
CONSTANTS
  Component <- MCComponent
  Scenarios <- MCScenarios
INVARIANT
  FallbackGapMeansSharedBoundary
CHECK_DEADLOCK FALSE
