SPECIFICATION Spec
CONSTANTS
  InitialBacklog = 1
  ArrivalRate = 1
  SimulationDuration = 4
  LossCounts <- MCLossCounts
  Contexts <- MCContexts
INVARIANTS
  AwarePaysOnce
  AwareSettles
  BaselinePaysLossesTwice
  GapsMeasureTheLosses
  WitnessIsTheRun
PROPERTIES
  AwareReconcilesFirst
  ExperimentCompletes
CHECK_DEADLOCK FALSE
