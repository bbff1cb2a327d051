SPECIFICATION CallSpec
CONSTANTS
  Node <- MCNode
  Graphs <- MCGraphs
  Topologies <- MCTopologies
  ComponentCount = 4
INVARIANTS
  ReportedCycleIsReal
  SilentOnlyIfAcyclic
  AcceptsExactlyDags
  CycleErrorMeansCyclic
  ReturnsDisabledSet
PROPERTY
  CallEnds
CHECK_DEADLOCK FALSE
