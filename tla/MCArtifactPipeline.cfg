SPECIFICATION Spec
CONSTANTS
  Profile <- MCProfile
  ConditionsOf <- MCConditionsOf
  Runnable <- MCRunnable
  Witnessing <- MCWitnessing
  MaxEdits = 2
  MaxRuns = 3
INVARIANTS
  VerifiedPacketIsOneBuild
  RerunRepairs
PROPERTY PacketAppearsWithItsBuild
CHECK_DEADLOCK FALSE
