SPECIFICATION Spec
CONSTANTS
  p1 = p1
  p2 = p2
  Participant <- OneOperator
  Run = {"run1", "run2"}
  RequiredCount = 1
  Boundaries <- MCBoundaries
  Safeguards <- MCSafeguards
  MaxSequence = 3
  MaxContext = 2
  MaxSigned = 4
  Backgrounds <- SoundBackgrounds
  Policies <- SoundPolicies
INVARIANTS
  RelianceIsUnequivocal
PROPERTIES
  WithdrawalIsFinal
  RelianceNeverGoesBack
