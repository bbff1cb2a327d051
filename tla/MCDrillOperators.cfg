SPECIFICATION Spec
CONSTANTS
  p1 = p1
  p2 = p2
  Participant <- TwoOperators
  Run = {"run1"}
  RequiredCount = 2
  Boundaries <- MCBoundaries
  Safeguards <- MCSafeguards
  MaxSequence = 2
  MaxContext = 2
  MaxSigned = 2
  Backgrounds <- AllBackgrounds
  Policies <- AllPolicies
INVARIANTS
  ReadyIsUnanimous
  ReadyIsIndependentlyVouched
CONSTRAINT SimpleIfDeficient
