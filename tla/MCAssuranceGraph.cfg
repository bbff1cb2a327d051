SPECIFICATION Spec
CONSTANTS
  Families <- MCFamilies
  None = None
INVARIANTS
  VerifiedGraphHidesNothing
  VerifiedSourcesAreOnDisk
CHECK_DEADLOCK FALSE
