SPECIFICATION Spec
CONSTANT Calls <- MCCalls
INVARIANTS
  CapabilitiesAreRecomputed
  AdverseEvidenceBlocks
CHECK_DEADLOCK FALSE
