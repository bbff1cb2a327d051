SPECIFICATION Spec
CONSTANT WorkloadSize = 5
PROPERTY
  ImplementsExactlyOnce
CHECK_DEADLOCK FALSE
