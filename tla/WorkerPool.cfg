\* Four repositories and up to three threads; unsigned int is wide enough.
SPECIFICATION Spec
CONSTANTS
  Paths <- FourPaths
  Requested = 3
  UIntModulus = 16
INVARIANTS TypeOK SlotOwnership CompleteReport
PROPERTIES CancelIsFinal Termination ImplementsScan
CHECK_DEADLOCK FALSE
