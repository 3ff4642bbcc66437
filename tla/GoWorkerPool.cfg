\* Four repositories and two workers.
SPECIFICATION Spec
CONSTANTS
  Paths <- FourPaths
  Requested = 2
INVARIANTS TypeOK NoSendAfterClose WorkersNeverWait CompleteReport
PROPERTIES Termination ImplementsScan
CHECK_DEADLOCK FALSE
