\* Up to three repositories, two checked at a time; git in the first or last of two directories.
SPECIFICATION Spec
CONSTANTS
  Statuses <- OneOfEach
  Repository = {r1, r2, r3}
  PathLength = 2
  Bound = 2
INVARIANTS TypeOK ReportIsGenuine SuccessMeansSuccess ReportAddsUp NoGitPassedOver
PROPERTIES InterruptedChecksExit130
CHECK_DEADLOCK FALSE
