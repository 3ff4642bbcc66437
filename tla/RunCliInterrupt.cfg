\* The interrupt may come while the directories are still being walked.
SPECIFICATION Spec
CONSTANTS
  Statuses <- OneOfEach
  Repository = {r1}
  PathLength = 1
  Bound = 1
PROPERTIES InterruptedScanExits130
CHECK_DEADLOCK FALSE
