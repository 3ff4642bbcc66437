CONSTANTS
  NoError = NoError
  Wide = 4
  Reports <- AllReports
SPECIFICATION Spec
CHECK_DEADLOCK FALSE
INVARIANTS
  WrapsFaithfully
  EveryErrorListedOnce
  TableAgreesWithWarnings
  AlignedColumns
  DurationsReadBack
