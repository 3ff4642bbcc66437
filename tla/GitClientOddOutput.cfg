\* origin was cloned with --filter, and git prints a warning and succeeds.
SPECIFICATION Spec
CONSTANTS
  Repositories <- OddOutput
  Origin = 2
  TicksPerMs = 2
  TimeoutMs = 2
  MaxTicks = 6
INVARIANTS CleanCheckIsTrue
CHECK_DEADLOCK FALSE
