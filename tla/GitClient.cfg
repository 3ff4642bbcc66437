\* Every ordinary repository, with the clock at half a millisecond.
SPECIFICATION Spec
CONSTANTS
  Repositories <- Ordinary
  Origin = 2
  TicksPerMs = 2
  TimeoutMs = 2
  MaxTicks = 6
INVARIANTS StatusIsTrue AttentionIsVisible SharedDeadline
CHECK_DEADLOCK FALSE
