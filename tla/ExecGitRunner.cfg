\* Two threads run a git each; one of them writes and may leave a process behind.
SPECIFICATION Spec
CONSTANTS
  c1 = c1
  c2 = c2
  Call <- TwoCalls
  Hosts = {"posix", "posix reaping", "windows"}
  Chunks <- OneWrites
  Parents <- OneCall
  Programs <- GitPaths
  Directories <- ShortNames
  PipeCapacity = 1
INVARIANTS TypeOK NothingLeftBehind OkMeansComplete KillHitsOwnChild ArgumentsSurvive
PROPERTIES ImplementsCommand
CHECK_DEADLOCK FALSE
