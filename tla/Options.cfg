\* Every command line of up to four of seventeen words.
SPECIFICATION Spec
CONSTANTS
  CommandLines <- UpToFour
  DefaultWorkers = 8
  UintMax = 99
INVARIANTS SoundOptions MirrorsGoByUsage
CHECK_DEADLOCK FALSE
