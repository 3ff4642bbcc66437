\* Every tree of four nodes, at rest or with two subtrees deleted during the walk.
SPECIFICATION Spec
CONSTANTS
  Node <- FourNodes
  Root = 0
  Parent <- FourParents
  Platforms = {"posix", "windows"}
  RootKinds <- Roots
  Kinds <- Everything
  TrailingSlash = FALSE
  MayVanish = 2
INVARIANTS MirrorsGo StopsAtBoundary EachOnce NothingLostSilently
PROPERTIES Termination
CHECK_DEADLOCK FALSE
