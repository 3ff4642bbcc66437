\* The scan root is a directory named build, given as build/ or as the default .
SPECIFICATION Spec
CONSTANTS
  Node <- FourNodes
  Root = 0
  Parent <- FourParents
  Platforms = {"posix", "windows"}
  RootKinds <- OnlyExcluded
  Kinds <- OnlyRepositories
  TrailingSlash = TRUE
  MayVanish = 0
INVARIANTS BuildRootExcluded
CHECK_DEADLOCK FALSE
