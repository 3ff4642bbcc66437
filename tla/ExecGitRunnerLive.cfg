\* One git leaves a process behind, another fills its pipe.
SPECIFICATION Spec
CONSTANTS
  c1 = c1
  c2 = c2
  Call <- TwoCalls
  Hosts = {"posix"}
  Chunks <- TheOtherWrites
  Parents <- OneCall
  Programs <- GitPaths
  Directories <- ShortNames
  PipeCapacity = 1
PROPERTIES Returns
CHECK_DEADLOCK FALSE
