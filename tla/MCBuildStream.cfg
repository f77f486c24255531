SPECIFICATION FairSpec
CONSTANTS
  a = a
  b = b
  c = c
  x = x
  nobody = nobody
  Graphs <- MCGraphs
  Outside = {x}
  MayFail = {"check", "input", "job", "upload", "signal", "listener", "connection"}
CHECK_DEADLOCK FALSE
INVARIANTS
  SuccessIsReal
  OwnDepsAreBuilt
PROPERTIES
  ClientGetsAnEnd
  BuildEndsWithItsClient
