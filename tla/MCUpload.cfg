SPECIFICATION FairSpec
CONSTANTS
  Builds = {b1, b2}
  Files = {f1, f2}
  SourceFiles <- MCSourceFiles
  NoBuild = NoBuild
  Mortal = {b1}
  MayFail = {"mkdir", "open", "copy", "close", "rename", "remove"}
CHECK_DEADLOCK FALSE
INVARIANTS
  ReadyFilesAreReadable
  SharersHaveALeader
PROPERTIES
  ClientsGetAnAnswer
