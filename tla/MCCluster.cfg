SPECIFICATION Spec
CONSTANTS
  lib = lib
  prog = prog
  tool = tool
  b1 = b1
  b2 = b2
  JobIDs = {lib, prog}
  Deps <- MCDeps
  Plan <- MCPlan
  Workers = {w1, w2}
  Builds = {b1, b2}
  Fallible = {lib}
  Cancellable = {}
  MaxSlots = 1
  ChanCap = 2
  Faults = {"loss", "crash", "restart"}
  MaxFaults = 1
  MaxAllocated = 4
SYMMETRY Symmetric
INVARIANTS
  PendingJobIsInOnePlace
  FinishedBuildIsComplete
  BuildFailsForItsOwnJobs
  SuccessHasAnArtifact
  SpecNamesHolders
