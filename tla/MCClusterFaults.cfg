SPECIFICATION FairSpec
CONSTANTS
  lib = lib
  prog = prog
  tool = tool
  b1 = b1
  b2 = b2
  JobIDs = {lib, prog, tool}
  Deps <- MCDepsOfTool
  Plan <- MCPlanTool
  Workers = {w1}
  Builds = {b1, b2}
  Fallible = {lib}
  Cancellable = {b2}
  MaxSlots = 1
  ChanCap = 2
  Faults = {"loss", "crash", "restart"}
  MaxFaults = 1
  MaxAllocated = 4
INVARIANTS
  NoReportIsDropped
  RefusedBuildLacksADependency
PROPERTIES
  BuildsEnd
  ExecutedJobIsReported
