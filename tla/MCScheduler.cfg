SPECIFICATION Spec
CONSTANTS
  JobIDs = {j1, j2}
  JobSpecs <- MCJobSpecs
  Workers = {w1}
  Results = {ok, failed}
  NoResult = NoResult
  Pickers = {p1, p2}
  MaxAllocated = 3
SYMMETRY Symmetric
INVARIANTS
  TypeOK
  WaitersAreAnswered
  JobsAreHandedOutInOrder
PROPERTIES
  DeliveredResultIsStable
  ImplementsBoard
