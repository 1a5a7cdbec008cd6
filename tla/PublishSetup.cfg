SPECIFICATION Spec
CONSTANTS
  Kinds = {"buy", "deposit", "amount"}
  MaxOps = 2
  MaxTracked = 1
  Windows = {w1, w2}
SYMMETRY MCSymmetry
CHECK_DEADLOCK FALSE
INVARIANTS
  NothingIsForgotten
  DismissedResultsGo
PROPERTIES
  ImplementsPromise
