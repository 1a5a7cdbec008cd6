SPECIFICATION Spec
CONSTANTS
  Requests = {"r1", "r2", "r3", "r4"}
INVARIANTS
  OneOwner
  WorkIsTimed
PROPERTIES
  OthersUnharmed
  ImplementsPromise
  EveryRequestSettles
