SPECIFICATION Spec
CONSTANTS
  Categories = {"ads"}
  Digests = {"d1", "d2"}
  Requests = {"r1"}
  Hold = 2
  Caching = {TRUE, FALSE}
  MaxQueue = 1
INVARIANTS
  HoldIsBounded
  SettledEngineIsCurrent
PROPERTIES
  RebuildsEnd
  HeldAreReleased
