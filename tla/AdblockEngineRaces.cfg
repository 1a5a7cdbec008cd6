SPECIFICATION Spec
CONSTANTS
  Categories = {"ads", "cookies"}
  Digests = {"d1"}
  Requests = {}
  Hold = 1
  Caching = {TRUE}
  MaxQueue = 2
INVARIANTS
  SettledBlocksOnlyEnabled
