SPECIFICATION NodeSpec
CONSTANTS
  Configs = {"managed", "legacy", "external", "disabled"}
  MaxGen = 5
CHECK_DEADLOCK FALSE
INVARIANTS
  BridgesAreOwned
  EntryWillGo
PROPERTIES
  StartSettles
