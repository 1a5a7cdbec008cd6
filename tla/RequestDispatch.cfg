SPECIFICATION Spec
CONSTANTS
  Sessions = {"default", "private"}
  Requests = {r1}
  Handlers = {"onchain-app-guard", "request-rewriter", "x402-inject", "x402-detect"}
  FailClosed = {"onchain-app-guard"}
  EventOf <- MCEventOf
  Applies <- MCApplies
  MaxGeneration = 3
  MaxHops = 1
CHECK_DEADLOCK FALSE
INVARIANTS
  GatesPassed
  ChainsAreWhole
PROPERTIES
  PermittedThroughout
  EventsAreAnswered
