SPECIFICATION Spec
CONSTANTS
  MaxGen = 2
  MaxRestarts = 1
CHECK_DEADLOCK FALSE
PROPERTIES
  NothingStaleIsServed
  ImplementsPromise
  StartsAgain
