SPECIFICATION Spec
CONSTANTS
  Tabs = {t1}
  Requests = {r1, r2}
  Keys = {k1}
  Price <- MCPrice
  Grants = {1}
  Updates = {2}
  MaxHops = 1
SYMMETRY MCSymmetry
CHECK_DEADLOCK FALSE
INVARIANTS
  SigningIsAgreed
  OneSignaturePerHop
  PaymentsAreBooked
  HeldHaveWaker
  LockIsOwned
PROPERTIES
  AutoPayWithinCap
