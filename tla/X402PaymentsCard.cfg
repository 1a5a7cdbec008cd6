SPECIFICATION Spec
CONSTANTS
  Tabs = {t1}
  Requests = {r1, r2}
  Keys = {k1}
  Price <- MCPrice
  Grants = {}
  Updates = {}
  MaxHops = 0
CHECK_DEADLOCK FALSE
INVARIANTS
  CardIsPayable
