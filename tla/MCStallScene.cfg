SPECIFICATION SceneFairSpec
CONSTANTS
  Slots = {1, 2, 3}
  Customers = {a, b}
  NoSlot = NoSlot
INVARIANTS
  OneCustomerPerSlot
PROPERTIES
  HarvestNeedsBuyer
  ReadyIsSold
CHECK_DEADLOCK FALSE
