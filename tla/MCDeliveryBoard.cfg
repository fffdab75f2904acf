SPECIFICATION Spec
CONSTANTS
  o1 = o1
  o2 = o2
  o3 = o3
  o4 = o4
  pho = pho
  tra = tra
  Orders <- MCOrders
  Products <- MCProducts
  Items <- MCItems
  RewardCoins <- MCRewardCoins
  Duration <- MCDuration
  BoardSize = 2
  DeliveryLevel = 30
  Shippers = {1, 2}
  UnlockLevel <- MCUnlockLevel
  MaxLevel = 2
  Capacity <- MCCapacity
  Slots <- MCSlots
  Speed <- MCSpeed
  UpgradeCost <- MCUpgradeCost
  GemSeconds = 2
  UserLevels <- MCUserLevels
  Wallets <- MCWallets
  Stocks <- MCStocks
  Tabs = {1, 2}
INVARIANTS
  BoardOfTwelve
CHECK_DEADLOCK FALSE
