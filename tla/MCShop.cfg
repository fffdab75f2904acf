SPECIFICATION ShopSpec
CONSTANTS
  banhMi = banhMi
  traDa = traDa
  importQuest = importQuest
  collectQuest = collectQuest
  stallQuest = stallQuest
  Products <- MCProducts
  ImportPrice <- MCImportPrice
  SellPrice <- MCSellPrice
  UnlockLevel <- MCUnlockLevel
  Orders = {o1, o2}
  Quantities = {1, 2}
  MaxLevel = 2
  UpgradeCost <- MCUpgradeCost
  BaseSlots = 0
  Quests <- MCQuests
  TargetType <- MCTargetType
  TargetValue <- MCTargetValue
  QuestCoins <- MCQuestCoins
  QuestGems <- MCQuestGems
  CollectXp = 8
  NeighborXp = {5}
  VisitLevel = 1
  XpStep = 10
  Wallets <- MCWallets
  Stocks <- MCStocks
SYMMETRY MCSymmetry
INVARIANTS
  GoodsLedger
  CoinLedger
  SlotRows
  QuestsCount
  LevelCoversStall
CHECK_DEADLOCK FALSE
