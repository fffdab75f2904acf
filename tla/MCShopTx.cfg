SPECIFICATION FairSpec
CONSTANTS
  banhMi = banhMi
  dailyCollect = dailyCollect
  weeklyCollect = weeklyCollect
  Products <- MCProducts
  ImportPrice <- MCImportPrice
  SellPrice <- MCSellPrice
  UnlockLevel <- MCUnlockLevel
  Orders = {o1}
  Quantities = {1}
  MaxLevel = 2
  UpgradeCost <- MCUpgradeCost
  BaseSlots = 0
  Quests <- MCQuests
  TargetType <- MCTargetType
  TargetValue <- MCTargetValue
  QuestCoins <- MCQuestCoins
  QuestGems <- MCQuestGems
  CollectXp = 8
  NeighborXp = {10}
  VisitLevel = 1
  XpStep = 10
  Wallets <- MCWallets
  Stocks <- MCStocks
  QuestType <- MCQuestType
  Txns = {t1, t2}
INVARIANTS
  TypeOK
  DeadlockNeedsImportOrReset
PROPERTIES
  ShopSpec
  RequestsEnd
CHECK_DEADLOCK FALSE
