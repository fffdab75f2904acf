------------------------------ MODULE MCShopTx ------------------------------
(* A small instance of ShopTx: two concurrent requests on a stall of one or   *)
(* two slots, one product, one import order, and the two seeded quests, daily *)
(* and weekly, that count what is collected.                                  *)
EXTENDS ShopTx, TLC

CONSTANTS banhMi, dailyCollect, weeklyCollect

MCProducts == {banhMi}
MCImportPrice == banhMi :> 50
MCSellPrice == banhMi :> 90
MCUnlockLevel == banhMi :> 1
MCUpgradeCost == <<0, 60>>
MCQuests == {dailyCollect, weeklyCollect}
MCTargetType == dailyCollect :> "COLLECT_REVENUE" @@ weeklyCollect :> "COLLECT_REVENUE"
MCQuestType == dailyCollect :> "daily" @@ weeklyCollect :> "weekly"
MCTargetValue == dailyCollect :> 1 @@ weeklyCollect :> 2
MCQuestCoins == dailyCollect :> 120 @@ weeklyCollect :> 180
MCQuestGems == dailyCollect :> 0 @@ weeklyCollect :> 1
MCWallets == {[coins |-> 60, gems |-> 5]}
MCStocks == {banhMi :> 0}
=============================================================================
