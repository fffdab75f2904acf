------------------------------- MODULE MCShop -------------------------------
(* A small instance of Shop: the two starter products at their seeded prices, *)
(* two stall levels with one and two slots, and a quest of each seeded kind.  *)
EXTENDS Shop, TLC

CONSTANTS banhMi, traDa, importQuest, collectQuest, stallQuest

MCProducts == {banhMi, traDa}
MCImportPrice == banhMi :> 50 @@ traDa :> 25
MCSellPrice == banhMi :> 90 @@ traDa :> 45
MCUnlockLevel == banhMi :> 1 @@ traDa :> 2
MCUpgradeCost == <<0, 60>>
MCQuests == {importQuest, collectQuest, stallQuest}
MCTargetType == importQuest :> "IMPORT_PRODUCT" @@ collectQuest :> "COLLECT_REVENUE"
                @@ stallQuest :> "UPGRADE_STALL"
MCTargetValue == importQuest :> 3 @@ collectQuest :> 2 @@ stallQuest :> 1
MCQuestCoins == importQuest :> 120 @@ collectQuest :> 180 @@ stallQuest :> 300
MCQuestGems == importQuest :> 0 @@ collectQuest :> 1 @@ stallQuest :> 2
MCWallets == {[coins |-> 100, gems |-> 5]}
MCSymmetry == Permutations(Orders)
MCStocks == {banhMi :> 1 @@ traDa :> 1}
=============================================================================
