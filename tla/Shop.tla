-------------------------------- MODULE Shop --------------------------------
(***************************************************************************)
(* What the endpoints of one player's shop promise: each of them takes one *)
(* step on the player's rows (selling_service.go, import_order_service.go, *)
(* inventory_service.go, stall_service.go, QuestService.Claim and          *)
(* progression.go).  ShopTx has the statements and the row locks.          *)
(*                                                                         *)
(* db holds the rows.  An operation is a condition on the rows it reads,   *)
(* May..., and the rows after it, ...ed; both are written for a part m of  *)
(* db, which is all a transaction knows before it has read everything.     *)
(***************************************************************************)
EXTENDS Integers, FiniteSets, SetSums

CONSTANTS
  Products,
  ImportPrice, SellPrice,  \* per product, in coins
  UnlockLevel,             \* UnlockLevel[p]: the player level that may import p
  Orders,                  \* the ids an import order can get
  Quantities,              \* the quantities a request can ask for
  MaxLevel,                \* the last stall level with an upgrade_configs row, 6
  UpgradeCost,             \* UpgradeCost[l]: cost_coins to reach level l
  BaseSlots,               \* a level l stall has BaseSlots + l slots; 2 in the code
  Quests,
  TargetType,              \* TargetType[q]: what quest q counts
  TargetValue,             \* how much of it completes q
  QuestCoins, QuestGems,   \* q's reward
  CollectXp,               \* addXP per collected slot, 8
  NeighborXp,              \* addXP per visit to a neighbour: help 5, prank 3
  VisitLevel,              \* bound: the levels at which a player still visits
  XpStep,                  \* max_xp starts at XpStep and grows by level * XpStep; 100
  Wallets, Stocks          \* the wallets and inventories a player can start with

StallLevels == 1..MaxLevel
SlotIds == 1..(MaxLevel + BaseSlots)
Targets == {"PLACE_PRODUCT", "COLLECT_REVENUE", "IMPORT_PRODUCT", "UPGRADE_STALL"}
NoProduct == "NULL"

ASSUME CatalogAssumption ==
  /\ IsFiniteSet(Products) /\ NoProduct \notin Products
  /\ ImportPrice \in [Products -> Nat]
  /\ SellPrice \in [Products -> Nat]
  /\ UnlockLevel \in [Products -> Nat]
  /\ IsFiniteSet(Orders)
  /\ Quantities \subseteq Nat \ {0}
  /\ MaxLevel \in Nat \ {0}
  /\ UpgradeCost \in [StallLevels -> Nat]
  /\ BaseSlots \in Nat

\* No gain is more than XpStep: it raises the level at most once.
ASSUME RewardAssumption ==
  /\ IsFiniteSet(Quests)
  /\ TargetType \in [Quests -> Targets]
  /\ TargetValue \in [Quests -> Nat \ {0}]
  /\ QuestCoins \in [Quests -> Nat]
  /\ QuestGems \in [Quests -> Nat]
  /\ XpStep \in Nat \ {0} /\ CollectXp \in 0..XpStep
  /\ NeighborXp \subseteq 0..XpStep /\ VisitLevel \in Nat
  /\ Wallets \subseteq [coins : Nat, gems : Nat]
  /\ Stocks \subseteq [Products -> Nat]

-----------------------------------------------------------------------------
(* The rows, named by table and key.                                        *)

Stall == <<"stalls">>            \* its level
User == <<"users">>
Wallet == <<"user_wallets">>
Slot(i) == <<"stall_slots", i>>
Stock(p) == <<"inventory", p>>   \* its quantity, 0 without a row
Import(o) == <<"import_orders", o>>
Quest(q) == <<"user_quests", q>>
Catalogue(p) == <<"products", p>>  \* p's row, the same for all players

Rows == {Stall, User, Wallet} \cup {Catalogue(p) : p \in Products}
        \cup {Slot(i) : i \in SlotIds} \cup {Stock(p) : p \in Products}
        \cup {Import(o) : o \in Orders} \cup {Quest(q) : q \in Quests}

SlotRow(state, p, revenue) == [state |-> state, product |-> p, revenue |-> revenue]
NoSlot == SlotRow("none", NoProduct, 0)
EmptySlot == SlotRow("empty", NoProduct, 0)

ImportRow(s, p, n) == [status |-> s, product |-> p, qty |-> n]
QuestRow(n, s) == [progress |-> n, status |-> s]

VARIABLES
  db,      \* db[row]: the committed row
  due,     \* the slots and import orders whose time is over
  sold,    \* history: sold[p], units of p sold at the stall
  dumped,  \* history: dumped[p], units of p sold by FastSell
  start    \* history: the wallet and the inventory at registration

shopVars == <<db, due, sold, dumped, start>>

SlotStates == [state : {"none", "empty", "selling"},
               product : Products \cup {NoProduct}, revenue : Nat]
ImportStates == [status : {"none", "pending", "claimed"},
                 product : Products \cup {NoProduct}, qty : Nat]
QuestStates == [progress : Nat, status : {"active", "completed", "claimed"}]
UserStates == [level : Nat, xp : Nat, maxXp : Nat]

ShopTypeOK ==
  /\ DOMAIN db = Rows
  /\ db[Stall] \in StallLevels
  /\ db[User] \in UserStates
  /\ db[Wallet] \in [coins : Nat, gems : Nat]
  /\ \A i \in SlotIds : db[Slot(i)] \in SlotStates
  /\ \A p \in Products : db[Stock(p)] \in Nat
  /\ \A o \in Orders : db[Import(o)] \in ImportStates
  /\ \A q \in Quests : db[Quest(q)] \in QuestStates
  /\ \A p \in Products : db[Catalogue(p)] = p
  /\ due \subseteq Rows
  /\ sold \in [Products -> Nat]
  /\ dumped \in [Products -> Nat]

\* Register: slots 1..3 and level 1; one active user_quests row per quest.
InitialRow(row, wallet, stock) ==
  CASE row = Stall -> 1
    [] row = User -> [level |-> 1, xp |-> 0, maxXp |-> XpStep]
    [] row = Wallet -> wallet
    [] row[1] = "stall_slots" -> IF row[2] <= 1 + BaseSlots THEN EmptySlot ELSE NoSlot
    [] row[1] = "inventory" -> stock[row[2]]
    [] row[1] = "import_orders" -> ImportRow("none", NoProduct, 0)
    [] row[1] = "user_quests" -> QuestRow(0, "active")
    [] row[1] = "products" -> row[2]

ShopInit ==
  /\ start \in [wallet : Wallets, stock : Stocks]
  /\ db = [row \in Rows |-> InitialRow(row, start.wallet, start.stock)]
  /\ due = {}
  /\ sold = [p \in Products |-> 0]
  /\ dumped = [p \in Products |-> 0]

-----------------------------------------------------------------------------
(* progression.go                                                           *)

\* updateQuestProgress: the active quests among the rows m that count target.
Counting(m, target) ==
  {q \in Quests : /\ Quest(q) \in DOMAIN m
                  /\ TargetType[q] = target
                  /\ m[Quest(q)].status = "active"}

Advanced(q, row, n) ==
  IF row.progress + n >= TargetValue[q]
  THEN QuestRow(TargetValue[q], "completed")
  ELSE QuestRow(row.progress + n, "active")

Progressed(m, target, n) ==
  [row \in DOMAIN m |->
     IF \E q \in Counting(m, target) : row = Quest(q)
     THEN Advanced(row[2], m[row], n) ELSE m[row]]

\* addXP for a gain that cannot raise the level twice
WithXp(u, gained) ==
  IF u.xp + gained >= u.maxXp
  THEN [level |-> u.level + 1, xp |-> u.xp + gained - u.maxXp,
        maxXp |-> u.maxXp + (u.level + 1) * XpStep]
  ELSE [u EXCEPT !.xp = @ + gained]

Earned(m, coins) == [m EXCEPT ![Wallet].coins = @ + coins]

-----------------------------------------------------------------------------
(* selling_service.go                                                       *)

MayPlace(m, i, p) ==
  /\ Stall \in DOMAIN m => i <= m[Stall] + BaseSlots
  /\ Slot(i) \in DOMAIN m => m[Slot(i)].state = "empty"
  /\ Stock(p) \in DOMAIN m => m[Stock(p)] > 0

\* Mutant: the slot's revenue is the import price.
PlacedAtCost(m, i, p) ==
  Progressed([m EXCEPT ![Stock(p)] = @ - 1,
                       ![Slot(i)] = SlotRow("selling", p, ImportPrice[p])],
             "PLACE_PRODUCT", 1)

Placed(m, i, p) ==
  Progressed([m EXCEPT ![Stock(p)] = @ - 1,
                       ![Slot(i)] = SlotRow("selling", p, SellPrice[p])],
             "PLACE_PRODUCT", 1)

MayCollect(m, i) ==
  Slot(i) \in DOMAIN m => m[Slot(i)].state = "selling" /\ Slot(i) \in due

\* Mutant: the slot is not reset.
CollectedKeepsSlot(m, i) ==
  Progressed(Earned([m EXCEPT ![User] = WithXp(@, CollectXp)], m[Slot(i)].revenue),
             "COLLECT_REVENUE", 1)

Collected(m, i) ==
  Progressed(Earned([m EXCEPT ![Slot(i)] = EmptySlot,
                              ![User] = WithXp(@, CollectXp)],
                    m[Slot(i)].revenue),
             "COLLECT_REVENUE", 1)

-----------------------------------------------------------------------------
(* import_order_service.go                                                  *)

MayImport(m, o, p, n) ==
  /\ Import(o) \in DOMAIN m => m[Import(o)].status = "none"
  /\ User \in DOMAIN m => m[User].level >= UnlockLevel[p]
  /\ Wallet \in DOMAIN m => m[Wallet].coins >= n * ImportPrice[p]

\* Mutant: an order counts once for the quests, whatever its quantity.
ImportedOne(m, o, p, n) ==
  Progressed([m EXCEPT ![Wallet].coins = @ - n * ImportPrice[p],
                       ![Import(o)] = ImportRow("pending", p, n)],
             "IMPORT_PRODUCT", 1)

Imported(m, o, p, n) ==
  Progressed([m EXCEPT ![Wallet].coins = @ - n * ImportPrice[p],
                       ![Import(o)] = ImportRow("pending", p, n)],
             "IMPORT_PRODUCT", n)

MayClaim(m, o) ==
  Import(o) \in DOMAIN m => m[Import(o)].status = "pending" /\ Import(o) \in due

Claimed(m, o) ==
  [m EXCEPT ![Import(o)].status = "claimed",
            ![Stock(m[Import(o)].product)] = @ + m[Import(o)].qty]

-----------------------------------------------------------------------------
(* inventory_service.go                                                     *)

FastPrice(p) == (SellPrice[p] * 6) \div 10

\* Mutant: the quantity is not compared with the inventory.
MaySellUnchecked(m, p, n) == TRUE

MaySell(m, p, n) == Stock(p) \in DOMAIN m => m[Stock(p)] >= n

Sold(m, p, n) ==
  Progressed(Earned([m EXCEPT ![Stock(p)] = @ - n], FastPrice(p) * n),
             "COLLECT_REVENUE", (FastPrice(p) * n) \div 10)

-----------------------------------------------------------------------------
(* stall_service.go                                                         *)

MayUpgrade(m) ==
  Stall \in DOMAIN m =>
    /\ m[Stall] < MaxLevel
    /\ Wallet \in DOMAIN m => m[Wallet].coins >= UpgradeCost[m[Stall] + 1]

\* Mutant: the slot of the level the stall leaves.
NewSlotOffByOne(m) == Slot(m[Stall] + BaseSlots)

NewSlot(m) == Slot(m[Stall] + 1 + BaseSlots)

\* Mutant: users.level is not raised.
UpgradedStallOnly(m) ==
  Progressed(
    [m EXCEPT ![Wallet].coins = @ - UpgradeCost[m[Stall] + 1],
              ![Stall] = @ + 1,
              ![NewSlot(m)] = IF @.state = "none" THEN EmptySlot ELSE @],
    "UPGRADE_STALL", 1)

Upgraded(m) ==
  Progressed(
    [m EXCEPT ![Wallet].coins = @ - UpgradeCost[m[Stall] + 1],
              ![Stall] = @ + 1,
              ![User].level = IF @ < m[Stall] + 1 THEN m[Stall] + 1 ELSE @,
              ![NewSlot(m)] = IF @.state = "none" THEN EmptySlot ELSE @],
    "UPGRADE_STALL", 1)

-----------------------------------------------------------------------------
(* QuestService.Claim                                                       *)

MayReward(m, q) ==
  Quest(q) \in DOMAIN m =>
    m[Quest(q)].status # "claimed" /\ m[Quest(q)].progress >= TargetValue[q]

Rewarded(m, q) ==
  [m EXCEPT ![Quest(q)].status = "claimed",
            ![Wallet] = [coins |-> @.coins + QuestCoins[q],
                         gems |-> @.gems + QuestGems[q]]]

-----------------------------------------------------------------------------
(* social_service.go                                                        *)

MayVisit(m) == User \in DOMAIN m => m[User].level <= VisitLevel

Visited(m, gained) == [m EXCEPT ![User] = WithXp(@, gained)]

-----------------------------------------------------------------------------
(* A request, whether the rows m allow it, and the rows it leaves.          *)

Requests ==
  [op : {"place"}, slot : SlotIds, product : Products]
  \cup [op : {"collect"}, slot : SlotIds]
  \cup [op : {"import"}, order : Orders, product : Products, qty : Quantities]
  \cup [op : {"claim"}, order : Orders]
  \cup [op : {"sell"}, product : Products, qty : Quantities]
  \cup [op : {"upgrade"}]
  \cup [op : {"reward"}, quest : Quests]
  \cup [op : {"visit"}, gained : NeighborXp]

Allowed(r, m) ==
  CASE r.op = "place" -> MayPlace(m, r.slot, r.product)
    [] r.op = "collect" -> MayCollect(m, r.slot)
    [] r.op = "import" -> MayImport(m, r.order, r.product, r.qty)
    [] r.op = "claim" -> MayClaim(m, r.order)
    [] r.op = "sell" -> MaySell(m, r.product, r.qty)
    [] r.op = "upgrade" -> MayUpgrade(m)
    [] r.op = "reward" -> MayReward(m, r.quest)
    [] r.op = "visit" -> MayVisit(m)

After(r, m) ==
  CASE r.op = "place" -> Placed(m, r.slot, r.product)
    [] r.op = "collect" -> Collected(m, r.slot)
    [] r.op = "import" -> Imported(m, r.order, r.product, r.qty)
    [] r.op = "claim" -> Claimed(m, r.order)
    [] r.op = "sell" -> Sold(m, r.product, r.qty)
    [] r.op = "upgrade" -> Upgraded(m)
    [] r.op = "reward" -> Rewarded(m, r.quest)
    [] r.op = "visit" -> Visited(m, r.gained)

\* What the histories and the clock make of a request that read the rows m.
Recorded(r, m) ==
  /\ sold' = IF r.op = "collect" THEN [sold EXCEPT ![m[Slot(r.slot)].product] = @ + 1]
             ELSE sold
  /\ dumped' = IF r.op = "sell" THEN [dumped EXCEPT ![r.product] = @ + r.qty]
               ELSE dumped
  /\ due' = due \ (IF r.op = "collect" THEN {Slot(r.slot)}
                   ELSE IF r.op = "claim" THEN {Import(r.order)} ELSE {})
  /\ UNCHANGED start

Perform(r) ==
  /\ Allowed(r, db)
  /\ db' = After(r, db)
  /\ Recorded(r, db)

PlaceProduct ==
  \E i \in SlotIds, p \in Products : Perform([op |-> "place", slot |-> i, product |-> p])
CollectSlot == \E i \in SlotIds : Perform([op |-> "collect", slot |-> i])
CreateImport ==
  \E o \in Orders, p \in Products, n \in Quantities :
    Perform([op |-> "import", order |-> o, product |-> p, qty |-> n])
ClaimImport == \E o \in Orders : Perform([op |-> "claim", order |-> o])
FastSell ==
  \E p \in Products, n \in Quantities : Perform([op |-> "sell", product |-> p, qty |-> n])
UpgradeStall == Perform([op |-> "upgrade"])
ClaimQuest == \E q \in Quests : Perform([op |-> "reward", quest |-> q])
NeighborAction == \E n \in NeighborXp : Perform([op |-> "visit", gained |-> n])

Timed ==
  {Slot(i) : i \in {j \in SlotIds : db[Slot(j)].state = "selling"}}
  \cup {Import(o) : o \in {k \in Orders : db[Import(k)].status = "pending"}}

\* The sale or import time of one of the rows is over.
Elapse ==
  /\ \E row \in Timed \ due : due' = due \cup {row}
  /\ UNCHANGED <<db, sold, dumped, start>>

ShopNext ==
  \/ PlaceProduct \/ CollectSlot
  \/ CreateImport \/ ClaimImport
  \/ FastSell \/ UpgradeStall \/ ClaimQuest \/ NeighborAction
  \/ Elapse

ShopSpec == ShopInit /\ [][ShopNext]_shopVars

-----------------------------------------------------------------------------
(* Properties.                                                              *)

Bought == {o \in Orders : db[Import(o)].status # "none"}
Arrived(p) == {o \in Orders : /\ db[Import(o)].status = "claimed"
                              /\ db[Import(o)].product = p}
OnSale(p) == {i \in SlotIds : db[Slot(i)].product = p}
RewardsPaid == {q \in Quests : db[Quest(q)].status = "claimed"}

Units == [o \in Orders |-> db[Import(o)].qty]

\* Every unit bought or owned is in the inventory, on the stall, or was sold,
\* once: two collects of a slot or two claims of an order make no goods.
GoodsLedger ==
  \A p \in Products :
    start.stock[p] + Total(Arrived(p), Units)
    = db[Stock(p)] + Cardinality(OnSale(p)) + sold[p] + dumped[p]

Revenue == [p \in Products |-> sold[p] * SellPrice[p] + dumped[p] * FastPrice(p)]
Price == [o \in Bought |-> db[Import(o)].qty * ImportPrice[db[Import(o)].product]]

Income == Total(Products, Revenue) + Total(RewardsPaid, QuestCoins)
Expenses == Total(Bought, Price) + Total(2..db[Stall], UpgradeCost)

\* The wallet is what it began with, plus each unit sold at its price and each
\* quest rewarded once, less each order and each stall level bought.
CoinLedger ==
  /\ db[Wallet].coins = start.wallet.coins + Income - Expenses
  /\ db[Wallet].gems = start.wallet.gems + Total(RewardsPaid, QuestGems)

\* The stall has a row for every slot its level opens and for no other:
\* PlaceProduct never finds an opened slot missing, and no upgrade skips one.
SlotRows ==
  \A i \in SlotIds : db[Slot(i)].state # "none" <=> i <= db[Stall] + BaseSlots

\* An import quest counts the units bought up to its target and an upgrade
\* quest the levels: no purchase goes uncounted and none counts twice.
QuestsCount ==
  \A q \in Quests :
    LET counted == CASE TargetType[q] = "IMPORT_PRODUCT" -> Total(Bought, Units)
                     [] TargetType[q] = "UPGRADE_STALL" -> db[Stall] - 1
                     [] OTHER -> db[Quest(q)].progress
    IN  /\ db[Quest(q)].progress = IF counted < TargetValue[q] THEN counted
                                   ELSE TargetValue[q]
        /\ db[Quest(q)].status = "active" <=> db[Quest(q)].progress < TargetValue[q]

\* The player's level is never below the stall's, whatever addXP writes.
LevelCoversStall == db[User].level >= db[Stall]
=============================================================================
