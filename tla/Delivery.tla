------------------------------ MODULE Delivery ------------------------------
(***************************************************************************)
(* The delivery service of one player (delivery_service.go): a board of    *)
(* customer orders, shippers that carry them, the stock they take and the  *)
(* reward a finished trip pays.                                            *)
(*                                                                         *)
(* Deliver, ClaimReward, UpgradeShipper and InstantComplete each lock the  *)
(* shipper's row in their first statement and write only rows they have    *)
(* locked.  The first three are one action each.  InstantComplete reads    *)
(* the clock, which no lock stops, and then waits for the wallet: it is    *)
(* two, QuoteCompletion and InstantComplete, and holds the shipper's row   *)
(* between them.  ActiveOrders locks nothing before its DELETE, so it is   *)
(* three: it reads the board, its DELETE takes a snapshot of the pending   *)
(* rows, and the deletion and the new orders commit.  Time and other       *)
(* requests go on between these steps.                                     *)
(***************************************************************************)
EXTENDS Integers, FiniteSets, SetSums

CONSTANTS
  Orders,        \* the ids gen_random_uuid() can give a delivery order
  Products,
  Items,         \* Items[o][p]: units of product p that order o asks for
  RewardCoins,   \* RewardCoins[o]
  Duration,      \* Duration[o]: its delivery_time_seconds
  BoardSize,     \* 12 in the code
  DeliveryLevel, \* the player level that opens the service, 30
  Shippers,      \* the shipper_index values, 1..3
  UnlockLevel,   \* UnlockLevel[s]: the player level that unlocks s: 30, 40, 50
  MaxLevel,      \* a shipper's last level, 5
  Capacity,      \* Capacity[l], Slots[l]: units and orders a level l carries
  Slots,
  Speed,         \* Speed[l]: its speed_multiplier, in hundredths
  UpgradeCost,   \* UpgradeCost[l]: coins to go from level l to l + 1
  GemSeconds,    \* seconds one gem buys, 60
  UserLevels,    \* the player levels told apart
  Wallets,       \* the wallets a player can start with
  Stocks,        \* the inventories a player can start with
  Tabs           \* the GET /delivery/orders requests that can be under way at once

Null == -1              \* busy_until IS NULL
NoShipper == 0          \* shipper_id IS NULL
ShipperLevels == 1..MaxLevel

ASSUME ShipperAssumption ==
  /\ IsFiniteSet(Shippers)
  /\ Shippers \subseteq Nat \ {NoShipper}
  /\ MaxLevel \in Nat \ {0}
  /\ DeliveryLevel \in Nat
  /\ UnlockLevel \in [Shippers -> Nat]
  /\ Capacity \in [ShipperLevels -> Nat]
  /\ Slots \in [ShipperLevels -> Nat]
  /\ Speed \in [ShipperLevels -> Nat \ {0}]
  /\ UpgradeCost \in [ShipperLevels -> Nat]
  /\ \A l \in ShipperLevels : l + 1 \in ShipperLevels =>
       Capacity[l] <= Capacity[l + 1] /\ Slots[l] <= Slots[l + 1]

ASSUME OrderAssumption ==
  /\ IsFiniteSet(Orders)
  /\ IsFiniteSet(Products)
  /\ Items \in [Orders -> [Products -> Nat]]
  /\ RewardCoins \in [Orders -> Nat]
  /\ Duration \in [Orders -> Nat]
  /\ BoardSize \in Nat
  /\ GemSeconds \in Nat \ {0}
  /\ UserLevels \subseteq Nat
  /\ IsFiniteSet(Tabs)
  /\ Wallets \subseteq [coins : Nat, gems : Nat]
  /\ Stocks \subseteq [Products -> Nat]

VARIABLES
  status,      \* status[o]: o's row, or how the row went away
  carrier,     \* carrier[o]: its shipper_id
  shipper,     \* shipper[s]: s's row
  stock,       \* inventory.quantity per product
  wallet,      \* user_wallets
  userLevel,   \* users.level
  get,         \* get[t]: the ActiveOrders transaction of tab t
  quote,       \* quote[s]: the gemCost of the InstantComplete that holds s's row, or 0
  paid,        \* history: paid[o] counts the times o's reward was paid
  hurried,     \* history: hurried[s] counts the times gems were paid for s's trip
  start        \* history: the inventory and the coins the player began with

vars == <<status, carrier, shipper, stock, wallet, userLevel, get, quote, paid, hurried, start>>

OrderStatus == {"unused", "pending", "delivering", "replaced", "delivered"}

NoGet == [pc |-> "none", kept |-> 0, doomed |-> {}]

TypeOK ==
  /\ status \in [Orders -> OrderStatus]
  /\ carrier \in [Orders -> Shippers \cup {NoShipper}]
  /\ shipper \in [Shippers -> [state : {"none", "idle", "delivering"},
                               level : ShipperLevels,
                               busy : Nat \cup {Null}]]
  /\ stock \in [Products -> Nat]
  /\ wallet \in [coins : Nat, gems : Nat]
  /\ userLevel \in UserLevels
  /\ get \in [Tabs -> [pc : {"none", "read", "deleting"},
                       kept : Nat, doomed : SUBSET Orders]]
  /\ quote \in [Shippers -> Nat]
  /\ paid \in [Orders -> Nat]
  /\ hurried \in [Shippers -> Nat]
  /\ start \in [stock : [Products -> Nat], coins : Nat]

-----------------------------------------------------------------------------
(* What a set of orders asks for and pays.                                  *)

\* aggItems[p]: the units of p that the orders S ask for together
Demand(S, p) == Total(S, [o \in Orders |-> Items[o][p]])

\* totalItems: the units of every product
Load(S) == Total(S \X Products, [op \in Orders \X Products |-> Items[op[1]][op[2]]])

\* totalCoins
Reward(S) == Total(S, RewardCoins)

-----------------------------------------------------------------------------
Pending == {o \in Orders : status[o] = "pending"}
Delivering == {o \in Orders : status[o] = "delivering"}
Unused == {o \in Orders : status[o] = "unused"}

\* The rows with shipper_id = s.
Carried(s) == {o \in Orders : carrier[o] = s}

Row(state, level, busy) == [state |-> state, level |-> level, busy |-> busy]

Init ==
  /\ status = [o \in Orders |-> "unused"]
  /\ carrier = [o \in Orders |-> NoShipper]
  /\ shipper = [s \in Shippers |-> Row("none", 1, Null)]
  /\ stock \in Stocks
  /\ wallet \in Wallets
  /\ userLevel \in UserLevels
  /\ get = [t \in Tabs |-> NoGet]
  /\ quote = [s \in Shippers |-> 0]
  /\ hurried = [s \in Shippers |-> 0]
  /\ paid = [o \in Orders |-> 0]
  /\ start = [stock |-> stock, coins |-> wallet.coins]

-----------------------------------------------------------------------------
(* Shippers: one autocommitted INSERT ... ON CONFLICT DO NOTHING for each   *)
(* index the level has unlocked, in index order.                            *)
UnlockShipper(s) ==
  /\ userLevel >= DeliveryLevel
  /\ userLevel >= UnlockLevel[s]
  /\ \A r \in Shippers : r < s => shipper[r].state # "none"
  /\ shipper[s].state = "none"
  /\ shipper' = [shipper EXCEPT ![s].state = "idle"]
  /\ UNCHANGED <<status, carrier, stock, wallet, userLevel, get, quote, paid, hurried, start>>

-----------------------------------------------------------------------------
(* ActiveOrders.                                                            *)

\* The transaction reads the board and finds that it must be refreshed: fewer
\* than BoardSize rows, or a pending one older than a minute (any pending row
\* may be).  A request that finds neither only reads.
ReadBoard(t) ==
  /\ get[t].pc = "none"
  /\ userLevel >= DeliveryLevel
  /\ \E hasExpiredPending \in BOOLEAN :
       /\ hasExpiredPending => Pending # {}
       /\ Cardinality(Pending \cup Delivering) < BoardSize \/ hasExpiredPending
  /\ get' = [get EXCEPT ![t] = [pc |-> "read", kept |-> Cardinality(Delivering),
                             doomed |-> {}]]
  /\ UNCHANGED <<status, carrier, shipper, stock, wallet, userLevel, quote, paid, hurried, start>>

\* DELETE ... WHERE status = 'pending' starts: READ COMMITTED gives the
\* statement a snapshot of its own.
StartDelete(t) ==
  /\ get[t].pc = "read"
  /\ get' = [get EXCEPT ![t] = [@ EXCEPT !.pc = "deleting", !.doomed = Pending]]
  /\ UNCHANGED <<status, carrier, shipper, stock, wallet, userLevel, quote, paid, hurried, start>>

\* Mutant: the DELETE removes its whole snapshot, accepted orders too.
RemovedUnchecked(t) == get[t].doomed

\* The rows the DELETE removes: those of its snapshot that are still pending
\* when it gets their locks (PostgreSQL evaluates the WHERE again).
Removed(t) == get[t].doomed \cap Pending

\* needed: 12 less the delivering rows of the list read in the first step
Needed(t) == IF get[t].kept < BoardSize THEN BoardSize - get[t].kept ELSE 0

\* The board stays empty if no product is active and unlocked, which is up to
\* the catalogue.
Refresh(t) ==
  /\ get[t].pc = "deleting"
  /\ \E new \in SUBSET Unused :
       /\ Cardinality(new) \in {0, Needed(t)}
       /\ status' = [o \in Orders |->
                       CASE o \in Removed(t) -> "replaced"
                         [] o \in new -> "pending"
                         [] OTHER -> status[o]]
  /\ get' = [get EXCEPT ![t] = NoGet]
  /\ UNCHANGED <<carrier, shipper, stock, wallet, userLevel, quote, paid, hurried, start>>

\* The transaction fails or its connection is lost: nothing of it stays.
Rollback(t) ==
  /\ get[t].pc # "none"
  /\ get' = [get EXCEPT ![t] = NoGet]
  /\ UNCHANGED <<status, carrier, shipper, stock, wallet, userLevel, quote, paid, hurried, start>>

-----------------------------------------------------------------------------
(* The four transactions that lock the shipper's row first.                 *)

\* Mutant: the SELECT without its FOR UPDATE.
Unguarded(s) == TRUE

\* No InstantComplete holds the row.
Unlocked(s) == quote[s] = 0

Fits(s, ids) ==
  /\ Cardinality(ids) <= Slots[shipper[s].level]
  /\ Load(ids) <= Capacity[shipper[s].level]

\* Mutant: the trip starts without a busy_until.
TripTimeNull(l, o) == Null

\* The whole seconds a level l shipper takes to deliver o.
TripTime(l, o) == (100 * Duration[o]) \div Speed[l]

\* Mutant: an order on the road may be sent again.
DeliverAgain(s, ids) ==
  /\ ids # {} /\ Unlocked(s)
  /\ shipper[s].state = "idle"
  /\ Fits(s, ids)
  /\ ids \subseteq Pending \cup Delivering
  /\ \A p \in Products : Demand(ids, p) <= stock[p]
  /\ stock' = [p \in Products |-> stock[p] - Demand(ids, p)]
  /\ status' = [o \in Orders |-> IF o \in ids THEN "delivering" ELSE status[o]]
  /\ carrier' = [o \in Orders |-> IF o \in ids THEN s ELSE carrier[o]]
  /\ hurried' = [hurried EXCEPT ![s] = 0]
  /\ \E o \in ids :
       shipper' = [shipper EXCEPT ![s] = Row("delivering", @.level, TripTime(@.level, o))]
  /\ UNCHANGED <<wallet, userLevel, get, quote, paid, start>>

Deliver(s, ids) ==
  /\ ids # {} /\ Unlocked(s)
  /\ shipper[s].state = "idle"
  /\ Fits(s, ids)
  /\ ids \subseteq Pending
  /\ \A p \in Products : Demand(ids, p) <= stock[p]
  /\ stock' = [p \in Products |-> stock[p] - Demand(ids, p)]
  /\ status' = [o \in Orders |-> IF o \in ids THEN "delivering" ELSE status[o]]
  /\ carrier' = [o \in Orders |-> IF o \in ids THEN s ELSE carrier[o]]
  /\ hurried' = [hurried EXCEPT ![s] = 0]
  /\ \E longest \in ids :
       /\ \A o \in ids : Duration[o] <= Duration[longest]
       /\ shipper' = [shipper EXCEPT ![s] =
                        Row("delivering", @.level, TripTime(@.level, longest))]
  /\ UNCHANGED <<wallet, userLevel, get, quote, paid, start>>

\* Mutant: the claim does not delete the orders it paid.
ClaimKeepsOrders(s) ==
  /\ shipper[s].state = "delivering" /\ Unlocked(s)
  /\ shipper[s].busy = 0
  /\ wallet' = [wallet EXCEPT !.coins = @ + Reward(Carried(s))]
  /\ paid' = [o \in Orders |-> IF o \in Carried(s) THEN paid[o] + 1 ELSE paid[o]]
  /\ shipper' = [shipper EXCEPT ![s] = Row("idle", @.level, Null)]
  /\ UNCHANGED <<status, carrier, stock, userLevel, get, quote, hurried, start>>

\* addXP may raise the player's level.  The progress of DELIVER_ORDER quests
\* (updateQuestProgress, line 559) is not kept here.
ClaimReward(s) ==
  /\ shipper[s].state = "delivering" /\ Unlocked(s)
  /\ shipper[s].busy = 0
  /\ wallet' = [wallet EXCEPT !.coins = @ + Reward(Carried(s))]
  /\ paid' = [o \in Orders |-> IF o \in Carried(s) THEN paid[o] + 1 ELSE paid[o]]
  /\ \E level \in UserLevels : level >= userLevel /\ userLevel' = level
  /\ status' = [o \in Orders |-> IF o \in Carried(s) THEN "delivered" ELSE status[o]]
  /\ carrier' = [o \in Orders |-> IF o \in Carried(s) THEN NoShipper ELSE carrier[o]]
  /\ shipper' = [shipper EXCEPT ![s] = Row("idle", @.level, Null)]
  /\ UNCHANGED <<stock, get, quote, hurried, start>>

\* Mutants: an upgrade on credit, and one at the next level's price.
UpgradeOnCredit(s) ==
  /\ shipper[s].state # "none" /\ Unlocked(s)
  /\ shipper[s].level < MaxLevel
  /\ wallet' = [wallet EXCEPT !.coins = @ - UpgradeCost[shipper[s].level]]
  /\ shipper' = [shipper EXCEPT ![s].level = @ + 1]
  /\ UNCHANGED <<status, carrier, stock, userLevel, get, quote, paid, hurried, start>>

UpgradeOffByOne(s) ==
  /\ shipper[s].state # "none" /\ Unlocked(s)
  /\ shipper[s].level < MaxLevel
  /\ wallet.coins >= UpgradeCost[shipper[s].level + 1]
  /\ wallet' = [wallet EXCEPT !.coins = @ - UpgradeCost[shipper[s].level + 1]]
  /\ shipper' = [shipper EXCEPT ![s].level = @ + 1]
  /\ UNCHANGED <<status, carrier, stock, userLevel, get, quote, paid, hurried, start>>

UpgradeShipper(s) ==
  /\ shipper[s].state # "none" /\ Unlocked(s)
  /\ shipper[s].level < MaxLevel
  /\ wallet.coins >= UpgradeCost[shipper[s].level]
  /\ wallet' = [wallet EXCEPT !.coins = @ - UpgradeCost[shipper[s].level]]
  /\ shipper' = [shipper EXCEPT ![s].level = @ + 1]
  /\ UNCHANGED <<status, carrier, stock, userLevel, get, quote, paid, hurried, start>>

\* A gem for every GemSeconds of the whole seconds left, or part of them.
GemCost(seconds) ==
  IF seconds = 0 THEN 1 ELSE (seconds + GemSeconds - 1) \div GemSeconds

\* InstantComplete locks the row, looks at the clock and sets its price.  busy
\* counts a begun second and remainingSeconds does not.
QuoteCompletion(s) ==
  /\ Unlocked(s)
  /\ shipper[s].state = "delivering"
  /\ shipper[s].busy > 0
  /\ \E seconds \in {shipper[s].busy - 1, shipper[s].busy} :
       quote' = [quote EXCEPT ![s] = GemCost(seconds)]
  /\ UNCHANGED <<status, carrier, shipper, stock, wallet, userLevel, get, paid, hurried, start>>

\* Mutant: the trip is ended by clearing busy_until.
InstantCompleteClears(s) ==
  /\ quote[s] > 0
  /\ wallet.gems >= quote[s]
  /\ wallet' = [wallet EXCEPT !.gems = @ - quote[s]]
  /\ shipper' = [shipper EXCEPT ![s].busy = Null]
  /\ hurried' = [hurried EXCEPT ![s] = @ + 1]
  /\ quote' = [quote EXCEPT ![s] = 0]
  /\ UNCHANGED <<status, carrier, stock, userLevel, get, paid, start>>

\* It has the wallet's row: it takes the gems and sets busy_until to the moment
\* the transaction began, whatever the clock says by now.
InstantComplete(s) ==
  /\ quote[s] > 0
  /\ wallet.gems >= quote[s]
  /\ wallet' = [wallet EXCEPT !.gems = @ - quote[s]]
  /\ shipper' = [shipper EXCEPT ![s].busy = 0]
  /\ hurried' = [hurried EXCEPT ![s] = @ + 1]
  /\ quote' = [quote EXCEPT ![s] = 0]
  /\ UNCHANGED <<status, carrier, stock, userLevel, get, paid, start>>

\* The gems do not suffice, or the transaction fails: it lets go of the row.
AbandonCompletion(s) ==
  /\ quote[s] > 0
  /\ quote' = [quote EXCEPT ![s] = 0]
  /\ UNCHANGED <<status, carrier, shipper, stock, wallet, userLevel, get, paid, hurried, start>>

-----------------------------------------------------------------------------
\* Time passes.  busy is busy_until less the current time in seconds, a begun
\* second counted, and 0 once it is past.
Tick ==
  /\ \E s \in Shippers : shipper[s].busy > 0
  /\ shipper' = [s \in Shippers |->
       IF shipper[s].busy > 0 THEN [shipper[s] EXCEPT !.busy = @ - 1] ELSE shipper[s]]
  /\ UNCHANGED <<status, carrier, stock, wallet, userLevel, get, quote, paid, hurried, start>>

Next ==
  \/ \E s \in Shippers :
       \/ UnlockShipper(s)
       \/ \E ids \in SUBSET Orders : Deliver(s, ids)
       \/ ClaimReward(s)
       \/ UpgradeShipper(s)
       \/ QuoteCompletion(s) \/ InstantComplete(s) \/ AbandonCompletion(s)
  \/ \E t \in Tabs : ReadBoard(t) \/ StartDelete(t) \/ Refresh(t) \/ Rollback(t)
  \/ Tick

Spec == Init /\ [][Next]_vars

\* Time does not stop; no player has to do anything.
FairSpec == Spec /\ WF_vars(Tick)

-----------------------------------------------------------------------------
(* Properties.                                                              *)

\* A shipper is busy exactly while it carries orders, never more orders than
\* its slots nor more units than its capacity (UpgradeShipper runs during a
\* trip and changes both), and an order is delivering exactly while a shipper
\* carries it: no order is left on the road without a trip to claim.
TripsConsistent ==
  /\ \A s \in Shippers :
       /\ shipper[s].state = "delivering" <=> Carried(s) # {}
       /\ shipper[s].state = "delivering" <=> shipper[s].busy # Null
       /\ Fits(s, Carried(s))
  /\ \A o \in Orders : carrier[o] # NoShipper <=> status[o] = "delivering"

\* An order's reward is paid once if its trip was claimed, and never otherwise:
\* not for an order that a refresh replaced, and not twice by two claims.
PaidExactlyOnce ==
  \A o \in Orders : paid[o] = IF status[o] = "delivered" THEN 1 ELSE 0

Delivered == {o \in Orders : status[o] = "delivered"}
Accepted == Delivering \cup Delivered

\* Every unit that left the inventory is in an accepted order, once: whatever
\* the board did meanwhile, the goods of a replaced order were not taken.
StockLedger ==
  \A p \in Products : start.stock[p] = stock[p] + Demand(Accepted, p)

UpgradesBought ==
  {sl \in Shippers \X ShipperLevels : sl[2] < shipper[sl[1]].level}
UpgradeSpending ==
  Total(UpgradesBought, [sl \in Shippers \X ShipperLevels |-> UpgradeCost[sl[2]]])

\* Coins come from delivered orders and go to upgrades, and to nothing else: no
\* claim or upgrade writes a balance that leaves another one's out.
CoinLedger ==
  wallet.coins + UpgradeSpending = start.coins + Reward(Delivered)

\* A refresh that read the board before an order left with a shipper neither
\* deletes the order nor takes it off the shipper: it stays until it is paid.
DeliveringStays ==
  [][\A o \in Delivering :
       \/ status'[o] = "delivering" /\ carrier'[o] = carrier[o]
       \/ status'[o] = "delivered" /\ paid'[o] = paid[o] + 1]_vars

\* Refreshes at once each add a full board, because the number needed comes from
\* the list a request read before its DELETE: the board holds up to a board of
\* pending orders for each request that can be under way, and never more, however
\* the deletions, the deliveries and the requests that fail interleave.
BoardBound == Cardinality(Pending) <= BoardSize * Cardinality(Tabs)

\* At most twelve orders are on offer (docs/PLAN-shipper-delivery.md:81).
BoardOfTwelve == Cardinality(Pending) <= BoardSize

\* Gems are taken for a trip that was under way when it was priced, once, at no
\* more than a gem for each GemSeconds of the wait that was left or begun then;
\* they pay for what is left of it now and end it, and nothing else ends a trip
\* early.  Claims, deliveries and other completions of the trip may come at any
\* moment, and the clock runs between the price and the payment: what is left
\* now may be less than what is paid for, even nothing.
GemsBuyTheWait ==
  [][LET gems == wallet.gems - wallet'.gems IN
       /\ \A s \in Shippers :
            /\ quote'[s] > quote[s] => GemSeconds * quote'[s] < shipper[s].busy + GemSeconds
            /\ shipper[s].busy > 1 /\ shipper'[s].busy = 0 => gems > 0
       /\ gems # 0 =>
            \E s \in Shippers :
              /\ gems = quote[s] /\ hurried[s] = 0
              /\ shipper[s].state = "delivering" /\ shipper'[s].busy = 0
              /\ shipper[s].busy <= GemSeconds * gems + 1]_vars

\* A trip becomes claimable, whatever upgrades and refreshes do meanwhile.
TripEnds ==
  \A s \in Shippers : shipper[s].state = "delivering" ~> shipper[s].busy = 0
=============================================================================
