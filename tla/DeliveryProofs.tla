--------------------------- MODULE DeliveryProofs ---------------------------
(***************************************************************************)
(* Delivery's safety for every board, shipper team and upgrade table.  The *)
(* inductive invariant is IInv: ClaimReward pays the orders whose          *)
(* shipper_id is s without looking at their status, so PaidExactlyOnce     *)
(* needs TripsConsistent to know that those orders are the delivering ones *)
(* of s; TripsConsistent in turn needs the types.  The bound on the board  *)
(* has an invariant of its own, Shared.                                    *)
(***************************************************************************)
EXTENDS Delivery, SetSumsProofs

-----------------------------------------------------------------------------
(* Facts about the operators.                                               *)

\* Sets of orders are finite, and so are the sums over them.
LEMMA OrderSets ==
  ASSUME NEW S \in SUBSET Orders
  PROVE  /\ IsFiniteSet(S)
         /\ Cardinality(S) \in Nat
         /\ Load(S) \in Nat
         /\ Reward(S) \in Nat
         /\ \A p \in Products : Demand(S, p) \in Nat
<1>1. IsFiniteSet(S) /\ IsFiniteSet(S \X Products)
  BY OrderAssumption, FS_Subset, FS_Product
<1>2. Load(S) \in Nat
  <2> DEFINE q == [op \in Orders \X Products |-> Items[op[1]][op[2]]]
  <2>1. \A op \in S \X Products : q[op] \in Nat
    BY OrderAssumption
  <2> HIDE DEF q
  <2>2. Total(S \X Products, q) \in Nat
    BY <1>1, <2>1, TotalType
  <2> QED
    BY <2>2 DEF Load, q
<1>3. Reward(S) \in Nat
  BY <1>1, OrderAssumption, TotalType DEF Reward
<1>4. ASSUME NEW p \in Products PROVE Demand(S, p) \in Nat
  <2> DEFINE q == [o \in Orders |-> Items[o][p]]
  <2>1. \A o \in S : q[o] \in Nat
    BY OrderAssumption
  <2> HIDE DEF q
  <2>2. Total(S, q) \in Nat
    BY <1>1, <2>1, TotalType
  <2> QED
    BY <2>2 DEF Demand, q
<1> QED
  BY <1>1, <1>2, <1>3, <1>4, FS_CardinalityType

\* Nothing asks for nothing.
LEMMA NoOrders ==
  /\ Cardinality({}) = 0
  /\ Load({}) = 0
  /\ Reward({}) = 0
  /\ \A p : Demand({}, p) = 0
<1>1. {} \X Products = {}
  OBVIOUS
<1>2. Load({}) = 0
  BY <1>1, OrderAssumption, TotalEmpty DEF Load
<1>3. Reward({}) = 0
  BY OrderAssumption, TotalEmpty DEF Reward
<1>4. \A p : Demand({}, p) = 0
  BY OrderAssumption, TotalEmpty DEF Demand
<1> QED
  BY <1>2, <1>3, <1>4, FS_EmptySet

\* Whole seconds divided by a positive speed or gem rate are whole and not negative.
LEMMA Quotient ==
  ASSUME NEW a \in Nat, NEW b \in Nat \ {0}
  PROVE  a \div b \in Nat
OBVIOUS

LEMMA Begun ==
  ASSUME NEW n \in Nat \ {0}, NEW seconds \in {n - 1, n}
  PROVE  seconds \in Nat
OBVIOUS

LEMMA GemCostType ==
  ASSUME NEW seconds \in Nat
  PROVE  GemCost(seconds) \in Nat
<1>1. seconds + GemSeconds - 1 \in Nat /\ GemSeconds \in Nat \ {0}
  BY OrderAssumption
<1> QED
  BY <1>1, Quotient DEF GemCost

\* The gems asked for a wait pay for all of it, with less than one to spare.
LEMMA GemsForSeconds ==
  ASSUME NEW seconds \in Nat
  PROVE  /\ GemSeconds * GemCost(seconds) \in Nat \ {0}
         /\ seconds = 0 => GemSeconds * GemCost(seconds) = GemSeconds
         /\ seconds # 0 => /\ seconds <= GemSeconds * GemCost(seconds)
                           /\ GemSeconds * GemCost(seconds) < seconds + GemSeconds
<1>1. GemSeconds \in Nat \ {0}
  BY OrderAssumption
<1>2. CASE seconds = 0
  <2>1. GemCost(seconds) = 1
    BY <1>2 DEF GemCost
  <2> QED
    BY <1>1, <1>2, <2>1
<1>3. CASE seconds # 0
  <2> DEFINE x == seconds + GemSeconds - 1
             c == x \div GemSeconds
  <2>1. GemCost(seconds) = c
    BY <1>3 DEF GemCost
  <2>2. x \in Nat /\ x + 1 = seconds + GemSeconds
    BY <1>1
  <2> HIDE DEF x
  <2>3. /\ c \in Int
        /\ x = GemSeconds * c + (x % GemSeconds)
        /\ x % GemSeconds \in 0..(GemSeconds - 1)
    BY <1>1, <2>2
  <2> HIDE DEF c
  <2>4. GemSeconds * c \in Int
    BY <1>1, <2>3
  <2>5. GemSeconds * c <= x /\ x <= GemSeconds * c + GemSeconds - 1
    BY <1>1, <2>2, <2>3, <2>4
  <2>6. seconds <= GemSeconds * c /\ GemSeconds * c < seconds + GemSeconds
    BY <1>1, <2>2, <2>4, <2>5
  <2> QED
    BY <1>3, <2>1, <2>4, <2>6
<1> QED
  BY <1>2, <1>3

LEMMA TripTimeType ==
  ASSUME NEW l \in ShipperLevels, NEW o \in Orders
  PROVE  TripTime(l, o) \in Nat
<1>1. 100 * Duration[o] \in Nat /\ Speed[l] \in Nat \ {0}
  BY OrderAssumption, ShipperAssumption
<1> QED
  BY <1>1, Quotient DEF TripTime

-----------------------------------------------------------------------------
(* Types.                                                                   *)

LEMMA InitType == Init => TypeOK
BY ShipperAssumption, OrderAssumption
   DEF Init, TypeOK, Row, OrderStatus, NoGet, ShipperLevels, Null, NoShipper

LEMMA NextType == TypeOK /\ [Next]_vars => TypeOK'
<1> SUFFICES ASSUME TypeOK, [Next]_vars PROVE TypeOK'
  OBVIOUS
<1> USE DEF TypeOK, OrderStatus
<1>1. ASSUME NEW s \in Shippers, UnlockShipper(s) PROVE TypeOK'
  BY <1>1 DEF UnlockShipper
<1>2. ASSUME NEW s \in Shippers, NEW ids \in SUBSET Orders, Deliver(s, ids)
      PROVE  TypeOK'
  <2>1. \A p \in Products : Demand(ids, p) \in Nat
    BY OrderSets
  <2>2. stock' \in [Products -> Nat]
    BY <1>2, <2>1 DEF Deliver
  <2>3. PICK longest \in ids :
          shipper' = [shipper EXCEPT ![s] =
                        Row("delivering", @.level, TripTime(@.level, longest))]
    BY <1>2 DEF Deliver
  <2>4. TripTime(shipper[s].level, longest) \in Nat
    BY TripTimeType
  <2>5. shipper' \in [Shippers -> [state : {"none", "idle", "delivering"},
                                   level : ShipperLevels, busy : Nat \cup {Null}]]
    BY <2>3, <2>4 DEF Row
  <2>6. carrier' \in [Orders -> Shippers \cup {NoShipper}]
    BY <1>2 DEF Deliver
  <2>7. status' \in [Orders -> OrderStatus]
    BY <1>2 DEF Deliver
  <2>8. hurried' \in [Shippers -> Nat]
    BY <1>2 DEF Deliver
  <2> QED
    BY <1>2, <2>2, <2>5, <2>6, <2>7, <2>8 DEF Deliver
<1>3. ASSUME NEW s \in Shippers, ClaimReward(s) PROVE TypeOK'
  <2>1. Reward(Carried(s)) \in Nat
    BY OrderSets DEF Carried
  <2>2. wallet' \in [coins : Nat, gems : Nat]
    BY <1>3, <2>1 DEF ClaimReward
  <2>3. paid' \in [Orders -> Nat]
    BY <1>3 DEF ClaimReward
  <2>4. carrier' \in [Orders -> Shippers \cup {NoShipper}]
    BY <1>3 DEF ClaimReward
  <2>5. status' \in [Orders -> OrderStatus]
    BY <1>3 DEF ClaimReward
  <2>6. shipper' \in [Shippers -> [state : {"none", "idle", "delivering"},
                                   level : ShipperLevels, busy : Nat \cup {Null}]]
    BY <1>3 DEF ClaimReward, Row
  <2> QED
    BY <1>3, <2>2, <2>3, <2>4, <2>5, <2>6 DEF ClaimReward
<1>4. ASSUME NEW s \in Shippers, UpgradeShipper(s) PROVE TypeOK'
  <2>1. UpgradeCost[shipper[s].level] \in Nat
    BY ShipperAssumption
  <2>2. shipper[s].level + 1 \in ShipperLevels
    BY <1>4, ShipperAssumption DEF UpgradeShipper, ShipperLevels
  <2>3. wallet' \in [coins : Nat, gems : Nat]
    BY <1>4, <2>1 DEF UpgradeShipper
  <2>4. shipper' \in [Shippers -> [state : {"none", "idle", "delivering"},
                                   level : ShipperLevels, busy : Nat \cup {Null}]]
    BY <1>4, <2>2 DEF UpgradeShipper
  <2> QED
    BY <1>4, <2>3, <2>4 DEF UpgradeShipper
<1>5. ASSUME NEW s \in Shippers, InstantComplete(s) PROVE TypeOK'
  <2>1. wallet' \in [coins : Nat, gems : Nat]
    BY <1>5 DEF InstantComplete
  <2>2. hurried' \in [Shippers -> Nat] /\ quote' \in [Shippers -> Nat]
    BY <1>5 DEF InstantComplete
  <2>3. shipper' \in [Shippers -> [state : {"none", "idle", "delivering"},
                                   level : ShipperLevels, busy : Nat \cup {Null}]]
    BY <1>5 DEF InstantComplete
  <2> QED
    BY <1>5, <2>1, <2>2, <2>3 DEF InstantComplete
<1>12. ASSUME NEW s \in Shippers, QuoteCompletion(s) PROVE TypeOK'
  <2>1. PICK seconds \in {shipper[s].busy - 1, shipper[s].busy} :
          quote' = [quote EXCEPT ![s] = GemCost(seconds)]
    BY <1>12 DEF QuoteCompletion
  <2>2. GemCost(seconds) \in Nat
    <3>1. shipper[s].busy \in Nat \ {0}
      BY <1>12 DEF QuoteCompletion, Null
    <3>2. seconds \in Nat
      BY <3>1, Begun
    <3> QED
      BY <3>2, GemCostType
  <2>3. quote' \in [Shippers -> Nat]
    BY <2>1, <2>2
  <2> QED
    BY <1>12, <2>3 DEF QuoteCompletion
<1>13. ASSUME NEW s \in Shippers, AbandonCompletion(s) PROVE TypeOK'
  BY <1>13 DEF AbandonCompletion
<1>6. ASSUME NEW t \in Tabs, ReadBoard(t) PROVE TypeOK'
  <2>1. Cardinality(Delivering) \in Nat
    BY OrderSets DEF Delivering
  <2>2. get' \in [Tabs -> [pc : {"none", "read", "deleting"},
                          kept : Nat, doomed : SUBSET Orders]]
    BY <1>6, <2>1 DEF ReadBoard
  <2> QED
    BY <1>6, <2>2 DEF ReadBoard
<1>7. ASSUME NEW t \in Tabs, StartDelete(t) PROVE TypeOK'
  <2> DEFINE row == [get[t] EXCEPT !.pc = "deleting", !.doomed = Pending]
  <2>1. Pending \in SUBSET Orders
    BY DEF Pending
  <2>5. get[t] \in [pc : {"none", "read", "deleting"}, kept : Nat, doomed : SUBSET Orders]
    OBVIOUS
  <2> HIDE DEF TypeOK
  <2>2. row \in [pc : {"none", "read", "deleting"}, kept : Nat, doomed : SUBSET Orders]
    BY <2>1, <2>5
  <2> USE DEF TypeOK
  <2>3. get' = [get EXCEPT ![t] = row]
    BY <1>7 DEF StartDelete
  <2> HIDE DEF row
  <2>4. get' \in [Tabs -> [pc : {"none", "read", "deleting"},
                          kept : Nat, doomed : SUBSET Orders]]
    BY <2>2, <2>3
  <2> QED
    BY <1>7, <2>4 DEF StartDelete
<1>8. ASSUME NEW t \in Tabs, Refresh(t) PROVE TypeOK'
  <2>1. get' \in [Tabs -> [pc : {"none", "read", "deleting"},
                          kept : Nat, doomed : SUBSET Orders]]
    BY <1>8 DEF Refresh, NoGet
  <2>2. status' \in [Orders -> OrderStatus]
    BY <1>8 DEF Refresh
  <2> QED
    BY <1>8, <2>1, <2>2 DEF Refresh
<1>9. ASSUME NEW t \in Tabs, Rollback(t) PROVE TypeOK'
  <2>1. get' \in [Tabs -> [pc : {"none", "read", "deleting"},
                          kept : Nat, doomed : SUBSET Orders]]
    BY <1>9 DEF Rollback, NoGet
  <2> QED
    BY <1>9, <2>1 DEF Rollback
<1>10. CASE Tick
  <2>1. shipper' \in [Shippers -> [state : {"none", "idle", "delivering"},
                                   level : ShipperLevels, busy : Nat \cup {Null}]]
    BY <1>10 DEF Tick, Null
  <2> QED
    BY <1>10, <2>1 DEF Tick
<1>11. CASE UNCHANGED vars
  BY <1>11 DEF vars
<1> QED
  BY <1>1, <1>2, <1>3, <1>4, <1>5, <1>6, <1>7, <1>8, <1>9, <1>10, <1>11, <1>12, <1>13 DEF Next

\* Every variable keeps its type: no balance, stock or busy time goes negative.
THEOREM TypeCorrect == Spec => []TypeOK
BY InitType, NextType, PTL DEF Spec
-----------------------------------------------------------------------------
(* Quotes.                                                                  *)

\* What an InstantComplete that holds a shipper's row may rely on: the trip is
\* still there, nobody has paid gems for it, and the quote covers the wait that
\* is left; and a trip that has been paid for is over.
Quoted ==
  \A s \in Shippers :
    /\ quote[s] > 0 =>
         /\ shipper[s].state = "delivering" /\ shipper[s].busy # Null
         /\ hurried[s] = 0
         /\ shipper[s].busy <= GemSeconds * quote[s] + 1
    /\ shipper[s].busy > 0 => hurried[s] = 0

LEMMA InitQuoted == Init => Quoted
BY DEF Init, Quoted, Row, Null

\* A price is set for a trip that is under way, and is not too high.
LEMMA QuoteCovers ==
  ASSUME TypeOK, NEW s \in Shippers, QuoteCompletion(s)
  PROVE  /\ shipper[s].busy <= GemSeconds * quote'[s] + 1
         /\ GemSeconds * quote'[s] < shipper[s].busy + GemSeconds
<1> DEFINE busy == shipper[s].busy
<1>1. PICK seconds \in {busy - 1, busy} : quote' = [quote EXCEPT ![s] = GemCost(seconds)]
  BY DEF QuoteCompletion
<1>2. busy \in Nat \ {0}
  BY DEF QuoteCompletion, TypeOK, Null
<1>3. quote'[s] = GemCost(seconds)
  BY <1>1 DEF TypeOK
<1> HIDE DEF busy
<1>4. seconds \in Nat
  BY <1>2
<1> DEFINE worth == GemSeconds * GemCost(seconds)
<1>5. /\ worth \in Nat \ {0}
      /\ seconds = 0 => worth = GemSeconds
      /\ seconds # 0 => seconds <= worth /\ worth < seconds + GemSeconds
  BY <1>4, GemsForSeconds
<1> HIDE DEF worth
<1>6. GemSeconds \in Nat
  BY OrderAssumption
<1>7. busy <= worth + 1 /\ worth < busy + GemSeconds
  BY <1>1, <1>2, <1>4, <1>5, <1>6
<1> QED
  BY <1>3, <1>7 DEF worth, busy

LEMMA NextQuoted == TypeOK /\ Quoted /\ [Next]_vars => Quoted'
<1> SUFFICES ASSUME TypeOK, Quoted, [Next]_vars PROVE Quoted'
  OBVIOUS
<1>1. ASSUME NEW s \in Shippers, QuoteCompletion(s) PROVE Quoted'
  <2>1. shipper[s].busy <= GemSeconds * quote'[s] + 1
    BY <1>1, QuoteCovers
  <2>2. \A r \in Shippers : r # s => quote'[r] = quote[r]
    BY <1>1 DEF QuoteCompletion, TypeOK
  <2>3. shipper' = shipper /\ hurried' = hurried
    BY <1>1 DEF QuoteCompletion
  <2>4. shipper[s].state = "delivering" /\ shipper[s].busy # Null /\ hurried[s] = 0
    BY <1>1 DEF QuoteCompletion, Quoted, Null
  <2> QED
    BY <2>1, <2>2, <2>3, <2>4 DEF Quoted
<1>2. ASSUME NEW s \in Shippers, InstantComplete(s) PROVE Quoted'
  <2>1. quote'[s] = 0 /\ shipper'[s].busy = 0
    BY <1>2 DEF InstantComplete, TypeOK
  <2>2. \A r \in Shippers : r # s =>
          quote'[r] = quote[r] /\ shipper'[r] = shipper[r] /\ hurried'[r] = hurried[r]
    BY <1>2 DEF InstantComplete, TypeOK
  <2> QED
    BY <2>1, <2>2 DEF Quoted
<1>3. ASSUME NEW s \in Shippers, AbandonCompletion(s) PROVE Quoted'
  <2>1. quote'[s] = 0 /\ \A r \in Shippers : r # s => quote'[r] = quote[r]
    BY <1>3 DEF AbandonCompletion, TypeOK
  <2> QED
    BY <1>3, <2>1 DEF AbandonCompletion, Quoted
<1>4. ASSUME NEW s \in Shippers, NEW ids \in SUBSET Orders, Deliver(s, ids) PROVE Quoted'
  <2>1. hurried'[s] = 0 /\ quote'[s] = 0
    BY <1>4 DEF Deliver, Unlocked, TypeOK
  <2>2. \A r \in Shippers : r # s =>
          quote'[r] = quote[r] /\ shipper'[r] = shipper[r] /\ hurried'[r] = hurried[r]
    BY <1>4 DEF Deliver, TypeOK
  <2> QED
    BY <2>1, <2>2 DEF Quoted
<1>5. ASSUME NEW s \in Shippers, ClaimReward(s) PROVE Quoted'
  <2>1. shipper'[s].busy = Null /\ quote'[s] = 0
    BY <1>5 DEF ClaimReward, Unlocked, Row, TypeOK
  <2>2. \A r \in Shippers : r # s =>
          quote'[r] = quote[r] /\ shipper'[r] = shipper[r] /\ hurried'[r] = hurried[r]
    BY <1>5 DEF ClaimReward, TypeOK
  <2> QED
    BY <2>1, <2>2 DEF Quoted, Null
<1>6. ASSUME NEW s \in Shippers, UpgradeShipper(s) \/ UnlockShipper(s) PROVE Quoted'
  <2>1. CASE UpgradeShipper(s)
    BY <2>1 DEF UpgradeShipper, Quoted, TypeOK
  <2>2. CASE UnlockShipper(s)
    BY <2>2 DEF UnlockShipper, Quoted, TypeOK
  <2> QED
    BY <1>6, <2>1, <2>2
<1>7. CASE Tick
  <2> SUFFICES ASSUME NEW r \in Shippers
               PROVE  /\ quote'[r] > 0 =>
                           /\ shipper'[r].state = "delivering" /\ shipper'[r].busy # Null
                           /\ hurried'[r] = 0
                           /\ shipper'[r].busy <= GemSeconds * quote'[r] + 1
                      /\ shipper'[r].busy > 0 => hurried'[r] = 0
    BY DEF Quoted
  <2>1. quote' = quote /\ hurried' = hurried /\ shipper'[r].state = shipper[r].state
    BY <1>7 DEF Tick, TypeOK
  <2>2. /\ shipper[r].busy > 0 => shipper'[r].busy = shipper[r].busy - 1
        /\ ~(shipper[r].busy > 0) => shipper'[r].busy = shipper[r].busy
    BY <1>7 DEF Tick, TypeOK
  <2> DEFINE covered == GemSeconds * quote[r] + 1
  <2>3. covered \in Nat
    <3>1. GemSeconds \in Nat /\ quote[r] \in Nat
      BY OrderAssumption DEF TypeOK
    <3> QED
      BY <3>1
  <2>4. /\ quote[r] > 0 => /\ shipper[r].state = "delivering" /\ shipper[r].busy # Null
                           /\ hurried[r] = 0 /\ shipper[r].busy <= covered
        /\ shipper[r].busy > 0 => hurried[r] = 0
    BY DEF Quoted
  <2> HIDE DEF covered
  <2>5. shipper[r].busy \in Nat \cup {Null}
    BY DEF TypeOK
  <2>6. quote[r] > 0 => shipper'[r].busy # Null /\ shipper'[r].busy <= covered
    BY <2>2, <2>3, <2>4, <2>5 DEF Null
  <2>7. shipper'[r].busy > 0 => hurried[r] = 0
    BY <2>2, <2>4, <2>5 DEF Null
  <2> QED
    BY <2>1, <2>4, <2>6, <2>7 DEF covered
<1>8. ASSUME UNCHANGED <<shipper, quote, hurried>> PROVE Quoted'
  BY <1>8 DEF Quoted
<1> QED
  BY <1>1, <1>2, <1>3, <1>4, <1>5, <1>6, <1>7, <1>8
  DEF Next, vars, ReadBoard, StartDelete, Refresh, Rollback

-----------------------------------------------------------------------------
(* Trips.                                                                   *)

LEMMA InitTrips == Init => TripsConsistent
<1> SUFFICES ASSUME Init PROVE TripsConsistent
  OBVIOUS
<1>1. \A s \in Shippers : Carried(s) = {}
  BY ShipperAssumption DEF Init, Carried
<1>2. \A s \in Shippers : shipper[s] = Row("none", 1, Null)
  BY DEF Init
<1>3. 0 <= Slots[1] /\ 0 <= Capacity[1]
  BY ShipperAssumption DEF ShipperLevels
<1>4. \A s \in Shippers : Fits(s, Carried(s))
  BY <1>1, <1>2, <1>3, NoOrders DEF Fits, Row
<1> QED
  BY <1>1, <1>2, <1>4 DEF TripsConsistent, Init, Row

\* What keeps every trip as it is: the orders it carries, the shipper's state
\* and level, and whether it is busy.
LEMMA SameTrips ==
  ASSUME TripsConsistent, carrier' = carrier,
         \A o \in Orders : status'[o] = "delivering" <=> status[o] = "delivering",
         \A s \in Shippers :
           /\ shipper'[s].state = "delivering" <=> shipper[s].state = "delivering"
           /\ shipper'[s].busy # Null <=> shipper[s].busy # Null
           /\ Fits(s, Carried(s)) => Fits(s, Carried(s))'
  PROVE  TripsConsistent'
<1>1. \A s \in Shippers : Carried(s)' = Carried(s)
  BY DEF Carried
<1> QED
  BY <1>1 DEF TripsConsistent

\* A trip's load still fits a shipper whose level did not go down.
LEMMA FitsUp ==
  ASSUME TypeOK, NEW s \in Shippers, Fits(s, Carried(s)), carrier' = carrier,
         \/ shipper'[s].level = shipper[s].level
         \/ /\ shipper'[s].level = shipper[s].level + 1
            /\ shipper[s].level + 1 \in ShipperLevels
  PROVE  Fits(s, Carried(s))'
<1>1. Carried(s)' = Carried(s)
  BY DEF Carried
<1>2. Cardinality(Carried(s)) \in Nat /\ Load(Carried(s)) \in Nat
  BY OrderSets DEF Carried
<1> DEFINE l == shipper[s].level
<1>3. l \in ShipperLevels
  BY DEF TypeOK
<1>4. CASE shipper'[s].level = l
  BY <1>1, <1>4 DEF Fits
<1>5. CASE shipper'[s].level = l + 1 /\ l + 1 \in ShipperLevels
  <2>1. Capacity[l] <= Capacity[l + 1] /\ Slots[l] <= Slots[l + 1]
    BY <1>3, <1>5, ShipperAssumption
  <2>2. /\ Capacity[l] \in Nat /\ Capacity[l + 1] \in Nat
        /\ Slots[l] \in Nat /\ Slots[l + 1] \in Nat
    BY <1>3, <1>5, ShipperAssumption
  <2>3. Cardinality(Carried(s)) <= Slots[l] /\ Load(Carried(s)) <= Capacity[l]
    BY DEF Fits
  <2>4. Cardinality(Carried(s)) <= Slots[l + 1] /\ Load(Carried(s)) <= Capacity[l + 1]
    BY <1>2, <2>1, <2>2, <2>3
  <2> QED
    BY <1>1, <1>5, <2>4 DEF Fits
<1> QED
  BY <1>4, <1>5

\* The board's refresh leaves every delivering order delivering.
LEMMA RefreshSpares ==
  ASSUME TypeOK, NEW t \in Tabs, Refresh(t), NEW o \in Orders
  PROVE  /\ status'[o] = "delivering" <=> status[o] = "delivering"
         /\ status'[o] = "delivered" <=> status[o] = "delivered"
BY DEF Refresh, Removed, Pending, Unused, TypeOK, OrderStatus

LEMMA DeliverTrips ==
  ASSUME TypeOK, TripsConsistent, NEW s \in Shippers, NEW ids \in SUBSET Orders,
         Deliver(s, ids)
  PROVE  TripsConsistent'
<1>1. Carried(s) = {}
  BY DEF TripsConsistent, Deliver
<1>2. Carried(s)' = ids
  BY <1>1 DEF Deliver, Carried, TypeOK
<1>3. \A r \in Shippers \ {s} : Carried(r)' = Carried(r)
  <2>1. \A o \in ids : carrier[o] = NoShipper
    BY DEF TripsConsistent, Deliver, Pending
  <2> QED
    BY <2>1, ShipperAssumption DEF Deliver, Carried, TypeOK
<1>4. PICK longest \in ids :
        shipper' = [shipper EXCEPT ![s] =
                      Row("delivering", @.level, TripTime(@.level, longest))]
  BY DEF Deliver
<1>5. TripTime(shipper[s].level, longest) \in Nat
  BY TripTimeType DEF TypeOK
<1>6. /\ shipper'[s].state = "delivering"
      /\ shipper'[s].busy # Null
      /\ shipper'[s].level = shipper[s].level
  BY <1>4, <1>5 DEF Row, Null, TypeOK
<1>7. \A r \in Shippers \ {s} : shipper'[r] = shipper[r]
  BY <1>4 DEF TypeOK
<1>8. Fits(s, Carried(s))'
  BY <1>2, <1>6 DEF Deliver, Fits
<1>9. \A r \in Shippers \ {s} : Fits(r, Carried(r))'
  BY <1>3, <1>7 DEF TripsConsistent, Fits
<1>10. ids # {}
  BY DEF Deliver
<1>11. \A o \in Orders : carrier'[o] # NoShipper <=> status'[o] = "delivering"
  BY ShipperAssumption DEF Deliver, TripsConsistent, TypeOK
<1> QED
  BY <1>2, <1>3, <1>6, <1>7, <1>8, <1>9, <1>10, <1>11 DEF TripsConsistent

LEMMA ClaimTrips ==
  ASSUME TypeOK, TripsConsistent, NEW s \in Shippers, ClaimReward(s)
  PROVE  TripsConsistent'
<1>1. Carried(s)' = {}
  BY ShipperAssumption DEF ClaimReward, Carried, TypeOK
<1>2. \A r \in Shippers \ {s} : Carried(r)' = Carried(r)
  BY ShipperAssumption DEF ClaimReward, Carried, TypeOK
<1>3. shipper'[s] = Row("idle", shipper[s].level, Null)
  BY DEF ClaimReward, TypeOK
<1>4. \A r \in Shippers \ {s} : shipper'[r] = shipper[r]
  BY DEF ClaimReward, TypeOK
<1>5. Fits(s, Carried(s))'
  <2>1. /\ Slots[shipper[s].level] \in Nat /\ Capacity[shipper[s].level] \in Nat
    BY ShipperAssumption DEF TypeOK
  <2>2. shipper'[s].level = shipper[s].level
    BY <1>3 DEF Row
  <2>3. Cardinality(Carried(s)') = 0 /\ Load(Carried(s)') = 0
    BY <1>1, NoOrders
  <2>4. 0 <= Slots[shipper[s].level] /\ 0 <= Capacity[shipper[s].level]
    BY <2>1
  <2> QED
    BY <2>2, <2>3, <2>4 DEF Fits
<1>6. \A r \in Shippers \ {s} : Fits(r, Carried(r))'
  BY <1>2, <1>4 DEF TripsConsistent, Fits
<1>7. \A o \in Orders : carrier'[o] # NoShipper <=> status'[o] = "delivering"
  BY DEF ClaimReward, TripsConsistent, TypeOK, Carried
<1>8. shipper'[s].state = "idle" /\ shipper'[s].busy = Null
  BY <1>3 DEF Row
<1>9. \A r \in Shippers \ {s} :
        /\ shipper'[r].state = "delivering" <=> Carried(r)' # {}
        /\ shipper'[r].state = "delivering" <=> shipper'[r].busy # Null
  BY <1>2, <1>4 DEF TripsConsistent
<1> QED
  BY <1>1, <1>5, <1>6, <1>7, <1>8, <1>9 DEF TripsConsistent

LEMMA NextTrips ==
  TypeOK /\ TypeOK' /\ Quoted /\ TripsConsistent /\ [Next]_vars => TripsConsistent'
<1> SUFFICES ASSUME TypeOK, TypeOK', Quoted, TripsConsistent, [Next]_vars PROVE TripsConsistent'
  OBVIOUS
<1>1. ASSUME NEW s \in Shippers, UnlockShipper(s) PROVE TripsConsistent'
  <2>1. \A r \in Shippers :
          /\ shipper'[r].state = "delivering" <=> shipper[r].state = "delivering"
          /\ shipper'[r].busy = shipper[r].busy
          /\ shipper'[r].level = shipper[r].level
    BY <1>1 DEF UnlockShipper, TypeOK
  <2>2. carrier' = carrier /\ status' = status
    BY <1>1 DEF UnlockShipper
  <2> QED
    BY <2>1, <2>2, FitsUp, SameTrips
<1>2. ASSUME NEW s \in Shippers, UpgradeShipper(s) PROVE TripsConsistent'
  <2>1. shipper[s].level + 1 \in ShipperLevels
    BY <1>2, ShipperAssumption DEF UpgradeShipper, TypeOK, ShipperLevels
  <2>2. \A r \in Shippers :
          /\ shipper'[r].state = shipper[r].state
          /\ shipper'[r].busy = shipper[r].busy
          /\ \/ shipper'[r].level = shipper[r].level
             \/ /\ shipper'[r].level = shipper[r].level + 1
                /\ shipper[r].level + 1 \in ShipperLevels
    BY <1>2, <2>1 DEF UpgradeShipper, TypeOK
  <2>3. carrier' = carrier /\ status' = status
    BY <1>2 DEF UpgradeShipper
  <2> QED
    BY <2>2, <2>3, FitsUp, SameTrips
<1>3. ASSUME NEW s \in Shippers, InstantComplete(s) PROVE TripsConsistent'
  <2>1. \A r \in Shippers :
          /\ shipper'[r].state = shipper[r].state
          /\ shipper'[r].level = shipper[r].level
          /\ shipper'[r].busy # Null <=> shipper[r].busy # Null
    BY <1>3 DEF InstantComplete, Quoted, TypeOK, Null
  <2>2. carrier' = carrier /\ status' = status
    BY <1>3 DEF InstantComplete
  <2> QED
    BY <2>1, <2>2, FitsUp, SameTrips
<1>4. CASE Tick
  <2>1. \A r \in Shippers :
          /\ shipper'[r].state = shipper[r].state
          /\ shipper'[r].level = shipper[r].level
          /\ shipper'[r].busy # Null <=> shipper[r].busy # Null
    BY <1>4 DEF Tick, TypeOK, Null
  <2>2. carrier' = carrier /\ status' = status
    BY <1>4 DEF Tick
  <2> QED
    BY <2>1, <2>2, FitsUp, SameTrips
<1>5. ASSUME NEW t \in Tabs, Refresh(t) PROVE TripsConsistent'
  <2>1. carrier' = carrier /\ shipper' = shipper
    BY <1>5 DEF Refresh
  <2> QED
    BY <1>5, <2>1, RefreshSpares, FitsUp, SameTrips
<1>6. ASSUME UNCHANGED <<status, carrier, shipper>> PROVE TripsConsistent'
  BY <1>6, FitsUp, SameTrips
<1>7. ASSUME NEW t \in Tabs, ReadBoard(t) \/ StartDelete(t) \/ Rollback(t)
      PROVE  TripsConsistent'
  BY <1>6, <1>7 DEF ReadBoard, StartDelete, Rollback
<1>9. ASSUME NEW s \in Shippers, QuoteCompletion(s) \/ AbandonCompletion(s)
      PROVE  TripsConsistent'
  BY <1>6, <1>9 DEF QuoteCompletion, AbandonCompletion
<1>8. CASE UNCHANGED vars
  BY <1>6, <1>8 DEF vars
<1> QED
  BY <1>1, <1>2, <1>3, <1>4, <1>5, <1>7, <1>8, <1>9, DeliverTrips, ClaimTrips DEF Next

-----------------------------------------------------------------------------
(* Payment.                                                                 *)

\* A claim pays the orders on the shipper's trip, none of them paid before.
LEMMA NextPaid ==
  TypeOK /\ TripsConsistent /\ PaidExactlyOnce /\ [Next]_vars => PaidExactlyOnce'
<1> SUFFICES ASSUME TypeOK, TripsConsistent, PaidExactlyOnce, [Next]_vars
             PROVE  PaidExactlyOnce'
  OBVIOUS
<1>1. ASSUME NEW s \in Shippers, NEW ids \in SUBSET Orders, Deliver(s, ids)
      PROVE  PaidExactlyOnce'
  BY <1>1 DEF Deliver, PaidExactlyOnce, Pending, TypeOK
<1>2. ASSUME NEW s \in Shippers, ClaimReward(s) PROVE PaidExactlyOnce'
  <2>1. \A o \in Carried(s) : status[o] = "delivering" /\ paid[o] = 0
    BY ShipperAssumption DEF Carried, TripsConsistent, PaidExactlyOnce
  <2> QED
    BY <1>2, <2>1 DEF ClaimReward, PaidExactlyOnce, TypeOK
<1>3. ASSUME NEW t \in Tabs, Refresh(t) PROVE PaidExactlyOnce'
  <2>1. paid' = paid
    BY <1>3 DEF Refresh
  <2> QED
    BY <1>3, <2>1, RefreshSpares DEF PaidExactlyOnce
<1>4. ASSUME UNCHANGED <<status, paid>> PROVE PaidExactlyOnce'
  BY <1>4 DEF PaidExactlyOnce
<1> QED
  BY <1>1, <1>2, <1>3, <1>4
  DEF Next, vars, UnlockShipper, UpgradeShipper, QuoteCompletion, InstantComplete,
      AbandonCompletion, ReadBoard,
      StartDelete, Rollback, Tick

IInv == TypeOK /\ Quoted /\ TripsConsistent /\ PaidExactlyOnce

\* Trips, the board's orders and the rewards paid agree in every state.
THEOREM TripsAndPayments == Spec => []IInv
<1>1. Init => IInv
  <2>1. Init => PaidExactlyOnce
    BY DEF Init, PaidExactlyOnce
  <2> QED
    BY <2>1, InitType, InitQuoted, InitTrips DEF IInv
<1>2. IInv /\ [Next]_vars => IInv'
  BY NextType, NextQuoted, NextTrips, NextPaid DEF IInv
<1> QED
  BY <1>1, <1>2, PTL DEF Spec

\* Shippers and orders agree on who carries what, within slots and capacity.
THEOREM TripsAlwaysConsistent == Spec => []TripsConsistent
BY TripsAndPayments, PTL DEF IInv

\* Every order a claimed trip carried is paid once; no other order is ever paid.
THEOREM EveryOrderPaidOnce == Spec => []PaidExactlyOnce
BY TripsAndPayments, PTL DEF IInv

\* No step takes a delivering order away before it is paid.
THEOREM DeliveringOrdersStay == Spec => DeliveringStays
<1> DEFINE Stays == \A o \in Delivering :
             \/ status'[o] = "delivering" /\ carrier'[o] = carrier[o]
             \/ status'[o] = "delivered" /\ paid'[o] = paid[o] + 1
<1>1. IInv /\ [Next]_vars => [Stays]_vars
  <2> SUFFICES ASSUME IInv, Next, NEW o \in Delivering
               PROVE  \/ status'[o] = "delivering" /\ carrier'[o] = carrier[o]
                      \/ status'[o] = "delivered" /\ paid'[o] = paid[o] + 1
    OBVIOUS
  <2>1. o \in Orders /\ status[o] = "delivering" /\ TypeOK /\ TripsConsistent
    BY DEF Delivering, IInv
  <2>2. ASSUME NEW s \in Shippers, NEW ids \in SUBSET Orders, Deliver(s, ids)
        PROVE  status'[o] = "delivering" /\ carrier'[o] = carrier[o]
    BY <2>1, <2>2 DEF Deliver, Pending
  <2>3. ASSUME NEW s \in Shippers, ClaimReward(s)
        PROVE  \/ status'[o] = "delivering" /\ carrier'[o] = carrier[o]
               \/ status'[o] = "delivered" /\ paid'[o] = paid[o] + 1
    BY <2>1, <2>3 DEF ClaimReward
  <2>4. ASSUME NEW t \in Tabs, Refresh(t)
        PROVE  status'[o] = "delivering" /\ carrier'[o] = carrier[o]
    BY <2>1, <2>4, RefreshSpares DEF Refresh
  <2>5. ASSUME UNCHANGED <<status, carrier>>
        PROVE  status'[o] = "delivering" /\ carrier'[o] = carrier[o]
    BY <2>1, <2>5
  <2> QED
    BY <2>2, <2>3, <2>4, <2>5
    DEF Next, UnlockShipper, UpgradeShipper, QuoteCompletion, InstantComplete,
      AbandonCompletion, ReadBoard, StartDelete,
        Rollback, Tick
<1> QED
  BY <1>1, TripsAndPayments, PTL DEF Spec, DeliveringStays

-----------------------------------------------------------------------------
(* The goods ledger.                                                        *)

LEMMA DemandUnion ==
  ASSUME NEW S \in SUBSET Orders, NEW T \in SUBSET Orders, S \cap T = {},
         NEW p \in Products
  PROVE  Demand(S \cup T, p) = Demand(S, p) + Demand(T, p)
<1> DEFINE q == [o \in Orders |-> Items[o][p]]
<1>1. IsFiniteSet(S) /\ IsFiniteSet(T)
  BY OrderSets
<1>2. \A o \in S \cup T : q[o] \in Int
  BY OrderAssumption
<1> HIDE DEF q
<1>3. Total(S \cup T, q) = Total(S, q) + Total(T, q)
  BY <1>1, <1>2, TotalDisjointUnion
<1> QED
  BY <1>3 DEF Demand, q

LEMMA InitStock == Init => StockLedger
<1> SUFFICES ASSUME Init, NEW p \in Products
             PROVE  start.stock[p] = stock[p] + Demand(Accepted, p)
  BY DEF StockLedger
<1>1. Accepted = {}
  BY DEF Init, Accepted, Delivering, Delivered
<1>2. start.stock[p] = stock[p] /\ stock[p] \in Nat
  BY OrderAssumption DEF Init
<1>3. Demand(Accepted, p) = 0
  BY <1>1, NoOrders
<1> QED
  BY <1>2, <1>3

LEMMA NextStock == TypeOK /\ TripsConsistent /\ StockLedger /\ [Next]_vars => StockLedger'
<1> SUFFICES ASSUME TypeOK, TripsConsistent, StockLedger, [Next]_vars,
                    NEW p \in Products
             PROVE  start'.stock[p] = stock'[p] + Demand(Accepted', p)
  BY DEF StockLedger
<1>1. ASSUME NEW s \in Shippers, NEW ids \in SUBSET Orders, Deliver(s, ids)
      PROVE  start'.stock[p] = stock'[p] + Demand(Accepted', p)
  <2>1. Accepted' = Accepted \cup ids /\ Accepted \cap ids = {}
    BY <1>1 DEF Deliver, Accepted, Delivering, Delivered, Pending, TypeOK
  <2>2. Accepted \in SUBSET Orders
    BY DEF Accepted, Delivering, Delivered
  <2>3. Demand(Accepted \cup ids, p) = Demand(Accepted, p) + Demand(ids, p)
    BY <2>1, <2>2, DemandUnion
  <2>4. Demand(Accepted', p) = Demand(Accepted, p) + Demand(ids, p)
    BY <2>1, <2>3
  <2>5. Demand(Accepted, p) \in Nat /\ Demand(ids, p) \in Nat /\ stock[p] \in Nat
    BY <2>2, OrderSets DEF TypeOK
  <2>6. stock'[p] = stock[p] - Demand(ids, p) /\ start' = start
    BY <1>1 DEF Deliver
  <2> QED
    BY <2>4, <2>5, <2>6 DEF StockLedger
<1>2. ASSUME Accepted' = Accepted, stock' = stock, start' = start
      PROVE  start'.stock[p] = stock'[p] + Demand(Accepted', p)
  BY <1>2 DEF StockLedger
<1>3. ASSUME NEW s \in Shippers, ClaimReward(s)
      PROVE  start'.stock[p] = stock'[p] + Demand(Accepted', p)
  <2>1. Carried(s) \subseteq Delivering
    BY ShipperAssumption DEF Carried, Delivering, TripsConsistent
  <2>2. Accepted' = Accepted
    BY <1>3, <2>1 DEF ClaimReward, Accepted, Delivering, Delivered
  <2> QED
    BY <1>2, <1>3, <2>2 DEF ClaimReward
<1>4. ASSUME NEW t \in Tabs, Refresh(t)
      PROVE  start'.stock[p] = stock'[p] + Demand(Accepted', p)
  <2>1. Accepted' = Accepted
    BY <1>4, RefreshSpares DEF Accepted, Delivering, Delivered
  <2> QED
    BY <1>2, <1>4, <2>1 DEF Refresh
<1>5. ASSUME UNCHANGED <<status, stock, start>>
      PROVE  start'.stock[p] = stock'[p] + Demand(Accepted', p)
  BY <1>2, <1>5 DEF Accepted, Delivering, Delivered
<1> QED
  BY <1>1, <1>3, <1>4, <1>5
  DEF Next, vars, UnlockShipper, UpgradeShipper, QuoteCompletion, InstantComplete,
      AbandonCompletion, ReadBoard,
      StartDelete, Rollback, Tick

\* Every unit that left the inventory is in an accepted order, once.
THEOREM GoodsConserved == Spec => []StockLedger
BY TripsAndPayments, InitStock, NextStock, PTL DEF Spec, IInv

-----------------------------------------------------------------------------
(* The coin ledger.                                                         *)

LEMMA UpgradeSets ==
  /\ IsFiniteSet(UpgradesBought)
  /\ \A sl \in Shippers \X ShipperLevels : UpgradeCost[sl[2]] \in Nat
  /\ UpgradeSpending \in Nat
<1>1. IsFiniteSet(Shippers \X ShipperLevels)
  <2>1. IsFiniteSet(ShipperLevels)
    BY ShipperAssumption, FS_Interval DEF ShipperLevels
  <2> QED
    BY <2>1, ShipperAssumption, FS_Product
<1>2. IsFiniteSet(UpgradesBought)
  BY <1>1, FS_Subset DEF UpgradesBought
<1>3. \A sl \in Shippers \X ShipperLevels : UpgradeCost[sl[2]] \in Nat
  BY ShipperAssumption
<1> DEFINE cost == [sl \in Shippers \X ShipperLevels |-> UpgradeCost[sl[2]]]
<1>4. \A sl \in UpgradesBought : cost[sl] \in Nat
  BY <1>3 DEF UpgradesBought
<1> HIDE DEF cost
<1>5. Total(UpgradesBought, cost) \in Nat
  BY <1>2, <1>4, TotalType
<1> QED
  BY <1>2, <1>3, <1>5 DEF UpgradeSpending, cost

\* Spending only depends on the shippers' levels.
LEMMA SameLevels ==
  ASSUME \A s \in Shippers : shipper'[s].level = shipper[s].level
  PROVE  UpgradeSpending' = UpgradeSpending
<1>1. UpgradesBought' = UpgradesBought
  BY DEF UpgradesBought
<1> QED
  BY <1>1 DEF UpgradeSpending

LEMMA UpgradeSpends ==
  ASSUME TypeOK, NEW s \in Shippers, UpgradeShipper(s)
  PROVE  UpgradeSpending' = UpgradeSpending + UpgradeCost[shipper[s].level]
<1> DEFINE l == shipper[s].level
           cost == [sl \in Shippers \X ShipperLevels |-> UpgradeCost[sl[2]]]
<1>1. l \in ShipperLevels /\ l + 1 \in ShipperLevels /\ l \in Nat
  BY ShipperAssumption DEF UpgradeShipper, TypeOK, ShipperLevels
<1>2. shipper'[s].level = l + 1 /\ \A r \in Shippers \ {s} : shipper'[r] = shipper[r]
  BY DEF UpgradeShipper, TypeOK
<1>3. UpgradesBought' = UpgradesBought \cup {<<s, l>>}
  <2>1. \A k \in ShipperLevels : k < l + 1 <=> k < l \/ k = l
    BY <1>1 DEF ShipperLevels
  <2>2. \A r \in Shippers, k \in ShipperLevels :
          <<r, k>> \in UpgradesBought' <=> <<r, k>> \in UpgradesBought \/ <<r, k>> = <<s, l>>
    BY <1>2, <2>1 DEF UpgradesBought
  <2> QED
    BY <1>1, <2>2 DEF UpgradesBought
<1>4. UpgradesBought \cap {<<s, l>>} = {}
  BY <1>1 DEF UpgradesBought
<1>5. cost[<<s, l>>] = UpgradeCost[l]
  BY <1>1
<1>6. \A sl \in UpgradesBought \cup {<<s, l>>} : cost[sl] \in Int
  BY <1>1, UpgradeSets DEF UpgradesBought
<1> HIDE DEF cost
<1>7. Total(UpgradesBought \cup {<<s, l>>}, cost) = Total(UpgradesBought, cost) + cost[<<s, l>>]
  BY <1>4, <1>6, UpgradeSets, TotalAdd
<1>8. Total(UpgradesBought', cost) = Total(UpgradesBought, cost) + UpgradeCost[l]
  BY <1>3, <1>5, <1>7
<1> QED
  BY <1>8 DEF UpgradeSpending, cost

LEMMA InitCoins == Init => CoinLedger
<1> SUFFICES ASSUME Init PROVE CoinLedger
  OBVIOUS
<1>1. Delivered = {}
  BY DEF Init, Delivered
<1>2. UpgradesBought = {}
  <2>1. \A s \in Shippers : shipper[s].level = 1
    BY DEF Init, Row
  <2> QED
    BY <2>1 DEF UpgradesBought, ShipperLevels
<1>3. UpgradeSpending = 0
  BY <1>2, UpgradeSets, TotalEmpty DEF UpgradeSpending
<1>4. Reward(Delivered) = 0
  BY <1>1, NoOrders
<1>5. start.coins = wallet.coins /\ wallet.coins \in Nat
  BY OrderAssumption DEF Init
<1> QED
  BY <1>3, <1>4, <1>5 DEF CoinLedger

LEMMA NextCoins == TypeOK /\ TripsConsistent /\ CoinLedger /\ [Next]_vars => CoinLedger'
<1> SUFFICES ASSUME TypeOK, TripsConsistent, CoinLedger, [Next]_vars PROVE CoinLedger'
  OBVIOUS
<1>1. wallet.coins \in Nat /\ start.coins \in Nat /\ UpgradeSpending \in Nat
  BY UpgradeSets DEF TypeOK
<1>2. Delivered \in SUBSET Orders /\ Reward(Delivered) \in Nat
  BY OrderSets DEF Delivered
<1>3. ASSUME Delivered' = Delivered, wallet'.coins = wallet.coins, start' = start,
             \A s \in Shippers : shipper'[s].level = shipper[s].level
      PROVE  CoinLedger'
  BY <1>3, SameLevels DEF CoinLedger
<1>4. ASSUME NEW s \in Shippers, NEW ids \in SUBSET Orders, Deliver(s, ids)
      PROVE  CoinLedger'
  <2>1. Delivered' = Delivered
    BY <1>4 DEF Deliver, Delivered, Pending
  <2>2. \A r \in Shippers : shipper'[r].level = shipper[r].level
    <3>1. PICK o \in ids :
            shipper' = [shipper EXCEPT ![s] =
                          Row("delivering", @.level, TripTime(@.level, o))]
      BY <1>4 DEF Deliver
    <3> QED
      BY <3>1 DEF Row, TypeOK
  <2> QED
    BY <1>3, <1>4, <2>1, <2>2 DEF Deliver
<1>5. ASSUME NEW s \in Shippers, ClaimReward(s) PROVE CoinLedger'
  <2>1. Carried(s) \subseteq Delivering /\ Carried(s) \in SUBSET Orders
    BY ShipperAssumption DEF Carried, Delivering, TripsConsistent
  <2>2. Delivered' = Delivered \cup Carried(s) /\ Delivered \cap Carried(s) = {}
    BY <1>5, <2>1 DEF ClaimReward, Delivered, Delivering
  <2>3. Reward(Delivered \cup Carried(s)) = Reward(Delivered) + Reward(Carried(s))
    <3>1. IsFiniteSet(Delivered) /\ IsFiniteSet(Carried(s))
      BY <1>2, <2>1, OrderSets
    <3>2. \A o \in Delivered \cup Carried(s) : RewardCoins[o] \in Int
      BY <1>2, <2>1, OrderAssumption
    <3> QED
      BY <2>2, <3>1, <3>2, TotalDisjointUnion DEF Reward
  <2>4. Reward(Delivered') = Reward(Delivered) + Reward(Carried(s))
    BY <2>2, <2>3
  <2>5. Reward(Carried(s)) \in Nat
    BY <2>1, OrderSets
  <2>6. wallet'.coins = wallet.coins + Reward(Carried(s)) /\ start' = start
    BY <1>5 DEF ClaimReward, TypeOK
  <2>7. UpgradeSpending' = UpgradeSpending
    <3>1. \A r \in Shippers : shipper'[r].level = shipper[r].level
      BY <1>5 DEF ClaimReward, Row, TypeOK
    <3> QED
      BY <3>1, SameLevels
  <2> QED
    BY <1>1, <1>2, <2>4, <2>5, <2>6, <2>7 DEF CoinLedger
<1>6. ASSUME NEW s \in Shippers, UpgradeShipper(s) PROVE CoinLedger'
  <2>1. UpgradeSpending' = UpgradeSpending + UpgradeCost[shipper[s].level]
    BY <1>6, UpgradeSpends
  <2>2. UpgradeCost[shipper[s].level] \in Nat
    BY ShipperAssumption DEF TypeOK
  <2>3. wallet'.coins = wallet.coins - UpgradeCost[shipper[s].level] /\ start' = start
    BY <1>6 DEF UpgradeShipper, TypeOK
  <2>4. Delivered' = Delivered
    BY <1>6 DEF UpgradeShipper, Delivered
  <2> QED
    BY <1>1, <1>2, <2>1, <2>2, <2>3, <2>4 DEF CoinLedger
<1>7. ASSUME NEW s \in Shippers, UnlockShipper(s) PROVE CoinLedger'
  BY <1>3, <1>7 DEF UnlockShipper, Delivered, TypeOK
<1>8. ASSUME NEW s \in Shippers, InstantComplete(s) PROVE CoinLedger'
  BY <1>3, <1>8 DEF InstantComplete, Delivered, TypeOK
<1>9. CASE Tick
  BY <1>3, <1>9 DEF Tick, Delivered, TypeOK
<1>10. ASSUME NEW t \in Tabs, Refresh(t) PROVE CoinLedger'
  <2>1. Delivered' = Delivered
    BY <1>10, RefreshSpares DEF Delivered
  <2> QED
    BY <1>3, <1>10, <2>1 DEF Refresh
<1>11. ASSUME UNCHANGED <<status, shipper, wallet, start>> PROVE CoinLedger'
  BY <1>3, <1>11 DEF Delivered
<1> QED
  BY <1>4, <1>5, <1>6, <1>7, <1>8, <1>9, <1>10, <1>11
  DEF Next, vars, QuoteCompletion, AbandonCompletion, ReadBoard, StartDelete, Rollback

\* Coins come from delivered orders and go to upgrades, and to nothing else.
THEOREM CoinsConserved == Spec => []CoinLedger
BY TripsAndPayments, InitCoins, NextCoins, PTL DEF Spec, IInv

-----------------------------------------------------------------------------
(* Gems.                                                                    *)

\* Whatever the trip times, the rate, the upgrades and the requests that run
\* between the price and the payment: no trip ends early without gems, and gems
\* are taken for one trip, that was under way when it was priced, at its price
\* then, once (InstantComplete).  Time is one of the things that run between.
THEOREM GemsOnlyEndTrips == Spec => GemsBuyTheWait
<1> DEFINE gems == wallet.gems - wallet'.gems
           Priced(s) == quote'[s] > quote[s] => GemSeconds * quote'[s] < shipper[s].busy + GemSeconds
           Paid(s) == /\ gems = quote[s] /\ hurried[s] = 0
                      /\ shipper[s].state = "delivering" /\ shipper'[s].busy = 0
                      /\ shipper[s].busy <= GemSeconds * gems + 1
           Bought ==
             /\ \A s \in Shippers :
                  /\ quote'[s] > quote[s] => GemSeconds * quote'[s] < shipper[s].busy + GemSeconds
                  /\ shipper[s].busy > 1 /\ shipper'[s].busy = 0 => gems > 0
             /\ gems # 0 =>
                  \E s \in Shippers :
                    /\ gems = quote[s] /\ hurried[s] = 0
                    /\ shipper[s].state = "delivering" /\ shipper'[s].busy = 0
                    /\ shipper[s].busy <= GemSeconds * gems + 1
<1>1. IInv /\ [Next]_vars => [Bought]_vars
  <2> SUFFICES ASSUME IInv, Next PROVE Bought
    OBVIOUS
  <2>0. TypeOK /\ Quoted /\ TripsConsistent
    BY DEF IInv
  <2>1. ASSUME NEW s \in Shippers, InstantComplete(s) PROVE Bought
    <3>1. wallet.gems \in Nat /\ quote[s] \in Nat
      BY <2>0 DEF TypeOK
    <3>2. wallet'.gems = wallet.gems - quote[s] /\ quote[s] > 0
      BY <2>0, <2>1 DEF InstantComplete, TypeOK
    <3>3. gems = quote[s]
      BY <3>1, <3>2
    <3>4. \A r \in Shippers : ~(quote'[r] > quote[r])
      BY <2>0, <2>1 DEF InstantComplete, TypeOK
    <3>5. Paid(s)
      <4>1. hurried[s] = 0 /\ shipper[s].state = "delivering"
        BY <2>0, <3>2 DEF Quoted
      <4>2. shipper[s].busy <= GemSeconds * gems + 1
        BY <2>0, <3>2, <3>3 DEF Quoted
      <4>3. shipper'[s].busy = 0
        BY <2>0, <2>1 DEF InstantComplete, TypeOK
      <4> QED
        BY <3>3, <4>1, <4>2, <4>3
    <3>6. gems > 0
      BY <3>2, <3>3
    <3> QED
      BY <3>4, <3>5, <3>6
  <2>2. ASSUME wallet'.gems = wallet.gems, \A r \in Shippers : Priced(r),
               \A r \in Shippers : shipper[r].busy > 1 => shipper'[r].busy # 0
        PROVE  Bought
    <3>1. gems = 0
      BY <2>0, <2>2 DEF TypeOK
    <3> QED
      BY <2>2, <3>1
  <2>9. ASSUME quote' = quote PROVE \A r \in Shippers : Priced(r)
    <3>1. \A r \in Shippers : quote[r] \in Nat
      BY <2>0 DEF TypeOK
    <3> QED
      BY <2>9, <3>1
  <2>10. ASSUME NEW s \in Shippers, QuoteCompletion(s) PROVE Bought
    <3>1. ASSUME NEW r \in Shippers PROVE Priced(r)
      <4>1. CASE r = s
        BY <2>0, <2>10, <4>1, QuoteCovers
      <4>2. CASE r # s
        <5>1. quote'[r] = quote[r] /\ quote[r] \in Nat
          BY <2>0, <2>10, <4>2 DEF QuoteCompletion, TypeOK
        <5> QED
          BY <5>1
      <4> QED
        BY <4>1, <4>2
    <3>2. wallet' = wallet /\ shipper' = shipper
      BY <2>10 DEF QuoteCompletion
    <3> HIDE DEF Bought, Priced
    <3>3. \A r \in Shippers : shipper[r].busy > 1 => shipper'[r].busy # 0
      BY <3>2
    <3> QED
      BY <2>2, <3>1, <3>2, <3>3
  <2>11. ASSUME NEW s \in Shippers, AbandonCompletion(s) PROVE Bought
    <3>1. ASSUME NEW r \in Shippers PROVE Priced(r)
      <4>1. quote'[r] <= quote[r] /\ quote[r] \in Nat /\ quote'[r] \in Nat
        BY <2>0, <2>11 DEF AbandonCompletion, TypeOK
      <4> QED
        BY <4>1
    <3>2. wallet' = wallet /\ shipper' = shipper
      BY <2>11 DEF AbandonCompletion
    <3> HIDE DEF Bought, Priced
    <3>3. \A r \in Shippers : shipper[r].busy > 1 => shipper'[r].busy # 0
      BY <3>2
    <3> QED
      BY <2>2, <3>1, <3>2, <3>3
  <2> HIDE DEF Bought, Priced
  <2>3. ASSUME NEW s \in Shippers, NEW ids \in SUBSET Orders, Deliver(s, ids) PROVE Bought
    <3>1. shipper[s].busy = Null
      BY <2>0, <2>3 DEF TripsConsistent, Deliver
    <3>2. \A r \in Shippers : r # s => shipper'[r] = shipper[r]
      BY <2>0, <2>3 DEF Deliver, TypeOK
    <3>3. wallet' = wallet /\ quote' = quote
      BY <2>3 DEF Deliver
    <3>4. ASSUME NEW r \in Shippers, shipper[r].busy > 1 PROVE shipper'[r].busy # 0
      <4>1. r # s
        BY <3>1, <3>4 DEF Null
      <4> QED
        BY <3>2, <3>4, <4>1
    <3> QED
      BY <2>2, <2>9, <3>3, <3>4
  <2>4. ASSUME NEW s \in Shippers, ClaimReward(s) PROVE Bought
    <3>1. wallet'.gems = wallet.gems /\ quote' = quote
      BY <2>0, <2>4 DEF ClaimReward, TypeOK
    <3>2. \A r \in Shippers : shipper[r].busy > 1 => shipper'[r].busy # 0
      BY <2>0, <2>4 DEF ClaimReward, TypeOK, Row, Null
    <3> QED
      BY <2>2, <2>9, <3>1, <3>2
  <2>5. ASSUME NEW s \in Shippers, UpgradeShipper(s) PROVE Bought
    <3>1. wallet'.gems = wallet.gems /\ quote' = quote
      BY <2>0, <2>5 DEF UpgradeShipper, TypeOK
    <3>2. \A r \in Shippers : shipper'[r].busy = shipper[r].busy
      BY <2>0, <2>5 DEF UpgradeShipper, TypeOK
    <3> QED
      BY <2>2, <2>9, <3>1, <3>2
  <2>6. ASSUME NEW s \in Shippers, UnlockShipper(s) PROVE Bought
    <3>1. \A r \in Shippers : shipper'[r].busy = shipper[r].busy
      BY <2>0, <2>6 DEF UnlockShipper, TypeOK
    <3> QED
      BY <2>2, <2>6, <2>9, <3>1 DEF UnlockShipper
  <2>7. ASSUME Tick PROVE Bought
    <3>1. \A r \in Shippers : shipper[r].busy > 1 => shipper'[r].busy = shipper[r].busy - 1
      BY <2>0, <2>7 DEF Tick, TypeOK, Null
    <3>2. \A r \in Shippers : shipper[r].busy \in Int
      BY <2>0 DEF TypeOK, Null
    <3>3. \A r \in Shippers : shipper[r].busy > 1 => shipper'[r].busy # 0
      BY <3>1, <3>2
    <3> QED
      BY <2>2, <2>7, <2>9, <3>3 DEF Tick
  <2>8. ASSUME UNCHANGED <<shipper, wallet, quote>> PROVE Bought
    BY <2>2, <2>8, <2>9
  <2> QED
    BY <2>1, <2>3, <2>4, <2>5, <2>6, <2>7, <2>8, <2>10, <2>11
    DEF Next, ReadBoard, StartDelete, Refresh, Rollback
<1> QED
  BY <1>1, TripsAndPayments, PTL DEF Spec, GemsBuyTheWait

-----------------------------------------------------------------------------
(* The board.                                                               *)

\* The orders of each request's last refresh.  A request that is deleting has
\* every pending one of its own in its snapshot: only it adds to its share.
Shares(share) ==
  /\ share \in [Tabs -> SUBSET (Orders \ Unused)]
  /\ Pending \subseteq UNION {share[t] : t \in Tabs}
  /\ \A t \in Tabs :
       /\ Cardinality(share[t]) <= BoardSize
       /\ get[t].pc = "deleting" => share[t] \cap Pending \subseteq get[t].doomed

Shared == \E share \in [Tabs -> SUBSET Orders] : Shares(share)

LEMMA InitShared == Init => Shared
<1> SUFFICES ASSUME Init PROVE Shared
  OBVIOUS
<1> DEFINE none == [t \in Tabs |-> {}]
<1>1. Pending = {}
  BY DEF Init, Pending
<1>2. Cardinality({}) <= BoardSize
  BY OrderAssumption, NoOrders
<1>3. Shares(none)
  BY <1>1, <1>2 DEF Shares, Init, NoGet
<1> QED
  BY <1>3 DEF Shared

\* A refresh gives its request the new orders, at most BoardSize, for its old
\* ones: of those it deletes every one that is still pending.
LEMMA RefreshShared ==
  ASSUME TypeOK, Shared, NEW t \in Tabs, Refresh(t)
  PROVE  Shared'
<1>1. PICK share \in [Tabs -> SUBSET Orders] : Shares(share)
  BY DEF Shared
<1>2. PICK new \in SUBSET Unused :
        /\ Cardinality(new) \in {0, Needed(t)}
        /\ status' = [o \in Orders |->
                        CASE o \in Removed(t) -> "replaced"
                          [] o \in new -> "pending"
                          [] OTHER -> status[o]]
  BY DEF Refresh
<1> DEFINE after == [share EXCEPT ![t] = new]
<1>3. new \subseteq Orders /\ Unused \subseteq Orders /\ Removed(t) \cap Unused = {}
  BY DEF Unused, Removed, Pending
<1>4. \A o \in Orders :
        /\ o \in Pending' <=> o \in (Pending \ Removed(t)) \cup new
        /\ o \in Unused' <=> o \in Unused \ new
  BY <1>2, <1>3 DEF Pending, Unused
<1>5. after \in [Tabs -> SUBSET (Orders \ Unused')] /\ after \in [Tabs -> SUBSET Orders]
  BY <1>1, <1>3, <1>4 DEF Shares
<1>6. Cardinality(new) <= BoardSize
  BY <1>2, OrderAssumption DEF Needed, TypeOK
<1>7. \A u \in Tabs : Cardinality(after[u]) <= BoardSize
  BY <1>1, <1>6 DEF Shares
<1>8. ASSUME NEW o \in Pending' PROVE \E u \in Tabs : o \in after[u]
  <2>1. o \in Orders
    BY DEF Pending
  <2>2. CASE o \in new
    BY <2>2, <1>1
  <2>3. CASE o \in Pending \ Removed(t)
    <3>1. PICK u \in Tabs : o \in share[u]
      BY <1>1, <2>3 DEF Shares
    <3>2. u # t
      BY <1>1, <2>3, <3>1 DEF Shares, Refresh, Removed
    <3> QED  BY <1>1, <3>1, <3>2
  <2> QED  BY <1>4, <2>1, <2>2, <2>3
<1>9. ASSUME NEW u \in Tabs, get'[u].pc = "deleting"
      PROVE  after[u] \cap Pending' \subseteq get'[u].doomed
  <2>1. u # t /\ get'[u] = get[u]
    BY <1>9 DEF Refresh, NoGet, TypeOK
  <2>2. after[u] = share[u] /\ share[u] \cap new = {}
    BY <1>1, <2>1 DEF Shares
  <2>3. after[u] \cap Pending' \subseteq share[u] \cap Pending
    BY <1>1, <1>4, <2>2
  <2> QED  BY <1>1, <1>9, <2>1, <2>3 DEF Shares
<1>10. Shares(after)'
  BY <1>5, <1>7, <1>8, <1>9 DEF Shares
<1> QED
  BY <1>5, <1>10 DEF Shared

\* No other step makes an order pending.
LEMMA NextShared == TypeOK /\ Shared /\ [Next]_vars => Shared'
<1> SUFFICES ASSUME TypeOK, Shared, [Next]_vars PROVE Shared'
  OBVIOUS
<1>1. PICK share \in [Tabs -> SUBSET Orders] : Shares(share)
  BY DEF Shared
<1>2. ASSUME Pending' \subseteq Pending, Unused' \subseteq Unused,
             \A t \in Tabs : get'[t].pc = "deleting" =>
               Pending' \subseteq get'[t].doomed \/ get'[t] = get[t]
      PROVE  Shared'
  <2>1. share \in [Tabs -> SUBSET (Orders \ Unused')]
    BY <1>1, <1>2 DEF Shares
  <2>2. Pending' \subseteq UNION {share[t] : t \in Tabs}
    BY <1>1, <1>2 DEF Shares
  <2>3. ASSUME NEW t \in Tabs, get'[t].pc = "deleting"
        PROVE  share[t] \cap Pending' \subseteq get'[t].doomed
    BY <1>1, <1>2, <2>3 DEF Shares
  <2>4. Shares(share)'
    BY <1>1, <2>1, <2>2, <2>3 DEF Shares
  <2> QED  BY <2>4 DEF Shared
<1>3. ASSUME NEW s \in Shippers, NEW ids \in SUBSET Orders, Deliver(s, ids) PROVE Shared'
  <2>1. Pending' \subseteq Pending /\ Unused' = Unused /\ get' = get
    BY <1>3 DEF Deliver, Pending, Unused, TypeOK
  <2> QED  BY <1>2, <2>1
<1>4. ASSUME NEW s \in Shippers, ClaimReward(s) PROVE Shared'
  <2>1. Pending' \subseteq Pending /\ Unused' \subseteq Unused /\ get' = get
    BY <1>4 DEF ClaimReward, Pending, Unused, TypeOK
  <2> QED  BY <1>2, <2>1
<1>5. ASSUME NEW t \in Tabs, Refresh(t) PROVE Shared'
  BY <1>5, RefreshShared
<1>6. ASSUME NEW t \in Tabs, ReadBoard(t) \/ StartDelete(t) \/ Rollback(t) PROVE Shared'
  <2>1. Pending' = Pending /\ Unused' = Unused
    BY <1>6 DEF ReadBoard, StartDelete, Rollback, Pending, Unused
  <2>2. \A u \in Tabs \ {t} : get'[u] = get[u]
    BY <1>6 DEF ReadBoard, StartDelete, Rollback, TypeOK
  <2>3. get'[t].pc = "deleting" => get'[t].doomed = Pending
    <3>1. CASE StartDelete(t)
      BY <3>1 DEF StartDelete, TypeOK
    <3>2. CASE ReadBoard(t) \/ Rollback(t)
      <4>1. get'[t].pc # "deleting"
        BY <3>2 DEF ReadBoard, Rollback, TypeOK, NoGet
      <4> QED  BY <4>1
    <3> QED  BY <1>6, <3>1, <3>2
  <2> QED  BY <1>2, <2>1, <2>2, <2>3
<1>7. ASSUME UNCHANGED <<status, get>> PROVE Shared'
  BY <1>2, <1>7 DEF Pending, Unused
<1> QED
  BY <1>3, <1>4, <1>5, <1>6, <1>7
  DEF Next, vars, UnlockShipper, UpgradeShipper, QuoteCompletion, InstantComplete,
      AbandonCompletion, Tick

\* The board never holds more than one board of pending orders for each request
\* that can be under way at once: twelve with one request at a time.
THEOREM BoardsAddUp == Spec => []BoardBound
<1>1. TypeOK /\ Shared => BoardBound
  <2> SUFFICES ASSUME TypeOK, Shared PROVE BoardBound
    OBVIOUS
  <2>1. PICK share \in [Tabs -> SUBSET Orders] : Shares(share)
    BY DEF Shared
  <2> DEFINE U == UNION {share[t] : t \in Tabs}
  <2>2. BoardSize \in Nat /\ IsFiniteSet(Tabs)
    BY OrderAssumption
  <2>3. \A t \in Tabs : IsFiniteSet(share[t]) /\ Cardinality(share[t]) <= BoardSize
    BY <2>1, OrderSets DEF Shares
  <2>4. IsFiniteSet(U) /\ Cardinality(U) <= BoardSize * Cardinality(Tabs)
    BY <2>2, <2>3, CoverBound
  <2>5. Pending \subseteq U
    BY <2>1 DEF Shares
  <2> HIDE DEF U
  <2>6. /\ Cardinality(Pending) <= Cardinality(U)
        /\ Cardinality(Pending) \in Nat /\ Cardinality(U) \in Nat
    BY <2>4, <2>5, FS_Subset, FS_CardinalityType
  <2> DEFINE bound == BoardSize * Cardinality(Tabs)
  <2>7. bound \in Nat
    BY <2>2, FS_CardinalityType
  <2>8. Cardinality(U) <= bound
    BY <2>4
  <2> HIDE DEF bound
  <2>9. Cardinality(Pending) <= bound
    BY <2>6, <2>7, <2>8
  <2> QED  BY <2>9 DEF BoardBound, bound
<1>2. Spec => [](TypeOK /\ Shared)
  <2>1. Init => TypeOK /\ Shared
    BY InitType, InitShared
  <2>2. TypeOK /\ Shared /\ [Next]_vars => (TypeOK /\ Shared)'
    BY NextType, NextShared
  <2> QED  BY <2>1, <2>2, PTL DEF Spec
<1> QED
  BY <1>1, <1>2, PTL

-----------------------------------------------------------------------------
(* The waits.                                                               *)

\* What a step does to the wait of a trip that goes on: nothing prolongs it,
\* neither an upgrade nor another shipper's trip, and a second takes one off.
WaitsShorten ==
  \A s \in Shippers :
    shipper[s].state = "delivering" /\ shipper'[s].state = "delivering" =>
      /\ shipper'[s].busy <= shipper[s].busy
      /\ Tick /\ shipper[s].busy > 0 => shipper'[s].busy = shipper[s].busy - 1

LEMMA StepShortensWaits == TypeOK /\ TripsConsistent /\ [Next]_vars => [WaitsShorten]_vars
<1> SUFFICES ASSUME TypeOK, TripsConsistent, Next, NEW s \in Shippers,
                    shipper[s].state = "delivering", shipper'[s].state = "delivering"
             PROVE  /\ shipper'[s].busy <= shipper[s].busy
                    /\ Tick /\ shipper[s].busy > 0 =>
                         shipper'[s].busy = shipper[s].busy - 1
  BY DEF WaitsShorten
<1>1. shipper[s].busy \in Nat
  BY DEF TypeOK, TripsConsistent
<1>2. Tick => shipper'[s] = IF shipper[s].busy > 0
                            THEN [shipper[s] EXCEPT !.busy = @ - 1] ELSE shipper[s]
  BY DEF Tick
<1>3. ASSUME Tick PROVE shipper'[s].busy = IF shipper[s].busy > 0
                                           THEN shipper[s].busy - 1 ELSE shipper[s].busy
  BY <1>2, <1>3 DEF TypeOK
<1>4. ASSUME ~Tick PROVE shipper'[s].busy <= shipper[s].busy
  <2>1. ASSUME NEW r \in Shippers, UnlockShipper(r) \/ UpgradeShipper(r)
        PROVE  shipper'[s].busy = shipper[s].busy
    BY <2>1 DEF UnlockShipper, UpgradeShipper, TypeOK
  <2>2. ASSUME NEW r \in Shippers, NEW ids \in SUBSET Orders, Deliver(r, ids)
        PROVE  shipper'[s].busy = shipper[s].busy
    <3>1. r # s
      BY <2>2 DEF Deliver
    <3> QED BY <2>2, <3>1 DEF Deliver, TypeOK
  <2>3. ASSUME NEW r \in Shippers, ClaimReward(r)
        PROVE  shipper'[s].busy = shipper[s].busy
    BY <2>3 DEF ClaimReward, TypeOK, Row
  <2>4. ASSUME NEW r \in Shippers, InstantComplete(r)
        PROVE  shipper'[s].busy <= shipper[s].busy
    <3>1. CASE r = s
      BY <1>1, <2>4, <3>1 DEF InstantComplete, TypeOK
    <3>2. CASE r # s
      BY <1>1, <2>4, <3>2 DEF InstantComplete, TypeOK
    <3> QED BY <3>1, <3>2
  <2>8. ASSUME NEW r \in Shippers, QuoteCompletion(r) \/ AbandonCompletion(r)
        PROVE  shipper'[s].busy = shipper[s].busy
    BY <2>8 DEF QuoteCompletion, AbandonCompletion
  <2>5. ASSUME shipper' = shipper PROVE shipper'[s].busy = shipper[s].busy
    BY <2>5
  <2>6. shipper'[s].busy = shipper[s].busy => shipper'[s].busy <= shipper[s].busy
    BY <1>1
  <2>7. ASSUME NEW t \in Tabs, ReadBoard(t) \/ StartDelete(t) \/ Refresh(t) \/ Rollback(t)
        PROVE  shipper'[s].busy = shipper[s].busy
    BY <2>5, <2>7 DEF ReadBoard, StartDelete, Refresh, Rollback
  <2> QED
    BY <1>4, <2>1, <2>2, <2>3, <2>4, <2>6, <2>7, <2>8 DEF Next
<1> QED
  BY <1>1, <1>3, <1>4

\* The core of TripEnds: a trip has a whole number of seconds to go, time can
\* pass while it has any, each second takes one off and no other step adds one.
THEOREM TripsShorten ==
  Spec => /\ [](\A s \in Shippers : shipper[s].state = "delivering" =>
                  shipper[s].busy \in Nat)
          /\ [][WaitsShorten]_vars
<1>1. IInv => \A s \in Shippers : shipper[s].state = "delivering" => shipper[s].busy \in Nat
  BY DEF IInv, TypeOK, TripsConsistent
<1>2. IInv /\ [Next]_vars => [WaitsShorten]_vars
  BY StepShortensWaits DEF IInv
<1>3. Spec => [](\A s \in Shippers : shipper[s].state = "delivering" => shipper[s].busy \in Nat)
  BY <1>1, TripsAndPayments, PTL
<1>4. Spec => [][WaitsShorten]_vars
  BY <1>2, TripsAndPayments, PTL DEF Spec
<1> QED BY <1>3, <1>4
=============================================================================
