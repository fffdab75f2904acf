----------------------------- MODULE MCDelivery -----------------------------
(* A small instance of Delivery: a board of two orders, two shippers that    *)
(* level up once to carry two orders, one board request at a time.           *)
EXTENDS Delivery, TLC

CONSTANTS o1, o2, o3, o4, pho, tra

MCOrders == {o1, o2, o3, o4}
MCProducts == {pho, tra}
Asks(a, b) == pho :> a @@ tra :> b
MCItems == o1 :> Asks(1, 0) @@ o2 :> Asks(2, 0) @@ o3 :> Asks(0, 1)
           @@ o4 :> Asks(1, 0)
MCRewardCoins == o1 :> 1 @@ o2 :> 2 @@ o3 :> 1 @@ o4 :> 2
MCDuration == o1 :> 1 @@ o2 :> 2 @@ o3 :> 1 @@ o4 :> 1
MCUnlockLevel == <<30, 40>>
MCCapacity == <<2, 3>>
MCSlots == <<1, 2>>
MCSpeed == <<100, 200>>
MCUpgradeCost == <<2, 3>>
MCUserLevels == {30, 40}
MCWallets == {[coins |-> 2, gems |-> 2]}
MCStocks == {Asks(2, 1)}
=============================================================================
