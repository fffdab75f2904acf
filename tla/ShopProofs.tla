----------------------------- MODULE ShopProofs ------------------------------
(***************************************************************************)
(* Proofs about Shop and ShopTx.                                           *)
(*                                                                         *)
(* ShopSound is the inductive invariant of the operations: the types, the  *)
(* slots the level opens, which columns of a slot or an order go together, *)
(* and what is timed.  The ledgers are preserved on top of it, each from   *)
(* the effect of an operation on the sums.                                 *)
(*                                                                         *)
(* LocksOwned is that of the transactions: a row is locked by one of them, *)
(* which knows it as it is.  A commit is then the operation on the rows of *)
(* db, and ShopTx implements Shop.  Stages says how far a transaction has  *)
(* come in the rows it locks; from the order of the tables it follows that *)
(* only buying goods can make a deadlock.  NoStandstill is why requests    *)
(* end: some go on, or some are in a deadlock that the database breaks.    *)
(***************************************************************************)
EXTENDS ShopTx, SetSumsProofs, Sequences

-----------------------------------------------------------------------------
(* Rows.                                                                    *)

\* Rows of different tables, and of different keys, are different.
LEMMA RowNames ==
  /\ Stall # User /\ Stall # Wallet /\ User # Wallet
  /\ \A x : /\ Slot(x) \notin {Stall, User, Wallet} /\ Stock(x) \notin {Stall, User, Wallet}
            /\ Import(x) \notin {Stall, User, Wallet} /\ Quest(x) \notin {Stall, User, Wallet}
            /\ Catalogue(x) \notin {Stall, User, Wallet}
  /\ \A x, y : /\ Slot(x) # Stock(y) /\ Slot(x) # Import(y) /\ Slot(x) # Quest(y)
               /\ Slot(x) # Catalogue(y) /\ Stock(x) # Import(y) /\ Stock(x) # Quest(y)
               /\ Stock(x) # Catalogue(y) /\ Import(x) # Quest(y)
               /\ Import(x) # Catalogue(y) /\ Quest(x) # Catalogue(y)
  /\ \A x, y : /\ Slot(x) = Slot(y) => x = y
               /\ Stock(x) = Stock(y) => x = y
               /\ Import(x) = Import(y) => x = y
               /\ Quest(x) = Quest(y) => x = y
               /\ Catalogue(x) = Catalogue(y) => x = y
  /\ \A q : Quest(q)[2] = q
<1>1. Stall # User /\ Stall # Wallet /\ User # Wallet
  BY DEF Stall, User, Wallet
<1>2. ASSUME NEW x
      PROVE  /\ Slot(x) \notin {Stall, User, Wallet} /\ Stock(x) \notin {Stall, User, Wallet}
             /\ Import(x) \notin {Stall, User, Wallet} /\ Quest(x) \notin {Stall, User, Wallet}
             /\ Catalogue(x) \notin {Stall, User, Wallet}
  BY DEF Stall, User, Wallet, Slot, Stock, Import, Quest, Catalogue
<1>3. ASSUME NEW x, NEW y
      PROVE  /\ Slot(x) # Stock(y) /\ Slot(x) # Import(y) /\ Slot(x) # Quest(y)
             /\ Slot(x) # Catalogue(y) /\ Stock(x) # Import(y) /\ Stock(x) # Quest(y)
             /\ Stock(x) # Catalogue(y) /\ Import(x) # Quest(y)
             /\ Import(x) # Catalogue(y) /\ Quest(x) # Catalogue(y)
  BY DEF Slot, Stock, Import, Quest, Catalogue
<1>4. ASSUME NEW x, NEW y
      PROVE  /\ Slot(x) = Slot(y) => x = y
             /\ Stock(x) = Stock(y) => x = y
             /\ Import(x) = Import(y) => x = y
             /\ Quest(x) = Quest(y) => x = y
             /\ Catalogue(x) = Catalogue(y) => x = y
  BY DEF Slot, Stock, Import, Quest, Catalogue
<1>5. ASSUME NEW q PROVE Quest(q)[2] = q
  BY DEF Quest
<1> QED  BY <1>1, <1>2, <1>3, <1>4, <1>5

LEMMA RowsOf ==
  /\ Stall \in Rows /\ User \in Rows /\ Wallet \in Rows
  /\ \A i \in SlotIds : Slot(i) \in Rows
  /\ \A p \in Products : Stock(p) \in Rows /\ Catalogue(p) \in Rows
  /\ \A o \in Orders : Import(o) \in Rows
  /\ \A q \in Quests : Quest(q) \in Rows
BY DEF Rows

\* Every row that is not a quest's.
Plain(row) == \A q \in Quests : row # Quest(q)

LEMMA PlainRows ==
  /\ Plain(Stall) /\ Plain(User) /\ Plain(Wallet)
  /\ \A x : Plain(Slot(x)) /\ Plain(Stock(x)) /\ Plain(Import(x)) /\ Plain(Catalogue(x))
BY RowNames DEF Plain

-----------------------------------------------------------------------------
(* What an operation does to each row, for any rows m that it finds.        *)

\* The row of q after a step that counts n of target.
Counted(m, target, n, q) ==
  IF TargetType[q] = target /\ m[Quest(q)].status = "active"
  THEN Advanced(q, m[Quest(q)], n) ELSE m[Quest(q)]

IsMap(m) == m = [row \in DOMAIN m |-> m[row]]

\* updateQuestProgress changes the quest rows and no others.
LEMMA ProgressedRows ==
  ASSUME NEW m, NEW target, NEW n
  PROVE  LET a == Progressed(m, target, n) IN
           /\ IsMap(a) /\ DOMAIN a = DOMAIN m
           /\ \A row \in DOMAIN m : Plain(row) => a[row] = m[row]
           /\ \A q \in Quests : Quest(q) \in DOMAIN m => a[Quest(q)] = Counted(m, target, n, q)
<1> DEFINE a == Progressed(m, target, n)
<1>1. IsMap(a) /\ DOMAIN a = DOMAIN m
  BY DEF Progressed, IsMap
<1>2. \A row \in DOMAIN m : Plain(row) => a[row] = m[row]
  BY DEF Progressed, Plain, Counting
<1>3. ASSUME NEW q \in Quests, Quest(q) \in DOMAIN m
      PROVE  a[Quest(q)] = Counted(m, target, n, q)
  <2>1. (\E x \in Counting(m, target) : Quest(q) = Quest(x))
        <=> TargetType[q] = target /\ m[Quest(q)].status = "active"
    BY <1>3, RowNames DEF Counting
  <2>2. a[Quest(q)] = IF \E x \in Counting(m, target) : Quest(q) = Quest(x)
                      THEN Advanced(Quest(q)[2], m[Quest(q)], n) ELSE m[Quest(q)]
    BY <1>3 DEF Progressed
  <2> QED  BY <2>1, <2>2, RowNames DEF Counted
<1> QED  BY <1>1, <1>2, <1>3

LEMMA PlacedRows ==
  ASSUME NEW m, NEW i, NEW p, Stock(p) \in DOMAIN m, Slot(i) \in DOMAIN m
  PROVE  LET a == Placed(m, i, p) IN
           /\ IsMap(a) /\ DOMAIN a = DOMAIN m
           /\ a[Stock(p)] = m[Stock(p)] - 1
           /\ a[Slot(i)] = SlotRow("selling", p, SellPrice[p])
           /\ \A row \in DOMAIN m \ {Stock(p), Slot(i)} : Plain(row) => a[row] = m[row]
           /\ \A q \in Quests : Quest(q) \in DOMAIN m
                => a[Quest(q)] = Counted(m, "PLACE_PRODUCT", 1, q)
<1> DEFINE b == [m EXCEPT ![Stock(p)] = @ - 1, ![Slot(i)] = SlotRow("selling", p, SellPrice[p])]
<1>1. DOMAIN b = DOMAIN m
  OBVIOUS
<1>2. /\ b[Stock(p)] = m[Stock(p)] - 1
      /\ b[Slot(i)] = SlotRow("selling", p, SellPrice[p])
      /\ \A row \in DOMAIN m \ {Stock(p), Slot(i)} : b[row] = m[row]
      /\ \A q : Quest(q) \in DOMAIN m => b[Quest(q)] = m[Quest(q)]
  BY RowNames
<1>3. Placed(m, i, p) = Progressed(b, "PLACE_PRODUCT", 1)
  BY DEF Placed
<1> HIDE DEF b
<1> QED  BY <1>1, <1>2, <1>3, ProgressedRows, PlainRows DEF Counted

LEMMA CollectedRows ==
  ASSUME NEW m, NEW i, Slot(i) \in DOMAIN m, User \in DOMAIN m, Wallet \in DOMAIN m
  PROVE  LET a == Collected(m, i) IN
           /\ IsMap(a) /\ DOMAIN a = DOMAIN m
           /\ a[Slot(i)] = EmptySlot
           /\ a[User] = WithXp(m[User], CollectXp)
           /\ a[Wallet] = [m[Wallet] EXCEPT !.coins = @ + m[Slot(i)].revenue]
           /\ \A row \in DOMAIN m \ {Slot(i), User, Wallet} : Plain(row) => a[row] = m[row]
           /\ \A q \in Quests : Quest(q) \in DOMAIN m
                => a[Quest(q)] = Counted(m, "COLLECT_REVENUE", 1, q)
<1> DEFINE c == [m EXCEPT ![Slot(i)] = EmptySlot, ![User] = WithXp(@, CollectXp)]
           b == Earned(c, m[Slot(i)].revenue)
<1>1. /\ DOMAIN c = DOMAIN m
      /\ c[Slot(i)] = EmptySlot /\ c[User] = WithXp(m[User], CollectXp)
      /\ \A row \in DOMAIN m \ {Slot(i), User} : c[row] = m[row]
  BY RowNames
<1> HIDE DEF c
<1>2. /\ DOMAIN b = DOMAIN m
      /\ b[Wallet] = [c[Wallet] EXCEPT !.coins = @ + m[Slot(i)].revenue]
      /\ \A row \in DOMAIN m \ {Wallet} : b[row] = c[row]
  BY <1>1 DEF Earned
<1>3. Collected(m, i) = Progressed(b, "COLLECT_REVENUE", 1)
  BY DEF Collected, c
<1> HIDE DEF b
<1>4. /\ b[Slot(i)] = EmptySlot /\ b[User] = WithXp(m[User], CollectXp)
      /\ b[Wallet] = [m[Wallet] EXCEPT !.coins = @ + m[Slot(i)].revenue]
      /\ \A row \in DOMAIN m \ {Slot(i), User, Wallet} : b[row] = m[row]
      /\ \A q : Quest(q) \in DOMAIN m => b[Quest(q)] = m[Quest(q)]
  BY <1>1, <1>2, RowNames
<1> QED  BY <1>2, <1>3, <1>4, ProgressedRows, PlainRows DEF Counted

LEMMA ImportedRows ==
  ASSUME NEW m, NEW o, NEW p, NEW n, Wallet \in DOMAIN m, Import(o) \in DOMAIN m
  PROVE  LET a == Imported(m, o, p, n) IN
           /\ IsMap(a) /\ DOMAIN a = DOMAIN m
           /\ a[Wallet] = [m[Wallet] EXCEPT !.coins = @ - n * ImportPrice[p]]
           /\ a[Import(o)] = ImportRow("pending", p, n)
           /\ \A row \in DOMAIN m \ {Wallet, Import(o)} : Plain(row) => a[row] = m[row]
           /\ \A q \in Quests : Quest(q) \in DOMAIN m
                => a[Quest(q)] = Counted(m, "IMPORT_PRODUCT", n, q)
<1> DEFINE b == [m EXCEPT ![Wallet].coins = @ - n * ImportPrice[p],
                          ![Import(o)] = ImportRow("pending", p, n)]
<1>1. /\ DOMAIN b = DOMAIN m
      /\ b[Wallet] = [m[Wallet] EXCEPT !.coins = @ - n * ImportPrice[p]]
      /\ b[Import(o)] = ImportRow("pending", p, n)
      /\ \A row \in DOMAIN m \ {Wallet, Import(o)} : b[row] = m[row]
      /\ \A q : Quest(q) \in DOMAIN m => b[Quest(q)] = m[Quest(q)]
  BY RowNames
<1>2. Imported(m, o, p, n) = Progressed(b, "IMPORT_PRODUCT", n)
  BY DEF Imported
<1> HIDE DEF b
<1> QED  BY <1>1, <1>2, ProgressedRows, PlainRows DEF Counted

LEMMA ClaimedRows ==
  ASSUME NEW m, NEW o, Import(o) \in DOMAIN m, Stock(m[Import(o)].product) \in DOMAIN m
  PROVE  LET a == Claimed(m, o) IN
           /\ IsMap(a) /\ DOMAIN a = DOMAIN m
           /\ a[Import(o)] = [m[Import(o)] EXCEPT !.status = "claimed"]
           /\ a[Stock(m[Import(o)].product)]
                = m[Stock(m[Import(o)].product)] + m[Import(o)].qty
           /\ \A row \in DOMAIN m \ {Import(o), Stock(m[Import(o)].product)} : a[row] = m[row]
BY RowNames DEF Claimed, IsMap

LEMMA SoldRows ==
  ASSUME NEW m, NEW p, NEW n, Stock(p) \in DOMAIN m, Wallet \in DOMAIN m
  PROVE  LET a == Sold(m, p, n) IN
           /\ IsMap(a) /\ DOMAIN a = DOMAIN m
           /\ a[Stock(p)] = m[Stock(p)] - n
           /\ a[Wallet] = [m[Wallet] EXCEPT !.coins = @ + FastPrice(p) * n]
           /\ \A row \in DOMAIN m \ {Stock(p), Wallet} : Plain(row) => a[row] = m[row]
           /\ \A q \in Quests : Quest(q) \in DOMAIN m
                => a[Quest(q)] = Counted(m, "COLLECT_REVENUE", (FastPrice(p) * n) \div 10, q)
<1> DEFINE paid == FastPrice(p) * n
           b == Earned([m EXCEPT ![Stock(p)] = @ - n], paid)
<1> HIDE DEF paid
<1>1. /\ DOMAIN b = DOMAIN m
      /\ b[Stock(p)] = m[Stock(p)] - n
      /\ b[Wallet] = [m[Wallet] EXCEPT !.coins = @ + paid]
      /\ \A row \in DOMAIN m \ {Stock(p), Wallet} : b[row] = m[row]
      /\ \A q : Quest(q) \in DOMAIN m => b[Quest(q)] = m[Quest(q)]
  BY RowNames DEF Earned
<1>2. Sold(m, p, n) = Progressed(b, "COLLECT_REVENUE", paid \div 10)
  BY DEF Sold, paid
<1> HIDE DEF b
<1>3. LET a == Sold(m, p, n) IN
        /\ IsMap(a) /\ DOMAIN a = DOMAIN m
        /\ a[Stock(p)] = m[Stock(p)] - n
        /\ a[Wallet] = [m[Wallet] EXCEPT !.coins = @ + paid]
        /\ \A row \in DOMAIN m \ {Stock(p), Wallet} : Plain(row) => a[row] = m[row]
        /\ \A q \in Quests : Quest(q) \in DOMAIN m
             => a[Quest(q)] = Counted(m, "COLLECT_REVENUE", paid \div 10, q)
  BY <1>1, <1>2, ProgressedRows, PlainRows DEF Counted
<1> QED  BY <1>3 DEF paid

LEMMA UpgradedRows ==
  ASSUME NEW m, Stall \in DOMAIN m, User \in DOMAIN m, Wallet \in DOMAIN m,
         NewSlot(m) \in DOMAIN m
  PROVE  LET a == Upgraded(m) IN
           /\ IsMap(a) /\ DOMAIN a = DOMAIN m
           /\ a[Wallet] = [m[Wallet] EXCEPT !.coins = @ - UpgradeCost[m[Stall] + 1]]
           /\ a[Stall] = m[Stall] + 1
           /\ a[User] = [m[User] EXCEPT
                           !.level = IF @ < m[Stall] + 1 THEN m[Stall] + 1 ELSE @]
           /\ a[NewSlot(m)] = IF m[NewSlot(m)].state = "none" THEN EmptySlot ELSE m[NewSlot(m)]
           /\ \A row \in DOMAIN m \ {Wallet, Stall, User, NewSlot(m)} :
                Plain(row) => a[row] = m[row]
           /\ \A q \in Quests : Quest(q) \in DOMAIN m
                => a[Quest(q)] = Counted(m, "UPGRADE_STALL", 1, q)
<1> DEFINE b == [m EXCEPT ![Wallet].coins = @ - UpgradeCost[m[Stall] + 1],
                          ![Stall] = @ + 1,
                          ![User].level = IF @ < m[Stall] + 1 THEN m[Stall] + 1 ELSE @,
                          ![NewSlot(m)] = IF @.state = "none" THEN EmptySlot ELSE @]
<1> DEFINE j == m[Stall] + 1 + BaseSlots
<1>1. NewSlot(m) = Slot(j)
  BY DEF NewSlot
<1> HIDE DEF j
<1>2. /\ DOMAIN b = DOMAIN m
      /\ b[Wallet] = [m[Wallet] EXCEPT !.coins = @ - UpgradeCost[m[Stall] + 1]]
      /\ b[Stall] = m[Stall] + 1
      /\ b[User] = [m[User] EXCEPT !.level = IF @ < m[Stall] + 1 THEN m[Stall] + 1 ELSE @]
      /\ b[NewSlot(m)] = IF m[NewSlot(m)].state = "none" THEN EmptySlot ELSE m[NewSlot(m)]
      /\ \A row \in DOMAIN m \ {Wallet, Stall, User, NewSlot(m)} : b[row] = m[row]
      /\ \A q : Quest(q) \in DOMAIN m => b[Quest(q)] = m[Quest(q)]
  BY <1>1, RowNames
<1>3. Upgraded(m) = Progressed(b, "UPGRADE_STALL", 1)
  BY DEF Upgraded
<1> HIDE DEF b
<1> QED  BY <1>1, <1>2, <1>3, ProgressedRows, PlainRows DEF Counted

LEMMA RewardedRows ==
  ASSUME NEW m, NEW q, Quest(q) \in DOMAIN m, Wallet \in DOMAIN m
  PROVE  LET a == Rewarded(m, q) IN
           /\ IsMap(a) /\ DOMAIN a = DOMAIN m
           /\ a[Quest(q)] = [m[Quest(q)] EXCEPT !.status = "claimed"]
           /\ a[Wallet] = [coins |-> m[Wallet].coins + QuestCoins[q],
                           gems |-> m[Wallet].gems + QuestGems[q]]
           /\ \A row \in DOMAIN m \ {Quest(q), Wallet} : a[row] = m[row]
BY RowNames DEF Rewarded, IsMap

LEMMA VisitedRows ==
  ASSUME NEW m, NEW gained, User \in DOMAIN m
  PROVE  LET a == Visited(m, gained) IN
           /\ IsMap(a) /\ DOMAIN a = DOMAIN m
           /\ a[User] = WithXp(m[User], gained)
           /\ \A row \in DOMAIN m \ {User} : a[row] = m[row]
BY DEF Visited, IsMap

-----------------------------------------------------------------------------
(* The inductive invariant of the shop.                                     *)

\* A slot holds a product exactly while it sells, at the price of that product.
SlotShape ==
  \A i \in SlotIds :
    /\ db[Slot(i)].state = "selling" <=> db[Slot(i)].product \in Products
    /\ db[Slot(i)].state = "selling" => db[Slot(i)].revenue = SellPrice[db[Slot(i)].product]

\* An order that was made is for a product.
ImportShape ==
  \A o \in Orders : db[Import(o)].status # "none" => db[Import(o)].product \in Products

\* What the operations need of the rows to run at all.
ShopSound ==
  /\ ShopTypeOK
  /\ start \in [wallet : Wallets, stock : Stocks]
  /\ IsMap(db)
  /\ SlotShape
  /\ ImportShape
  /\ SlotRows
  /\ LevelCoversStall

\* SlotRows, for the slots below and at the next level.
LEMMA NextSlot ==
  ASSUME NEW l \in StallLevels, l < MaxLevel
  PROVE  /\ l + 1 \in StallLevels /\ l + 1 + BaseSlots \in SlotIds
         /\ \A i \in SlotIds : i # l + 1 + BaseSlots
              => (i <= l + BaseSlots <=> i <= l + 1 + BaseSlots)
BY CatalogAssumption DEF StallLevels, SlotIds

LEMMA XpTypes ==
  ASSUME NEW u \in UserStates, NEW n \in 0..XpStep
  PROVE  WithXp(u, n) \in UserStates /\ WithXp(u, n).level >= u.level
<1>1. u.level \in Nat /\ u.xp \in Nat /\ u.maxXp \in Nat /\ n \in Nat /\ XpStep \in Nat
  BY RewardAssumption DEF UserStates
<1>2. (u.level + 1) * XpStep \in Nat
  BY <1>1
<1>3. u = [level |-> u.level, xp |-> u.xp, maxXp |-> u.maxXp]
  BY DEF UserStates
<1> DEFINE grown == (u.level + 1) * XpStep
<1> HIDE DEF grown
<1>4. WithXp(u, n) = IF u.xp + n >= u.maxXp
                     THEN [level |-> u.level + 1, xp |-> u.xp + n - u.maxXp,
                           maxXp |-> u.maxXp + grown]
                     ELSE [level |-> u.level, xp |-> u.xp + n, maxXp |-> u.maxXp]
  BY <1>3 DEF WithXp, grown
<1>5. grown \in Nat
  BY <1>2 DEF grown
<1>6. CASE u.xp + n >= u.maxXp
  <2>1. u.xp + n - u.maxXp \in Nat /\ u.maxXp + grown \in Nat /\ u.level + 1 \in Nat
    BY <1>1, <1>5, <1>6
  <2> QED  BY <1>1, <1>4, <1>6, <2>1 DEF UserStates
<1>7. CASE ~ (u.xp + n >= u.maxXp)
  <2>1. u.xp + n \in Nat
    BY <1>1
  <2> QED  BY <1>1, <1>4, <1>7, <2>1 DEF UserStates
<1> QED  BY <1>6, <1>7

\* A step that counts n of target keeps the type of the quest rows and claims none.
LEMMA QuestTypes ==
  ASSUME NEW q \in Quests, NEW m, m[Quest(q)] \in QuestStates, NEW target, NEW n \in Nat
  PROVE  /\ Counted(m, target, n, q) \in QuestStates
         /\ Counted(m, target, n, q).status = "claimed" <=> m[Quest(q)].status = "claimed"
<1>1. TargetValue[q] \in Nat
  BY RewardAssumption
<1>2. m[Quest(q)].progress + n \in Nat
  BY DEF QuestStates
<1> QED  BY <1>1, <1>2 DEF Counted, Advanced, QuestRow, QuestStates

LEMMA PriceTypes ==
  ASSUME NEW p \in Products
  PROVE  FastPrice(p) \in Nat /\ SellPrice[p] \in Nat /\ ImportPrice[p] \in Nat
<1>1. SellPrice[p] \in Nat /\ ImportPrice[p] \in Nat
  BY CatalogAssumption
<1>2. SellPrice[p] * 6 \in Nat
  BY <1>1
<1> DEFINE s == SellPrice[p] * 6
<1> HIDE DEF s
<1>3. s \in Nat
  BY <1>2 DEF s
<1>4. s \div 10 \in Nat
  BY <1>3
<1> QED  BY <1>1, <1>4 DEF FastPrice, s

LEMMA ProductNat ==
  ASSUME NEW a \in Nat, NEW b \in Nat
  PROVE  a * b \in Nat
OBVIOUS

-----------------------------------------------------------------------------
(* The shop's operations keep the rows sound.                               *)

\* The rows that Register leaves.
LEMMA InitialRows ==
  ASSUME ShopInit
  PROVE  /\ db[Stall] = 1
         /\ db[User] = [level |-> 1, xp |-> 0, maxXp |-> XpStep]
         /\ db[Wallet] = start.wallet
         /\ \A i \in SlotIds : db[Slot(i)] = IF i <= 1 + BaseSlots THEN EmptySlot ELSE NoSlot
         /\ \A p \in Products : db[Stock(p)] = start.stock[p]
         /\ \A o \in Orders : db[Import(o)] = ImportRow("none", NoProduct, 0)
         /\ \A q \in Quests : db[Quest(q)] = QuestRow(0, "active")
         /\ \A p \in Products : db[Catalogue(p)] = p
<1>1. \A row \in Rows : db[row] = InitialRow(row, start.wallet, start.stock)
  BY DEF ShopInit
<1>2. db[Stall] = 1
  <2>1. Stall \in Rows /\ Stall[1] = "stalls" /\ User # Stall /\ Wallet # Stall
    BY RowsOf DEF Stall, User, Wallet
  <2>2. db[Stall] = InitialRow(Stall, start.wallet, start.stock)
    BY <1>1, <2>1
  <2> QED  BY <2>1, <2>2 DEF InitialRow
<1>3. db[User] = [level |-> 1, xp |-> 0, maxXp |-> XpStep]
  <2>1. User \in Rows /\ User[1] = "users" /\ User # Stall /\ Wallet # User
    BY RowsOf DEF Stall, User, Wallet
  <2>2. db[User] = InitialRow(User, start.wallet, start.stock)
    BY <1>1, <2>1
  <2> QED  BY <2>1, <2>2 DEF InitialRow
<1>4. db[Wallet] = start.wallet
  <2>1. Wallet \in Rows /\ Wallet[1] = "user_wallets" /\ Wallet # Stall /\ Wallet # User
    BY RowsOf DEF Stall, User, Wallet
  <2>2. db[Wallet] = InitialRow(Wallet, start.wallet, start.stock)
    BY <1>1, <2>1
  <2> QED  BY <2>1, <2>2 DEF InitialRow
<1>5. \A i \in SlotIds : db[Slot(i)] = IF i <= 1 + BaseSlots THEN EmptySlot ELSE NoSlot
  <2> TAKE i \in SlotIds
  <2>1. Slot(i) \notin {Stall, User, Wallet} /\ Slot(i)[1] = "stall_slots" /\ Slot(i)[2] = i
    BY RowNames DEF Slot
  <2> QED  BY <1>1, <2>1, RowsOf DEF InitialRow
<1>6. \A p \in Products : db[Stock(p)] = start.stock[p]
  <2> TAKE p \in Products
  <2>1. Stock(p) \notin {Stall, User, Wallet} /\ Stock(p)[1] = "inventory" /\ Stock(p)[2] = p
    BY RowNames DEF Stock
  <2> QED  BY <1>1, <2>1, RowsOf DEF InitialRow
<1>7. \A o \in Orders : db[Import(o)] = ImportRow("none", NoProduct, 0)
  <2> TAKE o \in Orders
  <2>1. Import(o) \notin {Stall, User, Wallet} /\ Import(o)[1] = "import_orders"
    BY RowNames DEF Import
  <2> QED  BY <1>1, <2>1, RowsOf DEF InitialRow
<1>8. \A q \in Quests : db[Quest(q)] = QuestRow(0, "active")
  <2> TAKE q \in Quests
  <2>1. Quest(q) \notin {Stall, User, Wallet} /\ Quest(q)[1] = "user_quests"
    BY RowNames DEF Quest
  <2> QED  BY <1>1, <2>1, RowsOf DEF InitialRow
<1>9. \A p \in Products : db[Catalogue(p)] = p
  <2> TAKE p \in Products
  <2>1. /\ Catalogue(p) \notin {Stall, User, Wallet} /\ Catalogue(p)[1] = "products"
        /\ Catalogue(p)[2] = p
    BY RowNames DEF Catalogue
  <2> QED  BY <1>1, <2>1, RowsOf DEF InitialRow
<1> QED  BY <1>2, <1>3, <1>4, <1>5, <1>6, <1>7, <1>8, <1>9

LEMMA SoundInit == ShopInit => ShopSound
<1> SUFFICES ASSUME ShopInit PROVE ShopSound
  OBVIOUS
<1>1. start \in [wallet : Wallets, stock : Stocks]
  BY DEF ShopInit
<1>2. start.wallet \in [coins : Nat, gems : Nat] /\ start.stock \in [Products -> Nat]
  BY <1>1, RewardAssumption
<1>3. IsMap(db) /\ DOMAIN db = Rows
  BY DEF ShopInit, IsMap
<1>4. ShopTypeOK
  <2>1. db[Stall] \in StallLevels
    BY InitialRows, CatalogAssumption DEF StallLevels
  <2>2. db[User] \in UserStates
    BY InitialRows, RewardAssumption DEF UserStates
  <2>3. \A i \in SlotIds : db[Slot(i)] \in SlotStates
    BY InitialRows DEF SlotStates, EmptySlot, NoSlot, SlotRow
  <2>4. \A o \in Orders : db[Import(o)] \in ImportStates
    BY InitialRows DEF ImportStates, ImportRow
  <2>5. \A q \in Quests : db[Quest(q)] \in QuestStates
    BY InitialRows DEF QuestStates, QuestRow
  <2>6. due \subseteq Rows /\ sold \in [Products -> Nat] /\ dumped \in [Products -> Nat]
    BY DEF ShopInit
  <2>7. /\ db[Wallet] \in [coins : Nat, gems : Nat]
        /\ \A p \in Products : db[Stock(p)] \in Nat /\ db[Catalogue(p)] = p
    BY <1>2, InitialRows
  <2> QED  BY <1>3, <2>1, <2>2, <2>3, <2>4, <2>5, <2>6, <2>7 DEF ShopTypeOK
<1>5. SlotShape
  BY InitialRows, CatalogAssumption DEF SlotShape, EmptySlot, NoSlot, SlotRow
<1>6. ImportShape
  BY InitialRows DEF ImportShape, ImportRow
<1>7. SlotRows
  BY InitialRows DEF SlotRows, EmptySlot, NoSlot, SlotRow
<1>8. LevelCoversStall
  BY InitialRows DEF LevelCoversStall
<1> QED  BY <1>1, <1>3, <1>4, <1>5, <1>6, <1>7, <1>8 DEF ShopSound

\* The quest rows of db' are those of db after a step that counts n of target.
QuestsCounted(target, n) ==
  \A q \in Quests : db'[Quest(q)] = Counted(db, target, n, q)

QuestsKept == \A q \in Quests : db'[Quest(q)] = db[Quest(q)]
SlotsKept == \A i \in SlotIds : db'[Slot(i)] = db[Slot(i)]
StocksKept == \A p \in Products : db'[Stock(p)] = db[Stock(p)]
ImportsKept == \A o \in Orders : db'[Import(o)] = db[Import(o)]
CatalogueKept == \A p \in Products : db'[Catalogue(p)] = db[Catalogue(p)]
MapKept == IsMap(db') /\ DOMAIN db' = Rows

\* What each operation does to the rows of every table.
PlaceEffect(i, p) ==
  /\ db[Stock(p)] > 0 /\ db'[Stock(p)] = db[Stock(p)] - 1
  /\ \A x \in Products \ {p} : db'[Stock(x)] = db[Stock(x)]
  /\ db[Slot(i)].state = "empty" /\ db'[Slot(i)] = SlotRow("selling", p, SellPrice[p])
  /\ \A x \in SlotIds \ {i} : db'[Slot(x)] = db[Slot(x)]
  /\ MapKept /\ ImportsKept /\ CatalogueKept /\ QuestsCounted("PLACE_PRODUCT", 1)
  /\ db'[Stall] = db[Stall] /\ db'[User] = db[User] /\ db'[Wallet] = db[Wallet]
  /\ UNCHANGED <<due, sold, dumped, start>>

CollectEffect(i) ==
  /\ db[Slot(i)].state = "selling" /\ db'[Slot(i)] = EmptySlot
  /\ \A x \in SlotIds \ {i} : db'[Slot(x)] = db[Slot(x)]
  /\ db'[User] = WithXp(db[User], CollectXp)
  /\ db'[Wallet] = [db[Wallet] EXCEPT !.coins = @ + db[Slot(i)].revenue]
  /\ MapKept /\ ImportsKept /\ StocksKept /\ CatalogueKept
  /\ QuestsCounted("COLLECT_REVENUE", 1)
  /\ db'[Stall] = db[Stall]
  /\ sold' = [sold EXCEPT ![db[Slot(i)].product] = @ + 1]
  /\ due' \subseteq due
  /\ UNCHANGED <<dumped, start>>

ImportEffect(o, p, n) ==
  /\ db[Import(o)].status = "none" /\ db'[Import(o)] = ImportRow("pending", p, n)
  /\ \A x \in Orders \ {o} : db'[Import(x)] = db[Import(x)]
  /\ db[Wallet].coins >= n * ImportPrice[p]
  /\ db'[Wallet] = [db[Wallet] EXCEPT !.coins = @ - n * ImportPrice[p]]
  /\ MapKept /\ SlotsKept /\ StocksKept /\ CatalogueKept /\ QuestsCounted("IMPORT_PRODUCT", n)
  /\ db'[Stall] = db[Stall] /\ db'[User] = db[User]
  /\ UNCHANGED <<due, sold, dumped, start>>

ClaimEffect(o) ==
  LET p == db[Import(o)].product IN
  /\ db[Import(o)].status = "pending" /\ db'[Import(o)] = [db[Import(o)] EXCEPT !.status = "claimed"]
  /\ \A x \in Orders \ {o} : db'[Import(x)] = db[Import(x)]
  /\ p \in Products /\ db'[Stock(p)] = db[Stock(p)] + db[Import(o)].qty
  /\ \A x \in Products \ {p} : db'[Stock(x)] = db[Stock(x)]
  /\ MapKept /\ SlotsKept /\ CatalogueKept /\ QuestsKept
  /\ db'[Stall] = db[Stall] /\ db'[User] = db[User] /\ db'[Wallet] = db[Wallet]
  /\ due' \subseteq due
  /\ UNCHANGED <<sold, dumped, start>>

SellEffect(p, n) ==
  /\ db[Stock(p)] >= n /\ db'[Stock(p)] = db[Stock(p)] - n
  /\ \A x \in Products \ {p} : db'[Stock(x)] = db[Stock(x)]
  /\ db'[Wallet] = [db[Wallet] EXCEPT !.coins = @ + FastPrice(p) * n]
  /\ MapKept /\ SlotsKept /\ ImportsKept /\ CatalogueKept
  /\ QuestsCounted("COLLECT_REVENUE", (FastPrice(p) * n) \div 10)
  /\ db'[Stall] = db[Stall] /\ db'[User] = db[User]
  /\ dumped' = [dumped EXCEPT ![p] = @ + n]
  /\ UNCHANGED <<due, sold, start>>

UpgradeEffect ==
  LET l == db[Stall] + 1 IN
  /\ db[Stall] < MaxLevel /\ db'[Stall] = l
  /\ db[Wallet].coins >= UpgradeCost[l]
  /\ db'[Wallet] = [db[Wallet] EXCEPT !.coins = @ - UpgradeCost[l]]
  /\ db'[User] = [db[User] EXCEPT !.level = IF @ < l THEN l ELSE @]
  /\ db[Slot(l + BaseSlots)].state = "none" /\ db'[Slot(l + BaseSlots)] = EmptySlot
  /\ \A x \in SlotIds \ {l + BaseSlots} : db'[Slot(x)] = db[Slot(x)]
  /\ MapKept /\ StocksKept /\ ImportsKept /\ CatalogueKept /\ QuestsCounted("UPGRADE_STALL", 1)
  /\ UNCHANGED <<due, sold, dumped, start>>

RewardEffect(q) ==
  /\ db[Quest(q)].status # "claimed" /\ db[Quest(q)].progress >= TargetValue[q]
  /\ db'[Quest(q)] = [db[Quest(q)] EXCEPT !.status = "claimed"]
  /\ \A x \in Quests \ {q} : db'[Quest(x)] = db[Quest(x)]
  /\ db'[Wallet] = [coins |-> db[Wallet].coins + QuestCoins[q],
                    gems |-> db[Wallet].gems + QuestGems[q]]
  /\ MapKept /\ SlotsKept /\ StocksKept /\ ImportsKept /\ CatalogueKept
  /\ db'[Stall] = db[Stall] /\ db'[User] = db[User]
  /\ UNCHANGED <<due, sold, dumped, start>>

VisitEffect(n) ==
  /\ db'[User] = WithXp(db[User], n)
  /\ MapKept /\ SlotsKept /\ StocksKept /\ ImportsKept /\ CatalogueKept /\ QuestsKept
  /\ db'[Stall] = db[Stall] /\ db'[Wallet] = db[Wallet]
  /\ UNCHANGED <<due, sold, dumped, start>>

ElapseEffect ==
  /\ due' \subseteq Rows
  /\ UNCHANGED <<db, sold, dumped, start>>

\* The operations have the effects.
LEMMA Effects ==
  ASSUME ShopSound, ShopNext
  PROVE  \/ \E i \in SlotIds, p \in Products : PlaceEffect(i, p)
         \/ \E i \in SlotIds : CollectEffect(i)
         \/ \E o \in Orders, p \in Products, n \in Quantities : ImportEffect(o, p, n)
         \/ \E o \in Orders : ClaimEffect(o)
         \/ \E p \in Products, n \in Quantities : SellEffect(p, n)
         \/ UpgradeEffect
         \/ \E q \in Quests : RewardEffect(q)
         \/ \E n \in NeighborXp : VisitEffect(n)
         \/ ElapseEffect
<1>1. DOMAIN db = Rows
  BY DEF ShopSound, ShopTypeOK
<1>2. ASSUME NEW i \in SlotIds, NEW p \in Products,
             Perform([op |-> "place", slot |-> i, product |-> p])
      PROVE  PlaceEffect(i, p)
  <2>1. /\ MayPlace(db, i, p) /\ db' = Placed(db, i, p)
        /\ UNCHANGED <<due, sold, dumped, start>>
    BY <1>2 DEF Perform, Allowed, After, Recorded
  <2>2. Stock(p) \in Rows /\ Slot(i) \in Rows
    BY RowsOf
  <2>3. db[Slot(i)].state = "empty" /\ db[Stock(p)] > 0
    BY <1>1, <2>1, <2>2 DEF MayPlace
  <2>4. /\ MapKept
        /\ db'[Stock(p)] = db[Stock(p)] - 1
        /\ db'[Slot(i)] = SlotRow("selling", p, SellPrice[p])
        /\ \A row \in Rows \ {Stock(p), Slot(i)} : Plain(row) => db'[row] = db[row]
        /\ QuestsCounted("PLACE_PRODUCT", 1)
    BY <1>1, <2>1, <2>2, PlacedRows, RowsOf DEF MapKept, QuestsCounted
  <2> QED  BY <2>1, <2>3, <2>4, RowsOf, RowNames, PlainRows
        DEF PlaceEffect, ImportsKept, CatalogueKept
<1>3. ASSUME NEW i \in SlotIds, Perform([op |-> "collect", slot |-> i])
      PROVE  CollectEffect(i)
  <2>1. /\ MayCollect(db, i) /\ db' = Collected(db, i)
        /\ sold' = [sold EXCEPT ![db[Slot(i)].product] = @ + 1]
        /\ due' \subseteq due
        /\ UNCHANGED <<dumped, start>>
    BY <1>3 DEF Perform, Allowed, After, Recorded
  <2>2. Slot(i) \in Rows /\ User \in Rows /\ Wallet \in Rows
    BY RowsOf
  <2>3. db[Slot(i)].state = "selling"
    BY <1>1, <2>1, <2>2 DEF MayCollect
  <2>4. /\ MapKept
        /\ db'[Slot(i)] = EmptySlot
        /\ db'[User] = WithXp(db[User], CollectXp)
        /\ db'[Wallet] = [db[Wallet] EXCEPT !.coins = @ + db[Slot(i)].revenue]
        /\ \A row \in Rows \ {Slot(i), User, Wallet} : Plain(row) => db'[row] = db[row]
        /\ QuestsCounted("COLLECT_REVENUE", 1)
    BY <1>1, <2>1, <2>2, CollectedRows, RowsOf DEF MapKept, QuestsCounted
  <2> QED  BY <2>1, <2>3, <2>4, RowsOf, RowNames, PlainRows
        DEF CollectEffect, ImportsKept, StocksKept, CatalogueKept
<1>4. ASSUME NEW o \in Orders, NEW p \in Products, NEW n \in Quantities,
             Perform([op |-> "import", order |-> o, product |-> p, qty |-> n])
      PROVE  ImportEffect(o, p, n)
  <2>1. /\ MayImport(db, o, p, n) /\ db' = Imported(db, o, p, n)
        /\ UNCHANGED <<due, sold, dumped, start>>
    BY <1>4 DEF Perform, Allowed, After, Recorded
  <2>2. Import(o) \in Rows /\ Wallet \in Rows
    BY RowsOf
  <2>3. db[Import(o)].status = "none" /\ db[Wallet].coins >= n * ImportPrice[p]
    BY <1>1, <2>1, <2>2 DEF MayImport
  <2>4. /\ MapKept
        /\ db'[Wallet] = [db[Wallet] EXCEPT !.coins = @ - n * ImportPrice[p]]
        /\ db'[Import(o)] = ImportRow("pending", p, n)
        /\ \A row \in Rows \ {Wallet, Import(o)} : Plain(row) => db'[row] = db[row]
        /\ QuestsCounted("IMPORT_PRODUCT", n)
    BY <1>1, <2>1, <2>2, ImportedRows, RowsOf DEF MapKept, QuestsCounted
  <2> QED  BY <2>1, <2>3, <2>4, RowsOf, RowNames, PlainRows
        DEF ImportEffect, SlotsKept, StocksKept, CatalogueKept
<1>5. ASSUME NEW o \in Orders, Perform([op |-> "claim", order |-> o])
      PROVE  ClaimEffect(o)
  <2>1. /\ MayClaim(db, o) /\ db' = Claimed(db, o)
        /\ due' \subseteq due
        /\ UNCHANGED <<sold, dumped, start>>
    BY <1>5 DEF Perform, Allowed, After, Recorded
  <2>2. Import(o) \in Rows
    BY RowsOf
  <2>3. db[Import(o)].status = "pending"
    BY <1>1, <2>1, <2>2 DEF MayClaim
  <2> DEFINE p == db[Import(o)].product
  <2>4. p \in Products
    BY <2>3 DEF ShopSound, ImportShape
  <2>5. Stock(p) \in Rows
    BY <2>4, RowsOf
  <2> HIDE DEF p
  <2>6. /\ MapKept
        /\ db'[Import(o)] = [db[Import(o)] EXCEPT !.status = "claimed"]
        /\ db'[Stock(p)] = db[Stock(p)] + db[Import(o)].qty
        /\ \A row \in Rows \ {Import(o), Stock(p)} : db'[row] = db[row]
    BY <1>1, <2>1, <2>2, <2>5, ClaimedRows DEF MapKept, p
  <2>7. /\ \A x \in Orders \ {o} : db'[Import(x)] = db[Import(x)]
        /\ \A x \in Products \ {p} : db'[Stock(x)] = db[Stock(x)]
        /\ SlotsKept /\ CatalogueKept /\ QuestsKept
        /\ db'[Stall] = db[Stall] /\ db'[User] = db[User] /\ db'[Wallet] = db[Wallet]
    BY <2>6, RowsOf, RowNames DEF SlotsKept, CatalogueKept, QuestsKept
  <2> QED  BY <2>1, <2>3, <2>4, <2>6, <2>7 DEF ClaimEffect, p
<1>6. ASSUME NEW p \in Products, NEW n \in Quantities,
             Perform([op |-> "sell", product |-> p, qty |-> n])
      PROVE  SellEffect(p, n)
  <2>1. /\ MaySell(db, p, n) /\ db' = Sold(db, p, n)
        /\ dumped' = [dumped EXCEPT ![p] = @ + n]
        /\ due' = due
        /\ UNCHANGED <<sold, start>>
    BY <1>6 DEF Perform, Allowed, After, Recorded
  <2>2. Stock(p) \in Rows /\ Wallet \in Rows
    BY RowsOf
  <2>3. db[Stock(p)] >= n
    BY <1>1, <2>1, <2>2 DEF MaySell
  <2>4. /\ MapKept
        /\ db'[Stock(p)] = db[Stock(p)] - n
        /\ db'[Wallet] = [db[Wallet] EXCEPT !.coins = @ + FastPrice(p) * n]
        /\ \A row \in Rows \ {Stock(p), Wallet} : Plain(row) => db'[row] = db[row]
        /\ QuestsCounted("COLLECT_REVENUE", (FastPrice(p) * n) \div 10)
    BY <1>1, <2>1, <2>2, SoldRows, RowsOf DEF MapKept, QuestsCounted
  <2> QED  BY <2>1, <2>3, <2>4, RowsOf, RowNames, PlainRows
        DEF SellEffect, SlotsKept, ImportsKept, CatalogueKept
<1>7. ASSUME Perform([op |-> "upgrade"])
      PROVE  UpgradeEffect
  <2>1. /\ MayUpgrade(db) /\ db' = Upgraded(db)
        /\ UNCHANGED <<due, sold, dumped, start>>
    BY <1>7 DEF Perform, Allowed, After, Recorded
  <2> DEFINE l == db[Stall] + 1
             j == l + BaseSlots
  <2>2. Stall \in Rows /\ User \in Rows /\ Wallet \in Rows
    BY RowsOf
  <2>3. db[Stall] < MaxLevel /\ db[Wallet].coins >= UpgradeCost[l]
    BY <1>1, <2>1, <2>2 DEF MayUpgrade
  <2>4. db[Stall] \in StallLevels
    BY DEF ShopSound, ShopTypeOK
  <2>5. j \in SlotIds
    BY <2>3, <2>4, NextSlot
  <2>6. db[Slot(j)].state = "none"
    <3>1. ~ (j <= db[Stall] + BaseSlots)
      BY <2>4, CatalogAssumption DEF StallLevels
    <3> QED  BY <2>5, <3>1 DEF ShopSound, SlotRows
  <2>7. NewSlot(db) = Slot(j)
    BY DEF NewSlot
  <2> HIDE DEF l, j
  <2>8. Slot(j) \in Rows
    BY <2>5, RowsOf
  <2>9. /\ MapKept
        /\ db'[Wallet] = [db[Wallet] EXCEPT !.coins = @ - UpgradeCost[l]]
        /\ db'[Stall] = l
        /\ db'[User] = [db[User] EXCEPT !.level = IF @ < l THEN l ELSE @]
        /\ db'[Slot(j)] = EmptySlot
        /\ \A row \in Rows \ {Wallet, Stall, User, Slot(j)} : Plain(row) => db'[row] = db[row]
        /\ QuestsCounted("UPGRADE_STALL", 1)
    BY <1>1, <2>1, <2>2, <2>6, <2>7, <2>8, UpgradedRows, RowsOf DEF MapKept, QuestsCounted, l
  <2>10. /\ \A x \in SlotIds \ {j} : db'[Slot(x)] = db[Slot(x)]
         /\ StocksKept /\ ImportsKept /\ CatalogueKept
    BY <2>9, RowsOf, RowNames, PlainRows DEF StocksKept, ImportsKept, CatalogueKept
  <2> QED  BY <2>1, <2>3, <2>6, <2>9, <2>10 DEF UpgradeEffect, l, j
<1>8. ASSUME NEW q \in Quests, Perform([op |-> "reward", quest |-> q])
      PROVE  RewardEffect(q)
  <2>1. /\ MayReward(db, q) /\ db' = Rewarded(db, q)
        /\ UNCHANGED <<due, sold, dumped, start>>
    BY <1>8 DEF Perform, Allowed, After, Recorded
  <2>2. Quest(q) \in Rows /\ Wallet \in Rows
    BY RowsOf
  <2>3. db[Quest(q)].status # "claimed" /\ db[Quest(q)].progress >= TargetValue[q]
    BY <1>1, <2>1, <2>2 DEF MayReward
  <2>4. /\ MapKept
        /\ db'[Quest(q)] = [db[Quest(q)] EXCEPT !.status = "claimed"]
        /\ db'[Wallet] = [coins |-> db[Wallet].coins + QuestCoins[q],
                          gems |-> db[Wallet].gems + QuestGems[q]]
        /\ \A row \in Rows \ {Quest(q), Wallet} : db'[row] = db[row]
    BY <1>1, <2>1, <2>2, RewardedRows DEF MapKept
  <2> QED  BY <2>1, <2>3, <2>4, RowsOf, RowNames
        DEF RewardEffect, SlotsKept, StocksKept, ImportsKept, CatalogueKept
<1>9. ASSUME NEW n \in NeighborXp, Perform([op |-> "visit", gained |-> n])
      PROVE  VisitEffect(n)
  <2>1. /\ db' = Visited(db, n)
        /\ UNCHANGED <<due, sold, dumped, start>>
    BY <1>9 DEF Perform, After, Recorded
  <2>2. User \in Rows
    BY RowsOf
  <2>3. /\ MapKept
        /\ db'[User] = WithXp(db[User], n)
        /\ \A row \in Rows \ {User} : db'[row] = db[row]
    BY <1>1, <2>1, <2>2, VisitedRows DEF MapKept
  <2> QED  BY <2>1, <2>3, RowsOf, RowNames
        DEF VisitEffect, SlotsKept, StocksKept, ImportsKept, CatalogueKept, QuestsKept
<1>10. ASSUME Elapse PROVE ElapseEffect
  <2>1. Timed \subseteq Rows
    BY RowsOf DEF Timed
  <2>2. due \subseteq Rows
    BY DEF ShopSound, ShopTypeOK
  <2> QED  BY <1>10, <2>1, <2>2 DEF Elapse, ElapseEffect
<1> QED  BY <1>2, <1>3, <1>4, <1>5, <1>6, <1>7, <1>8, <1>9, <1>10
      DEF ShopNext, PlaceProduct, CollectSlot, CreateImport, ClaimImport, FastSell,
          UpgradeStall, ClaimQuest, NeighborAction

LEMMA QuestRowsTyped ==
  ASSUME ShopSound, NEW target, NEW n \in Nat, QuestsCounted(target, n)
  PROVE  \A q \in Quests : /\ db'[Quest(q)] \in QuestStates
                           /\ db'[Quest(q)].status = "claimed" <=> db[Quest(q)].status = "claimed"
BY QuestTypes DEF ShopSound, ShopTypeOK, QuestsCounted

\* The invariant of one table's rows.
SlotsSound ==
  /\ \A i \in SlotIds : db[Slot(i)] \in SlotStates
  /\ SlotShape
ImportsSound ==
  /\ \A o \in Orders : db[Import(o)] \in ImportStates
  /\ ImportShape
StocksSound == \A p \in Products : db[Stock(p)] \in Nat
CatalogueSound == \A p \in Products : db[Catalogue(p)] = p
QuestsSound == \A q \in Quests : db[Quest(q)] \in QuestStates
HistorySound ==
  /\ due \subseteq Rows /\ sold \in [Products -> Nat] /\ dumped \in [Products -> Nat]
  /\ start \in [wallet : Wallets, stock : Stocks]
LevelsSound ==
  /\ db[Stall] \in StallLevels /\ db[User] \in UserStates
  /\ SlotRows /\ LevelCoversStall
WalletSound == db[Wallet] \in [coins : Nat, gems : Nat]

LEMMA SoundParts ==
  ShopSound <=> /\ IsMap(db) /\ DOMAIN db = Rows
                /\ SlotsSound /\ ImportsSound /\ StocksSound /\ CatalogueSound
                /\ QuestsSound /\ HistorySound /\ LevelsSound /\ WalletSound
BY DEF ShopSound, ShopTypeOK, SlotsSound, ImportsSound, StocksSound, CatalogueSound,
       QuestsSound, HistorySound, LevelsSound, WalletSound

LEMMA SoundPartsNext ==
  ASSUME MapKept, SlotsSound', ImportsSound', StocksSound', CatalogueSound',
         QuestsSound', HistorySound', LevelsSound', WalletSound'
  PROVE  ShopSound'
BY DEF MapKept, ShopSound, ShopTypeOK, SlotsSound, ImportsSound, StocksSound, CatalogueSound,
       QuestsSound, HistorySound, LevelsSound, WalletSound

LEMMA KeptSound ==
  ASSUME ShopSound
  PROVE  /\ SlotsKept => SlotsSound'
         /\ ImportsKept => ImportsSound'
         /\ StocksKept => StocksSound'
         /\ CatalogueKept => CatalogueSound'
         /\ QuestsKept => QuestsSound'
         /\ SlotsKept /\ db'[Stall] = db[Stall] => SlotRows'
         /\ db'[Stall] = db[Stall] /\ db'[User] = db[User] => LevelCoversStall'
<1>1. SlotsKept => SlotsSound'
  BY DEF ShopSound, ShopTypeOK, SlotsKept, SlotsSound, SlotShape
<1>2. ImportsKept => ImportsSound'
  BY DEF ShopSound, ShopTypeOK, ImportsKept, ImportsSound, ImportShape
<1>3. StocksKept => StocksSound'
  BY DEF ShopSound, ShopTypeOK, StocksKept, StocksSound
<1>4. CatalogueKept => CatalogueSound'
  BY DEF ShopSound, ShopTypeOK, CatalogueKept, CatalogueSound
<1>5. QuestsKept => QuestsSound'
  BY DEF ShopSound, ShopTypeOK, QuestsKept, QuestsSound
<1>6. SlotsKept /\ db'[Stall] = db[Stall] => SlotRows'
  BY DEF ShopSound, SlotRows, SlotsKept
<1>7. db'[Stall] = db[Stall] /\ db'[User] = db[User] => LevelCoversStall'
  BY DEF ShopSound, LevelCoversStall
<1> QED  BY <1>1, <1>2, <1>3, <1>4, <1>5, <1>6, <1>7

LEMMA SoundStep == ShopSound /\ [ShopNext]_shopVars => ShopSound'
<1> SUFFICES ASSUME ShopSound, [ShopNext]_shopVars PROVE ShopSound'
  OBVIOUS
<1>1. /\ DOMAIN db = Rows /\ IsMap(db)
      /\ SlotsSound /\ ImportsSound /\ StocksSound /\ CatalogueSound
      /\ QuestsSound /\ HistorySound /\ LevelsSound /\ WalletSound
  BY SoundParts
<1>2. UNCHANGED <<due, sold, dumped, start>> => HistorySound'
  BY <1>1 DEF HistorySound
<1>3. db'[Wallet] = db[Wallet] => WalletSound'
  BY <1>1 DEF WalletSound
<1>4. SlotsKept /\ db'[Stall] = db[Stall] /\ db'[User] = db[User] => LevelsSound'
  BY <1>1, KeptSound DEF LevelsSound
<1>5. \A p \in Products, n \in Quantities : n \in Nat /\ n * ImportPrice[p] \in Nat
                                            /\ FastPrice(p) * n \in Nat
  <2> TAKE p \in Products, n \in Quantities
  <2>1. n \in Nat
    BY CatalogAssumption
  <2> QED  BY <2>1, PriceTypes, ProductNat
<1>6. CollectXp \in 0..XpStep /\ \A n \in NeighborXp : n \in 0..XpStep
  BY RewardAssumption
<1>7. ASSUME NEW i \in SlotIds, NEW p \in Products, PlaceEffect(i, p)
      PROVE  ShopSound'
  <2>1. StocksSound'
    BY <1>1, <1>7 DEF PlaceEffect, StocksSound
  <2>2. SlotsSound'
    BY <1>1, <1>7, CatalogAssumption DEF PlaceEffect, SlotsSound, SlotShape, SlotStates, SlotRow
  <2>3. SlotRows'
    BY <1>1, <1>7 DEF PlaceEffect, LevelsSound, SlotRows, SlotRow
  <2>4. LevelsSound'
    BY <1>1, <1>7, <2>3, KeptSound DEF PlaceEffect, LevelsSound
  <2>5. QuestsSound'
    BY <1>7, QuestRowsTyped DEF PlaceEffect, QuestsSound
  <2> QED  BY <1>2, <1>3, <1>7, <2>1, <2>2, <2>4, <2>5, KeptSound, SoundPartsNext
        DEF PlaceEffect
<1>8. ASSUME NEW i \in SlotIds, CollectEffect(i)
      PROVE  ShopSound'
  <2>1. SlotsSound'
    BY <1>1, <1>8, CatalogAssumption
    DEF CollectEffect, SlotsSound, SlotShape, SlotStates, EmptySlot, SlotRow
  <2>2. SlotRows'
    BY <1>1, <1>8 DEF CollectEffect, LevelsSound, SlotRows, EmptySlot, SlotRow
  <2>3. db'[User] \in UserStates /\ db'[User].level >= db[User].level
    BY <1>1, <1>6, <1>8, XpTypes DEF CollectEffect, LevelsSound
  <2>4. LevelsSound'
    <3>1. db'[Stall] = db[Stall] /\ db[Stall] \in Nat /\ db[User].level \in Nat
          /\ db'[User].level \in Nat
      BY <1>1, <1>8, <2>3, CatalogAssumption DEF CollectEffect, LevelsSound, StallLevels, UserStates
    <3>2. LevelCoversStall'
      BY <1>1, <2>3, <3>1 DEF LevelsSound, LevelCoversStall
    <3> QED  BY <1>1, <2>2, <2>3, <3>1, <3>2 DEF LevelsSound
  <2>5. QuestsSound'
    BY <1>8, QuestRowsTyped DEF CollectEffect, QuestsSound
  <2>6. WalletSound'
    <3>1. db[Slot(i)].revenue \in Nat
      BY <1>1 DEF SlotsSound, SlotStates
    <3> QED  BY <1>1, <1>8, <3>1 DEF CollectEffect, WalletSound
  <2>7. HistorySound'
    <3>1. db[Slot(i)].product \in Products
      BY <1>1, <1>8 DEF CollectEffect, SlotsSound, SlotShape
    <3>2. sold' \in [Products -> Nat]
      BY <1>1, <1>8, <3>1 DEF CollectEffect, HistorySound
    <3> QED  BY <1>1, <1>8, <3>2 DEF CollectEffect, HistorySound
  <2> QED  BY <1>8, <2>1, <2>4, <2>5, <2>6, <2>7, KeptSound, SoundPartsNext
        DEF CollectEffect
<1>9. ASSUME NEW o \in Orders, NEW p \in Products, NEW n \in Quantities, ImportEffect(o, p, n)
      PROVE  ShopSound'
  <2>1. n \in Nat /\ n * ImportPrice[p] \in Nat
    BY <1>5
  <2>2. ImportsSound'
    BY <1>1, <1>9, <2>1 DEF ImportEffect, ImportsSound, ImportShape, ImportStates, ImportRow
  <2>3. WalletSound'
    <3> DEFINE cost == n * ImportPrice[p]
    <3>1. cost \in Nat /\ db[Wallet].coins >= cost
          /\ db'[Wallet] = [db[Wallet] EXCEPT !.coins = @ - cost]
      BY <1>9, <2>1 DEF ImportEffect
    <3> HIDE DEF cost
    <3> QED  BY <1>1, <3>1 DEF WalletSound
  <2>4. QuestsSound'
    BY <1>9, <2>1, QuestRowsTyped DEF ImportEffect, QuestsSound
  <2>5. HistorySound' /\ LevelsSound'
    BY <1>2, <1>4, <1>9 DEF ImportEffect
  <2> QED  BY <1>9, <2>2, <2>3, <2>4, <2>5, KeptSound, SoundPartsNext DEF ImportEffect
<1>10. ASSUME NEW o \in Orders, ClaimEffect(o)
       PROVE  ShopSound'
  <2>1. ImportsSound'
    BY <1>1, <1>10 DEF ClaimEffect, ImportsSound, ImportShape, ImportStates
  <2>2. db[Import(o)].qty \in Nat
    BY <1>1 DEF ImportsSound, ImportStates
  <2>3. StocksSound'
    BY <1>1, <1>10, <2>2 DEF ClaimEffect, StocksSound
  <2>4. HistorySound'
    BY <1>1, <1>10 DEF ClaimEffect, HistorySound
  <2>5. LevelsSound' /\ WalletSound'
    BY <1>3, <1>4, <1>10 DEF ClaimEffect
  <2> QED  BY <1>10, <2>1, <2>3, <2>4, <2>5, KeptSound, SoundPartsNext DEF ClaimEffect
<1>11. ASSUME NEW p \in Products, NEW n \in Quantities, SellEffect(p, n)
       PROVE  ShopSound'
  <2> DEFINE paid == FastPrice(p) * n
  <2>1. n \in Nat /\ paid \in Nat
    BY <1>5
  <2> HIDE DEF paid
  <2>2. StocksSound'
    BY <1>1, <1>11, <2>1 DEF SellEffect, StocksSound
  <2>3. WalletSound'
    <3>1. db'[Wallet] = [db[Wallet] EXCEPT !.coins = @ + paid]
      BY <1>11 DEF SellEffect, paid
    <3> QED  BY <1>1, <2>1, <3>1 DEF WalletSound
  <2>4. QuestsSound'
    <3>1. paid \div 10 \in Nat
      BY <2>1
    <3>2. QuestsCounted("COLLECT_REVENUE", paid \div 10)
      BY <1>11 DEF SellEffect, paid
    <3> QED  BY <3>1, <3>2, QuestRowsTyped DEF QuestsSound
  <2>5. HistorySound'
    BY <1>1, <1>11, <2>1 DEF SellEffect, HistorySound
  <2>6. LevelsSound'
    BY <1>4, <1>11 DEF SellEffect
  <2> QED  BY <1>11, <2>2, <2>3, <2>4, <2>5, <2>6, KeptSound, SoundPartsNext DEF SellEffect
<1>12. ASSUME UpgradeEffect
       PROVE  ShopSound'
  <2> DEFINE l == db[Stall] + 1
             j == l + BaseSlots
  <2>1. /\ db[Stall] \in StallLevels /\ db[Stall] < MaxLevel /\ db[Stall] \in Nat
        /\ l \in StallLevels /\ l \in Nat /\ BaseSlots \in Nat /\ j \in SlotIds
        /\ UpgradeCost[l] \in Nat
        /\ \A i \in SlotIds : i # j => (i <= db[Stall] + BaseSlots <=> i <= j)
    BY <1>1, <1>12, NextSlot, CatalogAssumption DEF UpgradeEffect, LevelsSound, StallLevels
  <2>2. /\ db'[Stall] = l
        /\ db[Wallet].coins >= UpgradeCost[l]
        /\ db'[Wallet] = [db[Wallet] EXCEPT !.coins = @ - UpgradeCost[l]]
        /\ db'[User] = [db[User] EXCEPT !.level = IF @ < l THEN l ELSE @]
        /\ db'[Slot(j)] = EmptySlot
        /\ \A x \in SlotIds \ {j} : db'[Slot(x)] = db[Slot(x)]
    BY <1>12 DEF UpgradeEffect
  <2> HIDE DEF l
  <2>3. SlotsSound'
    BY <1>1, <2>1, <2>2, CatalogAssumption DEF SlotsSound, SlotShape, SlotStates, EmptySlot, SlotRow
  <2>4. SlotRows'
    <3> SUFFICES ASSUME NEW i \in SlotIds
                 PROVE  db'[Slot(i)].state # "none" <=> i <= l + BaseSlots
      BY <2>2 DEF SlotRows
    <3>1. CASE i = j
      BY <2>1, <2>2, <3>1 DEF EmptySlot, SlotRow
    <3>2. CASE i # j
      BY <1>1, <2>1, <2>2, <3>2 DEF LevelsSound, SlotRows
    <3> QED  BY <3>1, <3>2
  <2>5. db'[User] \in UserStates /\ db'[User].level >= l
    BY <1>1, <2>1, <2>2 DEF LevelsSound, UserStates
  <2>6. LevelsSound'
    BY <2>1, <2>2, <2>4, <2>5 DEF LevelsSound, LevelCoversStall
  <2>7. WalletSound'
    BY <1>1, <2>1, <2>2 DEF WalletSound
  <2>8. QuestsSound'
    BY <1>12, QuestRowsTyped DEF UpgradeEffect, QuestsSound
  <2> QED  BY <1>2, <1>12, <2>3, <2>6, <2>7, <2>8, KeptSound, SoundPartsNext
        DEF UpgradeEffect
<1>13. ASSUME NEW q \in Quests, RewardEffect(q)
       PROVE  ShopSound'
  <2>1. QuestsSound'
    BY <1>1, <1>13 DEF RewardEffect, QuestsSound, QuestStates
  <2>2. WalletSound'
    BY <1>1, <1>13, RewardAssumption DEF RewardEffect, WalletSound
  <2> QED  BY <1>2, <1>4, <1>13, <2>1, <2>2, KeptSound, SoundPartsNext DEF RewardEffect
<1>14. ASSUME NEW n \in NeighborXp, VisitEffect(n)
       PROVE  ShopSound'
  <2>1. db'[User] \in UserStates /\ db'[User].level >= db[User].level
    BY <1>1, <1>6, <1>14, XpTypes DEF VisitEffect, LevelsSound
  <2>2. LevelsSound'
    <3>1. db'[Stall] = db[Stall] /\ db[Stall] \in Nat /\ db[User].level \in Nat
          /\ db'[User].level \in Nat
      BY <1>1, <1>14, <2>1, CatalogAssumption DEF VisitEffect, LevelsSound, StallLevels, UserStates
    <3>2. LevelCoversStall' /\ SlotRows'
      BY <1>1, <1>14, <2>1, <3>1, KeptSound DEF LevelsSound, LevelCoversStall, VisitEffect
    <3> QED  BY <1>1, <2>1, <3>1, <3>2 DEF LevelsSound
  <2> QED  BY <1>2, <1>3, <1>14, <2>2, KeptSound, SoundPartsNext DEF VisitEffect
<1>15. ASSUME ElapseEffect PROVE ShopSound'
  BY <1>15 DEF ElapseEffect, ShopSound, ShopTypeOK, SlotShape, ImportShape, SlotRows,
     LevelCoversStall, IsMap
<1>16. ASSUME UNCHANGED shopVars PROVE ShopSound'
  BY <1>16 DEF shopVars, ShopSound, ShopTypeOK, SlotShape, ImportShape, SlotRows,
     LevelCoversStall, IsMap
<1> QED  BY <1>7, <1>8, <1>9, <1>10, <1>11, <1>12, <1>13, <1>14, <1>15, <1>16, Effects

LEMMA ShopAlwaysSound == ShopSpec => []ShopSound
BY SoundInit, SoundStep, PTL DEF ShopSpec

\* Every row keeps its type, whatever requests the player sends.
THEOREM ShopTypeCorrect == ShopSpec => []ShopTypeOK
<1>1. ShopSound => ShopTypeOK
  BY DEF ShopSound
<1> QED  BY <1>1, ShopAlwaysSound, PTL

\* A stall has a row for each slot that its level opens and for no other.
THEOREM SlotsFollowLevel == ShopSpec => []SlotRows
<1>1. ShopSound => SlotRows
  BY DEF ShopSound
<1> QED  BY <1>1, ShopAlwaysSound, PTL

\* The player's level never falls below the stall's.
THEOREM LevelFollowsStall == ShopSpec => []LevelCoversStall
<1>1. ShopSound => LevelCoversStall
  BY DEF ShopSound
<1> QED  BY <1>1, ShopAlwaysSound, PTL

-----------------------------------------------------------------------------
(* The sums of the ledgers.                                                 *)

Paid == Total(Products, Revenue)
Rewards == Total(RewardsPaid, QuestCoins)
Gems == Total(RewardsPaid, QuestGems)
Ordered == Total(Bought, Units)
Spent == Total(Bought, Price)
Levelled == Total(2..db[Stall], UpgradeCost)

LEMMA SumTypes ==
  ASSUME ShopSound
  PROVE  /\ IsFiniteSet(Bought) /\ Bought \subseteq Orders
         /\ \A p \in Products : IsFiniteSet(Arrived(p)) /\ Arrived(p) \subseteq Orders
         /\ \A o \in Orders : Units[o] = db[Import(o)].qty /\ Units[o] \in Nat
         /\ \A o \in Bought : Price[o] \in Nat
         /\ IsFiniteSet(RewardsPaid) /\ RewardsPaid \subseteq Quests
         /\ \A p \in Products : IsFiniteSet(OnSale(p)) /\ Cardinality(OnSale(p)) \in Nat
         /\ \A p \in Products : Revenue[p] \in Nat
         /\ \A q \in Quests : QuestCoins[q] \in Nat /\ QuestGems[q] \in Nat
         /\ IsFiniteSet(2..db[Stall]) /\ \A l \in 2..db[Stall] : UpgradeCost[l] \in Nat
         /\ Paid \in Nat /\ Rewards \in Nat /\ Gems \in Nat /\ Ordered \in Nat /\ Spent \in Nat
         /\ Levelled \in Nat
         /\ \A p \in Products : Total(Arrived(p), Units) \in Nat
         /\ start.wallet.coins \in Nat /\ start.wallet.gems \in Nat
         /\ \A p \in Products : start.stock[p] \in Nat
<1>1. IsFiniteSet(Orders) /\ IsFiniteSet(Products) /\ IsFiniteSet(Quests)
  BY CatalogAssumption, RewardAssumption
<1>2. IsFiniteSet(Bought) /\ Bought \subseteq Orders
  BY <1>1, FS_Subset DEF Bought
<1>3. \A p \in Products : IsFiniteSet(Arrived(p)) /\ Arrived(p) \subseteq Orders
  BY <1>1, FS_Subset DEF Arrived
<1>4. \A o \in Orders : Units[o] = db[Import(o)].qty /\ Units[o] \in Nat
  BY DEF Units, ShopSound, ShopTypeOK, ImportStates
<1>5. ASSUME NEW o \in Bought PROVE Price[o] \in Nat
  <2>1. db[Import(o)].qty \in Nat /\ db[Import(o)].product \in Products
    BY <1>2, <1>4 DEF Bought, ShopSound, ImportShape, ShopTypeOK, ImportStates
  <2>2. Price[o] = db[Import(o)].qty * ImportPrice[db[Import(o)].product]
    BY DEF Price
  <2> QED  BY <2>1, <2>2, PriceTypes, ProductNat
<1>6. IsFiniteSet(RewardsPaid) /\ RewardsPaid \subseteq Quests
  BY <1>1, FS_Subset DEF RewardsPaid
<1>7. ASSUME NEW p \in Products PROVE IsFiniteSet(OnSale(p)) /\ Cardinality(OnSale(p)) \in Nat
  <2>1. 1 \in Int /\ MaxLevel + BaseSlots \in Int
    BY CatalogAssumption
  <2>2. IsFiniteSet(SlotIds)
    BY <2>1, FS_Interval DEF SlotIds
  <2>3. OnSale(p) \in SUBSET SlotIds
    BY DEF OnSale
  <2>4. IsFiniteSet(OnSale(p))
    BY <2>2, <2>3, FS_Subset
  <2> QED  BY <2>4, FS_CardinalityType
<1>8. ASSUME NEW p \in Products PROVE Revenue[p] \in Nat
  <2>1. sold[p] \in Nat /\ dumped[p] \in Nat
    BY DEF ShopSound, ShopTypeOK
  <2>2. sold[p] * SellPrice[p] \in Nat /\ dumped[p] * FastPrice(p) \in Nat
    BY <2>1, PriceTypes, ProductNat
  <2>3. Revenue[p] = sold[p] * SellPrice[p] + dumped[p] * FastPrice(p)
    BY DEF Revenue
  <2> QED  BY <2>2, <2>3
<1>9. \A q \in Quests : QuestCoins[q] \in Nat /\ QuestGems[q] \in Nat
  BY RewardAssumption
<1>10. IsFiniteSet(2..db[Stall]) /\ \A l \in 2..db[Stall] : UpgradeCost[l] \in Nat
  <2>1. db[Stall] \in StallLevels /\ db[Stall] \in Int
    BY CatalogAssumption DEF ShopSound, ShopTypeOK, StallLevels
  <2>2. \A l \in 2..db[Stall] : l \in StallLevels
    BY <2>1, CatalogAssumption DEF StallLevels
  <2> QED  BY <2>1, <2>2, FS_Interval, CatalogAssumption
<1>11. Paid \in Nat
  BY <1>1, <1>8, TotalType DEF Paid
<1>12. Rewards \in Nat /\ Gems \in Nat
  BY <1>6, <1>9, TotalType DEF Rewards, Gems
<1>13. Ordered \in Nat /\ Spent \in Nat
  BY <1>2, <1>4, <1>5, TotalType DEF Ordered, Spent
<1>14. Levelled \in Nat
  BY <1>10, TotalType DEF Levelled
<1>15. \A p \in Products : Total(Arrived(p), Units) \in Nat
  BY <1>3, <1>4, TotalType
<1>16. /\ start.wallet.coins \in Nat /\ start.wallet.gems \in Nat
       /\ \A p \in Products : start.stock[p] \in Nat
  <2>1. start.wallet \in [coins : Nat, gems : Nat] /\ start.stock \in [Products -> Nat]
    BY RewardAssumption DEF ShopSound
  <2> QED  BY <2>1
<1> QED  BY <1>2, <1>3, <1>4, <1>5, <1>6, <1>7, <1>8, <1>9, <1>10, <1>11, <1>12, <1>13, <1>14,
         <1>15, <1>16

\* The sums follow the tables they are about.
LEMMA SumsKept ==
  ASSUME ShopSound
  PROVE  /\ ImportsKept => /\ Bought' = Bought /\ Units' = Units /\ Price' = Price
                           /\ \A p \in Products : Arrived(p)' = Arrived(p)
         /\ SlotsKept => \A p \in Products : OnSale(p)' = OnSale(p)
         /\ QuestsKept => RewardsPaid' = RewardsPaid
         /\ UNCHANGED <<sold, dumped>> => Revenue' = Revenue
<1>1. ImportsKept => Bought' = Bought /\ Units' = Units
  BY DEF ImportsKept, Bought, Units
<1>2. ImportsKept => Price' = Price
  BY <1>1 DEF ImportsKept, Bought, Price
<1>3. ImportsKept => \A p \in Products : Arrived(p)' = Arrived(p)
  BY DEF ImportsKept, Arrived
<1>4. SlotsKept => \A p \in Products : OnSale(p)' = OnSale(p)
  BY DEF SlotsKept, OnSale
<1>5. QuestsKept => RewardsPaid' = RewardsPaid
  BY DEF QuestsKept, RewardsPaid
<1>6. UNCHANGED <<sold, dumped>> => Revenue' = Revenue
  BY DEF Revenue
<1> QED  BY <1>1, <1>2, <1>3, <1>4, <1>5, <1>6

LEMMA RewardsKept ==
  ASSUME ShopSound, NEW target, NEW n \in Nat, QuestsCounted(target, n)
  PROVE  RewardsPaid' = RewardsPaid
BY QuestRowsTyped DEF RewardsPaid

\* An order adds its units and its price to the sums, and nothing has arrived.
LEMMA ImportSums ==
  ASSUME ShopSound, NEW o \in Orders, NEW p \in Products, NEW n \in Quantities,
         ImportEffect(o, p, n)
  PROVE  /\ Ordered' = Ordered + n
         /\ Spent' = Spent + n * ImportPrice[p]
         /\ \A x \in Products : Total(Arrived(x), Units)' = Total(Arrived(x), Units)
<1>1. n \in Nat /\ n * ImportPrice[p] \in Nat
  <2>1. n \in Nat
    BY CatalogAssumption
  <2> QED  BY <2>1, PriceTypes, ProductNat
<1>2. /\ o \notin Bought /\ Bought' = Bought \cup {o}
      /\ \A x \in Bought : Units'[x] = Units[x] /\ Price'[x] = Price[x]
      /\ Units'[o] = n /\ Price'[o] = n * ImportPrice[p]
  <2>1. o \notin Bought /\ Bought' = Bought \cup {o}
    BY DEF ImportEffect, Bought, ImportRow
  <2>2. Units'[o] = n /\ \A x \in Orders \ {o} : Units'[x] = Units[x]
    BY DEF ImportEffect, Units, ImportRow
  <2>3. Price'[o] = n * ImportPrice[p]
    BY <2>1 DEF ImportEffect, Price, ImportRow
  <2>4. \A x \in Bought : x \in Orders \ {o} /\ Price'[x] = Price[x]
    BY <2>1 DEF ImportEffect, Price, Bought
  <2> QED  BY <2>1, <2>2, <2>3, <2>4
<1>3. IsFiniteSet(Bought) /\ \A x \in Bought : Units[x] \in Int /\ Price[x] \in Int
  <2>1. IsFiniteSet(Bought) /\ \A x \in Bought : Units[x] \in Nat /\ Price[x] \in Nat
    BY SumTypes
  <2> QED  BY <2>1
<1>4. Ordered' = Total(Bought, Units') + Units'[o]
  BY <1>1, <1>2, <1>3, TotalAdd DEF Ordered
<1>5. Total(Bought, Units') = Ordered
  BY <1>2, <1>3, TotalSame DEF Ordered
<1>6. Spent' = Total(Bought, Price') + Price'[o]
  <2>1. \A x \in Bought \cup {o} : Price'[x] \in Int
    BY <1>1, <1>2, <1>3
  <2>2. Total(Bought \cup {o}, Price') = Total(Bought, Price') + Price'[o]
    BY <1>2, <1>3, <2>1, TotalAdd
  <2> QED  BY <1>2, <2>2 DEF Spent
<1>7. Total(Bought, Price') = Spent
  BY <1>2, <1>3, TotalSame DEF Spent
<1>8. ASSUME NEW x \in Products
      PROVE  Total(Arrived(x), Units)' = Total(Arrived(x), Units)
  <2>1. Arrived(x)' = Arrived(x) /\ Arrived(x) \subseteq Bought
    BY DEF ImportEffect, Arrived, ImportRow, Bought
  <2>2. \A y \in Arrived(x) : Units'[y] = Units[y]
    BY <1>2, <2>1
  <2>3. IsFiniteSet(Arrived(x))
    BY SumTypes
  <2>4. Total(Arrived(x), Units') = Total(Arrived(x), Units)
    BY <2>2, <2>3, TotalSame
  <2> QED  BY <2>1, <2>4
<1> QED  BY <1>2, <1>4, <1>5, <1>6, <1>7, <1>8

\* A claim of an order changes what has arrived and no other sum.
LEMMA ClaimSums ==
  ASSUME ShopSound, NEW o \in Orders, ClaimEffect(o),
         NEW p \in Products, p = db[Import(o)].product
  PROVE  /\ Bought' = Bought /\ Units' = Units /\ Price' = Price
         /\ Total(Arrived(p), Units)' = Total(Arrived(p), Units) + db[Import(o)].qty
         /\ \A x \in Products \ {p} : Arrived(x)' = Arrived(x)
<1>1. \A x \in Orders : db'[Import(x)].qty = db[Import(x)].qty
                        /\ db'[Import(x)].product = db[Import(x)].product
                        /\ (db'[Import(x)].status # "none" <=> db[Import(x)].status # "none")
  BY DEF ClaimEffect, ShopSound, ShopTypeOK, ImportStates
<1>2. Bought' = Bought /\ Units' = Units
  BY <1>1 DEF Bought, Units
<1>3. Price' = Price
  BY <1>1, <1>2 DEF Price, Bought
<1>5. Arrived(p)' = Arrived(p) \cup {o} /\ o \notin Arrived(p)
  BY <1>1 DEF ClaimEffect, Arrived, ShopSound, ShopTypeOK, ImportStates
<1>6. \A x \in Products \ {p} : Arrived(x)' = Arrived(x)
  BY <1>1 DEF ClaimEffect, Arrived
<1>7. /\ IsFiniteSet(Arrived(p)) /\ Units[o] = db[Import(o)].qty
      /\ \A x \in Arrived(p) \cup {o} : Units[x] \in Int
  <2>1. IsFiniteSet(Arrived(p)) /\ Arrived(p) \cup {o} \subseteq Orders
    BY SumTypes
  <2>2. \A x \in Orders : Units[x] = db[Import(x)].qty /\ Units[x] \in Nat
    BY SumTypes
  <2> QED  BY <2>1, <2>2
<1>8. Total(Arrived(p) \cup {o}, Units) = Total(Arrived(p), Units) + Units[o]
  BY <1>5, <1>7, TotalAdd
<1> QED  BY <1>2, <1>3, <1>5, <1>6, <1>7, <1>8

\* A collected slot earns the price of its product.
LEMMA CollectSums ==
  ASSUME ShopSound, NEW i \in SlotIds, CollectEffect(i)
  PROVE  Paid' = Paid + db[Slot(i)].revenue
<1> DEFINE p == db[Slot(i)].product
<1>1. p \in Products /\ db[Slot(i)].revenue = SellPrice[p]
  BY DEF CollectEffect, ShopSound, SlotShape
<1>2. /\ sold \in [Products -> Nat] /\ sold' = [sold EXCEPT ![p] = @ + 1] /\ dumped' = dumped
  BY DEF CollectEffect, ShopSound, ShopTypeOK
<1> HIDE DEF p
<1>3. Revenue'[p] = Revenue[p] + SellPrice[p]
  <2>1. Revenue'[p] = (sold[p] + 1) * SellPrice[p] + dumped[p] * FastPrice(p)
    BY <1>1, <1>2 DEF Revenue
  <2>2. Revenue[p] = sold[p] * SellPrice[p] + dumped[p] * FastPrice(p)
    BY <1>1 DEF Revenue
  <2>3. /\ sold[p] \in Nat /\ SellPrice[p] \in Nat /\ sold[p] * SellPrice[p] \in Nat
        /\ dumped[p] * FastPrice(p) \in Nat
    BY <1>1, <1>2, PriceTypes, ProductNat DEF ShopSound, ShopTypeOK
  <2>4. (sold[p] + 1) * SellPrice[p] = sold[p] * SellPrice[p] + SellPrice[p]
    BY <2>3
  <2> QED  BY <2>1, <2>2, <2>3, <2>4
<1>4. \A x \in Products : x # p => Revenue'[x] = Revenue[x]
  BY <1>1, <1>2 DEF Revenue
<1>5. IsFiniteSet(Products) /\ \A x \in Products : Revenue[x] \in Int /\ Revenue'[x] \in Int
  <2>1. \A x \in Products : Revenue[x] \in Nat
    BY SumTypes
  <2>2. Revenue'[p] \in Int
    BY <1>1, <1>3, <2>1, PriceTypes
  <2> QED  BY <1>4, <2>1, <2>2, CatalogAssumption
<1>6. Total(Products, Revenue') = Total(Products, Revenue) - Revenue[p] + Revenue'[p]
  BY <1>1, <1>4, <1>5, TotalUpdate
<1>7. Total(Products, Revenue) \in Int
  BY <1>5, TotalInt
<1> QED  BY <1>1, <1>3, <1>5, <1>6, <1>7, PriceTypes DEF Paid

\* Goods sold by FastSell earn the reduced price.
LEMMA SellSums ==
  ASSUME ShopSound, NEW p \in Products, NEW n \in Quantities, SellEffect(p, n)
  PROVE  Paid' = Paid + FastPrice(p) * n
<1>1. n \in Nat /\ FastPrice(p) \in Nat
  BY CatalogAssumption, PriceTypes
<1>2. /\ dumped \in [Products -> Nat] /\ dumped' = [dumped EXCEPT ![p] = @ + n] /\ sold' = sold
  BY DEF SellEffect, ShopSound, ShopTypeOK
<1>3. Revenue'[p] = Revenue[p] + FastPrice(p) * n
  <2> DEFINE s == sold[p] * SellPrice[p]
             f == FastPrice(p)
             d == dumped[p]
  <2>1. Revenue'[p] = s + (d + n) * f /\ Revenue[p] = s + d * f
    BY <1>2 DEF Revenue
  <2>2. sold[p] \in Nat /\ d \in Nat /\ f \in Nat
    BY <1>1 DEF ShopSound, ShopTypeOK
  <2>3. s \in Nat
    BY <2>2, PriceTypes, ProductNat
  <2> HIDE DEF s, f, d
  <2>4. (d + n) * f = d * f + f * n /\ d * f \in Nat /\ f * n \in Nat
    BY <1>1, <2>2
  <2>5. Revenue'[p] = Revenue[p] + f * n
    BY <2>1, <2>3, <2>4
  <2> QED  BY <2>5 DEF f
<1>4. \A x \in Products : x # p => Revenue'[x] = Revenue[x]
  BY <1>2 DEF Revenue
<1>5. FastPrice(p) * n \in Nat
  BY <1>1, ProductNat
<1>6. IsFiniteSet(Products) /\ \A x \in Products : Revenue[x] \in Int /\ Revenue'[x] \in Int
  <2>1. \A x \in Products : Revenue[x] \in Nat
    BY SumTypes
  <2>2. Revenue'[p] \in Int
    BY <1>3, <1>5, <2>1
  <2> QED  BY <1>4, <2>1, <2>2, CatalogAssumption
<1>7. Total(Products, Revenue') = Total(Products, Revenue) - Revenue[p] + Revenue'[p]
  BY <1>4, <1>6, TotalUpdate
<1>8. Total(Products, Revenue) \in Int
  BY <1>6, TotalInt
<1> QED  BY <1>3, <1>5, <1>6, <1>7, <1>8 DEF Paid

\* An upgrade adds the cost of the new level.
LEMMA UpgradeSums ==
  ASSUME ShopSound, UpgradeEffect
  PROVE  Levelled' = Levelled + UpgradeCost[db[Stall] + 1]
<1> DEFINE l == db[Stall] + 1
<1>1. /\ db[Stall] \in StallLevels /\ db[Stall] < MaxLevel /\ db[Stall] \in Nat
      /\ db[Stall] >= 1 /\ l \in StallLevels /\ db'[Stall] = l
  BY NextSlot, CatalogAssumption DEF UpgradeEffect, ShopSound, ShopTypeOK, StallLevels
<1>2. 2..l = (2..db[Stall]) \cup {l} /\ l \notin 2..db[Stall]
  BY <1>1
<1>3. /\ IsFiniteSet(2..db[Stall])
      /\ \A x \in (2..db[Stall]) \cup {l} : UpgradeCost[x] \in Int
  BY <1>1, SumTypes, CatalogAssumption
<1>4. Total((2..db[Stall]) \cup {l}, UpgradeCost) = Levelled + UpgradeCost[l]
  <2> DEFINE S == 2..db[Stall]
  <2>1. IsFiniteSet(S) /\ l \notin S /\ \A x \in S \cup {l} : UpgradeCost[x] \in Int
    BY <1>2, <1>3
  <2> HIDE DEF S, l
  <2>2. Total(S \cup {l}, UpgradeCost) = Total(S, UpgradeCost) + UpgradeCost[l]
    BY <2>1, TotalAdd
  <2> QED  BY <2>2 DEF Levelled, S
<1>5. Levelled' = Total(2..l, UpgradeCost)
  BY <1>1 DEF Levelled
<1> QED  BY <1>2, <1>4, <1>5

\* A claimed quest adds its reward once.
LEMMA RewardSums ==
  ASSUME ShopSound, NEW q \in Quests, RewardEffect(q)
  PROVE  Rewards' = Rewards + QuestCoins[q] /\ Gems' = Gems + QuestGems[q]
<1>1. RewardsPaid' = RewardsPaid \cup {q} /\ q \notin RewardsPaid
  BY DEF RewardEffect, RewardsPaid, ShopSound, ShopTypeOK, QuestStates
<1>2. /\ IsFiniteSet(RewardsPaid)
      /\ \A x \in RewardsPaid \cup {q} : QuestCoins[x] \in Int /\ QuestGems[x] \in Int
  BY SumTypes
<1>3. /\ Total(RewardsPaid \cup {q}, QuestCoins) = Total(RewardsPaid, QuestCoins) + QuestCoins[q]
      /\ Total(RewardsPaid \cup {q}, QuestGems) = Total(RewardsPaid, QuestGems) + QuestGems[q]
  BY <1>1, <1>2, TotalAdd
<1> QED  BY <1>1, <1>3 DEF Rewards, Gems

-----------------------------------------------------------------------------
(* The ledgers.                                                             *)

LEMMA GoodsInit == ShopInit => GoodsLedger
<1> SUFFICES ASSUME ShopInit, NEW p \in Products
             PROVE  start.stock[p] + Total(Arrived(p), Units)
                    = db[Stock(p)] + Cardinality(OnSale(p)) + sold[p] + dumped[p]
  BY DEF GoodsLedger
<1>1. ShopSound
  BY SoundInit
<1>2. Arrived(p) = {} /\ OnSale(p) = {}
  BY InitialRows, CatalogAssumption
  DEF Arrived, OnSale, ImportRow, EmptySlot, NoSlot, SlotRow
<1>3. db[Stock(p)] = start.stock[p] /\ sold[p] = 0 /\ dumped[p] = 0
  BY InitialRows DEF ShopInit
<1>4. Total(Arrived(p), Units) = 0 /\ Cardinality(OnSale(p)) = 0
  BY <1>2, TotalEmpty, FS_EmptySet
<1>5. start.stock[p] \in Nat
  BY <1>1, SumTypes
<1> QED  BY <1>3, <1>4, <1>5

LEMMA GoodsStep == ShopSound /\ GoodsLedger /\ [ShopNext]_shopVars => GoodsLedger'
<1> SUFFICES ASSUME ShopSound, GoodsLedger, [ShopNext]_shopVars PROVE GoodsLedger'
  OBVIOUS
<1> DEFINE In(p) == Total(Arrived(p), Units)
           Shown(p) == Cardinality(OnSale(p))
<1>1. \A p \in Products : start.stock[p] + In(p) = db[Stock(p)] + Shown(p) + sold[p] + dumped[p]
  BY DEF GoodsLedger
<1>2. \A p \in Products : /\ start.stock[p] \in Nat /\ In(p) \in Nat /\ Shown(p) \in Nat
                          /\ db[Stock(p)] \in Nat /\ sold[p] \in Nat /\ dumped[p] \in Nat
  BY SumTypes DEF ShopSound, ShopTypeOK
<1>3. ASSUME start' = start,
             \A p \in Products : start.stock[p] + In(p)'
                                 = db'[Stock(p)] + Shown(p)' + sold'[p] + dumped'[p]
      PROVE  GoodsLedger'
  BY <1>3 DEF GoodsLedger
<1>4. ImportsKept => \A p \in Products : In(p)' = In(p)
  BY SumsKept
<1>5. SlotsKept => \A p \in Products : Shown(p)' = Shown(p)
  BY SumsKept
<1>6. \A p \in Products : IsFiniteSet(OnSale(p))
  BY SumTypes
<1>7. ASSUME NEW i \in SlotIds, NEW p \in Products, PlaceEffect(i, p)
      PROVE  GoodsLedger'
  <2>1. OnSale(p)' = OnSale(p) \cup {i} /\ i \notin OnSale(p)
        /\ \A x \in Products \ {p} : OnSale(x)' = OnSale(x)
    BY <1>7 DEF PlaceEffect, OnSale, SlotRow, ShopSound, SlotShape
  <2>2. Shown(p)' = Shown(p) + 1
    BY <1>6, <2>1, FS_AddElement
  <2>3. \A x \in Products \ {p} : Shown(x)' = Shown(x) /\ db'[Stock(x)] = db[Stock(x)]
    BY <1>7, <2>1 DEF PlaceEffect
  <2>4. /\ start' = start /\ sold' = sold /\ dumped' = dumped /\ ImportsKept
        /\ db'[Stock(p)] = db[Stock(p)] - 1
    BY <1>7 DEF PlaceEffect
  <2> HIDE DEF In, Shown
  <2>5. ASSUME NEW x \in Products
        PROVE  start.stock[x] + In(x)' = db'[Stock(x)] + Shown(x)' + sold'[x] + dumped'[x]
    <3>1. CASE x = p
      BY <1>1, <1>2, <1>4, <2>2, <2>4, <3>1
    <3>2. CASE x # p
      BY <1>1, <1>4, <2>3, <2>4, <3>2
    <3> QED  BY <3>1, <3>2
  <2> QED  BY <1>3, <2>4, <2>5
<1>8. ASSUME NEW i \in SlotIds, CollectEffect(i)
      PROVE  GoodsLedger'
  <2>1. PICK p \in Products : p = db[Slot(i)].product
    BY <1>8 DEF CollectEffect, ShopSound, SlotShape
  <2>2. OnSale(p)' = OnSale(p) \ {i} /\ i \in OnSale(p)
        /\ \A x \in Products \ {p} : OnSale(x)' = OnSale(x)
    BY <1>8, <2>1, CatalogAssumption DEF CollectEffect, OnSale, EmptySlot, SlotRow
  <2>3. /\ start' = start /\ sold' = [sold EXCEPT ![p] = @ + 1] /\ dumped' = dumped
        /\ ImportsKept /\ StocksKept
    BY <1>8, <2>1 DEF CollectEffect
  <2>4. Shown(p)' = Shown(p) - 1
    BY <1>6, <2>1, <2>2, FS_RemoveElement
  <2>5. \A x \in Products \ {p} : Shown(x)' = Shown(x)
    BY <2>2
  <2>6. sold'[p] = sold[p] + 1 /\ \A x \in Products \ {p} : sold'[x] = sold[x]
    <3>1. sold \in [Products -> Nat]
      BY DEF ShopSound, ShopTypeOK
    <3> QED  BY <2>3, <3>1
  <2> HIDE DEF In, Shown
  <2>7. ASSUME NEW x \in Products
        PROVE  start.stock[x] + In(x)' = db'[Stock(x)] + Shown(x)' + sold'[x] + dumped'[x]
    <3>1. db'[Stock(x)] = db[Stock(x)] /\ In(x)' = In(x)
      BY <1>4, <2>3 DEF StocksKept
    <3>2. CASE x = p
      <4>1. dumped'[p] = dumped[p] /\ start.stock[p] + In(p)
                                       = db[Stock(p)] + Shown(p) + sold[p] + dumped[p]
        BY <1>1, <2>3
      <4>2. /\ db[Stock(p)] \in Nat /\ Shown(p) \in Nat /\ sold[p] \in Nat /\ dumped[p] \in Nat
        BY <1>2
      <4> QED  BY <2>4, <2>6, <3>1, <3>2, <4>1, <4>2
    <3>3. CASE x # p
      BY <1>1, <2>3, <2>5, <2>6, <3>1, <3>3
    <3> QED  BY <3>2, <3>3
  <2> QED  BY <1>3, <2>3, <2>7
<1>9. ASSUME NEW o \in Orders, NEW p \in Products, NEW n \in Quantities, ImportEffect(o, p, n)
      PROVE  GoodsLedger'
  <2>1. \A x \in Products : In(x)' = In(x)
    BY <1>9, ImportSums
  <2>2. UNCHANGED <<sold, dumped, start>> /\ SlotsKept /\ StocksKept
    BY <1>9 DEF ImportEffect
  <2> HIDE DEF In, Shown
  <2> QED  BY <1>1, <1>3, <1>5, <2>1, <2>2 DEF StocksKept
<1>10. ASSUME NEW o \in Orders, ClaimEffect(o)
       PROVE  GoodsLedger'
  <2>0. PICK p \in Products : p = db[Import(o)].product
    BY <1>10 DEF ClaimEffect
  <2>4. PICK n \in Nat : n = db[Import(o)].qty
    BY DEF ShopSound, ShopTypeOK, ImportStates
  <2>1. /\ db'[Stock(p)] = db[Stock(p)] + n
        /\ \A x \in Products \ {p} : db'[Stock(x)] = db[Stock(x)]
        /\ UNCHANGED <<sold, dumped, start>> /\ SlotsKept
    BY <1>10, <2>0, <2>4 DEF ClaimEffect
  <2>2. Units' = Units /\ Total(Arrived(p), Units)' = Total(Arrived(p), Units) + n
        /\ \A x \in Products \ {p} : Arrived(x)' = Arrived(x)
    BY <1>10, <2>0, <2>4, ClaimSums
  <2>3. In(p)' = In(p) + n /\ \A x \in Products \ {p} : In(x)' = In(x)
    BY <2>2
  <2> HIDE DEF In, Shown
  <2>5. ASSUME NEW x \in Products
        PROVE  start.stock[x] + In(x)' = db'[Stock(x)] + Shown(x)' + sold'[x] + dumped'[x]
    <3>1. CASE x = p
      BY <1>1, <1>2, <1>5, <2>1, <2>3, <2>4, <3>1
    <3>2. CASE x # p
      BY <1>1, <1>5, <2>1, <2>3, <3>2
    <3> QED  BY <3>1, <3>2
  <2> QED  BY <1>3, <2>1, <2>5
<1>11. ASSUME NEW p \in Products, NEW n \in Quantities, SellEffect(p, n)
       PROVE  GoodsLedger'
  <2>1. /\ db[Stock(p)] >= n /\ db'[Stock(p)] = db[Stock(p)] - n
        /\ \A x \in Products \ {p} : db'[Stock(x)] = db[Stock(x)]
        /\ dumped' = [dumped EXCEPT ![p] = @ + n]
        /\ UNCHANGED <<sold, start>> /\ SlotsKept /\ ImportsKept
    BY <1>11 DEF SellEffect
  <2>2. n \in Nat /\ dumped \in [Products -> Nat]
    BY CatalogAssumption DEF ShopSound, ShopTypeOK
  <2> HIDE DEF In, Shown
  <2>3. ASSUME NEW x \in Products
        PROVE  start.stock[x] + In(x)' = db'[Stock(x)] + Shown(x)' + sold'[x] + dumped'[x]
    <3>1. CASE x = p
      BY <1>1, <1>2, <1>4, <1>5, <2>1, <2>2, <3>1
    <3>2. CASE x # p
      BY <1>1, <1>4, <1>5, <2>1, <2>2, <3>2
    <3> QED  BY <3>1, <3>2
  <2> QED  BY <1>3, <2>1, <2>3
<1>12. ASSUME UpgradeEffect
       PROVE  GoodsLedger'
  <2> DEFINE j == db[Stall] + 1 + BaseSlots
  <2>1. /\ db[Slot(j)].state = "none" /\ db'[Slot(j)] = EmptySlot
        /\ \A x \in SlotIds \ {j} : db'[Slot(x)] = db[Slot(x)]
        /\ UNCHANGED <<sold, dumped, start>> /\ StocksKept /\ ImportsKept
    BY <1>12 DEF UpgradeEffect
  <2> HIDE DEF j
  <2>2. \A i \in SlotIds, p \in Products : db'[Slot(i)].product = p <=> db[Slot(i)].product = p
    <3> TAKE i \in SlotIds, p \in Products
    <3>1. CASE i = j
      <4>1. db[Slot(i)].product # p
        BY <2>1, <3>1 DEF ShopSound, SlotShape
      <4>2. db'[Slot(i)].product # p
        BY <2>1, <3>1, CatalogAssumption DEF EmptySlot, SlotRow
      <4> QED  BY <4>1, <4>2
    <3>2. CASE i # j
      BY <2>1, <3>2
    <3> QED  BY <3>1, <3>2
  <2>3. \A p \in Products : OnSale(p)' = OnSale(p)
    BY <2>2 DEF OnSale
  <2>4. \A p \in Products : Shown(p)' = Shown(p)
    BY <2>3
  <2> HIDE DEF In, Shown
  <2> QED  BY <1>1, <1>3, <1>4, <2>1, <2>4 DEF StocksKept
<1>13. ASSUME UNCHANGED <<sold, dumped, start>>, SlotsKept, StocksKept, ImportsKept
       PROVE  GoodsLedger'
  <2> HIDE DEF In, Shown
  <2> QED  BY <1>1, <1>3, <1>4, <1>5, <1>13 DEF StocksKept
<1>14. ASSUME NEW q \in Quests, RewardEffect(q) PROVE GoodsLedger'
  BY <1>13, <1>14 DEF RewardEffect
<1>15. ASSUME NEW n \in NeighborXp, VisitEffect(n) PROVE GoodsLedger'
  BY <1>13, <1>15 DEF VisitEffect
<1>16. ASSUME ElapseEffect \/ UNCHANGED shopVars PROVE GoodsLedger'
  <2>1. SlotsKept /\ StocksKept /\ ImportsKept /\ UNCHANGED <<sold, dumped, start>>
    BY <1>16 DEF ElapseEffect, shopVars, SlotsKept, StocksKept, ImportsKept
  <2> QED  BY <1>13, <2>1
<1> QED  BY <1>7, <1>8, <1>9, <1>10, <1>11, <1>12, <1>14, <1>15, <1>16, Effects

\* Goods are neither made nor lost, whatever requests the player sends.
THEOREM GoodsBalance == ShopSpec => []GoodsLedger
BY GoodsInit, GoodsStep, ShopAlwaysSound, PTL DEF ShopSpec

LEMMA LedgerSums ==
  /\ CoinLedger <=>
       /\ db[Wallet].coins = start.wallet.coins + (Paid + Rewards) - (Spent + Levelled)
       /\ db[Wallet].gems = start.wallet.gems + Gems
  /\ CoinLedger' <=>
       /\ db'[Wallet].coins = start'.wallet.coins + (Paid' + Rewards') - (Spent' + Levelled')
       /\ db'[Wallet].gems = start'.wallet.gems + Gems'
BY DEF CoinLedger, Income, Expenses, Paid, Rewards, Spent, Levelled, Gems

LEMMA CoinInit == ShopInit => CoinLedger
<1> SUFFICES ASSUME ShopInit PROVE CoinLedger
  OBVIOUS
<1>1. ShopSound
  BY SoundInit
<1>2. Bought = {} /\ RewardsPaid = {} /\ 2..db[Stall] = {}
  BY InitialRows DEF Bought, RewardsPaid, ImportRow, QuestRow
<1>3. Spent = 0 /\ Rewards = 0 /\ Gems = 0 /\ Levelled = 0
  BY <1>2, TotalEmpty DEF Spent, Rewards, Gems, Levelled
<1>4. Paid = 0
  <2>1. \A p \in Products : sold[p] = 0 /\ dumped[p] = 0
    BY DEF ShopInit
  <2>2. ASSUME NEW p \in Products PROVE Revenue[p] = 0
    <3>1. Revenue[p] = 0 * SellPrice[p] + 0 * FastPrice(p)
      BY <2>1 DEF Revenue
    <3> QED  BY <3>1, PriceTypes
  <2>4. Total(Products, Revenue) = 0
    BY <2>2, CatalogAssumption, TotalZero
  <2> QED  BY <2>4 DEF Paid
<1>5. start.wallet.coins \in Nat /\ start.wallet.gems \in Nat /\ db[Wallet] = start.wallet
  BY <1>1, SumTypes, InitialRows
<1> QED  BY <1>3, <1>4, <1>5, LedgerSums

LEMMA CoinStep == ShopSound /\ CoinLedger /\ [ShopNext]_shopVars => CoinLedger'
<1> SUFFICES ASSUME ShopSound, CoinLedger, [ShopNext]_shopVars PROVE CoinLedger'
  OBVIOUS
<1> DEFINE b == start.wallet.coins
           w == db[Wallet].coins
<1>1. /\ w = b + (Paid + Rewards) - (Spent + Levelled)
      /\ db[Wallet].gems = start.wallet.gems + Gems
  BY LedgerSums
<1>2. /\ Paid \in Nat /\ Rewards \in Nat /\ Gems \in Nat /\ Spent \in Nat /\ Levelled \in Nat
      /\ b \in Nat /\ start.wallet.gems \in Nat
  BY SumTypes
<1>3. db[Wallet] \in [coins : Nat, gems : Nat]
  BY DEF ShopSound, ShopTypeOK
<1>4. ImportsKept => Spent' = Spent
  BY SumsKept DEF Spent
<1>5. UNCHANGED <<sold, dumped>> => Paid' = Paid
  BY SumsKept DEF Paid
<1>6. \A target : \A n \in Nat : QuestsCounted(target, n) => Rewards' = Rewards /\ Gems' = Gems
  BY RewardsKept DEF Rewards, Gems
<1>7. QuestsKept => Rewards' = Rewards /\ Gems' = Gems
  BY SumsKept DEF Rewards, Gems
<1>8. db'[Stall] = db[Stall] => Levelled' = Levelled
  BY DEF Levelled
<1>9. ASSUME NEW i \in SlotIds, NEW p \in Products, PlaceEffect(i, p)
      PROVE  CoinLedger'
  BY <1>1, <1>4, <1>5, <1>6, <1>8, <1>9, LedgerSums DEF PlaceEffect
<1>10. ASSUME NEW i \in SlotIds, CollectEffect(i)
       PROVE  CoinLedger'
  <2>1. PICK n \in Nat : n = db[Slot(i)].revenue
    BY DEF ShopSound, ShopTypeOK, SlotStates
  <2>2. Paid' = Paid + n
    BY <1>10, <2>1, CollectSums
  <2>3. /\ db'[Wallet].coins = w + n /\ db'[Wallet].gems = db[Wallet].gems
        /\ start' = start /\ ImportsKept /\ QuestsCounted("COLLECT_REVENUE", 1)
        /\ db'[Stall] = db[Stall]
    BY <1>3, <1>10, <2>1 DEF CollectEffect
  <2>4. Rewards' = Rewards /\ Gems' = Gems /\ Spent' = Spent /\ Levelled' = Levelled
    BY <1>4, <1>6, <1>8, <2>3
  <2>5. db'[Wallet].coins = b + (Paid' + Rewards') - (Spent' + Levelled')
    BY <1>1, <1>2, <2>2, <2>3, <2>4
  <2> QED  BY <1>1, <2>3, <2>4, <2>5, LedgerSums
<1>11. ASSUME NEW o \in Orders, NEW p \in Products, NEW n \in Quantities, ImportEffect(o, p, n)
       PROVE  CoinLedger'
  <2> DEFINE cost == n * ImportPrice[p]
  <2>1. n \in Nat /\ cost \in Nat
    BY CatalogAssumption, PriceTypes, ProductNat
  <2>2. Spent' = Spent + cost
    BY <1>11, ImportSums
  <2>3. /\ db'[Wallet] = [db[Wallet] EXCEPT !.coins = @ - cost]
        /\ UNCHANGED <<sold, dumped, start>> /\ QuestsCounted("IMPORT_PRODUCT", n)
        /\ db'[Stall] = db[Stall]
    BY <1>11 DEF ImportEffect
  <2> HIDE DEF cost
  <2>4. db'[Wallet].coins = w - cost /\ db'[Wallet].gems = db[Wallet].gems
    BY <1>3, <2>3
  <2>5. Rewards' = Rewards /\ Gems' = Gems /\ Paid' = Paid /\ Levelled' = Levelled
    BY <1>5, <1>6, <1>8, <2>1, <2>3
  <2>6. db'[Wallet].coins = b + (Paid' + Rewards') - (Spent' + Levelled')
    BY <1>1, <1>2, <2>1, <2>2, <2>4, <2>5
  <2> QED  BY <1>1, <2>3, <2>4, <2>5, <2>6, LedgerSums
<1>12. ASSUME NEW o \in Orders, ClaimEffect(o)
       PROVE  CoinLedger'
  <2>1. PICK p \in Products : p = db[Import(o)].product
    BY <1>12 DEF ClaimEffect
  <2>2. Spent' = Spent
    BY <1>12, <2>1, ClaimSums DEF Spent
  <2> QED  BY <1>1, <1>5, <1>7, <1>8, <1>12, <2>2, LedgerSums DEF ClaimEffect
<1>13. ASSUME NEW p \in Products, NEW n \in Quantities, SellEffect(p, n)
       PROVE  CoinLedger'
  <2> DEFINE paid == FastPrice(p) * n
  <2>1. n \in Nat /\ paid \in Nat
    BY CatalogAssumption, PriceTypes, ProductNat
  <2>2. Paid' = Paid + paid
    BY <1>13, SellSums
  <2>3. /\ db'[Wallet] = [db[Wallet] EXCEPT !.coins = @ + paid]
        /\ start' = start /\ ImportsKept /\ QuestsCounted("COLLECT_REVENUE", paid \div 10)
        /\ db'[Stall] = db[Stall]
    BY <1>13 DEF SellEffect
  <2> HIDE DEF paid
  <2>4. db'[Wallet].coins = w + paid /\ db'[Wallet].gems = db[Wallet].gems
    BY <1>3, <2>3
  <2>5. paid \div 10 \in Nat
    BY <2>1
  <2>6. Rewards' = Rewards /\ Gems' = Gems /\ Spent' = Spent /\ Levelled' = Levelled
    BY <1>4, <1>6, <1>8, <2>3, <2>5
  <2>7. db'[Wallet].coins = b + (Paid' + Rewards') - (Spent' + Levelled')
    BY <1>1, <1>2, <2>1, <2>2, <2>4, <2>6
  <2> QED  BY <1>1, <2>3, <2>4, <2>6, <2>7, LedgerSums
<1>14. ASSUME UpgradeEffect
       PROVE  CoinLedger'
  <2>1. PICK cost \in Nat : cost = UpgradeCost[db[Stall] + 1]
    <3>1. db[Stall] + 1 \in StallLevels
      BY <1>14, NextSlot DEF UpgradeEffect, ShopSound, ShopTypeOK
    <3> QED  BY <3>1, CatalogAssumption
  <2>2. Levelled' = Levelled + cost
    BY <1>14, <2>1, UpgradeSums
  <2>3. /\ db'[Wallet].coins = w - cost /\ db'[Wallet].gems = db[Wallet].gems
        /\ UNCHANGED <<sold, dumped, start>> /\ ImportsKept /\ QuestsCounted("UPGRADE_STALL", 1)
    BY <1>3, <1>14, <2>1 DEF UpgradeEffect
  <2>4. Rewards' = Rewards /\ Gems' = Gems /\ Paid' = Paid /\ Spent' = Spent
    BY <1>4, <1>5, <1>6, <2>3
  <2>5. db'[Wallet].coins = b + (Paid' + Rewards') - (Spent' + Levelled')
    BY <1>1, <1>2, <2>2, <2>3, <2>4
  <2> QED  BY <1>1, <2>3, <2>4, <2>5, LedgerSums
<1>15. ASSUME NEW q \in Quests, RewardEffect(q)
       PROVE  CoinLedger'
  <2>1. QuestCoins[q] \in Nat /\ QuestGems[q] \in Nat
    BY SumTypes
  <2>2. Rewards' = Rewards + QuestCoins[q] /\ Gems' = Gems + QuestGems[q]
    BY <1>15, RewardSums
  <2>3. /\ db'[Wallet].coins = w + QuestCoins[q]
        /\ db'[Wallet].gems = db[Wallet].gems + QuestGems[q]
        /\ UNCHANGED <<sold, dumped, start>> /\ ImportsKept /\ db'[Stall] = db[Stall]
    BY <1>15 DEF RewardEffect
  <2>4. Spent' = Spent /\ Paid' = Paid /\ Levelled' = Levelled
    BY <1>4, <1>5, <1>8, <2>3
  <2>5. db'[Wallet].coins = b + (Paid' + Rewards') - (Spent' + Levelled')
    BY <1>1, <1>2, <2>1, <2>2, <2>3, <2>4
  <2>6. db'[Wallet].gems = start.wallet.gems + Gems'
    BY <1>1, <1>2, <2>1, <2>2, <2>3
  <2> QED  BY <2>3, <2>5, <2>6, LedgerSums
<1>16. ASSUME NEW n \in NeighborXp, VisitEffect(n) PROVE CoinLedger'
  BY <1>1, <1>4, <1>5, <1>7, <1>8, <1>16, LedgerSums DEF VisitEffect
<1>17. ASSUME ElapseEffect \/ UNCHANGED shopVars PROVE CoinLedger'
  <2>1. QuestsKept /\ ImportsKept /\ UNCHANGED <<db, sold, dumped, start>>
    BY <1>17 DEF ElapseEffect, shopVars, QuestsKept, ImportsKept
  <2> QED  BY <1>1, <1>4, <1>5, <1>7, <1>8, <2>1, LedgerSums
<1> QED  BY <1>9, <1>10, <1>11, <1>12, <1>13, <1>14, <1>15, <1>16, <1>17, Effects

\* No coin and no gem is made or lost, whatever requests the player sends.
THEOREM CoinBalance == ShopSpec => []CoinLedger
BY CoinInit, CoinStep, ShopAlwaysSound, PTL DEF ShopSpec

-----------------------------------------------------------------------------
(* The quests count what the player did.                                    *)

\* What q counts.
Done(q) ==
  CASE TargetType[q] = "IMPORT_PRODUCT" -> Ordered
    [] TargetType[q] = "UPGRADE_STALL" -> db[Stall] - 1
    [] OTHER -> db[Quest(q)].progress

Follows(q, done) ==
  /\ db[Quest(q)].progress = IF done < TargetValue[q] THEN done ELSE TargetValue[q]
  /\ db[Quest(q)].status = "active" <=> db[Quest(q)].progress < TargetValue[q]

LEMMA CountOfQuests ==
  /\ QuestsCount <=> \A q \in Quests : Follows(q, Done(q))
  /\ QuestsCount' <=> \A q \in Quests : Follows(q, Done(q))'
BY DEF QuestsCount, Follows, Done, Ordered

LEMMA DoneTypes ==
  ASSUME ShopSound, NEW q \in Quests
  PROVE  /\ Done(q) \in Nat
         /\ db[Quest(q)] \in QuestStates
         /\ TargetValue[q] \in Nat \ {0}
<1>1. Ordered \in Nat
  BY SumTypes
<1>2. db[Stall] - 1 \in Nat
  BY CatalogAssumption DEF ShopSound, ShopTypeOK, StallLevels
<1>3. db[Quest(q)] \in QuestStates /\ db[Quest(q)].progress \in Nat
  BY DEF ShopSound, ShopTypeOK, QuestStates
<1> QED  BY <1>1, <1>2, <1>3, RewardAssumption DEF Done

\* A quest whose row is unchanged follows what it counts as long as that is unchanged.
LEMMA FollowsKept ==
  ASSUME ShopSound, QuestsCount, NEW q \in Quests,
         db'[Quest(q)].progress = db[Quest(q)].progress,
         db'[Quest(q)].status = "active" <=> db[Quest(q)].status = "active",
         Ordered' = Ordered, db'[Stall] = db[Stall]
  PROVE  Follows(q, Done(q))'
BY CountOfQuests DEF Follows, Done

\* One that counts follows it when that grows by what the step counts.
LEMMA FollowsCounted ==
  ASSUME ShopSound, QuestsCount, NEW target, NEW n \in Nat, QuestsCounted(target, n),
         Ordered' = IF target = "IMPORT_PRODUCT" THEN Ordered + n ELSE Ordered,
         db'[Stall] = IF target = "UPGRADE_STALL" THEN db[Stall] + n ELSE db[Stall]
  PROVE  QuestsCount'
<1> SUFFICES ASSUME NEW q \in Quests PROVE Follows(q, Done(q))'
  BY CountOfQuests
<1>1. /\ Done(q) \in Nat /\ db[Quest(q)] \in QuestStates /\ TargetValue[q] \in Nat \ {0}
      /\ Follows(q, Done(q))
  BY DoneTypes, CountOfQuests
<1>2. db'[Quest(q)] = Counted(db, target, n, q)
  BY DEF QuestsCounted
<1> DEFINE r == db[Quest(q)]
           v == TargetValue[q]
<1>3. r.progress \in Nat /\ v \in Nat /\ v > 0
  BY <1>1 DEF QuestStates
<1>4. CASE TargetType[q] # target
  <2>1. db'[Quest(q)] = r
    BY <1>2, <1>4 DEF Counted
  <2>2. Done(q)' = Done(q)
    BY <1>4, <2>1 DEF Done
  <2> QED  BY <1>1, <2>1, <2>2 DEF Follows
<1>5. CASE TargetType[q] = target /\ r.status # "active"
  <2>1. db'[Quest(q)] = r
    BY <1>2, <1>5 DEF Counted
  <2>2. r.progress = v /\ Done(q) >= v
    BY <1>1, <1>3, <1>5 DEF Follows
  <2>3. Done(q)' >= v
    <3>1. CASE target = "IMPORT_PRODUCT"
      <4>1. Done(q) = Ordered /\ Done(q)' = Ordered + n
        BY <1>5, <3>1 DEF Done
      <4> QED  BY <1>1, <1>3, <2>2, <4>1
    <3>2. CASE target = "UPGRADE_STALL"
      <4>1. Done(q) = db[Stall] - 1 /\ Done(q)' = db'[Stall] - 1
        BY <1>5, <3>2 DEF Done
      <4>2. db[Stall] \in Nat
        BY CatalogAssumption DEF ShopSound, ShopTypeOK, StallLevels
      <4>3. db'[Stall] = db[Stall] + n
        BY <3>2
      <4> QED  BY <1>1, <1>3, <2>2, <4>1, <4>2, <4>3
    <3>3. CASE target # "IMPORT_PRODUCT" /\ target # "UPGRADE_STALL"
      <4>1. Done(q)' = r.progress
        BY <1>5, <2>1, <3>3 DEF Done
      <4> QED  BY <1>3, <2>2, <4>1
    <3> QED  BY <3>1, <3>2, <3>3
  <2>4. Done(q)' \in Int
    <3>1. Ordered \in Nat /\ db[Stall] \in Int
      BY SumTypes, CatalogAssumption DEF ShopSound, ShopTypeOK, StallLevels
    <3>2. Ordered' \in Int /\ db'[Stall] - 1 \in Int /\ db'[Quest(q)].progress \in Int
      BY <1>3, <2>1, <3>1
    <3> QED  BY <3>2 DEF Done
  <2> QED  BY <1>1, <1>3, <1>5, <2>1, <2>2, <2>3, <2>4 DEF Follows
<1>6. CASE TargetType[q] = target /\ r.status = "active"
  <2>1. db'[Quest(q)] = Advanced(q, r, n)
    BY <1>2, <1>6 DEF Counted
  <2>2. r.progress = Done(q) /\ Done(q) < v
    BY <1>1, <1>3, <1>6 DEF Follows
  <2>3. /\ db'[Quest(q)].progress = IF r.progress + n >= v THEN v ELSE r.progress + n
        /\ db'[Quest(q)].status = "active" <=> ~ (r.progress + n >= v)
    BY <2>1 DEF Advanced, QuestRow
  <2>4. CASE target = "IMPORT_PRODUCT" \/ target = "UPGRADE_STALL"
    <3>1. Done(q)' = Done(q) + n
      <4>1. CASE target = "IMPORT_PRODUCT"
        BY <1>6, <4>1 DEF Done
      <4>2. CASE target = "UPGRADE_STALL"
        <5>1. Done(q) = db[Stall] - 1 /\ Done(q)' = db'[Stall] - 1
          BY <1>6, <4>2 DEF Done
        <5>2. db[Stall] \in Nat
          BY CatalogAssumption DEF ShopSound, ShopTypeOK, StallLevels
        <5>3. db'[Stall] = db[Stall] + n
          BY <4>2
        <5> QED  BY <5>1, <5>2, <5>3
      <4> QED  BY <2>4, <4>1, <4>2
    <3> QED  BY <1>1, <1>3, <2>2, <2>3, <3>1 DEF Follows
  <2>5. CASE target # "IMPORT_PRODUCT" /\ target # "UPGRADE_STALL"
    <3>1. Done(q)' = db'[Quest(q)].progress
      BY <1>6, <2>5 DEF Done
    <3> QED  BY <1>3, <2>3, <3>1 DEF Follows
  <2> QED  BY <2>4, <2>5
<1> QED  BY <1>4, <1>5, <1>6

LEMMA QuestsInit == ShopInit => QuestsCount
<1> SUFFICES ASSUME ShopInit, NEW q \in Quests PROVE Follows(q, Done(q))
  BY CountOfQuests
<1>1. Ordered = 0
  <2>1. Bought = {}
    BY InitialRows DEF Bought, ImportRow
  <2> QED  BY <2>1, TotalEmpty DEF Ordered
<1>2. db[Stall] = 1 /\ db[Quest(q)].progress = 0 /\ db[Quest(q)].status = "active"
  BY InitialRows DEF QuestRow
<1>3. Done(q) = 0
  BY <1>1, <1>2 DEF Done
<1>4. TargetValue[q] \in Nat \ {0}
  BY RewardAssumption
<1> QED  BY <1>2, <1>3, <1>4 DEF Follows

LEMMA QuestsStep == ShopSound /\ QuestsCount /\ [ShopNext]_shopVars => QuestsCount'
<1> SUFFICES ASSUME ShopSound, QuestsCount, [ShopNext]_shopVars PROVE QuestsCount'
  OBVIOUS
<1>1. ImportsKept => Ordered' = Ordered
  BY SumsKept DEF Ordered
<1>2. ASSUME QuestsKept, Ordered' = Ordered, db'[Stall] = db[Stall] PROVE QuestsCount'
  BY <1>2, FollowsKept, CountOfQuests DEF QuestsKept
<1>3. ASSUME NEW i \in SlotIds, NEW p \in Products, PlaceEffect(i, p) PROVE QuestsCount'
  BY <1>1, <1>3, FollowsCounted DEF PlaceEffect
<1>4. ASSUME NEW i \in SlotIds, CollectEffect(i) PROVE QuestsCount'
  BY <1>1, <1>4, FollowsCounted DEF CollectEffect
<1>5. ASSUME NEW o \in Orders, NEW p \in Products, NEW n \in Quantities, ImportEffect(o, p, n)
      PROVE  QuestsCount'
  <2>1. n \in Nat /\ Ordered' = Ordered + n
    BY <1>5, CatalogAssumption, ImportSums
  <2>2. QuestsCounted("IMPORT_PRODUCT", n) /\ db'[Stall] = db[Stall]
    BY <1>5 DEF ImportEffect
  <2> QED  BY <2>1, <2>2, FollowsCounted
<1>6. ASSUME NEW o \in Orders, ClaimEffect(o) PROVE QuestsCount'
  <2>1. PICK p \in Products : p = db[Import(o)].product
    BY <1>6 DEF ClaimEffect
  <2>2. Ordered' = Ordered
    BY <1>6, <2>1, ClaimSums DEF Ordered
  <2> QED  BY <1>2, <1>6, <2>2 DEF ClaimEffect
<1>7. ASSUME NEW p \in Products, NEW n \in Quantities, SellEffect(p, n) PROVE QuestsCount'
  <2>1. PICK k \in Nat : k = (FastPrice(p) * n) \div 10
    <3> DEFINE paid == FastPrice(p) * n
    <3>1. paid \in Nat
      BY CatalogAssumption, PriceTypes, ProductNat
    <3> HIDE DEF paid
    <3>2. paid \div 10 \in Nat
      BY <3>1
    <3> QED  BY <3>2 DEF paid
  <2>2. QuestsCounted("COLLECT_REVENUE", k) /\ ImportsKept /\ db'[Stall] = db[Stall]
    BY <1>7, <2>1 DEF SellEffect
  <2> QED  BY <1>1, <2>2, FollowsCounted
<1>8. ASSUME UpgradeEffect PROVE QuestsCount'
  <2>1. /\ QuestsCounted("UPGRADE_STALL", 1) /\ ImportsKept /\ db'[Stall] = db[Stall] + 1
    BY <1>8 DEF UpgradeEffect
  <2> QED  BY <1>1, <2>1, FollowsCounted
<1>9. ASSUME NEW q \in Quests, RewardEffect(q) PROVE QuestsCount'
  <2>1. ImportsKept /\ db'[Stall] = db[Stall]
    BY <1>9 DEF RewardEffect
  <2>2. db[Quest(q)].status # "active"
    <3>1. Follows(q, Done(q)) /\ db[Quest(q)] \in QuestStates /\ TargetValue[q] \in Nat
      BY CountOfQuests, DoneTypes
    <3>2. db[Quest(q)].progress \in Nat /\ db[Quest(q)].progress >= TargetValue[q]
      BY <1>9, <3>1 DEF RewardEffect, QuestStates
    <3> QED  BY <3>1, <3>2 DEF Follows
  <2>3. \A x \in Quests : /\ db'[Quest(x)].progress = db[Quest(x)].progress
                          /\ db'[Quest(x)].status = "active" <=> db[Quest(x)].status = "active"
    BY <1>9, <2>2 DEF RewardEffect, ShopSound, ShopTypeOK, QuestStates
  <2> QED  BY <1>1, <2>1, <2>3, FollowsKept, CountOfQuests
<1>10. ASSUME NEW n \in NeighborXp, VisitEffect(n) PROVE QuestsCount'
  BY <1>1, <1>2, <1>10 DEF VisitEffect
<1>11. ASSUME ElapseEffect \/ UNCHANGED shopVars PROVE QuestsCount'
  <2>1. QuestsKept /\ ImportsKept /\ db'[Stall] = db[Stall]
    BY <1>11 DEF ElapseEffect, shopVars, QuestsKept, ImportsKept
  <2> QED  BY <1>1, <1>2, <2>1
<1> QED  BY <1>3, <1>4, <1>5, <1>6, <1>7, <1>8, <1>9, <1>10, <1>11, Effects

\* A quest's progress is what its player did, capped at what the quest asks.
THEOREM QuestsFollow == ShopSpec => []QuestsCount
BY QuestsInit, QuestsStep, ShopAlwaysSound, PTL DEF ShopSpec

-----------------------------------------------------------------------------
(* The transactions.                                                        *)

\* Every row is a quest's or plain.
LEMMA RowKinds ==
  ASSUME NEW row \in Rows
  PROVE  Plain(row) \/ \E q \in Quests : row = Quest(q)
BY DEF Plain

LEMMA RequestCases ==
  ASSUME NEW r \in Requests
  PROVE  \/ \E i \in SlotIds, p \in Products : r = [op |-> "place", slot |-> i, product |-> p]
         \/ \E i \in SlotIds : r = [op |-> "collect", slot |-> i]
         \/ \E o \in Orders, p \in Products, n \in Quantities :
              r = [op |-> "import", order |-> o, product |-> p, qty |-> n]
         \/ \E o \in Orders : r = [op |-> "claim", order |-> o]
         \/ \E p \in Products, n \in Quantities : r = [op |-> "sell", product |-> p, qty |-> n]
         \/ r = [op |-> "upgrade"]
         \/ \E q \in Quests : r = [op |-> "reward", quest |-> q]
         \/ \E n \in NeighborXp : r = [op |-> "visit", gained |-> n]
BY DEF Requests

LEMMA PerformedIsNext ==
  ASSUME NEW r \in Requests, Perform(r)
  PROVE  ShopNext
BY RequestCases DEF ShopNext, PlaceProduct, CollectSlot, CreateImport, ClaimImport, FastSell,
   UpgradeStall, ClaimQuest, NeighborAction

\* A transaction owns the rows it has locked, and knows them as they are.
LocksOwned ==
  /\ request \in [Txns -> TxRequests \cup {NoRequest}]
  /\ DOMAIN seen = Txns
  /\ \A t \in Txns : /\ Held(t) \subseteq Rows
                     /\ ~Running(t) => Held(t) = {}
                     /\ \A row \in Held(t) : seen[t][row] = db[row]
  /\ \A t, u \in Txns : t # u => Held(t) \cap Held(u) = {}

TxSound == ShopSound /\ LocksOwned

LEMMA TxRequestCases ==
  ASSUME NEW r \in TxRequests
  PROVE  /\ r.op = "list" <=> r \in Lists
         /\ r \in Lists => r \notin Requests
         /\ r \notin Lists => r \in Requests
         /\ \/ r.op = "place" \/ r.op = "collect" \/ r.op = "import" \/ r.op = "claim"
            \/ r.op = "sell" \/ r.op = "upgrade" \/ r.op = "reward" \/ r.op = "visit"
            \/ r.op = "list"
<1>1. ASSUME r \in Lists PROVE r.op = "list"
  BY <1>1 DEF Lists
<1>2. ASSUME r \in Requests
      PROVE  \/ r.op = "place" \/ r.op = "collect" \/ r.op = "import" \/ r.op = "claim"
             \/ r.op = "sell" \/ r.op = "upgrade" \/ r.op = "reward" \/ r.op = "visit"
  BY <1>2 DEF Requests
<1> QED  BY <1>1, <1>2 DEF TxRequests

LEMMA ProgramShape ==
  ASSUME NEW r \in TxRequests, NEW m
  PROVE  \E n \in Nat : DOMAIN Program(r, m) = 1..n
<1>1. CASE r.op = "place"
  <2>1. Program(r, m) = PlaceRows(r.slot, r.product)
    BY <1>1 DEF Program
  <2> QED  BY <2>1 DEF PlaceRows
<1>2. CASE r.op = "collect"
  <2>1. Program(r, m) = CollectRows(r.slot, m)
    BY <1>2 DEF Program
  <2> QED  BY <2>1 DEF CollectRows
<1>3. CASE r.op = "import"
  <2>1. Program(r, m) = ImportRows(r.order)
    BY <1>3 DEF Program
  <2> QED  BY <2>1 DEF ImportRows
<1>4. CASE r.op = "claim"
  <2>1. Program(r, m) = ClaimRows(r.order, m)
    BY <1>4 DEF Program
  <2> QED  BY <2>1 DEF ClaimRows
<1>5. CASE r.op = "sell"
  <2>1. Program(r, m) = SellRows(r.product)
    BY <1>5 DEF Program
  <2> QED  BY <2>1 DEF SellRows
<1>6. CASE r.op = "upgrade"
  <2>1. Program(r, m) = UpgradeRows(m)
    BY <1>6 DEF Program
  <2> QED  BY <2>1 DEF UpgradeRows
<1>7. CASE r.op = "reward"
  <2>1. Program(r, m) = RewardRows(r.quest)
    BY <1>7 DEF Program
  <2> QED  BY <2>1 DEF RewardRows
<1>8. CASE r.op = "visit"
  <2>1. Program(r, m) = VisitRows
    BY <1>8 DEF Program
  <2> QED  BY <2>1 DEF VisitRows
<1>9. CASE r.op = "list"
  <2>1. Program(r, m) = ListRows(r.reset)
    BY <1>9 DEF Program
  <2> QED  BY <2>1 DEF ListRows
<1> QED  BY <1>1, <1>2, <1>3, <1>4, <1>5, <1>6, <1>7, <1>8, <1>9, TxRequestCases

LEMMA SmallestNumber ==
  ASSUME NEW K, K \subseteq Nat, K # {}
  PROVE  \E j \in K : \A i \in K : j <= i
<1> DEFINE R == {pair \in Nat \X Nat : pair[1] < pair[2]}
<1>1. IsWellFoundedOn(R, Nat)
  BY NatLessThanWellFounded DEF OpToRel
<1> HIDE DEF R
<1>2. PICK j \in K : \A i \in K : ~ (<<i, j>> \in R)
  BY <1>1, WFMin
<1>3. \A i \in K : ~ (i < j)
  BY <1>2 DEF R
<1> QED  BY <1>3

\* A transaction that wants no more rows has those of all its statements.
LEMMA AllLocked ==
  ASSUME NEW t, request[t] \in TxRequests, Wanted(t) = {}, NEW k \in Statements(t)
  PROVE  Program(request[t], seen[t])[k] \subseteq Held(t) \cup Skipped(request[t])
<1> DEFINE K == {j \in Statements(t) : Remaining(t, j) # {}}
<1>1. PICK n \in Nat : Statements(t) = 1..n
  BY ProgramShape DEF Statements
<1>2. ASSUME K # {} PROVE FALSE
  <2>1. K \subseteq Nat
    BY <1>1
  <2>2. PICK j \in K : \A i \in K : j <= i
    BY <1>2, <2>1, SmallestNumber
  <2>3. \A i \in 1..(j - 1) : Remaining(t, i) = {}
    BY <1>1, <2>1, <2>2
  <2>4. j \in Statements(t) /\ Remaining(t, j) \subseteq Wanted(t)
    BY <2>2, <2>3 DEF Wanted
  <2> QED  BY <2>2, <2>4
<1>3. Remaining(t, k) = {}
  BY <1>2
<1> QED  BY <1>3 DEF Remaining, Held

\* What a transaction that writes its rows leaves of db.
Merged(t, a) == [row \in Rows |-> IF row \in Held(t) THEN a[row] ELSE db[row]]

Idle == {Quest(q) : q \in {x \in Quests : db[Quest(x)].status # "active"}}

\* Of the operations that count for the quests: the rows they did not lock are
\* those they do not write.
LEMMA CountedMerge ==
  ASSUME TxSound, NEW t \in Txns, NEW a, NEW b, NEW W, NEW target, NEW n,
         IsMap(b), DOMAIN b = Rows, W \subseteq Held(t),
         QuestsOf(target) \subseteq Held(t) \cup Idle,
         \A row \in W : a[row] = b[row],
         \A row \in Held(t) \ W : Plain(row) => a[row] = seen[t][row],
         \A row \in Rows \ W : Plain(row) => b[row] = db[row],
         \A q \in Quests : Quest(q) \in Held(t) => a[Quest(q)] = Counted(seen[t], target, n, q),
         \A q \in Quests : b[Quest(q)] = Counted(db, target, n, q)
  PROVE  Merged(t, a) = b
<1>1. /\ Held(t) \subseteq Rows
      /\ \A row \in Held(t) : seen[t][row] = db[row]
  BY DEF TxSound, LocksOwned
<1>2. ASSUME NEW row \in Rows, Plain(row)
      PROVE  b[row] = IF row \in Held(t) THEN a[row] ELSE db[row]
  BY <1>1, <1>2
<1>3. ASSUME NEW q \in Quests, Quest(q) \in Held(t) PROVE a[Quest(q)] = b[Quest(q)]
  <2>1. seen[t][Quest(q)] = db[Quest(q)]
    BY <1>1, <1>3
  <2> QED  BY <1>3, <2>1 DEF Counted
<1>4. ASSUME NEW q \in Quests, Quest(q) \notin Held(t) PROVE b[Quest(q)] = db[Quest(q)]
  <2>1. CASE TargetType[q] # target
    BY <2>1 DEF Counted
  <2>2. CASE TargetType[q] = target
    <3>1. Quest(q) \in QuestsOf(target)
      BY <2>2 DEF QuestsOf
    <3>2. Quest(q) \in Idle
      BY <1>4, <3>1
    <3>3. db[Quest(q)].status # "active"
      BY <3>2, RowNames DEF Idle
    <3> QED  BY <3>3 DEF Counted
  <2> QED  BY <2>1, <2>2
<1>5. ASSUME NEW row \in Rows
      PROVE  b[row] = IF row \in Held(t) THEN a[row] ELSE db[row]
  BY <1>2, <1>3, <1>4, RowKinds
<1> QED  BY <1>5 DEF Merged, IsMap

\* Of the others.
LEMMA PlainMerge ==
  ASSUME TxSound, NEW t \in Txns, NEW a, NEW b, NEW W,
         IsMap(b), DOMAIN b = Rows, W \subseteq Held(t),
         \A row \in W : a[row] = b[row],
         \A row \in Held(t) \ W : a[row] = seen[t][row],
         \A row \in Rows \ W : b[row] = db[row]
  PROVE  Merged(t, a) = b
<1>1. \A row \in Held(t) : row \in Rows /\ seen[t][row] = db[row]
  BY DEF TxSound, LocksOwned
<1>2. \A row \in Rows : b[row] = IF row \in Held(t) THEN a[row] ELSE db[row]
  BY <1>1
<1> QED  BY <1>2 DEF Merged, IsMap

\* A commit is the operation performed on the committed rows.
LEMMA CommitPerforms ==
  ASSUME TxSound, NEW t \in Txns, Commit(t)
  PROVE  request[t] \in Requests /\ Perform(request[t])
<1>1. /\ request[t] \in Requests /\ Allowed(request[t], seen[t]) /\ Wanted(t) = {}
      /\ db' = Merged(t, After(request[t], seen[t]))
      /\ Recorded(request[t], seen[t])
  BY DEF Commit, Accepted, Merged
<1>2. /\ Held(t) = DOMAIN seen[t] /\ Held(t) \subseteq Rows /\ DOMAIN db = Rows
      /\ \A row \in Held(t) : seen[t][row] = db[row]
  BY DEF Held, TxSound, LocksOwned, ShopSound, ShopTypeOK
<1>3. \A k \in Statements(t) :
        Program(request[t], seen[t])[k] \subseteq Held(t) \cup Skipped(request[t])
  BY <1>1, AllLocked DEF TxRequests
<1>4. \A row \in Skipped(request[t]) : ~Plain(row)
  BY DEF Skipped, Plain
<1>5. request[t].op # "reward" => Skipped(request[t]) = Idle
  BY <1>1, TxRequestCases DEF Skipped, Idle, TxRequests
<1>6. ASSUME NEW i \in SlotIds, NEW p \in Products,
             request[t] = [op |-> "place", slot |-> i, product |-> p]
      PROVE  Perform(request[t])
  <2>1. Program(request[t], seen[t]) = PlaceRows(i, p)
    BY <1>6 DEF Program
  <2>2. Statements(t) = 1..4
    BY <2>1 DEF Statements, PlaceRows
  <2>3. /\ {Slot(i)} \subseteq Held(t) \cup Skipped(request[t])
        /\ {Stock(p)} \subseteq Held(t) \cup Skipped(request[t])
        /\ {Stall} \subseteq Held(t) \cup Skipped(request[t])
        /\ QuestsOf("PLACE_PRODUCT") \subseteq Held(t) \cup Skipped(request[t])
    BY <1>3, <2>1, <2>2 DEF PlaceRows
  <2>4. Slot(i) \in Held(t) /\ Stock(p) \in Held(t) /\ Stall \in Held(t)
    BY <1>4, <2>3, PlainRows
  <2>5. QuestsOf("PLACE_PRODUCT") \subseteq Held(t) \cup Idle
    BY <1>5, <1>6, <2>3
  <2>6. MayPlace(db, i, p)
    BY <1>1, <1>2, <1>6, <2>4 DEF Allowed, MayPlace
  <2> DEFINE a == Placed(seen[t], i, p)
             b == Placed(db, i, p)
             W == {Stock(p), Slot(i)}
  <2>7. /\ DOMAIN a = Held(t) /\ IsMap(b) /\ DOMAIN b = Rows
        /\ a[Stock(p)] = seen[t][Stock(p)] - 1 /\ b[Stock(p)] = db[Stock(p)] - 1
        /\ a[Slot(i)] = SlotRow("selling", p, SellPrice[p])
        /\ b[Slot(i)] = SlotRow("selling", p, SellPrice[p])
        /\ \A row \in Held(t) \ W : Plain(row) => a[row] = seen[t][row]
        /\ \A row \in Rows \ W : Plain(row) => b[row] = db[row]
        /\ \A q \in Quests : Quest(q) \in Held(t)
             => a[Quest(q)] = Counted(seen[t], "PLACE_PRODUCT", 1, q)
        /\ \A q \in Quests : b[Quest(q)] = Counted(db, "PLACE_PRODUCT", 1, q)
    BY <1>2, <2>4, PlacedRows, RowsOf
  <2> HIDE DEF a, b
  <2>8. Merged(t, a) = b
    <3>1. \A row \in W : a[row] = b[row]
      BY <1>2, <2>4, <2>7
    <3>2. W \subseteq Held(t)
      BY <2>4
    <3> HIDE DEF W
    <3> QED  BY <2>5, <2>7, <3>1, <3>2, CountedMerge
  <2>9. db' = b /\ After(request[t], db) = b
    BY <1>1, <1>6, <2>8 DEF After, a, b
  <2>10. Recorded(request[t], db)
    BY <1>1, <1>6 DEF Recorded
  <2>11. Allowed(request[t], db)
    BY <1>6, <2>6 DEF Allowed
  <2> QED  BY <2>9, <2>10, <2>11 DEF Perform
<1>7. ASSUME NEW i \in SlotIds, request[t] = [op |-> "collect", slot |-> i]
      PROVE  Perform(request[t])
  <2>1. Program(request[t], seen[t]) = CollectRows(i, seen[t])
    BY <1>7 DEF Program
  <2>2. Statements(t) = 1..5
    BY <2>1 DEF Statements, CollectRows
  <2>3. /\ {Slot(i)} \subseteq Held(t) \cup Skipped(request[t])
        /\ {Wallet} \subseteq Held(t) \cup Skipped(request[t])
        /\ {User} \subseteq Held(t) \cup Skipped(request[t])
        /\ QuestsOf("COLLECT_REVENUE") \subseteq Held(t) \cup Skipped(request[t])
    BY <1>3, <2>1, <2>2 DEF CollectRows
  <2>4. Slot(i) \in Held(t) /\ Wallet \in Held(t) /\ User \in Held(t)
    BY <1>4, <2>3, PlainRows
  <2>5. QuestsOf("COLLECT_REVENUE") \subseteq Held(t) \cup Idle
    BY <1>5, <1>7, <2>3
  <2>6. MayCollect(db, i)
    BY <1>1, <1>2, <1>7, <2>4 DEF Allowed, MayCollect
  <2> DEFINE a == Collected(seen[t], i)
             b == Collected(db, i)
             W == {Slot(i), User, Wallet}
  <2>7. /\ DOMAIN a = Held(t) /\ IsMap(b) /\ DOMAIN b = Rows
        /\ a[Slot(i)] = EmptySlot /\ b[Slot(i)] = EmptySlot
        /\ a[User] = WithXp(seen[t][User], CollectXp)
        /\ b[User] = WithXp(db[User], CollectXp)
        /\ a[Wallet] = [seen[t][Wallet] EXCEPT !.coins = @ + seen[t][Slot(i)].revenue]
        /\ b[Wallet] = [db[Wallet] EXCEPT !.coins = @ + db[Slot(i)].revenue]
        /\ \A row \in Held(t) \ W : Plain(row) => a[row] = seen[t][row]
        /\ \A row \in Rows \ W : Plain(row) => b[row] = db[row]
        /\ \A q \in Quests : Quest(q) \in Held(t)
             => a[Quest(q)] = Counted(seen[t], "COLLECT_REVENUE", 1, q)
        /\ \A q \in Quests : b[Quest(q)] = Counted(db, "COLLECT_REVENUE", 1, q)
    BY <1>2, <2>4, CollectedRows, RowsOf
  <2> HIDE DEF a, b
  <2>8. Merged(t, a) = b
    <3>1. \A row \in W : a[row] = b[row]
      BY <1>2, <2>4, <2>7
    <3>2. W \subseteq Held(t)
      BY <2>4
    <3> HIDE DEF W
    <3> QED  BY <2>5, <2>7, <3>1, <3>2, CountedMerge
  <2>9. db' = b /\ After(request[t], db) = b
    BY <1>1, <1>7, <2>8 DEF After, a, b
  <2>10. Recorded(request[t], db)
    <3>1. seen[t][Slot(i)] = db[Slot(i)]
      BY <1>2, <2>4
    <3>2. /\ sold' = [sold EXCEPT ![seen[t][Slot(i)].product] = @ + 1]
          /\ dumped' = dumped /\ due' = due \ {Slot(i)} /\ start' = start
      BY <1>1, <1>7 DEF Recorded
    <3> DEFINE s == [sold EXCEPT ![db[Slot(i)].product] = @ + 1]
    <3>3. sold' = s
      BY <3>1, <3>2
    <3>4. request[t].op = "collect" /\ request[t].slot = i
      BY <1>7
    <3>5. Recorded(request[t], db) <=>
            /\ sold' = s /\ dumped' = dumped /\ due' = due \ {Slot(i)} /\ start' = start
      BY <3>4 DEF Recorded
    <3> HIDE DEF s
    <3> QED  BY <3>2, <3>3, <3>5
  <2>11. Allowed(request[t], db)
    BY <1>7, <2>6 DEF Allowed
  <2> QED  BY <2>9, <2>10, <2>11 DEF Perform
<1>8. ASSUME NEW o \in Orders, NEW p \in Products, NEW n \in Quantities,
             request[t] = [op |-> "import", order |-> o, product |-> p, qty |-> n]
      PROVE  Perform(request[t])
  <2>1. Program(request[t], seen[t]) = ImportRows(o)
    BY <1>8 DEF Program
  <2>2. Statements(t) = 1..4
    BY <2>1 DEF Statements, ImportRows
  <2>3. /\ {User} \subseteq Held(t) \cup Skipped(request[t])
        /\ {Wallet} \subseteq Held(t) \cup Skipped(request[t])
        /\ {Import(o)} \subseteq Held(t) \cup Skipped(request[t])
        /\ QuestsOf("IMPORT_PRODUCT") \subseteq Held(t) \cup Skipped(request[t])
    BY <1>3, <2>1, <2>2 DEF ImportRows
  <2>4. User \in Held(t) /\ Wallet \in Held(t) /\ Import(o) \in Held(t)
    BY <1>4, <2>3, PlainRows
  <2>5. QuestsOf("IMPORT_PRODUCT") \subseteq Held(t) \cup Idle
    BY <1>5, <1>8, <2>3
  <2>6. MayImport(db, o, p, n)
    <3>1. MayImport(seen[t], o, p, n)
      BY <1>1, <1>8 DEF Allowed
    <3>2. /\ seen[t][User] = db[User] /\ seen[t][Wallet] = db[Wallet]
          /\ seen[t][Import(o)] = db[Import(o)]
      BY <1>2, <2>4
    <3> QED  BY <1>2, <2>4, <3>1, <3>2 DEF MayImport
  <2> DEFINE a == Imported(seen[t], o, p, n)
             b == Imported(db, o, p, n)
             W == {Wallet, Import(o)}
  <2>7. /\ DOMAIN a = Held(t) /\ IsMap(b) /\ DOMAIN b = Rows
        /\ a[Wallet] = [seen[t][Wallet] EXCEPT !.coins = @ - n * ImportPrice[p]]
        /\ b[Wallet] = [db[Wallet] EXCEPT !.coins = @ - n * ImportPrice[p]]
        /\ a[Import(o)] = ImportRow("pending", p, n) /\ b[Import(o)] = ImportRow("pending", p, n)
        /\ \A row \in Held(t) \ W : Plain(row) => a[row] = seen[t][row]
        /\ \A row \in Rows \ W : Plain(row) => b[row] = db[row]
        /\ \A q \in Quests : Quest(q) \in Held(t)
             => a[Quest(q)] = Counted(seen[t], "IMPORT_PRODUCT", n, q)
        /\ \A q \in Quests : b[Quest(q)] = Counted(db, "IMPORT_PRODUCT", n, q)
    BY <1>2, <2>4, ImportedRows, RowsOf
  <2> HIDE DEF a, b
  <2>8. Merged(t, a) = b
    <3>1. \A row \in W : a[row] = b[row]
      <4> DEFINE cost == n * ImportPrice[p]
      <4>1. /\ a[Wallet] = [seen[t][Wallet] EXCEPT !.coins = @ - cost]
            /\ b[Wallet] = [db[Wallet] EXCEPT !.coins = @ - cost]
        BY <2>7
      <4> HIDE DEF cost
      <4>2. a[Wallet] = b[Wallet]
        BY <1>2, <2>4, <4>1
      <4> QED  BY <2>7, <4>2
    <3>2. W \subseteq Held(t)
      BY <2>4
    <3> HIDE DEF W
    <3> QED  BY <2>5, <2>7, <3>1, <3>2, CountedMerge
  <2>9. db' = b /\ After(request[t], db) = b
    BY <1>1, <1>8, <2>8 DEF After, a, b
  <2>10. Recorded(request[t], db)
    BY <1>1, <1>8 DEF Recorded
  <2>11. Allowed(request[t], db)
    BY <1>8, <2>6 DEF Allowed
  <2> QED  BY <2>9, <2>10, <2>11 DEF Perform
<1>9. ASSUME NEW o \in Orders, request[t] = [op |-> "claim", order |-> o]
      PROVE  Perform(request[t])
  <2>1. Program(request[t], seen[t]) = ClaimRows(o, seen[t])
    BY <1>9 DEF Program
  <2>2. Statements(t) = 1..2
    BY <2>1 DEF Statements, ClaimRows
  <2>3. {Import(o)} \subseteq Held(t) \cup Skipped(request[t])
    BY <1>3, <2>1, <2>2 DEF ClaimRows
  <2>4. Import(o) \in Held(t)
    BY <1>4, <2>3, PlainRows
  <2> DEFINE p == seen[t][Import(o)].product
  <2>5. {Stock(p)} \subseteq Held(t) \cup Skipped(request[t])
    BY <1>2, <1>3, <2>1, <2>2, <2>4 DEF ClaimRows
  <2>6. Stock(p) \in Held(t) /\ db[Import(o)] = seen[t][Import(o)]
    BY <1>2, <1>4, <2>4, <2>5, PlainRows
  <2>7. MayClaim(db, o)
    BY <1>1, <1>2, <1>9, <2>4 DEF Allowed, MayClaim
  <2> DEFINE a == Claimed(seen[t], o)
             b == Claimed(db, o)
             W == {Import(o), Stock(p)}
  <2>8. /\ DOMAIN a = Held(t)
        /\ a[Import(o)] = [seen[t][Import(o)] EXCEPT !.status = "claimed"]
        /\ a[Stock(p)] = seen[t][Stock(p)] + seen[t][Import(o)].qty
        /\ \A row \in Held(t) \ W : a[row] = seen[t][row]
    BY <1>2, <2>4, <2>6, ClaimedRows
  <2>9. /\ IsMap(b) /\ DOMAIN b = Rows
        /\ b[Import(o)] = [db[Import(o)] EXCEPT !.status = "claimed"]
        /\ b[Stock(p)] = db[Stock(p)] + db[Import(o)].qty
        /\ \A row \in Rows \ W : b[row] = db[row]
    <3>1. Import(o) \in DOMAIN db /\ Stock(db[Import(o)].product) \in DOMAIN db
      BY <1>2, <2>4, <2>6
    <3> QED  BY <1>2, <2>6, <3>1, ClaimedRows
  <2> HIDE DEF a, b
  <2>10. Merged(t, a) = b
    <3>1. seen[t][Import(o)] = db[Import(o)] /\ seen[t][Stock(p)] = db[Stock(p)]
      BY <1>2, <2>6
    <3>2. W \subseteq Held(t)
      BY <2>4, <2>6
    <3> HIDE DEF p
    <3>3. \A row \in W : a[row] = b[row]
      BY <2>8, <2>9, <3>1
    <3> HIDE DEF W
    <3> QED  BY <2>8, <2>9, <3>2, <3>3, PlainMerge
  <2>11. db' = b /\ After(request[t], db) = b
    BY <1>1, <1>9, <2>10 DEF After, a, b
  <2>12. Recorded(request[t], db)
    BY <1>1, <1>9 DEF Recorded
  <2>13. Allowed(request[t], db)
    BY <1>9, <2>7 DEF Allowed
  <2> QED  BY <2>11, <2>12, <2>13 DEF Perform
<1>10. ASSUME NEW p \in Products, NEW n \in Quantities,
              request[t] = [op |-> "sell", product |-> p, qty |-> n]
       PROVE  Perform(request[t])
  <2>1. Program(request[t], seen[t]) = SellRows(p)
    BY <1>10 DEF Program
  <2>2. Statements(t) = 1..3
    BY <2>1 DEF Statements, SellRows
  <2>3. /\ {Stock(p)} \subseteq Held(t) \cup Skipped(request[t])
        /\ {Wallet} \subseteq Held(t) \cup Skipped(request[t])
        /\ QuestsOf("COLLECT_REVENUE") \subseteq Held(t) \cup Skipped(request[t])
    BY <1>3, <2>1, <2>2 DEF SellRows
  <2>4. Stock(p) \in Held(t) /\ Wallet \in Held(t)
    BY <1>4, <2>3, PlainRows
  <2>5. QuestsOf("COLLECT_REVENUE") \subseteq Held(t) \cup Idle
    BY <1>5, <1>10, <2>3
  <2>6. MaySell(db, p, n)
    BY <1>1, <1>2, <1>10, <2>4 DEF Allowed, MaySell
  <2> DEFINE a == Sold(seen[t], p, n)
             b == Sold(db, p, n)
             W == {Stock(p), Wallet}
             paid == FastPrice(p) * n
             tens == paid \div 10
  <2>7. /\ DOMAIN a = Held(t) /\ IsMap(b) /\ DOMAIN b = Rows
        /\ a[Stock(p)] = seen[t][Stock(p)] - n /\ b[Stock(p)] = db[Stock(p)] - n
        /\ a[Wallet] = [seen[t][Wallet] EXCEPT !.coins = @ + paid]
        /\ b[Wallet] = [db[Wallet] EXCEPT !.coins = @ + paid]
        /\ \A row \in Held(t) \ W : Plain(row) => a[row] = seen[t][row]
        /\ \A row \in Rows \ W : Plain(row) => b[row] = db[row]
        /\ \A q \in Quests : Quest(q) \in Held(t)
             => a[Quest(q)] = Counted(seen[t], "COLLECT_REVENUE", tens, q)
        /\ \A q \in Quests : b[Quest(q)] = Counted(db, "COLLECT_REVENUE", tens, q)
    BY <1>2, <2>4, SoldRows, RowsOf
  <2> HIDE DEF a, b, tens, paid
  <2>8. Merged(t, a) = b
    <3>1. \A row \in W : a[row] = b[row]
      BY <1>2, <2>4, <2>7
    <3>2. W \subseteq Held(t)
      BY <2>4
    <3> HIDE DEF W
    <3> QED  BY <2>5, <2>7, <3>1, <3>2, CountedMerge
  <2>9. db' = b /\ After(request[t], db) = b
    BY <1>1, <1>10, <2>8 DEF After, a, b
  <2>10. Recorded(request[t], db)
    BY <1>1, <1>10 DEF Recorded
  <2>11. Allowed(request[t], db)
    BY <1>10, <2>6 DEF Allowed
  <2> QED  BY <2>9, <2>10, <2>11 DEF Perform
<1>11. ASSUME request[t] = [op |-> "upgrade"]
       PROVE  Perform(request[t])
  <2>1. Program(request[t], seen[t]) = UpgradeRows(seen[t])
    BY <1>11 DEF Program
  <2>2. Statements(t) = 1..5
    BY <2>1 DEF Statements, UpgradeRows
  <2>3. /\ {Stall} \subseteq Held(t) \cup Skipped(request[t])
        /\ {Wallet} \subseteq Held(t) \cup Skipped(request[t])
        /\ {User} \subseteq Held(t) \cup Skipped(request[t])
        /\ QuestsOf("UPGRADE_STALL") \subseteq Held(t) \cup Skipped(request[t])
    BY <1>3, <2>1, <2>2 DEF UpgradeRows
  <2>4. Stall \in Held(t) /\ Wallet \in Held(t) /\ User \in Held(t)
    BY <1>4, <2>3, PlainRows
  <2> DEFINE s == NewSlot(seen[t])
  <2>5. {s} \subseteq Held(t) \cup Skipped(request[t])
    BY <1>2, <1>3, <2>1, <2>2, <2>4 DEF UpgradeRows
  <2>6. s \in Held(t) /\ NewSlot(db) = s
    BY <1>2, <1>4, <2>4, <2>5, PlainRows DEF NewSlot
  <2>7. QuestsOf("UPGRADE_STALL") \subseteq Held(t) \cup Idle
    BY <1>5, <1>11, <2>3
  <2>8. /\ seen[t][Stall] = db[Stall] /\ seen[t][Wallet] = db[Wallet]
        /\ seen[t][User] = db[User] /\ seen[t][s] = db[s]
    BY <1>2, <2>4, <2>6
  <2>9. MayUpgrade(db)
    <3>1. MayUpgrade(seen[t])
      BY <1>1, <1>11 DEF Allowed
    <3> QED  BY <1>2, <2>4, <2>8, <3>1 DEF MayUpgrade
  <2> DEFINE a == Upgraded(seen[t])
             b == Upgraded(db)
             W == {Wallet, Stall, User, s}
  <2>10. /\ DOMAIN a = Held(t)
         /\ a[Wallet] = [seen[t][Wallet] EXCEPT !.coins = @ - UpgradeCost[seen[t][Stall] + 1]]
         /\ a[Stall] = seen[t][Stall] + 1
         /\ a[User] = [seen[t][User] EXCEPT
                         !.level = IF @ < seen[t][Stall] + 1 THEN seen[t][Stall] + 1 ELSE @]
         /\ a[s] = IF seen[t][s].state = "none" THEN EmptySlot ELSE seen[t][s]
         /\ \A row \in Held(t) \ W : Plain(row) => a[row] = seen[t][row]
         /\ \A q \in Quests : Quest(q) \in Held(t)
              => a[Quest(q)] = Counted(seen[t], "UPGRADE_STALL", 1, q)
    BY <1>2, <2>4, <2>6, UpgradedRows
  <2>11. /\ IsMap(b) /\ DOMAIN b = Rows
         /\ b[Wallet] = [db[Wallet] EXCEPT !.coins = @ - UpgradeCost[db[Stall] + 1]]
         /\ b[Stall] = db[Stall] + 1
         /\ b[User] = [db[User] EXCEPT !.level = IF @ < db[Stall] + 1 THEN db[Stall] + 1 ELSE @]
         /\ b[s] = IF db[s].state = "none" THEN EmptySlot ELSE db[s]
         /\ \A row \in Rows \ W : Plain(row) => b[row] = db[row]
         /\ \A q \in Quests : b[Quest(q)] = Counted(db, "UPGRADE_STALL", 1, q)
    BY <1>2, <2>4, <2>6, UpgradedRows, RowsOf
  <2> HIDE DEF a, b, s
  <2>12. Merged(t, a) = b
    <3>1. a[Wallet] = b[Wallet] /\ a[Stall] = b[Stall] /\ a[User] = b[User] /\ a[s] = b[s]
      BY <2>8, <2>10, <2>11
    <3>2. W \subseteq Held(t) /\ \A row \in W : a[row] = b[row]
      BY <2>4, <2>6, <3>1
    <3> HIDE DEF W
    <3> QED  BY <2>7, <2>10, <2>11, <3>2, CountedMerge
  <2>13. db' = b /\ After(request[t], db) = b
    BY <1>1, <1>11, <2>12 DEF After, a, b
  <2>14. Recorded(request[t], db)
    BY <1>1, <1>11 DEF Recorded
  <2>15. Allowed(request[t], db)
    BY <1>11, <2>9 DEF Allowed
  <2> QED  BY <2>13, <2>14, <2>15 DEF Perform
<1>12. ASSUME NEW q \in Quests, request[t] = [op |-> "reward", quest |-> q]
       PROVE  Perform(request[t])
  <2>1. Program(request[t], seen[t]) = RewardRows(q) /\ Skipped(request[t]) = {}
    BY <1>12 DEF Program, Skipped
  <2>2. Statements(t) = 1..2
    BY <2>1 DEF Statements, RewardRows
  <2>3. Quest(q) \in Held(t) /\ Wallet \in Held(t)
    BY <1>3, <2>1, <2>2 DEF RewardRows
  <2>4. seen[t][Quest(q)] = db[Quest(q)] /\ seen[t][Wallet] = db[Wallet]
    BY <1>2, <2>3
  <2>5. MayReward(db, q)
    BY <1>1, <1>2, <1>12, <2>3, <2>4 DEF Allowed, MayReward
  <2> DEFINE a == Rewarded(seen[t], q)
             b == Rewarded(db, q)
             W == {Quest(q), Wallet}
  <2>6. /\ DOMAIN a = Held(t)
        /\ a[Quest(q)] = [seen[t][Quest(q)] EXCEPT !.status = "claimed"]
        /\ a[Wallet] = [coins |-> seen[t][Wallet].coins + QuestCoins[q],
                        gems |-> seen[t][Wallet].gems + QuestGems[q]]
        /\ \A row \in Held(t) \ W : a[row] = seen[t][row]
    BY <1>2, <2>3, RewardedRows
  <2>7. /\ IsMap(b) /\ DOMAIN b = Rows
        /\ b[Quest(q)] = [db[Quest(q)] EXCEPT !.status = "claimed"]
        /\ b[Wallet] = [coins |-> db[Wallet].coins + QuestCoins[q],
                        gems |-> db[Wallet].gems + QuestGems[q]]
        /\ \A row \in Rows \ W : b[row] = db[row]
    BY <1>2, <2>3, RewardedRows
  <2> HIDE DEF a, b
  <2>8. Merged(t, a) = b
    <3>1. W \subseteq Held(t) /\ \A row \in W : a[row] = b[row]
      BY <2>3, <2>4, <2>6, <2>7
    <3> HIDE DEF W
    <3> QED  BY <2>6, <2>7, <3>1, PlainMerge
  <2>9. db' = b /\ After(request[t], db) = b
    BY <1>1, <1>12, <2>8 DEF After, a, b
  <2>10. Recorded(request[t], db)
    BY <1>1, <1>12 DEF Recorded
  <2>11. Allowed(request[t], db)
    BY <1>12, <2>5 DEF Allowed
  <2> QED  BY <2>9, <2>10, <2>11 DEF Perform
<1>13. ASSUME NEW n \in NeighborXp, request[t] = [op |-> "visit", gained |-> n]
       PROVE  Perform(request[t])
  <2>1. Program(request[t], seen[t]) = VisitRows
    BY <1>13 DEF Program
  <2>2. Statements(t) = 1..1
    BY <2>1 DEF Statements, VisitRows
  <2>3. {User} \subseteq Held(t) \cup Skipped(request[t])
    BY <1>3, <2>1, <2>2 DEF VisitRows
  <2>4. User \in Held(t)
    BY <1>4, <2>3, PlainRows
  <2>5. MayVisit(db)
    BY <1>1, <1>2, <1>13, <2>4 DEF Allowed, MayVisit
  <2> DEFINE a == Visited(seen[t], n)
             b == Visited(db, n)
             W == {User}
  <2>6. /\ DOMAIN a = Held(t) /\ a[User] = WithXp(seen[t][User], n)
        /\ \A row \in Held(t) \ W : a[row] = seen[t][row]
    BY <1>2, <2>4, VisitedRows
  <2>7. /\ IsMap(b) /\ DOMAIN b = Rows /\ b[User] = WithXp(db[User], n)
        /\ \A row \in Rows \ W : b[row] = db[row]
    BY <1>2, <2>4, VisitedRows
  <2> HIDE DEF a, b
  <2>8. Merged(t, a) = b
    <3>1. W \subseteq Held(t) /\ \A row \in W : a[row] = b[row]
      BY <1>2, <2>4, <2>6, <2>7
    <3> HIDE DEF W
    <3> QED  BY <2>6, <2>7, <3>1, PlainMerge
  <2>9. db' = b /\ After(request[t], db) = b
    BY <1>1, <1>13, <2>8 DEF After, a, b
  <2>10. Recorded(request[t], db)
    BY <1>1, <1>13 DEF Recorded
  <2>11. Allowed(request[t], db)
    BY <1>13, <2>5 DEF Allowed
  <2> QED  BY <2>9, <2>10, <2>11 DEF Perform
<1> QED  BY <1>1, <1>6, <1>7, <1>8, <1>9, <1>10, <1>11, <1>12, <1>13, RequestCases

\* The statements name rows that exist.
LEMMA WantedRows ==
  ASSUME TxSound, NEW t \in Txns, Running(t), Accepted(t)
  PROVE  Wanted(t) \subseteq Rows
<1>1. request[t] \in Lists \/ (request[t] \in Requests /\ Allowed(request[t], seen[t]))
  BY DEF TxSound, LocksOwned, Running, Accepted, TxRequests
<1>2. /\ Held(t) = DOMAIN seen[t] /\ Held(t) \subseteq Rows
      /\ \A row \in Held(t) : seen[t][row] = db[row]
  BY DEF Held, TxSound, LocksOwned
<1>3. \A target : QuestsOf(target) \subseteq Rows
  BY RowsOf DEF QuestsOf
<1>4. ASSUME \A k \in Statements(t) : Program(request[t], seen[t])[k] \subseteq Rows
      PROVE  Wanted(t) \subseteq Rows
  BY <1>4 DEF Wanted, Remaining
<1>5. ASSUME NEW i \in SlotIds, NEW p \in Products,
             request[t] = [op |-> "place", slot |-> i, product |-> p]
      PROVE  \A k \in Statements(t) : Program(request[t], seen[t])[k] \subseteq Rows
  <2>1. Program(request[t], seen[t]) = PlaceRows(i, p)
    BY <1>5 DEF Program
  <2> QED  BY <1>3, <2>1, RowsOf DEF Statements, PlaceRows
<1>6. ASSUME NEW i \in SlotIds, request[t] = [op |-> "collect", slot |-> i]
      PROVE  \A k \in Statements(t) : Program(request[t], seen[t])[k] \subseteq Rows
  <2>1. Program(request[t], seen[t]) = CollectRows(i, seen[t])
    BY <1>6 DEF Program
  <2> DEFINE c == IF Slot(i) \in DOMAIN seen[t] THEN {Catalogue(seen[t][Slot(i)].product)} ELSE {}
  <2>2. c \subseteq Rows
    <3>1. CASE Slot(i) \in DOMAIN seen[t]
      <4>1. seen[t][Slot(i)].state = "selling" /\ seen[t][Slot(i)] = db[Slot(i)]
        BY <1>1, <1>2, <1>6, <3>1 DEF Allowed, MayCollect, Lists
      <4>2. seen[t][Slot(i)].product \in Products
        BY <4>1 DEF TxSound, ShopSound, SlotShape
      <4> QED  BY <4>2, RowsOf
    <3>2. CASE Slot(i) \notin DOMAIN seen[t]
      BY <3>2
    <3> QED  BY <3>1, <3>2
  <2>3. Program(request[t], seen[t]) = <<{Slot(i)}, c, {Wallet}, {User}, QuestsOf("COLLECT_REVENUE")>>
    BY <2>1 DEF CollectRows
  <2> HIDE DEF c
  <2> QED  BY <1>3, <2>2, <2>3, RowsOf DEF Statements
<1>7. ASSUME NEW o \in Orders, NEW p \in Products, NEW n \in Quantities,
             request[t] = [op |-> "import", order |-> o, product |-> p, qty |-> n]
      PROVE  \A k \in Statements(t) : Program(request[t], seen[t])[k] \subseteq Rows
  <2>1. Program(request[t], seen[t]) = ImportRows(o)
    BY <1>7 DEF Program
  <2> QED  BY <1>3, <2>1, RowsOf DEF Statements, ImportRows
<1>8. ASSUME NEW o \in Orders, request[t] = [op |-> "claim", order |-> o]
      PROVE  \A k \in Statements(t) : Program(request[t], seen[t])[k] \subseteq Rows
  <2>1. Program(request[t], seen[t]) = ClaimRows(o, seen[t])
    BY <1>8 DEF Program
  <2> DEFINE c == IF Import(o) \in DOMAIN seen[t] THEN {Stock(seen[t][Import(o)].product)} ELSE {}
  <2>2. c \subseteq Rows
    <3>1. CASE Import(o) \in DOMAIN seen[t]
      <4>1. seen[t][Import(o)].status = "pending" /\ seen[t][Import(o)] = db[Import(o)]
        BY <1>1, <1>2, <1>8, <3>1 DEF Allowed, MayClaim, Lists
      <4>2. seen[t][Import(o)].product \in Products
        BY <4>1 DEF TxSound, ShopSound, ImportShape
      <4> QED  BY <4>2, RowsOf
    <3>2. CASE Import(o) \notin DOMAIN seen[t]
      BY <3>2
    <3> QED  BY <3>1, <3>2
  <2>3. Program(request[t], seen[t]) = <<{Import(o)}, c>>
    BY <2>1 DEF ClaimRows
  <2> HIDE DEF c
  <2> QED  BY <2>2, <2>3, RowsOf DEF Statements
<1>9. ASSUME NEW p \in Products, NEW n \in Quantities,
             request[t] = [op |-> "sell", product |-> p, qty |-> n]
      PROVE  \A k \in Statements(t) : Program(request[t], seen[t])[k] \subseteq Rows
  <2>1. Program(request[t], seen[t]) = SellRows(p)
    BY <1>9 DEF Program
  <2> QED  BY <1>3, <2>1, RowsOf DEF Statements, SellRows
<1>10. ASSUME request[t] = [op |-> "upgrade"]
       PROVE  \A k \in Statements(t) : Program(request[t], seen[t])[k] \subseteq Rows
  <2>1. Program(request[t], seen[t]) = UpgradeRows(seen[t])
    BY <1>10 DEF Program
  <2> DEFINE c == IF Stall \in DOMAIN seen[t] THEN {NewSlot(seen[t])} ELSE {}
  <2>2. c \subseteq Rows
    <3>1. CASE Stall \in DOMAIN seen[t]
      <4>1. seen[t][Stall] = db[Stall] /\ seen[t][Stall] < MaxLevel
        BY <1>1, <1>2, <1>10, <3>1 DEF Allowed, MayUpgrade, Lists
      <4>2. db[Stall] \in StallLevels
        BY DEF TxSound, ShopSound, ShopTypeOK
      <4>3. db[Stall] + 1 + BaseSlots \in SlotIds
        BY <4>1, <4>2, NextSlot
      <4>4. NewSlot(seen[t]) = Slot(db[Stall] + 1 + BaseSlots)
        BY <4>1 DEF NewSlot
      <4>5. NewSlot(seen[t]) \in Rows
        BY <4>3, <4>4, RowsOf
      <4> QED  BY <4>5
    <3>2. CASE Stall \notin DOMAIN seen[t]
      BY <3>2
    <3> QED  BY <3>1, <3>2
  <2>3. Program(request[t], seen[t]) = <<{Stall}, {Wallet}, {User}, c, QuestsOf("UPGRADE_STALL")>>
    BY <2>1 DEF UpgradeRows
  <2> HIDE DEF c
  <2> QED  BY <1>3, <2>2, <2>3, RowsOf DEF Statements
<1>11. ASSUME NEW q \in Quests, request[t] = [op |-> "reward", quest |-> q]
       PROVE  \A k \in Statements(t) : Program(request[t], seen[t])[k] \subseteq Rows
  <2>1. Program(request[t], seen[t]) = RewardRows(q)
    BY <1>11 DEF Program
  <2> QED  BY <2>1, RowsOf DEF Statements, RewardRows
<1>12. ASSUME NEW n \in NeighborXp, request[t] = [op |-> "visit", gained |-> n]
       PROVE  \A k \in Statements(t) : Program(request[t], seen[t])[k] \subseteq Rows
  <2>1. Program(request[t], seen[t]) = VisitRows
    BY <1>12 DEF Program
  <2> QED  BY <2>1, RowsOf DEF Statements, VisitRows
<1>13. ASSUME request[t] \in Lists
       PROVE  \A k \in Statements(t) : Program(request[t], seen[t])[k] \subseteq Rows
  <2>1. Program(request[t], seen[t]) = ListRows(request[t].reset)
    BY <1>13 DEF Program, Lists
  <2>2. \A kinds, k : Reopened(kinds, k) \subseteq Rows
    BY RowsOf DEF Reopened
  <2> QED  BY <2>1, <2>2, RowsOf DEF Statements, ListRows
<1> QED
  BY <1>1, <1>4, <1>5, <1>6, <1>7, <1>8, <1>9, <1>10, <1>11, <1>12, <1>13, RequestCases

\* A transaction that ends lets its rows go.
LEMMA EndFrees ==
  ASSUME LocksOwned, NEW t \in Txns, End(t),
         \A u \in Txns \ {t} : \A row \in Held(u) : db'[row] = db[row]
  PROVE  LocksOwned'
<1>1. /\ DOMAIN seen' = Txns /\ Held(t)' = {} /\ request'[t] = NoRequest
      /\ \A u \in Txns \ {t} : seen'[u] = seen[u] /\ request'[u] = request[u]
  BY DEF End, LocksOwned, Held, NoRows
<1>2. request' \in [Txns -> TxRequests \cup {NoRequest}]
  BY DEF End, LocksOwned
<1>3. \A u \in Txns \ {t} : Held(u)' = Held(u) /\ (Running(u)' <=> Running(u))
  BY <1>1 DEF Held, Running
<1>4. ASSUME NEW u \in Txns
      PROVE  /\ Held(u)' \subseteq Rows
             /\ ~Running(u)' => Held(u)' = {}
             /\ \A row \in Held(u)' : seen'[u][row] = db'[row]
  <2>1. CASE u = t
    BY <1>1, <2>1
  <2>2. CASE u # t
    BY <1>1, <1>3, <2>2 DEF LocksOwned
  <2> QED  BY <2>1, <2>2
<1>5. ASSUME NEW u \in Txns, NEW v \in Txns, u # v PROVE Held(u)' \cap Held(v)' = {}
  <2>1. CASE u = t \/ v = t
    BY <1>1, <2>1
  <2>2. CASE u # t /\ v # t
    BY <1>3, <1>5, <2>2 DEF LocksOwned
  <2> QED  BY <2>1, <2>2
<1> QED  BY <1>1, <1>2, <1>4, <1>5 DEF LocksOwned

LEMMA TxStep ==
  ASSUME TxSound, [Next]_vars
  PROVE  [ShopNext]_shopVars /\ LocksOwned'
<1>1. LocksOwned
  BY DEF TxSound
<1>2. ASSUME NEW t \in Txns, Begin(t) PROVE [ShopNext]_shopVars /\ LocksOwned'
  <2>1. UNCHANGED shopVars
    BY <1>2 DEF Begin, shopVars
  <2>2. PICK r \in TxRequests : request' = [request EXCEPT ![t] = r]
    BY <1>2 DEF Begin
  <2>3. /\ request' \in [Txns -> TxRequests \cup {NoRequest}]
        /\ \A u \in Txns \ {t} : request'[u] = request[u]
        /\ seen' = seen /\ db' = db /\ Held(t) = {}
    BY <1>1, <1>2, <2>2 DEF Begin, LocksOwned
  <2>4. \A u \in Txns : Held(u)' = Held(u)
    BY <2>3 DEF Held
  <2>5. \A u \in Txns : ~Running(u)' => Held(u)' = {}
    BY <1>1, <2>3, <2>4 DEF LocksOwned, Running
  <2>6. LocksOwned'
    BY <1>1, <2>3, <2>4, <2>5 DEF LocksOwned
  <2> QED  BY <2>1, <2>6
<1>3. ASSUME NEW t \in Txns, Lock(t) PROVE [ShopNext]_shopVars /\ LocksOwned'
  <2>1. UNCHANGED shopVars /\ db' = db /\ request' = request /\ Running(t)
    BY <1>3 DEF Lock, shopVars
  <2>2. PICK row \in Wanted(t) :
          /\ \A u \in Txns : row \notin Held(u)
          /\ seen' = [seen EXCEPT ![t] = [x \in Held(t) \cup {row} |->
                                            IF x = row THEN db[row] ELSE seen[t][x]]]
    BY <1>3 DEF Lock
  <2>3. row \in Rows
    BY <1>3, WantedRows DEF Lock
  <2>4. /\ DOMAIN seen' = Txns
        /\ seen'[t] = [x \in Held(t) \cup {row} |-> IF x = row THEN db[row] ELSE seen[t][x]]
        /\ \A u \in Txns \ {t} : seen'[u] = seen[u]
    BY <1>1, <2>2 DEF LocksOwned
  <2>5. Held(t)' = Held(t) \cup {row} /\ \A u \in Txns \ {t} : Held(u)' = Held(u)
    BY <2>4 DEF Held
  <2>6. \A u \in Txns : Running(u)' <=> Running(u)
    BY <2>1 DEF Running
  <2>7. ASSUME NEW u \in Txns
        PROVE  /\ Held(u)' \subseteq Rows
               /\ ~Running(u)' => Held(u)' = {}
               /\ \A x \in Held(u)' : seen'[u][x] = db'[x]
    <3>1. CASE u = t
      BY <1>1, <2>1, <2>3, <2>4, <2>5, <2>6, <3>1 DEF LocksOwned
    <3>2. CASE u # t
      BY <1>1, <2>1, <2>4, <2>5, <2>6, <3>2 DEF LocksOwned
    <3> QED  BY <3>1, <3>2
  <2>8. ASSUME NEW u \in Txns, NEW v \in Txns, u # v PROVE Held(u)' \cap Held(v)' = {}
    <3>1. Held(u) \cap Held(v) = {} /\ row \notin Held(u) /\ row \notin Held(v)
      BY <1>1, <2>2, <2>8 DEF LocksOwned
    <3>2. Held(u)' \subseteq Held(u) \cup {row} /\ Held(v)' \subseteq Held(v) \cup {row}
      BY <2>5
    <3>3. u # t => Held(u)' = Held(u)
      BY <2>5
    <3>4. v # t => Held(v)' = Held(v)
      BY <2>5
    <3> QED  BY <2>8, <3>1, <3>2, <3>3, <3>4
  <2>9. LocksOwned'
    BY <1>1, <2>1, <2>4, <2>7, <2>8 DEF LocksOwned
  <2> QED  BY <2>1, <2>9
<1>4. ASSUME NEW t \in Txns, Commit(t) PROVE [ShopNext]_shopVars /\ LocksOwned'
  <2>1. request[t] \in Requests /\ Perform(request[t])
    BY <1>4, CommitPerforms
  <2>2. ShopNext
    BY <2>1, PerformedIsNext
  <2>3. \A u \in Txns \ {t} : \A row \in Held(u) : db'[row] = db[row]
    <3>1. \A row \in Rows \ Held(t) : db'[row] = db[row]
      BY <1>4 DEF Commit
    <3>2. \A u \in Txns \ {t} : Held(u) \subseteq Rows \ Held(t)
      BY <1>1 DEF LocksOwned
    <3> QED  BY <3>1, <3>2
  <2>4. End(t)
    BY <1>4 DEF Commit
  <2> QED  BY <1>1, <2>2, <2>3, <2>4, EndFrees
<1>5. ASSUME NEW t \in Txns, CommitList(t) \/ Refuse(t) \/ Rollback(t) \/ Victim(t)
      PROVE  [ShopNext]_shopVars /\ LocksOwned'
  <2>1. End(t) /\ UNCHANGED <<db, due, sold, dumped, start>>
    BY <1>5 DEF CommitList, Refuse, Rollback, Victim
  <2>2. UNCHANGED shopVars /\ db' = db
    BY <2>1 DEF shopVars
  <2> QED  BY <1>1, <2>1, <2>2, EndFrees
<1>6. ASSUME Clock PROVE [ShopNext]_shopVars /\ LocksOwned'
  <2>1. ShopNext /\ db' = db /\ request' = request /\ seen' = seen
    BY <1>6 DEF Clock, ShopNext, Elapse
  <2> QED  BY <1>1, <2>1 DEF LocksOwned, Held, Running
<1>7. ASSUME UNCHANGED vars PROVE [ShopNext]_shopVars /\ LocksOwned'
  <2>1. UNCHANGED shopVars /\ db' = db /\ request' = request /\ seen' = seen
    BY <1>7 DEF vars, shopVars
  <2> QED  BY <1>1, <2>1 DEF LocksOwned, Held, Running
<1> QED  BY <1>2, <1>3, <1>4, <1>5, <1>6, <1>7 DEF Next

LEMMA TxAlwaysSound == Spec => []TxSound
<1>1. Init => TxSound
  <2> SUFFICES ASSUME Init PROVE TxSound
    OBVIOUS
  <2>1. ShopSound
    BY SoundInit DEF Init
  <2>2. LocksOwned
    BY DEF Init, LocksOwned, Held, Running, NoRows
  <2> QED  BY <2>1, <2>2 DEF TxSound
<1>2. TxSound /\ [Next]_vars => TxSound'
  BY TxStep, SoundStep DEF TxSound
<1> QED  BY <1>1, <1>2, PTL DEF Spec

\* Concurrent requests of one player leave the rows that some order of the
\* same operations, one after the other, leaves: the row locks suffice.
THEOREM Serializable == Spec => ShopSpec
<1>1. Init => ShopInit
  BY DEF Init
<1>2. TxSound /\ [Next]_vars => [ShopNext]_shopVars
  BY TxStep
<1> QED  BY <1>1, <1>2, TxAlwaysSound, PTL DEF Spec, ShopSpec

\* Every request, and every row that a transaction locks, has its type; a
\* connection without a request holds no lock.
THEOREM TxTypeCorrect == Spec => []TypeOK
<1>1. TxSound => TypeOK
  BY DEF TxSound, TypeOK, ShopSound, LocksOwned
<1> QED  BY <1>1, TxAlwaysSound, PTL

\* No two transactions hold the same row, and the holder knows it as it is.
THEOREM LocksHold == Spec => []LocksOwned
<1>1. TxSound => LocksOwned
  BY DEF TxSound
<1> QED  BY <1>1, TxAlwaysSound, PTL

\* What holds of the operations one by one holds of the concurrent requests.
THEOREM BooksBalance ==
  Spec => [](GoodsLedger /\ CoinLedger /\ QuestsCount /\ SlotRows /\ LevelCoversStall)
BY Serializable, GoodsBalance, CoinBalance, QuestsFollow, SlotsFollowLevel, LevelFollowsStall, PTL

-----------------------------------------------------------------------------
(* How far a transaction has come.                                          *)

\* The rows that r's transaction locks one after the other before the quests,
\* with those that a row read earlier names, once it is read.
Fixed(r, m) ==
  CASE r.op = "place" -> <<Stall, Slot(r.slot), Stock(r.product)>>
    [] r.op = "collect" -> <<Slot(r.slot), Catalogue(m[Slot(r.slot)].product), Wallet, User>>
    [] r.op = "import" -> <<User, Wallet, Import(r.order)>>
    [] r.op = "claim" -> <<Import(r.order), Stock(m[Import(r.order)].product)>>
    [] r.op = "sell" -> <<Stock(r.product), Wallet>>
    [] r.op = "upgrade" -> <<Stall, Wallet, User, NewSlot(m)>>
    [] r.op = "reward" -> <<Quest(r.quest), Wallet>>
    [] r.op = "visit" \/ r.op = "list" -> <<User>>

\* What r counts for the quests.
CountedAs(r) ==
  CASE r.op = "place" -> "PLACE_PRODUCT"
    [] r.op = "import" -> "IMPORT_PRODUCT"
    [] r.op = "upgrade" -> "UPGRADE_STALL"
    [] r.op = "collect" \/ r.op = "sell" -> "COLLECT_REVENUE"
    [] OTHER -> "nothing"

\* The quests that r locks after its fixed rows.
QuestsTaken(r) ==
  IF r.op = "list" THEN Reopened(r.reset, "daily") \cup Reopened(r.reset, "weekly")
  ELSE QuestsOf(CountedAs(r))

FirstRows(r, m, k) == {Fixed(r, m)[i] : i \in 1..k}

\* t has locked the first k of its fixed rows; some quests, only after them.
AtStage(t, k) ==
  LET r == request[t]
      m == seen[t]
      n == Len(Fixed(r, m))
  IN  /\ k \in 0..n
      /\ FirstRows(r, m, k) \subseteq Held(t)
      /\ k < n => Held(t) = FirstRows(r, m, k)
      /\ k = n => Held(t) \subseteq FirstRows(r, m, n) \cup QuestsTaken(r)

Stages == \A t \in Txns : Running(t) => \E k \in Nat : AtStage(t, k)

LEMMA FixedProgram ==
  ASSUME NEW r \in TxRequests, NEW m, NEW k \in 0..Len(Fixed(r, m)),
         FirstRows(r, m, k) \subseteq DOMAIN m
  PROVE  LET F == Fixed(r, m)
             P == Program(r, m)
         IN  /\ Len(F) \in Nat /\ Len(F) >= 1
             /\ \A i \in 1..Len(F) : i <= k + 1 => i \in DOMAIN P /\ P[i] = {F[i]}
             /\ \A i, j \in 1..Len(F) : F[i] = F[j] => i = j
             /\ \A i \in DOMAIN P :
                  i \in 1..Len(F) \/ (i \in Nat /\ i > Len(F) /\ P[i] \subseteq QuestsTaken(r))
             /\ r.op # "reward" => \A i \in 1..Len(F) : Plain(F[i])
<1> DEFINE F == Fixed(r, m)
           P == Program(r, m)
           Q == QuestsTaken(r)
           Goal(f, p) == /\ Len(f) \in Nat /\ Len(f) >= 1
                         /\ \A i \in 1..Len(f) : i <= k + 1 => i \in DOMAIN p /\ p[i] = {f[i]}
                         /\ \A i, j \in 1..Len(f) : f[i] = f[j] => i = j
                         /\ \A i \in DOMAIN p :
                              i \in 1..Len(f) \/ (i \in Nat /\ i > Len(f) /\ p[i] \subseteq Q)
                         /\ r.op # "reward" => \A i \in 1..Len(f) : Plain(f[i])
<1>0. k \in 0..Len(F) /\ \A i \in 1..k : F[i] \in DOMAIN m
  BY DEF FirstRows
<1>1. CASE r.op = "place"
  <2> DEFINE f == <<Stall, Slot(r.slot), Stock(r.product)>>
             p == <<{Stall}, {Slot(r.slot)}, {Stock(r.product)}, Q>>
  <2>1. F = f /\ P = p
    BY <1>1 DEF Fixed, Program, PlaceRows, CountedAs, QuestsTaken
  <2> HIDE DEF Q
  <2>2. Goal(f, p)
    BY RowNames, PlainRows
  <2> QED  BY <2>1, <2>2 DEF Q
<1>2. CASE r.op = "collect"
  <2> DEFINE s == Slot(r.slot)
             c == Catalogue(m[s].product)
             d == IF s \in DOMAIN m THEN {c} ELSE {}
             f == <<s, c, Wallet, User>>
             p == <<{s}, d, {Wallet}, {User}, Q>>
  <2>1. F = f /\ P = p
    BY <1>2 DEF Fixed, Program, CollectRows, CountedAs, QuestsTaken
  <2>2. k >= 1 => d = {c}
    <3>1. k >= 1 => 1 \in 1..k
      BY <1>0
    <3>2. k >= 1 => s \in DOMAIN m
      BY <1>0, <2>1, <3>1
    <3> QED  BY <3>2
  <2>3. /\ s # c /\ s # Wallet /\ s # User /\ c # Wallet /\ c # User /\ Wallet # User
        /\ Plain(s) /\ Plain(c) /\ Plain(Wallet) /\ Plain(User)
    BY RowNames, PlainRows
  <2> HIDE DEF Q, s, c, d
  <2>4. Goal(f, p)
    BY <1>0, <2>2, <2>3
  <2> QED  BY <2>1, <2>4 DEF Q
<1>3. CASE r.op = "import"
  <2> DEFINE f == <<User, Wallet, Import(r.order)>>
             p == <<{User}, {Wallet}, {Import(r.order)}, Q>>
  <2>1. F = f /\ P = p
    BY <1>3 DEF Fixed, Program, ImportRows, CountedAs, QuestsTaken
  <2> HIDE DEF Q
  <2>2. Goal(f, p)
    BY RowNames, PlainRows
  <2> QED  BY <2>1, <2>2 DEF Q
<1>4. CASE r.op = "claim"
  <2> DEFINE s == Import(r.order)
             c == Stock(m[s].product)
             d == IF s \in DOMAIN m THEN {c} ELSE {}
             f == <<s, c>>
             p == <<{s}, d>>
  <2>1. F = f /\ P = p
    BY <1>4 DEF Fixed, Program, ClaimRows
  <2>2. k >= 1 => d = {c}
    <3>1. k >= 1 => 1 \in 1..k
      BY <1>0
    <3>2. k >= 1 => s \in DOMAIN m
      BY <1>0, <2>1, <3>1
    <3> QED  BY <3>2
  <2>3. s # c /\ Plain(s) /\ Plain(c)
    BY RowNames, PlainRows
  <2> HIDE DEF Q, s, c, d
  <2>4. Goal(f, p)
    BY <1>0, <2>2, <2>3
  <2> QED  BY <2>1, <2>4 DEF Q
<1>5. CASE r.op = "sell"
  <2> DEFINE f == <<Stock(r.product), Wallet>>
             p == <<{Stock(r.product)}, {Wallet}, Q>>
  <2>1. F = f /\ P = p
    BY <1>5 DEF Fixed, Program, SellRows, CountedAs, QuestsTaken
  <2> HIDE DEF Q
  <2>2. Goal(f, p)
    BY RowNames, PlainRows
  <2> QED  BY <2>1, <2>2 DEF Q
<1>6. CASE r.op = "upgrade"
  <2> DEFINE c == NewSlot(m)
             d == IF Stall \in DOMAIN m THEN {c} ELSE {}
             f == <<Stall, Wallet, User, c>>
             p == <<{Stall}, {Wallet}, {User}, d, Q>>
  <2>1. F = f /\ P = p
    BY <1>6 DEF Fixed, Program, UpgradeRows, CountedAs, QuestsTaken
  <2>2. k >= 1 => d = {c}
    <3>1. k >= 1 => 1 \in 1..k
      BY <1>0
    <3>2. k >= 1 => Stall \in DOMAIN m
      BY <1>0, <2>1, <3>1
    <3> QED  BY <3>2
  <2>3. /\ Stall # c /\ Stall # Wallet /\ Stall # User /\ c # Wallet /\ c # User /\ Wallet # User
        /\ Plain(Stall) /\ Plain(c) /\ Plain(Wallet) /\ Plain(User)
    BY RowNames, PlainRows DEF NewSlot
  <2> HIDE DEF Q, c, d
  <2>4. Goal(f, p)
    BY <1>0, <2>2, <2>3
  <2> QED  BY <2>1, <2>4 DEF Q
<1>7. CASE r.op = "reward"
  <2> DEFINE f == <<Quest(r.quest), Wallet>>
             p == <<{Quest(r.quest)}, {Wallet}>>
  <2>1. F = f /\ P = p
    BY <1>7 DEF Fixed, Program, RewardRows
  <2> HIDE DEF Q
  <2>2. Goal(f, p)
    BY <1>7, RowNames
  <2> QED  BY <2>1, <2>2 DEF Q
<1>8. CASE r.op = "visit"
  <2> DEFINE f == <<User>>
             p == <<{User}>>
  <2>1. F = f /\ P = p
    BY <1>8 DEF Fixed, Program, VisitRows
  <2> HIDE DEF Q
  <2>2. Goal(f, p)
    BY PlainRows
  <2> QED  BY <2>1, <2>2 DEF Q
<1>9. CASE r.op = "list"
  <2> DEFINE a == Reopened(r.reset, "daily")
             b == Reopened(r.reset, "weekly")
             f == <<User>>
             p == <<{User}, a, b>>
  <2>1. F = f /\ P = p /\ Q = a \cup b
    BY <1>9 DEF Fixed, Program, ListRows, QuestsTaken
  <2> HIDE DEF Q, a, b
  <2>2. Goal(f, p)
    BY <2>1, PlainRows
  <2> QED  BY <2>1, <2>2 DEF Q
<1> QED  BY <1>1, <1>2, <1>3, <1>4, <1>5, <1>6, <1>7, <1>8, <1>9, TxRequestCases

\* The rows already locked stay the first ones when more is read.
LEMMA FixedGrows ==
  ASSUME NEW r \in TxRequests, NEW m, NEW m2, NEW k \in 0..Len(Fixed(r, m)),
         FirstRows(r, m, k) \subseteq DOMAIN m, \A x \in DOMAIN m : m2[x] = m[x]
  PROVE  /\ Len(Fixed(r, m2)) = Len(Fixed(r, m))
         /\ \A i \in 1..Len(Fixed(r, m)) : i <= k + 1 => Fixed(r, m2)[i] = Fixed(r, m)[i]
<1>1. k \in 0..Len(Fixed(r, m)) /\ \A i \in 1..k : Fixed(r, m)[i] \in DOMAIN m
  BY DEF FirstRows
<1>2. k >= 1 => Fixed(r, m)[1] \in DOMAIN m
  BY <1>1
<1>3. CASE r.op = "collect"
  <2> DEFINE s == Slot(r.slot)
             c == Catalogue(m[s].product)
             c2 == Catalogue(m2[s].product)
  <2>1. Fixed(r, m) = <<s, c, Wallet, User>> /\ Fixed(r, m2) = <<s, c2, Wallet, User>>
    BY <1>3 DEF Fixed
  <2>2. k >= 1 => c = c2
    BY <1>2, <2>1
  <2> HIDE DEF s, c, c2
  <2> QED  BY <1>1, <2>1, <2>2
<1>4. CASE r.op = "claim"
  <2> DEFINE s == Import(r.order)
             c == Stock(m[s].product)
             c2 == Stock(m2[s].product)
  <2>1. Fixed(r, m) = <<s, c>> /\ Fixed(r, m2) = <<s, c2>>
    BY <1>4 DEF Fixed
  <2>2. k >= 1 => c = c2
    BY <1>2, <2>1
  <2> HIDE DEF s, c, c2
  <2> QED  BY <1>1, <2>1, <2>2
<1>5. CASE r.op = "upgrade"
  <2> DEFINE c == NewSlot(m)
             c2 == NewSlot(m2)
  <2>1. Fixed(r, m) = <<Stall, Wallet, User, c>> /\ Fixed(r, m2) = <<Stall, Wallet, User, c2>>
    BY <1>5 DEF Fixed
  <2>2. k >= 1 => c = c2
    BY <1>2, <2>1 DEF NewSlot
  <2> HIDE DEF c, c2
  <2> QED  BY <1>1, <2>1, <2>2
<1>6. CASE r.op # "collect" /\ r.op # "claim" /\ r.op # "upgrade"
  <2>1. Fixed(r, m2) = Fixed(r, m)
    BY <1>6, TxRequestCases DEF Fixed
  <2> QED  BY <2>1
<1> QED  BY <1>3, <1>4, <1>5, <1>6

\* A transaction waits for its next fixed row; once it has them all, for quests
\* that are active.
LEMMA WantedAt ==
  ASSUME NEW t, request[t] \in TxRequests, NEW k, AtStage(t, k)
  PROVE  LET F == Fixed(request[t], seen[t])
         IN  /\ k < Len(F) => Wanted(t) \subseteq {F[k + 1]}
             /\ k = Len(F) => Wanted(t) \subseteq QuestsTaken(request[t]) \ (Held(t) \cup Skipped(request[t]))
<1> DEFINE r == request[t]
           m == seen[t]
           F == Fixed(r, m)
           P == Program(r, m)
           n == Len(F)
<1>1. /\ k \in 0..n /\ FirstRows(r, m, k) \subseteq Held(t)
      /\ k < n => Held(t) = FirstRows(r, m, k)
      /\ k = n => Held(t) \subseteq FirstRows(r, m, n) \cup QuestsTaken(r)
  BY DEF AtStage
<1>2. Held(t) = DOMAIN m
  BY DEF Held
<1>3. /\ n \in Nat /\ n >= 1
      /\ \A i \in 1..n : i <= k + 1 => i \in DOMAIN P /\ P[i] = {F[i]}
      /\ \A i, j \in 1..n : F[i] = F[j] => i = j
      /\ \A i \in DOMAIN P : i \in 1..n \/ (i \in Nat /\ i > n /\ P[i] \subseteq QuestsTaken(r))
      /\ r.op # "reward" => \A i \in 1..n : Plain(F[i])
  BY <1>1, <1>2, FixedProgram
<1>4. \A i \in 1..n : F[i] \notin Skipped(r)
  BY <1>3 DEF Skipped, Plain
<1>5. \A i \in 1..k : F[i] \in Held(t)
  BY <1>1 DEF FirstRows
<1>6. Statements(t) = DOMAIN P /\ \A i : Remaining(t, i) = P[i] \ (Held(t) \cup Skipped(r))
  BY DEF Statements, Remaining, Held
<1>7. \A x \in Wanted(t) : \E j \in DOMAIN P :
        x \in Remaining(t, j) /\ \A i \in 1..(j - 1) : Remaining(t, i) = {}
  BY <1>6 DEF Wanted
<1> HIDE DEF r, m, F, P, n
<1>8. ASSUME k < n, NEW x \in Wanted(t) PROVE x = F[k + 1]
  <2>1. PICK j \in DOMAIN P : x \in Remaining(t, j) /\ \A i \in 1..(j - 1) : Remaining(t, i) = {}
    BY <1>7, <1>8
  <2>2. k + 1 \in 1..n /\ P[k + 1] = {F[k + 1]} /\ k \in Nat
    BY <1>1, <1>3, <1>8
  <2>3. F[k + 1] \notin Held(t)
    <3>1. \A i \in 1..k : F[i] # F[k + 1]
      BY <1>1, <1>3, <2>2
    <3> QED  BY <1>1, <1>8, <3>1 DEF FirstRows, F, r, m
  <2>4. Remaining(t, k + 1) = {F[k + 1]}
    BY <1>4, <1>6, <2>2, <2>3
  <2>5. j \in 1..n \/ (j \in Nat /\ j > n)
    BY <1>3
  <2>6. CASE j <= k
    <3>1. P[j] = {F[j]} /\ F[j] \in Held(t)
      BY <1>3, <1>5, <2>2, <2>5, <2>6
    <3> QED  BY <1>6, <2>1, <3>1
  <2>7. CASE j = k + 1
    BY <2>1, <2>4, <2>7
  <2>8. CASE j > k + 1
    <3>1. k + 1 \in 1..(j - 1)
      BY <1>3, <2>2, <2>5, <2>8
    <3> QED  BY <2>1, <2>4, <3>1
  <2> QED  BY <1>3, <2>2, <2>5, <2>6, <2>7, <2>8
<1>9. ASSUME k = n, NEW x \in Wanted(t)
      PROVE  x \in QuestsTaken(r) \ (Held(t) \cup Skipped(r))
  <2>1. PICK j \in DOMAIN P : x \in Remaining(t, j)
    BY <1>7, <1>9
  <2>2. CASE j \in 1..n
    <3>1. P[j] = {F[j]} /\ F[j] \in Held(t)
      BY <1>3, <1>5, <1>9, <2>2
    <3> QED  BY <1>6, <2>1, <3>1
  <2>3. CASE j \notin 1..n
    BY <1>3, <1>6, <2>1, <2>3
  <2> QED  BY <1>3, <2>2, <2>3
<1> QED  BY <1>8, <1>9 DEF n, F, r, m

LEMMA StageKept ==
  ASSUME NEW t, NEW k, AtStage(t, k), request'[t] = request[t], seen'[t] = seen[t]
  PROVE  AtStage(t, k)'
BY DEF AtStage, Held, FirstRows

LEMMA StageBegun ==
  ASSUME NEW t, request'[t] \in TxRequests, Held(t)' = {}
  PROVE  AtStage(t, 0)'
<1> DEFINE n == Len(Fixed(request'[t], seen'[t]))
<1>1. FirstRows(request'[t], seen'[t], 0) = {}
  BY DEF FirstRows
<1>2. n \in Nat /\ n >= 1
  <2>1. ASSUME NEW r \in TxRequests, NEW m PROVE Len(Fixed(r, m)) \in Nat /\ Len(Fixed(r, m)) >= 1
    BY TxRequestCases DEF Fixed
  <2> QED  BY <2>1
<1> HIDE DEF n
<1>3. 0 \in 0..n /\ 0 # n
  BY <1>2
<1> QED  BY <1>1, <1>3 DEF AtStage, n

LEMMA StageGrows ==
  ASSUME NEW t, request[t] \in TxRequests, request'[t] = request[t], NEW k, AtStage(t, k),
         NEW row \in Wanted(t), NEW v,
         seen'[t] = [x \in Held(t) \cup {row} |-> IF x = row THEN v ELSE seen[t][x]],
         row \notin Held(t)
  PROVE  \E j \in Nat : AtStage(t, j)'
<1> DEFINE r == request[t]
           m == seen[t]
           m2 == seen'[t]
           F == Fixed(r, m)
           G == Fixed(r, m2)
           n == Len(F)
           Q == QuestsTaken(r)
<1>1. /\ k \in 0..n /\ FirstRows(r, m, k) \subseteq Held(t)
      /\ k < n => Held(t) = FirstRows(r, m, k)
      /\ k = n => Held(t) \subseteq FirstRows(r, m, n) \cup Q
  BY DEF AtStage
<1>2. /\ k < n => row = F[k + 1]
      /\ k = n => row \in Q
  BY WantedAt
<1>3. Held(t) = DOMAIN m /\ Held(t)' = Held(t) \cup {row} /\ \A x \in DOMAIN m : m2[x] = m[x]
  BY DEF Held
<1>4. n \in Nat
  BY <1>1, <1>3, FixedProgram
<1>5. Len(G) = n /\ \A i \in 1..n : i <= k + 1 => G[i] = F[i]
  BY <1>1, <1>3, FixedGrows
<1>6. AtStage(t, k)' <=> /\ k \in 0..Len(G) /\ FirstRows(r, m2, k) \subseteq Held(t)'
                         /\ k < Len(G) => Held(t)' = FirstRows(r, m2, k)
                         /\ k = Len(G) => Held(t)' \subseteq FirstRows(r, m2, Len(G)) \cup Q
  BY DEF AtStage
<1>7. AtStage(t, k + 1)' <=>
        /\ k + 1 \in 0..Len(G) /\ FirstRows(r, m2, k + 1) \subseteq Held(t)'
        /\ k + 1 < Len(G) => Held(t)' = FirstRows(r, m2, k + 1)
        /\ k + 1 = Len(G) => Held(t)' \subseteq FirstRows(r, m2, Len(G)) \cup Q
  BY DEF AtStage
<1>8. FirstRows(r, m, k) = {F[i] : i \in 1..k} /\ \A j : FirstRows(r, m2, j) = {G[i] : i \in 1..j}
  BY DEF FirstRows
<1> HIDE DEF r, m, m2, F, G, n, Q
<1>9. CASE k < n
  <2>1. k + 1 \in 1..n /\ 1..(k + 1) = 1..k \cup {k + 1} /\ \A i \in 1..(k + 1) : G[i] = F[i]
    BY <1>1, <1>4, <1>5, <1>9
  <2>2. FirstRows(r, m2, k + 1) = FirstRows(r, m, k) \cup {row}
    BY <1>2, <1>8, <1>9, <2>1
  <2>3. Held(t)' = FirstRows(r, m2, k + 1)
    BY <1>1, <1>3, <1>9, <2>2
  <2>4. AtStage(t, k + 1)'
    BY <1>4, <1>5, <1>7, <2>1, <2>3
  <2> QED  BY <1>1, <1>4, <2>1, <2>4
<1>10. CASE k = n
  <2>1. FirstRows(r, m2, n) = FirstRows(r, m, n)
    <3>1. \A i \in 1..n : G[i] = F[i]
      BY <1>4, <1>5, <1>10
    <3>2. {G[i] : i \in 1..n} = {F[i] : i \in 1..n}
      BY <3>1
    <3>3. FirstRows(r, m2, n) = {G[i] : i \in 1..n}
      BY <1>8
    <3>4. FirstRows(r, m, n) = {F[i] : i \in 1..n}
      BY <1>8, <1>10
    <3> QED  BY <3>2, <3>3, <3>4
  <2>2. AtStage(t, k)'
    BY <1>1, <1>2, <1>3, <1>4, <1>5, <1>6, <1>10, <2>1
  <2> QED  BY <1>4, <1>10, <2>2
<1> QED  BY <1>1, <1>4, <1>9, <1>10

LEMMA StagesStep ==
  ASSUME TxSound, Stages, [Next]_vars
  PROVE  Stages'
<1>1. DOMAIN request = Txns /\ DOMAIN seen = Txns
  BY DEF TxSound, LocksOwned
<1>2. ASSUME NEW u \in Txns, Running(u), request'[u] = request[u], seen'[u] = seen[u]
      PROVE  \E k \in Nat : AtStage(u, k)'
  BY <1>2, StageKept DEF Stages
<1>3. ASSUME NEW t \in Txns, Begin(t), NEW u \in Txns, Running(u)'
      PROVE  \E k \in Nat : AtStage(u, k)'
  <2>1. PICK r \in TxRequests : request' = [request EXCEPT ![t] = r] /\ seen' = seen /\ ~Running(t)
    BY <1>3 DEF Begin
  <2>2. CASE u = t
    <3>1. request'[u] \in TxRequests
      BY <1>1, <2>1, <2>2
    <3>2. Held(u)' = {}
      BY <2>1, <2>2 DEF TxSound, LocksOwned, Held
    <3> QED  BY <3>1, <3>2, StageBegun
  <2>3. CASE u # t
    <3>1. request'[u] = request[u] /\ seen'[u] = seen[u]
      BY <1>1, <2>1, <2>3
    <3> QED  BY <1>2, <1>3, <3>1 DEF Running
  <2> QED  BY <2>2, <2>3
<1>4. ASSUME NEW t \in Txns, Lock(t), NEW u \in Txns, Running(u)'
      PROVE  \E k \in Nat : AtStage(u, k)'
  <2>1. request' = request /\ Running(u) /\ Running(t)
    BY <1>4 DEF Lock, Running
  <2>2. PICK row \in Wanted(t) :
          /\ row \notin Held(t)
          /\ seen' = [seen EXCEPT ![t] = [x \in Held(t) \cup {row} |->
                                            IF x = row THEN db[row] ELSE seen[t][x]]]
    BY <1>4 DEF Lock
  <2>3. CASE u = t
    <3>1. seen'[t] = [x \in Held(t) \cup {row} |-> IF x = row THEN db[row] ELSE seen[t][x]]
      BY <1>1, <2>2
    <3>2. request[t] \in TxRequests
      BY <2>1 DEF TxSound, LocksOwned, Running
    <3>3. PICK k \in Nat : AtStage(t, k)
      BY <2>1 DEF Stages
    <3> QED  BY <2>1, <2>2, <2>3, <3>1, <3>2, <3>3, StageGrows
  <2>4. CASE u # t
    <3>1. seen'[u] = seen[u]
      BY <1>1, <2>2, <2>4
    <3> QED  BY <1>2, <2>1, <3>1
  <2> QED  BY <2>3, <2>4
<1>5. ASSUME NEW t \in Txns, End(t), NEW u \in Txns, Running(u)'
      PROVE  \E k \in Nat : AtStage(u, k)'
  <2>1. u # t
    BY <1>1, <1>5 DEF End, Running
  <2>2. request'[u] = request[u] /\ seen'[u] = seen[u]
    BY <1>1, <1>5, <2>1 DEF End
  <2> QED  BY <1>2, <1>5, <2>2 DEF Running
<1>6. ASSUME UNCHANGED <<request, seen>>, NEW u \in Txns, Running(u)'
      PROVE  \E k \in Nat : AtStage(u, k)'
  BY <1>2, <1>6 DEF Running
<1>7. CASE UNCHANGED <<request, seen>>
  BY <1>6, <1>7 DEF Stages
<1>8. ASSUME NEW t \in Txns, Begin(t) PROVE Stages'
  BY <1>3, <1>8 DEF Stages
<1>9. ASSUME NEW t \in Txns, Lock(t) PROVE Stages'
  BY <1>4, <1>9 DEF Stages
<1>10. ASSUME NEW t \in Txns, End(t) PROVE Stages'
  BY <1>5, <1>10 DEF Stages
<1>11. CASE UNCHANGED vars
  BY <1>7, <1>11 DEF vars
<1>12. CASE Clock
  BY <1>7, <1>12 DEF Clock
<1>13. ASSUME NEW t \in Txns, Commit(t) \/ CommitList(t) \/ Refuse(t) \/ Rollback(t) \/ Victim(t)
       PROVE  End(t)
  BY <1>13 DEF Commit, CommitList, Refuse, Rollback, Victim
<1> QED  BY <1>8, <1>9, <1>10, <1>11, <1>12, <1>13 DEF Next

LEMMA StagesAlways == Spec => []Stages
<1>1. Init => Stages
  BY DEF Init, Stages, Running
<1>2. TxSound /\ Stages /\ [Next]_vars => Stages'
  BY StagesStep
<1> QED  BY <1>1, <1>2, TxAlwaysSound, PTL DEF Spec

-----------------------------------------------------------------------------
(* Who can wait for whom.                                                   *)

\* The row that two requests which count the same for the quests both lock first.
Meeting(target) == IF target \in {"PLACE_PRODUCT", "UPGRADE_STALL"} THEN Stall ELSE Wallet

LEMMA Meetings ==
  ASSUME NEW r \in Requests, NEW m, CountedAs(r) \in Targets
  PROVE  Meeting(CountedAs(r)) \in FirstRows(r, m, Len(Fixed(r, m)))
<1>1. CASE r.op = "place"
  <2>1. /\ Fixed(r, m) = <<Stall, Slot(r.slot), Stock(r.product)>>
        /\ Meeting(CountedAs(r)) = Stall
    BY <1>1 DEF Fixed, CountedAs, Meeting
  <2> QED  BY <2>1 DEF FirstRows
<1>2. CASE r.op = "collect"
  <2>1. /\ Fixed(r, m) = <<Slot(r.slot), Catalogue(m[Slot(r.slot)].product), Wallet, User>>
        /\ Meeting(CountedAs(r)) = Wallet
    BY <1>2 DEF Fixed, CountedAs, Meeting
  <2> DEFINE s == Slot(r.slot)
             c == Catalogue(m[Slot(r.slot)].product)
  <2> HIDE DEF s, c
  <2>2. Fixed(r, m) = <<s, c, Wallet, User>>
    BY <2>1 DEF s, c
  <2> QED  BY <2>1, <2>2 DEF FirstRows
<1>3. CASE r.op = "import"
  <2>1. Fixed(r, m) = <<User, Wallet, Import(r.order)>> /\ Meeting(CountedAs(r)) = Wallet
    BY <1>3 DEF Fixed, CountedAs, Meeting
  <2> QED  BY <2>1 DEF FirstRows
<1>4. CASE r.op = "sell"
  <2>1. Fixed(r, m) = <<Stock(r.product), Wallet>> /\ Meeting(CountedAs(r)) = Wallet
    BY <1>4 DEF Fixed, CountedAs, Meeting
  <2> QED  BY <2>1 DEF FirstRows
<1>5. CASE r.op = "upgrade"
  <2>1. Fixed(r, m) = <<Stall, Wallet, User, NewSlot(m)>> /\ Meeting(CountedAs(r)) = Stall
    BY <1>5 DEF Fixed, CountedAs, Meeting
  <2> QED  BY <2>1 DEF FirstRows
<1>6. CASE r.op = "claim" \/ r.op = "reward" \/ r.op = "visit"
  BY <1>6 DEF CountedAs, Targets
<1>7. \/ r.op = "place" \/ r.op = "collect" \/ r.op = "import" \/ r.op = "claim"
      \/ r.op = "sell" \/ r.op = "upgrade" \/ r.op = "reward" \/ r.op = "visit"
  BY DEF Requests
<1> QED  BY <1>1, <1>2, <1>3, <1>4, <1>5, <1>6, <1>7

LEMMA FixedRows ==
  ASSUME NEW t, request[t] \in TxRequests, NEW k, AtStage(t, k)
  PROVE  LET F == Fixed(request[t], seen[t])
         IN  /\ Len(F) \in Nat /\ Len(F) >= 1
             /\ \A i, j \in 1..Len(F) : F[i] = F[j] => i = j
             /\ request[t].op # "reward" => \A i \in 1..Len(F) : Plain(F[i])
BY FixedProgram DEF AtStage, Held

\* While it may go on, a transaction never waits for a quest that another one
\* which waits holds: it would wait for an earlier row, or the quest is complete.
LEMMA QuestsUncontended ==
  ASSUME TxSound, QuestsCount, NEW t \in Txns, NEW u \in Txns, Waits(t, u),
         Running(u), Accepted(u), NEW k, AtStage(t, k), NEW j, AtStage(u, j),
         ~Resetting(t), ~Resetting(u)
  PROVE  k < Len(Fixed(request[t], seen[t]))
<1> DEFINE r == request[t]
           s == request[u]
           n == Len(Fixed(r, seen[t]))
           l == Len(Fixed(s, seen[u]))
<1>1. r \in TxRequests /\ s \in TxRequests
  BY DEF TxSound, LocksOwned, Waits, Running
<1>5. /\ r.op = "list" => QuestsTaken(r) = {}
      /\ s.op = "list" => QuestsTaken(s) = {}
  BY <1>1, TxRequestCases DEF Resetting, QuestsTaken, Reopened
<1>2. k \in 0..n /\ j \in 0..l
  BY DEF AtStage
<1>3. ASSUME k = n PROVE FALSE
  <2>1. PICK x \in Wanted(t) : x \in Held(u)
    BY DEF Waits
  <2>2. x \in QuestsOf(CountedAs(r)) \ Skipped(r) /\ r.op # "list"
    BY <1>1, <1>3, <1>5, <2>1, WantedAt DEF QuestsTaken
  <2>3. PICK q \in Quests : x = Quest(q) /\ TargetType[q] = CountedAs(r)
    BY <2>2 DEF QuestsOf
  <2>4. CountedAs(r) \in Targets
    BY <2>3, RewardAssumption
  <2>5. r.op # "reward"
    BY <2>4 DEF CountedAs, Targets
  <2>6. db[Quest(q)].status = "active"
    BY <2>2, <2>3, <2>5 DEF Skipped
  <2>7. CASE s.op = "reward"
    <3>1. Fixed(s, seen[u]) = <<Quest(s.quest), Wallet>> /\ QuestsTaken(s) = QuestsOf("nothing")
      BY <2>7 DEF Fixed, CountedAs, QuestsTaken
    <3>2. QuestsOf("nothing") = {}
      BY RewardAssumption DEF QuestsOf, Targets
    <3>3. Held(u) \subseteq FirstRows(s, seen[u], j)
      BY <1>2, <3>1, <3>2 DEF AtStage
    <3>4. x = Quest(s.quest)
      BY <1>2, <2>1, <2>3, <3>1, <3>3, PlainRows DEF FirstRows, Plain
    <3>5. s.quest = q
      BY <2>3, <3>4, RowNames
    <3>6. Quest(q) \in DOMAIN seen[u] /\ seen[u][Quest(q)] = db[Quest(q)]
      BY <2>1, <2>3 DEF Held, TxSound, LocksOwned
    <3>7. db[Quest(q)].progress >= TargetValue[q]
      BY <1>1, <2>7, <3>5, <3>6, TxRequestCases DEF Accepted, Allowed, MayReward
    <3>8. db[Quest(q)].progress \in Nat /\ TargetValue[q] \in Nat
      BY RewardAssumption, SoundParts DEF TxSound, QuestsSound, QuestStates
    <3>9. db[Quest(q)].progress < TargetValue[q]
      BY <2>6 DEF QuestsCount
    <3> QED  BY <3>7, <3>8, <3>9
  <2>8. CASE s.op # "reward"
    <3>1. \A i \in 1..l : Plain(Fixed(s, seen[u])[i])
      BY <1>1, <2>8, FixedRows
    <3>2. l \in Nat
      BY <1>1, FixedRows
    <3>3. x \notin FirstRows(s, seen[u], j) /\ x \notin FirstRows(s, seen[u], l)
      BY <1>2, <2>3, <3>1, <3>2 DEF FirstRows, Plain
    <3>4. j = l /\ x \in QuestsOf(CountedAs(s)) /\ s.op # "list"
      BY <1>2, <1>5, <2>1, <3>2, <3>3 DEF AtStage, QuestsTaken
    <3>5. CountedAs(s) = CountedAs(r)
      BY <2>3, <3>4, RowNames DEF QuestsOf
    <3>6. Meeting(CountedAs(r)) \in FirstRows(r, seen[t], n)
      BY <1>1, <2>2, <2>4, Meetings, TxRequestCases
    <3>7. Meeting(CountedAs(r)) \in FirstRows(s, seen[u], l)
      BY <1>1, <2>4, <3>4, <3>5, Meetings, TxRequestCases
    <3>8. FirstRows(r, seen[t], n) \subseteq Held(t) /\ FirstRows(s, seen[u], l) \subseteq Held(u)
      BY <1>3, <3>4 DEF AtStage
    <3>9. Held(t) \cap Held(u) = {}
      BY DEF TxSound, LocksOwned, Waits
    <3> QED  BY <3>6, <3>7, <3>8, <3>9
  <2> QED  BY <2>7, <2>8
<1>4. n \in Nat
  BY <1>1, FixedRows
<1> QED  BY <1>2, <1>3, <1>4

\* While it waits for a fixed row, a transaction that may go on holds the row of
\* a slot only if the stall has that slot.
LEMMA HeldSlots ==
  ASSUME TxSound, NEW u \in Txns, Running(u), Accepted(u), NEW j, AtStage(u, j),
         j < Len(Fixed(request[u], seen[u])), NEW i, Slot(i) \in Held(u)
  PROVE  db[Slot(i)].state # "none"
<1> DEFINE s == request[u]
           m == seen[u]
<1>1. s \in TxRequests /\ (s.op # "list" => Allowed(s, m))
  BY TxRequestCases DEF TxSound, LocksOwned, Running, Accepted
<1>2. j \in 0..Len(Fixed(s, m)) /\ Slot(i) \in FirstRows(s, m, j)
  BY DEF AtStage
<1>3. Slot(i) \in DOMAIN m /\ m[Slot(i)] = db[Slot(i)]
  BY DEF Held, TxSound, LocksOwned
<1>4. CASE s.op = "place"
  <2>1. Fixed(s, m) = <<Stall, Slot(s.slot), Stock(s.product)>>
    BY <1>4 DEF Fixed
  <2>2. i = s.slot
    BY <1>2, <2>1, RowNames DEF FirstRows
  <2>3. m[Slot(i)].state = "empty"
    BY <1>1, <1>3, <1>4, <2>2 DEF Allowed, MayPlace
  <2> QED  BY <1>3, <2>3
<1>5. CASE s.op = "collect"
  <2> DEFINE c == Catalogue(m[Slot(s.slot)].product)
  <2>1. Fixed(s, m) = <<Slot(s.slot), c, Wallet, User>>
    BY <1>5 DEF Fixed
  <2>2. Slot(i) # c /\ Slot(i) # Wallet /\ Slot(i) # User
    BY RowNames
  <2> HIDE DEF c
  <2>3. Slot(i) = Slot(s.slot)
    BY <1>2, <2>1, <2>2 DEF FirstRows
  <2>4. i = s.slot
    BY <2>3, RowNames
  <2>5. m[Slot(i)].state = "selling"
    BY <1>1, <1>3, <1>5, <2>4 DEF Allowed, MayCollect
  <2> QED  BY <1>3, <2>5
<1>6. CASE s.op = "import"
  <2>1. Fixed(s, m) = <<User, Wallet, Import(s.order)>>
    BY <1>6 DEF Fixed
  <2> QED  BY <1>2, <2>1, RowNames DEF FirstRows
<1>7. CASE s.op = "claim"
  <2> DEFINE c == Stock(m[Import(s.order)].product)
  <2>1. Fixed(s, m) = <<Import(s.order), c>>
    BY <1>7 DEF Fixed
  <2>2. Slot(i) # c /\ Slot(i) # Import(s.order)
    BY RowNames
  <2> HIDE DEF c
  <2> QED  BY <1>2, <2>1, <2>2 DEF FirstRows
<1>8. CASE s.op = "sell"
  <2>1. Fixed(s, m) = <<Stock(s.product), Wallet>>
    BY <1>8 DEF Fixed
  <2> QED  BY <1>2, <2>1, RowNames DEF FirstRows
<1>9. CASE s.op = "upgrade"
  <2> DEFINE c == NewSlot(m)
  <2>1. Fixed(s, m) = <<Stall, Wallet, User, c>>
    BY <1>9 DEF Fixed
  <2>2. Slot(i) # Stall /\ Slot(i) # Wallet /\ Slot(i) # User
    BY RowNames
  <2> HIDE DEF c
  <2>3. j \in 0..3
    BY <1>2, <2>1
  <2> QED  BY <1>2, <2>1, <2>2, <2>3 DEF FirstRows
<1>10. CASE s.op = "reward"
  <2>1. Fixed(s, m) = <<Quest(s.quest), Wallet>>
    BY <1>10 DEF Fixed
  <2> QED  BY <1>2, <2>1, RowNames DEF FirstRows
<1>11. CASE s.op = "visit" \/ s.op = "list"
  <2>1. Fixed(s, m) = <<User>>
    BY <1>11 DEF Fixed
  <2> QED  BY <1>2, <2>1, RowNames DEF FirstRows
<1> QED  BY <1>1, <1>4, <1>5, <1>6, <1>7, <1>8, <1>9, <1>10, <1>11, TxRequestCases

\* The slot that an upgrade adds does not exist: no one who waits has its row.
LEMMA NewSlotFree ==
  ASSUME TxSound, SlotRows, NEW t \in Txns, Running(t), Accepted(t), request[t].op = "upgrade",
         AtStage(t, 3), NEW u \in Txns, Running(u), Accepted(u), NEW j, AtStage(u, j),
         j < Len(Fixed(request[u], seen[u]))
  PROVE  ~Waits(t, u)
<1> DEFINE m == seen[t]
<1>1. /\ Fixed(request[t], m) = <<Stall, Wallet, User, NewSlot(m)>>
      /\ request[t] \in TxRequests
  BY DEF Fixed, TxSound, LocksOwned, Running
<1>2. Wanted(t) \subseteq {NewSlot(m)}
  <2> DEFINE c == NewSlot(m)
             F == Fixed(request[t], m)
  <2>1. 3 < Len(F) => Wanted(t) \subseteq {F[3 + 1]}
    BY <1>1, WantedAt
  <2>2. F = <<Stall, Wallet, User, c>>
    BY <1>1
  <2> HIDE DEF c, F
  <2>3. Len(F) = 4 /\ F[3 + 1] = c
    BY <2>2
  <2> QED  BY <2>1, <2>3 DEF c
<1>3. Stall \in Held(t)
  BY <1>1 DEF AtStage, FirstRows
<1>4. m[Stall] = db[Stall] /\ m[Stall] < MaxLevel
  BY <1>1, <1>3, TxRequestCases DEF Held, TxSound, LocksOwned, Accepted, Allowed, MayUpgrade
<1>5. db[Stall] \in StallLevels
  BY DEF TxSound, ShopSound, ShopTypeOK
<1>6. db[Stall] + 1 + BaseSlots \in SlotIds
  BY <1>4, <1>5, NextSlot
<1>7. ~(db[Stall] + 1 + BaseSlots <= db[Stall] + BaseSlots)
  BY <1>5, CatalogAssumption DEF StallLevels
<1>8. db[Slot(db[Stall] + 1 + BaseSlots)].state = "none"
  BY <1>6, <1>7 DEF SlotRows
<1>9. NewSlot(m) = Slot(db[Stall] + 1 + BaseSlots)
  BY <1>4 DEF NewSlot
<1>10. NewSlot(m) \notin Held(u)
  BY <1>8, <1>9, HeldSlots
<1> QED  BY <1>2, <1>10 DEF Waits

\* The order in which the tables are locked; the goods that a request buys and
\* the slot that an upgrade adds are the exceptions.
TableRank(row) ==
  CASE row[1] \in {"stalls", "import_orders", "user_quests"} -> 1
    [] row[1] = "stall_slots" -> 2
    [] row[1] \in {"inventory", "products"} -> 3
    [] row[1] = "user_wallets" -> 4
    [] row[1] = "users" -> 5

LEMMA Ranks ==
  /\ TableRank(Stall) = 1 /\ TableRank(Wallet) = 4 /\ TableRank(User) = 5
  /\ \A x : /\ TableRank(Slot(x)) = 2 /\ TableRank(Stock(x)) = 3 /\ TableRank(Catalogue(x)) = 3
            /\ TableRank(Import(x)) = 1 /\ TableRank(Quest(x)) = 1
<1>1. TableRank(Stall) = 1 /\ TableRank(Wallet) = 4 /\ TableRank(User) = 5
  BY DEF TableRank, Stall, Wallet, User
<1>2. ASSUME NEW x PROVE TableRank(Slot(x)) = 2 /\ TableRank(Stock(x)) = 3
  BY DEF TableRank, Slot, Stock
<1>3. ASSUME NEW x PROVE TableRank(Catalogue(x)) = 3 /\ TableRank(Import(x)) = 1
  BY DEF TableRank, Catalogue, Import
<1>4. ASSUME NEW x PROVE TableRank(Quest(x)) = 1
  BY DEF TableRank, Quest
<1> QED  BY <1>1, <1>2, <1>3, <1>4

LEMMA RankGrows ==
  ASSUME NEW r \in TxRequests, NEW m, r.op # "import", NEW k \in 0..(Len(Fixed(r, m)) - 1),
         r.op = "upgrade" => k # 3
  PROVE  /\ TableRank(Fixed(r, m)[k + 1]) \in 1..5
         /\ \A i \in 1..k : TableRank(Fixed(r, m)[i]) < TableRank(Fixed(r, m)[k + 1])
<1>1. CASE r.op = "place"
  <2>1. Fixed(r, m) = <<Stall, Slot(r.slot), Stock(r.product)>>
    BY <1>1 DEF Fixed
  <2> QED  BY <2>1, Ranks
<1>2. CASE r.op = "collect"
  <2> DEFINE s == Slot(r.slot)
             c == Catalogue(m[Slot(r.slot)].product)
  <2>1. Fixed(r, m) = <<s, c, Wallet, User>>
    BY <1>2 DEF Fixed
  <2>2. TableRank(s) = 2 /\ TableRank(c) = 3 /\ TableRank(Wallet) = 4 /\ TableRank(User) = 5
    BY Ranks
  <2> HIDE DEF s, c
  <2> QED  BY <2>1, <2>2
<1>3. CASE r.op = "claim"
  <2> DEFINE s == Import(r.order)
             c == Stock(m[Import(r.order)].product)
  <2>1. Fixed(r, m) = <<s, c>>
    BY <1>3 DEF Fixed
  <2>2. TableRank(s) = 1 /\ TableRank(c) = 3
    BY Ranks
  <2> HIDE DEF s, c
  <2> QED  BY <2>1, <2>2
<1>4. CASE r.op = "sell"
  <2>1. Fixed(r, m) = <<Stock(r.product), Wallet>>
    BY <1>4 DEF Fixed
  <2> QED  BY <2>1, Ranks
<1>5. CASE r.op = "upgrade"
  <2> DEFINE c == NewSlot(m)
  <2>1. Fixed(r, m) = <<Stall, Wallet, User, c>>
    BY <1>5 DEF Fixed
  <2> HIDE DEF c
  <2>2. k \in 0..2
    BY <1>5, <2>1
  <2> QED  BY <2>1, <2>2, Ranks
<1>6. CASE r.op = "reward"
  <2>1. Fixed(r, m) = <<Quest(r.quest), Wallet>>
    BY <1>6 DEF Fixed
  <2> QED  BY <2>1, Ranks
<1>7. CASE r.op = "visit" \/ r.op = "list"
  <2>1. Fixed(r, m) = <<User>>
    BY <1>7 DEF Fixed
  <2> QED  BY <2>1, Ranks
<1> QED  BY <1>1, <1>2, <1>3, <1>4, <1>5, <1>6, <1>7, TxRequestCases

Stage(t) == CHOOSE k \in Nat : AtStage(t, k)
Awaited(t) == Fixed(request[t], seen[t])[Stage(t) + 1]

\* Along a chain of waiting transactions the rows they wait for only rise in
\* the order of the tables: the chain has an end.
LEMMA ChainsEnd ==
  ASSUME TxSound, Stages, QuestsCount, SlotRows, NEW D \in SUBSET Txns, Deadlocked(D),
         \A t \in D : request[t].op # "import" /\ ~Resetting(t)
  PROVE  FALSE
<1>1. \A t \in D : /\ t \in Txns /\ Running(t) /\ Accepted(t) /\ request[t] \in TxRequests
                   /\ \E u \in D : Waits(t, u)
  BY DEF Deadlocked, Waits, TxSound, LocksOwned, Running
<1>2. \A t \in D : Stage(t) \in Nat /\ AtStage(t, Stage(t))
  BY <1>1 DEF Stages, Stage
<1>3. \A t \in D : Stage(t) < Len(Fixed(request[t], seen[t]))
  BY <1>1, <1>2, QuestsUncontended
<1>4. \A t \in D : Stage(t) \in 0..(Len(Fixed(request[t], seen[t])) - 1)
  BY <1>1, <1>2, <1>3, FixedRows
<1>5. \A t \in D : request[t].op = "upgrade" => Stage(t) # 3
  BY <1>1, <1>2, <1>3, NewSlotFree
<1>6. ASSUME NEW t \in D
      PROVE  /\ TableRank(Awaited(t)) \in 1..5
             /\ \A i \in 1..Stage(t) :
                  TableRank(Fixed(request[t], seen[t])[i]) < TableRank(Awaited(t))
  BY <1>1, <1>4, <1>5, RankGrows DEF Awaited
<1>7. ASSUME NEW t \in D, NEW u \in D, Waits(t, u)
      PROVE  TableRank(Awaited(t)) < TableRank(Awaited(u))
  <2>1. Wanted(t) \subseteq {Awaited(t)}
    BY <1>1, <1>2, <1>3, WantedAt DEF Awaited
  <2>2. Awaited(t) \in Held(u)
    BY <1>7, <2>1 DEF Waits
  <2>3. Held(u) = FirstRows(request[u], seen[u], Stage(u))
    BY <1>2, <1>3 DEF AtStage
  <2>4. PICK i \in 1..Stage(u) : Awaited(t) = Fixed(request[u], seen[u])[i]
    BY <2>2, <2>3 DEF FirstRows
  <2> QED  BY <1>6, <2>4
<1> DEFINE K == {5 - TableRank(Awaited(t)) : t \in D}
<1>8. K \subseteq Nat /\ K # {}
  <2>1. \A t \in D : TableRank(Awaited(t)) \in 1..5
    BY <1>6
  <2>2. \A t \in D : 5 - TableRank(Awaited(t)) \in Nat
    BY <2>1
  <2>3. D # {}
    BY DEF Deadlocked
  <2> QED  BY <2>2, <2>3
<1>9. PICK j \in K : \A i \in K : j <= i
  BY <1>8, SmallestNumber
<1>10. PICK t \in D : j = 5 - TableRank(Awaited(t))
  BY <1>9
<1>11. PICK u \in D : Waits(t, u)
  BY <1>1
<1>12. j <= 5 - TableRank(Awaited(u))
  BY <1>9
<1>13. TableRank(Awaited(t)) < TableRank(Awaited(u))
  BY <1>7, <1>11
<1>14. TableRank(Awaited(t)) \in 1..5 /\ TableRank(Awaited(u)) \in 1..5
  BY <1>6
<1> QED  BY <1>10, <1>12, <1>13, <1>14

\* A player's requests block each other for good only if one of them buys goods,
\* which locks users before user_wallets, or resets quests, which locks users
\* before user_quests: all the others lock the tables in one order, but for the
\* slot an upgrade adds and the quests, and those nobody waits for who could be
\* waited for.
THEOREM NoOtherDeadlock == Spec => []DeadlockNeedsImportOrReset
<1>1. TxSound /\ Stages /\ QuestsCount /\ SlotRows => DeadlockNeedsImportOrReset
  BY ChainsEnd DEF DeadlockNeedsImportOrReset
<1>2. Spec => []QuestsCount /\ []SlotRows
  BY BooksBalance, PTL
<1> QED  BY <1>1, <1>2, TxAlwaysSound, StagesAlways, PTL

-----------------------------------------------------------------------------
(* How requests end.                                                        *)

\* What Refuse, Commit, CommitList and Lock need.
MayGoOn(t) ==
  \/ ~Accepted(t)
  \/ Wanted(t) = {}
  \/ \E row \in Wanted(t) : \A u \in Txns : row \notin Held(u)

\* A request that runs and cannot go on waits for another that runs.
LEMMA StuckWaits ==
  ASSUME LocksOwned, NEW t \in Txns, Running(t), ~MayGoOn(t)
  PROVE  \E u \in Txns : Running(u) /\ Waits(t, u)
<1>1. Accepted(t) /\ \E row \in Wanted(t) : \E u \in Txns : row \in Held(u)
  BY DEF MayGoOn
<1>2. PICK row \in Wanted(t) : \E u \in Txns : row \in Held(u)
  BY <1>1
<1>3. PICK u \in Txns : row \in Held(u)
  BY <1>2
<1>4. row \notin Held(t)
  BY <1>2 DEF Wanted, Remaining, Held
<1>5. u # t /\ Wanted(t) \cap Held(u) # {}
  BY <1>2, <1>3, <1>4
<1>6. Running(u)
  BY <1>3 DEF LocksOwned
<1> QED  BY <1>1, <1>5, <1>6 DEF Waits

\* Where each waits for another of them, some wait for each other.
LEMMA WaitingCloses ==
  ASSUME NEW S \in SUBSET Txns, S # {}, \A t \in S : \E u \in S : Waits(t, u)
  PROVE  \E D \in SUBSET Txns : Deadlocked(D)
<1> DEFINE Closed(D) == D # {} /\ \A t \in D : \E u \in D : Waits(t, u)
           F == {D \in SUBSET S : Closed(D)}
<1>1. IsFiniteSet(S) /\ F \subseteq SUBSET S /\ F # {}
  BY TxnsAssumption, FS_Subset
<1>2. PICK D \in F : \A E \in F : E \subseteq D => E = D
  <2> HIDE DEF F
  <2> QED  BY <1>1, SmallestSubset
<1>3. D \in SUBSET Txns /\ Closed(D)
  OBVIOUS
<1> DEFINE AwaitedBy == {u \in D : \E t \in D : Waits(t, u)}
<1>4. Closed(AwaitedBy)
  <2>1. PICK t \in D : TRUE
    BY <1>3
  <2>2. \E u \in D : Waits(t, u)
    BY <1>3
  <2>3. AwaitedBy # {}
    BY <2>1, <2>2
  <2>4. ASSUME NEW u \in AwaitedBy PROVE \E v \in AwaitedBy : Waits(u, v)
    BY <1>3
  <2> QED  BY <2>3, <2>4
<1>5. AwaitedBy = D
  BY <1>2, <1>3, <1>4
<1>6. \A u \in D : \E t \in D : Waits(t, u)
  BY <1>5
<1> QED  BY <1>3, <1>6 DEF Deadlocked

\* What a step does to a request that runs on: it keeps its rows, and what it
\* reads is a row more.
RequestsAdvance ==
  \A t \in Txns :
    Running(t) /\ Running(t)' =>
      /\ request'[t] = request[t]
      /\ Held(t) \subseteq Held(t)' /\ Held(t)' \subseteq Rows
      /\ seen'[t] # seen[t] => Held(t)' # Held(t)

LEMMA StepAdvances ==
  ASSUME LocksOwned, LocksOwned', Next
  PROVE  RequestsAdvance
<1> SUFFICES ASSUME NEW t \in Txns, Running(t), Running(t)'
             PROVE  /\ request'[t] = request[t]
                    /\ Held(t) \subseteq Held(t)' /\ Held(t)' \subseteq Rows
                    /\ seen'[t] # seen[t] => Held(t)' # Held(t)
  BY DEF RequestsAdvance
<1>1. Held(t)' \subseteq Rows
  BY DEF LocksOwned
<1>2. CASE request'[t] = request[t] /\ seen'[t] = seen[t]
  BY <1>1, <1>2 DEF Held
<1>3. ASSUME NEW u \in Txns, Begin(u)
      PROVE  request'[t] = request[t] /\ seen'[t] = seen[t]
  <2>1. u # t
    BY <1>3 DEF Begin
  <2> QED  BY <1>3, <2>1 DEF Begin, LocksOwned
<1>4. ASSUME NEW u \in Txns, End(u)
      PROVE  request'[t] = request[t] /\ seen'[t] = seen[t]
  <2>1. u # t
    BY <1>4 DEF End, Running, LocksOwned
  <2> QED  BY <1>4, <2>1 DEF End, LocksOwned
<1>5. ASSUME NEW u \in Txns, Lock(u), u # t
      PROVE  request'[t] = request[t] /\ seen'[t] = seen[t]
  BY <1>5 DEF Lock, LocksOwned
<1>6. CASE Lock(t)
  <2>1. PICK row \in Wanted(t) :
          seen' = [seen EXCEPT ![t] = [x \in Held(t) \cup {row} |->
                                         IF x = row THEN db[row] ELSE seen[t][x]]]
    BY <1>6 DEF Lock
  <2>2. row \notin Held(t)
    BY <2>1 DEF Wanted, Remaining, Held
  <2>3. Held(t)' = Held(t) \cup {row}
    BY <2>1 DEF LocksOwned, Held
  <2>4. request' = request
    BY <1>6 DEF Lock
  <2> QED  BY <1>1, <2>2, <2>3, <2>4
<1>7. CASE Clock
  BY <1>2, <1>7 DEF Clock
<1> QED
  BY <1>2, <1>3, <1>4, <1>5, <1>6, <1>7 DEF Next, Commit, CommitList, Refuse, Rollback,
     Victim

\* The requests of the shop never come to a standstill: as long as one runs, one
\* can be refused, committed or granted a lock, or some wait for each other and
\* the database fails one of them; and a request that runs on only ever adds a
\* row to those it has.  With the fairness of FairSpec this is why RequestsEnd
\* holds.
THEOREM NoStandstill ==
  Spec => /\ []((\E t \in Txns : Running(t)) =>
                   \/ \E t \in Txns : Running(t) /\ MayGoOn(t)
                   \/ \E D \in SUBSET Txns : Deadlocked(D))
          /\ [][RequestsAdvance]_vars
<1> DEFINE Moves == (\E t \in Txns : Running(t)) =>
                      \/ \E t \in Txns : Running(t) /\ MayGoOn(t)
                      \/ \E D \in SUBSET Txns : Deadlocked(D)
<1>1. TxSound => Moves
  <2> SUFFICES ASSUME TxSound, \E t \in Txns : Running(t),
                      \A t \in Txns : Running(t) => ~MayGoOn(t)
               PROVE  \E D \in SUBSET Txns : Deadlocked(D)
    OBVIOUS
  <2> DEFINE S == {t \in Txns : Running(t)}
  <2>1. \A t \in S : \E u \in S : Waits(t, u)
    BY StuckWaits DEF TxSound
  <2>2. S \in SUBSET Txns /\ S # {}
    OBVIOUS
  <2> HIDE DEF S
  <2> QED  BY <2>1, <2>2, WaitingCloses
<1>2. TxSound /\ TxSound' /\ [Next]_vars => [RequestsAdvance]_vars
  BY StepAdvances DEF TxSound
<1>3. Spec => []Moves
  BY <1>1, TxAlwaysSound, PTL
<1>4. Spec => [][RequestsAdvance]_vars
  BY <1>2, TxAlwaysSound, PTL DEF Spec
<1> QED  BY <1>3, <1>4
=============================================================================
