----------------------------- MODULE StallProofs -----------------------------
(***************************************************************************)
(* The scene, for any number of slots and customers: a sale ends with a    *)
(* buyer, because a customer whose harvest timer runs has not turned to    *)
(* leave; and customers do not share slots, because one who comes in finds *)
(* a slot that nobody has.                                                 *)
(*                                                                         *)
(* The page, for any number of slots, collects and lost calls: what makes  *)
(* QuietSynced inductive is what an answer under way is worth.  Unless a   *)
(* mutation is still to settle, whose settling discards it, it agrees with *)
(* the server, or the page was never told of the change.                   *)
(***************************************************************************)
EXTENDS StallScene, StallPage, FiniteSetTheorems, FunctionTheorems, TLAPS

CustomerRows == [state : {"away", "walking_in", "buying", "leaving"},
                 slotIndex : Slots \cup {NoSlot}, timer : BOOLEAN]

RowOK(row) == /\ row.timer => row.state = "buying"
              /\ row.state # "away" => row.slotIndex \in Slots

\* The customers keep their type when one of them has a new row.
LEMMA CustomerType ==
  ASSUME SceneTypeOK, NEW c \in Customers, NEW row \in CustomerRows,
         RowOK(row),
         customers' = [customers EXCEPT ![c] = row]
  PROVE  /\ customers' \in [Customers -> CustomerRows]
         /\ \A d \in Customers : RowOK(customers'[d])
BY DEF SceneTypeOK, CustomerRows, RowOK

LEMMA SpawnType ==
  ASSUME SceneTypeOK, NEW s, NEW i \in Slots, spawnCustomer(s, i)
  PROVE  /\ customers' \in [Customers -> CustomerRows]
         /\ \A d \in Customers : RowOK(customers'[d])
<1>1. PICK c \in Customers : customers' = [customers EXCEPT ![c] = Customer("walking_in", i, FALSE)]
  BY DEF spawnCustomer
<1>2. /\ Customer("walking_in", i, FALSE) \in CustomerRows
      /\ RowOK(Customer("walking_in", i, FALSE))
  BY DEF Customer, CustomerRows, RowOK
<1> QED  BY <1>1, <1>2, CustomerType

\* The slots and customers that a step leaves, split from what they were.
LEMMA SceneTypeFrom ==
  ASSUME slots' \in [Slots -> SlotStates] /\ sold' \in SUBSET Slots,
         customers' \in [Customers -> CustomerRows],
         \A d \in Customers : RowOK(customers'[d])
  PROVE  SceneTypeOK'
BY DEF SceneTypeOK, SlotStates, CustomerRows, RowOK

LEMMA SlotStepKeepsType ==
  ASSUME SceneTypeOK, NEW i \in Slots,
         Spawn(i) \/ SellOut(i) \/ handleSlotClick(i) \/ placeProduct(i)
  PROVE  SceneTypeOK'
<1> DEFINE CustomersOK ==
      /\ customers \in [Customers -> CustomerRows]
      /\ \A d \in Customers : RowOK(customers[d])
<1>1. slots \in [Slots -> SlotStates] /\ CustomersOK
  BY DEF SceneTypeOK, SlotStates, CustomerRows, RowOK
<1>2. slots' \in [Slots -> SlotStates] /\ sold' \in SUBSET Slots
  BY <1>1 DEF Spawn, SellOut, handleSlotClick, harvestSlot, placeProduct, SceneTypeOK, SlotStates
<1>3. CASE UNCHANGED customers
  BY <1>1, <1>2, <1>3, SceneTypeFrom
<1>4. CASE \E s, j : j \in Slots /\ spawnCustomer(s, j)
  <2>1. CustomersOK'
    BY <1>4, SpawnType
  <2> QED  BY <1>2, <2>1, SceneTypeFrom
<1>5. UNCHANGED customers \/ \E s, j : j \in Slots /\ spawnCustomer(s, j)
  BY DEF Spawn, SellOut, handleSlotClick, placeProduct
<1> QED  BY <1>3, <1>4, <1>5

LEMMA CustomerStepKeepsType ==
  ASSUME SceneTypeOK, NEW c \in Customers, CustomerStep(c)
  PROVE  SceneTypeOK'
<1>1. /\ slots \in [Slots -> SlotStates]
      /\ customers[c] \in CustomerRows /\ RowOK(customers[c])
  BY DEF SceneTypeOK, SlotStates, CustomerRows, RowOK
<1>0. Arrive(c) \/ AutoHarvest(c) \/ MissHarvest(c) \/ Leave(c) \/ Exit(c)
  BY DEF CustomerStep
<1>2. slots' \in [Slots -> SlotStates] /\ sold' \in SUBSET Slots
  <2>1. CASE AutoHarvest(c)
    <3>1. customers[c].slotIndex \in Slots
      BY <1>1, <2>1 DEF AutoHarvest, RowOK
    <3> QED  BY <1>1, <2>1, <3>1 DEF AutoHarvest, harvestSlot, SceneTypeOK, SlotStates
  <2>2. CASE Arrive(c) \/ MissHarvest(c) \/ Leave(c) \/ Exit(c)
    BY <1>1, <2>2 DEF Arrive, MissHarvest, Leave, Exit, SceneTypeOK, SlotStates
  <2> QED  BY <1>0, <2>1, <2>2
<1>3. CASE Arrive(c)
  <2> DEFINE row == Customer("buying", customers[c].slotIndex, slots[customers[c].slotIndex] = "ready")
  <2>1. row \in CustomerRows /\ RowOK(row)
    BY <1>1, <1>3 DEF Arrive, Customer, CustomerRows, RowOK
  <2>2. customers' = [customers EXCEPT ![c] = row]
    BY <1>3 DEF Arrive
  <2> HIDE DEF row
  <2> QED  BY <1>2, <2>1, <2>2, CustomerType, SceneTypeFrom
<1>4. CASE AutoHarvest(c) \/ MissHarvest(c)
  <2> DEFINE row == [customers[c] EXCEPT !.timer = FALSE]
  <2>1. row \in CustomerRows
    BY <1>1 DEF CustomerRows
  <2>2. RowOK(row)
    BY <1>1 DEF CustomerRows, RowOK
  <2>3. customers' = [customers EXCEPT ![c] = row]
    BY <1>4 DEF AutoHarvest, MissHarvest
  <2> HIDE DEF row
  <2> QED  BY <1>2, <2>1, <2>2, <2>3, CustomerType, SceneTypeFrom
<1>5. CASE Leave(c)
  BY <1>2, <1>5 DEF SceneTypeOK, Leave, SlotStates
<1>6. CASE Exit(c)
  <2>1. /\ Customer("away", NoSlot, FALSE) \in CustomerRows
        /\ RowOK(Customer("away", NoSlot, FALSE))
    BY DEF Customer, CustomerRows, RowOK
  <2>2. customers' = [customers EXCEPT ![c] = Customer("away", NoSlot, FALSE)]
    BY <1>6 DEF Exit
  <2> QED  BY <1>2, <2>1, <2>2, CustomerType, SceneTypeFrom
<1> QED  BY <1>0, <1>3, <1>4, <1>5, <1>6

LEMMA SnapshotKeepsType == SceneTypeOK /\ Snapshot => SceneTypeOK'
BY DEF Snapshot, sync_slots, SceneTypeOK

LEMMA SceneTypeStep == SceneTypeOK /\ [SceneNext]_sceneVars => SceneTypeOK'
<1> SUFFICES ASSUME SceneTypeOK, [SceneNext]_sceneVars PROVE SceneTypeOK'
  OBVIOUS
<1>1. CASE SceneNext
  BY <1>1, SlotStepKeepsType, CustomerStepKeepsType, SnapshotKeepsType DEF SceneNext
<1>2. CASE UNCHANGED sceneVars
  BY <1>2 DEF sceneVars, SceneTypeOK
<1> QED  BY <1>1, <1>2

-----------------------------------------------------------------------------
\* Types, and that no customer leaves while its harvest timer runs
\* (StallScene.ts:942-980).
THEOREM SceneTypeCorrect == SceneSpec => []SceneTypeOK
<1>1. SceneInit => SceneTypeOK
  BY DEF SceneInit, SceneTypeOK, Customer, SlotStates
<1>2. SceneTypeOK /\ [SceneNext]_sceneVars => SceneTypeOK'
  BY SceneTypeStep
<1> QED  BY <1>1, <1>2, PTL DEF SceneSpec

\* A sale ends only with a customer at its slot: what sells a slot is a click
\* beside a buying customer or the timer of one (StallScene.ts:623-647,
\* 730-754, 942-948), whatever the snapshots were.
THEOREM HarvestsHaveBuyers == SceneSpec => HarvestNeedsBuyer
<1> DEFINE Sold == \A i \in sold' \ sold : slots[i] = "ready" /\ Buying(i)
<1>1. SceneTypeOK /\ [SceneNext]_sceneVars => [Sold]_sceneVars
  <2> SUFFICES ASSUME SceneTypeOK, SceneNext, NEW i \in sold' \ sold
               PROVE  slots[i] = "ready" /\ Buying(i)
    BY DEF sceneVars
  <2>1. CASE \E j \in Slots : handleSlotClick(j)
    BY <2>1 DEF handleSlotClick, harvestSlot
  <2>2. CASE \E c \in Customers : AutoHarvest(c)
    <3>1. PICK c \in Customers : AutoHarvest(c)
      BY <2>2
    <3>2. customers[c].slotIndex = i /\ slots[i] = "ready"
      BY <3>1 DEF AutoHarvest, harvestSlot
    <3>3. customers[c].state = "buying"
      BY <3>1 DEF AutoHarvest, SceneTypeOK
    <3> QED  BY <3>2, <3>3 DEF Buying
  <2>3. CASE Snapshot \/ \E j \in Slots : Spawn(j) \/ SellOut(j) \/ placeProduct(j)
    BY <2>3 DEF Snapshot, Spawn, SellOut, sync_slots, placeProduct
  <2>4. CASE \E c \in Customers : Arrive(c) \/ MissHarvest(c) \/ Leave(c) \/ Exit(c)
    BY <2>4 DEF Arrive, MissHarvest, Leave, Exit
  <2> QED  BY <2>1, <2>2, <2>3, <2>4 DEF SceneNext, CustomerStep
<1>2. SceneSpec => []SceneTypeOK
  BY SceneTypeCorrect
<1> QED  BY <1>1, <1>2, PTL DEF SceneSpec, HarvestNeedsBuyer

-----------------------------------------------------------------------------
(* Customers do not share slots.                                            *)

\* Fewer slots have a customer than there are, as long as somebody is away.
LEMMA SlotLeft ==
  ASSUME NEW c \in Customers \ activeCustomers
  PROVE  Slots \ Targeted # {}
<1> DEFINE f == [d \in activeCustomers |-> customers[d].slotIndex]
<1>1. /\ IsFiniteSet(activeCustomers)
      /\ Cardinality(activeCustomers) < Cardinality(Customers)
      /\ Cardinality(activeCustomers) \in Nat
  <2>1. activeCustomers \subseteq Customers /\ activeCustomers # Customers
    BY DEF activeCustomers
  <2>2. Cardinality(Customers) \in Nat
    BY SceneAssumption, FS_CardinalityType
  <2> QED  BY <2>1, <2>2, SceneAssumption, FS_Subset, FS_CardinalityType
<1>2. f \in Surjection(activeCustomers, Targeted)
  <2>1. f \in [activeCustomers -> Targeted]
    BY DEF Targeted
  <2>2. \A i \in Targeted : \E d \in activeCustomers : f[d] = i
    BY DEF Targeted
  <2> QED  BY <2>1, <2>2, Fun_IsSurj
<1>3. IsFiniteSet(Targeted) /\ Cardinality(Targeted) <= Cardinality(activeCustomers)
  BY <1>1, <1>2, FS_Surjection
<1>4. Slots \subseteq Targeted => Cardinality(Slots) <= Cardinality(Targeted)
  BY <1>3, FS_Subset
<1>5. /\ Cardinality(Targeted) \in Nat
      /\ Cardinality(Slots) \in Nat
      /\ Cardinality(Customers) \in Nat
  BY <1>3, SceneAssumption, FS_CardinalityType
<1> QED  BY <1>1, <1>3, <1>4, <1>5, SceneAssumption

\* Then a new customer gets one that nobody has: its last resort is not needed.
LEMMA NewCustomerFindsRoom ==
  ASSUME NEW s, NEW i, NEW c \in Customers \ activeCustomers, i \in Eligible(s)
  PROVE  i \in Slots /\ i \notin Targeted
<1> DEFINE groups == << {j \in Slots : s[j] = "ready"} \ Targeted,
                        {j \in Slots : s[j] = "selling"} \ Targeted,
                        Slots \ Targeted,
                        Slots >>
           Chosen(k) == groups[k] # {} /\ \A j \in 1..(k - 1) : groups[j] = {}
           first == CHOOSE k \in 1..4 : Chosen(k)
<1>1. \E k \in 1..4 : Chosen(k)
  <2>1. CASE groups[1] # {}
    BY <2>1
  <2>2. CASE groups[1] = {} /\ groups[2] # {}
    BY <2>2
  <2>3. CASE groups[1] = {} /\ groups[2] = {}
    <3>1. groups[3] # {}
      BY SlotLeft
    <3>2. \A j \in 1..2 : groups[j] = {}
      BY <2>3
    <3> QED  BY <3>1, <3>2
  <2> QED  BY <2>1, <2>2, <2>3
<1>2. first \in 1..4 /\ Chosen(first)
  BY <1>1
<1>3. first # 4
  <2>1. groups[3] # {} /\ 3 \in 1..(4 - 1)
    BY SlotLeft
  <2> QED  BY <1>2, <2>1
<1>4. Eligible(s) = groups[first]
  BY DEF Eligible
<1>5. first = 1 \/ first = 2 \/ first = 3
  <2>1. first \in 1..4
    BY <1>2
  <2> HIDE DEF first
  <2> QED  BY <1>3, <2>1
<1>6. i \in groups[first]
  BY <1>4
<1> HIDE DEF first
<1>7. groups[1] \subseteq Slots \ Targeted /\ groups[2] \subseteq Slots \ Targeted
      /\ groups[3] \subseteq Slots \ Targeted
  OBVIOUS
<1> HIDE DEF groups
<1> QED  BY <1>5, <1>6, <1>7

LEMMA SpawnKeepsApart ==
  ASSUME SceneTypeOK, OneCustomerPerSlot, NEW s, NEW i \in Slots, spawnCustomer(s, i)
  PROVE  OneCustomerPerSlot'
<1>1. PICK c \in Customers \ activeCustomers :
        customers' = [customers EXCEPT ![c] = Customer("walking_in", i, FALSE)]
  BY DEF spawnCustomer
<1>2. i \notin Targeted
  BY NewCustomerFindsRoom DEF spawnCustomer
<1>3. /\ customers'[c].slotIndex = i /\ activeCustomers' = activeCustomers \cup {c}
      /\ \A d \in activeCustomers : customers'[d] = customers[d]
  BY <1>1 DEF SceneTypeOK, activeCustomers, Customer
<1>4. \A d \in activeCustomers : customers[d].slotIndex # i
  BY <1>2 DEF Targeted
<1> QED  BY <1>3, <1>4 DEF OneCustomerPerSlot

\* A step that changes no slot of a customer and brings nobody in.
LEMMA StayApart ==
  ASSUME OneCustomerPerSlot, activeCustomers' \subseteq activeCustomers,
         \A d \in activeCustomers' : customers'[d].slotIndex = customers[d].slotIndex
  PROVE  OneCustomerPerSlot'
BY DEF OneCustomerPerSlot

LEMMA ApartStep ==
  SceneTypeOK /\ OneCustomerPerSlot /\ [SceneNext]_sceneVars => OneCustomerPerSlot'
<1> SUFFICES ASSUME SceneTypeOK, OneCustomerPerSlot, [SceneNext]_sceneVars
             PROVE  OneCustomerPerSlot'
  OBVIOUS
<1>1. CASE \E i \in Slots : Spawn(i)
  BY <1>1, SpawnKeepsApart DEF Spawn
<1>2. CASE UNCHANGED customers
  BY <1>2 DEF OneCustomerPerSlot, activeCustomers
<1>3. CASE \E i \in Slots : SellOut(i)
  BY <1>2, <1>3, SpawnKeepsApart DEF SellOut
<1>4. ASSUME NEW c \in Customers, Arrive(c) \/ AutoHarvest(c) \/ MissHarvest(c) \/ Leave(c)
      PROVE  OneCustomerPerSlot'
  <2>1. /\ customers[c].state # "away"
        /\ \A d \in Customers : /\ customers'[d].slotIndex = customers[d].slotIndex
                                /\ d # c => customers'[d].state = customers[d].state
    BY <1>4 DEF Arrive, AutoHarvest, MissHarvest, Leave, Customer, SceneTypeOK
  <2>2. activeCustomers' \subseteq activeCustomers
    BY <2>1 DEF activeCustomers
  <2> QED  BY <2>1, <2>2, StayApart DEF activeCustomers
<1>5. ASSUME NEW c \in Customers, Exit(c) PROVE OneCustomerPerSlot'
  <2>1. /\ \A d \in Customers \ {c} : customers'[d] = customers[d]
        /\ customers'[c].state = "away"
    BY <1>5 DEF Exit, Customer, SceneTypeOK
  <2>2. activeCustomers' = activeCustomers \ {c}
    BY <2>1 DEF activeCustomers
  <2> QED  BY <2>1, <2>2, StayApart DEF activeCustomers
<1> QED  BY <1>1, <1>2, <1>3, <1>4, <1>5
         DEF SceneNext, CustomerStep, Snapshot, sceneVars, handleSlotClick, sync_slots,
             placeProduct

\* No two customers have the same slot, for any number of customers up to the
\* number of slots: spawnCustomer's last resort is never needed
\* (StallScene.ts:508-560).
THEOREM CustomersApart == SceneSpec => []OneCustomerPerSlot
<1>1. SceneInit => OneCustomerPerSlot
  BY DEF SceneInit, OneCustomerPerSlot, activeCustomers, Customer
<1> QED  BY <1>1, SceneTypeCorrect, ApartStep, PTL DEF SceneSpec

-----------------------------------------------------------------------------
(* The page.                                                                  *)

CoinsFollow ==
  ~Settling /\ "coins" \notin missed =>
    /\ fetch["coins"].pc = "idle" => shown.coins = coins
    /\ fetch["coins"].pc = "answered" => fetch["coins"].answer.coins = coins

SlotsFollow ==
  ~Settling /\ place.pc # "placed" /\ "slots" \notin missed =>
    /\ fetch["slots"].pc = "idle" => SlotsAgree(shown.slots)
    /\ fetch["slots"].pc = "answered" => SlotsAgree(fetch["slots"].answer.slots)

Answers == [slots : Views, coins : Nat]

USE PageAssumption, SlotsAssumption DEF SlotStates

-----------------------------------------------------------------------------
(* Types.                                                                   *)

LEMMA BlankType == Blank \in Answers /\ Blank.slots \in Views /\ Blank.coins = 0
BY DEF Blank, Shown, Answers, Views

LEMMA ViewType == TypeOK => View \in Views
<1> SUFFICES ASSUME TypeOK, NEW i \in Slots
             PROVE  [empty |-> "empty", selling |-> "selling", closing |-> "ready",
                     over |-> "ready"][server[i]] \in {"empty", "selling", "ready"}
  BY DEF View, Views
<1>1. server[i] \in {"empty", "selling", "closing", "over"}
  BY DEF TypeOK
<1> QED  BY <1>1

\* Any request in place of a query's keeps the type.
LEMMA FetchType ==
  ASSUME TypeOK, NEW q \in Queries, NEW pc \in {"idle", "sent", "answered"}, NEW a \in Answers,
         fetch' = [fetch EXCEPT ![q] = Fetch(pc, a)]
  PROVE  fetch' \in [Queries -> [pc : {"idle", "sent", "answered"},
                                 answer : [slots : Views, coins : Nat]]]
<1>1. Fetch(pc, a) \in [pc : {"idle", "sent", "answered"}, answer : [slots : Views, coins : Nat]]
  BY DEF Fetch, Answers
<1> HIDE DEF Fetch
<1> QED  BY <1>1 DEF TypeOK

LEMMA AllFetchType ==
  /\ cancelQueries \in [Queries -> [pc : {"idle", "sent", "answered"},
                                    answer : [slots : Views, coins : Nat]]]
  /\ invalidateQueries \in [Queries -> [pc : {"idle", "sent", "answered"},
                                        answer : [slots : Views, coins : Nat]]]
BY BlankType DEF cancelQueries, invalidateQueries, Fetch, Idle, Answers

LEMMA CollectType ==
  ASSUME TypeOK, NEW m \in Collects,
         NEW pc \in {"unused", "sent", "answered", "late", "settled"},
         NEW i \in Slots \cup {NoSlot}, NEW a \in Answers,
         collect' = [collect EXCEPT ![m] = Collect(pc, i, a)]
  PROVE  collect' \in [Collects -> [pc : {"unused", "sent", "answered", "late", "settled"},
                                    slotId : Slots \cup {NoSlot},
                                    previous : [slots : Views, coins : Nat]]]
<1>1. Collect(pc, i, a) \in [pc : {"unused", "sent", "answered", "late", "settled"},
                             slotId : Slots \cup {NoSlot}, previous : [slots : Views, coins : Nat]]
  BY DEF Collect, Answers
<1> HIDE DEF Collect
<1> QED  BY <1>1 DEF TypeOK

\* A collect changes the server within the types, and only together with the coins.
LEMMA CollectSlotType ==
  ASSUME TypeOK, NEW i, CollectSlot(i)
  PROVE  /\ server' \in [Slots -> {"empty", "selling", "closing", "over"}]
         /\ coins' \in Nat
BY DEF CollectSlot, TypeOK

-----------------------------------------------------------------------------
(* The steps.                                                               *)

PageInv == TypeOK /\ CoinsFollow /\ SlotsFollow

LEMMA PageInvInit == Init => PageInv
<1> SUFFICES ASSUME Init PROVE PageInv
  OBVIOUS
<1>1. TypeOK
  <2>1. slots \in Views /\ server \in [Slots -> {"empty", "selling", "closing", "over"}]
    BY DEF Init, Views
  <2>2. fetch \in [Queries -> [pc : {"idle", "sent", "answered"},
                               answer : [slots : Views, coins : Nat]]]
    BY AllFetchType DEF Init, cancelQueries
  <2>3. Collect("unused", NoSlot, Blank)
          \in [pc : {"unused", "sent", "answered", "late", "settled"},
              slotId : Slots \cup {NoSlot}, previous : [slots : Views, coins : Nat]]
    BY BlankType DEF Collect, Answers
  <2>4. /\ coins \in Nat /\ missed \subseteq Queries /\ lost \in 0..MaxLost
        /\ place \in [pc : {"none", "sent", "placed", "refused", "late"},
                     slotId : Slots \cup {NoSlot}]
        /\ shown \in [slots : Views, coins : Nat]
    BY BlankType DEF Init, Place, NoPlace, Answers
  <2>5. unrendered \in BOOLEAN
    BY DEF Init
  <2> HIDE DEF Collect
  <2> QED  BY <2>1, <2>2, <2>3, <2>4, <2>5 DEF Init, TypeOK
<1>2. CoinsFollow /\ SlotsFollow
  BY DEF Init, CoinsFollow, SlotsFollow, SlotsAgree, Blank, Shown, Fetch, Idle, Queries
<1> QED  BY <1>1, <1>2 DEF PageInv

\* Steps of the scene, the clock and the page's requests to place: neither the
\* answers, nor the caches, nor which slots are empty at the server change.
LEMMA QuietStepKeepsFollow ==
  ASSUME PageInv, UNCHANGED <<coins, shown, fetch, collect, missed>>,
         \A i \in Slots : (server'[i] = "empty") = (server[i] = "empty"),
         place'.pc # "placed" => place.pc # "placed"
  PROVE  CoinsFollow' /\ SlotsFollow'
<1>1. Settling' = Settling
  BY DEF Settling
<1>2. CoinsFollow'
  BY <1>1 DEF PageInv, CoinsFollow
<1>3. SlotsFollow'
  BY <1>1 DEF PageInv, SlotsFollow, SlotsAgree
<1> QED  BY <1>2, <1>3

LEMMA ElapseKeepsInv == ASSUME PageInv, NEW i \in Slots, Elapse(i) PROVE PageInv'
<1>1. TypeOK'
  BY DEF PageInv, Elapse, TypeOK, netVars
<1>2. \A j \in Slots : (server'[j] = "empty") = (server[j] = "empty")
  BY DEF PageInv, Elapse, TypeOK
<1>3. CoinsFollow' /\ SlotsFollow'
  BY <1>2, QuietStepKeepsFollow DEF Elapse, netVars
<1> QED  BY <1>1, <1>3 DEF PageInv

LEMMA SceneKeepsInv ==
  ASSUME PageInv, (\E i \in Slots : CountDown(i)) \/ Render
  PROVE  PageInv'
<1>1. TypeOK'
  BY DEF PageInv, CountDown, Render, TypeOK, Views, netVars
<1>2. CoinsFollow' /\ SlotsFollow'
  BY QuietStepKeepsFollow DEF CountDown, Render, netVars
<1> QED  BY <1>1, <1>2 DEF PageInv

LEMMA RefusalKeepsInv ==
  ASSUME PageInv, (\E i \in Slots : handlePlaceItem(i)) \/ RefusePlace
  PROVE  PageInv'
<1>1. TypeOK'
  BY DEF PageInv, handlePlaceItem, RefusePlace, TypeOK, Place, NoPlace, netVars
<1>2. CoinsFollow' /\ SlotsFollow'
  BY QuietStepKeepsFollow DEF handlePlaceItem, RefusePlace, Place, NoPlace, netVars
<1> QED  BY <1>1, <1>2 DEF PageInv

LEMMA RefetchKeepsInv == ASSUME PageInv, NEW q \in Queries, Refetch(q) PROVE PageInv'
<1>1. TypeOK'
  <2>1. fetch' \in [Queries -> [pc : {"idle", "sent", "answered"},
                                answer : [slots : Views, coins : Nat]]]
    BY BlankType, FetchType DEF PageInv, Refetch
  <2> QED  BY <2>1 DEF PageInv, Refetch, TypeOK, netVars
<1>2. fetch'[q].pc = "sent" /\ \A r \in Queries \ {q} : fetch'[r] = fetch[r]
  BY DEF PageInv, Refetch, TypeOK, Fetch
<1>3. Settling' = Settling
  BY DEF Refetch, Settling
<1>4. CoinsFollow'
  BY <1>2, <1>3 DEF PageInv, CoinsFollow, Refetch, Queries, netVars
<1>5. SlotsFollow'
  BY <1>2, <1>3 DEF PageInv, SlotsFollow, Refetch, Queries, SlotsAgree, netVars
<1> QED  BY <1>1, <1>4, <1>5 DEF PageInv

\* An answer is what the server has when it gives it.
LEMMA ServeFetchKeepsInv == ASSUME PageInv, NEW q \in Queries, ServeFetch(q) PROVE PageInv'
<1> DEFINE a == IF q = "slots" THEN Shown(View, 0) ELSE Shown(Blank.slots, coins)
<1>1. fetch' = [fetch EXCEPT ![q] = Fetch("answered", a)] /\ missed' = missed \ {q}
  BY DEF ServeFetch
<1>2. a \in Answers
  BY BlankType, ViewType DEF PageInv, TypeOK, Shown, Answers
<1>3. /\ q = "slots" => \A i \in Slots : (a.slots[i] = "empty") = (server[i] = "empty")
      /\ q = "coins" => a.coins = coins
  <2>1. \A i \in Slots : (View[i] = "empty") = (server[i] = "empty")
    <3> SUFFICES ASSUME NEW i \in Slots PROVE (View[i] = "empty") = (server[i] = "empty")
      OBVIOUS
    <3>1. server[i] \in {"empty", "selling", "closing", "over"}
      BY DEF PageInv, TypeOK
    <3> QED  BY <3>1 DEF View
  <2>2. q = "slots" => a.slots = View
    BY DEF Shown
  <2>3. q = "coins" => a.coins = coins
    BY DEF Shown
  <2> QED  BY <2>1, <2>2, <2>3
<1> HIDE DEF a
<1>4. TypeOK'
  <2>1. fetch' \in [Queries -> [pc : {"idle", "sent", "answered"},
                                answer : [slots : Views, coins : Nat]]]
    BY <1>1, <1>2, FetchType DEF PageInv
  <2> QED  BY <1>1, <2>1 DEF PageInv, ServeFetch, TypeOK
<1>5. /\ fetch'[q].pc = "answered" /\ fetch'[q].answer = a
      /\ \A r \in Queries \ {q} : fetch'[r] = fetch[r] /\ (r \in missed' <=> r \in missed)
  BY <1>1 DEF PageInv, TypeOK, Fetch
<1>6. Settling' = Settling /\ UNCHANGED <<server, coins, shown, place>>
  BY DEF ServeFetch, Settling
<1>7. CoinsFollow'
  BY <1>3, <1>5, <1>6 DEF PageInv, CoinsFollow, Queries
<1>8. SlotsFollow'
  BY <1>3, <1>5, <1>6 DEF PageInv, SlotsFollow, Queries, SlotsAgree
<1> QED  BY <1>4, <1>7, <1>8 DEF PageInv

LEMMA LoseFetchKeepsInv == ASSUME PageInv, NEW q \in Queries, LoseFetch(q) PROVE PageInv'
<1>1. fetch' = [fetch EXCEPT ![q] = Fetch("idle", Blank)] /\ missed' = missed \cup {q}
  BY DEF LoseFetch, Idle
<1>2. TypeOK'
  <2>1. fetch' \in [Queries -> [pc : {"idle", "sent", "answered"},
                                answer : [slots : Views, coins : Nat]]]
    BY <1>1, BlankType, FetchType DEF PageInv
  <2> QED  BY <1>1, <2>1 DEF PageInv, LoseFetch, Lose, TypeOK
<1>3. \A r \in Queries \ {q} : fetch'[r] = fetch[r] /\ (r \in missed' <=> r \in missed)
  BY <1>1 DEF PageInv, TypeOK
<1>4. Settling' = Settling /\ UNCHANGED <<server, coins, shown, place>>
  BY DEF LoseFetch, Settling
<1>5. CoinsFollow'
  BY <1>1, <1>3, <1>4 DEF PageInv, CoinsFollow, Queries
<1>6. SlotsFollow'
  BY <1>1, <1>3, <1>4 DEF PageInv, SlotsFollow, Queries, SlotsAgree
<1> QED  BY <1>2, <1>5, <1>6 DEF PageInv

\* An answer that arrives replaces the cached value it is the answer to.
LEMMA FetchSlotsKeepsInv == ASSUME PageInv, FetchSlots PROVE PageInv'
<1> DEFINE s == fetch["slots"].answer.slots
<1>1. /\ shown' = [shown EXCEPT !.slots = s] /\ fetch' = [fetch EXCEPT !["slots"] = Idle]
      /\ setSlots(s) /\ fetch["slots"].pc = "answered"
      /\ UNCHANGED <<slots, server, coins, collect, place, missed, lost>>
  BY DEF FetchSlots, netVars
<1>2. s \in Views
  BY DEF PageInv, TypeOK, Queries
<1> HIDE DEF s
<1>3. unrendered' \in BOOLEAN
  BY <1>1 DEF setSlots, PageInv, TypeOK
<1>4. TypeOK'
  <2>1. fetch' \in [Queries -> [pc : {"idle", "sent", "answered"},
                                answer : [slots : Views, coins : Nat]]]
    BY <1>1, BlankType, FetchType DEF PageInv, Idle, Queries
  <2> QED  BY <1>1, <1>2, <1>3, <2>1 DEF PageInv, TypeOK
<1>5. /\ shown'.slots = s /\ shown'.coins = shown.coins
      /\ fetch'["coins"] = fetch["coins"] /\ Settling' = Settling
  BY <1>1 DEF PageInv, TypeOK, Settling, Queries
<1>6. CoinsFollow'
  BY <1>1, <1>5 DEF PageInv, CoinsFollow
<1>7. fetch'["slots"].pc = "idle"
  BY <1>1 DEF PageInv, TypeOK, Queries, Idle, Fetch
<1>8. SlotsFollow'
  BY <1>1, <1>5, <1>7 DEF PageInv, SlotsFollow, SlotsAgree, s
<1> QED  BY <1>4, <1>6, <1>8 DEF PageInv

LEMMA FetchCoinsKeepsInv == ASSUME PageInv, FetchCoins PROVE PageInv'
<1> DEFINE n == fetch["coins"].answer.coins
<1>1. /\ shown' = [shown EXCEPT !.coins = n] /\ fetch' = [fetch EXCEPT !["coins"] = Idle]
      /\ fetch["coins"].pc = "answered"
      /\ UNCHANGED <<slots, server, coins, unrendered, collect, place, missed, lost>>
  BY DEF FetchCoins, netVars
<1>2. n \in Nat
  BY DEF PageInv, TypeOK, Queries
<1> HIDE DEF n
<1>3. TypeOK'
  <2>1. fetch' \in [Queries -> [pc : {"idle", "sent", "answered"},
                                answer : [slots : Views, coins : Nat]]]
    BY <1>1, BlankType, FetchType DEF PageInv, Idle, Queries
  <2> QED  BY <1>1, <1>2, <2>1 DEF PageInv, TypeOK
<1>4. /\ shown'.coins = n /\ shown'.slots = shown.slots
      /\ fetch'["slots"] = fetch["slots"] /\ Settling' = Settling
  BY <1>1 DEF PageInv, TypeOK, Settling, Queries
<1>5. fetch'["coins"].pc = "idle"
  BY <1>1 DEF PageInv, TypeOK, Queries, Idle, Fetch
<1>6. CoinsFollow'
  BY <1>1, <1>4, <1>5 DEF PageInv, CoinsFollow, n
<1>7. SlotsFollow'
  BY <1>1, <1>4 DEF PageInv, SlotsFollow, SlotsAgree
<1> QED  BY <1>3, <1>6, <1>7 DEF PageInv

\* While a collect is to settle, nothing is claimed of answers and caches.
LEMMA SettlingFollows ==
  ASSUME NEW m \in Collects, collect'[m].pc \in {"sent", "answered"}
  PROVE  CoinsFollow' /\ SlotsFollow'
BY DEF CoinsFollow, SlotsFollow, Settling

\* Nor when both queries have just been sent again.
LEMMA InvalidatedFollows ==
  ASSUME fetch' = invalidateQueries
  PROVE  CoinsFollow' /\ SlotsFollow'
<1>1. fetch'["coins"].pc = "sent" /\ fetch'["slots"].pc = "sent"
  BY DEF invalidateQueries, Fetch, Queries
<1> QED  BY <1>1 DEF CoinsFollow, SlotsFollow

LEMMA HarvestKeepsInv ==
  ASSUME PageInv, NEW m \in Collects, NEW i \in Slots, Harvest(i, m)
  PROVE  PageInv'
<1> DEFINE s == [shown.slots EXCEPT ![i] = "empty"]
<1>1. /\ slots' = [slots EXCEPT ![i] = "empty"]
      /\ shown' = Shown(s, shown.coins + 1)
      /\ unrendered' = (unrendered \/ s # shown.slots)
      /\ collect' = [collect EXCEPT ![m] = Collect("sent", i, shown)]
      /\ fetch' = cancelQueries
      /\ UNCHANGED <<server, coins, place, missed, lost>>
  BY DEF Harvest, collectCoins, netVars
<1>2. s \in Views /\ slots' \in Views
  BY <1>1 DEF PageInv, TypeOK, Views
<1> HIDE DEF s
<1>3. unrendered' \in BOOLEAN
  BY <1>1
<1>4. collect' \in [Collects -> [pc : {"unused", "sent", "answered", "late", "settled"},
                                 slotId : Slots \cup {NoSlot},
                                 previous : [slots : Views, coins : Nat]]]
  <2>1. shown \in Answers
    BY DEF PageInv, TypeOK, Answers
  <2> QED  BY <1>1, <2>1, CollectType DEF PageInv
<1>5. shown' \in [slots : Views, coins : Nat]
  BY <1>1, <1>2 DEF PageInv, TypeOK, Shown
<1>6. TypeOK'
  BY <1>1, <1>2, <1>3, <1>4, <1>5, AllFetchType DEF PageInv, TypeOK
<1>7. collect'[m].pc = "sent"
  BY <1>1 DEF PageInv, TypeOK, Collect
<1> QED  BY <1>6, <1>7, SettlingFollows DEF PageInv

\* A collect whose state changes and nothing else of it.
LEMMA CollectPcType ==
  ASSUME TypeOK, NEW m \in Collects,
         NEW pc \in {"unused", "sent", "answered", "late", "settled"},
         collect' = [collect EXCEPT ![m].pc = pc]
  PROVE  /\ collect' \in [Collects -> [pc : {"unused", "sent", "answered", "late", "settled"},
                                       slotId : Slots \cup {NoSlot},
                                       previous : [slots : Views, coins : Nat]]]
         /\ collect'[m].pc = pc
BY DEF TypeOK

LEMMA ServeCollectKeepsInv ==
  ASSUME PageInv, NEW m \in Collects, ServeCollect(m)
  PROVE  PageInv'
<1>1. /\ CollectSlot(collect[m].slotId) /\ collect' = [collect EXCEPT ![m].pc = "answered"]
      /\ UNCHANGED <<slots, shown, unrendered, fetch, place, missed, lost>>
  BY DEF ServeCollect, netVars
<1>2. TypeOK'
  BY <1>1, CollectSlotType, CollectPcType DEF PageInv, TypeOK
<1>3. collect'[m].pc = "answered"
  BY <1>1, CollectPcType DEF PageInv
<1> QED  BY <1>2, <1>3, SettlingFollows DEF PageInv

LEMMA SettledType ==
  ASSUME TypeOK, NEW m \in Collects, collect' = [collect EXCEPT ![m] = Settled(m)]
  PROVE  collect' \in [Collects -> [pc : {"unused", "sent", "answered", "late", "settled"},
                                    slotId : Slots \cup {NoSlot},
                                    previous : [slots : Views, coins : Nat]]]
<1>1. collect[m].slotId \in Slots \cup {NoSlot}
  BY DEF TypeOK
<1>2. CASE collect[m].pc = "sent"
  BY <1>1, <1>2, BlankType, CollectType DEF Settled
<1>3. CASE collect[m].pc # "sent"
  BY <1>1, <1>3, BlankType, CollectType DEF Settled
<1> QED  BY <1>2, <1>3

LEMMA SettleCollectKeepsInv ==
  ASSUME PageInv, NEW m \in Collects, SettleCollect(m)
  PROVE  PageInv'
<1>1. /\ fetch' = invalidateQueries /\ collect' = [collect EXCEPT ![m] = Settled(m)]
      /\ UNCHANGED <<slots, server, coins, shown, unrendered, place, missed>>
      /\ lost' \in 0..MaxLost
  BY DEF SettleCollect, Lose, PageInv, TypeOK
<1>2. TypeOK'
  BY <1>1, AllFetchType, SettledType DEF PageInv, TypeOK
<1> QED  BY <1>1, <1>2, InvalidatedFollows DEF PageInv

LEMMA RollBackKeepsInv ==
  ASSUME PageInv, NEW m \in Collects, RollBackCollect(m)
  PROVE  PageInv'
<1>1. /\ fetch' = invalidateQueries /\ collect' = [collect EXCEPT ![m] = Settled(m)]
      /\ shown' = collect[m].previous /\ setSlots(collect[m].previous.slots)
      /\ UNCHANGED <<slots, server, coins, place, missed>>
      /\ lost' \in 0..MaxLost
  BY DEF RollBackCollect, Lose, PageInv, TypeOK
<1>2. shown' \in [slots : Views, coins : Nat]
  BY <1>1 DEF PageInv, TypeOK
<1>3. unrendered' \in BOOLEAN
  BY <1>1 DEF setSlots, PageInv, TypeOK
<1>4. TypeOK'
  BY <1>1, <1>2, <1>3, AllFetchType, SettledType DEF PageInv, TypeOK
<1> QED  BY <1>1, <1>4, InvalidatedFollows DEF PageInv

LEMMA ServeLateCollectKeepsInv ==
  ASSUME PageInv, NEW m \in Collects, ServeLateCollect(m)
  PROVE  PageInv'
<1>1. /\ CollectSlot(collect[m].slotId) /\ collect' = [collect EXCEPT ![m].pc = "settled"]
      /\ missed' = Queries
      /\ UNCHANGED <<slots, shown, unrendered, fetch, place, lost>>
  BY DEF ServeLateCollect
<1>2. TypeOK'
  BY <1>1, CollectSlotType, CollectPcType DEF PageInv, TypeOK
<1>3. CoinsFollow' /\ SlotsFollow'
  BY <1>1 DEF CoinsFollow, SlotsFollow, Queries
<1> QED  BY <1>2, <1>3 DEF PageInv

LEMMA ServePlaceKeepsInv == ASSUME PageInv, ServePlace PROVE PageInv'
<1>1. UNCHANGED <<slots, coins, shown, unrendered, fetch, collect, missed, lost>>
  BY DEF ServePlace, netVars
<1>2. CASE PlaceProduct(place.slotId) /\ place' = Place("placed", place.slotId)
  <2>1. TypeOK'
    BY <1>1, <1>2 DEF PageInv, TypeOK, PlaceProduct, Place
  <2>2. CoinsFollow'
    BY <1>1 DEF PageInv, CoinsFollow, Settling
  <2>3. place'.pc = "placed"
    BY <1>2 DEF Place
  <2> QED  BY <2>1, <2>2, <2>3 DEF PageInv, SlotsFollow
<1>3. CASE place' = Place("refused", place.slotId) /\ UNCHANGED server
  <2>1. TypeOK'
    BY <1>1, <1>3 DEF PageInv, TypeOK, Place
  <2>2. place'.pc # "placed" /\ place.pc # "placed"
    BY <1>3 DEF Place, ServePlace
  <2>3. CoinsFollow' /\ SlotsFollow'
    BY <1>1, <1>3, <2>2, QuietStepKeepsFollow
  <2> QED  BY <2>1, <2>3 DEF PageInv
<1> QED  BY <1>2, <1>3 DEF ServePlace

LEMMA SettlePlaceKeepsInv == ASSUME PageInv, SettlePlace PROVE PageInv'
<1>1. /\ fetch' = [fetch EXCEPT !["slots"] = Fetch("sent", Blank)]
      /\ slots' = [slots EXCEPT ![place.slotId] = "selling"] /\ place' = NoPlace
      /\ UNCHANGED <<server, coins, shown, unrendered, collect, missed, lost>>
  BY DEF SettlePlace, netVars
<1>2. TypeOK'
  <2>1. fetch' \in [Queries -> [pc : {"idle", "sent", "answered"},
                                answer : [slots : Views, coins : Nat]]]
    BY <1>1, BlankType, FetchType DEF PageInv, Queries
  <2>2. slots' \in Views
    BY <1>1 DEF PageInv, TypeOK, Views
  <2>3. place' \in [pc : {"none", "sent", "placed", "refused", "late"},
                    slotId : Slots \cup {NoSlot}]
    BY <1>1 DEF NoPlace, Place
  <2> QED  BY <1>1, <2>1, <2>2, <2>3 DEF PageInv, TypeOK
<1>3. fetch'["slots"].pc = "sent" /\ fetch'["coins"] = fetch["coins"]
  BY <1>1 DEF PageInv, TypeOK, Queries, Fetch
<1>4. CoinsFollow'
  BY <1>1, <1>3 DEF PageInv, CoinsFollow, Settling
<1>5. SlotsFollow'
  BY <1>3 DEF SlotsFollow
<1> QED  BY <1>2, <1>4, <1>5 DEF PageInv

LEMMA LosePlaceKeepsInv == ASSUME PageInv, LosePlace PROVE PageInv'
<1>1. /\ UNCHANGED <<slots, server, coins, shown, unrendered, fetch, collect>>
      /\ lost' \in 0..MaxLost
  BY DEF LosePlace, Lose, PageInv, TypeOK
<1>2. CASE place.pc = "sent" /\ place' = Place("late", place.slotId) /\ UNCHANGED missed
  <2>1. TypeOK'
    BY <1>1, <1>2 DEF PageInv, TypeOK, Place
  <2>2. CoinsFollow' /\ SlotsFollow'
    BY <1>1, <1>2, QuietStepKeepsFollow
  <2> QED  BY <2>1, <2>2 DEF PageInv
<1>3. CASE place' = NoPlace /\ missed' = missed \cup {"slots"}
  <2>1. TypeOK'
    BY <1>1, <1>3 DEF PageInv, TypeOK, Place, NoPlace, Queries
  <2>2. CoinsFollow'
    BY <1>1, <1>3 DEF PageInv, CoinsFollow, Settling
  <2>3. SlotsFollow'
    BY <1>3 DEF SlotsFollow
  <2> QED  BY <2>1, <2>2, <2>3 DEF PageInv
<1> QED  BY <1>2, <1>3 DEF LosePlace

LEMMA ServeLatePlaceKeepsInv == ASSUME PageInv, ServeLatePlace PROVE PageInv'
<1>1. /\ UNCHANGED <<slots, coins, shown, unrendered, fetch, collect, lost>>
      /\ place' = NoPlace /\ place.pc = "late"
  BY DEF ServeLatePlace
<1>2. CASE PlaceProduct(place.slotId) /\ missed' = missed \cup {"slots"}
  <2>1. TypeOK'
    BY <1>1, <1>2 DEF PageInv, TypeOK, PlaceProduct, Place, NoPlace, Queries
  <2>2. CoinsFollow'
    BY <1>1, <1>2 DEF PageInv, CoinsFollow, Settling
  <2>3. SlotsFollow'
    BY <1>2 DEF SlotsFollow
  <2> QED  BY <2>1, <2>2, <2>3 DEF PageInv
<1>3. CASE UNCHANGED <<server, missed>>
  <2>1. TypeOK'
    BY <1>1, <1>3 DEF PageInv, TypeOK, Place, NoPlace
  <2>2. CoinsFollow' /\ SlotsFollow'
    BY <1>1, <1>3, QuietStepKeepsFollow
  <2> QED  BY <2>1, <2>2 DEF PageInv
<1> QED  BY <1>2, <1>3 DEF ServeLatePlace

LEMMA PageInvStep == PageInv /\ [Next]_vars => PageInv'
<1> SUFFICES ASSUME PageInv, [Next]_vars PROVE PageInv'
  OBVIOUS
<1>1. CASE \E i \in Slots : Elapse(i) \/ CountDown(i) \/ handlePlaceItem(i)
  BY <1>1, ElapseKeepsInv, SceneKeepsInv, RefusalKeepsInv
<1>2. CASE \E m \in Collects, i \in Slots : Harvest(i, m)
  BY <1>2, HarvestKeepsInv
<1>3. CASE \E m \in Collects :
             ServeCollect(m) \/ SettleCollect(m) \/ RollBackCollect(m) \/ ServeLateCollect(m)
  BY <1>3, ServeCollectKeepsInv, SettleCollectKeepsInv, RollBackKeepsInv,
     ServeLateCollectKeepsInv
<1>4. CASE ServePlace \/ SettlePlace \/ RefusePlace \/ LosePlace \/ ServeLatePlace
  BY <1>4, ServePlaceKeepsInv, SettlePlaceKeepsInv, RefusalKeepsInv, LosePlaceKeepsInv,
     ServeLatePlaceKeepsInv
<1>5. CASE \E q \in Queries : Refetch(q) \/ ServeFetch(q) \/ LoseFetch(q)
  BY <1>5, RefetchKeepsInv, ServeFetchKeepsInv, LoseFetchKeepsInv
<1>6. CASE FetchSlots \/ FetchCoins \/ Render
  BY <1>6, FetchSlotsKeepsInv, FetchCoinsKeepsInv, SceneKeepsInv
<1>7. CASE UNCHANGED vars
  <2>1. TypeOK'
    BY <1>7 DEF vars, PageInv, TypeOK
  <2>2. CoinsFollow' /\ SlotsFollow'
    BY <1>7, QuietStepKeepsFollow DEF vars
  <2> QED  BY <2>1, <2>2 DEF PageInv
<1> QED  BY <1>1, <1>2, <1>3, <1>4, <1>5, <1>6, <1>7 DEF Next

LEMMA PageInvariant == Spec => []PageInv
<1>1. Init => PageInv
  BY PageInvInit
<1>2. PageInv /\ [Next]_vars => PageInv'
  BY PageInvStep
<1> QED  BY <1>1, <1>2, PTL DEF Spec

-----------------------------------------------------------------------------
\* The types of the page, its caches and its requests (useStall.ts).
THEOREM TypeCorrect == Spec => []TypeOK
<1>1. PageInv => TypeOK
  BY DEF PageInv
<1> QED  BY <1>1, PageInvariant, PTL

\* With no query and no mutation under way, what the page shows is what the
\* server has (useStall.ts:56-108), whatever was collected, rolled back or fetched in
\* which order, unless its last fetch was lost or it was never told of a change.
THEOREM PageFollowsServer == Spec => []QuietSynced
<1>1. PageInv => QuietSynced
  BY DEF PageInv, CoinsFollow, SlotsFollow, QuietSynced
<1> QED  BY <1>1, PageInvariant, PTL
=============================================================================
