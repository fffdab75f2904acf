------------------------------ MODULE StallScene ------------------------------
(***************************************************************************)
(* The stall as the player sees it (StallScene.ts): the slots of the       *)
(* canvas, their countdowns, and the customers who walk in, buy and leave. *)
(* A sale whose countdown is over waits for a customer; the harvest that   *)
(* a customer's arrival causes comes 150 ms later, by a timer.             *)
(*                                                                         *)
(* Each callback of the canvas (the ticker, a timer, a click, an event     *)
(* from React) is an action.  Positions, speeds and drawing are left out.  *)
(***************************************************************************)
EXTENDS Naturals, FiniteSets, StallSlots

CONSTANTS
  Customers    \* the customers that are on the screen at once: 3

\* A stall has three slots or more.
ASSUME SceneAssumption ==
  /\ IsFiniteSet(Slots) /\ IsFiniteSet(Customers) /\ Customers # {}
  /\ Cardinality(Customers) <= Cardinality(Slots)

VARIABLES
  customers,   \* customers[c]: a member of activeCustomers, or "away"
  sold         \* history: the slots that a harvest emptied, and nothing has changed since

sceneVars == <<slots, customers, sold>>

Customer(state, slotIndex, timer) ==
  [state |-> state, slotIndex |-> slotIndex, timer |-> timer]

SceneTypeOK ==
  /\ slots \in [Slots -> SlotStates]
  /\ customers \in [Customers -> [state : {"away", "walking_in", "buying", "leaving"},
                                  slotIndex : Slots \cup {NoSlot}, timer : BOOLEAN]]
  /\ \A c \in Customers : /\ customers[c].timer => customers[c].state = "buying"
                          /\ customers[c].state # "away" => customers[c].slotIndex \in Slots
  /\ sold \in SUBSET Slots

SceneInit ==
  /\ slots = [i \in Slots |-> "empty"]
  /\ customers = [c \in Customers |-> Customer("away", NoSlot, FALSE)]
  /\ sold = {}

activeCustomers == {c \in Customers : customers[c].state # "away"}

Buying(i) == \E c \in Customers : customers[c].state = "buying" /\ customers[c].slotIndex = i

-----------------------------------------------------------------------------
(* Customers.                                                               *)

\* Mutant: a slot is free again when its customer turns to leave.
TargetedByArrivals == {customers[c].slotIndex :
  c \in {d \in Customers : customers[d].state \in {"walking_in", "buying"}}}

Targeted == {customers[c].slotIndex : c \in activeCustomers}

\* A new customer prefers a ready slot, then one that sells, then any: of
\* those that no other customer has; in the end any slot.
Eligible(s) ==
  LET groups == << {i \in Slots : s[i] = "ready"} \ Targeted,
                   {i \in Slots : s[i] = "selling"} \ Targeted,
                   Slots \ Targeted,
                   Slots >>
      first == CHOOSE k \in 1..4 : groups[k] # {} /\ \A j \in 1..(k - 1) : groups[j] = {}
  IN groups[first]

\* A customer appears, the slots being s.
spawnCustomer(s, i) ==
  /\ i \in Eligible(s)
  /\ \E c \in Customers \ activeCustomers :
       customers' = [customers EXCEPT ![c] = Customer("walking_in", i, FALSE)]

\* The spawn timer's customer.
Spawn(i) == spawnCustomer(slots, i) /\ UNCHANGED <<slots, sold>>

\* Mutant: the arrival starts no timer.
ArriveIdle(c) ==
  /\ customers[c].state = "walking_in"
  /\ customers' = [customers EXCEPT ![c].state = "buying"]
  /\ UNCHANGED <<slots, sold>>

Arrive(c) ==
  /\ customers[c].state = "walking_in"
  /\ LET i == customers[c].slotIndex IN
       customers' = [customers EXCEPT ![c] = Customer("buying", i, slots[i] = "ready")]
  /\ UNCHANGED <<slots, sold>>

\* 2.5 or 4 s after the arrival, so after the harvest timer.
Leave(c) ==
  /\ customers[c].state = "buying" /\ ~customers[c].timer
  /\ customers' = [customers EXCEPT ![c].state = "leaving"]
  /\ UNCHANGED <<slots, sold>>

Exit(c) ==
  /\ customers[c].state = "leaving"
  /\ customers' = [customers EXCEPT ![c] = Customer("away", NoSlot, FALSE)]
  /\ UNCHANGED <<slots, sold>>

-----------------------------------------------------------------------------
(* Slots.                                                                   *)

\* The countdown is at zero: a customer comes at once, if there is room.
SellOut(i) ==
  /\ slots[i] = "selling"
  /\ slots' = [slots EXCEPT ![i] = "ready"]
  /\ UNCHANGED sold
  /\ IF activeCustomers = Customers THEN UNCHANGED customers
     ELSE \E j \in Slots : spawnCustomer([slots EXCEPT ![i] = "ready"], j)

harvestSlot(i) ==
  /\ slots[i] = "ready"
  /\ slots' = [slots EXCEPT ![i] = "empty"]
  /\ sold' = sold \cup {i}

\* The timer of a customer's arrival.
AutoHarvest(c) ==
  /\ customers[c].timer
  /\ harvestSlot(customers[c].slotIndex)
  /\ customers' = [customers EXCEPT ![c].timer = FALSE]

\* The same when a click or a snapshot was faster.
MissHarvest(c) ==
  /\ customers[c].timer
  /\ slots[customers[c].slotIndex] # "ready"
  /\ customers' = [customers EXCEPT ![c].timer = FALSE]
  /\ UNCHANGED <<slots, sold>>

\* Mutant: a click harvests without a customer.
handleSlotClickAlways(i) == harvestSlot(i) /\ UNCHANGED customers

\* A click on a slot that is not ready goes to the page.
handleSlotClick(i) == Buying(i) /\ harvestSlot(i) /\ UNCHANGED customers

placeProduct(i) ==
  /\ slots' = [slots EXCEPT ![i] = "selling"]
  /\ sold' = sold \ {i}
  /\ UNCHANGED customers

\* The page's list takes the place of all slots.
sync_slots(s) ==
  /\ slots' = s
  /\ sold' = {}
  /\ UNCHANGED customers

-----------------------------------------------------------------------------
(* The scene on its own, of one tab: the page places products in empty      *)
(* slots, and emits its cached list whenever that changes, at each harvest   *)
(* too, with the countdowns of its last fetch: ahead of the scene, older     *)
(* than a harvest, or setting a ready slot back.  It may be any list.        *)

Snapshot == \E s \in [Slots -> SlotStates] : sync_slots(s)

CustomerStep(c) == Arrive(c) \/ AutoHarvest(c) \/ MissHarvest(c) \/ Leave(c) \/ Exit(c)

SceneNext ==
  \/ \E i \in Slots :
       \/ Spawn(i) \/ SellOut(i) \/ handleSlotClick(i)
       \/ slots[i] = "empty" /\ placeProduct(i)
  \/ \E c \in Customers : CustomerStep(c)
  \/ Snapshot

SceneSpec == SceneInit /\ [][SceneNext]_sceneVars

\* The ticker and the timers run, and a customer's timer is up whatever became of
\* its slot.  The spawn timer comes again for ever and draws the slot at random,
\* so a slot that is eligible again and again is drawn in the end.  Nobody has to
\* click or to place anything.
SceneFairness ==
  /\ \A i \in Slots : SF_sceneVars(Spawn(i))
  /\ \A c \in Customers : WF_sceneVars(CustomerStep(c))

SceneFairSpec == SceneSpec /\ SceneFairness

-----------------------------------------------------------------------------
(* Properties.                                                              *)

\* With at least as many slots as customers, no two customers have the same
\* slot: the last resort of spawnCustomer, any slot, is never needed.
OneCustomerPerSlot ==
  \A c, d \in activeCustomers :
    customers[c].slotIndex = customers[d].slotIndex => c = d

\* A sale ends only with a customer at its slot (docs/PLAN-stall-npc-harvest.md:20),
\* by the timer or by a click, whichever comes first, also when the slot was
\* placed, set back or made ready by the page since the customer arrived.
HarvestNeedsBuyer ==
  [][\A i \in sold' \ sold : slots[i] = "ready" /\ Buying(i)]_sceneVars

\* No slot stays ready: without a click it is sold, also when the customer who
\* came before the countdown ended, or before a snapshot set the slot back and
\* forth, leaves without buying; or the page sets it back once more.
ReadyIsSold == \A i \in Slots : slots[i] = "ready" ~> slots[i] # "ready"
=============================================================================
