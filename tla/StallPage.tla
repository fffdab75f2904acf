------------------------------ MODULE StallPage ------------------------------
(***************************************************************************)
(* The stall page (stall/page.tsx, useStall.ts, usePlayer.ts) between the  *)
(* slots of the scene and the server's.                                    *)
(*                                                                         *)
(* The page shows what React Query caches of two queries, stallSlots and   *)
(* playerProfile.  A harvest changes both caches at once and posts the     *)
(* collect; whatever comes of it, the queries are fetched again when it    *)
(* has settled.  The scene gets the cached slots at the next render.       *)
(*                                                                         *)
(* One tab of a signed-in player, whose queries have been loaded.  Every   *)
(* sale brings one coin.  apiClient returns its failures; it throws only   *)
(* if a call that waited for a token refresh is lost the second time.      *)
(* When the scene harvests a ready slot is the subject of StallScene; here *)
(* any ready slot may be.                                                  *)
(***************************************************************************)
EXTENDS Naturals, StallSlots

CONSTANTS
  Collects,   \* the POST .../collect requests of the behaviour
  MaxLost     \* bound: the calls that the network loses

ASSUME PageAssumption == MaxLost \in Nat

VARIABLES
  server,     \* server[i]: "empty", "selling", "closing" or "over", see Elapse
  coins,      \* user_wallets.coins
  shown,      \* the caches: the slots and the coins of the profile
  unrendered, \* the cached slots have changed since the last render
  fetch,      \* fetch[q]: the request of query q under way, and its answer
  collect,    \* collect[m]: a collect mutation, and its snapshot for a rollback
  place,      \* the POST .../place under way
  missed,     \* history: the queries that a failed fetch, or a change the page
              \* was not told of, has left behind
  lost        \* history: how many calls were lost

netVars == <<missed, lost>>
vars == <<slots, server, coins, shown, unrendered, fetch, collect, place, missed, lost>>

Queries == {"slots", "coins"}
Views == [Slots -> SlotStates]

Shown(s, n) == [slots |-> s, coins |-> n]
Blank == Shown([i \in Slots |-> "empty"], 0)
Fetch(pc, answer) == [pc |-> pc, answer |-> answer]
Idle == Fetch("idle", Blank)
Collect(pc, i, previous) == [pc |-> pc, slotId |-> i, previous |-> previous]
Place(pc, i) == [pc |-> pc, slotId |-> i]
NoPlace == Place("none", NoSlot)

TypeOK ==
  /\ slots \in Views
  /\ server \in [Slots -> {"empty", "selling", "closing", "over"}]
  /\ coins \in Nat
  /\ shown \in [slots : Views, coins : Nat]
  /\ unrendered \in BOOLEAN
  /\ fetch \in [Queries -> [pc : {"idle", "sent", "answered"},
                            answer : [slots : Views, coins : Nat]]]
  /\ collect \in [Collects -> [pc : {"unused", "sent", "answered", "late", "settled"},
                               slotId : Slots \cup {NoSlot},
                               previous : [slots : Views, coins : Nat]]]
  /\ place \in [pc : {"none", "sent", "placed", "refused", "late"}, slotId : Slots \cup {NoSlot}]
  /\ missed \subseteq Queries
  /\ lost \in 0..MaxLost

Init ==
  /\ slots = [i \in Slots |-> "empty"]
  /\ server = [i \in Slots |-> "empty"]
  /\ coins = 0
  /\ shown = Blank
  /\ unrendered = FALSE
  /\ fetch = [q \in Queries |-> Idle]
  /\ collect = [m \in Collects |-> Collect("unused", NoSlot, Blank)]
  /\ place = NoPlace
  /\ missed = {}
  /\ lost = 0

-----------------------------------------------------------------------------
(* The server.                                                              *)

\* SellingService.Slots rounds the remaining time down to seconds: a sale in its
\* last second, "closing", is reported as ready and cannot be collected yet.
View == [i \in Slots |->
           [empty |-> "empty", selling |-> "selling", closing |-> "ready", over |-> "ready"][server[i]]]

Elapse(i) ==
  /\ \/ server[i] = "selling" /\ server' = [server EXCEPT ![i] = "closing"]
     \/ server[i] = "closing" /\ server' = [server EXCEPT ![i] = "over"]
  /\ UNCHANGED <<slots, coins, shown, unrendered, fetch, collect, place, netVars>>

\* SellingService.CollectSlot: the coins are paid, or nothing is changed.
CollectSlot(i) ==
  IF server[i] = "over"
  THEN server' = [server EXCEPT ![i] = "empty"] /\ coins' = coins + 1
  ELSE UNCHANGED <<server, coins>>

PlaceProduct(i) == server[i] = "empty" /\ server' = [server EXCEPT ![i] = "selling"]

-----------------------------------------------------------------------------
(* The queries.                                                             *)

\* setQueryData, or an answer: an equal value is no change, but the remaining
\* seconds of a sale are part of it.
setSlots(s) ==
  \/ unrendered' = (unrendered \/ s # shown.slots)
  \/ (\E i \in Slots : s[i] = "selling") /\ unrendered' = TRUE

Lose == lost < MaxLost /\ lost' = lost + 1

cancelQueries == [q \in Queries |-> Idle]
invalidateQueries == [q \in Queries |-> Fetch("sent", Blank)]

\* The page is mounted again, the browser is online again, the stall upgraded.
Refetch(q) ==
  /\ fetch[q].pc # "sent"
  /\ fetch' = [fetch EXCEPT ![q] = Fetch("sent", Blank)]
  /\ UNCHANGED <<slots, server, coins, shown, unrendered, collect, place, netVars>>

ServeFetch(q) ==
  /\ fetch[q].pc = "sent"
  /\ fetch' = [fetch EXCEPT ![q] =
                 Fetch("answered", IF q = "slots" THEN Shown(View, 0) ELSE Shown(Blank.slots, coins))]
  /\ missed' = missed \ {q}
  /\ UNCHANGED <<slots, server, coins, shown, unrendered, collect, place, lost>>

FetchSlots ==
  /\ fetch["slots"].pc = "answered"
  /\ LET s == fetch["slots"].answer.slots IN
       shown' = [shown EXCEPT !.slots = s] /\ setSlots(s)
  /\ fetch' = [fetch EXCEPT !["slots"] = Idle]
  /\ UNCHANGED <<slots, server, coins, collect, place, netVars>>

FetchCoins ==
  /\ fetch["coins"].pc = "answered"
  /\ shown' = [shown EXCEPT !.coins = fetch["coins"].answer.coins]
  /\ fetch' = [fetch EXCEPT !["coins"] = Idle]
  /\ UNCHANGED <<slots, server, coins, unrendered, collect, place, netVars>>

\* Lost, and lost again by the one retry: the cache stays as it is.
LoseFetch(q) ==
  /\ fetch[q].pc # "idle"
  /\ fetch' = [fetch EXCEPT ![q] = Idle]
  /\ Lose
  /\ missed' = missed \cup {q}
  /\ UNCHANGED <<slots, server, coins, shown, unrendered, collect, place>>

\* The effect of StallPage on [slots, level]
Render ==
  /\ unrendered
  /\ unrendered' = FALSE
  /\ slots' = shown.slots
  /\ UNCHANGED <<server, coins, shown, fetch, collect, place, netVars>>

-----------------------------------------------------------------------------
(* Collecting.                                                              *)

\* collectCoinsMutation.onMutate.  The awaits of cancelQueries let nothing else in.
collectCoins(m, i) ==
  /\ collect[m].pc = "unused"
  /\ LET s == [shown.slots EXCEPT ![i] = "empty"] IN
       /\ shown' = Shown(s, shown.coins + 1)
       /\ unrendered' = (unrendered \/ s # shown.slots)
  /\ collect' = [collect EXCEPT ![m] = Collect("sent", i, shown)]
  /\ fetch' = cancelQueries
  /\ UNCHANGED <<server, coins, place, netVars>>

\* The scene's harvestSlot emits game:coin_collected.
Harvest(i, m) ==
  /\ slots[i] = "ready"
  /\ slots' = [slots EXCEPT ![i] = "empty"]
  /\ collectCoins(m, i)

ServeCollect(m) ==
  /\ collect[m].pc = "sent"
  /\ CollectSlot(collect[m].slotId)
  /\ collect' = [collect EXCEPT ![m].pc = "answered"]
  /\ UNCHANGED <<slots, shown, unrendered, fetch, place, netVars>>

\* onSettled.  Paid, refused or lost: apiClient returns it all alike.  A request
\* that the tab has given up may still reach the server.
Settled(m) ==
  Collect(IF collect[m].pc = "sent" THEN "late" ELSE "settled", collect[m].slotId, Blank)

\* Mutant: the queries are fetched again on failure only.
SettleOnError(m) ==
  /\ collect[m].pc \in {"sent", "answered"}
  /\ IF collect[m].pc = "sent" THEN Lose /\ fetch' = invalidateQueries
     ELSE UNCHANGED <<lost, fetch>>
  /\ collect' = [collect EXCEPT ![m] = Settled(m)]
  /\ UNCHANGED <<slots, server, coins, shown, unrendered, place, missed>>

SettleCollect(m) ==
  /\ collect[m].pc \in {"sent", "answered"}
  /\ IF collect[m].pc = "sent" THEN Lose ELSE UNCHANGED lost
  /\ collect' = [collect EXCEPT ![m] = Settled(m)]
  /\ fetch' = invalidateQueries
  /\ UNCHANGED <<slots, server, coins, shown, unrendered, place, missed>>

\* onError, then onSettled: the call threw.
RollBackCollect(m) ==
  /\ collect[m].pc \in {"sent", "answered"}
  /\ Lose
  /\ collect' = [collect EXCEPT ![m] = Settled(m)]
  /\ shown' = collect[m].previous
  /\ setSlots(collect[m].previous.slots)
  /\ fetch' = invalidateQueries
  /\ UNCHANGED <<slots, server, coins, place, missed>>

ServeLateCollect(m) ==
  /\ collect[m].pc = "late"
  /\ CollectSlot(collect[m].slotId)
  /\ collect' = [collect EXCEPT ![m].pc = "settled"]
  /\ missed' = Queries
  /\ UNCHANGED <<slots, shown, unrendered, fetch, place, lost>>

-----------------------------------------------------------------------------
(* Placing.                                                                 *)

\* handlePlaceItem, for the slot that was empty when it was clicked.  The sheet
\* may have been open for long.  Bound: one placement is under way at a time.
handlePlaceItem(i) ==
  /\ place = NoPlace
  /\ place' = Place("sent", i)
  /\ UNCHANGED <<slots, server, coins, shown, unrendered, fetch, collect, netVars>>

ServePlace ==
  /\ place.pc = "sent"
  /\ \/ PlaceProduct(place.slotId) /\ place' = Place("placed", place.slotId)
     \/ place' = Place("refused", place.slotId) /\ UNCHANGED server
  /\ UNCHANGED <<slots, coins, shown, unrendered, fetch, collect, netVars>>

\* The mutation's onSuccess, and the page's.
SettlePlace ==
  /\ place.pc = "placed"
  /\ fetch' = [fetch EXCEPT !["slots"] = Fetch("sent", Blank)]
  /\ slots' = [slots EXCEPT ![place.slotId] = "selling"]
  /\ place' = NoPlace
  /\ UNCHANGED <<server, coins, shown, unrendered, collect, netVars>>

RefusePlace ==
  /\ place.pc = "refused"
  /\ place' = NoPlace
  /\ UNCHANGED <<slots, server, coins, shown, unrendered, fetch, collect, netVars>>

LosePlace ==
  /\ place.pc \in {"sent", "placed"}
  /\ Lose
  /\ IF place.pc = "sent" THEN place' = Place("late", place.slotId) /\ UNCHANGED missed
     ELSE place' = NoPlace /\ missed' = missed \cup {"slots"}
  /\ UNCHANGED <<slots, server, coins, shown, unrendered, fetch, collect>>

ServeLatePlace ==
  /\ place.pc = "late"
  /\ \/ PlaceProduct(place.slotId) /\ missed' = missed \cup {"slots"}
     \/ UNCHANGED <<server, missed>>
  /\ place' = NoPlace
  /\ UNCHANGED <<slots, coins, shown, unrendered, fetch, collect, lost>>

-----------------------------------------------------------------------------
\* The countdown of the scene starts after the server's, so it does not end
\* before the sale's last second.
CountDown(i) ==
  /\ slots[i] = "selling" /\ server[i] # "selling"
  /\ slots' = [slots EXCEPT ![i] = "ready"]
  /\ UNCHANGED <<server, coins, shown, unrendered, fetch, collect, place, netVars>>

Next ==
  \/ \E i \in Slots : Elapse(i) \/ CountDown(i) \/ handlePlaceItem(i)
  \/ \E m \in Collects :
       \/ \E i \in Slots : Harvest(i, m)
       \/ ServeCollect(m) \/ SettleCollect(m) \/ RollBackCollect(m) \/ ServeLateCollect(m)
  \/ ServePlace \/ SettlePlace \/ RefusePlace \/ LosePlace \/ ServeLatePlace
  \/ \E q \in Queries : Refetch(q) \/ ServeFetch(q) \/ LoseFetch(q)
  \/ FetchSlots \/ FetchCoins \/ Render

Spec == Init /\ [][Next]_vars

-----------------------------------------------------------------------------
(* Properties.                                                              *)

Settling == \E m \in Collects : collect[m].pc \in {"sent", "answered"}

\* Slots shown as v: the same ones are empty at the server.
SlotsAgree(v) == \A i \in Slots : (v[i] = "empty") = (server[i] = "empty")

\* Whatever order answers came in, and whatever was rolled back: when no query
\* and no mutation is under way, the page shows the server's coins and slots,
\* unless its last fetch was lost or it was never told of a change.
QuietSynced ==
  /\ fetch["coins"].pc = "idle" /\ ~Settling /\ "coins" \notin missed
       => shown.coins = coins
  /\ fetch["slots"].pc = "idle" /\ ~Settling /\ place.pc # "placed" /\ "slots" \notin missed
       => SlotsAgree(shown.slots)
=============================================================================
