----------------------------- MODULE StallSlots ------------------------------
(* The slots of the stall as the scene has them (StallScene.ts), which the    *)
(* page sets and whose harvests it hears of.                                  *)

CONSTANTS Slots, NoSlot

ASSUME SlotsAssumption == NoSlot \notin Slots

VARIABLE slots    \* slots[i]: "empty", "selling", or "ready": isReadyToCollect

SlotStates == {"empty", "selling", "ready"}
=============================================================================
