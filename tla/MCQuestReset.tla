---------------------------- MODULE MCQuestReset ----------------------------
(* A daily, a weekly and a main quest over four days and weeks of two days.   *)
EXTENDS QuestReset, TLC

CONSTANTS daily, weekly, main

MCQuests == {daily, weekly, main}
MCQuestType == daily :> "daily" @@ weekly :> "weekly" @@ main :> "main"
MCTargetValue == daily :> 2 @@ weekly :> 2 @@ main :> 1
=============================================================================
