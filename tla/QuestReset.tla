----------------------------- MODULE QuestReset -----------------------------
(***************************************************************************)
(* Daily and weekly quests of one player (quest_service.go, and            *)
(* updateQuestProgress of progression.go).  List resets the quests lazily: *)
(* it reads the clock, waits for the player's row, and then compares the   *)
(* day it read with the day of the last reset.  Other requests run between *)
(* the two.                                                                *)
(*                                                                         *)
(* After the player's row is locked List writes without reading, and Claim *)
(* and updateQuestProgress lock the user_quests rows they read, so each is *)
(* one action.                                                             *)
(***************************************************************************)
EXTENDS Integers

CONSTANTS
  Quests,
  QuestType,   \* QuestType[q]: "daily", "weekly" or "main"
  TargetValue,
  WeekDays,    \* the days of a week, 7
  StartDays,   \* the days the player can have registered on
  MaxDay,      \* bound: the last day considered
  Tabs         \* concurrent GET /quests requests

Types == {"daily", "weekly", "main"}
Resettable == {"daily", "weekly"}

ASSUME QuestAssumption ==
  /\ QuestType \in [Quests -> Types]
  /\ TargetValue \in [Quests -> Nat \ {0}]
  /\ WeekDays \in Nat \ {0}
  /\ StartDays \subseteq Nat
  /\ MaxDay \in Nat

VARIABLES
  day,       \* the clock, in days
  row,       \* row[q]: q's user_quests row
  last,      \* last[k]: the day of last_daily/weekly_quest_reset_at
  list,      \* list[t]: the List request of tab t, with the day it read
  paid,      \* history: paid[q], the rewards the wallet got for q
  first      \* history: the day of registration

vars == <<day, row, last, list, paid, first>>

QuestRow(progress, status) == [progress |-> progress, status |-> status]
NoList == [pc |-> "none", now |-> 0]

TypeOK ==
  /\ day \in Nat
  /\ row \in [Quests -> [progress : Nat, status : {"active", "completed", "claimed"}]]
  /\ last \in [Resettable -> Nat]
  /\ list \in [Tabs -> [pc : {"none", "waiting"}, now : Nat]]
  /\ paid \in [Quests -> Nat]
  /\ first \in Nat

Init ==
  /\ day \in StartDays
  /\ first = day
  /\ row = [q \in Quests |-> QuestRow(0, "active")]
  /\ last = [k \in Resettable |-> day]
  /\ list = [t \in Tabs |-> NoList]
  /\ paid = [q \in Quests |-> 0]

-----------------------------------------------------------------------------
\* The calendar day, the ISO week, or all of time.
Period(k, d) ==
  CASE k = "daily" -> d
    [] k = "weekly" -> d \div WeekDays
    [] k = "main" -> 0

\* now := time.Now(), before the transaction begins
ListStart(t) ==
  /\ list[t].pc = "none"
  /\ list' = [list EXCEPT ![t] = [pc |-> "waiting", now |-> day]]
  /\ UNCHANGED <<day, row, last, paid, first>>

\* Mutant: every List resets.
ResetAlways(now) == Resettable

ResetNeeded(now) == {k \in Resettable : Period(k, now) # Period(k, last[k])}

\* The player's row is locked; the transaction resets what it finds due, and
\* commits.
ListReset(t) ==
  /\ list[t].pc = "waiting"
  /\ LET now == list[t].now IN
       /\ row' = [q \in Quests |-> IF QuestType[q] \in ResetNeeded(now)
                                   THEN QuestRow(0, "active") ELSE row[q]]
       /\ last' = [k \in Resettable |-> IF k \in ResetNeeded(now) THEN now ELSE last[k]]
  /\ list' = [list EXCEPT ![t] = NoList]
  /\ UNCHANGED <<day, paid, first>>

\* The transaction fails.
ListFail(t) ==
  /\ list[t].pc = "waiting"
  /\ list' = [list EXCEPT ![t] = NoList]
  /\ UNCHANGED <<day, row, last, paid, first>>

\* updateQuestProgress, for any number of things done.
Progress(q) ==
  /\ row[q].status = "active"
  /\ \E n \in row[q].progress + 1 .. TargetValue[q] :
       row' = [row EXCEPT ![q] =
                 QuestRow(n, IF n = TargetValue[q] THEN "completed" ELSE "active")]
  /\ UNCHANGED <<day, last, list, paid, first>>

\* Mutant: a quest that is claimed may be claimed again.
ClaimAgain(q) ==
  /\ row[q].progress >= TargetValue[q]
  /\ row' = [row EXCEPT ![q].status = "claimed"]
  /\ paid' = [paid EXCEPT ![q] = @ + 1]
  /\ UNCHANGED <<day, last, list, first>>

Claim(q) ==
  /\ row[q].status # "claimed"
  /\ row[q].progress >= TargetValue[q]
  /\ row' = [row EXCEPT ![q].status = "claimed"]
  /\ paid' = [paid EXCEPT ![q] = @ + 1]
  /\ UNCHANGED <<day, last, list, first>>

NextDay ==
  /\ day < MaxDay
  /\ day' = day + 1
  /\ UNCHANGED <<row, last, list, paid, first>>

Next ==
  \/ \E t \in Tabs : ListStart(t) \/ ListReset(t) \/ ListFail(t)
  \/ \E q \in Quests : Progress(q) \/ Claim(q)
  \/ NextDay

Spec == Init /\ [][Next]_vars

-----------------------------------------------------------------------------
(* Properties.                                                              *)

\* "Reset actions are fully transactional, preventing race conditions or double
\* claims" (PLAN-quest-reset.md:35): a quest is rewarded at most once for each
\* day or week the player has seen, and a main quest once.
RewardsPerPeriod ==
  \A q \in Quests :
    paid[q] <= Period(QuestType[q], day) - Period(QuestType[q], first) + 1

\* Only the first reset of a later period makes a claimed quest claimable again,
\* and it starts it from nothing.
ClaimedNeedsReset ==
  [][\A q \in Quests :
       row[q].status = "claimed" /\ row'[q] # row[q] =>
         /\ row'[q] = QuestRow(0, "active")
         /\ QuestType[q] \in Resettable
         /\ Period(QuestType[q], last'[QuestType[q]]) > Period(QuestType[q], last[QuestType[q]])]_vars
=============================================================================
