-------------------------- MODULE QuestResetProofs --------------------------
(***************************************************************************)
(* A player who never has two List requests under way is rewarded at most  *)
(* once a period, for any quests, targets and length of the week.  The     *)
(* inductive invariant counts a quest's payments by the period of its last *)
(* reset, and says that a waiting List read the clock after that reset:    *)
(* with a second List this is what fails.                                  *)
(***************************************************************************)
EXTENDS QuestReset, TLAPS

\* One List request at a time.
OneList == \A t, u \in Tabs : t = u

LEMMA PeriodType ==
  ASSUME NEW k \in Types, NEW d \in Nat
  PROVE  Period(k, d) \in Nat
BY QuestAssumption DEF Period, Types

\* A later day is in the same or a later period.
LEMMA PeriodMonotone ==
  ASSUME NEW k \in Types, NEW a \in Nat, NEW b \in Nat, a <= b
  PROVE  Period(k, a) <= Period(k, b)
<1> DEFINE x == a \div WeekDays
           y == b \div WeekDays
<1>1. WeekDays \in Nat \ {0}
  BY QuestAssumption
<1>2. /\ x \in Int /\ WeekDays * x <= a
      /\ y \in Int /\ b < WeekDays * y + WeekDays
  <2>1. a = WeekDays * (a \div WeekDays) + (a % WeekDays) /\ a % WeekDays \in 0..(WeekDays - 1)
    BY <1>1
  <2>2. b = WeekDays * (b \div WeekDays) + (b % WeekDays) /\ b % WeekDays \in 0..(WeekDays - 1)
    BY <1>1
  <2> QED
    BY <1>1, <2>1, <2>2
<1> HIDE DEF x, y
<1>3. WeekDays * x < WeekDays * (y + 1)
  BY <1>1, <1>2
<1>4. x < y + 1
  BY <1>1, <1>2, <1>3
<1>5. x <= y
  BY <1>2, <1>4
<1> QED
  BY <1>5 DEF Period, Types, x, y

-----------------------------------------------------------------------------
LEMMA InitType == Init => TypeOK
BY QuestAssumption DEF Init, TypeOK, QuestRow, NoList, Resettable

LEMMA NextType == TypeOK /\ [Next]_vars => TypeOK'
<1> SUFFICES ASSUME TypeOK, [Next]_vars PROVE TypeOK'
  OBVIOUS
<1> USE DEF TypeOK
<1>1. ASSUME NEW t \in Tabs, ListStart(t) PROVE TypeOK'
  BY <1>1 DEF ListStart
<1>2. ASSUME NEW t \in Tabs, ListReset(t) PROVE TypeOK'
  <2>1. list[t].now \in Nat
    OBVIOUS
  <2>2. row' \in [Quests -> [progress : Nat, status : {"active", "completed", "claimed"}]]
    BY <1>2 DEF ListReset, QuestRow
  <2>3. last' \in [Resettable -> Nat]
    BY <1>2, <2>1 DEF ListReset
  <2> QED
    BY <1>2, <2>2, <2>3 DEF ListReset, NoList
<1>3. ASSUME NEW t \in Tabs, ListFail(t) PROVE TypeOK'
  BY <1>3 DEF ListFail, NoList
<1>4. ASSUME NEW q \in Quests, Progress(q) PROVE TypeOK'
  <2>1. PICK n \in row[q].progress + 1 .. TargetValue[q] :
          row' = [row EXCEPT ![q] =
                    QuestRow(n, IF n = TargetValue[q] THEN "completed" ELSE "active")]
    BY <1>4 DEF Progress
  <2>2. n \in Nat
    <3>1. row[q].progress \in Nat /\ TargetValue[q] \in Nat
      BY QuestAssumption
    <3> QED
      BY <3>1
  <2>3. row' \in [Quests -> [progress : Nat, status : {"active", "completed", "claimed"}]]
    BY <2>1, <2>2 DEF QuestRow
  <2> QED
    BY <1>4, <2>3 DEF Progress
<1>5. ASSUME NEW q \in Quests, Claim(q) PROVE TypeOK'
  BY <1>5 DEF Claim
<1>6. CASE NextDay
  BY <1>6 DEF NextDay
<1>7. CASE UNCHANGED vars
  BY <1>7 DEF vars
<1> QED
  BY <1>1, <1>2, <1>3, <1>4, <1>5, <1>6, <1>7 DEF Next

\* Every variable keeps its type.
THEOREM TypeCorrect == Spec => []TypeOK
BY InitType, NextType, PTL DEF Spec

-----------------------------------------------------------------------------
\* The day of the last reset that q's type has had.
LastDay(q) == IF QuestType[q] \in Resettable THEN last[QuestType[q]] ELSE first

Owed(q) == IF row[q].status = "claimed" THEN 1 ELSE 0

\* A waiting List read the clock after the last reset.
ListsInOrder ==
  /\ \A k \in Resettable : first <= last[k] /\ last[k] <= day
  /\ \A t \in Tabs : list[t].pc = "waiting" =>
       list[t].now <= day /\ \A k \in Resettable : last[k] <= list[t].now

\* The payments of a quest are at most those of the periods before the one of
\* its last reset, and one more when it is claimed now.
PaymentsCounted ==
  \A q \in Quests :
    paid[q] <= Period(QuestType[q], LastDay(q)) - Period(QuestType[q], first) + Owed(q)

IInv == TypeOK /\ ListsInOrder /\ PaymentsCounted

LEMMA InitIInv == Init => IInv
<1> SUFFICES ASSUME Init PROVE IInv
  OBVIOUS
<1>1. TypeOK
  BY InitType
<1>2. ListsInOrder
  BY <1>1 DEF Init, ListsInOrder, NoList, TypeOK
<1>3. ASSUME NEW q \in Quests
      PROVE  paid[q] <= Period(QuestType[q], LastDay(q)) - Period(QuestType[q], first) + Owed(q)
  <2>1. LastDay(q) = first /\ paid[q] = 0 /\ Owed(q) = 0
    BY DEF Init, LastDay, QuestRow, Owed
  <2>2. QuestType[q] \in Types /\ first \in Nat
    BY <1>1, QuestAssumption DEF TypeOK
  <2>3. Period(QuestType[q], first) \in Nat
    BY <2>2, PeriodType
  <2> QED
    BY <2>1, <2>3
<1> QED
  BY <1>1, <1>2, <1>3 DEF IInv, PaymentsCounted

\* With one List at a time, a reset sees the last one's day or a later one.
LEMMA NextOrder ==
  ASSUME OneList
  PROVE  TypeOK /\ ListsInOrder /\ [Next]_vars => ListsInOrder'
<1> SUFFICES ASSUME TypeOK, ListsInOrder, [Next]_vars PROVE ListsInOrder'
  OBVIOUS
<1> USE DEF TypeOK, ListsInOrder
<1>1. ASSUME NEW t \in Tabs, ListStart(t) PROVE ListsInOrder'
  BY <1>1 DEF ListStart
<1>2. ASSUME NEW t \in Tabs, ListReset(t) PROVE ListsInOrder'
  <2>1. \A u \in Tabs : list'[u].pc = "none"
    BY <1>2 DEF ListReset, OneList, NoList
  <2>2. \A k \in Resettable : last[k] <= list[t].now /\ list[t].now <= day
    BY <1>2 DEF ListReset
  <2>3. \A k \in Resettable : last'[k] = last[k] \/ last'[k] = list[t].now
    BY <1>2 DEF ListReset
  <2>4. day' = day /\ first' = first
    BY <1>2 DEF ListReset
  <2>5. \A k \in Resettable : first <= last'[k] /\ last'[k] <= day
    BY <2>2, <2>3
  <2> QED
    BY <2>1, <2>4, <2>5
<1>3. ASSUME NEW t \in Tabs, ListFail(t) PROVE ListsInOrder'
  BY <1>3 DEF ListFail, NoList
<1>4. ASSUME NEW q \in Quests, Progress(q) \/ Claim(q) PROVE ListsInOrder'
  BY <1>4 DEF Progress, Claim
<1>5. CASE NextDay
  BY <1>5 DEF NextDay
<1>6. CASE UNCHANGED vars
  BY <1>6 DEF vars
<1> QED
  BY <1>1, <1>2, <1>3, <1>4, <1>5, <1>6 DEF Next

LEMMA NextPayments ==
  TypeOK /\ TypeOK' /\ ListsInOrder /\ PaymentsCounted /\ [Next]_vars => PaymentsCounted'
<1> SUFFICES ASSUME TypeOK, TypeOK', ListsInOrder, PaymentsCounted, [Next]_vars,
                    NEW q \in Quests
             PROVE  paid'[q] <= Period(QuestType[q], LastDay(q)') - Period(QuestType[q], first')
                                + Owed(q)'
  BY DEF PaymentsCounted
<1> DEFINE k == QuestType[q]
           Goal == paid'[q] <= Period(k, LastDay(q)') - Period(k, first') + Owed(q)'
<1>1. k \in Types
  BY QuestAssumption
<1>2. paid[q] \in Nat /\ paid'[q] \in Nat /\ first \in Nat /\ LastDay(q) \in Nat
  BY DEF TypeOK, LastDay
<1>3. Period(k, LastDay(q)) \in Nat /\ Period(k, first) \in Nat
  BY <1>1, <1>2, PeriodType
<1>4. Owed(q) \in 0..1 /\ Owed(q)' \in 0..1
  BY DEF Owed
<1>5. paid[q] <= Period(k, LastDay(q)) - Period(k, first) + Owed(q)
  BY DEF PaymentsCounted
<1>6. ASSUME first' = first, LastDay(q)' = LastDay(q), paid'[q] = paid[q],
             Owed(q)' = Owed(q)
      PROVE  Goal
  BY <1>5, <1>6
<1>7. ASSUME NEW t \in Tabs, ListReset(t) PROVE Goal
  <2>1. paid' = paid /\ first' = first
    BY <1>7 DEF ListReset
  <2>2. CASE k \in ResetNeeded(list[t].now)
    <3>1. LastDay(q) = last[k] /\ LastDay(q)' = list[t].now /\ Owed(q)' = 0
      BY <1>7, <2>2 DEF ListReset, LastDay, ResetNeeded, Owed, QuestRow, TypeOK
    <3>2. last[k] <= list[t].now /\ list[t].now \in Nat
      BY <1>7, <2>2 DEF ListReset, ListsInOrder, ResetNeeded, TypeOK
    <3>3. Period(k, last[k]) # Period(k, list[t].now)
      BY <2>2 DEF ResetNeeded
    <3>4. Period(k, LastDay(q)) <= Period(k, list[t].now)
      BY <1>1, <1>2, <3>1, <3>2, PeriodMonotone
    <3>5. Period(k, list[t].now) \in Nat
      BY <1>1, <3>2, PeriodType
    <3>6. Period(k, LastDay(q)) + 1 <= Period(k, list[t].now)
      BY <1>3, <3>1, <3>3, <3>4, <3>5
    <3>7. paid[q] <= Period(k, list[t].now) - Period(k, first)
      BY <1>2, <1>3, <1>4, <1>5, <3>5, <3>6
    <3> QED
      BY <2>1, <3>1, <3>5, <3>7, <1>3
  <2>3. CASE k \notin ResetNeeded(list[t].now)
    <3>1. LastDay(q)' = LastDay(q)
      BY <1>7, <2>3 DEF ListReset, LastDay, TypeOK
    <3>2. Owed(q)' = Owed(q)
      BY <1>7, <2>3 DEF ListReset, Owed, TypeOK
    <3> QED
      BY <1>6, <2>1, <3>1, <3>2
  <2> QED
    BY <2>2, <2>3
<1>8. ASSUME NEW x \in Quests, Progress(x) PROVE Goal
  <2>1. Owed(q)' = Owed(q)
    BY <1>8 DEF Progress, Owed, QuestRow, TypeOK
  <2>2. LastDay(q)' = LastDay(q) /\ paid' = paid /\ first' = first
    BY <1>8 DEF Progress, LastDay
  <2> QED
    BY <1>6, <2>1, <2>2
<1>9. ASSUME NEW x \in Quests, Claim(x) PROVE Goal
  <2>1. LastDay(q)' = LastDay(q) /\ first' = first
    BY <1>9 DEF Claim, LastDay
  <2>2. CASE x = q
    <3>1. Owed(q) = 0 /\ Owed(q)' = 1 /\ paid'[q] = paid[q] + 1
      BY <1>9, <2>2 DEF Claim, Owed, TypeOK
    <3> QED
      BY <1>2, <1>3, <1>5, <2>1, <3>1
  <2>3. CASE x # q
    <3>1. Owed(q)' = Owed(q) /\ paid'[q] = paid[q]
      BY <1>9, <2>3 DEF Claim, Owed, TypeOK
    <3> QED
      BY <1>6, <2>1, <3>1
  <2> QED
    BY <2>2, <2>3
<1>10. ASSUME UNCHANGED <<row, last, paid, first>> PROVE Goal
  BY <1>6, <1>10 DEF LastDay, Owed
<1> QED
  BY <1>7, <1>8, <1>9, <1>10 DEF Next, vars, ListStart, ListFail, NextDay

LEMMA Bounded == IInv => RewardsPerPeriod
<1> SUFFICES ASSUME IInv, NEW q \in Quests
             PROVE  paid[q] <= Period(QuestType[q], day) - Period(QuestType[q], first) + 1
  BY DEF RewardsPerPeriod
<1> DEFINE k == QuestType[q]
<1>1. k \in Types /\ day \in Nat /\ first \in Nat /\ LastDay(q) \in Nat /\ paid[q] \in Nat
  BY QuestAssumption DEF IInv, TypeOK, LastDay
<1>2. Period(k, LastDay(q)) <= Period(k, day)
  <2>1. CASE k \in Resettable
    <3>1. LastDay(q) <= day
      BY <2>1 DEF IInv, ListsInOrder, LastDay
    <3> QED
      BY <1>1, <3>1, PeriodMonotone
  <2>2. CASE k \notin Resettable
    BY <1>1, <2>2, QuestAssumption DEF Period, Types, Resettable
  <2> QED
    BY <2>1, <2>2
<1>3. /\ Period(k, LastDay(q)) \in Nat /\ Period(k, day) \in Nat
      /\ Period(k, first) \in Nat /\ Owed(q) \in 0..1
  BY <1>1, PeriodType DEF Owed
<1>4. paid[q] <= Period(k, LastDay(q)) - Period(k, first) + Owed(q)
  BY DEF IInv, PaymentsCounted
<1> QED
  BY <1>1, <1>2, <1>3, <1>4

\* No quest is rewarded twice in a period, as long as the player's List requests
\* do not overlap.
THEOREM OneRewardPerPeriod ==
  ASSUME OneList
  PROVE  Spec => []RewardsPerPeriod
<1>1. Init => IInv
  BY InitIInv
<1>2. IInv /\ [Next]_vars => IInv'
  BY NextType, NextOrder, NextPayments DEF IInv
<1>3. IInv => RewardsPerPeriod
  BY Bounded
<1> QED
  BY <1>1, <1>2, <1>3, PTL DEF Spec

-----------------------------------------------------------------------------
\* A quest that is claimed changes only when a List resets it, and with one List
\* at a time the period that List has read is a later one.
LEMMA ClaimedStep ==
  ASSUME IInv, [Next]_vars, NEW q \in Quests, row[q].status = "claimed", row'[q] # row[q]
  PROVE  /\ row'[q] = QuestRow(0, "active")
         /\ QuestType[q] \in Resettable
         /\ Period(QuestType[q], last'[QuestType[q]]) > Period(QuestType[q], last[QuestType[q]])
<1> DEFINE k == QuestType[q]
<1>0. TypeOK /\ ListsInOrder
  BY DEF IInv
<1>1. PICK t \in Tabs : ListReset(t)
  <2>1. ASSUME NEW x \in Quests, Progress(x) \/ Claim(x) PROVE FALSE
    BY <1>0, <2>1 DEF Progress, Claim, TypeOK
  <2>2. row' # row
    OBVIOUS
  <2> QED
    BY <2>1, <2>2 DEF Next, vars, ListStart, ListFail, NextDay
<1>2. k \in ResetNeeded(list[t].now) /\ row'[q] = QuestRow(0, "active")
  BY <1>1 DEF ListReset
<1>3. k \in Resettable /\ Period(k, list[t].now) # Period(k, last[k])
  BY <1>2 DEF ResetNeeded
<1>4. last'[k] = list[t].now
  BY <1>1, <1>2, <1>3 DEF ListReset
<1>5. last[k] \in Nat /\ list[t].now \in Nat /\ last[k] <= list[t].now
  BY <1>0, <1>1, <1>3 DEF TypeOK, ListsInOrder, ListReset
<1>6. k \in Types
  BY QuestAssumption
<1>7. Period(k, last[k]) <= Period(k, list[t].now)
  BY <1>5, <1>6, PeriodMonotone
<1>8. Period(k, last[k]) \in Nat /\ Period(k, list[t].now) \in Nat
  BY <1>5, <1>6, PeriodType
<1> QED
  BY <1>2, <1>3, <1>4, <1>7, <1>8

\* A claimed quest becomes claimable again only by the first reset of a later
\* period, as long as the player's List requests do not overlap
\* (quest_service.go List and Claim).
THEOREM ResetsStartPeriods ==
  ASSUME OneList
  PROVE  Spec => ClaimedNeedsReset
<1> DEFINE Renewed ==
      \A q \in Quests :
        row[q].status = "claimed" /\ row'[q] # row[q] =>
          /\ row'[q] = QuestRow(0, "active")
          /\ QuestType[q] \in Resettable
          /\ Period(QuestType[q], last'[QuestType[q]]) > Period(QuestType[q], last[QuestType[q]])
<1>1. IInv /\ [Next]_vars => [Renewed]_vars
  BY ClaimedStep, Zenon
<1>2. IInv /\ [Next]_vars => IInv'
  BY NextType, NextOrder, NextPayments DEF IInv
<1>3. Spec => [][Renewed]_vars
  BY <1>1, <1>2, InitIInv, PTL DEF Spec
<1> QED
  BY <1>3 DEF ClaimedNeedsReset
=============================================================================
