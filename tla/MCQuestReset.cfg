SPECIFICATION Spec
CONSTANTS
  daily = daily
  weekly = weekly
  main = main
  Quests <- MCQuests
  QuestType <- MCQuestType
  TargetValue <- MCTargetValue
  WeekDays = 2
  StartDays = {0, 1}
  MaxDay = 4
  Tabs = {1}
INVARIANTS
  RewardsPerPeriod
PROPERTIES
  ClaimedNeedsReset
CHECK_DEADLOCK FALSE
