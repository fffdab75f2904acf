SPECIFICATION FairSpec
CONSTANTS
  c1 = c1
  c2 = c2
  t1 = t1
  t2 = t2
  Tokens = {r1, r2}
  None = None
  Requests <- MCCalls
  Tabs <- MCOneTab
  TabsOf <- MCSameTab
PROPERTIES
  CallsSettle
CHECK_DEADLOCK FALSE
