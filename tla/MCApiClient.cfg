SPECIFICATION FairSpec
CONSTANTS
  c1 = c1
  c2 = c2
  t1 = t1
  t2 = t2
  Tokens = {r1, r2}
  None = None
  Requests <- MCCalls
  Tabs <- MCTabs
  TabsOf <- MCTabsOf
INVARIANTS
  TypeOK
  AtMostOnce
  OneRefreshPerTab
  StoredTokenUnspent
  ExchangeSpendsToken
  SessionsNeedPlayer
PROPERTIES
  AnsweredOrStranded
CHECK_DEADLOCK FALSE
