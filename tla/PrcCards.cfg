SPECIFICATION Spec
CONSTANTS
  s1 = s1 s2 = s2 d1 = d1 r1 = r1 r2 = r2 r3 = r3
  NULL = NULL
  StaticPrc <- Static1
  DynamicPrc <- Dynamic1
  RtPool <- Pool2
  Pid = {p1, p2}
  CardType = {PDM, MIO}
  ONLINE_FILTER_COUNT = 2
  DIFF_SPV_HELLO = 1
  SPV_HELLO_FACTOR = 1
  NeedKillPrc = TRUE
  ForkMayFail = TRUE
  OnlineMayFail = TRUE
  MaxMissed = 2
  MaxAhead = 0
  MaxRestart = 0
INVARIANTS
  TypeOK ListsMatchState TimersArmed StartQueueOk NothingForgotten NormalHasCard DriverAgrees
  Association ChildrenTracked
PROPERTIES
  OfflineOnlyWhenDead OnlineFiltered
