SPECIFICATION Spec
CONSTANTS
  s1 = s1 s2 = s2 d1 = d1 r1 = r1 r2 = r2 r3 = r3
  NULL = NULL
  StaticPrc <- NoUnit
  DynamicPrc <- Dynamic1
  RtPool <- Pool1
  Pid = {p1}
  CardType = {MIO}
  ONLINE_FILTER_COUNT = 2
  DIFF_SPV_HELLO = 1
  SPV_HELLO_FACTOR = 2
  NeedKillPrc = TRUE
  ForkMayFail = TRUE
  OnlineMayFail = TRUE
  MaxMissed = 3
  MaxAhead = 0
  MaxRestart = 0
INVARIANTS
  DelIsLinked
