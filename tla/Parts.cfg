SPECIFICATION PartsSpec
CONSTANTS
  MaxLost = 2
  CpHead = {h1, h2}
  CpNode = {a, b, c}
  CpNil = nil
  MaxPoll = 3
  MaxBytes = 2
  SleepCalls <- MCSleepCalls
  SleepStarts <- MCSleepStarts
  RawSize = 9
  WinBase = 3
  WinSize = 4
  MaxRawPos = 12
  MaxRawLen = 5
  OffBit = {o1, o2}
  OffProc = {p1, p2}
  CbType = {t1, t2}
  CbKind = {read, led}
  CbUser = {u1, u2}
  NoType = none
  SlotMax = 2
  TypeMax = 2
INVARIANTS
  PartsTypeOK
  LiveIsReady
  UndoneOnce
  LoopSeesAll
  LoadResult
  SleepFull
  RegsBounds
  CallbackLive
  MainSlots
PROPERTIES
  CoreAllOrNothing
  UdfAllOrNothing
  ThAllOrNothing
  CpRefinesLists
  OfflineNotified
  IrqReachesProcess
