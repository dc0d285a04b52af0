SPECIFICATION FairSpec
CONSTANTS
  NSlot = 1
  Type = {MIO}
  NULL = NULL
  MainInitMayFail = FALSE
  MaxSpurious = 2
PROPERTIES
  OpsComplete
  InterruptServed
