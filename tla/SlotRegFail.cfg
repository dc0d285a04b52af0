SPECIFICATION Spec
CONSTANTS
  NSlot = 1
  Type = {MIO}
  NULL = NULL
  MainInitMayFail = TRUE
  MaxSpurious = 2
INVARIANT
  RegisteredIsLoaded
