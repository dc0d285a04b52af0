SPECIFICATION Spec
CONSTANTS
  NSlot = 1
  Type = {MIO}
  NULL = NULL
  MainInitMayFail = FALSE
  MaxSpurious = 2
INVARIANT
  IsrArgValid
