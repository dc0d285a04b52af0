SPECIFICATION Spec
CONSTANTS
  NSlot = 1
  Type = {MIO, PDM}
  NULL = NULL
  MainInitMayFail = TRUE
  MaxSpurious = 2
SYMMETRY TypeSymmetry
INVARIANTS
  TypeOK
  NoUseAfterFree
  DevAgrees
  IrqOwned
  SpuriousOnce
  MutexesOwned
