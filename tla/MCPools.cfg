CONSTANTS
  Threads = {t1, t2, t3}
  SZ = 2
  IdxMod = 4
  Address = 4
  Size = 8
  Alignment = 2
  Mod = 16
  Sizes = {0, 1, 3, 8, 9}
  Offsets = {0, 5, 8, 11, 12}
SPECIFICATION PoolsSpec
SYMMETRY Symmetry
INVARIANT
  NoLostSlot
PROPERTIES
  ImplementsSlotPool
  AllocatorKeepsPromise
