SPECIFICATION MCSpec
CONSTANTS
  Dirs = {d1, d2} Names = {"a", "b"} NegEntries = 2 MaxSeq = 4 MaxOpens = 2
  Closing = FALSE Renaming = FALSE Remounting = FALSE
  r0 = r0 r1 = r1 r2 = r2 NoValue = NoValue
SYMMETRY Sym
   
PROPERTIES NothingLostSilently StoreKept
CHECK_DEADLOCK FALSE
