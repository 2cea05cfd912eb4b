SPECIFICATION Spec
CONSTANTS
  short = short
  tall = tall
  Contents = {short, tall}
  Devices = {"portrait", "landscape", "flat"}
  MaxSections = 2
  MaxRows = 3
  MaxCached = 2
  MaxPaths = 2
  Loads <- FewTables
  Updates = {}
  NoHeight = NoHeight
SYMMETRY Symmetry
INVARIANT
  CacheIsFresh
