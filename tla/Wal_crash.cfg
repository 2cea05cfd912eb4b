SPECIFICATION Spec
CONSTANTS
  Conns = {w, k}
  Readers = {w, k}
  Writers = {w}
  Ckpters = {k}
  Pages = {1, 2}
  NReader = 2
  MaxTx = 2
  MaxRare = 2
  None = None
CONSTRAINT Intact
INVARIANTS Recoverable CacheCoherent IndInv
