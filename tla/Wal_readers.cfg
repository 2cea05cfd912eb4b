SPECIFICATION Spec
CONSTANTS
  Conns = {w, k, r}
  Readers = {w, r}
  Writers = {w}
  Ckpters = {k}
  Pages = {1, 2}
  NReader = 3
  MaxTx = 2
  MaxRare = 0
  None = None
CONSTRAINT Intact
INVARIANT TypeOK
PROPERTY ImplementsWalStore
