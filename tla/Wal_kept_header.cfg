SPECIFICATION Spec
CONSTANTS
  Conns = {w, k}
  Readers = {w}
  Writers = {w}
  Ckpters = {k}
  Pages = {1, 2}
  NReader = 2
  MaxTx = 2
  MaxRare = 1
  None = None
INVARIANT CommitsSurvive
