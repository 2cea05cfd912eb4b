SPECIFICATION FairSpec
CONSTANTS
  Locals = {}
  MaxPending = 3
  KeyMayChange = FALSE
  Page = Page
INVARIANTS
  TypeOK
  RescueInv
  MaskedIsDisabled
PROPERTIES
  PageComesBack
