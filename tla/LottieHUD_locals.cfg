SPECIFICATION Spec
CONSTANTS
  Locals = {h1, h2}
  MaxPending = 2
  KeyMayChange = TRUE
  Page = Page
INVARIANTS
  AnimationIsMasked
PROPERTIES
  SeenUntilKeyless
