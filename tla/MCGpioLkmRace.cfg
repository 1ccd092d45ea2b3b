CONSTANTS
  NPins = 2
  Files = {f1, f2}
  Exclusive = FALSE
SPECIFICATION Spec
INVARIANT
  DirMatchesPin
