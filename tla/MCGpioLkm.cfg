CONSTANTS
  NPins = 2
  Files = {f1, f2}
  Exclusive = TRUE
SPECIFICATION Spec
INVARIANTS
  TypeOK
  DirMatchesPin
  OpenFileAlive
  ExitLeavesPinsLow
