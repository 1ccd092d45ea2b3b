CONSTANTS
  Pins = {p1, p2}
  Periods = {0, 1, 2, 10000, 10001}
  ParamPins = {}
  ParamPeriods = {1, 10000}
SPECIFICATION Spec
INVARIANTS
  TypeOK
  ExitLedOff
  ExitFreesPin
PROPERTIES
  LedFollowsMode
  ExitCompletes
