CONSTANTS
  u1 = u1
  u2 = u2
  Users <- MCUsers
  Settings <- MCSettings
  MaxTries = 3
  MaxFaults = 1
  PowerOnA = {16, 28}
  Chip = "HMC5883L"
SPECIFICATION Spec
INVARIANTS
  TypeOK
  CacheCoherent
  ReadsAwake
  UserWaitsAwake
  ShownIndexInTable
  UnusedChipSleeps
PROPERTIES
  GivesUpHonestly
  SetsItsFieldOnly
  CallsEnd
