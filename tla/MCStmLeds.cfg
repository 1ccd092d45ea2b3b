CONSTANTS
  Devs = {d1, d2}
  Files = {f1, f2, f3}
  NoDev = NoDev
  Bus = Bus
SPECIFICATION FairSpec
INVARIANTS
  TypeOK
  KrefExact
  LiveIffHeld
  OpenRaceSafe
PROPERTIES
  EnodevOnlyWhenGoing
  DisconnectCompletes
  ExitCompletes
  ImplementsRefCounted
