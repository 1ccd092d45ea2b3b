CONSTANTS
  u1 = u1
  u2 = u2
  Users <- MCUsers
  Mods <- MCMods
SPECIFICATION Spec
INVARIANTS
  TypeOK
  NothingLeft
  Layered
  InsideIsServed
