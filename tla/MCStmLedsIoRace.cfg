CONSTANTS
  Devs = {d1}
  Files = {f1, f2}
  NoDev = NoDev
  Bus = Bus
  Urbs = {u1, u2}
  NoUrb = NoUrb
  MaxReports = 2
SPECIFICATION IoSpec
INVARIANT
  BufferProtected
