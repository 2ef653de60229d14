CONSTANTS
  Counters = {c1, c2}
  Users = {u1, u2}
  Registers = {g1, g2}
  Calls = {q1, q2}
  MaxCash = 1
SPECIFICATION RegistersSpec
SYMMETRY RegisterSymmetry
INVARIANTS
  OneRegisterEach
  CountersHoldUnlessStale
  ClosedCashStands
  ShortOnlyUnheld
