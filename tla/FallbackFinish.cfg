CONSTANTS
  Bills = {b1, b2}
  Races = {"finish"}
SPECIFICATION Spec
SYMMETRY BillSymmetry
INVARIANTS
  OfflineWorkKept
