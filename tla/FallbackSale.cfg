CONSTANTS
  Bills = {b1, b2}
  Races = {"sale"}
SPECIFICATION Spec
SYMMETRY BillSymmetry
INVARIANTS
  NumbersUsedOnce
