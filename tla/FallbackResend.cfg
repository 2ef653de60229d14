CONSTANTS
  Bills = {b1, b2}
  Races = {"resend"}
SPECIFICATION Spec
SYMMETRY BillSymmetry
INVARIANTS
  ServerRowsAgree
