CONSTANTS
  r1 = r1
  r2 = r2
  Requests = {r1, r2}
  MaxVersion = 3
  MaxPending = 2
  MaxWaits = 1
SPECIFICATION Spec
SYMMETRY RequestSymmetry
CHECK_DEADLOCK FALSE
INVARIANTS NoLostUpdate HostAccessKept AcceptedIsNamed AnswersHold
