SPECIFICATION Spec
CONSTANTS
  s1 = s1
  s2 = s2
  Sessions <- TwoSessions
  TotalCents = 10
  CommissionBps = 1000
  MaxCharges = 3
  MaxDisputes = 1
  MaxCrossed = 1
  MaxTorn = 1
  PartialCents = {4}
SYMMETRY SessionSymmetry
INVARIANTS
  BooksNeverAhead
  EachHarmHasItsCrossing
CHECK_DEADLOCK FALSE
