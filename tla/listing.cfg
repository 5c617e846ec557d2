SPECIFICATION Spec
CONSTANTS
  Actors <- SalesAndStaff
  Sheets = {x1}
  NoSheet = NoSheet
  Sessions = {s1, s2}
  Jobs = {j1}
SYMMETRY SessionSymmetry
INVARIANTS
  MarketIsModerated
  DraftsStayOutOfDiscovery
CHECK_DEADLOCK FALSE
