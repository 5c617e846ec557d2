SPECIFICATION Spec
CONSTANTS
  Lines = {l1}
  NoLine = NoLine
  Bodies = {b1}
  NoBody = NoBody
  Answers = {a1}
  NoAnswer = NoAnswer
  ReviewIds = {r1, r2}
  Sessions = {s1, s2}
  Lookback = 1
  Limit = 1
  Window = 0
  MaxTime = 2
  Threads = {r1, r2}
  Orgs = {buyer, supplier}
  Readers = {buyer}
  MessageIds = {1, 2, 3}
  Callers = {s1, s2}
  Horizon = 1
  PageSize = 1
  Visitors = {v1, v2}
  Mediators = {m1, m2}
  OpenedFrom = {"IN_PRODUCTION", "SHIPPED"}
  MaxTrail = 1
  Outcomes = {"CANCELLED", "DELIVERED"}
  MaxClosed = 2
  Nobody = Nobody
SYMMETRY RowsAreAlike
INVARIANTS
  ReviewsAreDistinct
  AcceptedWithinLimit
  NothingIsMissed
  DecisionsStand
PROPERTIES
  VerdictsStand
CHECK_DEADLOCK FALSE
