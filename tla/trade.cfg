SPECIFICATION FairSpec
CONSTANTS
  Modes <- TradeModes
  Quotes = {q1, q2}
  NoQuote = NoQuote
  Sessions = {s1, s2}
INVARIANTS
  AwardEndsNegotiation
  OneStandingOffer
  OrdersAreTimely
  AwardLeavesOrder
PROPERTIES
  EndedRfqStays
  SweepsCatchUp
CHECK_DEADLOCK FALSE
