SPECIFICATION Spec
CONSTANTS
  Modes <- TradeModes
  Quotes = {q1, q2}
  NoQuote = NoQuote
  Sessions = {s1, s2}
INVARIANTS
  OnlyAwardedQuoteIsAccepted
CHECK_DEADLOCK FALSE
