SPECIFICATION FairSpec
CONSTANTS
  Endpoints = {e1}
  Registered = {e1}
  Dispatchers = {d1, d2}
  Sweepers = {w1, w2}
  MaxAttempts = 2
  MaxStops = 1
  Rules = {r1, r2, r3}
  Stragglers = {r3}
  Cadences = {1}
  Timers = {u1}
  MaxFailures = 1
  Offers <- MCOffers
  Purchases <- MCPurchases
  QTY_BANDS <- MCBands
  K_ANONYMITY_MIN = 2
  Refreshes = {f1, f2}
  MaxChanges = 2
  Unset = Unset
INVARIANTS
  BenchmarksAreSound
  DeliveriesAddUp
  OneReminderPerDate
PROPERTIES
  DueWorkMovesOn
CHECK_DEADLOCK FALSE
