SPECIFICATION FairSpec
CONSTANTS
  Schedules <- AllSchedules
  TotalCents = 10
  CommissionBps = 1000
  PartialAmounts <- Partials
  DisputeIds <- OneDispute
  ShipmentIds <- TwoShipments
  AutoReleaseDays = 1
  Net30Days = 2
  MaxLost = 1
PROPERTIES
  MoneyMovesOn
CHECK_DEADLOCK FALSE
