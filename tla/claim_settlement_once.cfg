SPECIFICATION Spec
CONSTANTS
  Schedules <- SplitOnly
  TotalCents = 10
  CommissionBps = 1000
  PartialAmounts <- Partials
  DisputeIds <- OneDispute
  ShipmentIds <- OneShipment
  AutoReleaseDays = 1
  Net30Days = 2
  MaxLost = 0
INVARIANTS
  SettlementTransfersOnce
CHECK_DEADLOCK FALSE
