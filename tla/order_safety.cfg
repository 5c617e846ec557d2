SPECIFICATION Spec
CONSTANTS
  Schedules <- AllSchedules
  TotalCents = 10
  CommissionBps = 1000
  PartialAmounts <- Partials
  DisputeIds <- TwoDisputes
  ShipmentIds <- TwoShipments
  AutoReleaseDays = 1
  Net30Days = 2
  MaxLost = 1
INVARIANTS
  PayoutsAreBacked
  OneFateForEveryCharge
  BooksFollowCharges
  StoppedOrderPaysNobody
  ShippedOnlyWhenPaid
  SomebodyCanMoveOn
PROPERTIES
  DisputeFreezesRelease
  CancellationRefundsEverything
  IsEscrowAccount
CHECK_DEADLOCK FALSE
