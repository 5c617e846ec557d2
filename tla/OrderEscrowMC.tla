---------------------------- MODULE OrderEscrowMC ---------------------------
(* Small instances of OrderEscrow for TLC. *)
EXTENDS OrderPage

AllSchedules == PaymentSchedule
SplitOnly == {"DEPOSIT_30_70"}
Partials == {1, 4, 10}
OneDispute == {1}
TwoDisputes == {1, 2}
OneShipment == {1}
TwoShipments == {1, 2}
=============================================================================
