---------------------------- MODULE EscrowAccount ---------------------------
(***************************************************************************)
(* What an order's escrow promises to its buyer and its supplier, without  *)
(* statuses, rows or adapters.  Captured money comes in; until the account *)
(* is released it may go back to the buyer, never more than is there; the  *)
(* release happens once and splits the whole remainder between the         *)
(* supplier and the platform; after it, nothing goes back to the buyer.    *)
(* Header of orders/escrow.ts.                                             *)
(***************************************************************************)
EXTENDS Integers

VARIABLES
    captured,     \* cents the buyer has paid in
    toBuyer,      \* cents refunded
    toSupplier,   \* cents released to the supplier
    toPlatform,   \* cents of commission
    released      \* the account has been released

accountVars == <<captured, toBuyer, toSupplier, toPlatform, released>>

Remainder == captured - toBuyer - toSupplier - toPlatform

AccountInit ==
    /\ captured = 0 /\ toBuyer = 0 /\ toSupplier = 0 /\ toPlatform = 0
    /\ released = FALSE

Capture ==
    /\ captured' >= captured
    /\ UNCHANGED <<toBuyer, toSupplier, toPlatform, released>>

Refund ==
    /\ ~released
    /\ toBuyer' >= toBuyer
    /\ toBuyer' - toBuyer <= Remainder
    /\ UNCHANGED <<captured, toSupplier, toPlatform, released>>

Release ==
    /\ ~released
    /\ released' = TRUE
    /\ toSupplier' >= toSupplier
    /\ toPlatform' >= toPlatform
    /\ Remainder' = 0
    /\ UNCHANGED <<captured, toBuyer>>

AccountNext == Capture \/ Refund \/ Release

AccountSpec == AccountInit /\ [][AccountNext]_accountVars
=============================================================================
