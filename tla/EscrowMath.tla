----------------------------- MODULE EscrowMath -----------------------------
(***************************************************************************)
(* The integer-cent arithmetic and the release decision of packages/core:  *)
(* orders/escrow.ts and orders/payment-schedule.ts.  Amounts are cents,    *)
(* rates are basis points.                                                 *)
(***************************************************************************)
EXTENDS Integers

DEPOSIT_BPS == 3000

Least(a, b) == IF a <= b THEN a ELSE b

\* Math.round(gross * bps / 10000): round half up.
commissionCents(gross, bps) == (2 * gross * bps + 10000) \div 20000

netCents(gross, bps) == gross - commissionCents(gross, bps)

\* floor(30%) of the total; the balance is whatever remains.
depositCents(total) == (total * DEPOSIT_BPS) \div 10000

\* The milestone scheduled at placement, as a set of at most one plan item.
\* A 30/70 total too small for a deposit is charged in full.
upfrontPlan(schedule, total) ==
    CASE schedule = "FULL_PREPAY" -> {[kind |-> "FULL", amountCents |-> total]}
      [] schedule = "DEPOSIT_30_70" ->
           {IF depositCents(total) = 0
            THEN [kind |-> "FULL", amountCents |-> total]
            ELSE [kind |-> "DEPOSIT", amountCents |-> depositCents(total)]}
      [] schedule = "NET_30" -> {}

\* The balance leg: the remainder, and nothing for a zero remainder.
balancePlan(schedule, total, paid) ==
    IF schedule # "FULL_PREPAY" /\ total - paid > 0
    THEN {[kind |-> "BALANCE", amountCents |-> total - paid]}
    ELSE {}

\* Mutant of releaseDecision: the auto-release window is forgotten.
releaseOnDelivery(status, inTransit, disputeOpen, windowDays) ==
    IF ~disputeOpen /\ status = "DELIVERED" THEN "RELEASE" ELSE "NOT_ELIGIBLE"

\* What a release job may do now.  inTransit is the time since the shipment's
\* shippedAt, or a negative number when it has none.
releaseDecision(status, inTransit, disputeOpen, windowDays) ==
    IF disputeOpen THEN "HOLD_DISPUTE"
    ELSE IF status = "DELIVERED" THEN "RELEASE"
    ELSE IF status = "SHIPPED" /\ inTransit >= 0 /\ inTransit >= windowDays THEN "RELEASE"
    ELSE "NOT_ELIGIBLE"

=============================================================================
