------------------------- MODULE OrderEscrowClaims --------------------------
(* What comments of the repository say of an order's money and the code    *)
(* does not keep; each run is expected to find a counterexample.           *)
EXTENDS OrderEscrowMC

\* order-repository.ts:906: settling a payout is idempotent.  A settlement that
\* throws for insufficient funds has transferred; its retry starts from the
\* payout's full net again.
SettlementTransfersOnce ==
    Cents([k \in Kinds |-> charge[k].transferred]) <= payout.net

\* order-machine.ts:183: "Dispute resolved to a partial refund - the escrow
\* remainder releases"; order-repository.ts:776: "partial refund, then release
\* remainder".  The machine has the move, but releaseDecision answers
\* NOT_ELIGIBLE, the sweep does not select the status, and no page offers it.
RemainderIsReleased ==
    (order.status = "PARTIALLY_REFUNDED" /\ Held > 0) ~> ledger.released
=============================================================================
