---------------------------- MODULE OrderEscrow -----------------------------
(***************************************************************************)
(* One order's life in packages/core/src/orders: the order row, its        *)
(* payments, invoices, disputes, shipments and payout, the escrow ledger,  *)
(* and the charges the payments adapter holds for it.                      *)
(*                                                                         *)
(* One action is one committed database transaction.  The adapter is not   *)
(* part of the transaction: a transaction that rolls back after it called  *)
(* the adapter leaves the adapter's side effect behind (the *RolledBack    *)
(* actions).  A repository call that runs a second transaction after the   *)
(* first commits leaves it in `calls' until it runs, or a crash drops it.  *)
(***************************************************************************)
EXTENDS OrderMachine, EscrowMath

CONSTANTS
    Schedules,        \* the payment schedules buyers choose in this instance
    TotalCents,       \* the order total, which is its one supplier leg's total
    CommissionBps,    \* the platform commission
    PartialAmounts,   \* amounts staff may grant as a partial refund
    DisputeIds,       \* dispute rows the order may ever get
    ShipmentIds,      \* shipment rows, numbered in order of creation
    AutoReleaseDays,  \* 7 in the source
    Net30Days,        \* 30 in the source
    MaxLost           \* bound on transactions that roll back after an adapter call

ASSUME SchedulesAssumption == Schedules \subseteq PaymentSchedule
ASSUME TotalAssumption == TotalCents \in Nat \ {0}
ASSUME CommissionAssumption == CommissionBps \in 0..10000
ASSUME PartialAssumption == PartialAmounts \subseteq Nat
ASSUME ShipmentIdsAssumption == ShipmentIds \subseteq Nat
ASSUME DaysAssumption == /\ AutoReleaseDays \in Nat
                         /\ Net30Days \in Nat
                         /\ AutoReleaseDays <= Net30Days
ASSUME MaxLostAssumption == MaxLost \in Nat

VARIABLES
    order,      \* the Order row and its SubOrder's status (leg)
    payment,    \* Payment rows: the key pay:order:kind allows one of each kind
    invoice,    \* Invoice rows, at most one of each kind
    dispute,    \* Dispute rows
    shipment,   \* Shipment rows; age is the days since shippedAt
    ledger,     \* EscrowLedgerEntry rows, summed by idempotency key
    payout,     \* the Payout row of the supplier leg
    charge,     \* the adapter's captured charges, by payment
    calls,      \* second transactions still to run after a commit
    orphan,     \* charges captured by transactions that rolled back, by payment
    lost        \* how many transactions rolled back after an adapter call

rows == <<order, payment, invoice, dispute, shipment, ledger, payout>>
vars == <<rows, charge, calls, orphan, lost>>

-----------------------------------------------------------------------------
(* Values *)

Kinds == {"DEPOSIT", "FULL", "BALANCE"}

NoPayment == [status |-> "NONE", amountCents |-> 0, due |-> 0]
NoCharge == [captured |-> 0, transferred |-> 0, refunded |-> 0, home |-> "NONE"]
NotShipped == -1
Zero == [k \in Kinds |-> 0]

Cents(f) == f["DEPOSIT"] + f["FULL"] + f["BALANCE"]

TypeOK ==
    /\ order \in [status: OrderStatus, schedule: PaymentSchedule,
                  leg: {"NONE", "PENDING", "IN_PRODUCTION", "READY_TO_SHIP",
                        "SHIPPED", "DELIVERED"}]
    /\ payment \in [Kinds -> [status: {"NONE", "PENDING", "SUCCEEDED", "FAILED"},
                              amountCents: Nat, due: Nat]]
    /\ invoice \in [{"PRO_FORMA", "COMMERCIAL", "CREDIT_NOTE"} ->
                       {"NONE", "ISSUED", "PAID"}]
    /\ dispute \in [DisputeIds -> [status: DisputeStatus \cup {"NONE"},
                                   pre: OrderStatus]]
    /\ shipment \in [ShipmentIds ->
                        [status: {"NONE", "CREATED", "IN_TRANSIT", "DELIVERED"},
                         age: {NotShipped} \cup 0..Net30Days]]
    /\ ledger \in [hold: [Kinds -> Nat], refund: [Kinds -> Nat], partial: Nat,
                   release: Nat, commission: Nat, released: BOOLEAN]
    /\ payout \in [status: {"NONE", "PENDING", "PAID"}, net: Nat]
    /\ charge \in [Kinds -> [captured: Nat, transferred: Nat, refunded: Nat,
                             home: {"NONE", "web", "job"}]]
    /\ calls \subseteq {"issueBalanceInvoice", "releaseEscrow"}
    /\ orphan \in [Kinds -> Nat]
    /\ lost \in 0..MaxLost

Init ==
    /\ order = [status |-> "DRAFT", schedule |-> "FULL_PREPAY", leg |-> "NONE"]
    /\ payment = [k \in Kinds |-> NoPayment]
    /\ invoice = [i \in {"PRO_FORMA", "COMMERCIAL", "CREDIT_NOTE"} |-> "NONE"]
    /\ dispute = [d \in DisputeIds |-> [status |-> "NONE", pre |-> "DRAFT"]]
    /\ shipment = [s \in ShipmentIds |-> [status |-> "NONE", age |-> NotShipped]]
    /\ ledger = [hold |-> Zero, refund |-> Zero, partial |-> 0, release |-> 0,
                 commission |-> 0, released |-> FALSE]
    /\ payout = [status |-> "NONE", net |-> 0]
    /\ charge = [k \in Kinds |-> NoCharge]
    /\ calls = {}
    /\ orphan = Zero
    /\ lost = 0

-----------------------------------------------------------------------------
(* What the repository reads at the start of a transaction *)

Paid == {k \in Kinds : payment[k].status = "SUCCEEDED"}
PaidAmount == [k \in Kinds |-> IF k \in Paid THEN payment[k].amountCents ELSE 0]
PaidCents == Cents(PaidAmount)

\* escrowBalance: HOLD entries add, every other kind draws down.
Held == Cents(ledger.hold) - Cents(ledger.refund) - ledger.partial
        - ledger.release - ledger.commission

ActiveDisputes ==
    {d \in DisputeIds : dispute[d].status \in ESCROW_BLOCKING_DISPUTE_STATUSES}

Snapshot(schedule, disputeOpen) ==
    [status |-> order.status, paymentSchedule |-> schedule,
     balancePaid |-> "BALANCE" \in Paid \/ schedule = "FULL_PREPAY",
     disputeOpen |-> disputeOpen]

\* #transition: the machine accepts the event from the current status.
Accepts(event, to) ==
    orderTransition(Snapshot(order.schedule, ActiveDisputes # {}), event, to)

\* The clock releaseEscrow reads: the shipment that sorts first by deliveredAt
\* DESC.  Nulls sort first, and their order among themselves is unspecified.
ReleaseClocks ==
    LET rowsIn(status) == {s \in ShipmentIds : shipment[s].status \in status}
        undelivered == rowsIn({"CREATED", "IN_TRANSIT"})
        candidates == IF undelivered # {} THEN undelivered ELSE rowsIn({"DELIVERED"})
    IN  IF candidates = {} THEN {NotShipped} ELSE {shipment[s].age : s \in candidates}

Decision(age) ==
    releaseDecision(order.status, age, ActiveDisputes # {}, AutoReleaseDays)

OrderRow(status, schedule, leg) == [status |-> status, schedule |-> schedule, leg |-> leg]

-----------------------------------------------------------------------------
(* The adapter: refunds draw on what a charge still holds.  Charges the    *)
(* Net-30 job captured live in that run's own adapter and are unknown here *)

HeldOn(k) == charge[k].captured - charge[k].transferred - charge[k].refunded

\* Mutant of Refundable: the adapter forgets what it refunded before.
RefundableAgain(want) == \A k \in Kinds : want[k] > 0 => charge[k].home = "web"

Refundable(want) ==
    \A k \in Kinds : want[k] > 0 => charge[k].home = "web" /\ want[k] <= HeldOn(k)

Refunded(want) ==
    [k \in Kinds |-> [charge[k] EXCEPT !.refunded = @ + want[k]]]

\* Mutant of FullRefund: the balance leg is forgotten.
UpfrontRefund == [k \in Kinds |-> IF k = "BALANCE" THEN 0 ELSE PaidAmount[k]]

\* The full amount of every captured payment that has no refund row yet.
FullRefund == [k \in Kinds |-> IF ledger.refund[k] > 0 THEN 0 ELSE PaidAmount[k]]

\* A partial refund drawn from the captured payments, starting with `first'.
\* The query has no ORDER BY; an order has at most two captured payments.
PartialRefund(amount, first) ==
    LET firstPart == Least(amount, PaidAmount[first])
    IN  [k \in Kinds |-> IF k = first THEN firstPart
                         ELSE Least(amount - firstPart, PaidAmount[k])]

\* settlePayout draws on the charges in the order the payments were created.
Available(k) == IF k \in Paid /\ charge[k].home = "web" THEN HeldOn(k) ELSE 0
TransferPlan(need) ==
    LET taken == [k \in Kinds |-> IF k = "BALANCE" THEN 0 ELSE Least(Available(k), need)]
        rest == need - Cents(taken)
    IN  [taken EXCEPT !["BALANCE"] = Least(Available("BALANCE"), rest)]

Transferred(plan) ==
    [k \in Kinds |-> [charge[k] EXCEPT !.transferred = @ + plan[k]]]

-----------------------------------------------------------------------------
(* Buyer: place, pay, dispute, cancel *)

\* #schedulePayment: a PENDING payment for the plan's item, `due' days from now.
Scheduled(plan, due) ==
    [k \in Kinds |->
       IF \E m \in plan : m.kind = k
       THEN [status |-> "PENDING", due |-> due,
             amountCents |-> (CHOOSE m \in plan : m.kind = k).amountCents]
       ELSE payment[k]]

confirmOrder(schedule) ==
    /\ order.status = "DRAFT"
    /\ \E to \in OrderStatus :
         /\ orderTransition(Snapshot(schedule, FALSE), "PLACE", to)
         /\ order' = OrderRow(to, schedule, "PENDING")
    /\ payment' = Scheduled(upfrontPlan(schedule, TotalCents), 0)
    /\ invoice' = IF upfrontPlan(schedule, TotalCents) = {} THEN invoice
                  ELSE [invoice EXCEPT !["PRO_FORMA"] = "ISSUED"]
    /\ UNCHANGED <<dispute, shipment, ledger, payout, charge, calls, orphan, lost>>

Payable(k) ==
    /\ payment[k].status \in {"PENDING", "FAILED"}
    /\ payment[k].amountCents > 0
    /\ \/ k = "BALANCE"
       \/ order.status # "DEPOSIT_DUE"
       \/ Accepts("PAY_DEPOSIT", "DEPOSIT_PAID")

\* #escrowEntry: an entry whose idempotency key exists is not written again.
Booked(k, cents) == [ledger.hold EXCEPT ![k] = IF @ > 0 THEN @ ELSE cents]

\* Only the balance payment is linked to an invoice.
SettledInvoice(k) ==
    IF k = "BALANCE" THEN [invoice EXCEPT !["COMMERCIAL"] = "PAID"] ELSE invoice

\* Deposit legs move the machine, other legs only settle money: nothing else
\* is asked of the order's status.  home is the adapter that captures.  (When
\* the capture throws, the FAILED row is written inside the transaction that the
\* rethrow rolls back: nothing is left of the call.)
payScheduledPayment(k, home) ==
    /\ Payable(k)
    /\ order' = IF k # "BALANCE" /\ order.status = "DEPOSIT_DUE"
                THEN [order EXCEPT !.status = "DEPOSIT_PAID"] ELSE order
    /\ charge' = [charge EXCEPT ![k] =
                    [captured |-> payment[k].amountCents, transferred |-> 0,
                     refunded |-> 0, home |-> home]]
    /\ payment' = [payment EXCEPT ![k].status = "SUCCEEDED"]
    /\ ledger' = [ledger EXCEPT !.hold = Booked(k, payment[k].amountCents)]
    /\ invoice' = SettledInvoice(k)
    /\ UNCHANGED <<dispute, shipment, payout, calls, orphan, lost>>

\* The capture succeeds and the transaction does not commit.
payRolledBack(k) ==
    /\ Payable(k)
    /\ lost < MaxLost
    /\ lost' = lost + 1
    /\ orphan' = [orphan EXCEPT ![k] = @ + 1]
    /\ UNCHANGED <<rows, charge, calls>>

runNet30Charges ==
    /\ payment["BALANCE"].status = "PENDING"
    /\ payment["BALANCE"].due = 0
    /\ order.schedule = "NET_30"
    /\ payScheduledPayment("BALANCE", "job")

openDispute(d) ==
    /\ dispute[d].status = "NONE"
    /\ \E to \in OrderStatus : /\ Accepts("OPEN_DISPUTE", to)
                               /\ order' = [order EXCEPT !.status = to]
    /\ dispute' = [dispute EXCEPT ![d] = [status |-> "OPEN", pre |-> order.status]]
    /\ UNCHANGED <<payment, invoice, shipment, ledger, payout, charge, calls, orphan, lost>>

\* Mutant of refundPayments: the escrow mirror entries are not written.
refundUnbooked(want) == Refundable(want) /\ charge' = Refunded(want) /\ UNCHANGED ledger

\* Refund rows, their escrow mirror entries, and the adapter's refunds.
refundPayments(want) ==
    /\ Refundable(want)
    /\ charge' = Refunded(want)
    /\ ledger' = [ledger EXCEPT !.refund = [k \in Kinds |-> @[k] + want[k]]]

cancelOrder ==
    /\ \E to \in OrderStatus : /\ Accepts("CANCEL", to)
                               /\ order' = [order EXCEPT !.status = to]
    /\ refundPayments(FullRefund)
    /\ UNCHANGED <<payment, invoice, dispute, shipment, payout, calls, orphan, lost>>

-----------------------------------------------------------------------------
(* Supplier: production, balance, shipment, delivery *)

startProduction ==
    /\ \E to \in OrderStatus :
         /\ Accepts("START_PRODUCTION", to)
         /\ order' = OrderRow(to, order.schedule, "IN_PRODUCTION")
    /\ UNCHANGED <<payment, invoice, dispute, shipment, ledger, payout, charge, calls, orphan, lost>>

completeProduction ==
    /\ \E to \in OrderStatus :
         /\ Accepts("COMPLETE_PRODUCTION", to)
         /\ order' = OrderRow(to, order.schedule, "READY_TO_SHIP")
    /\ UNCHANGED <<payment, invoice, dispute, shipment, ledger, payout, charge, calls, orphan, lost>>

BalanceIssuable ==
    /\ payment["BALANCE"].status = "NONE"
    /\ TotalCents - PaidCents >= 0
    /\ \/ order.schedule = "DEPOSIT_30_70" /\ Accepts("ISSUE_BALANCE", "BALANCE_DUE")
       \/ order.schedule = "NET_30" /\ order.status = "SHIPPED"

\* Days since the oldest shipment's shippedAt, or none when it has not left.
SinceShipped ==
    LET created == {s \in ShipmentIds : shipment[s].status # "NONE"}
        oldest == {s \in created : \A t \in created : s <= t}
    IN  IF \E s \in oldest : shipment[s].age >= 0
        THEN shipment[CHOOSE s \in oldest : TRUE].age ELSE 0

\* net30DueAt: terms run from shippedAt, or from now.
BalanceDue == IF order.schedule = "NET_30" THEN Net30Days - SinceShipped ELSE 0

issueBalance ==
    /\ BalanceIssuable
    /\ order' = IF order.schedule = "DEPOSIT_30_70"
                THEN [order EXCEPT !.status = "BALANCE_DUE"] ELSE order
    /\ LET plan == balancePlan(order.schedule, TotalCents, PaidCents)
       IN  /\ payment' = Scheduled(plan, BalanceDue)
           /\ invoice' = IF plan = {} THEN invoice ELSE [invoice EXCEPT !["COMMERCIAL"] = "ISSUED"]
    /\ UNCHANGED <<dispute, shipment, ledger, payout, charge, orphan, lost>>

issueBalanceInvoice == issueBalance /\ UNCHANGED calls

createShipment(s) ==
    /\ order.leg # "NONE"
    /\ shipment[s].status = "NONE"
    /\ \A t \in ShipmentIds : t < s => shipment[t].status # "NONE"
    /\ shipment' = [shipment EXCEPT ![s] = [status |-> "CREATED", age |-> NotShipped]]
    /\ UNCHANGED <<order, payment, invoice, dispute, ledger, payout, charge, calls, orphan, lost>>

\* A Net-30 order is invoiced by a second transaction after this one commits;
\* a replay of the call returns early and does not reach it.
markShipmentInTransit(s) ==
    /\ shipment[s].status = "CREATED"
    /\ \E to \in OrderStatus : /\ Accepts("SHIP", to)
                               /\ order' = OrderRow(to, order.schedule, "SHIPPED")
    /\ shipment' = [shipment EXCEPT ![s] = [status |-> "IN_TRANSIT", age |-> 0]]
    /\ calls' = IF order.schedule = "NET_30" THEN calls \cup {"issueBalanceInvoice"} ELSE calls
    /\ UNCHANGED <<payment, invoice, dispute, ledger, payout, charge, orphan, lost>>

\* Nothing asks whether the shipment ever left the dock.
confirmDelivery(s) ==
    /\ shipment[s].status \in {"CREATED", "IN_TRANSIT"}
    /\ \E to \in OrderStatus : /\ Accepts("DELIVER", to)
                               /\ order' = OrderRow(to, order.schedule, "DELIVERED")
    /\ shipment' = [shipment EXCEPT ![s].status = "DELIVERED"]
    /\ calls' = calls \cup {"releaseEscrow"}
    /\ UNCHANGED <<payment, invoice, dispute, ledger, payout, charge, orphan, lost>>

confirmDeliveryReplay(s) ==
    /\ shipment[s].status = "DELIVERED"
    /\ calls' = calls \cup {"releaseEscrow"}
    /\ UNCHANGED <<rows, charge, orphan, lost>>

-----------------------------------------------------------------------------
(* Escrow: release, sweep, mediation, settlement *)

\* Mutants of ReleaseEntries: the order's total is split instead of what is
\* held, and the commission entry is not written.
ReleaseOfTotal ==
    [ledger EXCEPT !.release = netCents(TotalCents, CommissionBps),
                   !.commission = commissionCents(TotalCents, CommissionBps),
                   !.released = TRUE]
ReleaseWithoutCommission ==
    [ledger EXCEPT !.release = netCents(Held, CommissionBps), !.released = TRUE]

\* RELEASE and COMMISSION entries that split the held balance, once per order.
ReleaseEntries ==
    IF ledger.released THEN ledger
    ELSE [hold |-> ledger.hold, refund |-> ledger.refund, partial |-> ledger.partial,
          release |-> netCents(Held, CommissionBps),
          commission |-> commissionCents(Held, CommissionBps),
          released |-> TRUE]

\* One payout per supplier leg, for the leg's total whatever was held.
PayoutRow ==
    IF payout.status # "NONE" THEN payout
    ELSE [status |-> "PENDING", net |-> netCents(TotalCents, CommissionBps)]

ReleasePossible == \E age \in ReleaseClocks : Decision(age) = "RELEASE"

\* The status moves before the held balance is looked at, and stays moved
\* when nothing is held.
releaseEscrow ==
    /\ ReleasePossible
    /\ \E delivered, to \in OrderStatus :
         /\ IF order.status = "SHIPPED" THEN Accepts("DELIVER", delivered)
                                        ELSE delivered = order.status
         /\ orderTransition([Snapshot(order.schedule, FALSE) EXCEPT !.status = delivered],
                            "RELEASE_ESCROW", to)
         /\ order' = [order EXCEPT !.status = to]
    /\ ledger' = IF Held > 0 THEN ReleaseEntries ELSE ledger
    /\ payout' = IF Held > 0 THEN PayoutRow ELSE payout
    /\ UNCHANGED <<payment, invoice, dispute, shipment, charge, orphan, lost>>

sweepEscrowReleases ==
    /\ order.status \in {"SHIPPED", "DELIVERED"}
    /\ Held > 0
    /\ releaseEscrow
    /\ UNCHANGED calls

\* Mutant of resolveTo: the dispute row is left open.
resolveOrderOnly(d, to) ==
    /\ d \in ActiveDisputes
    /\ Accepts("RESOLVE_DISPUTE", to)
    /\ order' = [order EXCEPT !.status = to]
    /\ UNCHANGED <<dispute, payment, shipment, calls, orphan, lost>>

\* Staff resolves an active dispute; the order leaves DISPUTED for `to'.
resolveTo(d, to) ==
    /\ d \in ActiveDisputes
    /\ Accepts("RESOLVE_DISPUTE", to)
    /\ order' = [order EXCEPT !.status = to]
    /\ dispute' = [dispute EXCEPT ![d].status = "RESOLVED"]
    /\ UNCHANGED <<payment, shipment, calls, orphan, lost>>

resolveRelease(d) ==
    /\ resolveTo(d, "ESCROW_RELEASED")
    /\ ledger' = ReleaseEntries
    /\ payout' = PayoutRow
    /\ UNCHANGED <<invoice, charge>>

resolveRefundFull(d) ==
    /\ resolveTo(d, "CANCELLED")
    /\ refundPayments(FullRefund)
    /\ invoice' = [invoice EXCEPT !["CREDIT_NOTE"] = "ISSUED"]
    /\ UNCHANGED payout

resolveRefundPartial(d, amount, first) ==
    LET portions == PartialRefund(amount, first)
    IN  /\ amount > 0 /\ amount <= PaidCents
        /\ first \in Paid
        /\ resolveTo(d, "PARTIALLY_REFUNDED")
        /\ Refundable(portions)
        /\ charge' = Refunded(portions)
        /\ ledger' = [ledger EXCEPT !.partial = @ + Cents(portions)]
        /\ invoice' = [invoice EXCEPT !["CREDIT_NOTE"] = "ISSUED"]
        /\ UNCHANGED payout

resolveBackToDelivered(d) ==
    /\ resolveTo(d, "DELIVERED")
    /\ UNCHANGED <<ledger, payout, invoice, charge>>

startReview(d) ==
    /\ disputeTransition(dispute[d].status, "START_REVIEW", "UNDER_REVIEW")
    /\ dispute' = [dispute EXCEPT ![d].status = "UNDER_REVIEW"]
    /\ UNCHANGED <<order, payment, invoice, shipment, ledger, payout, charge, calls, orphan, lost>>

\* The buyer withdraws: the order resumes only where a resolution may land.
withdraw(d) ==
    /\ disputeTransition(dispute[d].status, "WITHDRAW", "WITHDRAWN")
    /\ dispute' = [dispute EXCEPT ![d].status = "WITHDRAWN"]
    /\ order' = IF /\ order.status = "DISPUTED"
                   /\ dispute[d].pre \in LEGAL_DISPUTE_RESOLUTIONS
                THEN [order EXCEPT !.status = dispute[d].pre] ELSE order
    /\ UNCHANGED <<payment, invoice, shipment, ledger, payout, charge, calls, orphan, lost>>

\* A refund loop that stops part-way, because the adapter refuses a later
\* refund or because the commit fails: the refunds made stand, the rows do not.
refundRolledBack(want) ==
    \E done \in SUBSET {k \in Kinds : want[k] > 0} :
      LET made == [k \in Kinds |-> IF k \in done THEN want[k] ELSE 0]
          refused == \E k \in Kinds \ done :
                       ~Refundable([Zero EXCEPT ![k] = want[k]])
      IN  /\ done # {}
          /\ Refundable(made)
          /\ IF refused THEN lost' = lost ELSE lost < MaxLost /\ lost' = lost + 1
          /\ charge' = Refunded(made)
          /\ UNCHANGED <<rows, calls, orphan>>

cancelRolledBack == order.status \in CANCELABLE_STATUSES /\ refundRolledBack(FullRefund)

resolveRolledBack(d) ==
    /\ d \in ActiveDisputes
    /\ order.status = "DISPUTED"
    /\ \/ refundRolledBack(FullRefund)
       \/ \E a \in PartialAmounts, first \in Paid :
            a > 0 /\ a <= PaidCents /\ refundRolledBack(PartialRefund(a, first))

\* Mutant of settlePayout: the shortfall of the transfers goes unnoticed.
settleUncovered ==
    /\ payout.status = "PENDING"
    /\ charge' = Transferred(TransferPlan(payout.net))
    /\ payout' = [payout EXCEPT !.status = "PAID"]
    /\ UNCHANGED <<order, payment, invoice, dispute, shipment, ledger, calls, orphan, lost>>

\* Transfers that cover the payout settle it.
settlePayout ==
    LET plan == TransferPlan(payout.net)
    IN  /\ payout.status = "PENDING"
        /\ Cents(plan) = payout.net
        /\ charge' = Transferred(plan)
        /\ payout' = [payout EXCEPT !.status = "PAID"]
        /\ UNCHANGED <<order, payment, invoice, dispute, shipment, ledger, calls, orphan, lost>>

\* insufficient_held_funds is thrown after the transfers were made.
settlePayoutShort ==
    LET plan == TransferPlan(payout.net)
    IN  /\ payout.status = "PENDING"
        /\ Cents(plan) < payout.net
        /\ charge' = Transferred(plan)
        /\ UNCHANGED <<rows, calls, orphan, lost>>

\* The settlement stops between its transfers, or the commit fails after them.
settleRolledBack ==
    LET plan == TransferPlan(payout.net)
    IN  /\ payout.status = "PENDING"
        /\ lost < MaxLost
        /\ lost' = lost + 1
        /\ \E made \in {plan, [plan EXCEPT !["BALANCE"] = 0]} : charge' = Transferred(made)
        /\ UNCHANGED <<rows, calls, orphan>>

-----------------------------------------------------------------------------
(* Second transactions, crashes, time *)

runIssueBalanceInvoice ==
    /\ "issueBalanceInvoice" \in calls
    /\ calls' = calls \ {"issueBalanceInvoice"}
    /\ IF BalanceIssuable THEN issueBalance
       ELSE UNCHANGED <<rows, charge, orphan, lost>>

runReleaseEscrow ==
    /\ "releaseEscrow" \in calls
    /\ calls' = calls \ {"releaseEscrow"}
    /\ \/ releaseEscrow
       \/ /\ \E age \in ReleaseClocks : Decision(age) # "RELEASE"
          /\ UNCHANGED <<rows, charge, orphan, lost>>

\* The process stops between the two transactions of a call.
crash ==
    /\ calls # {}
    /\ calls' = {}
    /\ UNCHANGED <<rows, charge, orphan, lost>>

\* A day passes.  Ages stop at Net30Days: no clause reads further.
tick ==
    /\ shipment' = [s \in ShipmentIds |->
                      IF shipment[s].age \in 0..(Net30Days - 1)
                      THEN [shipment[s] EXCEPT !.age = @ + 1] ELSE shipment[s]]
    /\ payment' = [k \in Kinds |-> IF payment[k].due > 0
                                   THEN [payment[k] EXCEPT !.due = @ - 1] ELSE payment[k]]
    /\ <<shipment', payment'>> # <<shipment, payment>>
    /\ UNCHANGED <<order, invoice, dispute, ledger, payout, charge, calls, orphan, lost>>

Buyer ==
    \/ \E s \in Schedules : confirmOrder(s)
    \/ \E k \in Kinds : payScheduledPayment(k, "web") \/ payRolledBack(k)
    \/ \E d \in DisputeIds : openDispute(d) \/ withdraw(d)
    \/ cancelOrder
    \/ cancelRolledBack

Supplier ==
    \/ startProduction
    \/ completeProduction
    \/ issueBalanceInvoice
    \/ \E s \in ShipmentIds :
         \/ createShipment(s)
         \/ markShipmentInTransit(s)
         \/ confirmDelivery(s)
         \/ confirmDeliveryReplay(s)

Staff ==
    \/ \E d \in DisputeIds :
         \/ startReview(d)
         \/ resolveRelease(d)
         \/ resolveRefundFull(d)
         \/ \E a \in PartialAmounts, k \in Kinds : resolveRefundPartial(d, a, k)
         \/ resolveBackToDelivered(d)
         \/ resolveRolledBack(d)
    \/ settlePayout
    \/ settlePayoutShort
    \/ settleRolledBack

System ==
    \/ sweepEscrowReleases
    \/ runNet30Charges
    \/ runIssueBalanceInvoice
    \/ runReleaseEscrow
    \/ crash
    \/ tick

Next == Buyer \/ Supplier \/ Staff \/ System

Spec == Init /\ [][Next]_vars

\* The release waits for nothing but its job: it does not hang on which of
\* several undelivered shipments the query puts first.
ReleaseCertain == \A age \in ReleaseClocks : Decision(age) = "RELEASE"

\* The scheduler keeps sweeping, days pass, and a second transaction follows the
\* first.  Nothing is assumed of the Net-30 run: each run numbers its charges
\* anew, and Payment.stripePaymentIntentId is unique, so its commit may be
\* refused every time.
FairSpec ==
    Spec /\ WF_vars(tick) /\ WF_vars(ReleaseCertain /\ sweepEscrowReleases)
         /\ WF_vars(runIssueBalanceInvoice) /\ WF_vars(runReleaseEscrow)

-----------------------------------------------------------------------------
(* Safety *)

\* The escrow ledger of an order never pays out more than it took in, over any
\* sequence of payments, disputes, resolutions, releases and refunds: the
\* balance escrowBalance (escrow.ts) computes never goes negative, which is
\* where it would throw and block every later escrow operation on the order.
EscrowNeverOverdrawn == Held >= 0

\* The ledger and the adapter agree about money: a payment is SUCCEEDED exactly
\* when a charge of its amount is held for it and booked as a HOLD entry, and
\* the refunds booked are the refunds the adapter made, except that refunds of
\* a transaction that rolled back are on the adapter only.
LedgerMatchesCharges ==
    /\ \A k \in Kinds :
         /\ k \in Paid <=> charge[k].home # "NONE"
         /\ ledger.hold[k] = charge[k].captured
         /\ ledger.hold[k] = PaidAmount[k]
    /\ LET booked == Cents(ledger.refund) + ledger.partial
           made == Cents([k \in Kinds |-> charge[k].refunded])
       IN  booked <= made /\ (lost = 0 => booked = made)

\* A cancelled or fully refunded order never pays its supplier: no release
\* entry, no payout row, and nothing transferred.
CancelledOrderNeverPaysSupplier ==
    order.status = "CANCELLED" =>
        /\ ~ledger.released
        /\ payout.status = "NONE"
        /\ \A k \in Kinds : charge[k].transferred = 0

\* Money reaches the supplier's account only after the ledger released it, and
\* a payout row exists exactly for a released order; a PAID payout had all its
\* cents transferred.
TransferOnlyAfterRelease ==
    /\ payout.status # "NONE" <=> ledger.released
    /\ \A k \in Kinds : charge[k].transferred > 0 => ledger.released
    /\ payout.status = "PAID" =>
         Cents([k \in Kinds |-> charge[k].transferred]) >= payout.net

\* Goods leave the dock only fully paid, except on Net-30: the gate of the
\* order machine on SHIP, through every path to READY_TO_SHIP and BALANCE_DUE.
ShippedOnlyWhenPaid ==
    (\E s \in ShipmentIds : shipment[s].age >= 0) =>
        order.schedule = "NET_30" \/ PaidCents = TotalCents

\* An active dispute is the only one of its order and holds it in DISPUTED, so
\* no other operation can move the order on.
ActiveDisputeFreezesOrder ==
    /\ ActiveDisputes # {} => order.status = "DISPUTED"
    /\ \A d, e \in ActiveDisputes : d = e

\* The balance invoice is open while the balance payment is due and settled
\* when it is paid, whoever pays it.
InvoiceTracksBalance ==
    /\ invoice["COMMERCIAL"] = "PAID" <=> payment["BALANCE"].status = "SUCCEEDED"
    /\ invoice["COMMERCIAL"] = "ISSUED" <=> payment["BALANCE"].status = "PENDING"

\* The escrow pays out what it took in, and the supplier is paid from what was
\* released: over any sequence of payments, disputes and refunds escrowBalance
\* (escrow.ts:63) throws for no order, and no transfer runs ahead of its release.
PayoutsAreBacked == EscrowNeverOverdrawn /\ TransferOnlyAfterRelease

\* A stopped order pays nobody: neither a cancelled one, nor one in dispute.
StoppedOrderPaysNobody == CancelledOrderNeverPaysSupplier /\ ActiveDisputeFreezesOrder

\* The books follow the money: every entry of the ledger and every invoice has
\* the charges behind it that it speaks of.
BooksFollowCharges == LedgerMatchesCharges /\ InvoiceTracksBalance

\* What a step may never do: release, or create a payout, while a dispute is
\* active, unless the step is the staff's resolution of that dispute.
DisputeFreezesRelease ==
    [][ActiveDisputes # {} /\ ActiveDisputes' # {} =>
         /\ ledger'.released = ledger.released
         /\ payout'.status = payout.status]_vars

\* The step that cancels an order gives the buyer everything back: nothing
\* captured for it stays in escrow.
CancellationRefundsEverything ==
    [][order.status # "CANCELLED" /\ order'.status = "CANCELLED" => Held' = 0]_vars

-----------------------------------------------------------------------------
(* What makes the safety properties inductive *)

\* Which entries a ledger may hold in which status, as the code stands: a full
\* refund is booked with the cancellation, a partial refund with the resolution
\* that leaves the order PARTIALLY_REFUNDED, a release with the move to
\* ESCROW_RELEASED.  No call releases what a partial refund leaves, although
\* the machine has that move (RemainderIsReleased in OrderEscrowClaims).
OneFate ==
    /\ \A k \in Kinds :
         /\ ledger.hold[k] = PaidAmount[k]
         /\ ledger.refund[k] <= ledger.hold[k]
         /\ ledger.refund[k] > 0 => order.status = "CANCELLED"
    /\ ledger.partial > 0 => order.status = "PARTIALLY_REFUNDED"
    /\ ledger.partial <= Cents(ledger.hold)
    /\ ledger.released => order.status = "ESCROW_RELEASED"
    /\ ~ledger.released => ledger.release = 0 /\ ledger.commission = 0
    /\ ledger.release + ledger.commission <= Cents(ledger.hold)

\* No charge is drawn on for more than it captured, by transfers and refunds
\* together and over any number of retried or rolled-back transactions; a
\* charge exists only for a captured payment, and an order is charged its
\* deposit or its full amount up front but never both.
ChargesBacked ==
    /\ \A k \in Kinds :
         /\ charge[k].captured = PaidAmount[k]
         /\ charge[k].transferred + charge[k].refunded <= charge[k].captured
    /\ payment["DEPOSIT"].status = "NONE" \/ payment["FULL"].status = "NONE"
    /\ order.status = "DRAFT" => \A k \in Kinds : payment[k] = NoPayment

\* A full refund is final: beside it nothing is refunded in part, released or
\* owed to the supplier, and no payment is refunded twice.
FullRefundIsFinal ==
    /\ \A k \in Kinds : ledger.refund[k] <= ledger.hold[k]
    /\ Cents(ledger.refund) > 0 =>
         ledger.partial = 0 /\ ~ledger.released /\ payout.status = "NONE"

\* Money returned is money gone, in the escrow and at the processor: no
\* sequence of disputes, resolutions, late captures, retries and lost
\* transactions refunds an order in full and pays its supplier, or draws on a
\* charge for more than it took.
OneFateForEveryCharge == FullRefundIsFinal /\ ChargesBacked

-----------------------------------------------------------------------------
(* Liveness, under FairSpec *)

\* A shipment is left on the dock of a shipped order: it can no longer ship, and
\* releaseEscrow may read the clock from it, which has none
\* (order-repository.ts:638).
LeftOnTheDock ==
    order.status = "SHIPPED" /\ \E s \in ShipmentIds : shipment[s].status = "CREATED"

\* Held money of a shipped order does not wait on the buyer: after a crash
\* between delivery and release, a dispute withdrawn or a delivery nobody
\* confirms, the sweep releases it, unless a dispute takes the order first or a
\* second shipment was left on the dock.
MoneyMovesOn ==
    (order.status \in {"SHIPPED", "DELIVERED"} /\ Held > 0)
        ~> order.status \notin {"SHIPPED", "DELIVERED"} \/ LeftOnTheDock

-----------------------------------------------------------------------------
(* Refinement: the order's ledger is an escrow account *)

Account == INSTANCE EscrowAccount WITH
    captured <- Cents(ledger.hold),
    toBuyer <- Cents(ledger.refund) + ledger.partial,
    toSupplier <- ledger.release,
    toPlatform <- ledger.commission,
    released <- ledger.released

\* Every operation of the repositories moves the ledger as an escrow account
\* may move, or leaves it alone.
IsEscrowAccount == Account!AccountSpec
=============================================================================
