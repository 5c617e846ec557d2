----------------------------- MODULE OrderPage ------------------------------
(***************************************************************************)
(* The order page of apps/web, app/orders/[orderId]: which forms it shows  *)
(* the buyer, the supplier and the staff for the order as it stands, and   *)
(* the server action behind each form.  The page decides what a person can *)
(* ask for, the repository what is granted; a form the repository refuses  *)
(* comes back with an error and changes nothing.                           *)
(***************************************************************************)
EXTENDS OrderEscrow

\* The staff's choices in the resolution form, with what each one calls.
resolveDisputeAction(d) ==
    \/ resolveRelease(d)
    \/ resolveRefundFull(d)
    \/ \E a \in PartialAmounts, k \in Kinds : resolveRefundPartial(d, a, k)
    \/ resolveBackToDelivered(d)

confirmOrderAction == \E s \in Schedules : confirmOrder(s)
payPaymentAction(k) == payScheduledPayment(k, "web")
createShipmentAction == \E s \in ShipmentIds : createShipment(s)

\* The dispute the page shows.
OpenOnPage == {d \in DisputeIds : dispute[d].status \in {"OPEN", "UNDER_REVIEW"}}

-----------------------------------------------------------------------------
(* What each person sees, and what the form does *)

\* Mutant of BuyerPage: a balance can be paid only before the goods leave.
BuyerPagePayBeforeShipping ==
    \/ order.status = "DRAFT" /\ (confirmOrderAction \/ cancelOrder)
    \/ \E k \in Kinds : /\ payment[k].status = "PENDING"
                        /\ order.status \in {"DEPOSIT_DUE", "READY_TO_SHIP"}
                        /\ payPaymentAction(k)

\* The cancel form is shown for a draft only, and the pay button for a
\* PENDING payment only.
BuyerPage ==
    \/ order.status = "DRAFT" /\ (confirmOrderAction \/ cancelOrder)
    \/ \E k \in Kinds : payment[k].status = "PENDING" /\ payPaymentAction(k)

SupplierPage ==
    \/ order.status = "DEPOSIT_PAID" /\ startProduction
    \/ order.status = "IN_PRODUCTION" /\ completeProduction
    \/ order.status = "BALANCE_DUE" /\ createShipmentAction
    \/ /\ order.status = "READY_TO_SHIP"
       /\ IF order.schedule = "DEPOSIT_30_70" THEN issueBalanceInvoice
                                              ELSE createShipmentAction
    \/ \E s \in ShipmentIds :
         \/ shipment[s].status = "CREATED" /\ markShipmentInTransit(s)
         \/ shipment[s].status = "IN_TRANSIT" /\ confirmDelivery(s)

\* Staff mediate, and the buyer withdraws what staff has not picked up.
DisputeCard ==
    \E d \in OpenOnPage :
      \/ resolveDisputeAction(d)
      \/ dispute[d].status = "OPEN" /\ (withdraw(d) \/ startReview(d))

\* The jobs and the clock, which need nobody's page.
Unattended ==
    \/ sweepEscrowReleases
    \/ runNet30Charges
    \/ runIssueBalanceInvoice
    \/ runReleaseEscrow
    \/ tick

-----------------------------------------------------------------------------
(* Properties *)

progress == <<order, payment, shipment>>
OnTheWay == BuyerPage \/ SupplierPage \/ DisputeCard \/ Unattended

\* Where an order rests for good without having ended: a dispute withdrawn before
\* the goods left, which leaves the order DISPUTED with no dispute to resolve; a
\* delivered Net-30 order that was never invoiced, because a crash dropped the
\* second transactions or a resolution put it there out of production; a
\* partial refund, whose remainder the machine would release and no call does
\* (order-machine.ts:183); a released order, which the machine would close and
\* no call does (order-machine.ts:188).
LeftInDispute == order.status = "DISPUTED" /\ ActiveDisputes = {}
NeverInvoiced ==
    /\ order.status = "DELIVERED"
    /\ order.schedule = "NET_30"
    /\ payment["BALANCE"].status = "NONE"
    /\ "releaseEscrow" \notin calls
NeverReleased == order.status = "PARTIALLY_REFUNDED"
NeverClosed == order.status = "ESCROW_RELEASED"
Stranded == LeftInDispute \/ NeverInvoiced \/ NeverReleased \/ NeverClosed

\* The page and the repository decide separately what a person may do next, in
\* code that shares nothing.  An order that is not in a terminal status has a
\* form on somebody's page that the repository grants and that moves the order,
\* its payments or its goods on, or a job that does, exactly when it is not
\* stranded: from the four places above neither a page nor a job moves the order.
\* Opening a dispute does not count as a way on.
SomebodyCanMoveOn ==
    order.status \notin TERMINAL_ORDER_STATUSES =>
        IF Stranded THEN ~ENABLED <<OnTheWay>>_order
                    ELSE ENABLED <<OnTheWay>>_progress
=============================================================================
