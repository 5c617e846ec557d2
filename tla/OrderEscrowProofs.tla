------------------------- MODULE OrderEscrowProofs --------------------------
(***************************************************************************)
(* Proofs about OrderEscrow, for every total, commission, set of disputes  *)
(* and shipments, release window and number of lost transactions.          *)
(***************************************************************************)
EXTENDS OrderEscrow, TLAPS

-----------------------------------------------------------------------------
(* The arithmetic *)

\* commissionSplit (escrow.ts): the rounded commission is at most the gross,
\* so a release splits what is held into two non-negative parts.
LEMMA CommissionSplit ==
    ASSUME NEW gross \in Nat
    PROVE  /\ commissionCents(gross, CommissionBps) \in Nat
           /\ netCents(gross, CommissionBps) \in Nat
           /\ netCents(gross, CommissionBps) + commissionCents(gross, CommissionBps) = gross
<1> DEFINE p == gross * CommissionBps
           q == (2 * p + 10000) \div 20000
<1>0. CommissionBps \in Nat /\ 10000 - CommissionBps \in Nat
  BY CommissionAssumption
<1>1. p \in Nat /\ p <= gross * 10000
  <2>1. p \in Nat BY <1>0
  <2>2. gross * (10000 - CommissionBps) \in Nat BY <1>0
  <2>3. gross * (10000 - CommissionBps) = gross * 10000 - p BY <1>0
  <2> QED BY <2>1, <2>2, <2>3
<1>2. q \in Int /\ q * 20000 <= 2 * p + 10000 /\ 0 <= q
  <2> HIDE DEF p
  <2> QED BY <1>1
<1>3. q <= gross
  <2> HIDE DEF p, q
  <2> QED BY <1>1, <1>2
<1>4. commissionCents(gross, CommissionBps) = q
  <2>1. 2 * gross * CommissionBps = 2 * p BY <1>0
  <2> QED BY <2>1 DEF commissionCents
<1> HIDE DEF q, p
<1> QED BY <1>2, <1>3, <1>4 DEF netCents

\* upfrontPlan (payment-schedule.ts): at most one milestone, a deposit or the
\* full amount, of a non-negative number of cents.
LEMMA UpfrontPlan ==
    ASSUME NEW schedule \in PaymentSchedule
    PROVE  /\ \A m \in upfrontPlan(schedule, TotalCents) :
                m.kind \in {"DEPOSIT", "FULL"} /\ m.amountCents \in Nat
           /\ \A m, n \in upfrontPlan(schedule, TotalCents) : m = n
<1>1. depositCents(TotalCents) \in Nat
  BY TotalAssumption DEF depositCents, DEPOSIT_BPS
<1> QED BY <1>1, TotalAssumption DEF upfrontPlan, PaymentSchedule

\* Sums over the three payments of an order.
LEMMA CentsNat ==
    ASSUME NEW f \in [Kinds -> Nat]
    PROVE  /\ Cents(f) \in Nat
           /\ \A k \in Kinds : f[k] <= Cents(f)
  BY DEF Cents, Kinds

LEMMA CentsMonotone ==
    ASSUME NEW f \in [Kinds -> Nat], NEW g \in [Kinds -> Nat],
           \A k \in Kinds : f[k] <= g[k]
    PROVE  Cents(f) <= Cents(g)
  BY DEF Cents, Kinds

-----------------------------------------------------------------------------
(* The order machine *)

Fates == {"CANCELLED", "PARTIALLY_REFUNDED", "ESCROW_RELEASED", "CLOSED"}

\* order-machine.ts: no event leaves a cancelled or partially refunded order
\* except a release, none leaves a dispute except its resolution, and no event
\* leads back to DRAFT.
LEMMA OrderMoves ==
    ASSUME NEW o \in OrderSnapshot, NEW event \in OrderEvent, NEW to \in OrderStatus,
           orderTransition(o, event, to)
    PROVE  /\ to # "DRAFT"
           /\ o.status # "CANCELLED"
           /\ o.status \in Fates => event \in {"CLOSE", "RELEASE_ESCROW"}
           /\ event = "RELEASE_ESCROW" => ~o.disputeOpen /\ to = "ESCROW_RELEASED"
           /\ o.status = "DISPUTED" => event = "RESOLVE_DISPUTE"
           /\ event = "OPEN_DISPUTE" => to = "DISPUTED"
           /\ event = "CANCEL" => to = "CANCELLED" /\ o.status \in CANCELABLE_STATUSES
           /\ event = "RESOLVE_DISPUTE" => o.status = "DISPUTED"
           /\ event \in {"PLACE", "PAY_DEPOSIT", "START_PRODUCTION", "COMPLETE_PRODUCTION",
                        "ISSUE_BALANCE", "SHIP", "DELIVER"}
                => to \notin Fates \cup {"DISPUTED"}
  BY DEF OrderSnapshot, OrderEvent, OrderStatus, orderTransition, PlainMoves, GatedMoves,
         CANCELABLE_STATUSES, DISPUTABLE_STATUSES, LEGAL_DISPUTE_RESOLUTIONS, Fates

LEMMA AcceptedMoves ==
    ASSUME TypeOK, NEW event \in OrderEvent, NEW to \in OrderStatus, Accepts(event, to)
    PROVE  /\ to # "DRAFT"
           /\ order.status # "CANCELLED"
           /\ order.status \in Fates => event \in {"CLOSE", "RELEASE_ESCROW"}
           /\ order.status = "DISPUTED" => event = "RESOLVE_DISPUTE"
           /\ event = "OPEN_DISPUTE" => to = "DISPUTED"
           /\ event = "CANCEL" => to = "CANCELLED" /\ order.status \in CANCELABLE_STATUSES
           /\ event = "RESOLVE_DISPUTE" => order.status = "DISPUTED"
           /\ event \in {"PLACE", "PAY_DEPOSIT", "START_PRODUCTION", "COMPLETE_PRODUCTION",
                        "ISSUE_BALANCE", "SHIP", "DELIVER"}
                => to \notin Fates \cup {"DISPUTED"}
<1> DEFINE o == Snapshot(order.schedule, ActiveDisputes # {})
<1>1. o \in OrderSnapshot /\ o.status = order.status
  BY DEF TypeOK, Snapshot, OrderSnapshot
<1>2. orderTransition(o, event, to)
  BY DEF Accepts
<1> HIDE DEF o
<1> QED BY <1>1, <1>2, OrderMoves

-----------------------------------------------------------------------------
(* The inductive invariant *)

IInv == /\ TypeOK
        /\ OneFate
        /\ ChargesBacked
        /\ TransferOnlyAfterRelease
        /\ ActiveDisputeFreezesOrder

\* What a step must establish: the invariant again, and a step of the account.
LedgerStep == [Account!AccountNext]_(Account!accountVars)

LEMMA InitInv == Init => IInv
<1> SUFFICES ASSUME Init PROVE IInv OBVIOUS
<1>1. PaidAmount = Zero /\ Paid = {} /\ ActiveDisputes = {}
  BY DEF Init, PaidAmount, Paid, NoPayment, Zero, ActiveDisputes,
         ESCROW_BLOCKING_DISPUTE_STATUSES
<1>2. TypeOK
  BY MaxLostAssumption DEF Init, TypeOK, OrderStatus, PaymentSchedule, DisputeStatus, NoPayment, NoCharge,
         Zero, NotShipped, Kinds
<1>3. OneFate
  BY <1>1 DEF Init, OneFate, Zero, Cents, Kinds
<1>4. ChargesBacked
  BY <1>1 DEF Init, ChargesBacked, NoCharge, NoPayment, Zero, Kinds
<1>5. TransferOnlyAfterRelease
  BY <1>1 DEF Init, TransferOnlyAfterRelease, NoCharge, Kinds
<1>6. ActiveDisputeFreezesOrder
  BY <1>1 DEF ActiveDisputeFreezesOrder
<1> QED BY <1>2, <1>3, <1>4, <1>5, <1>6 DEF IInv

\* A step that touches no money may move the order only from a status in
\* which nothing of its escrow has been decided.
LEMMA MoneyFrame ==
    ASSUME IInv, UNCHANGED <<payment, ledger, charge, payout>>,
           \/ order'.status = order.status
           \/ order.status \notin Fates /\ order'.status # "DRAFT"
    PROVE  OneFate' /\ ChargesBacked' /\ TransferOnlyAfterRelease' /\ LedgerStep
<1>1. PaidAmount' = PaidAmount /\ Paid' = Paid
  BY DEF PaidAmount, Paid
<1>2. OneFate'
  BY <1>1 DEF IInv, OneFate, Fates
<1>3. ChargesBacked'
  BY <1>1 DEF IInv, ChargesBacked
<1>4. TransferOnlyAfterRelease'
  BY DEF IInv, TransferOnlyAfterRelease
<1>5. LedgerStep
  BY DEF LedgerStep, Account!accountVars
<1> QED BY <1>2, <1>3, <1>4, <1>5

\* A step that touches no dispute moves no order out of DISPUTED.
LEMMA DisputeFrame ==
    ASSUME IInv, dispute' = dispute,
           order'.status = order.status \/ order.status # "DISPUTED"
    PROVE  ActiveDisputeFreezesOrder'
<1>1. ActiveDisputes' = ActiveDisputes
  BY DEF ActiveDisputes
<1> QED BY <1>1 DEF IInv, ActiveDisputeFreezesOrder

-----------------------------------------------------------------------------
(* The steps, by actor *)

\* Production and shipping move the order and its shipments, never money.
LEMMA SupplierSteps ==
    ASSUME IInv,
           \/ startProduction
           \/ completeProduction
           \/ \E s \in ShipmentIds : \/ createShipment(s)
                                     \/ markShipmentInTransit(s)
                                     \/ confirmDelivery(s)
                                     \/ confirmDeliveryReplay(s)
    PROVE  IInv' /\ LedgerStep
<1> USE DEF IInv
<1>a. SUFFICES /\ TypeOK'
               /\ UNCHANGED <<payment, ledger, charge, payout, dispute>>
               /\ \/ order'.status = order.status
                  \/ /\ order.status \notin Fates \cup {"DISPUTED"}
                     /\ order'.status # "DRAFT"
  BY MoneyFrame, DisputeFrame
<1>1. CASE startProduction
  <2>1. PICK to \in OrderStatus : /\ Accepts("START_PRODUCTION", to)
                                  /\ order' = OrderRow(to, order.schedule, "IN_PRODUCTION")
    BY <1>1 DEF startProduction
  <2>2. order.status \notin Fates \cup {"DISPUTED"} /\ to # "DRAFT"
    BY <2>1, AcceptedMoves DEF OrderEvent
  <2>3. order'.status = to /\ TypeOK'
    BY <1>1, <2>1 DEF TypeOK, OrderRow, startProduction
  <2> QED BY <1>1, <2>2, <2>3 DEF startProduction
<1>2. CASE completeProduction
  <2>1. PICK to \in OrderStatus : /\ Accepts("COMPLETE_PRODUCTION", to)
                                  /\ order' = OrderRow(to, order.schedule, "READY_TO_SHIP")
    BY <1>2 DEF completeProduction
  <2>2. order.status \notin Fates \cup {"DISPUTED"} /\ to # "DRAFT"
    BY <2>1, AcceptedMoves DEF OrderEvent
  <2>3. order'.status = to /\ TypeOK'
    BY <1>2, <2>1 DEF TypeOK, OrderRow, completeProduction
  <2> QED BY <1>2, <2>2, <2>3 DEF completeProduction
<1>3. ASSUME NEW s \in ShipmentIds, createShipment(s)
      PROVE  /\ TypeOK'
             /\ UNCHANGED <<payment, ledger, charge, payout, dispute, order>>
  BY <1>3 DEF TypeOK, createShipment, NotShipped
<1>4. ASSUME NEW s \in ShipmentIds, markShipmentInTransit(s)
      PROVE  /\ TypeOK'
             /\ UNCHANGED <<payment, ledger, charge, payout, dispute>>
             /\ order.status \notin Fates \cup {"DISPUTED"}
             /\ order'.status # "DRAFT"
  <2>1. PICK to \in OrderStatus : /\ Accepts("SHIP", to)
                                  /\ order' = OrderRow(to, order.schedule, "SHIPPED")
    BY <1>4 DEF markShipmentInTransit
  <2>2. order.status \notin Fates \cup {"DISPUTED"} /\ to # "DRAFT"
    BY <2>1, AcceptedMoves DEF OrderEvent
  <2>3. order'.status = to /\ TypeOK'
    BY <1>4, <2>1, DaysAssumption DEF TypeOK, OrderRow, markShipmentInTransit
  <2> QED BY <1>4, <2>2, <2>3 DEF markShipmentInTransit
<1>5. ASSUME NEW s \in ShipmentIds, confirmDelivery(s)
      PROVE  /\ TypeOK'
             /\ UNCHANGED <<payment, ledger, charge, payout, dispute>>
             /\ order.status \notin Fates \cup {"DISPUTED"}
             /\ order'.status # "DRAFT"
  <2>1. PICK to \in OrderStatus : /\ Accepts("DELIVER", to)
                                  /\ order' = OrderRow(to, order.schedule, "DELIVERED")
    BY <1>5 DEF confirmDelivery
  <2>2. order.status \notin Fates \cup {"DISPUTED"} /\ to # "DRAFT"
    BY <2>1, AcceptedMoves DEF OrderEvent
  <2>3. order'.status = to /\ TypeOK'
    <3>1. /\ order' \in [status: OrderStatus, schedule: PaymentSchedule,
                         leg: {"NONE", "PENDING", "IN_PRODUCTION", "READY_TO_SHIP",
                               "SHIPPED", "DELIVERED"}]
          /\ order'.status = to
      BY <2>1 DEF TypeOK, OrderRow
    <3> QED BY <1>5, <3>1 DEF TypeOK, confirmDelivery
  <2> QED BY <1>5, <2>2, <2>3 DEF confirmDelivery
<1>6. ASSUME NEW s \in ShipmentIds, confirmDeliveryReplay(s)
      PROVE  /\ TypeOK'
             /\ UNCHANGED <<payment, ledger, charge, payout, dispute, order>>
  BY <1>6 DEF TypeOK, confirmDeliveryReplay, rows
<1> QED BY <1>1, <1>2, <1>3, <1>4, <1>5, <1>6

\* #schedulePayment over a plan with at most one item per kind.
LEMMA ScheduledPayments ==
    ASSUME TypeOK, NEW due \in Nat, NEW plan,
           \A m \in plan : m.amountCents \in Nat
    PROVE  /\ Scheduled(plan, due) \in
                [Kinds -> [status: {"NONE", "PENDING", "SUCCEEDED", "FAILED"},
                           amountCents: Nat, due: Nat]]
           /\ \A k \in Kinds :
                IF \E m \in plan : m.kind = k
                THEN Scheduled(plan, due)[k].status = "PENDING"
                ELSE Scheduled(plan, due)[k] = payment[k]
<1> DEFINE item(k) == CHOOSE m \in plan : m.kind = k
<1>1. ASSUME NEW k \in Kinds, \E m \in plan : m.kind = k
      PROVE  /\ Scheduled(plan, due)[k] \in
                  [status: {"NONE", "PENDING", "SUCCEEDED", "FAILED"}, amountCents: Nat, due: Nat]
             /\ Scheduled(plan, due)[k].status = "PENDING"
  <2>1. item(k) \in plan
    BY <1>1
  <2>2. Scheduled(plan, due)[k] =
          [status |-> "PENDING", due |-> due, amountCents |-> item(k).amountCents]
    BY <1>1 DEF Scheduled
  <2>3. item(k).amountCents \in Nat
    BY <2>1
  <2> HIDE DEF item
  <2> QED BY <2>2, <2>3
<1>2. ASSUME NEW k \in Kinds, ~\E m \in plan : m.kind = k
      PROVE  Scheduled(plan, due)[k] = payment[k]
  BY <1>2 DEF Scheduled
<1>3. Scheduled(plan, due) = [k \in Kinds |-> Scheduled(plan, due)[k]]
  BY DEF Scheduled
<1>4. ASSUME NEW k \in Kinds
      PROVE  payment[k] \in
               [status: {"NONE", "PENDING", "SUCCEEDED", "FAILED"}, amountCents: Nat, due: Nat]
  BY DEF TypeOK
<1>5. ASSUME NEW k \in Kinds
      PROVE  Scheduled(plan, due)[k] \in
               [status: {"NONE", "PENDING", "SUCCEEDED", "FAILED"}, amountCents: Nat, due: Nat]
  BY <1>1, <1>2, <1>4
<1> QED BY <1>1, <1>2, <1>3, <1>5

\* Placement schedules payments where there were none.
LEMMA ConfirmSteps ==
    ASSUME IInv, NEW s \in Schedules, confirmOrder(s)
    PROVE  IInv' /\ LedgerStep
<1> USE DEF IInv
<1> DEFINE plan == upfrontPlan(s, TotalCents)
<1>0. s \in PaymentSchedule
  BY SchedulesAssumption
<1>1. PICK to \in OrderStatus :
         /\ orderTransition(Snapshot(s, FALSE), "PLACE", to)
         /\ order' = OrderRow(to, s, "PENDING")
  BY DEF confirmOrder, OrderRow, Snapshot, orderTransition
<1>2. to \notin Fates \cup {"DISPUTED", "DRAFT"}
  <2> DEFINE o == Snapshot(s, FALSE)
  <2>1. o \in OrderSnapshot /\ orderTransition(o, "PLACE", to)
    BY <1>0, <1>1 DEF Snapshot, OrderSnapshot, TypeOK
  <2>2. "PLACE" \in OrderEvent
    BY DEF OrderEvent
  <2> HIDE DEF o
  <2> QED BY <2>1, <2>2, OrderMoves
<1>3. order.status = "DRAFT" /\ order'.status = to
  BY <1>1 DEF confirmOrder, OrderRow
<1>4. /\ payment' \in [Kinds -> [status: {"NONE", "PENDING", "SUCCEEDED", "FAILED"},
                                 amountCents: Nat, due: Nat]]
      /\ \A k \in Kinds : /\ payment[k].status = "NONE"
                          /\ IF \E m \in plan : m.kind = k THEN payment'[k].status = "PENDING"
                                                           ELSE payment'[k] = payment[k]
  <2>1. \A k \in Kinds : payment[k].status = "NONE"
    BY <1>3 DEF ChargesBacked, NoPayment
  <2>2. \A m \in plan : m.amountCents \in Nat
    BY <1>0, UpfrontPlan
  <2>3. payment' = Scheduled(plan, 0)
    BY DEF confirmOrder
  <2> HIDE DEF plan
  <2> QED BY <2>1, <2>2, <2>3, ScheduledPayments
<1>5. Paid = {} /\ Paid' = {} /\ PaidAmount' = PaidAmount
  <2>1. Paid = {} /\ Paid' = {}
    BY <1>4 DEF Paid
  <2> QED BY <2>1 DEF PaidAmount
<1>6. payment'["DEPOSIT"].status = "NONE" \/ payment'["FULL"].status = "NONE"
  <2>1. "DEPOSIT" \in Kinds /\ "FULL" \in Kinds
    BY DEF Kinds
  <2> QED BY <2>1, <1>4, <1>0, UpfrontPlan
<1> HIDE DEF plan
<1>7. TypeOK'
  <2>1. order' \in [status: OrderStatus, schedule: PaymentSchedule,
                    leg: {"NONE", "PENDING", "IN_PRODUCTION", "READY_TO_SHIP",
                          "SHIPPED", "DELIVERED"}]
    BY <1>0, <1>1 DEF OrderRow
  <2>2. invoice' \in [{"PRO_FORMA", "COMMERCIAL", "CREDIT_NOTE"} -> {"NONE", "ISSUED", "PAID"}]
    BY DEF confirmOrder, TypeOK
  <2> QED BY <1>4, <2>1, <2>2 DEF TypeOK, confirmOrder
<1>8. UNCHANGED <<ledger, charge, payout, dispute>>
  BY DEF confirmOrder
<1>9. OneFate'
  BY <1>2, <1>3, <1>5, <1>8 DEF OneFate, Fates
<1>10. ChargesBacked'
  BY <1>2, <1>3, <1>5, <1>6, <1>8 DEF ChargesBacked
<1>11. TransferOnlyAfterRelease'
  BY <1>8 DEF TransferOnlyAfterRelease
<1>12. ActiveDisputeFreezesOrder' /\ LedgerStep
  <2>1. ActiveDisputes' = ActiveDisputes
    BY <1>8 DEF ActiveDisputes
  <2> QED BY <2>1, <1>3, <1>8 DEF ActiveDisputeFreezesOrder, LedgerStep, Account!accountVars
<1> QED BY <1>7, <1>9, <1>10, <1>11, <1>12

\* The types of the amounts, one by one.
LEMMA Amounts ==
    ASSUME TypeOK
    PROVE  /\ PaidAmount \in [Kinds -> Nat]
           /\ ledger.hold \in [Kinds -> Nat] /\ ledger.refund \in [Kinds -> Nat]
           /\ ledger.partial \in Nat /\ ledger.release \in Nat /\ ledger.commission \in Nat
           /\ ledger.released \in BOOLEAN
           /\ \A k \in Kinds : /\ payment[k].amountCents \in Nat
                               /\ charge[k].captured \in Nat
                               /\ charge[k].transferred \in Nat
                               /\ charge[k].refunded \in Nat
<1>1. \A k \in Kinds : payment[k].amountCents \in Nat
  BY DEF TypeOK
<1>2. PaidAmount \in [Kinds -> Nat]
  BY <1>1 DEF PaidAmount
<1>3. \A k \in Kinds : /\ charge[k].captured \in Nat
                       /\ charge[k].transferred \in Nat
                       /\ charge[k].refunded \in Nat
  BY DEF TypeOK
<1>4. /\ ledger.hold \in [Kinds -> Nat] /\ ledger.refund \in [Kinds -> Nat]
      /\ ledger.partial \in Nat /\ ledger.release \in Nat /\ ledger.commission \in Nat
      /\ ledger.released \in BOOLEAN
  BY DEF TypeOK
<1> QED BY <1>1, <1>2, <1>3, <1>4

\* A capture adds its payment to the held balance: a SUCCEEDED row is never
\* paid again, so the charge and the HOLD entry it writes are the first.
LEMMA PaySteps ==
    ASSUME IInv, NEW k \in Kinds, NEW home \in {"web", "job"}, payScheduledPayment(k, home)
    PROVE  IInv' /\ LedgerStep
<1> USE DEF IInv
<1> DEFINE n == payment[k].amountCents
<1>1. /\ payment[k].status \in {"PENDING", "FAILED"}
      /\ n \in Nat
      /\ order.status # "DRAFT"
  <2>1. payment[k].status \in {"PENDING", "FAILED"}
    BY DEF payScheduledPayment, Payable
  <2> QED BY <2>1 DEF TypeOK, ChargesBacked, NoPayment
<1>2. \A j \in Kinds : /\ payment'[j].amountCents = payment[j].amountCents
                       /\ payment'[j].status = IF j = k THEN "SUCCEEDED" ELSE payment[j].status
                       /\ payment'[j] \in [status: {"NONE", "PENDING", "SUCCEEDED", "FAILED"},
                                           amountCents: Nat, due: Nat]
  <2>1. payment' = [payment EXCEPT ![k].status = "SUCCEEDED"]
    BY DEF payScheduledPayment
  <2>2. payment \in [Kinds -> [status: {"NONE", "PENDING", "SUCCEEDED", "FAILED"},
                               amountCents: Nat, due: Nat]]
    BY DEF TypeOK
  <2> QED BY <2>1, <2>2
<1>3. \A j \in Kinds : /\ PaidAmount[j] = IF j = k THEN 0 ELSE PaidAmount'[j]
                       /\ PaidAmount'[k] = n
                       /\ PaidAmount[j] \in Nat
  BY <1>1, <1>2 DEF PaidAmount, Paid, TypeOK
<1>4. /\ \A j \in Kinds : ledger.hold[j] = PaidAmount[j]
      /\ ledger.hold \in [Kinds -> Nat]
  BY Amounts DEF OneFate
<1>5. /\ ledger' \in [hold: [Kinds -> Nat], refund: [Kinds -> Nat], partial: Nat,
                      release: Nat, commission: Nat, released: BOOLEAN]
      /\ ledger'.hold \in [Kinds -> Nat]
      /\ \A j \in Kinds : ledger'.hold[j] = PaidAmount'[j]
      /\ ledger'.refund = ledger.refund /\ ledger'.partial = ledger.partial
      /\ ledger'.release = ledger.release /\ ledger'.commission = ledger.commission
      /\ ledger'.released = ledger.released
  <2> DEFINE h == Booked(k, n)
  <2>1. ledger' = [ledger EXCEPT !.hold = h]
    BY DEF payScheduledPayment
  <2>2. h \in [Kinds -> Nat] /\ \A j \in Kinds : h[j] = PaidAmount'[j]
    BY <1>1, <1>3, <1>4 DEF Booked
  <2> HIDE DEF h
  <2> QED BY <2>1, <2>2 DEF TypeOK
<1>6. /\ order'.status \in {order.status, "DEPOSIT_PAID"}
      /\ order'.status # order.status => order.status = "DEPOSIT_DUE"
      /\ order' \in [status: OrderStatus, schedule: PaymentSchedule,
                     leg: {"NONE", "PENDING", "IN_PRODUCTION", "READY_TO_SHIP",
                           "SHIPPED", "DELIVERED"}]
  BY DEF payScheduledPayment, TypeOK, OrderStatus
<1>7. \A j \in Kinds :
         /\ charge'[j] \in [captured: Nat, transferred: Nat, refunded: Nat,
                            home: {"NONE", "web", "job"}]
         /\ charge'[j].captured = PaidAmount'[j]
         /\ charge'[j].transferred + charge'[j].refunded <= charge'[j].captured
         /\ charge'[j].transferred <= charge[j].transferred
         /\ j # k => charge'[j] = charge[j]
  BY <1>1, <1>3 DEF payScheduledPayment, TypeOK, ChargesBacked
<1>8. charge[k].transferred = 0
  <2>1. charge[k].transferred + charge[k].refunded <= 0
    BY <1>3 DEF ChargesBacked
  <2>2. charge[k].transferred \in Nat /\ charge[k].refunded \in Nat
    BY Amounts
  <2> QED BY <2>1, <2>2
<1> HIDE DEF n
<1>9. TypeOK'
  <2>1. payment' \in [Kinds -> [status: {"NONE", "PENDING", "SUCCEEDED", "FAILED"},
                                amountCents: Nat, due: Nat]]
    <3>1. payment' = [j \in Kinds |-> payment'[j]]
      <4>1. payment = [j \in Kinds |-> payment[j]]
        BY DEF TypeOK
      <4> QED BY <4>1 DEF payScheduledPayment
    <3> QED BY <3>1, <1>2
  <2>2. charge' \in [Kinds -> [captured: Nat, transferred: Nat, refunded: Nat,
                               home: {"NONE", "web", "job"}]]
    <3>1. charge' = [j \in Kinds |-> charge'[j]]
      <4>1. charge = [j \in Kinds |-> charge[j]]
        BY DEF TypeOK
      <4> QED BY <4>1 DEF payScheduledPayment
    <3> QED BY <3>1, <1>7
  <2>3. invoice' \in [{"PRO_FORMA", "COMMERCIAL", "CREDIT_NOTE"} -> {"NONE", "ISSUED", "PAID"}]
    BY DEF payScheduledPayment, SettledInvoice, TypeOK
  <2> QED BY <1>5, <1>6, <2>1, <2>2, <2>3 DEF TypeOK, payScheduledPayment
<1>10. Cents(ledger.hold) <= Cents(ledger'.hold)
  <2>1. \A j \in Kinds : ledger.hold[j] <= ledger'.hold[j]
    BY <1>3, <1>4, <1>5
  <2> QED BY <1>4, <1>5, <2>1, CentsMonotone
<1>11. OneFate'
  <2>1. ledger.partial <= Cents(ledger'.hold)
        /\ ledger.release + ledger.commission <= Cents(ledger'.hold)
    BY <1>10, <1>5, <1>4, CentsNat, Amounts DEF OneFate
  <2>2. \A j \in Kinds : ledger'.refund[j] <= ledger'.hold[j]
    <3>1. \A j \in Kinds : ledger.refund[j] \in Nat /\ ledger.refund[j] <= ledger.hold[j]
      BY Amounts DEF OneFate
    <3> QED BY <3>1, <1>3, <1>4, <1>5
  <2>3. order.status = "DEPOSIT_DUE" => /\ ~ledger.released /\ ~(ledger.partial > 0)
                                        /\ \A j \in Kinds : ~(ledger.refund[j] > 0)
    BY DEF OneFate
  <2>4. ledger'.partial <= Cents(ledger'.hold)
        /\ ledger'.release + ledger'.commission <= Cents(ledger'.hold)
    BY <2>1, <1>5
  <2>5. \A j \in Kinds : ledger'.refund[j] > 0 => order'.status = "CANCELLED"
    BY <1>5, <1>6, <2>3 DEF OneFate
  <2>6. /\ ledger'.partial > 0 => order'.status = "PARTIALLY_REFUNDED"
        /\ ledger'.released => order'.status = "ESCROW_RELEASED"
        /\ ~ledger'.released => ledger'.release = 0 /\ ledger'.commission = 0
    BY <1>5, <1>6, <2>3 DEF OneFate
  <2> QED BY <1>5, <2>2, <2>4, <2>5, <2>6 DEF OneFate
<1>12. ChargesBacked'
  <2>1. payment'["DEPOSIT"].status = "NONE" \/ payment'["FULL"].status = "NONE"
    BY <1>1, <1>2 DEF ChargesBacked, Kinds
  <2> QED BY <1>1, <1>6, <1>7, <2>1 DEF ChargesBacked
<1>13. TransferOnlyAfterRelease'
  <2>1. \A j \in Kinds : charge'[j].transferred = charge[j].transferred
    BY <1>7, <1>8 DEF TypeOK
  <2>2. payout' = payout
    BY DEF payScheduledPayment
  <2> QED BY <1>5, <2>1, <2>2 DEF TransferOnlyAfterRelease, Cents, Kinds
<1>14. ActiveDisputeFreezesOrder'
  <2>1. ActiveDisputes' = ActiveDisputes
    BY DEF ActiveDisputes, payScheduledPayment
  <2> QED BY <1>6, <2>1 DEF ActiveDisputeFreezesOrder
<1>15. LedgerStep
  <2>1. Account!Capture
    BY <1>5, <1>10 DEF Account!Capture
  <2> QED BY <2>1 DEF LedgerStep, Account!AccountNext
<1> QED BY <1>9, <1>11, <1>12, <1>13, <1>14, <1>15

\* resolveDispute ends the only active dispute of the order.
LEMMA ResolveEnds ==
    ASSUME IInv, NEW d \in DisputeIds, NEW to \in LEGAL_DISPUTE_RESOLUTIONS, resolveTo(d, to)
    PROVE  /\ ActiveDisputes' = {} /\ ActiveDisputeFreezesOrder'
           /\ order.status = "DISPUTED" /\ order'.status = to
           /\ order' \in [status: OrderStatus, schedule: PaymentSchedule,
                          leg: {"NONE", "PENDING", "IN_PRODUCTION", "READY_TO_SHIP",
                                "SHIPPED", "DELIVERED"}]
           /\ dispute' \in [DisputeIds -> [status: DisputeStatus \cup {"NONE"}, pre: OrderStatus]]
           /\ UNCHANGED <<payment, shipment, calls, orphan, lost>>
<1> USE DEF IInv
<1>1. /\ d \in ActiveDisputes
      /\ order' = [order EXCEPT !.status = to]
      /\ dispute' = [dispute EXCEPT ![d].status = "RESOLVED"]
      /\ UNCHANGED <<payment, shipment, calls, orphan, lost>>
  BY DEF resolveTo
<1>2. order.status = "DISPUTED"
  BY <1>1 DEF ActiveDisputeFreezesOrder
<1>3. /\ dispute \in [DisputeIds -> [status: DisputeStatus \cup {"NONE"}, pre: OrderStatus]]
      /\ order \in [status: OrderStatus, schedule: PaymentSchedule,
                    leg: {"NONE", "PENDING", "IN_PRODUCTION", "READY_TO_SHIP",
                          "SHIPPED", "DELIVERED"}]
  BY DEF TypeOK
<1>4. to \in OrderStatus
  BY DEF LEGAL_DISPUTE_RESOLUTIONS, OrderStatus
<1>5. /\ dispute' \in [DisputeIds -> [status: DisputeStatus \cup {"NONE"}, pre: OrderStatus]]
      /\ \A e \in DisputeIds : dispute'[e].status = IF e = d THEN "RESOLVED" ELSE dispute[e].status
  BY <1>1, <1>3 DEF DisputeStatus
<1>6. ActiveDisputes' = {}
  <2>1. \A e \in ActiveDisputes : e = d
    BY <1>1 DEF ActiveDisputeFreezesOrder
  <2> QED BY <2>1, <1>5 DEF ActiveDisputes, ESCROW_BLOCKING_DISPUTE_STATUSES
<1>7. order'.status = to /\ order' \in [status: OrderStatus, schedule: PaymentSchedule,
                    leg: {"NONE", "PENDING", "IN_PRODUCTION", "READY_TO_SHIP",
                          "SHIPPED", "DELIVERED"}]
  BY <1>1, <1>3, <1>4
<1> QED BY <1>1, <1>2, <1>5, <1>6, <1>7 DEF ActiveDisputeFreezesOrder

\* Opening, reviewing, withdrawing a dispute, and sending the order back to
\* delivery, move no money.
LEMMA DisputeSteps ==
    ASSUME IInv, NEW d \in DisputeIds,
           openDispute(d) \/ startReview(d) \/ withdraw(d) \/ resolveBackToDelivered(d)
    PROVE  IInv' /\ LedgerStep
<1> USE DEF IInv
<1>0. /\ dispute \in [DisputeIds -> [status: DisputeStatus \cup {"NONE"}, pre: OrderStatus]]
      /\ order \in [status: OrderStatus, schedule: PaymentSchedule,
                    leg: {"NONE", "PENDING", "IN_PRODUCTION", "READY_TO_SHIP",
                          "SHIPPED", "DELIVERED"}]
  BY DEF TypeOK
<1>1. CASE openDispute(d)
  <2>1. PICK to \in OrderStatus : /\ Accepts("OPEN_DISPUTE", to)
                                  /\ order' = [order EXCEPT !.status = to]
    BY <1>1 DEF openDispute
  <2>2. order.status \notin Fates \cup {"DISPUTED"} /\ to = "DISPUTED"
    <3>1. "OPEN_DISPUTE" \in OrderEvent
      BY DEF OrderEvent
    <3> QED BY <2>1, <3>1, AcceptedMoves
  <2>3. dispute' = [dispute EXCEPT ![d] = [status |-> "OPEN", pre |-> order.status]]
    BY <1>1 DEF openDispute
  <2>4. order'.status = "DISPUTED" /\ TypeOK'
    <3>1. order'.status = "DISPUTED" /\ order' \in
            [status: OrderStatus, schedule: PaymentSchedule,
             leg: {"NONE", "PENDING", "IN_PRODUCTION", "READY_TO_SHIP", "SHIPPED", "DELIVERED"}]
      BY <1>0, <2>1, <2>2
    <3>2. dispute' \in [DisputeIds -> [status: DisputeStatus \cup {"NONE"}, pre: OrderStatus]]
      BY <1>0, <2>3 DEF DisputeStatus
    <3> QED BY <1>1, <3>1, <3>2 DEF TypeOK, openDispute
  <2>5. ActiveDisputeFreezesOrder'
    <3>1. ActiveDisputes = {}
      BY <2>2 DEF ActiveDisputeFreezesOrder
    <3>2. \A e \in DisputeIds : e # d => dispute'[e] = dispute[e]
      BY <2>3, <1>0
    <3>3. ActiveDisputes' \subseteq {d}
      BY <3>1, <3>2 DEF ActiveDisputes
    <3> QED BY <3>3, <2>4 DEF ActiveDisputeFreezesOrder
  <2>6. UNCHANGED <<payment, ledger, charge, payout>>
    BY <1>1 DEF openDispute
  <2> QED BY <2>2, <2>4, <2>5, <2>6, MoneyFrame
<1>2. CASE startReview(d)
  <2>1. dispute' = [dispute EXCEPT ![d].status = "UNDER_REVIEW"] /\ d \in ActiveDisputes
    BY <1>2 DEF startReview, disputeTransition, ActiveDisputes
  <2>2. UNCHANGED <<order, payment, ledger, charge, payout>>
    BY <1>2 DEF startReview
  <2>3. dispute' \in [DisputeIds -> [status: DisputeStatus \cup {"NONE"}, pre: OrderStatus]]
        /\ \A e \in DisputeIds : e # d => dispute'[e] = dispute[e]
    BY <1>0, <2>1 DEF DisputeStatus
  <2>4. TypeOK'
    BY <1>2, <2>3 DEF TypeOK, startReview
  <2>5. ActiveDisputes' \subseteq ActiveDisputes
    BY <2>1, <2>3 DEF ActiveDisputes
  <2>6. ActiveDisputeFreezesOrder'
    BY <2>2, <2>5 DEF ActiveDisputeFreezesOrder
  <2> QED BY <2>2, <2>4, <2>6, MoneyFrame
<1>3. CASE withdraw(d)
  <2>1. /\ d \in ActiveDisputes
        /\ dispute' = [dispute EXCEPT ![d].status = "WITHDRAWN"]
        /\ UNCHANGED <<payment, ledger, charge, payout>>
    BY <1>3 DEF withdraw, disputeTransition, ActiveDisputes
  <2>2. order.status = "DISPUTED" /\ \A e \in ActiveDisputes : e = d
    BY <2>1 DEF ActiveDisputeFreezesOrder
  <2>3. /\ dispute' \in [DisputeIds -> [status: DisputeStatus \cup {"NONE"}, pre: OrderStatus]]
        /\ \A e \in DisputeIds : dispute'[e].status =
                                   IF e = d THEN "WITHDRAWN" ELSE dispute[e].status
    BY <1>0, <2>1 DEF DisputeStatus
  <2>4. \/ order' = order
        \/ /\ order' = [order EXCEPT !.status = dispute[d].pre]
           /\ dispute[d].pre \in LEGAL_DISPUTE_RESOLUTIONS
    BY <1>3 DEF withdraw
  <2>5. /\ order'.status # "DRAFT"
        /\ order' \in [status: OrderStatus, schedule: PaymentSchedule,
                       leg: {"NONE", "PENDING", "IN_PRODUCTION", "READY_TO_SHIP",
                             "SHIPPED", "DELIVERED"}]
    BY <1>0, <2>2, <2>4 DEF LEGAL_DISPUTE_RESOLUTIONS, OrderStatus
  <2>6. TypeOK'
    BY <1>3, <2>3, <2>5 DEF TypeOK, withdraw
  <2>7. ActiveDisputeFreezesOrder'
    <3>1. ActiveDisputes' = {}
      BY <2>2, <2>3 DEF ActiveDisputes, ESCROW_BLOCKING_DISPUTE_STATUSES
    <3> QED BY <3>1 DEF ActiveDisputeFreezesOrder
  <2>8. order.status \notin Fates
    BY <2>2 DEF Fates
  <2> QED BY <2>1, <2>5, <2>6, <2>7, <2>8, MoneyFrame
<1>4. CASE resolveBackToDelivered(d)
  <2>1. resolveTo(d, "DELIVERED") /\ UNCHANGED <<ledger, payout, invoice, charge>>
    BY <1>4 DEF resolveBackToDelivered
  <2>2. "DELIVERED" \in LEGAL_DISPUTE_RESOLUTIONS
    BY DEF LEGAL_DISPUTE_RESOLUTIONS
  <2>3. TypeOK'
    BY <2>1, <2>2, ResolveEnds, ZenonT(60) DEF TypeOK
  <2>4. order.status \notin Fates
    BY <2>1, <2>2, ResolveEnds DEF Fates
  <2> QED BY <2>1, <2>2, <2>3, <2>4, ResolveEnds, MoneyFrame
<1> QED BY <1>1, <1>2, <1>3, <1>4

\* Issuing the balance schedules a payment where there was none.
LEMMA BalanceSteps ==
    ASSUME IInv, issueBalance, calls' \subseteq calls
    PROVE  IInv' /\ LedgerStep
<1> USE DEF IInv
<1> DEFINE plan == balancePlan(order.schedule, TotalCents, PaidCents)
<1>0. /\ payment["BALANCE"].status = "NONE"
      /\ order.schedule \in PaymentSchedule
      /\ payment' = Scheduled(plan, BalanceDue)
      /\ UNCHANGED <<dispute, shipment, ledger, payout, charge, orphan, lost>>
  BY DEF issueBalance, BalanceIssuable, TypeOK
<1>1. /\ \A m \in plan : m.kind = "BALANCE" /\ m.amountCents \in Nat
      /\ PaidCents \in Nat
  <2>1. PaidCents \in Nat
    BY Amounts, CentsNat DEF PaidCents
  <2> QED BY <2>1, TotalAssumption DEF balancePlan
<1>2. BalanceDue \in Nat
  <2> DEFINE created == {s \in ShipmentIds : shipment[s].status # "NONE"}
             oldest == {s \in created : \A t \in created : s <= t}
             age == SinceShipped
  <2>1. \A s \in ShipmentIds : shipment[s].age \in {NotShipped} \cup 0..Net30Days
    BY DEF TypeOK
  <2>2. ASSUME NEW s \in oldest, NEW t \in oldest PROVE s = t
    <3>1. s \in Nat /\ t \in Nat
      BY ShipmentIdsAssumption
    <3>2. s <= t /\ t <= s
      OBVIOUS
    <3> QED BY <3>1, <3>2
  <2>3. age \in 0..Net30Days
    <3>1. CASE \E s \in oldest : shipment[s].age >= 0
      <4>1. PICK s \in oldest : shipment[s].age >= 0
        BY <3>1
      <4>2. (CHOOSE t \in oldest : TRUE) = s
        BY <2>2, <4>1
      <4>3. age = shipment[s].age
        BY <3>1, <4>2 DEF SinceShipped
      <4> HIDE DEF age
      <4> QED BY <2>1, <4>1, <4>3 DEF NotShipped
    <3>2. CASE ~\E s \in oldest : shipment[s].age >= 0
      BY <3>2, DaysAssumption DEF SinceShipped
    <3> QED BY <3>1, <3>2
  <2>4. BalanceDue = IF order.schedule = "NET_30" THEN Net30Days - age ELSE 0
    BY DEF BalanceDue
  <2> HIDE DEF age
  <2> QED BY <2>3, <2>4, DaysAssumption
<1>3. /\ payment' \in [Kinds -> [status: {"NONE", "PENDING", "SUCCEEDED", "FAILED"},
                                 amountCents: Nat, due: Nat]]
      /\ \A k \in Kinds : \/ payment'[k] = payment[k]
                          \/ k = "BALANCE" /\ payment'[k].status = "PENDING"
  <2> HIDE DEF plan
  <2> QED BY <1>0, <1>1, <1>2, ScheduledPayments
<1>4. PaidAmount' = PaidAmount
  <2>1. \A k \in Kinds : (k \in Paid' <=> k \in Paid) /\ (k \in Paid => payment'[k] = payment[k])
    BY <1>0, <1>3 DEF Paid
  <2> QED BY <2>1 DEF PaidAmount
<1>5. /\ order' \in [status: OrderStatus, schedule: PaymentSchedule,
                     leg: {"NONE", "PENDING", "IN_PRODUCTION", "READY_TO_SHIP",
                           "SHIPPED", "DELIVERED"}]
      /\ \/ order' = order /\ order.status = "SHIPPED"
         \/ order.status \notin Fates \cup {"DISPUTED", "DRAFT"} /\ order'.status = "BALANCE_DUE"
  <2>0. order \in [status: OrderStatus, schedule: PaymentSchedule,
                   leg: {"NONE", "PENDING", "IN_PRODUCTION", "READY_TO_SHIP",
                         "SHIPPED", "DELIVERED"}]
    BY DEF TypeOK
  <2>1. CASE order.schedule = "DEPOSIT_30_70"
    <3>1. Accepts("ISSUE_BALANCE", "BALANCE_DUE") /\ order' = [order EXCEPT !.status = "BALANCE_DUE"]
      BY <2>1 DEF issueBalance, BalanceIssuable
    <3>2. order.status = "READY_TO_SHIP"
      BY <3>1, <2>0 DEF Accepts, orderTransition, PlainMoves, GatedMoves, Snapshot,
                   CANCELABLE_STATUSES, DISPUTABLE_STATUSES, LEGAL_DISPUTE_RESOLUTIONS
    <3> QED BY <2>0, <3>1, <3>2 DEF OrderStatus, Fates
  <2>2. CASE order.schedule # "DEPOSIT_30_70"
    BY <2>0, <2>2 DEF issueBalance, BalanceIssuable
  <2> QED BY <2>1, <2>2
<1>6. TypeOK'
  <2>1. invoice' \in [{"PRO_FORMA", "COMMERCIAL", "CREDIT_NOTE"} -> {"NONE", "ISSUED", "PAID"}]
    BY DEF issueBalance, TypeOK
  <2>2. calls' \subseteq {"issueBalanceInvoice", "releaseEscrow"}
    BY DEF TypeOK
  <2> QED BY <1>0, <1>3, <1>5, <2>1, <2>2 DEF TypeOK
<1> HIDE DEF plan
<1>7. OneFate'
  BY <1>0, <1>4, <1>5 DEF OneFate, Fates
<1>8. ChargesBacked'
  <2>1. payment'["DEPOSIT"].status = "NONE" \/ payment'["FULL"].status = "NONE"
    BY <1>3 DEF ChargesBacked, Kinds
  <2> QED BY <1>0, <1>4, <1>5, <2>1 DEF ChargesBacked
<1>9. TransferOnlyAfterRelease'
  BY <1>0 DEF TransferOnlyAfterRelease
<1>10. ActiveDisputeFreezesOrder'
  BY <1>0, <1>5, DisputeFrame
<1>11. LedgerStep
  BY <1>0 DEF LedgerStep, Account!accountVars
<1> QED BY <1>6, <1>7, <1>8, <1>9, <1>10, <1>11

\* A lost capture, a crash, and a day change no row that the invariant reads,
\* except the clocks.
LEMMA QuietSteps ==
    ASSUME IInv,
           \/ crash
           \/ tick
           \/ \E k \in Kinds : payRolledBack(k)
           \/ UNCHANGED vars
    PROVE  IInv' /\ LedgerStep
<1> USE DEF IInv
<1>1. CASE crash
  <2>1. UNCHANGED rows /\ UNCHANGED charge /\ TypeOK'
    BY <1>1 DEF crash, TypeOK, rows
  <2> QED BY <2>1, MoneyFrame, DisputeFrame DEF rows
<1>2. ASSUME NEW k \in Kinds, payRolledBack(k)
      PROVE  IInv' /\ LedgerStep
  <2>1. UNCHANGED rows /\ UNCHANGED charge /\ TypeOK'
    BY <1>2, MaxLostAssumption DEF payRolledBack, TypeOK, rows
  <2> QED BY <2>1, MoneyFrame, DisputeFrame DEF rows
<1>3. CASE UNCHANGED vars
  <2>1. UNCHANGED rows /\ UNCHANGED charge /\ TypeOK'
    BY <1>3 DEF vars, TypeOK, rows
  <2> QED BY <2>1, MoneyFrame, DisputeFrame DEF rows
<1>4. CASE tick
  <2>0. UNCHANGED <<order, invoice, dispute, ledger, payout, charge, calls, orphan, lost>>
    BY <1>4 DEF tick
  <2>1. /\ payment' \in [Kinds -> [status: {"NONE", "PENDING", "SUCCEEDED", "FAILED"},
                                   amountCents: Nat, due: Nat]]
        /\ \A k \in Kinds : /\ payment'[k].status = payment[k].status
                            /\ payment'[k].amountCents = payment[k].amountCents
                            /\ payment[k].due = 0 => payment'[k] = payment[k]
    <3>1. payment' = [k \in Kinds |-> IF payment[k].due > 0
                                      THEN [payment[k] EXCEPT !.due = @ - 1] ELSE payment[k]]
      BY <1>4 DEF tick
    <3>2. payment \in [Kinds -> [status: {"NONE", "PENDING", "SUCCEEDED", "FAILED"},
                                 amountCents: Nat, due: Nat]]
      BY DEF TypeOK
    <3> QED BY <3>1, <3>2
  <2>2. shipment' \in [ShipmentIds ->
                         [status: {"NONE", "CREATED", "IN_TRANSIT", "DELIVERED"},
                          age: {NotShipped} \cup 0..Net30Days]]
    <3>1. shipment' = [s \in ShipmentIds |->
                         IF shipment[s].age \in 0..(Net30Days - 1)
                         THEN [shipment[s] EXCEPT !.age = @ + 1] ELSE shipment[s]]
      BY <1>4 DEF tick
    <3>2. shipment \in [ShipmentIds -> [status: {"NONE", "CREATED", "IN_TRANSIT", "DELIVERED"},
                                        age: {NotShipped} \cup 0..Net30Days]]
      BY DEF TypeOK
    <3> QED BY <3>1, <3>2, DaysAssumption
  <2>3. TypeOK'
    BY <2>0, <2>1, <2>2 DEF TypeOK
  <2>4. PaidAmount' = PaidAmount
    BY <2>1 DEF PaidAmount, Paid
  <2>5. OneFate' /\ TransferOnlyAfterRelease' /\ LedgerStep
    BY <2>0, <2>4 DEF OneFate, TransferOnlyAfterRelease, LedgerStep, Account!accountVars
  <2>6. ChargesBacked'
    <3>1. payment'["DEPOSIT"].status = "NONE" \/ payment'["FULL"].status = "NONE"
      BY <2>1 DEF ChargesBacked, Kinds
    <3>2. order'.status = "DRAFT" => \A k \in Kinds : payment'[k] = NoPayment
      BY <2>0, <2>1 DEF ChargesBacked, NoPayment
    <3> QED BY <2>0, <2>4, <3>1, <3>2 DEF ChargesBacked
  <2> QED BY <2>0, <2>3, <2>5, <2>6, DisputeFrame
<1> QED BY <1>1, <1>2, <1>3, <1>4

-----------------------------------------------------------------------------
(* Refunds *)

LEMMA RefundPlans ==
    ASSUME TypeOK
    PROVE  /\ FullRefund \in [Kinds -> Nat]
           /\ \A k \in Kinds : FullRefund[k] <= PaidAmount[k]
           /\ \A amount \in Nat, first \in Kinds :
                /\ PartialRefund(amount, first) \in [Kinds -> Nat]
                /\ \A k \in Kinds : PartialRefund(amount, first)[k] <= PaidAmount[k]
<1>1. \A k \in Kinds : PaidAmount[k] \in Nat
  BY Amounts
<1>2. FullRefund \in [Kinds -> Nat] /\ \A k \in Kinds : FullRefund[k] <= PaidAmount[k]
  BY <1>1 DEF FullRefund
<1>3. ASSUME NEW amount \in Nat, NEW first \in Kinds
      PROVE  /\ PartialRefund(amount, first) \in [Kinds -> Nat]
             /\ \A k \in Kinds : PartialRefund(amount, first)[k] <= PaidAmount[k]
  <2> DEFINE firstPart == Least(amount, PaidAmount[first])
  <2>1. firstPart \in Nat /\ firstPart <= PaidAmount[first] /\ amount - firstPart \in Nat
    BY <1>1 DEF Least
  <2>2. \A k \in Kinds : /\ Least(amount - firstPart, PaidAmount[k]) \in Nat
                         /\ Least(amount - firstPart, PaidAmount[k]) <= PaidAmount[k]
    <3> HIDE DEF firstPart
    <3> QED BY <1>1, <2>1 DEF Least
  <2>3. PartialRefund(amount, first) =
          [k \in Kinds |-> IF k = first THEN firstPart
                           ELSE Least(amount - firstPart, PaidAmount[k])]
    BY DEF PartialRefund
  <2> HIDE DEF firstPart
  <2> QED BY <2>1, <2>2, <2>3
<1> QED BY <1>2, <1>3

\* refundCharge (mocks/payments.ts) refuses more than a charge still holds.
LEMMA AdapterRefunds ==
    ASSUME IInv, NEW want \in [Kinds -> Nat], Refundable(want), charge' = Refunded(want)
    PROVE  /\ charge' \in [Kinds -> [captured: Nat, transferred: Nat, refunded: Nat,
                                     home: {"NONE", "web", "job"}]]
           /\ \A k \in Kinds :
                /\ charge'[k].captured = charge[k].captured
                /\ charge'[k].transferred = charge[k].transferred
                /\ charge'[k].transferred + charge'[k].refunded <= charge'[k].captured
<1> USE DEF IInv
<1>1. charge \in [Kinds -> [captured: Nat, transferred: Nat, refunded: Nat,
                            home: {"NONE", "web", "job"}]]
  BY DEF TypeOK
<1>2. \A k \in Kinds : /\ charge[k].transferred + charge[k].refunded <= charge[k].captured
                       /\ want[k] \in Nat
                       /\ want[k] > 0 => want[k] <= charge[k].captured - charge[k].transferred
                                                     - charge[k].refunded
  BY DEF ChargesBacked, Refundable, HeldOn
<1>3. charge' = [k \in Kinds |-> [charge[k] EXCEPT !.refunded = @ + want[k]]]
  BY DEF Refunded
<1>4. \A k \in Kinds :
         /\ charge'[k] \in [captured: Nat, transferred: Nat, refunded: Nat,
                            home: {"NONE", "web", "job"}]
         /\ charge'[k].captured = charge[k].captured
         /\ charge'[k].transferred = charge[k].transferred
         /\ charge'[k].refunded = charge[k].refunded + want[k]
  BY <1>1, <1>2, <1>3
<1>5. \A k \in Kinds : charge'[k].transferred + charge'[k].refunded <= charge'[k].captured
  <2> SUFFICES ASSUME NEW k \in Kinds
               PROVE  charge'[k].transferred + charge'[k].refunded <= charge'[k].captured
    OBVIOUS
  <2>1. charge[k].captured \in Nat /\ charge[k].transferred \in Nat /\ charge[k].refunded \in Nat
    BY <1>1
  <2> QED BY <2>1, <1>2, <1>4
<1> QED BY <1>3, <1>4, <1>5

\* Nothing has been drawn from an escrow whose fate is open.
LEMMA Undecided ==
    ASSUME IInv, order.status \notin Fates
    PROVE  /\ \A k \in Kinds : ledger.refund[k] = 0
           /\ ledger.partial = 0 /\ ledger.release = 0 /\ ledger.commission = 0
           /\ ~ledger.released
           /\ Cents(ledger.refund) = 0
           /\ payout.status = "NONE"
<1> USE DEF IInv
<1>1. \A k \in Kinds : ledger.refund[k] \in Nat /\ ~(ledger.refund[k] > 0)
  BY Amounts DEF OneFate, Fates
<1>2. ledger.partial \in Nat /\ ~(ledger.partial > 0) /\ ~ledger.released
  BY Amounts DEF OneFate, Fates
<1>3. ledger.release = 0 /\ ledger.commission = 0
  BY <1>2 DEF OneFate
<1>4. \A k \in Kinds : ledger.refund[k] = 0
  BY <1>1
<1> QED BY <1>2, <1>3, <1>4 DEF TransferOnlyAfterRelease, Cents, Kinds

\* cancelOrder and the full-refund resolution: one refund per captured payment.
LEMMA FullRefundBooked ==
    ASSUME IInv, refundPayments(FullRefund), UNCHANGED <<payment, payout>>,
           order.status \notin Fates, order'.status = "CANCELLED"
    PROVE  /\ charge' \in [Kinds -> [captured: Nat, transferred: Nat, refunded: Nat,
                                     home: {"NONE", "web", "job"}]]
           /\ ledger' \in [hold: [Kinds -> Nat], refund: [Kinds -> Nat], partial: Nat,
                           release: Nat, commission: Nat, released: BOOLEAN]
           /\ OneFate' /\ ChargesBacked' /\ TransferOnlyAfterRelease' /\ LedgerStep
           /\ Held' = 0
<1> USE DEF IInv
<1>1. /\ Refundable(FullRefund) /\ charge' = Refunded(FullRefund)
      /\ ledger' = [ledger EXCEPT !.refund = [k \in Kinds |-> @[k] + FullRefund[k]]]
  BY DEF refundPayments
<1>2. \A k \in Kinds : FullRefund[k] \in Nat /\ FullRefund[k] = ledger.hold[k]
  <2>1. \A k \in Kinds : ledger.hold[k] = PaidAmount[k] /\ ledger.hold[k] \in Nat
    BY Amounts DEF OneFate
  <2> QED BY <2>1, Undecided DEF FullRefund
<1>3. /\ ledger' \in [hold: [Kinds -> Nat], refund: [Kinds -> Nat], partial: Nat,
                      release: Nat, commission: Nat, released: BOOLEAN]
      /\ ledger'.hold = ledger.hold
      /\ \A k \in Kinds : ledger'.refund[k] = ledger.hold[k]
      /\ ledger'.partial = 0 /\ ledger'.release = 0 /\ ledger'.commission = 0
      /\ ledger'.released = ledger.released /\ ~ledger'.released
  <2> DEFINE r == [k \in Kinds |-> ledger.refund[k] + FullRefund[k]]
  <2>1. r \in [Kinds -> Nat] /\ \A k \in Kinds : r[k] = ledger.hold[k]
    BY <1>2, Undecided
  <2>2. ledger' = [ledger EXCEPT !.refund = r]
    BY <1>1
  <2> HIDE DEF r
  <2> QED BY <2>1, <2>2, Undecided DEF TypeOK
<1>4. PaidAmount' = PaidAmount
  BY DEF PaidAmount, Paid
<1>5. OneFate'
  <2>1. Cents(ledger.hold) \in Nat
    BY Amounts, CentsNat
  <2>2. \A k \in Kinds : ledger.hold[k] = PaidAmount[k] /\ ledger.hold[k] \in Nat
    BY Amounts DEF OneFate
  <2> QED BY <1>3, <1>4, <2>1, <2>2 DEF OneFate
<1>6. /\ charge' \in [Kinds -> [captured: Nat, transferred: Nat, refunded: Nat,
                                home: {"NONE", "web", "job"}]]
      /\ \A k \in Kinds :
           /\ charge'[k].captured = charge[k].captured
           /\ charge'[k].transferred = charge[k].transferred
           /\ charge'[k].transferred + charge'[k].refunded <= charge'[k].captured
  BY <1>1, RefundPlans, AdapterRefunds
<1>7. ChargesBacked'
  BY <1>4, <1>6 DEF ChargesBacked
<1>8. TransferOnlyAfterRelease'
  BY <1>3, <1>6 DEF TransferOnlyAfterRelease, Cents, Kinds
<1>9. Cents(ledger'.refund) = Cents(ledger.hold) /\ Cents(ledger.hold) \in Nat
  BY <1>3, Amounts, CentsNat DEF Cents, Kinds
<1>10. LedgerStep
  <2>1. Account!Refund
    BY <1>3, <1>9, Undecided DEF Account!Refund, Account!Remainder
  <2> QED BY <2>1 DEF LedgerStep, Account!AccountNext
<1>11. Held' = 0
  BY <1>3, <1>9 DEF Held
<1> QED BY <1>3, <1>5, <1>6, <1>7, <1>8, <1>10, <1>11

LEMMA CancelSteps ==
    ASSUME IInv, cancelOrder
    PROVE  IInv' /\ LedgerStep /\ Held' = 0
<1> USE DEF IInv
<1>1. PICK to \in OrderStatus : /\ Accepts("CANCEL", to)
                                /\ order' = [order EXCEPT !.status = to]
  BY DEF cancelOrder
<1>2. /\ to = "CANCELLED" /\ order.status \in CANCELABLE_STATUSES
      /\ order.status \notin Fates \cup {"DISPUTED"}
  <2>1. "CANCEL" \in OrderEvent
    BY DEF OrderEvent
  <2> QED BY <1>1, <2>1, AcceptedMoves
<1>3. /\ order'.status = "CANCELLED"
      /\ order' \in [status: OrderStatus, schedule: PaymentSchedule,
                     leg: {"NONE", "PENDING", "IN_PRODUCTION", "READY_TO_SHIP",
                           "SHIPPED", "DELIVERED"}]
  BY <1>1, <1>2 DEF TypeOK
<1>4. /\ refundPayments(FullRefund)
      /\ UNCHANGED <<payment, invoice, dispute, shipment, payout, calls, orphan, lost>>
  BY DEF cancelOrder
<1>5. /\ charge' \in [Kinds -> [captured: Nat, transferred: Nat, refunded: Nat,
                                home: {"NONE", "web", "job"}]]
      /\ ledger' \in [hold: [Kinds -> Nat], refund: [Kinds -> Nat], partial: Nat,
                      release: Nat, commission: Nat, released: BOOLEAN]
      /\ OneFate' /\ ChargesBacked' /\ TransferOnlyAfterRelease' /\ LedgerStep /\ Held' = 0
  BY <1>2, <1>3, <1>4, FullRefundBooked
<1>6. TypeOK'
  BY <1>3, <1>4, <1>5 DEF TypeOK
<1>7. ActiveDisputeFreezesOrder'
  BY <1>2, <1>4, DisputeFrame
<1> QED BY <1>5, <1>6, <1>7

LEMMA FullResolutionSteps ==
    ASSUME IInv, NEW d \in DisputeIds, resolveRefundFull(d)
    PROVE  IInv' /\ LedgerStep /\ Held' = 0
<1> USE DEF IInv
<1>1. /\ resolveTo(d, "CANCELLED") /\ refundPayments(FullRefund) /\ UNCHANGED payout
      /\ invoice' = [invoice EXCEPT !["CREDIT_NOTE"] = "ISSUED"]
  BY DEF resolveRefundFull
<1>2. "CANCELLED" \in LEGAL_DISPUTE_RESOLUTIONS
  BY DEF LEGAL_DISPUTE_RESOLUTIONS
<1>3. order.status \notin Fates
  BY <1>1, <1>2, ResolveEnds DEF Fates
<1>4. /\ charge' \in [Kinds -> [captured: Nat, transferred: Nat, refunded: Nat,
                                home: {"NONE", "web", "job"}]]
      /\ ledger' \in [hold: [Kinds -> Nat], refund: [Kinds -> Nat], partial: Nat,
                      release: Nat, commission: Nat, released: BOOLEAN]
      /\ OneFate' /\ ChargesBacked' /\ TransferOnlyAfterRelease' /\ LedgerStep /\ Held' = 0
  BY <1>1, <1>2, <1>3, ResolveEnds, FullRefundBooked
<1>5. TypeOK'
  <2>1. invoice' \in [{"PRO_FORMA", "COMMERCIAL", "CREDIT_NOTE"} -> {"NONE", "ISSUED", "PAID"}]
    BY <1>1 DEF TypeOK
  <2> QED BY <1>1, <1>2, <1>4, <2>1, ResolveEnds, ZenonT(60) DEF TypeOK
<1> QED BY <1>1, <1>2, <1>4, <1>5, ResolveEnds

LEMMA PartialResolutionSteps ==
    ASSUME IInv, NEW d \in DisputeIds, NEW amount \in PartialAmounts, NEW first \in Kinds,
           resolveRefundPartial(d, amount, first)
    PROVE  IInv' /\ LedgerStep
<1> USE DEF IInv
<1> DEFINE portions == PartialRefund(amount, first)
<1>1. /\ resolveTo(d, "PARTIALLY_REFUNDED")
      /\ Refundable(portions) /\ charge' = Refunded(portions)
      /\ ledger' = [ledger EXCEPT !.partial = @ + Cents(portions)]
      /\ UNCHANGED payout
      /\ invoice' = [invoice EXCEPT !["CREDIT_NOTE"] = "ISSUED"]
  BY DEF resolveRefundPartial
<1>2. "PARTIALLY_REFUNDED" \in LEGAL_DISPUTE_RESOLUTIONS
  BY DEF LEGAL_DISPUTE_RESOLUTIONS
<1>3. order.status \notin Fates /\ order'.status = "PARTIALLY_REFUNDED" /\ payment' = payment
  BY <1>1, <1>2, ResolveEnds DEF Fates
<1>4. portions \in [Kinds -> Nat] /\ \A k \in Kinds : portions[k] <= PaidAmount[k]
  <2>1. amount \in Nat
    BY PartialAssumption
  <2> QED BY <2>1, RefundPlans
<1> HIDE DEF portions
<1>5. /\ Cents(portions) \in Nat /\ Cents(ledger.hold) \in Nat
      /\ Cents(portions) <= Cents(ledger.hold)
  <2>1. \A k \in Kinds : portions[k] <= ledger.hold[k]
    BY <1>4 DEF OneFate
  <2> QED BY <1>4, <2>1, Amounts, CentsNat, CentsMonotone
<1>6. /\ ledger' \in [hold: [Kinds -> Nat], refund: [Kinds -> Nat], partial: Nat,
                      release: Nat, commission: Nat, released: BOOLEAN]
      /\ ledger'.hold = ledger.hold /\ ledger'.refund = ledger.refund
      /\ ledger'.partial = Cents(portions)
      /\ ledger'.release = 0 /\ ledger'.commission = 0
      /\ ledger'.released = ledger.released /\ ~ledger'.released
  <2>1. ledger' = [ledger EXCEPT !.partial = Cents(portions)]
    BY <1>1, <1>3, <1>5, Undecided
  <2> QED BY <1>3, <1>5, <2>1, Undecided DEF TypeOK
<1>7. PaidAmount' = PaidAmount
  BY <1>3 DEF PaidAmount, Paid
<1>8. OneFate'
  <2>1. \A k \in Kinds : ledger.refund[k] = 0
    BY <1>3, Undecided
  <2> QED BY <1>3, <1>5, <1>6, <1>7, <2>1 DEF OneFate
<1>9. /\ charge' \in [Kinds -> [captured: Nat, transferred: Nat, refunded: Nat,
                                home: {"NONE", "web", "job"}]]
      /\ \A k \in Kinds :
           /\ charge'[k].captured = charge[k].captured
           /\ charge'[k].transferred = charge[k].transferred
           /\ charge'[k].transferred + charge'[k].refunded <= charge'[k].captured
  BY <1>1, <1>4, AdapterRefunds
<1>10. ChargesBacked'
  BY <1>3, <1>7, <1>9 DEF ChargesBacked
<1>11. TransferOnlyAfterRelease'
  BY <1>1, <1>6, <1>9 DEF TransferOnlyAfterRelease, Cents, Kinds
<1>12. LedgerStep
  <2>1. Cents(ledger.refund) = 0 /\ ledger.partial = 0 /\ ledger.release = 0
        /\ ledger.commission = 0 /\ ~ledger.released
    BY <1>3, Undecided
  <2>2. Account!Refund
    BY <1>5, <1>6, <2>1 DEF Account!Refund, Account!Remainder
  <2> QED BY <2>2 DEF LedgerStep, Account!AccountNext
<1>13. TypeOK'
  <2>1. invoice' \in [{"PRO_FORMA", "COMMERCIAL", "CREDIT_NOTE"} -> {"NONE", "ISSUED", "PAID"}]
    BY <1>1 DEF TypeOK
  <2>2. /\ order' \in [status: OrderStatus, schedule: PaymentSchedule,
                       leg: {"NONE", "PENDING", "IN_PRODUCTION", "READY_TO_SHIP",
                             "SHIPPED", "DELIVERED"}]
        /\ dispute' \in [DisputeIds -> [status: DisputeStatus \cup {"NONE"}, pre: OrderStatus]]
        /\ UNCHANGED <<payment, shipment, calls, orphan, lost>>
    BY <1>1, <1>2, ResolveEnds
  <2> QED BY <1>1, <1>6, <1>9, <2>1, <2>2 DEF TypeOK
<1> QED BY <1>1, <1>2, <1>8, <1>10, <1>11, <1>12, <1>13, ResolveEnds

\* A refund loop that rolled back drew on the adapter's charges only.
LEMMA RolledBackSteps ==
    ASSUME IInv, NEW want \in [Kinds -> Nat], refundRolledBack(want)
    PROVE  IInv' /\ LedgerStep
<1> USE DEF IInv
<1>1. PICK done \in SUBSET {k \in Kinds : want[k] > 0} :
        /\ Refundable([k \in Kinds |-> IF k \in done THEN want[k] ELSE 0])
        /\ charge' = Refunded([k \in Kinds |-> IF k \in done THEN want[k] ELSE 0])
        /\ lost' = lost \/ (lost < MaxLost /\ lost' = lost + 1)
        /\ UNCHANGED <<rows, calls, orphan>>
  BY DEF refundRolledBack
<1> DEFINE made == [k \in Kinds |-> IF k \in done THEN want[k] ELSE 0]
<1>2. made \in [Kinds -> Nat] /\ Refundable(made) /\ charge' = Refunded(made)
  BY <1>1
<1> HIDE DEF made
<1>3. /\ charge' \in [Kinds -> [captured: Nat, transferred: Nat, refunded: Nat,
                                home: {"NONE", "web", "job"}]]
      /\ \A k \in Kinds :
           /\ charge'[k].captured = charge[k].captured
           /\ charge'[k].transferred = charge[k].transferred
           /\ charge'[k].transferred + charge'[k].refunded <= charge'[k].captured
  BY <1>2, AdapterRefunds
<1>4. UNCHANGED <<order, payment, invoice, dispute, shipment, ledger, payout>>
  BY <1>1 DEF rows
<1>5. lost' \in 0..MaxLost
  BY <1>1, MaxLostAssumption DEF TypeOK
<1>6. TypeOK'
  BY <1>1, <1>3, <1>4, <1>5 DEF TypeOK
<1>7. PaidAmount' = PaidAmount
  BY <1>4 DEF PaidAmount, Paid
<1>8. OneFate' /\ ChargesBacked' /\ LedgerStep
  BY <1>3, <1>4, <1>7 DEF OneFate, ChargesBacked, LedgerStep, Account!accountVars
<1>9. TransferOnlyAfterRelease'
  BY <1>3, <1>4 DEF TransferOnlyAfterRelease, Cents, Kinds
<1> QED BY <1>4, <1>6, <1>8, <1>9, DisputeFrame

-----------------------------------------------------------------------------
(* Release and settlement *)

LEMMA HeldNat ==
    ASSUME IInv
    PROVE  /\ Held \in Nat
           /\ order.status \notin Fates => Held = Cents(ledger.hold)
<1> USE DEF IInv
<1>1. /\ Cents(ledger.hold) \in Nat /\ Cents(ledger.refund) \in Nat
      /\ Cents(ledger.refund) <= Cents(ledger.hold)
      /\ ledger.partial \in Nat /\ ledger.release \in Nat /\ ledger.commission \in Nat
      /\ ledger.partial <= Cents(ledger.hold)
      /\ ledger.release + ledger.commission <= Cents(ledger.hold)
  BY Amounts, CentsNat, CentsMonotone DEF OneFate
<1>2. order.status # "CANCELLED" => Cents(ledger.refund) = 0
  <2>1. \A k \in Kinds : ledger.refund[k] \in Nat
    BY Amounts
  <2>2. order.status # "CANCELLED" => \A k \in Kinds : ledger.refund[k] = 0
    BY <2>1 DEF OneFate
  <2> QED BY <2>2 DEF Cents, Kinds
<1>3. order.status # "PARTIALLY_REFUNDED" => ledger.partial = 0
  BY <1>1 DEF OneFate
<1>4. order.status # "ESCROW_RELEASED" => ledger.release = 0 /\ ledger.commission = 0
  BY <1>1 DEF OneFate
<1> DEFINE h == Cents(ledger.hold)
           r == Cents(ledger.refund)
           rel == ledger.release + ledger.commission
<1>5. Held = h - r - ledger.partial - rel
  BY <1>1 DEF Held
<1>6. /\ h \in Nat /\ r \in Nat /\ rel \in Nat /\ ledger.partial \in Nat
      /\ r <= h /\ ledger.partial <= h /\ rel <= h
      /\ order.status # "CANCELLED" => r = 0
      /\ order.status # "PARTIALLY_REFUNDED" => ledger.partial = 0
      /\ order.status # "ESCROW_RELEASED" => rel = 0
  BY <1>1, <1>2, <1>3, <1>4
<1> HIDE DEF h, r, rel
<1>7. Held \in Nat
  <2>1. CASE order.status = "CANCELLED"
    BY <1>5, <1>6, <2>1
  <2>2. CASE order.status = "PARTIALLY_REFUNDED"
    BY <1>5, <1>6, <2>2
  <2>3. CASE order.status \notin {"CANCELLED", "PARTIALLY_REFUNDED"}
    BY <1>5, <1>6, <2>3
  <2> QED BY <2>1, <2>2, <2>3
<1>8. order.status \notin Fates => Held = h
  BY <1>5, <1>6 DEF Fates
<1> QED BY <1>7, <1>8 DEF h

\* createPayouts and the two release entries: from an open fate, the whole
\* held balance is split once and a payout row appears with it.
LEMMA ReleaseBooked ==
    ASSUME IInv, ledger' = ReleaseEntries, payout' = PayoutRow,
           UNCHANGED <<payment, charge>>,
           order.status \notin Fates, order'.status = "ESCROW_RELEASED"
    PROVE  /\ ledger' \in [hold: [Kinds -> Nat], refund: [Kinds -> Nat], partial: Nat,
                           release: Nat, commission: Nat, released: BOOLEAN]
           /\ payout' \in [status: {"NONE", "PENDING", "PAID"}, net: Nat]
           /\ OneFate' /\ ChargesBacked' /\ TransferOnlyAfterRelease' /\ LedgerStep
<1> USE DEF IInv
<1> DEFINE net == netCents(Held, CommissionBps)
           fee == commissionCents(Held, CommissionBps)
<1>1. /\ net \in Nat /\ fee \in Nat /\ net + fee = Cents(ledger.hold)
      /\ Cents(ledger.hold) \in Nat
  <2>1. Held \in Nat /\ Held = Cents(ledger.hold)
    BY HeldNat
  <2>2. net \in Nat /\ fee \in Nat /\ net + fee = Held
    BY <2>1, CommissionSplit
  <2> QED BY <2>1, <2>2
<1>2. ledger' = [hold |-> ledger.hold, refund |-> ledger.refund, partial |-> ledger.partial,
                 release |-> net, commission |-> fee, released |-> TRUE]
  BY Undecided DEF ReleaseEntries
<1> HIDE DEF net, fee
<1>3. ledger' \in [hold: [Kinds -> Nat], refund: [Kinds -> Nat], partial: Nat,
                   release: Nat, commission: Nat, released: BOOLEAN]
  BY <1>1, <1>2, Amounts
<1>4. /\ payout' = [status |-> "PENDING", net |-> netCents(TotalCents, CommissionBps)]
      /\ payout' \in [status: {"NONE", "PENDING", "PAID"}, net: Nat]
  <2>1. netCents(TotalCents, CommissionBps) \in Nat
    <3>1. TotalCents \in Nat
      BY TotalAssumption
    <3> QED BY <3>1, CommissionSplit
  <2>2. payout' = [status |-> "PENDING", net |-> netCents(TotalCents, CommissionBps)]
    BY Undecided DEF PayoutRow
  <2> QED BY <2>1, <2>2
<1>5. PaidAmount' = PaidAmount
  BY DEF PaidAmount, Paid
<1>6. OneFate'
  <2>1. /\ ledger'.hold = ledger.hold /\ ledger'.refund = ledger.refund
        /\ ledger'.partial = 0 /\ ledger'.release = net /\ ledger'.commission = fee
        /\ ledger'.released = TRUE
    BY <1>2, Undecided
  <2>2. \A k \in Kinds : ledger.refund[k] = 0
    BY Undecided
  <2> QED BY <1>1, <1>5, <2>1, <2>2 DEF OneFate
<1>7. ChargesBacked'
  BY <1>5 DEF ChargesBacked
<1>8. TransferOnlyAfterRelease'
  BY <1>2, <1>4 DEF TransferOnlyAfterRelease
<1>9. LedgerStep
  <2>1. /\ ledger'.hold = ledger.hold /\ ledger'.refund = ledger.refund
        /\ ledger'.partial = 0 /\ ledger'.release = net /\ ledger'.commission = fee
        /\ ledger'.released = TRUE
        /\ ledger.partial = 0 /\ ledger.release = 0 /\ ledger.commission = 0
        /\ ~ledger.released /\ Cents(ledger.refund) = 0
    BY <1>2, Undecided
  <2>2. Account!Release
    BY <1>1, <2>1 DEF Account!Release, Account!Remainder
  <2> QED BY <2>2 DEF LedgerStep, Account!AccountNext
<1> QED BY <1>3, <1>4, <1>6, <1>7, <1>8, <1>9

\* resolveDispute with RELEASE.
LEMMA ReleaseResolutionSteps ==
    ASSUME IInv, NEW d \in DisputeIds, resolveRelease(d)
    PROVE  IInv' /\ LedgerStep
<1> USE DEF IInv
<1>1. /\ resolveTo(d, "ESCROW_RELEASED") /\ ledger' = ReleaseEntries /\ payout' = PayoutRow
      /\ UNCHANGED <<invoice, charge>>
  BY DEF resolveRelease
<1>2. "ESCROW_RELEASED" \in LEGAL_DISPUTE_RESOLUTIONS
  BY DEF LEGAL_DISPUTE_RESOLUTIONS
<1>3. /\ order.status \notin Fates /\ order'.status = "ESCROW_RELEASED"
      /\ order' \in [status: OrderStatus, schedule: PaymentSchedule,
                     leg: {"NONE", "PENDING", "IN_PRODUCTION", "READY_TO_SHIP",
                           "SHIPPED", "DELIVERED"}]
      /\ dispute' \in [DisputeIds -> [status: DisputeStatus \cup {"NONE"}, pre: OrderStatus]]
      /\ UNCHANGED <<payment, shipment, calls, orphan, lost>>
      /\ ActiveDisputeFreezesOrder'
  BY <1>1, <1>2, ResolveEnds DEF Fates
<1>4. /\ ledger' \in [hold: [Kinds -> Nat], refund: [Kinds -> Nat], partial: Nat,
                      release: Nat, commission: Nat, released: BOOLEAN]
      /\ payout' \in [status: {"NONE", "PENDING", "PAID"}, net: Nat]
      /\ OneFate' /\ ChargesBacked' /\ TransferOnlyAfterRelease' /\ LedgerStep
  BY <1>1, <1>3, ReleaseBooked
<1>5. TypeOK'
  BY <1>1, <1>3, <1>4 DEF TypeOK
<1> QED BY <1>3, <1>4, <1>5

\* releaseEscrow, from the sweep or after a delivery.
LEMMA ReleaseSteps ==
    ASSUME IInv, releaseEscrow, calls' \subseteq calls
    PROVE  IInv' /\ LedgerStep /\ ActiveDisputes = {}
<1> USE DEF IInv
<1>1. order.status \in {"SHIPPED", "DELIVERED"} /\ ActiveDisputes = {}
  <2>1. PICK age \in ReleaseClocks : Decision(age) = "RELEASE"
    BY DEF releaseEscrow, ReleasePossible
  <2> QED BY <2>1 DEF Decision, releaseDecision
<1>2. PICK delivered \in OrderStatus, to \in OrderStatus :
        /\ orderTransition([Snapshot(order.schedule, FALSE) EXCEPT !.status = delivered],
                           "RELEASE_ESCROW", to)
        /\ order' = [order EXCEPT !.status = to]
  BY DEF releaseEscrow, Snapshot, orderTransition
<1>3. to = "ESCROW_RELEASED"
  BY <1>2 DEF orderTransition, PlainMoves, GatedMoves, Snapshot
<1>4. /\ order.status \notin Fates \cup {"DISPUTED"} /\ order'.status = "ESCROW_RELEASED"
      /\ order' \in [status: OrderStatus, schedule: PaymentSchedule,
                     leg: {"NONE", "PENDING", "IN_PRODUCTION", "READY_TO_SHIP",
                           "SHIPPED", "DELIVERED"}]
  BY <1>1, <1>2, <1>3 DEF TypeOK, Fates
<1>5. /\ UNCHANGED <<payment, invoice, dispute, shipment, charge, orphan, lost>>
      /\ \/ ledger' = ReleaseEntries /\ payout' = PayoutRow
         \/ UNCHANGED <<ledger, payout>>
  BY DEF releaseEscrow
<1>6. ActiveDisputeFreezesOrder'
  BY <1>4, <1>5, DisputeFrame
<1>7. CASE ledger' = ReleaseEntries /\ payout' = PayoutRow
  <2>1. /\ ledger' \in [hold: [Kinds -> Nat], refund: [Kinds -> Nat], partial: Nat,
                        release: Nat, commission: Nat, released: BOOLEAN]
        /\ payout' \in [status: {"NONE", "PENDING", "PAID"}, net: Nat]
        /\ OneFate' /\ ChargesBacked' /\ TransferOnlyAfterRelease' /\ LedgerStep
    BY <1>4, <1>5, <1>7, ReleaseBooked
  <2>2. TypeOK'
    BY <1>4, <1>5, <2>1 DEF TypeOK
  <2> QED BY <1>1, <1>6, <2>1, <2>2
<1>8. CASE UNCHANGED <<ledger, payout>>
  <2>1. TypeOK'
    BY <1>4, <1>5, <1>8 DEF TypeOK
  <2> QED BY <1>1, <1>4, <1>5, <1>6, <1>8, <2>1, MoneyFrame
<1> QED BY <1>5, <1>7, <1>8

\* settlePayout takes from each charge at most what it still holds.
LEMMA TransferPlanBacked ==
    ASSUME IInv, NEW need \in Nat
    PROVE  /\ TransferPlan(need) \in [Kinds -> Nat]
           /\ \A k \in Kinds : TransferPlan(need)[k] <= HeldOn(k)
<1> USE DEF IInv
<1>1. \A k \in Kinds : HeldOn(k) \in Nat
  <2> SUFFICES ASSUME NEW k \in Kinds PROVE HeldOn(k) \in Nat
    OBVIOUS
  <2>1. charge[k].captured \in Nat /\ charge[k].transferred \in Nat /\ charge[k].refunded \in Nat
    BY Amounts
  <2>2. charge[k].transferred + charge[k].refunded <= charge[k].captured
    BY DEF ChargesBacked
  <2> QED BY <2>1, <2>2 DEF HeldOn
<1>2. \A k \in Kinds : /\ Available(k) \in Nat /\ Available(k) <= HeldOn(k)
                       /\ Available(k) > 0 => payment[k].status = "SUCCEEDED"
  BY <1>1 DEF Available, Paid
<1>3. Available("DEPOSIT") = 0 \/ Available("FULL") = 0
  <2>1. payment["DEPOSIT"].status = "NONE" \/ payment["FULL"].status = "NONE"
    BY DEF ChargesBacked
  <2> QED BY <1>2, <2>1 DEF Kinds
<1> DEFINE a == Least(Available("DEPOSIT"), need)
           b == Least(Available("FULL"), need)
           rest == need - (a + b)
           c == Least(Available("BALANCE"), rest)
<1>4. /\ a \in Nat /\ b \in Nat /\ a <= Available("DEPOSIT") /\ b <= Available("FULL")
      /\ a + b <= need
  BY <1>2, <1>3 DEF Least, Kinds
<1>5. c \in Nat /\ c <= Available("BALANCE")
  <2>1. Available("BALANCE") \in Nat /\ rest \in Nat
    <3> HIDE DEF a, b
    <3> QED BY <1>2, <1>4 DEF Kinds
  <2> HIDE DEF rest
  <2> QED BY <2>1 DEF Least
<1>6. /\ TransferPlan(need)["DEPOSIT"] = a
      /\ TransferPlan(need)["FULL"] = b
      /\ TransferPlan(need)["BALANCE"] = c
      /\ TransferPlan(need) = [k \in Kinds |-> TransferPlan(need)[k]]
  <2> DEFINE taken == [k \in Kinds |-> IF k = "BALANCE" THEN 0 ELSE Least(Available(k), need)]
  <2>1. /\ taken["DEPOSIT"] = a /\ taken["FULL"] = b /\ taken["BALANCE"] = 0
        /\ Cents(taken) = a + b
    <3>1. taken["DEPOSIT"] = a /\ taken["FULL"] = b /\ taken["BALANCE"] = 0
      BY DEF Kinds
    <3> HIDE DEF taken, a, b
    <3> QED BY <3>1, <1>4 DEF Cents
  <2>2. TransferPlan(need) = [taken EXCEPT !["BALANCE"] = Least(Available("BALANCE"),
                                                               need - Cents(taken))]
    BY DEF TransferPlan
  <2>3. taken = [k \in Kinds |-> taken[k]]
    OBVIOUS
  <2>4. Least(Available("BALANCE"), need - Cents(taken)) = c
    BY <2>1
  <2> HIDE DEF taken, a, b, c
  <2> QED BY <2>1, <2>2, <2>3, <2>4 DEF Kinds
<1> HIDE DEF a, b, c
<1>7. \A k \in Kinds : TransferPlan(need)[k] \in Nat /\ TransferPlan(need)[k] <= HeldOn(k)
  BY <1>1, <1>2, <1>4, <1>5, <1>6 DEF Kinds
<1> QED BY <1>6, <1>7

\* The settlement of a payout, committed or not.
LEMMA SettleSteps ==
    ASSUME IInv, settlePayout \/ settlePayoutShort \/ settleRolledBack
    PROVE  IInv' /\ LedgerStep /\ payout.status = "PENDING"
<1> USE DEF IInv
<1> DEFINE full == TransferPlan(payout.net)
           upfront == [full EXCEPT !["BALANCE"] = 0]
<1>0. payout \in [status: {"NONE", "PENDING", "PAID"}, net: Nat] /\ payout.net \in Nat
  BY DEF TypeOK
<1>a. full \in [Kinds -> Nat] /\ \A k \in Kinds : full[k] <= HeldOn(k)
  BY <1>0, TransferPlanBacked
<1>b. \A k \in Kinds : HeldOn(k) \in Nat
  <2> SUFFICES ASSUME NEW k \in Kinds PROVE HeldOn(k) \in Nat
    OBVIOUS
  <2>1. charge[k].captured \in Nat /\ charge[k].transferred \in Nat /\ charge[k].refunded \in Nat
    BY Amounts
  <2>2. charge[k].transferred + charge[k].refunded <= charge[k].captured
    BY DEF ChargesBacked
  <2> QED BY <2>1, <2>2 DEF HeldOn
<1>c. upfront \in [Kinds -> Nat] /\ \A k \in Kinds : upfront[k] <= HeldOn(k)
  <2> HIDE DEF full
  <2>1. upfront \in [Kinds -> Nat]
    BY <1>a
  <2>2. \A k \in Kinds : upfront[k] = 0 \/ upfront[k] = full[k]
    BY <1>a
  <2> HIDE DEF upfront
  <2>3. ASSUME NEW k \in Kinds PROVE upfront[k] <= HeldOn(k)
    BY <1>a, <1>b, <2>2
  <2> QED BY <2>1, <2>3
<1>d. PICK plan \in {full, upfront} :
        /\ payout.status = "PENDING" /\ charge' = Transferred(plan)
        /\ UNCHANGED <<order, payment, invoice, dispute, shipment, ledger, calls, orphan>>
        /\ lost' = lost \/ (lost < MaxLost /\ lost' = lost + 1)
        /\ \/ payout' = payout
           \/ payout' = [payout EXCEPT !.status = "PAID"] /\ Cents(plan) = payout.net
  <2>1. CASE settlePayout
    BY <2>1 DEF settlePayout
  <2>2. CASE settlePayoutShort
    BY <2>2 DEF settlePayoutShort, rows
  <2>3. CASE settleRolledBack
    BY <2>3 DEF settleRolledBack, rows
  <2> QED BY <2>1, <2>2, <2>3
<1>1. /\ payout.status = "PENDING" /\ charge' = Transferred(plan)
      /\ UNCHANGED <<order, payment, invoice, dispute, shipment, ledger, calls, orphan>>
      /\ lost' = lost \/ (lost < MaxLost /\ lost' = lost + 1)
      /\ \/ payout' = payout
         \/ payout' = [payout EXCEPT !.status = "PAID"] /\ Cents(plan) = payout.net
  BY <1>d
<1>2. payout \in [status: {"NONE", "PENDING", "PAID"}, net: Nat] /\ payout.net \in Nat
  BY <1>0
<1>3. plan \in [Kinds -> Nat] /\ \A k \in Kinds : plan[k] <= HeldOn(k)
  BY <1>a, <1>c
<1> HIDE DEF full, upfront
<1>4. \A k \in Kinds :
         /\ charge'[k] \in [captured: Nat, transferred: Nat, refunded: Nat,
                            home: {"NONE", "web", "job"}]
         /\ charge'[k].captured = charge[k].captured
         /\ charge'[k].transferred = charge[k].transferred + plan[k]
         /\ charge'[k].refunded = charge[k].refunded
  <2>1. charge' = [k \in Kinds |-> [charge[k] EXCEPT !.transferred = @ + plan[k]]]
    BY <1>1 DEF Transferred
  <2>2. charge \in [Kinds -> [captured: Nat, transferred: Nat, refunded: Nat,
                              home: {"NONE", "web", "job"}]]
    BY DEF TypeOK
  <2> QED BY <1>3, <2>1, <2>2
<1>5. charge' \in [Kinds -> [captured: Nat, transferred: Nat, refunded: Nat,
                             home: {"NONE", "web", "job"}]]
  <2>1. charge' = [k \in Kinds |-> charge'[k]]
    BY <1>1 DEF Transferred
  <2> QED BY <2>1, <1>4
<1>6. \A k \in Kinds : charge'[k].transferred + charge'[k].refunded <= charge'[k].captured
  <2> SUFFICES ASSUME NEW k \in Kinds
               PROVE  charge'[k].transferred + charge'[k].refunded <= charge'[k].captured
    OBVIOUS
  <2>1. charge[k].captured \in Nat /\ charge[k].transferred \in Nat /\ charge[k].refunded \in Nat
        /\ plan[k] \in Nat /\ plan[k] <= HeldOn(k)
    BY Amounts, <1>3
  <2> QED BY <2>1, <1>4 DEF HeldOn
<1>7. ledger.released
  BY <1>1 DEF TransferOnlyAfterRelease
<1>8. /\ payout' \in [status: {"NONE", "PENDING", "PAID"}, net: Nat]
      /\ payout'.status # "NONE" /\ payout'.net = payout.net
      /\ payout'.status = "PAID" => Cents(plan) = payout.net
  BY <1>1, <1>2
<1>9. TypeOK'
  <2>1. lost' \in 0..MaxLost
    BY <1>1, MaxLostAssumption DEF TypeOK
  <2> QED BY <1>1, <1>5, <1>8, <2>1 DEF TypeOK
<1>10. PaidAmount' = PaidAmount
  BY <1>1 DEF PaidAmount, Paid
<1>11. OneFate' /\ ChargesBacked' /\ LedgerStep
  BY <1>1, <1>4, <1>6, <1>10 DEF OneFate, ChargesBacked, LedgerStep, Account!accountVars
<1>12. TransferOnlyAfterRelease'
  <2>1. Cents(plan) <= Cents([k \in Kinds |-> charge'[k].transferred])
    <3>1. \A k \in Kinds : plan[k] <= charge'[k].transferred /\ charge'[k].transferred \in Nat
      <4> SUFFICES ASSUME NEW k \in Kinds
                   PROVE  plan[k] <= charge'[k].transferred /\ charge'[k].transferred \in Nat
        OBVIOUS
      <4>1. charge[k].transferred \in Nat /\ plan[k] \in Nat
        BY Amounts, <1>3
      <4> QED BY <4>1, <1>4
    <3> DEFINE g == [k \in Kinds |-> charge'[k].transferred]
    <3>2. g \in [Kinds -> Nat] /\ \A k \in Kinds : plan[k] <= g[k]
      BY <3>1
    <3> HIDE DEF g
    <3>3. Cents(plan) <= Cents(g)
      BY <1>3, <3>2, CentsMonotone
    <3> QED BY <3>3 DEF g
  <2>2. payout'.status = "PAID" =>
          Cents([k \in Kinds |-> charge'[k].transferred]) >= payout'.net
    BY <1>2, <1>8, <2>1
  <2> QED BY <1>1, <1>7, <1>8, <2>2 DEF TransferOnlyAfterRelease
<1> QED BY <1>1, <1>9, <1>11, <1>12, DisputeFrame

-----------------------------------------------------------------------------
(* The theorems *)

\* Every step keeps the invariant and is a step of the escrow account.
LEMMA StepInv ==
    ASSUME IInv, [Next]_vars
    PROVE  IInv' /\ LedgerStep
<1>1. CASE UNCHANGED vars
  BY <1>1, QuietSteps
<1>2. CASE Buyer
  <2>1. ASSUME NEW s \in Schedules, confirmOrder(s) PROVE IInv' /\ LedgerStep
    BY <2>1, ConfirmSteps
  <2>2. ASSUME NEW k \in Kinds, payScheduledPayment(k, "web") PROVE IInv' /\ LedgerStep
    BY <2>2, PaySteps
  <2>3. ASSUME NEW k \in Kinds, payRolledBack(k) PROVE IInv' /\ LedgerStep
    BY <2>3, QuietSteps
  <2>4. ASSUME NEW d \in DisputeIds, openDispute(d) \/ withdraw(d) PROVE IInv' /\ LedgerStep
    BY <2>4, DisputeSteps
  <2>5. CASE cancelOrder
    BY <2>5, CancelSteps
  <2>6. CASE cancelRolledBack
    <3>1. FullRefund \in [Kinds -> Nat]
      BY RefundPlans DEF IInv
    <3> QED BY <2>6, <3>1, RolledBackSteps DEF cancelRolledBack
  <2> QED BY <1>2, <2>1, <2>2, <2>3, <2>4, <2>5, <2>6 DEF Buyer
<1>3. CASE Supplier
  <2>1. CASE issueBalanceInvoice
    <3>1. issueBalance /\ calls' \subseteq calls
      BY <2>1 DEF issueBalanceInvoice
    <3> QED BY <3>1, BalanceSteps
  <2> QED BY <1>3, <2>1, SupplierSteps DEF Supplier
<1>4. CASE Staff
  <2>1. ASSUME NEW d \in DisputeIds, startReview(d) \/ resolveBackToDelivered(d)
        PROVE  IInv' /\ LedgerStep
    BY <2>1, DisputeSteps
  <2>2. ASSUME NEW d \in DisputeIds, resolveRelease(d) PROVE IInv' /\ LedgerStep
    BY <2>2, ReleaseResolutionSteps
  <2>3. ASSUME NEW d \in DisputeIds, resolveRefundFull(d) PROVE IInv' /\ LedgerStep
    BY <2>3, FullResolutionSteps
  <2>4. ASSUME NEW d \in DisputeIds, NEW a \in PartialAmounts, NEW k \in Kinds,
               resolveRefundPartial(d, a, k)
        PROVE  IInv' /\ LedgerStep
    BY <2>4, PartialResolutionSteps
  <2>5. ASSUME NEW d \in DisputeIds, resolveRolledBack(d) PROVE IInv' /\ LedgerStep
    <3>1. PICK want \in [Kinds -> Nat] : refundRolledBack(want)
      <4>1. CASE refundRolledBack(FullRefund)
        BY <4>1, RefundPlans DEF IInv
      <4>2. ASSUME NEW a \in PartialAmounts, NEW first \in Paid,
                   refundRolledBack(PartialRefund(a, first))
            PROVE  \E want \in [Kinds -> Nat] : refundRolledBack(want)
        <5>1. a \in Nat /\ first \in Kinds
          BY PartialAssumption DEF Paid
        <5>2. PartialRefund(a, first) \in [Kinds -> Nat]
          BY <5>1, RefundPlans DEF IInv
        <5> QED BY <4>2, <5>2
      <4> QED BY <2>5, <4>1, <4>2 DEF resolveRolledBack
    <3> QED BY <3>1, RolledBackSteps
  <2>6. CASE settlePayout \/ settlePayoutShort \/ settleRolledBack
    BY <2>6, SettleSteps
  <2> QED BY <1>4, <2>1, <2>2, <2>3, <2>4, <2>5, <2>6 DEF Staff
<1>5. CASE System
  <2>1. CASE sweepEscrowReleases
    <3>1. releaseEscrow /\ calls' \subseteq calls
      BY <2>1 DEF sweepEscrowReleases
    <3> QED BY <3>1, ReleaseSteps
  <2>2. CASE runNet30Charges
    <3>1. payScheduledPayment("BALANCE", "job") /\ "BALANCE" \in Kinds
      BY <2>2 DEF runNet30Charges, Kinds
    <3> QED BY <3>1, PaySteps
  <2>3. CASE runIssueBalanceInvoice
    <3>1. calls' \subseteq calls
      BY <2>3 DEF runIssueBalanceInvoice
    <3>2. CASE issueBalance
      BY <3>1, <3>2, BalanceSteps
    <3>3. CASE UNCHANGED <<rows, charge, orphan, lost>>
      <4>1. TypeOK'
        BY <3>1, <3>3 DEF IInv, TypeOK, rows
      <4> QED BY <3>3, <4>1, MoneyFrame, DisputeFrame DEF IInv, rows
    <3> QED BY <2>3, <3>2, <3>3 DEF runIssueBalanceInvoice
  <2>4. CASE runReleaseEscrow
    <3>1. calls' \subseteq calls
      BY <2>4 DEF runReleaseEscrow
    <3>2. CASE releaseEscrow
      BY <3>1, <3>2, ReleaseSteps
    <3>3. CASE UNCHANGED <<rows, charge, orphan, lost>>
      <4>1. TypeOK'
        BY <3>1, <3>3 DEF IInv, TypeOK, rows
      <4> QED BY <3>3, <4>1, MoneyFrame, DisputeFrame DEF IInv, rows
    <3> QED BY <2>4, <3>2, <3>3 DEF runReleaseEscrow
  <2>5. CASE crash \/ tick
    BY <2>5, QuietSteps
  <2> QED BY <1>5, <2>1, <2>2, <2>3, <2>4, <2>5 DEF System
<1> QED BY <1>1, <1>2, <1>3, <1>4, <1>5 DEF Next

\* The inductive invariant holds of every order.
THEOREM Inductive == Spec => []IInv
<1>1. IInv /\ [Next]_vars => IInv'
  BY StepInv
<1> QED BY InitInv, <1>1, PTL DEF Spec

\* Rows, ledger sums, charges and clocks keep their types: no sum of cents
\* becomes negative and no shipment clock leaves its range.
THEOREM TypeCorrect == Spec => []TypeOK
<1>1. IInv => TypeOK
  BY DEF IInv
<1> QED BY Inductive, <1>1, PTL

\* escrowBalance (escrow.ts) never goes negative.
THEOREM NeverOverdrawn == Spec => []EscrowNeverOverdrawn
<1>1. IInv => EscrowNeverOverdrawn
  <2> SUFFICES ASSUME IInv PROVE EscrowNeverOverdrawn
    OBVIOUS
  <2> QED BY HeldNat DEF EscrowNeverOverdrawn
<1> QED BY Inductive, <1>1, PTL

\* Every total, schedule, dispute and retry: a full refund leaves nothing to the
\* supplier and is made once.
THEOREM FullRefundsAreFinal == Spec => []FullRefundIsFinal
<1>1. IInv => FullRefundIsFinal
  <2> SUFFICES ASSUME IInv
               PROVE  FullRefundIsFinal
    OBVIOUS
  <2>1. \A k \in Kinds : ledger.refund[k] <= ledger.hold[k]
    BY DEF IInv, OneFate
  <2>2. ASSUME Cents(ledger.refund) > 0
        PROVE  order.status = "CANCELLED"
    <3>1. \A k \in Kinds : ledger.refund[k] \in Nat
      BY DEF IInv, TypeOK
    <3>2. \E k \in Kinds : ledger.refund[k] > 0
      BY <2>2, <3>1 DEF Cents, Kinds
    <3> QED BY <3>2 DEF IInv, OneFate
  <2>3. ASSUME order.status = "CANCELLED"
        PROVE  ledger.partial = 0 /\ ~ledger.released /\ payout.status = "NONE"
    <3>1. ledger.partial \in Nat /\ ~(ledger.partial > 0) /\ ~ledger.released
      BY <2>3 DEF IInv, OneFate, TypeOK
    <3>2. payout.status = "NONE"
      BY <3>1 DEF IInv, TransferOnlyAfterRelease
    <3> QED BY <3>1, <3>2
  <2> QED BY <2>1, <2>2, <2>3 DEF FullRefundIsFinal
<1> QED BY Inductive, <1>1, PTL

\* No charge gives back or passes on more than was captured.
THEOREM ChargesAreBacked == Spec => []ChargesBacked
<1>1. IInv => ChargesBacked
  BY DEF IInv
<1> QED BY Inductive, <1>1, PTL

\* No transfer without a release, no payout row without one either.
THEOREM ReleaseBeforeTransfer == Spec => []TransferOnlyAfterRelease
<1>1. IInv => TransferOnlyAfterRelease
  BY DEF IInv
<1> QED BY Inductive, <1>1, PTL

\* The escrow never pays out more than it took in, nor anything before it is
\* released, for every total, commission, schedule and set of disputes.
THEOREM PayoutsBacked == Spec => []PayoutsAreBacked
<1>1. EscrowNeverOverdrawn /\ TransferOnlyAfterRelease <=> PayoutsAreBacked
  BY DEF PayoutsAreBacked
<1> QED BY NeverOverdrawn, ReleaseBeforeTransfer, <1>1, PTL

\* A cancelled order never pays its supplier.
THEOREM CancelledNeverPays == Spec => []CancelledOrderNeverPaysSupplier
<1>1. IInv => CancelledOrderNeverPaysSupplier
  <2> SUFFICES ASSUME IInv, order.status = "CANCELLED"
               PROVE  /\ ~ledger.released /\ payout.status = "NONE"
                      /\ \A k \in Kinds : charge[k].transferred = 0
    BY DEF CancelledOrderNeverPaysSupplier
  <2>1. ~ledger.released
    BY DEF IInv, OneFate
  <2>2. \A k \in Kinds : charge[k].transferred \in Nat /\ ~(charge[k].transferred > 0)
    BY <2>1, Amounts DEF IInv, TransferOnlyAfterRelease
  <2>3. payout.status = "NONE"
    BY <2>1 DEF IInv, TransferOnlyAfterRelease
  <2> QED BY <2>1, <2>2, <2>3
<1> QED BY Inductive, <1>1, PTL

\* An active dispute is its order's only one and holds it in DISPUTED.
THEOREM DisputesFreezeOrders == Spec => []ActiveDisputeFreezesOrder
<1>1. IInv => ActiveDisputeFreezesOrder
  BY DEF IInv
<1> QED BY Inductive, <1>1, PTL

\* The two together: an order that was stopped pays nobody.
THEOREM StoppedPaysNobody == Spec => []StoppedOrderPaysNobody
<1>1. CancelledOrderNeverPaysSupplier /\ ActiveDisputeFreezesOrder => StoppedOrderPaysNobody
  BY DEF StoppedOrderPaysNobody
<1> QED BY CancelledNeverPays, DisputesFreezeOrders, <1>1, PTL

\* The two together: money returned is gone from the escrow and from its charges.
THEOREM FateAndCharges == Spec => []OneFateForEveryCharge
<1>1. FullRefundIsFinal /\ ChargesBacked => OneFateForEveryCharge
  BY DEF OneFateForEveryCharge
<1> QED BY FullRefundsAreFinal, ChargesAreBacked, <1>1, PTL

\* Nothing is released and no payout is made while a dispute stays active.
THEOREM DisputesFreezeReleases == Spec => DisputeFreezesRelease
<1> DEFINE Frozen == /\ ledger.released \in BOOLEAN
                     /\ ActiveDisputes # {} => ~ledger.released /\ payout.status = "NONE"
           A == ActiveDisputes # {} /\ ActiveDisputes' # {} =>
                  /\ ledger'.released = ledger.released
                  /\ payout'.status = payout.status
<1>1. IInv => Frozen
  <2> SUFFICES ASSUME IInv PROVE Frozen
    OBVIOUS
  <2>1. ledger.released \in BOOLEAN
    BY Amounts DEF IInv
  <2>2. ActiveDisputes # {} => order.status \notin Fates
    BY DEF IInv, ActiveDisputeFreezesOrder, Fates
  <2> QED BY <2>1, <2>2, Undecided
<1>2. Frozen /\ Frozen' => [A]_vars
  OBVIOUS
<1> QED BY Inductive, <1>1, <1>2, PTL DEF DisputeFreezesRelease

\* The ledger of an order implements the escrow account: money goes back to
\* the buyer only before the release, the release happens once and splits the
\* whole remainder, and no step moves more than is there.
THEOREM ImplementsAccount == Spec => IsEscrowAccount
<1>1. Init => Account!AccountInit
  BY DEF Init, Account!AccountInit, Zero, Cents, Kinds
<1>2. IInv /\ [Next]_vars => [Account!AccountNext]_(Account!accountVars)
  BY StepInv DEF LedgerStep
<1> QED BY <1>1, <1>2, Inductive, PTL DEF Spec, IsEscrowAccount, Account!AccountSpec

-----------------------------------------------------------------------------
(* The books: they follow the charges, goods leave only when paid, and a    *)
(* cancellation gives everything back.                                      *)

-----------------------------------------------------------------------------
(* What makes these inductive *)

\* The payment that placing the order schedules, and its amount.
Upfront ==
    IF order.schedule = "FULL_PREPAY" \/ depositCents(TotalCents) = 0 THEN "FULL" ELSE "DEPOSIT"
UpfrontCents == IF Upfront = "FULL" THEN TotalCents ELSE depositCents(TotalCents)

\* Payments are the plan's: one up front, none on Net-30, and a balance that is
\* what the first left over.
PlanKept ==
    /\ order.status # "DRAFT" =>
         \A k \in {"DEPOSIT", "FULL"} : payment[k].status # "NONE" =>
             /\ order.schedule # "NET_30"
             /\ k = Upfront
             /\ payment[k].amountCents = UpfrontCents
    /\ payment["BALANCE"].status # "NONE" =>
         /\ order.schedule # "FULL_PREPAY"
         /\ order.schedule = "DEPOSIT_30_70" =>
              payment["BALANCE"].amountCents = TotalCents - UpfrontCents

\* Production waits for the first payment.
UpfrontPaid ==
    order.status \notin {"DRAFT", "DEPOSIT_DUE", "CANCELLED"} /\ order.schedule # "NET_30" =>
        Upfront \in Paid

\* Goods that left were paid, payment by payment.
DispatchPaid ==
    \A s \in ShipmentIds : shipment[s].age >= 0 =>
        /\ order.status # "DRAFT"
        /\ \/ order.schedule = "NET_30"
           \/ Upfront \in Paid /\ (order.schedule = "DEPOSIT_30_70" => "BALANCE" \in Paid)

\* Each captured payment has its charge, a job's only for a Net-30 balance.
ChargesKnown ==
    \A k \in Kinds :
        /\ k \in Paid <=> charge[k].home # "NONE"
        /\ charge[k].home = "job" => k = "BALANCE" /\ order.schedule = "NET_30"

\* Refunds in the ledger and at the adapter.
RefundsBooked == Cents(ledger.refund) + ledger.partial
RefundsMade == Cents([k \in Kinds |-> charge[k].refunded])
RefundsAgree == RefundsBooked <= RefundsMade /\ (lost = 0 => RefundsBooked = RefundsMade)

\* A dispute remembers a status in which it could be opened.
OpenedInTime ==
    \A d \in ActiveDisputes : dispute[d].pre \in DISPUTABLE_STATUSES

BooksInv ==
    /\ PlanKept
    /\ UpfrontPaid
    /\ DispatchPaid
    /\ ChargesKnown
    /\ RefundsAgree
    /\ InvoiceTracksBalance
    /\ OpenedInTime

\* What a step must establish besides.
CancelStep == order.status # "CANCELLED" /\ order'.status = "CANCELLED" => Held' = 0

Waiting == {"DRAFT", "DEPOSIT_DUE", "CANCELLED"}

-----------------------------------------------------------------------------
(* Moves, and what a step leaves alone *)

\* order-machine.ts: production, shipping and disputes begin after the first
\* payment, and only a cancellation or a resolution cancels.
LEMMA LaterMoves ==
    ASSUME TypeOK, NEW event \in OrderEvent, NEW to \in OrderStatus, Accepts(event, to)
    PROVE  /\ event \in {"START_PRODUCTION", "COMPLETE_PRODUCTION", "ISSUE_BALANCE", "SHIP",
                         "DELIVER", "OPEN_DISPUTE", "RESOLVE_DISPUTE"} => order.status \notin Waiting
           /\ event \notin {"CANCEL", "RESOLVE_DISPUTE"} => to # "CANCELLED"
           /\ event = "OPEN_DISPUTE" => order.status \in DISPUTABLE_STATUSES /\ to = "DISPUTED"
           /\ event = "SHIP" =>
                \/ order.schedule # "DEPOSIT_30_70"
                \/ "BALANCE" \in Paid
           /\ to # "DRAFT"
<1> DEFINE o == Snapshot(order.schedule, ActiveDisputes # {})
<1>1. /\ o \in OrderSnapshot /\ o.status = order.status
      /\ o.paymentSchedule = order.schedule
      /\ o.balancePaid => "BALANCE" \in Paid \/ order.schedule = "FULL_PREPAY"
  BY DEF TypeOK, Snapshot, OrderSnapshot
<1>2. orderTransition(o, event, to)
  BY DEF Accepts
<1> HIDE DEF o
<1>3. /\ o.status \notin TERMINAL_ORDER_STATUSES
      /\ <<o.status, event, to>> \in PlainMoves \cup GatedMoves(o)
  BY <1>2 DEF orderTransition
<1>4. /\ event \in {"START_PRODUCTION", "COMPLETE_PRODUCTION", "ISSUE_BALANCE", "SHIP",
                    "DELIVER", "OPEN_DISPUTE", "RESOLVE_DISPUTE"} => o.status \notin Waiting
      /\ event \notin {"CANCEL", "RESOLVE_DISPUTE"} => to # "CANCELLED"
      /\ event = "OPEN_DISPUTE" => o.status \in DISPUTABLE_STATUSES /\ to = "DISPUTED"
      /\ event = "SHIP" => o.paymentSchedule # "DEPOSIT_30_70" \/ o.balancePaid
      /\ to # "DRAFT"
  BY <1>1, <1>3 DEF PlainMoves, GatedMoves, Waiting, OrderSnapshot, OrderEvent, OrderStatus,
         PaymentSchedule, CANCELABLE_STATUSES, DISPUTABLE_STATUSES, LEGAL_DISPUTE_RESOLUTIONS
<1> QED BY <1>1, <1>4

\* Steps that leave payments and charges as they are and put no goods on the
\* road keep what the books say of them, wherever they move an order that has
\* its first payment, and when they cancel one that has not.
LEMMA RowsFrame ==
    ASSUME IInv, BooksInv,
           \A k \in Kinds : /\ payment'[k].status = payment[k].status
                            /\ payment'[k].amountCents = payment[k].amountCents
                            /\ charge'[k].home = charge[k].home,
           order'.schedule = order.schedule,
           \/ order'.status = order.status
           \/ /\ order'.status # "DRAFT"
              /\ order'.status = "CANCELLED" \/ order.status \notin Waiting,
           \A s \in ShipmentIds : shipment'[s].age >= 0 => shipment[s].age >= 0
    PROVE  PlanKept' /\ UpfrontPaid' /\ DispatchPaid' /\ ChargesKnown'
<1>1. Paid' = Paid /\ Upfront' = Upfront /\ UpfrontCents' = UpfrontCents
  BY DEF Paid, Upfront, UpfrontCents
<1>2. order.status = "DRAFT" => \A k \in Kinds : payment[k].status = "NONE"
  BY DEF IInv, ChargesBacked, NoPayment
<1>3. PlanKept'
  BY <1>1, <1>2 DEF BooksInv, PlanKept, Kinds
<1>4. UpfrontPaid'
  BY <1>1 DEF BooksInv, UpfrontPaid, Waiting
<1>5. DispatchPaid'
  BY <1>1 DEF BooksInv, DispatchPaid, Waiting
<1>6. ChargesKnown'
  BY <1>1 DEF BooksInv, ChargesKnown
<1> QED BY <1>3, <1>4, <1>5, <1>6

\* If they refund nothing either, and bill nothing, they keep all of it.
LEMMA BooksFrame ==
    ASSUME IInv, BooksInv,
           PlanKept' /\ UpfrontPaid' /\ DispatchPaid' /\ ChargesKnown',
           \A k \in Kinds : /\ payment'[k].status = payment[k].status
                            /\ charge'[k].refunded = charge[k].refunded,
           ledger'.refund = ledger.refund, ledger'.partial = ledger.partial,
           lost' = 0 => lost = 0,
           invoice'["COMMERCIAL"] = invoice["COMMERCIAL"],
           OpenedInTime'
    PROVE  BooksInv'
<1>1. RefundsBooked' = RefundsBooked /\ RefundsMade' = RefundsMade
  BY DEF RefundsBooked, RefundsMade, Cents, Kinds
<1>2. RefundsAgree'
  BY <1>1 DEF BooksInv, RefundsAgree
<1>3. InvoiceTracksBalance'
  BY DEF BooksInv, InvoiceTracksBalance, Kinds
<1> QED BY <1>2, <1>3 DEF BooksInv

LEMMA OpenedFrame ==
    ASSUME BooksInv, dispute' = dispute
    PROVE  OpenedInTime'
  BY DEF BooksInv, OpenedInTime, ActiveDisputes

-----------------------------------------------------------------------------
(* The steps, by what they do *)

\* Production and delivery, days and crashes: no money moves.
LEMMA QuietBooks ==
    ASSUME IInv, BooksInv,
           \/ startProduction \/ completeProduction
           \/ \E s \in ShipmentIds :
                createShipment(s) \/ confirmDelivery(s) \/ confirmDeliveryReplay(s)
           \/ tick \/ crash
           \/ \E k \in Kinds : payRolledBack(k)
           \/ UNCHANGED vars
    PROVE  BooksInv' /\ CancelStep
<1> DEFINE Still ==
      /\ UNCHANGED <<invoice, dispute, ledger, charge>>
      /\ \A k \in Kinds : /\ payment'[k].status = payment[k].status
                          /\ payment'[k].amountCents = payment[k].amountCents
      /\ lost' = 0 => lost = 0
      /\ \A s \in ShipmentIds : shipment'[s].age >= 0 => shipment[s].age >= 0
      /\ order'.schedule = order.schedule
      /\ \/ order'.status = order.status
         \/ order'.status \notin {"DRAFT", "CANCELLED"} /\ order.status \notin Waiting
<1>1. SUFFICES Still
  <2> SUFFICES ASSUME Still PROVE BooksInv' /\ CancelStep
    OBVIOUS
  <2>1. PlanKept' /\ UpfrontPaid' /\ DispatchPaid' /\ ChargesKnown'
    BY RowsFrame
  <2>2. OpenedInTime'
    BY OpenedFrame
  <2> QED BY <2>1, <2>2, BooksFrame DEF CancelStep
<1>2. CASE startProduction
  <2>1. PICK to \in OrderStatus : /\ Accepts("START_PRODUCTION", to)
                                  /\ order' = OrderRow(to, order.schedule, "IN_PRODUCTION")
    BY <1>2 DEF startProduction
  <2> QED BY <1>2, <2>1, LaterMoves DEF IInv, startProduction, OrderRow, OrderEvent
<1>3. CASE completeProduction
  <2>1. PICK to \in OrderStatus : /\ Accepts("COMPLETE_PRODUCTION", to)
                                  /\ order' = OrderRow(to, order.schedule, "READY_TO_SHIP")
    BY <1>3 DEF completeProduction
  <2> QED BY <1>3, <2>1, LaterMoves DEF IInv, completeProduction, OrderRow, OrderEvent
<1>4. ASSUME NEW s \in ShipmentIds, createShipment(s) PROVE Still
  BY <1>4 DEF IInv, TypeOK, createShipment, NotShipped
<1>5. ASSUME NEW s \in ShipmentIds, confirmDelivery(s) PROVE Still
  <2>1. PICK to \in OrderStatus : /\ Accepts("DELIVER", to)
                                  /\ order' = OrderRow(to, order.schedule, "DELIVERED")
    BY <1>5 DEF confirmDelivery
  <2>2. \A t \in ShipmentIds : shipment'[t].age = shipment[t].age
    BY <1>5 DEF IInv, TypeOK, confirmDelivery
  <2> QED BY <1>5, <2>1, <2>2, LaterMoves DEF IInv, confirmDelivery, OrderRow, OrderEvent
<1>6. ASSUME NEW s \in ShipmentIds, confirmDeliveryReplay(s) PROVE Still
  BY <1>6 DEF confirmDeliveryReplay, rows
<1>7. CASE tick
  <2>1. \A s \in ShipmentIds : shipment'[s].age >= 0 => shipment[s].age >= 0
    <3>1. shipment' = [s \in ShipmentIds |->
                         IF shipment[s].age \in 0..(Net30Days - 1)
                         THEN [shipment[s] EXCEPT !.age = @ + 1] ELSE shipment[s]]
      BY <1>7 DEF tick
    <3> QED BY <3>1, DaysAssumption
  <2>2. \A k \in Kinds : /\ payment'[k].status = payment[k].status
                         /\ payment'[k].amountCents = payment[k].amountCents
    <3>1. payment' = [k \in Kinds |-> IF payment[k].due > 0
                                      THEN [payment[k] EXCEPT !.due = @ - 1] ELSE payment[k]]
      BY <1>7 DEF tick
    <3>2. payment \in [Kinds -> [status: {"NONE", "PENDING", "SUCCEEDED", "FAILED"},
                                 amountCents: Nat, due: Nat]]
      BY DEF IInv, TypeOK
    <3> QED BY <3>1, <3>2
  <2> QED BY <1>7, <2>1, <2>2 DEF tick
<1>8. CASE crash
  BY <1>8 DEF crash, rows
<1>9. ASSUME NEW k \in Kinds, payRolledBack(k) PROVE Still
  BY <1>9, MaxLostAssumption DEF payRolledBack, rows, IInv, TypeOK
<1>10. CASE UNCHANGED vars
  BY <1>10 DEF vars, rows
<1> HIDE DEF Still
<1> QED BY <1>2, <1>3, <1>4, <1>5, <1>6, <1>7, <1>8, <1>9, <1>10

\* Shipping asks for the balance, except on Net-30.
LEMMA ShipBooks ==
    ASSUME IInv, BooksInv, NEW s \in ShipmentIds, markShipmentInTransit(s)
    PROVE  BooksInv' /\ CancelStep
<1>1. PICK to \in OrderStatus : /\ Accepts("SHIP", to)
                                /\ order' = OrderRow(to, order.schedule, "SHIPPED")
  BY DEF markShipmentInTransit
<1>2. /\ order.status \notin Waiting /\ to \notin {"DRAFT", "CANCELLED"}
      /\ order.schedule # "DEPOSIT_30_70" \/ "BALANCE" \in Paid
  BY <1>1, LaterMoves DEF IInv, OrderEvent
<1>3. order'.status = to /\ order'.schedule = order.schedule
  BY <1>1 DEF OrderRow
<1>4. UNCHANGED <<payment, invoice, dispute, ledger, charge, lost>>
  BY DEF markShipmentInTransit
<1>5. Paid' = Paid /\ Upfront' = Upfront /\ UpfrontCents' = UpfrontCents
  BY <1>3, <1>4 DEF Paid, Upfront, UpfrontCents
<1>6. PlanKept' /\ UpfrontPaid' /\ ChargesKnown'
  BY <1>2, <1>3, <1>4, <1>5 DEF BooksInv, PlanKept, UpfrontPaid, ChargesKnown, Waiting
<1>7. DispatchPaid'
  BY <1>2, <1>3, <1>5 DEF BooksInv, DispatchPaid, UpfrontPaid, Waiting
<1>8. BooksInv'
  BY <1>4, <1>6, <1>7, OpenedFrame, BooksFrame
<1> QED BY <1>2, <1>3, <1>8 DEF CancelStep

\* #schedulePayment of a single item.
LEMMA OneScheduled ==
    ASSUME NEW kind \in Kinds, NEW cents, NEW due
    PROVE  Scheduled({[kind |-> kind, amountCents |-> cents]}, due) =
             [k \in Kinds |-> IF k = kind
                              THEN [status |-> "PENDING", due |-> due, amountCents |-> cents]
                              ELSE payment[k]]
<1> DEFINE item == [kind |-> kind, amountCents |-> cents]
<1>1. ASSUME NEW k \in Kinds
      PROVE  /\ (\E m \in {item} : m.kind = k) <=> k = kind
             /\ k = kind => (CHOOSE m \in {item} : m.kind = k).amountCents = cents
  <2>1. item.kind = kind /\ item.amountCents = cents
    OBVIOUS
  <2>2. \A m \in {item} : m = item
    OBVIOUS
  <2> HIDE DEF item
  <2>3. k = kind => (CHOOSE m \in {item} : m.kind = k) = item
    BY <2>1, <2>2
  <2> QED BY <2>1, <2>2, <2>3
<1> QED BY <1>1 DEF Scheduled

\* Placement: the plan's one payment, and production at once only on Net-30.
LEMMA ConfirmBooks ==
    ASSUME IInv, BooksInv, NEW s \in Schedules, confirmOrder(s)
    PROVE  BooksInv' /\ CancelStep
<1>0. s \in PaymentSchedule
  BY SchedulesAssumption
<1>1. PICK to \in OrderStatus :
         /\ orderTransition(Snapshot(s, FALSE), "PLACE", to)
         /\ order' = OrderRow(to, s, "PENDING")
  BY DEF confirmOrder, OrderRow, Snapshot, orderTransition
<1>2. to = IF s = "NET_30" THEN "IN_PRODUCTION" ELSE "DEPOSIT_DUE"
  <2>1. <<"DRAFT", "PLACE", to>> \in PlainMoves \cup GatedMoves(Snapshot(s, FALSE))
    BY <1>1 DEF orderTransition, Snapshot, confirmOrder
  <2>2. Snapshot(s, FALSE).paymentSchedule = s
    BY DEF Snapshot
  <2> QED BY <2>1, <2>2 DEF PlainMoves, GatedMoves, CANCELABLE_STATUSES, DISPUTABLE_STATUSES
<1>3. /\ order.status = "DRAFT" /\ order'.status = to /\ order'.schedule = s
      /\ UNCHANGED <<dispute, shipment, ledger, charge, lost>>
      /\ invoice'["COMMERCIAL"] = invoice["COMMERCIAL"]
  BY <1>1 DEF confirmOrder, OrderRow, IInv, TypeOK
<1>4. \A k \in Kinds : payment[k].status = "NONE"
  BY <1>3 DEF IInv, ChargesBacked, NoPayment
<1>5. IF s = "NET_30"
      THEN payment' = payment
      ELSE payment' = [k \in Kinds |->
                         IF k = Upfront'
                         THEN [status |-> "PENDING", due |-> 0, amountCents |-> UpfrontCents']
                         ELSE payment[k]]
  <2>1. payment' = Scheduled(upfrontPlan(s, TotalCents), 0)
    BY DEF confirmOrder
  <2>2. CASE s = "NET_30"
    <3>1. upfrontPlan(s, TotalCents) = {}
      BY <2>2 DEF upfrontPlan
    <3>2. payment' = [k \in Kinds |-> payment[k]]
      BY <2>1, <3>1 DEF Scheduled
    <3> QED BY <2>2, <3>2 DEF IInv, TypeOK
  <2>3. CASE s # "NET_30"
    <3>1. upfrontPlan(s, TotalCents) = {[kind |-> Upfront', amountCents |-> UpfrontCents']}
      BY <1>0, <1>3, <2>3 DEF upfrontPlan, Upfront, UpfrontCents, PaymentSchedule
    <3>2. Upfront' \in Kinds
      BY DEF Upfront, Kinds
    <3> QED BY <2>1, <2>3, <3>1, <3>2, OneScheduled
  <2> QED BY <2>2, <2>3
<1>6. \A k \in Kinds : /\ payment'[k].status # "SUCCEEDED"
                       /\ payment'[k].status # "NONE" =>
                            /\ s # "NET_30"
                            /\ k = Upfront'
                            /\ payment'[k].amountCents = UpfrontCents'
  BY <1>4, <1>5
<1>7. Upfront' # "BALANCE"
  BY DEF Upfront
<1>8. Paid = {} /\ Paid' = {}
  BY <1>4, <1>6 DEF Paid
<1>9. PlanKept'
  BY <1>3, <1>6, <1>7 DEF PlanKept, Kinds
<1>10. UpfrontPaid' /\ DispatchPaid' /\ ChargesKnown'
  BY <1>2, <1>3, <1>8 DEF BooksInv, UpfrontPaid, DispatchPaid, ChargesKnown
<1>11. RefundsAgree'
  BY <1>3 DEF BooksInv, RefundsAgree, RefundsBooked, RefundsMade
<1>12. InvoiceTracksBalance'
  <2>1. payment'["BALANCE"].status = "NONE" /\ payment["BALANCE"].status = "NONE"
    BY <1>4, <1>6, <1>7 DEF Kinds
  <2> QED BY <1>3, <2>1 DEF BooksInv, InvoiceTracksBalance
<1>13. CancelStep
  BY <1>2, <1>3 DEF CancelStep
<1> QED BY <1>3, <1>9, <1>10, <1>11, <1>12, <1>13, OpenedFrame DEF BooksInv

\* A capture is the first of its payment.
LEMMA PayBooks ==
    ASSUME IInv, BooksInv, NEW k \in Kinds, NEW home \in {"web", "job"},
           payScheduledPayment(k, home),
           home = "job" => k = "BALANCE" /\ order.schedule = "NET_30"
    PROVE  BooksInv' /\ CancelStep
<1>1. /\ payment[k].status \in {"PENDING", "FAILED"}
      /\ order.status # "DRAFT"
  <2>1. payment[k].status \in {"PENDING", "FAILED"}
    BY DEF payScheduledPayment, Payable
  <2> QED BY <2>1 DEF IInv, ChargesBacked, NoPayment
<1>2. \A j \in Kinds : /\ payment'[j].amountCents = payment[j].amountCents
                       /\ payment'[j].status = IF j = k THEN "SUCCEEDED" ELSE payment[j].status
  BY DEF payScheduledPayment, IInv, TypeOK
<1>3. /\ charge[k].refunded = 0
      /\ \A j \in Kinds : /\ charge'[j].refunded = charge[j].refunded
                          /\ charge'[j].home = IF j = k THEN home ELSE charge[j].home
  <2>1. PaidAmount[k] = 0
    BY <1>1 DEF PaidAmount, Paid
  <2>2. charge[k].transferred \in Nat /\ charge[k].refunded \in Nat
    BY Amounts DEF IInv
  <2>3. charge[k].refunded = 0
    BY <2>1, <2>2 DEF IInv, ChargesBacked
  <2> QED BY <2>3 DEF payScheduledPayment, IInv, TypeOK
<1>4. Paid' = Paid \cup {k}
  BY <1>2 DEF Paid
<1>5. /\ order'.schedule = order.schedule
      /\ order'.status = IF k # "BALANCE" /\ order.status = "DEPOSIT_DUE"
                         THEN "DEPOSIT_PAID" ELSE order.status
      /\ UNCHANGED <<dispute, shipment, lost>>
      /\ ledger'.refund = ledger.refund /\ ledger'.partial = ledger.partial
  BY DEF payScheduledPayment, IInv, TypeOK
<1>6. Upfront' = Upfront /\ UpfrontCents' = UpfrontCents
  BY <1>5 DEF Upfront, UpfrontCents
<1>7. PlanKept'
  BY <1>1, <1>2, <1>5, <1>6 DEF BooksInv, PlanKept, Kinds
<1>8. UpfrontPaid'
  <2>1. k # "BALANCE" /\ order.status = "DEPOSIT_DUE" => k = Upfront
    BY <1>1 DEF BooksInv, PlanKept, Kinds
  <2> QED BY <2>1, <1>4, <1>5, <1>6 DEF BooksInv, UpfrontPaid
<1>9. DispatchPaid'
  BY <1>1, <1>4, <1>5, <1>6 DEF BooksInv, DispatchPaid
<1>10. ChargesKnown'
  BY <1>3, <1>4, <1>5 DEF BooksInv, ChargesKnown
<1>11. RefundsAgree'
  <2>1. RefundsBooked' = RefundsBooked /\ RefundsMade' = RefundsMade
    BY <1>3, <1>5 DEF RefundsBooked, RefundsMade, Cents, Kinds
  <2> QED BY <1>5, <2>1 DEF BooksInv, RefundsAgree
<1>12. InvoiceTracksBalance'
  <2>1. invoice' = IF k = "BALANCE" THEN [invoice EXCEPT !["COMMERCIAL"] = "PAID"] ELSE invoice
    BY DEF payScheduledPayment, SettledInvoice
  <2> QED BY <1>2, <2>1 DEF BooksInv, InvoiceTracksBalance, IInv, TypeOK, Kinds
<1>13. CancelStep
  BY <1>5 DEF CancelStep
<1> QED BY <1>5, <1>7, <1>8, <1>9, <1>10, <1>11, <1>12, <1>13, OpenedFrame DEF BooksInv

\* The balance is what the first payment left over.
LEMMA BalanceBooks ==
    ASSUME IInv, BooksInv, issueBalance
    PROVE  BooksInv' /\ CancelStep
<1> DEFINE rest == TotalCents - PaidCents
           item == [kind |-> "BALANCE", amountCents |-> rest]
<1>1. /\ payment["BALANCE"].status = "NONE"
      /\ UNCHANGED <<dispute, shipment, ledger, charge, lost>>
      /\ order'.schedule = order.schedule
      /\ order.schedule # "FULL_PREPAY"
  BY DEF issueBalance, BalanceIssuable, IInv, TypeOK
<1>2. \/ order.schedule = "DEPOSIT_30_70" /\ order.status = "READY_TO_SHIP"
         /\ order'.status = "BALANCE_DUE"
      \/ order.schedule = "NET_30" /\ order.status = "SHIPPED" /\ order'.status = "SHIPPED"
  <2>1. CASE order.schedule = "DEPOSIT_30_70"
    <3>1. Accepts("ISSUE_BALANCE", "BALANCE_DUE") /\ order' = [order EXCEPT !.status = "BALANCE_DUE"]
      BY <2>1 DEF issueBalance, BalanceIssuable
    <3>2. order.status = "READY_TO_SHIP"
      BY <3>1 DEF IInv, TypeOK, Accepts, orderTransition, PlainMoves, GatedMoves, Snapshot,
                  CANCELABLE_STATUSES, DISPUTABLE_STATUSES, LEGAL_DISPUTE_RESOLUTIONS
    <3> QED BY <2>1, <3>1, <3>2 DEF IInv, TypeOK
  <2>2. CASE order.schedule # "DEPOSIT_30_70"
    BY <2>2 DEF issueBalance, BalanceIssuable
  <2> QED BY <2>1, <2>2
<1>3. "BALANCE" \in Kinds
  BY DEF Kinds
<1>4. \/ UNCHANGED <<payment, invoice>>
      \/ /\ payment' = [k \in Kinds |->
                          IF k = "BALANCE"
                          THEN [status |-> "PENDING", due |-> BalanceDue, amountCents |-> rest]
                          ELSE payment[k]]
         /\ invoice' = [invoice EXCEPT !["COMMERCIAL"] = "ISSUED"]
  <2> DEFINE plan == balancePlan(order.schedule, TotalCents, PaidCents)
  <2>1. /\ payment' = Scheduled(plan, BalanceDue)
        /\ invoice' = IF plan = {} THEN invoice ELSE [invoice EXCEPT !["COMMERCIAL"] = "ISSUED"]
    BY DEF issueBalance
  <2>2. plan = {} \/ plan = {item}
    BY DEF balancePlan
  <2>3. CASE plan = {}
    <3> HIDE DEF plan
    <3>1. payment' = [k \in Kinds |-> payment[k]]
      BY <2>1, <2>3 DEF Scheduled
    <3> QED BY <2>1, <2>3, <3>1 DEF IInv, TypeOK
  <2>4. CASE plan = {item}
    <3> HIDE DEF plan, rest
    <3>1. Scheduled({item}, BalanceDue) =
            [k \in Kinds |-> IF k = "BALANCE"
                             THEN [status |-> "PENDING", due |-> BalanceDue, amountCents |-> rest]
                             ELSE payment[k]]
      BY <1>3, OneScheduled
    <3>2. invoice' = [invoice EXCEPT !["COMMERCIAL"] = "ISSUED"]
      <4>1. plan # {}
        BY <2>4
      <4> QED BY <2>1, <4>1
    <3> QED BY <2>1, <2>4, <3>1, <3>2
  <2> QED BY <2>2, <2>3, <2>4
<1>5. order.schedule = "DEPOSIT_30_70" => PaidCents = UpfrontCents
  <2> SUFFICES ASSUME order.schedule = "DEPOSIT_30_70" PROVE PaidCents = UpfrontCents
    OBVIOUS
  <2>1. Upfront \in Paid /\ Upfront \in {"DEPOSIT", "FULL"}
    BY <1>2 DEF BooksInv, UpfrontPaid, Upfront
  <2>2. PaidAmount[Upfront] = UpfrontCents
    BY <1>2, <2>1 DEF BooksInv, PlanKept, PaidAmount, Paid
  <2>3. \A k \in Kinds : k # Upfront => PaidAmount[k] = 0
    BY <1>1, <2>1 DEF IInv, ChargesBacked, PaidAmount, Paid, Kinds
  <2>4. UpfrontCents \in Nat
    BY <2>1, <2>2, Amounts DEF IInv, Kinds
  <2>5. PaidAmount["DEPOSIT"] + PaidAmount["FULL"] + PaidAmount["BALANCE"] = UpfrontCents
    BY <2>1, <2>2, <2>3, <2>4 DEF Kinds
  <2> QED BY <2>5 DEF PaidCents, Cents
<1>6. /\ \A k \in {"DEPOSIT", "FULL"} : payment'[k] = payment[k]
      /\ payment'["BALANCE"].status \in {"NONE", "PENDING"}
      /\ payment'["BALANCE"].status = "PENDING" => payment'["BALANCE"].amountCents = rest
  <2> HIDE DEF rest, item
  <2> QED BY <1>1, <1>4 DEF Kinds
<1>7. Paid' = Paid /\ Upfront' = Upfront /\ UpfrontCents' = UpfrontCents
  BY <1>1, <1>6 DEF Paid, Kinds, Upfront, UpfrontCents
<1>8. PlanKept'
  <2>1. order.status # "DRAFT"
    BY <1>2
  <2>2. \A k \in {"DEPOSIT", "FULL"} : payment'[k].status # "NONE" =>
             /\ order'.schedule # "NET_30"
             /\ k = Upfront'
             /\ payment'[k].amountCents = UpfrontCents'
    BY <1>1, <1>6, <1>7, <2>1 DEF BooksInv, PlanKept
  <2>3. order'.schedule = "DEPOSIT_30_70" /\ payment'["BALANCE"].status # "NONE" =>
          payment'["BALANCE"].amountCents = TotalCents - UpfrontCents'
    BY <1>1, <1>5, <1>6, <1>7
  <2> QED BY <1>1, <2>2, <2>3 DEF PlanKept
<1>9. UpfrontPaid' /\ DispatchPaid' /\ ChargesKnown'
  BY <1>1, <1>2, <1>7 DEF BooksInv, UpfrontPaid, DispatchPaid, ChargesKnown
<1>10. RefundsAgree'
  BY <1>1 DEF BooksInv, RefundsAgree, RefundsBooked, RefundsMade
<1>11. InvoiceTracksBalance'
  <2> HIDE DEF rest, item
  <2>1. CASE UNCHANGED <<payment, invoice>>
    BY <2>1 DEF BooksInv, InvoiceTracksBalance
  <2>2. CASE payment'["BALANCE"].status = "PENDING" /\ invoice'["COMMERCIAL"] = "ISSUED"
    BY <2>2 DEF InvoiceTracksBalance
  <2>3. invoice \in [{"PRO_FORMA", "COMMERCIAL", "CREDIT_NOTE"} -> {"NONE", "ISSUED", "PAID"}]
    BY DEF IInv, TypeOK
  <2> QED BY <1>3, <1>4, <2>1, <2>2, <2>3
<1>12. CancelStep
  BY <1>2 DEF CancelStep
<1> QED BY <1>1, <1>8, <1>9, <1>10, <1>11, <1>12, OpenedFrame DEF BooksInv

\* A dispute holds an order that has its first payment, and hands it back to
\* where it was, or to delivery.
LEMMA DisputeBooks ==
    ASSUME IInv, BooksInv, NEW d \in DisputeIds,
           openDispute(d) \/ startReview(d) \/ withdraw(d) \/ resolveBackToDelivered(d)
    PROVE  BooksInv' /\ CancelStep
<1>0. /\ dispute \in [DisputeIds -> [status: DisputeStatus \cup {"NONE"}, pre: OrderStatus]]
      /\ order \in [status: OrderStatus, schedule: PaymentSchedule,
                    leg: {"NONE", "PENDING", "IN_PRODUCTION", "READY_TO_SHIP",
                          "SHIPPED", "DELIVERED"}]
  BY DEF IInv, TypeOK
<1> DEFINE Still ==
      /\ UNCHANGED <<payment, shipment, ledger, charge, lost>>
      /\ invoice' = invoice
      /\ order'.schedule = order.schedule
      /\ \/ order'.status = order.status
         \/ order'.status \notin {"DRAFT", "CANCELLED"} /\ order.status \notin Waiting
      /\ OpenedInTime'
<1>1. SUFFICES Still
  <2> SUFFICES ASSUME Still PROVE BooksInv' /\ CancelStep
    OBVIOUS
  <2>1. PlanKept' /\ UpfrontPaid' /\ DispatchPaid' /\ ChargesKnown'
    BY RowsFrame
  <2> QED BY <2>1, BooksFrame DEF CancelStep
<1>2. CASE openDispute(d)
  <2>1. PICK to \in OrderStatus : /\ Accepts("OPEN_DISPUTE", to)
                                  /\ order' = [order EXCEPT !.status = to]
    BY <1>2 DEF openDispute
  <2>2. order.status \in DISPUTABLE_STATUSES /\ order.status \notin Waiting /\ to = "DISPUTED"
    BY <2>1, LaterMoves DEF IInv, OrderEvent
  <2>3. dispute' = [dispute EXCEPT ![d] = [status |-> "OPEN", pre |-> order.status]]
    BY <1>2 DEF openDispute
  <2>4. \A e \in DisputeIds : IF e = d THEN dispute'[e].pre = order.status
                                       ELSE dispute'[e] = dispute[e]
    BY <1>0, <2>3
  <2>5. OpenedInTime'
    BY <2>2, <2>4 DEF BooksInv, OpenedInTime, ActiveDisputes
  <2>6. order'.status = "DISPUTED" /\ order'.schedule = order.schedule
    BY <1>0, <2>1, <2>2
  <2> QED BY <1>2, <2>2, <2>5, <2>6 DEF openDispute
<1>3. CASE startReview(d)
  <2>1. dispute' = [dispute EXCEPT ![d].status = "UNDER_REVIEW"] /\ d \in ActiveDisputes
    BY <1>3 DEF startReview, disputeTransition, ActiveDisputes
  <2>2. \A e \in DisputeIds : /\ dispute'[e].pre = dispute[e].pre
                              /\ e # d => dispute'[e].status = dispute[e].status
    BY <1>0, <2>1
  <2>3. OpenedInTime'
    BY <2>1, <2>2 DEF BooksInv, OpenedInTime, ActiveDisputes
  <2> QED BY <1>3, <2>3 DEF startReview
<1>4. CASE withdraw(d)
  <2>1. d \in ActiveDisputes /\ dispute' = [dispute EXCEPT ![d].status = "WITHDRAWN"]
    BY <1>4 DEF withdraw, disputeTransition, ActiveDisputes
  <2>2. \A e \in DisputeIds : /\ dispute'[e].pre = dispute[e].pre
                              /\ e # d => dispute'[e].status = dispute[e].status
    BY <1>0, <2>1
  <2>3. OpenedInTime'
    BY <2>1, <2>2 DEF BooksInv, OpenedInTime, ActiveDisputes
  <2>4. order.status = "DISPUTED" /\ dispute[d].pre \in DISPUTABLE_STATUSES
    BY <2>1 DEF IInv, ActiveDisputeFreezesOrder, BooksInv, OpenedInTime
  <2>5. \/ order' = order
        \/ /\ order' = [order EXCEPT !.status = dispute[d].pre]
           /\ dispute[d].pre \in LEGAL_DISPUTE_RESOLUTIONS
    BY <1>4 DEF withdraw
  <2>6. /\ order'.schedule = order.schedule
        /\ order' # order => order'.status \notin {"DRAFT", "CANCELLED"}
    BY <1>0, <2>4, <2>5 DEF DISPUTABLE_STATUSES
  <2> QED BY <1>4, <2>3, <2>4, <2>6 DEF withdraw, Waiting
<1>5. CASE resolveBackToDelivered(d)
  <2>1. resolveTo(d, "DELIVERED") /\ UNCHANGED <<ledger, invoice, charge>>
    BY <1>5 DEF resolveBackToDelivered
  <2>2. /\ ActiveDisputes' = {} /\ order.status = "DISPUTED" /\ order'.status = "DELIVERED"
        /\ UNCHANGED <<payment, shipment, lost>>
    BY <2>1, ResolveEnds DEF LEGAL_DISPUTE_RESOLUTIONS
  <2>3. order'.schedule = order.schedule
    BY <1>0, <2>1 DEF resolveTo
  <2> QED BY <2>1, <2>2, <2>3 DEF OpenedInTime, Waiting
<1> HIDE DEF Still
<1> QED BY <1>2, <1>3, <1>4, <1>5

-----------------------------------------------------------------------------
(* Refunds, releases and settlements *)

\* The adapter's refunds grow by what it is asked, and nothing else does.
LEMMA RefundsGrow ==
    ASSUME IInv, NEW want \in [Kinds -> Nat], charge' = Refunded(want)
    PROVE  /\ RefundsMade' = RefundsMade + Cents(want)
           /\ RefundsMade \in Nat /\ Cents(want) \in Nat
           /\ \A k \in Kinds : charge'[k].home = charge[k].home
<1>1. charge \in [Kinds -> [captured: Nat, transferred: Nat, refunded: Nat,
                            home: {"NONE", "web", "job"}]]
  BY DEF IInv, TypeOK
<1>2. \A k \in Kinds : /\ charge'[k].refunded = charge[k].refunded + want[k]
                       /\ charge'[k].home = charge[k].home
                       /\ charge[k].refunded \in Nat /\ want[k] \in Nat
  BY <1>1 DEF Refunded
<1> DEFINE before == [k \in Kinds |-> charge[k].refunded]
           after == [k \in Kinds |-> charge'[k].refunded]
<1>3. \A k \in Kinds : before[k] \in Nat /\ after[k] = before[k] + want[k] /\ want[k] \in Nat
  BY <1>2
<1>4. RefundsMade = Cents(before) /\ RefundsMade' = Cents(after)
  BY DEF RefundsMade, Cents
<1> HIDE DEF before, after
<1>5. Cents(after) = Cents(before) + Cents(want) /\ Cents(before) \in Nat /\ Cents(want) \in Nat
  BY <1>3 DEF Cents, Kinds
<1> QED BY <1>2, <1>4, <1>5

\* Steps that leave the rows of RowsFrame alone and book what they refund.
LEMMA RefundFrame ==
    ASSUME IInv, BooksInv, UNCHANGED <<payment, shipment, lost>>,
           NEW want \in [Kinds -> Nat], charge' = Refunded(want),
           RefundsBooked' = RefundsBooked + Cents(want), RefundsBooked \in Nat,
           order'.schedule = order.schedule,
           order'.status \notin {"DRAFT"},
           order'.status = "CANCELLED" \/ order.status \notin Waiting,
           invoice'["COMMERCIAL"] = invoice["COMMERCIAL"],
           OpenedInTime'
    PROVE  BooksInv'
<1>1. /\ RefundsMade' = RefundsMade + Cents(want)
      /\ RefundsMade \in Nat /\ Cents(want) \in Nat
      /\ \A k \in Kinds : charge'[k].home = charge[k].home
  BY RefundsGrow
<1>2. PlanKept' /\ UpfrontPaid' /\ DispatchPaid' /\ ChargesKnown'
  BY <1>1, RowsFrame
<1>3. RefundsAgree'
  BY <1>1 DEF BooksInv, RefundsAgree
<1>4. InvoiceTracksBalance'
  BY DEF BooksInv, InvoiceTracksBalance
<1> QED BY <1>2, <1>3, <1>4 DEF BooksInv

\* Full refunds, of a cancellation or of a resolution.
LEMMA FullRefundBooks ==
    ASSUME IInv, BooksInv,
           cancelOrder \/ \E d \in DisputeIds : resolveRefundFull(d)
    PROVE  BooksInv' /\ CancelStep
<1>1. Held' = 0
  BY CancelSteps, FullResolutionSteps
<1>2. FullRefund \in [Kinds -> Nat]
  BY RefundPlans DEF IInv
<1>3. /\ refundPayments(FullRefund)
      /\ UNCHANGED <<payment, shipment, lost>>
      /\ order'.status = "CANCELLED" /\ order'.schedule = order.schedule
      /\ invoice'["COMMERCIAL"] = invoice["COMMERCIAL"]
      /\ OpenedInTime'
  <2>1. CASE cancelOrder
    <3>1. PICK to \in OrderStatus : Accepts("CANCEL", to) /\ order' = [order EXCEPT !.status = to]
      BY <2>1 DEF cancelOrder
    <3>2. to = "CANCELLED"
      BY <3>1, AcceptedMoves DEF IInv, OrderEvent
    <3> QED BY <2>1, <3>1, <3>2, OpenedFrame DEF cancelOrder, IInv, TypeOK
  <2>2. ASSUME NEW d \in DisputeIds, resolveRefundFull(d)
        PROVE  /\ refundPayments(FullRefund)
               /\ UNCHANGED <<payment, shipment, lost>>
               /\ order'.status = "CANCELLED" /\ order'.schedule = order.schedule
               /\ invoice'["COMMERCIAL"] = invoice["COMMERCIAL"]
               /\ OpenedInTime'
    <3>1. /\ resolveTo(d, "CANCELLED") /\ refundPayments(FullRefund)
          /\ invoice' = [invoice EXCEPT !["CREDIT_NOTE"] = "ISSUED"]
      BY <2>2 DEF resolveRefundFull
    <3>2. /\ ActiveDisputes' = {} /\ order'.status = "CANCELLED"
          /\ UNCHANGED <<payment, shipment, lost>>
      BY <3>1, ResolveEnds DEF LEGAL_DISPUTE_RESOLUTIONS
    <3>3. order'.schedule = order.schedule
      BY <3>1 DEF resolveTo, IInv, TypeOK
    <3> QED BY <3>1, <3>2, <3>3 DEF OpenedInTime, IInv, TypeOK
  <2> QED BY <2>1, <2>2
<1>4. /\ charge' = Refunded(FullRefund)
      /\ RefundsBooked' = RefundsBooked + Cents(FullRefund) /\ RefundsBooked \in Nat
  <2>1. /\ charge' = Refunded(FullRefund)
        /\ ledger' = [ledger EXCEPT !.refund = [k \in Kinds |-> @[k] + FullRefund[k]]]
    BY <1>3 DEF refundPayments
  <2> DEFINE after == [k \in Kinds |-> ledger.refund[k] + FullRefund[k]]
             want == FullRefund
  <2>2. ledger'.refund = after /\ ledger'.partial = ledger.partial
    BY <2>1 DEF IInv, TypeOK
  <2>3. \A k \in Kinds : after[k] = ledger.refund[k] + want[k]
    OBVIOUS
  <2>4. \A k \in Kinds : ledger.refund[k] \in Nat /\ want[k] \in Nat
    BY <1>2, Amounts DEF IInv
  <2>5. ledger.partial \in Nat
    BY Amounts DEF IInv
  <2> HIDE DEF after, want
  <2>6. Cents(after) = Cents(ledger.refund) + Cents(want) /\ Cents(ledger.refund) \in Nat
        /\ Cents(want) \in Nat
    BY <2>3, <2>4 DEF Cents, Kinds
  <2>7. RefundsBooked' = Cents(after) + ledger.partial
    BY <2>2 DEF RefundsBooked, Cents
  <2>8. RefundsBooked' = RefundsBooked + Cents(want) /\ RefundsBooked \in Nat
    BY <2>5, <2>6, <2>7 DEF RefundsBooked
  <2> QED BY <2>1, <2>8 DEF want
<1>5. BooksInv'
  BY <1>2, <1>3, <1>4, RefundFrame
<1> QED BY <1>1, <1>5 DEF CancelStep

\* A partial refund is booked once for all its portions.
LEMMA PartialRefundBooks ==
    ASSUME IInv, BooksInv, NEW d \in DisputeIds, NEW amount \in PartialAmounts,
           NEW first \in Kinds, resolveRefundPartial(d, amount, first)
    PROVE  BooksInv' /\ CancelStep
<1> DEFINE portions == PartialRefund(amount, first)
<1>1. /\ resolveTo(d, "PARTIALLY_REFUNDED") /\ charge' = Refunded(portions)
      /\ ledger' = [ledger EXCEPT !.partial = @ + Cents(portions)]
      /\ invoice' = [invoice EXCEPT !["CREDIT_NOTE"] = "ISSUED"]
  BY DEF resolveRefundPartial
<1>2. portions \in [Kinds -> Nat]
  <2>1. amount \in Nat
    BY PartialAssumption
  <2> QED BY <2>1, RefundPlans DEF IInv
<1> HIDE DEF portions
<1>3. /\ ActiveDisputes' = {} /\ order.status = "DISPUTED"
      /\ order'.status = "PARTIALLY_REFUNDED"
      /\ UNCHANGED <<payment, shipment, lost>>
  BY <1>1, ResolveEnds DEF LEGAL_DISPUTE_RESOLUTIONS
<1>4. /\ order'.schedule = order.schedule
      /\ invoice'["COMMERCIAL"] = invoice["COMMERCIAL"]
  BY <1>1 DEF resolveTo, IInv, TypeOK
<1>5. RefundsBooked' = RefundsBooked + Cents(portions) /\ RefundsBooked \in Nat
  <2>1. ledger'.refund = ledger.refund /\ ledger'.partial = ledger.partial + Cents(portions)
    BY <1>1 DEF IInv, TypeOK
  <2>2. Cents(portions) \in Nat
    BY <1>2, CentsNat
  <2>3. Cents(ledger.refund) \in Nat /\ ledger.partial \in Nat
    BY Amounts, CentsNat DEF IInv
  <2>4. RefundsBooked' = Cents(ledger.refund) + (ledger.partial + Cents(portions))
    BY <2>1 DEF RefundsBooked, Cents
  <2> QED BY <2>2, <2>3, <2>4 DEF RefundsBooked
<1>6. BooksInv'
  BY <1>1, <1>2, <1>3, <1>4, <1>5, RefundFrame DEF OpenedInTime, Waiting
<1> QED BY <1>3, <1>6 DEF CancelStep

\* A refund the adapter refuses is the first one asked of it: with no refund
\* lost before, only a charge of another adapter is refused, and such a charge
\* is its order's only one.
LEMMA RefusedAtOnce ==
    ASSUME IInv, BooksInv, order.status \notin Fates, lost = 0,
           NEW want \in [Kinds -> Nat], \A k \in Kinds : want[k] <= PaidAmount[k],
           NEW j \in Kinds, want[j] > 0,
           NEW k \in Kinds, k # j, ~Refundable([Zero EXCEPT ![k] = want[k]])
    PROVE  FALSE
<1>0. \A i \in Kinds : /\ PaidAmount[i] \in Nat /\ charge[i].captured = PaidAmount[i]
                       /\ charge[i].refunded \in Nat /\ charge[i].transferred \in Nat
                       /\ want[i] \in Nat
  BY Amounts DEF IInv, ChargesBacked
<1>1. \A i \in Kinds : charge[i].refunded = 0
  <2>1. RefundsMade = 0
    BY Undecided DEF BooksInv, RefundsAgree, RefundsBooked
  <2> DEFINE made == [i \in Kinds |-> charge[i].refunded]
  <2>2. made \in [Kinds -> Nat] /\ Cents(made) = 0
    BY <1>0, <2>1 DEF RefundsMade
  <2>3. \A i \in Kinds : made[i] = charge[i].refunded
    OBVIOUS
  <2> HIDE DEF made
  <2> QED BY <2>2, <2>3, CentsNat
<1>2. \A i \in Kinds : charge[i].transferred = 0
  BY <1>0, Undecided DEF IInv, TransferOnlyAfterRelease
<1>3. \A i \in Kinds : want[i] <= HeldOn(i)
  BY <1>0, <1>1, <1>2 DEF HeldOn
<1>4. want[k] > 0 /\ charge[k].home # "web"
  <2>1. PICK i \in Kinds : [Zero EXCEPT ![k] = want[k]][i] > 0
                           /\ ~(charge[i].home = "web" /\ [Zero EXCEPT ![k] = want[k]][i] <= HeldOn(i))
    BY DEF Refundable
  <2>2. [Zero EXCEPT ![k] = want[k]][i] = IF i = k THEN want[k] ELSE 0
    BY DEF Zero
  <2> QED BY <1>3, <2>1, <2>2
<1>5. k \in Paid /\ j \in Paid
  BY <1>0, <1>4 DEF PaidAmount
<1>6. charge[k].home = "job"
  BY <1>4, <1>5 DEF BooksInv, ChargesKnown, IInv, TypeOK
<1>7. k = "BALANCE" /\ order.schedule = "NET_30"
  BY <1>6 DEF BooksInv, ChargesKnown
<1>8. j \in {"DEPOSIT", "FULL"} /\ payment[j].status # "NONE" /\ order.status # "DRAFT"
  BY <1>5, <1>7 DEF Kinds, Paid, IInv, ChargesBacked, NoPayment
<1> QED BY <1>7, <1>8 DEF BooksInv, PlanKept

\* Refunds of a transaction that rolled back are on the adapter only.
LEMMA RolledBackBooks ==
    ASSUME IInv, BooksInv, order.status \notin Fates,
           NEW want \in [Kinds -> Nat], \A k \in Kinds : want[k] <= PaidAmount[k],
           refundRolledBack(want)
    PROVE  BooksInv' /\ CancelStep
<1>1. PICK done \in SUBSET {k \in Kinds : want[k] > 0} :
        /\ done # {}
        /\ charge' = Refunded([k \in Kinds |-> IF k \in done THEN want[k] ELSE 0])
        /\ IF \E k \in Kinds \ done : ~Refundable([Zero EXCEPT ![k] = want[k]])
           THEN lost' = lost ELSE lost < MaxLost /\ lost' = lost + 1
        /\ UNCHANGED <<rows, calls, orphan>>
  BY DEF refundRolledBack
<1> DEFINE made == [k \in Kinds |-> IF k \in done THEN want[k] ELSE 0]
<1>2. made \in [Kinds -> Nat] /\ charge' = Refunded(made)
  BY <1>1
<1> HIDE DEF made
<1>3. UNCHANGED <<order, payment, invoice, dispute, shipment, ledger, payout>>
  BY <1>1 DEF rows
<1>4. /\ RefundsMade' = RefundsMade + Cents(made)
      /\ RefundsMade \in Nat /\ Cents(made) \in Nat
      /\ \A k \in Kinds : charge'[k].home = charge[k].home
  BY <1>2, RefundsGrow
<1>5. lost' # 0
  <2>1. lost \in Nat
    BY MaxLostAssumption DEF IInv, TypeOK
  <2>2. CASE \E k \in Kinds \ done : ~Refundable([Zero EXCEPT ![k] = want[k]])
    <3>1. PICK k \in Kinds \ done : ~Refundable([Zero EXCEPT ![k] = want[k]])
      BY <2>2
    <3>2. PICK j \in done : TRUE
      BY <1>1
    <3>3. j \in Kinds /\ want[j] > 0 /\ k # j /\ k \in Kinds
      BY <3>1
    <3>4. lost # 0
      BY <3>1, <3>3, RefusedAtOnce
    <3> QED BY <1>1, <2>2, <3>4
  <2>3. CASE ~\E k \in Kinds \ done : ~Refundable([Zero EXCEPT ![k] = want[k]])
    BY <1>1, <2>1, <2>3
  <2> QED BY <2>2, <2>3
<1>6. RefundsAgree'
  <2>1. RefundsBooked' = RefundsBooked
    BY <1>3 DEF RefundsBooked
  <2>2. RefundsBooked \in Nat
    BY Amounts, CentsNat DEF IInv, RefundsBooked
  <2> QED BY <1>4, <1>5, <2>1, <2>2 DEF BooksInv, RefundsAgree
<1>7. PlanKept' /\ UpfrontPaid' /\ DispatchPaid' /\ ChargesKnown'
  BY <1>3, <1>4, RowsFrame
<1>8. InvoiceTracksBalance'
  BY <1>3 DEF BooksInv, InvoiceTracksBalance
<1> QED BY <1>3, <1>6, <1>7, <1>8, OpenedFrame DEF BooksInv, CancelStep

LEMMA RetriedRefundBooks ==
    ASSUME IInv, BooksInv, cancelRolledBack \/ \E d \in DisputeIds : resolveRolledBack(d)
    PROVE  BooksInv' /\ CancelStep
<1>1. FullRefund \in [Kinds -> Nat] /\ \A k \in Kinds : FullRefund[k] <= PaidAmount[k]
  BY RefundPlans DEF IInv
<1>2. CASE cancelRolledBack
  <2>1. order.status \notin Fates /\ refundRolledBack(FullRefund)
    BY <1>2 DEF cancelRolledBack, CANCELABLE_STATUSES, Fates
  <2> QED BY <1>1, <2>1, RolledBackBooks
<1>3. ASSUME NEW d \in DisputeIds, resolveRolledBack(d)
      PROVE  BooksInv' /\ CancelStep
  <2>1. order.status \notin Fates
    BY <1>3 DEF resolveRolledBack, Fates
  <2>2. CASE refundRolledBack(FullRefund)
    BY <1>1, <2>1, <2>2, RolledBackBooks
  <2>3. ASSUME NEW a \in PartialAmounts, NEW first \in Paid,
               refundRolledBack(PartialRefund(a, first))
        PROVE  BooksInv' /\ CancelStep
    <3>1. a \in Nat /\ first \in Kinds
      BY PartialAssumption DEF Paid
    <3>2. /\ PartialRefund(a, first) \in [Kinds -> Nat]
          /\ \A k \in Kinds : PartialRefund(a, first)[k] <= PaidAmount[k]
      BY <3>1, RefundPlans DEF IInv
    <3> QED BY <2>1, <2>3, <3>2, RolledBackBooks
  <2> QED BY <1>3, <2>2, <2>3 DEF resolveRolledBack
<1> QED BY <1>2, <1>3

\* A release draws on the escrow, not on the charges.
LEMMA ReleaseBooks ==
    ASSUME IInv, BooksInv, releaseEscrow \/ \E d \in DisputeIds : resolveRelease(d)
    PROVE  BooksInv' /\ CancelStep
<1>1. /\ UNCHANGED <<payment, invoice, shipment, charge, lost>>
      /\ ledger' \in {ledger, ReleaseEntries}
      /\ order.status \notin Waiting /\ order'.status = "ESCROW_RELEASED"
      /\ order'.schedule = order.schedule
      /\ OpenedInTime'
  <2>1. CASE releaseEscrow
    <3>1. PICK age \in ReleaseClocks : Decision(age) = "RELEASE"
      BY <2>1 DEF releaseEscrow, ReleasePossible
    <3>2. order.status \in {"SHIPPED", "DELIVERED"}
      BY <3>1 DEF Decision, releaseDecision
    <3>3. PICK delivered \in OrderStatus, to \in OrderStatus :
            /\ orderTransition([Snapshot(order.schedule, FALSE) EXCEPT !.status = delivered],
                               "RELEASE_ESCROW", to)
            /\ order' = [order EXCEPT !.status = to]
      BY <2>1 DEF releaseEscrow, Snapshot, orderTransition
    <3>4. to = "ESCROW_RELEASED"
      BY <3>3 DEF orderTransition, PlainMoves, GatedMoves, Snapshot
    <3> QED BY <2>1, <3>2, <3>3, <3>4, OpenedFrame DEF releaseEscrow, Waiting, IInv, TypeOK
  <2>2. ASSUME NEW d \in DisputeIds, resolveRelease(d)
        PROVE  /\ UNCHANGED <<payment, invoice, shipment, charge, lost>>
               /\ ledger' \in {ledger, ReleaseEntries}
               /\ order.status \notin Waiting /\ order'.status = "ESCROW_RELEASED"
               /\ order'.schedule = order.schedule
               /\ OpenedInTime'
    <3>1. /\ resolveTo(d, "ESCROW_RELEASED") /\ ledger' = ReleaseEntries
          /\ UNCHANGED <<invoice, charge>>
      BY <2>2 DEF resolveRelease
    <3>2. /\ ActiveDisputes' = {} /\ order.status = "DISPUTED"
          /\ order'.status = "ESCROW_RELEASED" /\ UNCHANGED <<payment, shipment, lost>>
      BY <3>1, ResolveEnds DEF LEGAL_DISPUTE_RESOLUTIONS
    <3>3. order'.schedule = order.schedule
      BY <3>1 DEF resolveTo, IInv, TypeOK
    <3> QED BY <3>1, <3>2, <3>3 DEF OpenedInTime, Waiting
  <2> QED BY <2>1, <2>2
<1>2. ledger'.refund = ledger.refund /\ ledger'.partial = ledger.partial
  BY <1>1 DEF ReleaseEntries
<1>3. PlanKept' /\ UpfrontPaid' /\ DispatchPaid' /\ ChargesKnown'
  BY <1>1, RowsFrame
<1> QED BY <1>1, <1>2, <1>3, BooksFrame DEF CancelStep

\* A settlement moves money to the supplier's account and refunds nothing.
LEMMA SettleBooks ==
    ASSUME IInv, BooksInv, settlePayout \/ settlePayoutShort \/ settleRolledBack
    PROVE  BooksInv' /\ CancelStep
<1>1. \E plan : charge' = Transferred(plan)
  BY DEF settlePayout, settlePayoutShort, settleRolledBack
<1>2. \A k \in Kinds : /\ charge'[k].refunded = charge[k].refunded
                       /\ charge'[k].home = charge[k].home
  <2>1. charge \in [Kinds -> [captured: Nat, transferred: Nat, refunded: Nat,
                              home: {"NONE", "web", "job"}]]
    BY DEF IInv, TypeOK
  <2> QED BY <1>1, <2>1 DEF Transferred
<1>3. /\ UNCHANGED <<order, payment, invoice, dispute, shipment, ledger>>
      /\ lost' = lost \/ lost' = lost + 1
  BY DEF settlePayout, settlePayoutShort, settleRolledBack, rows
<1>4. lost' = 0 => lost = 0
  BY <1>3, MaxLostAssumption DEF IInv, TypeOK
<1>5. PlanKept' /\ UpfrontPaid' /\ DispatchPaid' /\ ChargesKnown'
  BY <1>2, <1>3, RowsFrame
<1> QED BY <1>2, <1>3, <1>4, <1>5, OpenedFrame, BooksFrame DEF CancelStep

\* A second transaction that finds nothing to do leaves every row alone.
LEMMA IdleBooks ==
    ASSUME IInv, BooksInv, UNCHANGED <<rows, charge, orphan, lost>>
    PROVE  BooksInv' /\ CancelStep
<1>1. UNCHANGED <<order, payment, invoice, dispute, shipment, ledger, charge, lost>>
  BY DEF rows
<1>2. PlanKept' /\ UpfrontPaid' /\ DispatchPaid' /\ ChargesKnown'
  BY <1>1, RowsFrame
<1> QED BY <1>1, <1>2, OpenedFrame, BooksFrame DEF CancelStep

-----------------------------------------------------------------------------
(* The theorems *)

LEMMA InitBooks == Init => BooksInv
<1> SUFFICES ASSUME Init PROVE BooksInv OBVIOUS
<1>1. /\ order.status = "DRAFT" /\ Paid = {} /\ ActiveDisputes = {}
      /\ \A k \in Kinds : payment[k] = NoPayment /\ charge[k] = NoCharge
  BY DEF Init, Paid, NoPayment, ActiveDisputes, ESCROW_BLOCKING_DISPUTE_STATUSES
<1>2. PlanKept /\ UpfrontPaid /\ ChargesKnown /\ OpenedInTime
  BY <1>1 DEF PlanKept, UpfrontPaid, ChargesKnown, OpenedInTime, NoPayment, NoCharge, Kinds
<1>3. DispatchPaid
  BY DEF Init, DispatchPaid, NotShipped
<1>4. RefundsAgree
  BY DEF Init, RefundsAgree, RefundsBooked, RefundsMade, Cents, Zero, NoCharge, Kinds
<1>5. InvoiceTracksBalance
  BY DEF Init, InvoiceTracksBalance, NoPayment, Kinds
<1> QED BY <1>2, <1>3, <1>4, <1>5 DEF BooksInv

\* Every step keeps the books, and a step that cancels empties the escrow.
LEMMA StepBooks ==
    ASSUME IInv, BooksInv, [Next]_vars
    PROVE  BooksInv' /\ CancelStep
<1>1. CASE UNCHANGED vars
  BY <1>1, QuietBooks
<1>2. CASE Buyer
  <2>1. ASSUME NEW s \in Schedules, confirmOrder(s) PROVE BooksInv' /\ CancelStep
    BY <2>1, ConfirmBooks
  <2>2. ASSUME NEW k \in Kinds, payScheduledPayment(k, "web") PROVE BooksInv' /\ CancelStep
    BY <2>2, PayBooks
  <2>3. ASSUME NEW k \in Kinds, payRolledBack(k) PROVE BooksInv' /\ CancelStep
    BY <2>3, QuietBooks
  <2>4. ASSUME NEW d \in DisputeIds, openDispute(d) \/ withdraw(d) PROVE BooksInv' /\ CancelStep
    BY <2>4, DisputeBooks
  <2>5. CASE cancelOrder
    BY <2>5, FullRefundBooks
  <2>6. CASE cancelRolledBack
    BY <2>6, RetriedRefundBooks
  <2> QED BY <1>2, <2>1, <2>2, <2>3, <2>4, <2>5, <2>6 DEF Buyer
<1>3. CASE Supplier
  <2>1. CASE startProduction \/ completeProduction
    BY <2>1, QuietBooks
  <2>2. CASE issueBalanceInvoice
    BY <2>2, BalanceBooks DEF issueBalanceInvoice
  <2>3. ASSUME NEW s \in ShipmentIds,
               createShipment(s) \/ confirmDelivery(s) \/ confirmDeliveryReplay(s)
        PROVE  BooksInv' /\ CancelStep
    BY <2>3, QuietBooks
  <2>4. ASSUME NEW s \in ShipmentIds, markShipmentInTransit(s) PROVE BooksInv' /\ CancelStep
    BY <2>4, ShipBooks
  <2> QED BY <1>3, <2>1, <2>2, <2>3, <2>4 DEF Supplier
<1>4. CASE Staff
  <2>1. ASSUME NEW d \in DisputeIds, startReview(d) \/ resolveBackToDelivered(d)
        PROVE  BooksInv' /\ CancelStep
    BY <2>1, DisputeBooks
  <2>2. ASSUME NEW d \in DisputeIds, resolveRelease(d) PROVE BooksInv' /\ CancelStep
    BY <2>2, ReleaseBooks
  <2>3. ASSUME NEW d \in DisputeIds, resolveRefundFull(d) PROVE BooksInv' /\ CancelStep
    BY <2>3, FullRefundBooks
  <2>4. ASSUME NEW d \in DisputeIds, NEW a \in PartialAmounts, NEW k \in Kinds,
               resolveRefundPartial(d, a, k)
        PROVE  BooksInv' /\ CancelStep
    BY <2>4, PartialRefundBooks
  <2>5. ASSUME NEW d \in DisputeIds, resolveRolledBack(d) PROVE BooksInv' /\ CancelStep
    BY <2>5, RetriedRefundBooks
  <2>6. CASE settlePayout \/ settlePayoutShort \/ settleRolledBack
    BY <2>6, SettleBooks
  <2> QED BY <1>4, <2>1, <2>2, <2>3, <2>4, <2>5, <2>6 DEF Staff
<1>5. CASE System
  <2>1. CASE sweepEscrowReleases
    BY <2>1, ReleaseBooks DEF sweepEscrowReleases
  <2>2. CASE runNet30Charges
    <3>1. payScheduledPayment("BALANCE", "job") /\ order.schedule = "NET_30"
          /\ "BALANCE" \in Kinds
      BY <2>2 DEF runNet30Charges, Kinds
    <3> QED BY <3>1, PayBooks
  <2>3. CASE runIssueBalanceInvoice
    BY <2>3, BalanceBooks, IdleBooks DEF runIssueBalanceInvoice
  <2>4. CASE runReleaseEscrow
    BY <2>4, ReleaseBooks, IdleBooks DEF runReleaseEscrow
  <2>5. CASE crash \/ tick
    BY <2>5, QuietBooks
  <2> QED BY <1>5, <2>1, <2>2, <2>3, <2>4, <2>5 DEF System
<1> QED BY <1>1, <1>2, <1>3, <1>4, <1>5 DEF Next

\* The books' invariant holds of every order.
THEOREM BooksInductive == Spec => []BooksInv
<1>1. IInv /\ BooksInv /\ [Next]_vars => BooksInv'
  BY StepBooks
<1> QED BY InitBooks, <1>1, Inductive, PTL DEF Spec

\* Every entry of the ledger and every invoice has the charges behind it that
\* it speaks of, and no refund is booked that the adapter did not make.
THEOREM BooksKept == Spec => []BooksFollowCharges
<1>1. IInv /\ BooksInv => BooksFollowCharges
  <2> SUFFICES ASSUME IInv, BooksInv PROVE BooksFollowCharges
    OBVIOUS
  <2>1. \A k \in Kinds : /\ k \in Paid <=> charge[k].home # "NONE"
                         /\ ledger.hold[k] = charge[k].captured
                         /\ ledger.hold[k] = PaidAmount[k]
    BY DEF IInv, OneFate, ChargesBacked, BooksInv, ChargesKnown
  <2>2. LedgerMatchesCharges
    BY <2>1 DEF BooksInv, RefundsAgree, RefundsBooked, RefundsMade, LedgerMatchesCharges
  <2> QED BY <2>2 DEF BooksInv, BooksFollowCharges
<1> QED BY Inductive, BooksInductive, <1>1, PTL

\* Goods leave the dock only fully paid, except on Net-30.
THEOREM PaidBeforeDispatch == Spec => []ShippedOnlyWhenPaid
<1>1. IInv /\ BooksInv => ShippedOnlyWhenPaid
  <2> SUFFICES ASSUME IInv, BooksInv, NEW s \in ShipmentIds, shipment[s].age >= 0,
                      order.schedule # "NET_30"
               PROVE  PaidCents = TotalCents
    BY DEF ShippedOnlyWhenPaid
  <2>1. /\ order.status # "DRAFT" /\ Upfront \in Paid
        /\ order.schedule = "DEPOSIT_30_70" => "BALANCE" \in Paid
    BY DEF BooksInv, DispatchPaid
  <2>2. /\ Upfront \in {"DEPOSIT", "FULL"} /\ payment[Upfront].status = "SUCCEEDED"
        /\ PaidAmount[Upfront] = UpfrontCents /\ UpfrontCents \in Nat
    <3>1. Upfront \in {"DEPOSIT", "FULL"} /\ Upfront \in Kinds
      BY DEF Upfront, Kinds
    <3>2. payment[Upfront].status = "SUCCEEDED" /\ PaidAmount[Upfront] = payment[Upfront].amountCents
      BY <2>1, <3>1 DEF Paid, PaidAmount
    <3>3. payment[Upfront].amountCents = UpfrontCents /\ payment[Upfront].amountCents \in Nat
      BY <2>1, <3>1, <3>2, Amounts DEF BooksInv, PlanKept, IInv
    <3> QED BY <3>1, <3>2, <3>3
  <2>3. \A k \in {"DEPOSIT", "FULL"} : k # Upfront => PaidAmount[k] = 0
    BY <2>2 DEF IInv, ChargesBacked, PaidAmount, Paid, Kinds
  <2>4. order.schedule \in {"FULL_PREPAY", "DEPOSIT_30_70"}
    BY DEF IInv, TypeOK, PaymentSchedule
  <2>5. PaidAmount["BALANCE"] = TotalCents - UpfrontCents
    <3>1. CASE order.schedule = "DEPOSIT_30_70"
      <4>1. PaidAmount["BALANCE"] = payment["BALANCE"].amountCents
            /\ payment["BALANCE"].status # "NONE"
        BY <2>1, <3>1 DEF PaidAmount, Paid, Kinds
      <4> QED BY <3>1, <4>1 DEF BooksInv, PlanKept
    <3>2. CASE order.schedule = "FULL_PREPAY"
      <4>1. PaidAmount["BALANCE"] = 0
        BY <3>2 DEF BooksInv, PlanKept, PaidAmount, Paid, Kinds
      <4>2. UpfrontCents = TotalCents
        BY <3>2 DEF Upfront, UpfrontCents
      <4> QED BY <4>1, <4>2, TotalAssumption
    <3> QED BY <2>4, <3>1, <3>2
  <2>6. PaidAmount["DEPOSIT"] + PaidAmount["FULL"] = UpfrontCents
    BY <2>2, <2>3
  <2> DEFINE up == PaidAmount["DEPOSIT"] + PaidAmount["FULL"]
  <2>7. PaidCents = up + PaidAmount["BALANCE"]
    BY DEF PaidCents, Cents
  <2> HIDE DEF up
  <2> QED BY <2>2, <2>5, <2>6, <2>7, TotalAssumption DEF up
<1> QED BY Inductive, BooksInductive, <1>1, PTL

\* The step that cancels an order leaves nothing of it in escrow.
THEOREM CancellationsRefund == Spec => CancellationRefundsEverything
<1>1. IInv /\ BooksInv /\ [Next]_vars =>
        [order.status # "CANCELLED" /\ order'.status = "CANCELLED" => Held' = 0]_vars
  BY StepBooks DEF CancelStep
<1> QED BY Inductive, BooksInductive, <1>1, PTL DEF Spec, CancellationRefundsEverything

=============================================================================
