---------------------------- MODULE OrderMachine ----------------------------
(***************************************************************************)
(* The pure order and dispute state machines of packages/core:             *)
(* orders/order-machine.ts and trust/dispute-machine.ts.  A machine is a   *)
(* set of legal moves <<from, event, to>>; a repository mutation is legal  *)
(* when its move is in the set that the order's snapshot gives.            *)
(***************************************************************************)
EXTENDS FiniteSets, Naturals

OrderStatus ==
    {"DRAFT", "DEPOSIT_DUE", "DEPOSIT_PAID", "IN_PRODUCTION", "READY_TO_SHIP",
     "BALANCE_DUE", "SHIPPED", "DELIVERED", "DISPUTED", "PARTIALLY_REFUNDED",
     "ESCROW_RELEASED", "CLOSED", "CANCELLED"}

PaymentSchedule == {"FULL_PREPAY", "DEPOSIT_30_70", "NET_30"}

OrderEvent ==
    {"PLACE", "PAY_DEPOSIT", "START_PRODUCTION", "COMPLETE_PRODUCTION",
     "ISSUE_BALANCE", "SHIP", "DELIVER", "RELEASE_ESCROW", "CLOSE", "CANCEL",
     "OPEN_DISPUTE", "RESOLVE_DISPUTE"}

\* What the machine reads of an order: no database handles, only this slice.
OrderSnapshot ==
    [status: OrderStatus, paymentSchedule: PaymentSchedule,
     balancePaid: BOOLEAN, disputeOpen: BOOLEAN]

TERMINAL_ORDER_STATUSES == {"CLOSED", "CANCELLED"}

LEGAL_DISPUTE_RESOLUTIONS ==
    {"SHIPPED", "DELIVERED", "ESCROW_RELEASED", "PARTIALLY_REFUNDED", "CANCELLED"}

CANCELABLE_STATUSES == {"DRAFT", "DEPOSIT_DUE", "DEPOSIT_PAID"}

\* Mutant of DISPUTABLE_STATUSES: a dispute after the release.
DisputableAfterRelease ==
    {"DEPOSIT_PAID", "IN_PRODUCTION", "READY_TO_SHIP", "BALANCE_DUE",
     "SHIPPED", "DELIVERED", "ESCROW_RELEASED"}

DISPUTABLE_STATUSES ==
    {"DEPOSIT_PAID", "IN_PRODUCTION", "READY_TO_SHIP", "BALANCE_DUE",
     "SHIPPED", "DELIVERED"}

-----------------------------------------------------------------------------

\* Moves that depend on the status alone.
PlainMoves ==
       {<<"DEPOSIT_DUE", "PAY_DEPOSIT", "DEPOSIT_PAID">>,
        <<"DEPOSIT_PAID", "START_PRODUCTION", "IN_PRODUCTION">>,
        <<"IN_PRODUCTION", "COMPLETE_PRODUCTION", "READY_TO_SHIP">>,
        <<"SHIPPED", "DELIVER", "DELIVERED">>,
        <<"ESCROW_RELEASED", "CLOSE", "CLOSED">>}
  \cup {<<s, "CANCEL", "CANCELLED">> : s \in CANCELABLE_STATUSES}
  \cup {<<s, "OPEN_DISPUTE", "DISPUTED">> : s \in DISPUTABLE_STATUSES}
  \cup {<<"DISPUTED", "RESOLVE_DISPUTE", s>> : s \in LEGAL_DISPUTE_RESOLUTIONS}

\* Mutant of GatedMoves: the SHIP gate forgets the balance.
GatedMovesUnpaid(o) ==
       {<<"DRAFT", "PLACE",
          IF o.paymentSchedule = "NET_30" THEN "IN_PRODUCTION" ELSE "DEPOSIT_DUE">>,
        <<"READY_TO_SHIP", "ISSUE_BALANCE", "BALANCE_DUE">>,
        <<"READY_TO_SHIP", "SHIP", "SHIPPED">>,
        <<"BALANCE_DUE", "SHIP", "SHIPPED">>}
  \cup {<<s, "RELEASE_ESCROW", "ESCROW_RELEASED">> : s \in {"DELIVERED", "PARTIALLY_REFUNDED"}}

\* Moves the schedule, the paid balance or an open dispute decides.
GatedMoves(o) ==
       {<<"DRAFT", "PLACE",
          IF o.paymentSchedule = "NET_30" THEN "IN_PRODUCTION" ELSE "DEPOSIT_DUE">>}
  \cup (IF o.paymentSchedule = "DEPOSIT_30_70"
        THEN {<<"READY_TO_SHIP", "ISSUE_BALANCE", "BALANCE_DUE">>}
        ELSE {<<"READY_TO_SHIP", "SHIP", "SHIPPED">>})
  \cup (IF o.balancePaid THEN {<<"BALANCE_DUE", "SHIP", "SHIPPED">>} ELSE {})
  \cup (IF o.disputeOpen
        THEN {}
        ELSE {<<s, "RELEASE_ESCROW", "ESCROW_RELEASED">> :
                s \in {"DELIVERED", "PARTIALLY_REFUNDED"}})

\* The move <<o.status, event, to>> is legal for the snapshot o.  Everything
\* else is an IllegalOrderTransitionError, which aborts the caller.
orderTransition(o, event, to) ==
    /\ o.status \notin TERMINAL_ORDER_STATUSES
    /\ <<o.status, event, to>> \in PlainMoves \cup GatedMoves(o)

-----------------------------------------------------------------------------

DisputeStatus == {"OPEN", "UNDER_REVIEW", "RESOLVED", "WITHDRAWN"}

\* Statuses in which a dispute freezes the escrow.
ESCROW_BLOCKING_DISPUTE_STATUSES == {"OPEN", "UNDER_REVIEW"}

\* Legal moves of a dispute row; RESPOND and ATTACH_EVIDENCE are self-loops.
disputeTransition(from, event, to) ==
    /\ from \in ESCROW_BLOCKING_DISPUTE_STATUSES
    /\ \/ event \in {"RESPOND", "ATTACH_EVIDENCE"} /\ to = from
       \/ event = "START_REVIEW" /\ from = "OPEN" /\ to = "UNDER_REVIEW"
       \/ event = "WITHDRAW" /\ to = "WITHDRAWN"
       \/ event = "RESOLVE" /\ to = "RESOLVED"

=============================================================================
