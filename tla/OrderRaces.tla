----------------------------- MODULE OrderRaces -----------------------------
(***************************************************************************)
(* Overlapping calls on one 30/70 order.  OrderEscrow takes a repository   *)
(* call as one step; here a call is a session that reads, then talks to    *)
(* the payments adapter, then commits, and other sessions commit between.  *)
(* #loadForUpdate is a plain SELECT and every UPDATE goes by id, so what   *)
(* protects an order are three things only: the row lock an UPDATE holds   *)
(* until its commit, the unique idempotency keys, and the adapter's own    *)
(* refusal to move more than a charge holds.                               *)
(*                                                                         *)
(* The reads of a call are one step; `over' and `crossed' are history.     *)
(***************************************************************************)
EXTENDS OrderMachine, EscrowMath, Sequences

CONSTANTS
    Sessions,       \* transactions that may be open at once
    TotalCents,     \* the order total
    CommissionBps,
    MaxCharges,     \* bound on captures
    MaxDisputes,    \* no call opens a dispute when there are this many
    MaxCrossed,     \* bound on the pairs of calls that cross
    MaxTorn,        \* bound on calls rolled back after an adapter call
    PartialCents    \* what a mediator may give back of an order

ASSUME RacesAssumption ==
    /\ TotalCents \in Nat /\ CommissionBps \in 0..10000
    /\ {MaxCharges, MaxDisputes, MaxCrossed, MaxTorn} \subseteq Nat
    /\ PartialCents \subseteq Nat \ {0}

Kinds == {"DEPOSIT", "BALANCE"}
Amount(k) == IF k = "DEPOSIT" THEN depositCents(TotalCents)
                              ELSE TotalCents - depositCents(TotalCents)

Pay(k) == IF k = "DEPOSIT" THEN "payDeposit" ELSE "payBalance"

\* The calls that take the order along an edge of its machine.
EventOf ==
    [cancelOrder |-> "CANCEL", openDispute |-> "OPEN_DISPUTE",
     startProduction |-> "START_PRODUCTION",
     completeProduction |-> "COMPLETE_PRODUCTION",
     issueBalanceInvoice |-> "ISSUE_BALANCE", markShipmentInTransit |-> "SHIP",
     confirmDelivery |-> "DELIVER"]

\* Calls whose status update comes before their adapter calls.
LocksFirst == {"payDeposit", "cancelOrder"}
Refunds == {"cancelOrder", "resolveRefund"}
Releases == {"releaseEscrow", "resolveRelease"}
GiveOuts == Releases \cup {"resolvePartial"}
Repays == Refunds \cup {"resolvePartial"}
Closes == {"resolveRelease", "resolveRefund", "resolvePartial", "resolveBack", "withdraw"}

\* Where a resolution takes the order.
Resolution == [resolveRelease |-> "ESCROW_RELEASED", resolveRefund |-> "CANCELLED",
               resolvePartial |-> "PARTIALLY_REFUNDED", resolveBack |-> "DELIVERED"]

\* "respond" stands for attachEvidence and startReview too: each writes back an
\* active status of the dispute it read.
Calls == DOMAIN EventOf \cup Closes \cup {"respond"}
           \cup {"payDeposit", "payBalance", "releaseEscrow", "settlePayout"}

KEEP == "KEEP"     \* the call leaves the status alone
Nobody == "nobody"

VARIABLES
    status,    \* the order row
    payment,   \* its payments: status and the charge recorded
    ledger,    \* escrow entries by key: payments held and refunded, portions of a
               \* partial refund, the release; the cents of the last two
    payout,    \* the payout row
    dispute,   \* dispute rows in order of creation
    charge,    \* charges the adapter captured, in order
    sent,      \* cents in the transfers it made
    session,   \* the open transactions
    holder,    \* the session that holds the order's row lock
    crossed,   \* pairs of calls of which one committed between the other's
               \* read and its commit
    torn,      \* calls that rolled back after the adapter had acted
    stranded   \* payments a cancellation found captured and left unrefunded

rows == <<status, payment, ledger, payout, dispute>>
history == <<crossed, torn, stranded>>
adapter == <<charge, sent>>
vars == <<rows, adapter, session, holder, history>>

Idle == [call |-> "none", from |-> "DRAFT", to |-> KEEP, held |-> 0, row |-> 0,
         todo |-> {}, made |-> {}, left |-> 0, over |-> {}]

Session ==
    [call: Calls \cup {"none"}, from: OrderStatus, to: OrderStatus \cup {KEEP},
     held: Int, row: Nat, todo: SUBSET Kinds, made: SUBSET Kinds, left: Int,
     over: SUBSET Calls]

TypeOK ==
    /\ status \in OrderStatus
    /\ payment \in [Kinds -> [status: {"NONE", "PENDING", "SUCCEEDED"}, charge: Nat]]
    /\ ledger \in [hold: SUBSET Kinds, refund: SUBSET Kinds, released: BOOLEAN,
                   portions: SUBSET [dispute: Nat, kind: Kinds, cents: Nat], out: Int]
    /\ payout \in {"NONE", "PENDING", "PAID"}
    /\ dispute \in Seq([open: BOOLEAN, pre: OrderStatus])
    /\ charge \in Seq([kind: Kinds, refunded: Nat, transferred: Nat])
    /\ sent \in Nat
    /\ session \in [Sessions -> Session]
    /\ holder \in Sessions \cup {Nobody}
    /\ torn \subseteq Calls /\ stranded \subseteq Kinds

\* The buyer has just confirmed a 30/70 order.
Init ==
    /\ status = "DEPOSIT_DUE"
    /\ payment = [k \in Kinds |-> [status |-> IF k = "DEPOSIT" THEN "PENDING" ELSE "NONE",
                                   charge |-> 0]]
    /\ ledger = [hold |-> {}, refund |-> {}, released |-> FALSE, portions |-> {}, out |-> 0]
    /\ payout = "NONE"
    /\ dispute = <<>>
    /\ charge = <<>>
    /\ sent = 0
    /\ session = [s \in Sessions |-> Idle]
    /\ holder = Nobody
    /\ crossed = {}
    /\ torn = {}
    /\ stranded = {}

-----------------------------------------------------------------------------
(* Reading *)

Cents(kinds) == (IF "DEPOSIT" \in kinds THEN Amount("DEPOSIT") ELSE 0)
                + (IF "BALANCE" \in kinds THEN Amount("BALANCE") ELSE 0)
Held == Cents(ledger.hold) - Cents(ledger.refund) - ledger.out
Paid == {k \in Kinds : payment[k].status = "SUCCEEDED"}
OpenDisputes == {d \in DOMAIN dispute : dispute[d].open}

\* #snapshot
Snapshot(from) ==
    [status |-> from, paymentSchedule |-> "DEPOSIT_30_70",
     balancePaid |-> "BALANCE" \in Paid, disputeOpen |-> OpenDisputes # {}]

\* Where orderTransition takes the order, if anywhere.
Landing(from, event) ==
    IF from \in TERMINAL_ORDER_STATUSES THEN {}
    ELSE {move[3] : move \in {m \in PlainMoves \cup GatedMoves(Snapshot(from)) :
                               m[1] = from /\ m[2] = event}}

\* releaseEscrow: SHIPPED is taken through DELIVERED; the window may have passed.
ReleaseLanding ==
    IF \E days \in 0..1 : releaseDecision(status, days, OpenDisputes # {}, 1) = "RELEASE"
    THEN Landing("DELIVERED", "RELEASE_ESCROW") ELSE {}

\* Mutant of PayLanding: a captured payment is not recognised.
PayLandingAgain(k) ==
    IF payment[k].status = "NONE" THEN {}
    ELSE IF k = "DEPOSIT" /\ status = "DEPOSIT_DUE" THEN {"DEPOSIT_PAID"} ELSE {KEEP}

\* payScheduledPayment: a captured payment returns early; only a deposit that
\* is due moves the order, and nothing else is asked of the status.
PayLanding(k) ==
    IF payment[k].status # "PENDING" THEN {}
    ELSE IF k = "DEPOSIT" /\ status = "DEPOSIT_DUE" THEN {"DEPOSIT_PAID"} ELSE {KEEP}

\* Resolutions and withdrawals name an open dispute row.
CloseLanding(call, d) ==
    IF d \notin OpenDisputes THEN {}
    ELSE IF call \in DOMAIN Resolution
         THEN Landing(status, "RESOLVE_DISPUTE") \cap {Resolution[call]}
    ELSE IF status = "DISPUTED" /\ dispute[d].pre \in LEGAL_DISPUTE_RESOLUTIONS
         THEN {dispute[d].pre} ELSE {KEEP}

\* The statuses a call may write, given what it reads now: none when it
\* returns early or throws.
Landings(call, d) ==
    CASE call = "payDeposit" -> PayLanding("DEPOSIT")
      [] call = "payBalance" -> PayLanding("BALANCE")
      [] call = "releaseEscrow" -> ReleaseLanding
      [] call = "settlePayout" -> IF payout = "PENDING" THEN {KEEP} ELSE {}
      [] call = "respond" -> IF d \in OpenDisputes THEN {KEEP} ELSE {}
      [] call \in Closes -> CloseLanding(call, d)
      [] call = "issueBalanceInvoice" /\ payment["BALANCE"].status # "NONE" -> {}
      [] OTHER -> Landing(status, EventOf[call])

Bounded(call) == call = "openDispute" => Len(dispute) < MaxDisputes

\* A partial refund takes the deposit's charge first, then the balance's.
Portion(cents, k) ==
    IF k = "DEPOSIT" THEN Least(cents, Amount(k))
    ELSE Least(cents - Least(cents, Amount("DEPOSIT")), Amount(k))

Given(cents, kinds) == (IF "DEPOSIT" \in kinds THEN Portion(cents, "DEPOSIT") ELSE 0)
                       + (IF "BALANCE" \in kinds THEN Portion(cents, "BALANCE") ELSE 0)

\* A transaction as it is once it has read.
Opened(call, d, cents, to) ==
    [call |-> call, to |-> to, row |-> d,
     from |-> IF call = "openDispute" THEN status ELSE "DRAFT",
     held |-> IF call \in Releases THEN Held ELSE cents,
     todo |-> CASE call \in Refunds -> Paid
                [] call = "resolvePartial" -> {k \in Paid : Portion(cents, k) > 0}
                [] call = "settlePayout" -> Kinds
                [] call = "payDeposit" -> {"DEPOSIT"}
                [] call = "payBalance" -> {"BALANCE"}
                [] OTHER -> {},
     made |-> {}, over |-> {},
     left |-> IF call = "settlePayout" THEN netCents(TotalCents, CommissionBps) ELSE 0]

read(s) ==
    /\ session[s] = Idle
    /\ \E call \in Calls, d \in 0..MaxDisputes, cents \in PartialCents \cup {0} :
         /\ call \in Closes \cup {"respond"} \/ d = 0
         /\ IF call = "resolvePartial" THEN cents \in 1..Cents(Paid) ELSE cents = 0
         /\ Bounded(call)
         /\ \E to \in Landings(call, d) :
              session' = [session EXCEPT ![s] = Opened(call, d, cents, to)]
    /\ UNCHANGED <<rows, adapter, holder, history>>

-----------------------------------------------------------------------------
(* The adapter, one await at a time *)

HeldOn(c) == Amount(charge[c].kind) - charge[c].refunded - charge[c].transferred

\* An UPDATE of the order waits for the session that holds its row.
OrderRowFree(s) == holder \in {Nobody, s}
LockFirst(s) ==
    IF session[s].call \in LocksFirst /\ session[s].to # KEEP
    THEN OrderRowFree(s) /\ holder' = s
    ELSE UNCHANGED holder

Done(s, k) == [session[s] EXCEPT !.todo = @ \ {k}, !.made = @ \cup {k}]

captureCharge(s, k) ==
    /\ session[s].call = Pay(k) /\ k \in session[s].todo
    /\ Len(charge) < MaxCharges
    /\ LockFirst(s)
    /\ charge' = Append(charge, [kind |-> k, refunded |-> 0, transferred |-> 0])
    /\ session' = [session EXCEPT ![s] = [Done(s, k) EXCEPT !.row = Len(charge) + 1]]
    /\ UNCHANGED <<rows, sent, history>>

\* What a refund of the payment k gives back, and whether a refund row stands
\* under its key already: the key names the payment, or the dispute.
Due(s, k) == IF session[s].call = "resolvePartial" THEN Portion(session[s].held, k)
             ELSE Amount(k)
Replayed(s, k) ==
    IF session[s].call = "resolvePartial"
    THEN \E p \in ledger.portions : p.dispute = session[s].row /\ p.kind = k
    ELSE k \in ledger.refund

\* #refundPaymentRow reads the payment and its refund again; a refund that is
\* booked already is not made, one the charge cannot cover throws.
refundCharge(s, k) ==
    LET c == payment[k].charge
    IN  /\ session[s].call \in Repays /\ k \in session[s].todo
        /\ session[s].call = "resolvePartial" /\ k = "BALANCE" => "DEPOSIT" \notin session[s].todo
        /\ LockFirst(s)
        /\ IF Replayed(s, k)
           THEN /\ session' = [session EXCEPT ![s].todo = @ \ {k}]
                /\ UNCHANGED charge
           ELSE /\ HeldOn(c) >= Due(s, k)
                /\ charge' = [charge EXCEPT ![c].refunded = @ + Due(s, k)]
                /\ session' = [session EXCEPT ![s] = Done(s, k)]
        /\ UNCHANGED <<rows, sent, history>>

\* What is left of the payout is drawn from the charge recorded for k, as far
\* as it holds.
transferPortion(s, k) ==
    LET c == payment[k].charge
        portion == Least(HeldOn(c), session[s].left)
    IN  /\ charge' = [charge EXCEPT ![c].transferred = @ + portion]
        /\ sent' = sent + portion
        /\ session' = [session EXCEPT
                         ![s].todo = @ \ {k}, ![s].left = @ - portion,
                         ![s].made = IF portion > 0 THEN @ \cup {k} ELSE @]

\* settlePayout goes through the captured payments in order of creation.
transferToConnectedAccount(s, k) ==
    /\ session[s].call = "settlePayout" /\ k \in session[s].todo
    /\ k = "BALANCE" => "DEPOSIT" \notin session[s].todo
    /\ IF k \in Paid /\ session[s].left > 0 THEN transferPortion(s, k)
       ELSE session' = [session EXCEPT ![s].todo = @ \ {k}] /\ UNCHANGED adapter
    /\ UNCHANGED <<rows, holder, history>>

-----------------------------------------------------------------------------
(* Committing *)

\* #escrowEntry and the payout row ask for their key again: what another
\* session committed under it meanwhile stands.
ReleaseOf(held) ==
    /\ ledger' = IF ledger.released THEN ledger
                 ELSE [ledger EXCEPT !.released = TRUE, !.out = @ + held]
    /\ payout' = IF payout = "NONE" THEN "PENDING" ELSE payout

\* Mutant of Booked: a refund that was skipped or refused is booked as well.
BookedUnmade(s) ==
    CASE session[s].call \in {"payDeposit", "payBalance"} ->
           [ledger EXCEPT !.hold = @ \cup session[s].made]
      [] session[s].call \in Refunds -> [ledger EXCEPT !.refund = @ \cup Paid]
      [] session[s].call = "resolvePartial" ->
           [ledger EXCEPT !.out = @ + session[s].held,
                          !.portions = @ \cup {[dispute |-> session[s].row, kind |-> k,
                                                cents |-> session[s].held] : k \in Kinds}]

\* HOLD, REFUND and PARTIAL_REFUND entries mirror what the session did at the
\* adapter.
Booked(s) ==
    CASE session[s].call \in {"payDeposit", "payBalance"} ->
           [ledger EXCEPT !.hold = @ \cup session[s].made]
      [] session[s].call \in Refunds -> [ledger EXCEPT !.refund = @ \cup session[s].made]
      [] session[s].call = "resolvePartial" ->
           [ledger EXCEPT
              !.out = @ + Given(session[s].held, session[s].made),
              !.portions = @ \cup {[dispute |-> session[s].row, kind |-> k, cents |-> Due(s, k)] :
                                     k \in session[s].made}]

Writes(s) ==
    LET call == session[s].call IN
    /\ payment' =
         CASE call \in {"payDeposit", "payBalance"} ->
                [k \in Kinds |-> IF k \in session[s].made
                                 THEN [status |-> "SUCCEEDED", charge |-> session[s].row]
                                 ELSE payment[k]]
           [] call = "issueBalanceInvoice" /\ payment["BALANCE"].status = "NONE" ->
                [payment EXCEPT !["BALANCE"].status = "PENDING"]
           [] OTHER -> payment
    /\ dispute' =
         CASE call = "openDispute" -> Append(dispute, [open |-> TRUE, pre |-> session[s].from])
           [] call \in Closes -> [dispute EXCEPT ![session[s].row].open = FALSE]
           [] call = "respond" -> [dispute EXCEPT ![session[s].row].open = TRUE]
           [] OTHER -> dispute
    /\ CASE call \in {"payDeposit", "payBalance"} \cup Repays ->
              ledger' = Booked(s) /\ UNCHANGED payout
         [] call = "releaseEscrow" /\ session[s].held > 0 -> ReleaseOf(session[s].held)
         [] call = "resolveRelease" -> ReleaseOf(session[s].held)
         [] call = "settlePayout" -> payout' = "PAID" /\ UNCHANGED ledger
         [] OTHER -> UNCHANGED <<ledger, payout>>

\* The transaction commits: the status follows from what was read, whatever
\* was committed since.  A refund row committed meanwhile under the same key
\* makes the insert fail, and so does a shortfall of the transfers.
commit(s) ==
    LET me == session[s]
        pairs == {{me.call, other} : other \in me.over}
    IN  /\ me.call # "none" /\ me.todo = {} /\ me.left = 0
        /\ me.to # KEEP => OrderRowFree(s)
        /\ me.call \in Repays => \A k \in me.made : ~Replayed(s, k)
        /\ Cardinality(crossed \cup pairs) <= MaxCrossed
        /\ status' = IF me.to = KEEP THEN status ELSE me.to
        /\ Writes(s)
        /\ crossed' = crossed \cup pairs
        /\ session' = [t \in Sessions |->
                         IF t = s \/ session[t] = Idle THEN Idle
                         ELSE [session[t] EXCEPT !.over = @ \cup {me.call}]]
        /\ holder' = IF holder = s THEN Nobody ELSE holder
        /\ stranded' = IF me.to = "CANCELLED"
                       THEN {k \in Kinds : payment'[k].status = "SUCCEEDED"} \ ledger'.refund
                       ELSE stranded
        /\ UNCHANGED <<adapter, torn>>

\* The transaction rolls back: a refusal of the adapter, a failed insert, a
\* timeout or a lost connection.  The adapter's side of it stays.
rollback(s) ==
    LET me == session[s]
        left == IF me.made = {} THEN torn ELSE torn \cup {me.call}
    IN  /\ me.call # "none"
        /\ Cardinality(left) <= MaxTorn
        /\ torn' = left
        /\ session' = [session EXCEPT ![s] = Idle]
        /\ holder' = IF holder = s THEN Nobody ELSE holder
        /\ UNCHANGED <<rows, adapter, crossed, stranded>>

Next ==
    \E s \in Sessions :
      \/ read(s)
      \/ \E k \in Kinds : \/ captureCharge(s, k)
                          \/ refundCharge(s, k)
                          \/ transferToConnectedAccount(s, k)
      \/ commit(s)
      \/ rollback(s)

Spec == Init /\ [][Next]_vars

-----------------------------------------------------------------------------
(* Properties *)

ChargesOf(k) == {c \in DOMAIN charge : charge[c].kind = k}
Returned(k, cents) == \E c \in ChargesOf(k) : charge[c].refunded >= cents

\* Whatever overlaps and whichever calls roll back, the books never claim more
\* than the processor did: every payment recorded as captured names a charge
\* of its own, every refund entry, whole or a portion, has a refund behind it,
\* a PAID payout had its cents transferred, and no charge gives out more than it
\* took.
BooksNeverAhead ==
    /\ \A k \in Paid : k \in ledger.hold /\ payment[k].charge \in ChargesOf(k)
    /\ ledger.hold \subseteq Paid
    /\ \A k \in ledger.refund : Returned(k, Amount(k))
    /\ \A p \in ledger.portions : Returned(p.kind, p.cents)
    /\ payout = "PAID" => sent >= netCents(TotalCents, CommissionBps)
    /\ \A c \in DOMAIN charge : HeldOn(c) >= 0

Net == netCents(TotalCents, CommissionBps)
Quiet == \A s \in Sessions : session[s] = Idle
Crossed(call, others) == \E other \in others : {call, other} \in crossed

\* What an overlap can break, and by which calls alone, once no call is open.
EachHarmHasItsCrossing ==
    Quiet =>
        \* A payment is charged twice only by two payments of it that cross, or
        \* by one that rolled back after its capture.
        /\ \A k \in Kinds : Cardinality(ChargesOf(k)) > 1 =>
             Crossed(Pay(k), {Pay(k)}) \/ Pay(k) \in torn
        \* A dispute is open on an order that is not frozen only when its opening
        \* crossed another call, or a response crossed what closed it and wrote the
        \* status it had read back.
        /\ OpenDisputes # {} /\ status # "DISPUTED" =>
             Crossed("openDispute", Calls) \/ Crossed("respond", Closes)
        \* The ledger is overdrawn only when a release or a partial refund crossed
        \* another call, which takes the order back to a status before it, or two
        \* payments of one kind crossed, and it is refunded from both charges.
        /\ Held < 0 => \/ \E call \in GiveOuts : Crossed(call, Calls)
                       \/ \E k \in Kinds : Crossed(Pay(k), {Pay(k)})
        \* A cancellation leaves a captured payment unrefunded only when it
        \* crossed that payment.
        /\ \A k \in stranded : Crossed(Pay(k), Refunds)
        \* The supplier is transferred more than the payout only when a
        \* settlement rolled back after a transfer, or two crossed: the later one
        \* takes what is left, and fails on the shortfall unless the commission
        \* is half the total or a payment was charged twice.
        /\ sent > Net =>
             \/ "settlePayout" \in torn
             \/ /\ Crossed("settlePayout", {"settlePayout"})
                /\ 2 * Net <= TotalCents \/ \E k \in Kinds : Crossed(Pay(k), {Pay(k)})

=============================================================================
