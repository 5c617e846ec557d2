-------------------------- MODULE OrderRacesProofs --------------------------
(***************************************************************************)
(* Proofs about OrderRaces: what overlapping calls cannot break, and which *)
(* crossing each harm they can do comes from, for any number of them, any  *)
(* total and any rate.                                                     *)
(***************************************************************************)
EXTENDS OrderRaces, SequenceTheorems, FiniteSetTheorems, TLAPS

Row == [kind: Kinds, refunded: Nat, transferred: Nat]

\* What a call has done at the adapter is there when it commits: its capture,
\* its refunds, and of a payout what it has left out.
Backed(s) ==
    /\ \A k \in Kinds : session[s].call = Pay(k) =>
         /\ session[s].todo \subseteq {k} /\ session[s].made \subseteq {k}
         /\ k \in session[s].made => session[s].row \in ChargesOf(k)
    /\ session[s].call \in Repays =>
         /\ session[s].todo \subseteq Paid
         /\ \A k \in Kinds : Due(s, k) \in 0..Amount(k)
         /\ \A k \in session[s].made : Returned(k, Due(s, k))
    /\ session[s].call = "settlePayout" =>
         sent + session[s].left >= netCents(TotalCents, CommissionBps)

IInv == TypeOK /\ BooksNeverAhead /\ \A s \in Sessions : Backed(s)

-----------------------------------------------------------------------------
(* Amounts and landings *)

\* The deposit and the balance are amounts.
LEMMA AmountIsNat == \A k \in Kinds : Amount(k) \in Nat
<1>1. TotalCents \in Nat
  BY RacesAssumption
<1>2. (TotalCents * 3000) \div 10000 \in Nat /\ (TotalCents * 3000) \div 10000 <= TotalCents
  BY <1>1
<1> QED
  BY <1>1, <1>2 DEF Amount, depositCents, DEPOSIT_BPS

\* A portion is part of its payment.
LEMMA PortionIsPart ==
  ASSUME NEW cents \in Nat, NEW k \in Kinds
  PROVE  Portion(cents, k) \in Nat /\ Portion(cents, k) <= Amount(k)
<1>1. Amount("DEPOSIT") \in Nat /\ Amount("BALANCE") \in Nat
  BY AmountIsNat DEF Kinds
<1>2. Least(cents, Amount("DEPOSIT")) \in Nat /\ Least(cents, Amount("DEPOSIT")) <= cents
      /\ Least(cents, Amount("DEPOSIT")) <= Amount("DEPOSIT")
  BY <1>1 DEF Least
<1>3. CASE k = "DEPOSIT"
  BY <1>2, <1>3 DEF Portion
<1>4. CASE k = "BALANCE"
  <2> DEFINE rest == cents - Least(cents, Amount("DEPOSIT"))
  <2>1. rest \in Nat
    BY <1>2
  <2>2. Portion(cents, k) = Least(rest, Amount(k))
    BY <1>4 DEF Portion
  <2> HIDE DEF rest
  <2> QED
    BY <1>1, <1>4, <2>1, <2>2 DEF Least
<1> QED
  BY <1>3, <1>4 DEF Kinds

\* The net of a payout is a number.
LEMMA NetIsInt == netCents(TotalCents, CommissionBps) \in Int
<1>1. TotalCents \in Nat /\ CommissionBps \in Int
  BY RacesAssumption
<1>2. 2 * TotalCents * CommissionBps + 10000 \in Int
  BY <1>1
<1> QED
  BY <1>1, <1>2 DEF netCents, commissionCents

\* The machine leads to statuses.
LEMMA LandingIsStatus == \A from, event : Landing(from, event) \subseteq OrderStatus
<1>1. \A m \in PlainMoves : m[3] \in OrderStatus
  BY DEF PlainMoves, OrderStatus, CANCELABLE_STATUSES, DISPUTABLE_STATUSES, LEGAL_DISPUTE_RESOLUTIONS
<1>2. \A o : \A m \in GatedMoves(o) : m[3] \in OrderStatus
  BY DEF GatedMoves, OrderStatus
<1> QED
  BY <1>1, <1>2 DEF Landing

\* A call leaves the status alone or writes a status.
LEMMA LandingsType ==
  ASSUME TypeOK, NEW call \in Calls, NEW d \in Nat
  PROVE  Landings(call, d) \subseteq OrderStatus \cup {KEEP}
<1>1. ReleaseLanding \subseteq OrderStatus
  BY LandingIsStatus DEF ReleaseLanding
<1>2. \A k \in Kinds : PayLanding(k) \subseteq OrderStatus \cup {KEEP}
  BY DEF PayLanding, OrderStatus
<1>3. CloseLanding(call, d) \subseteq OrderStatus \cup {KEEP}
  BY LandingIsStatus DEF CloseLanding, LEGAL_DISPUTE_RESOLUTIONS, OrderStatus
<1>4. \A event : Landing(status, event) \subseteq OrderStatus
  BY LandingIsStatus
<1> QED
  BY <1>1, <1>2, <1>3, <1>4 DEF Landings, Kinds

-----------------------------------------------------------------------------
(* What keeps a session backed *)

\* Paid payments stay paid, charges stay where they are and keep what was
\* refunded of them, and what was sent stays sent.
Onward ==
    /\ Paid \subseteq Paid'
    /\ \A k \in Kinds : ChargesOf(k) \subseteq ChargesOf(k)'
    /\ \A k \in Kinds, cents \in Nat : Returned(k, cents) => Returned(k, cents)'
    /\ sent' >= sent

\* The refunds the ledger knows of stay made.
LEMMA RefundsStay ==
  ASSUME IInv, Onward
  PROVE  /\ \A k \in ledger.refund : Returned(k, Amount(k))'
         /\ \A p \in ledger.portions : Returned(p.kind, p.cents)'
<1>1. /\ \A k \in ledger.refund : k \in Kinds /\ Amount(k) \in Nat
      /\ \A p \in ledger.portions : p.kind \in Kinds /\ p.cents \in Nat
  BY AmountIsNat DEF IInv, TypeOK
<1>2. /\ \A k \in ledger.refund : Returned(k, Amount(k))
      /\ \A p \in ledger.portions : Returned(p.kind, p.cents)
  BY DEF IInv, BooksNeverAhead
<1>3. /\ \A k \in Kinds : Returned(k, Amount(k)) /\ Amount(k) \in Nat => Returned(k, Amount(k))'
      /\ \A k \in Kinds, cents \in Nat : Returned(k, cents) => Returned(k, cents)'
  BY DEF Onward, Returned, Amount
<1> QED
  BY <1>1, <1>2, <1>3 DEF Returned

\* A session that a step leaves alone stays backed.
LEMMA StaysBacked ==
  ASSUME TypeOK, TypeOK', Onward, NEW s \in Sessions, Backed(s),
         \/ session'[s] = session[s]
         \/ /\ session'[s].call = session[s].call /\ session'[s].row = session[s].row
            /\ session'[s].todo = session[s].todo /\ session'[s].made = session[s].made
            /\ session'[s].left = session[s].left /\ session'[s].held = session[s].held
  PROVE  Backed(s)'
<1>1. /\ session'[s].call = session[s].call /\ session'[s].row = session[s].row
      /\ session'[s].todo = session[s].todo /\ session'[s].made = session[s].made
      /\ session'[s].left = session[s].left /\ session'[s].held = session[s].held
  OBVIOUS
<1>2. session[s].left \in Int /\ sent \in Nat /\ sent' \in Nat /\ session[s].made \subseteq Kinds
  BY DEF TypeOK, Session
<1>3. \A k : Due(s, k)' = Due(s, k)
  BY <1>1 DEF Due, Portion, Amount
<1>4. session[s].call \in Repays =>
        /\ session'[s].todo \subseteq Paid'
        /\ \A k \in Kinds : Due(s, k)' \in 0..Amount(k)
        /\ \A k \in session'[s].made : Returned(k, Due(s, k))'
  BY <1>1, <1>2, <1>3, AmountIsNat DEF Backed, Onward, Returned
<1> QED
  BY <1>1, <1>2, <1>4, NetIsInt DEF Backed, Onward, Amount

\* An idle session has nothing to back.
LEMMA IdleIsBacked ==
  ASSUME NEW s \in Sessions, session[s] = Idle
  PROVE  Backed(s)
BY DEF Backed, Idle, Pay, Repays, Refunds, Kinds

\* Idle is a session.
LEMMA IdleIsSession == Idle \in Session
BY DEF Idle, Session, OrderStatus, KEEP

-----------------------------------------------------------------------------

\* The buyer has confirmed, and nothing is under way.
LEMMA InitHolds == Init => IInv
<1> SUFFICES ASSUME Init PROVE IInv
  OBVIOUS
<1>1. TypeOK
  BY IdleIsSession DEF Init, TypeOK, OrderStatus, Kinds
<1>2. BooksNeverAhead
  BY DEF Init, BooksNeverAhead, Paid, Kinds
<1>3. \A s \in Sessions : Backed(s)
  BY IdleIsBacked DEF Init
<1> QED
  BY <1>1, <1>2, <1>3 DEF IInv

\* A call reads, and has nothing done yet.
LEMMA ReadStep ==
  ASSUME IInv, NEW s \in Sessions, read(s)
  PROVE  IInv'
<1> USE DEF IInv
<1>a. PICK call \in Calls, d \in 0..MaxDisputes, cents \in PartialCents \cup {0} :
        \E to \in Landings(call, d) :
          session' = [session EXCEPT ![s] = Opened(call, d, cents, to)]
  BY DEF read
<1>1. PICK to \in Landings(call, d) :
        session' = [session EXCEPT ![s] = Opened(call, d, cents, to)]
  BY <1>a
<1>2. UNCHANGED <<status, payment, ledger, payout, dispute, charge, sent, holder, crossed, torn, stranded>>
  BY DEF read, rows, adapter, history
<1>3. Held \in Int
  <2>1. \A kinds \in SUBSET Kinds : Cents(kinds) \in Nat
    BY AmountIsNat DEF Cents, Kinds
  <2>2. ledger.hold \subseteq Kinds /\ ledger.refund \subseteq Kinds /\ ledger.out \in Int
    BY DEF TypeOK
  <2> QED
    BY <2>1, <2>2 DEF Held
<1>4. to \in OrderStatus \cup {KEEP} /\ d \in Nat /\ cents \in Nat
  BY LandingsType, RacesAssumption
<1>5. session'[s] \in Session
  <2>1. Paid \subseteq Kinds
    BY DEF Paid
  <2> QED
    <3>1. Opened(call, d, cents, to) \in Session
      BY <1>3, <1>4, <2>1, NetIsInt DEF Opened, TypeOK, Session, OrderStatus, Kinds, KEEP
    <3> QED
      BY <1>1, <3>1 DEF TypeOK
<1>6. TypeOK'
  BY <1>1, <1>2, <1>5 DEF TypeOK
<1>7. BooksNeverAhead'
  BY <1>2 DEF BooksNeverAhead, Paid, ChargesOf, HeldOn, Returned
<1>8. ASSUME NEW t \in Sessions PROVE Backed(t)'
  <2>1. CASE t = s
    <3>1. /\ session'[s].call = call /\ session'[s].made = {}
          /\ call \in Repays => session'[s].todo \subseteq Paid
          /\ call = "payDeposit" => session'[s].todo = {"DEPOSIT"}
          /\ call = "payBalance" => session'[s].todo = {"BALANCE"}
          /\ call = "settlePayout" => session'[s].left = netCents(TotalCents, CommissionBps)
          /\ call = "resolvePartial" => session'[s].held = cents
      <4>1. session'[s] = Opened(call, d, cents, to)
        BY <1>1 DEF TypeOK
      <4> QED
        BY <4>1 DEF Opened, Repays, Refunds, Releases
    <3>2. sent' = sent /\ sent \in Nat /\ Paid' = Paid
      BY <1>2 DEF TypeOK, Paid
    <3>3. \A k \in Kinds : Due(s, k)' \in 0..Amount(k)
      <4>1. \A k \in Kinds : call = "resolvePartial" => Due(s, k)' = Portion(cents, k)
        BY <3>1 DEF Due, Portion, Amount
      <4>2. \A k \in Kinds : call # "resolvePartial" => Due(s, k)' = Amount(k)
        BY <3>1 DEF Due, Amount
      <4> QED
        BY <1>4, <4>1, <4>2, AmountIsNat, PortionIsPart
    <3>4. call \in Repays => call # "settlePayout" /\ \A k \in Kinds : call # Pay(k)
      BY DEF Repays, Refunds, Pay, Kinds
    <3> QED
      BY <2>1, <3>1, <3>2, <3>3, <3>4, NetIsInt DEF Backed, Pay, Kinds, Amount
  <2>2. CASE t # s
    <3>1. session'[t] = session[t]
      BY <1>1, <2>2 DEF TypeOK
    <3>2. Onward
      BY <1>2 DEF Onward, Paid, ChargesOf, Returned, TypeOK
    <3> QED
      BY <1>6, <3>1, <3>2, StaysBacked
  <2> QED
    BY <2>1, <2>2
<1> QED
  BY <1>6, <1>7, <1>8

\* A transaction rolls back: the adapter's side of it stays.
LEMMA RollbackStep ==
  ASSUME IInv, NEW s \in Sessions, rollback(s)
  PROVE  IInv'
<1> USE DEF IInv
<1>1. /\ session' = [session EXCEPT ![s] = Idle]
      /\ UNCHANGED <<status, payment, ledger, payout, dispute, charge, sent, crossed, stranded>>
  BY DEF rollback, rows, adapter
<1>2. torn' \subseteq Calls
  BY DEF rollback, TypeOK, Session
<1>3. holder' \in Sessions \cup {Nobody}
  BY DEF rollback, TypeOK
<1>4. TypeOK'
  BY <1>1, <1>2, <1>3, IdleIsSession DEF TypeOK
<1>5. BooksNeverAhead'
  BY <1>1 DEF BooksNeverAhead, Paid, ChargesOf, HeldOn, Returned
<1>6. ASSUME NEW t \in Sessions PROVE Backed(t)'
  <2>1. CASE t = s
    <3>1. session'[s] = Idle
      BY <1>1 DEF TypeOK
    <3> QED
      BY <2>1, <3>1 DEF Backed, Idle, Pay, Repays, Refunds, Kinds
  <2>2. CASE t # s
    <3>1. session'[t] = session[t]
      BY <1>1, <2>2 DEF TypeOK
    <3>2. Onward
      BY <1>1 DEF Onward, Paid, ChargesOf, Returned, TypeOK
    <3> QED
      BY <1>4, <3>1, <3>2, StaysBacked
  <2> QED
    BY <2>1, <2>2
<1> QED
  BY <1>4, <1>5, <1>6

-----------------------------------------------------------------------------
(* The adapter *)

\* What an adapter call changes of a session.
LEMMA SessionUpdate ==
  ASSUME NEW x \in Session, NEW todo, todo \subseteq Kinds, NEW made, made \subseteq Kinds,
         NEW row, row \in Nat, NEW left, left \in Int
  PROVE  [x EXCEPT !.todo = todo, !.made = made, !.row = row, !.left = left] \in Session
BY DEF Session

\* What a refund changes of a charge.
LEMMA RowUpdate ==
  ASSUME NEW row \in Row, NEW cents \in Nat
  PROVE  /\ [row EXCEPT !.refunded = cents] \in Row
         /\ [row EXCEPT !.refunded = cents].kind = row.kind
         /\ [row EXCEPT !.refunded = cents].refunded = cents
         /\ [row EXCEPT !.refunded = cents].transferred = row.transferred
BY DEF Row

\* A charge keeps its place, its kind and its neighbours when cents move on it.
LEMMA ChargeUpdate ==
  ASSUME charge \in Seq(Row), NEW c \in DOMAIN charge, NEW row \in Row,
         row.kind = charge[c].kind, charge' = [charge EXCEPT ![c] = row]
  PROVE  /\ charge' \in Seq(Row) /\ DOMAIN charge' = DOMAIN charge
         /\ charge'[c] = row
         /\ \A e \in DOMAIN charge : e # c => charge'[e] = charge[e]
         /\ \A k : ChargesOf(k)' = ChargesOf(k)
<1>1. /\ charge' \in Seq(Row) /\ DOMAIN charge' = DOMAIN charge
      /\ charge'[c] = row
      /\ \A e \in DOMAIN charge : e # c => charge'[e] = charge[e]
  <2>1. c \in 1..Len(charge)
    OBVIOUS
  <2> QED
    BY <2>1, ExceptSeq
<1> QED
  BY <1>1 DEF ChargesOf

\* A payment is captured: the session owns a charge of its kind.
LEMMA CaptureStep ==
  ASSUME IInv, NEW s \in Sessions, NEW k \in Kinds, captureCharge(s, k)
  PROVE  IInv'
<1> USE DEF IInv
<1> DEFINE new == [kind |-> k, refunded |-> 0, transferred |-> 0]
<1>1. /\ session[s].call = Pay(k) /\ k \in session[s].todo
      /\ charge' = Append(charge, new)
      /\ session' = [session EXCEPT ![s] = [Done(s, k) EXCEPT !.row = Len(charge) + 1]]
      /\ UNCHANGED <<status, payment, ledger, payout, dispute, sent, crossed, torn, stranded>>
  BY DEF captureCharge, rows, history
<1>2. /\ charge' \in Seq(Row) /\ Len(charge') = Len(charge) + 1 /\ Len(charge) \in Nat
      /\ \A i \in DOMAIN charge : i \in DOMAIN charge' /\ charge'[i] = charge[i]
      /\ Len(charge) + 1 \in DOMAIN charge' /\ charge'[Len(charge) + 1] = new
      /\ \A i \in DOMAIN charge' : i \in DOMAIN charge \/ i = Len(charge) + 1
  <2>1. charge \in Seq(Row) /\ new \in Row
    BY DEF TypeOK, Row
  <2> QED
    BY <1>1, <2>1, AppendProperties
<1>3. holder' \in Sessions \cup {Nobody}
  BY DEF captureCharge, LockFirst, TypeOK
<1>4. session'[s] \in Session
  <2>1. session[s] \in Session /\ Len(charge) + 1 \in Nat
    BY <1>2 DEF TypeOK
  <2>2. /\ session[s].todo \ {k} \subseteq Kinds
        /\ session[s].made \cup {k} \subseteq Kinds
        /\ session[s].left \in Int
    BY <2>1 DEF Session
  <2>3. session'[s] = [session[s] EXCEPT !.todo = session[s].todo \ {k},
                         !.made = session[s].made \cup {k}, !.row = Len(charge) + 1,
                         !.left = session[s].left]
    BY <1>1, <2>1 DEF Done, TypeOK, Session
  <2>4. [session[s] EXCEPT !.todo = session[s].todo \ {k},
           !.made = session[s].made \cup {k}, !.row = Len(charge) + 1,
           !.left = session[s].left] \in Session
    BY <2>1, <2>2, SessionUpdate
  <2> QED
    BY <2>3, <2>4
<1>5. TypeOK'
  BY <1>1, <1>2, <1>3, <1>4 DEF TypeOK, Row
<1>6. \A kind \in Kinds : ChargesOf(kind) \subseteq ChargesOf(kind)'
  BY <1>2 DEF ChargesOf
<1>7. Onward
  <2>1. Paid' = Paid /\ sent' = sent /\ sent \in Nat
    BY <1>1 DEF Paid, TypeOK
  <2>2. ASSUME NEW kind \in Kinds, NEW cents \in Nat, Returned(kind, cents)
        PROVE  Returned(kind, cents)'
    <3>1. PICK c \in ChargesOf(kind) : charge[c].refunded >= cents
      BY <2>2 DEF Returned
    <3>2. c \in ChargesOf(kind)' /\ charge'[c].refunded >= cents
      BY <3>1, <1>2, <1>6 DEF ChargesOf
    <3> QED
      BY <3>2 DEF Returned
  <2> QED
    BY <1>6, <2>1, <2>2 DEF Onward
<1>8. BooksNeverAhead'
  <2>1. \A c \in DOMAIN charge' :
          Amount(charge'[c].kind) - charge'[c].refunded - charge'[c].transferred >= 0
    BY <1>2, AmountIsNat DEF BooksNeverAhead, HeldOn
  <2>2. Paid' = Paid /\ sent' = sent
    BY <1>1 DEF Paid
  <2>3. /\ \A kind \in ledger.refund : Returned(kind, Amount(kind))'
        /\ \A p \in ledger.portions : Returned(p.kind, p.cents)'
    BY <1>7, RefundsStay
  <2> QED
    BY <1>1, <1>6, <2>1, <2>2, <2>3 DEF BooksNeverAhead, Paid, Amount, HeldOn
<1>9. ASSUME NEW t \in Sessions PROVE Backed(t)'
  <2>1. CASE t = s
    <3>1. /\ session'[s].call = Pay(k) /\ session'[s].row = Len(charge) + 1
          /\ session'[s].todo \subseteq session[s].todo
          /\ session'[s].made \subseteq session[s].made \cup {k}
      BY <1>1 DEF Done, TypeOK, Session
    <3>2. Len(charge) + 1 \in ChargesOf(k)'
      BY <1>2 DEF ChargesOf
    <3>3. \A kind \in Kinds : Pay(k) = Pay(kind) => kind = k
      BY DEF Pay, Kinds
    <3>4. session[s].todo \subseteq {k} /\ session[s].made \subseteq {k}
      BY <1>1 DEF Backed
    <3>5. Pay(k) \notin Repays /\ Pay(k) # "settlePayout"
      BY DEF Pay, Repays, Refunds, Kinds
    <3> QED
      BY <2>1, <3>1, <3>2, <3>3, <3>4, <3>5 DEF Backed
  <2>2. CASE t # s
    <3>1. session'[t] = session[t]
      BY <1>1, <2>2 DEF TypeOK
    <3> QED
      BY <1>5, <1>7, <3>1, StaysBacked
  <2> QED
    BY <2>1, <2>2
<1> QED
  BY <1>5, <1>8, <1>9

\* Cents that move on a charge, within what it holds, leave the books backed.
LEMMA BooksKept ==
  ASSUME IInv, TypeOK', UNCHANGED <<payment, ledger, payout>>, Onward,
         DOMAIN charge' = DOMAIN charge,
         \A c \in DOMAIN charge :
           Amount(charge'[c].kind) - charge'[c].refunded - charge'[c].transferred >= 0
  PROVE  BooksNeverAhead'
<1>1. /\ \A k \in Paid : k \in ledger.hold /\ payment[k].charge \in ChargesOf(k)
      /\ ledger.hold \subseteq Paid
      /\ payout = "PAID" => sent >= netCents(TotalCents, CommissionBps)
  BY DEF IInv, BooksNeverAhead
<1>2. Paid' = Paid /\ Paid \subseteq Kinds /\ ledger.refund \subseteq Kinds
  BY DEF Paid, IInv, TypeOK
<1>3. /\ \A k \in ledger'.refund : Returned(k, Amount(k))'
      /\ \A p \in ledger'.portions : Returned(p.kind, p.cents)'
  BY RefundsStay
<1>4. \A k \in Paid : payment[k].charge \in ChargesOf(k)'
  BY <1>1, <1>2 DEF Onward
<1>5. payout = "PAID" => sent' >= netCents(TotalCents, CommissionBps)
  BY <1>1, NetIsInt DEF Onward, IInv, TypeOK
<1>6. \A c \in DOMAIN charge' :
        Amount(charge'[c].kind) - charge'[c].refunded - charge'[c].transferred >= 0
  OBVIOUS
<1> QED
  BY <1>1, <1>2, <1>3, <1>4, <1>5, <1>6 DEF BooksNeverAhead, HeldOn

\* A call owes the same after a step, and what it has given back stays given.
Repaid(s, kinds) ==
    /\ \A k \in Kinds : Due(s, k)' \in 0..Amount(k)
    /\ \A k \in kinds : Returned(k, Due(s, k))'

LEMMA DuesStay ==
  ASSUME TypeOK, Onward, NEW s \in Sessions, Backed(s), session[s].call \in Repays,
         session'[s].call = session[s].call, session'[s].held = session[s].held
  PROVE  /\ \A k \in Kinds : Due(s, k)' = Due(s, k)
         /\ Repaid(s, session[s].made)
<1>1. \A k : Due(s, k)' = Due(s, k)
  BY DEF Due, Portion, Amount
<1>2. session[s].made \subseteq Kinds
  BY DEF TypeOK, Session
<1>3. /\ \A k \in Kinds : Due(s, k) \in 0..Amount(k) /\ Due(s, k) \in Nat
      /\ \A k \in session[s].made : Returned(k, Due(s, k))
  BY AmountIsNat DEF Backed
<1>4. \A k \in Kinds, cents \in Nat : Returned(k, cents) => Returned(k, cents)'
  BY DEF Onward
<1> QED
  BY <1>1, <1>2, <1>3, <1>4 DEF Repaid, Returned

\* A refund that is made is on a charge of its payment, which holds it.
LEMMA RefundStep ==
  ASSUME IInv, NEW s \in Sessions, NEW k \in Kinds, refundCharge(s, k)
  PROVE  IInv'
<1> USE DEF IInv
<1> DEFINE c == payment[k].charge
<1>1. /\ session[s].call \in Repays /\ k \in session[s].todo
      /\ UNCHANGED <<status, payment, ledger, payout, dispute, sent, crossed, torn, stranded>>
  BY DEF refundCharge, rows, history
<1>2. holder' \in Sessions \cup {Nobody}
  BY DEF refundCharge, LockFirst, TypeOK
<1>3. k \in Paid /\ c \in ChargesOf(k) /\ Paid' = Paid /\ sent' = sent /\ sent \in Nat
  BY <1>1 DEF Backed, BooksNeverAhead, Paid, TypeOK
<1>4. session[s] \in Session /\ session[s].call \notin {"settlePayout", Pay("DEPOSIT"), Pay("BALANCE")}
  BY <1>1 DEF TypeOK, Repays, Refunds, Pay
<1>5. CASE Replayed(s, k)
  <2>1. session' = [session EXCEPT ![s].todo = @ \ {k}] /\ UNCHANGED charge
    BY <1>5 DEF refundCharge
  <2>2. session[s].todo \ {k} \subseteq Kinds /\ session[s].made \subseteq Kinds
        /\ session[s].row \in Nat /\ session[s].left \in Int
    BY <1>4 DEF Session
  <2>3. [session[s] EXCEPT !.todo = session[s].todo \ {k}, !.made = session[s].made,
           !.row = session[s].row, !.left = session[s].left] \in Session
    BY <1>4, <2>2, SessionUpdate
  <2>4. session'[s] = [session[s] EXCEPT !.todo = session[s].todo \ {k}, !.made = session[s].made,
           !.row = session[s].row, !.left = session[s].left]
    BY <1>4, <2>1 DEF TypeOK, Session
  <2>5. TypeOK'
    BY <1>1, <1>2, <2>1, <2>3, <2>4 DEF TypeOK
  <2>6. Onward
    BY <1>1, <1>3, <2>1 DEF Onward, ChargesOf, Returned
  <2>7. BooksNeverAhead'
    BY <1>1, <2>1 DEF BooksNeverAhead, Paid, ChargesOf, HeldOn, Returned
  <2>8. ASSUME NEW t \in Sessions PROVE Backed(t)'
    <3>1. CASE t = s
      <4>1. /\ session'[s].call = session[s].call /\ session'[s].made = session[s].made
            /\ session'[s].todo \subseteq session[s].todo
            /\ session'[s].held = session[s].held
        BY <1>4, <2>4 DEF Session
      <4>2. Repaid(s, session[s].made)
        BY <1>1, <2>6, <4>1, DuesStay
      <4>3. session[s].todo \subseteq Paid'
        BY <1>1, <1>3 DEF Backed
      <4> QED
        BY <3>1, <1>1, <1>4, <4>1, <4>2, <4>3 DEF Backed, Kinds, Repaid, Amount
    <3>2. CASE t # s
      BY <2>1, <2>5, <2>6, <3>2, StaysBacked DEF TypeOK
    <3> QED
      BY <3>1, <3>2
  <2> QED
    BY <2>5, <2>7, <2>8
<1>6. CASE ~Replayed(s, k)
  <2> DEFINE row == [charge[c] EXCEPT !.refunded = @ + Due(s, k)]
  <2>1. /\ HeldOn(c) >= Due(s, k)
        /\ charge' = [charge EXCEPT ![c].refunded = @ + Due(s, k)]
        /\ session' = [session EXCEPT ![s] = Done(s, k)]
    BY <1>6 DEF refundCharge
  <2>2. /\ charge \in Seq(Row) /\ c \in DOMAIN charge /\ charge[c] \in Row
        /\ charge[c].kind = k /\ Amount(k) \in Nat /\ Due(s, k) \in Nat
    <3>1. charge \in Seq(Row) /\ c \in DOMAIN charge /\ charge[c].kind = k
      BY <1>3 DEF TypeOK, Row, ChargesOf
    <3>2. charge[c] \in Row
      BY <3>1, ElementOfSeq
    <3>3. Due(s, k) \in Nat
      BY <1>1, AmountIsNat DEF Backed
    <3> QED
      BY <3>1, <3>2, <3>3, AmountIsNat
  <2>3. charge[c].refunded \in Nat /\ charge[c].transferred \in Nat
    BY <2>2 DEF Row
  <2>4. /\ row \in Row /\ row.kind = charge[c].kind
        /\ row.refunded = charge[c].refunded + Due(s, k)
        /\ row.transferred = charge[c].transferred
    <3>1. charge[c].refunded + Due(s, k) \in Nat
      BY <2>2, <2>3
    <3>2. row = [charge[c] EXCEPT !.refunded = charge[c].refunded + Due(s, k)]
      OBVIOUS
    <3> HIDE DEF row, c
    <3> QED
      BY <2>2, <3>1, <3>2, RowUpdate
  <2>5. charge' = [charge EXCEPT ![c] = row]
    BY <2>1, <2>2
  <2>6. /\ charge' \in Seq(Row) /\ DOMAIN charge' = DOMAIN charge
        /\ charge'[c] = row
        /\ \A e \in DOMAIN charge : e # c => charge'[e] = charge[e]
        /\ \A kind : ChargesOf(kind)' = ChargesOf(kind)
    <3> HIDE DEF row
    <3> QED
      BY <2>2, <2>4, <2>5, ChargeUpdate
  <2>7. /\ session[s].todo \ {k} \subseteq Kinds /\ session[s].made \cup {k} \subseteq Kinds
        /\ session[s].row \in Nat /\ session[s].left \in Int
    BY <1>4 DEF Session
  <2>8. [session[s] EXCEPT !.todo = session[s].todo \ {k}, !.made = session[s].made \cup {k},
           !.row = session[s].row, !.left = session[s].left] \in Session
    BY <1>4, <2>7, SessionUpdate
  <2>9. session'[s] = [session[s] EXCEPT !.todo = session[s].todo \ {k},
           !.made = session[s].made \cup {k}, !.row = session[s].row, !.left = session[s].left]
    BY <1>4, <2>1 DEF Done, TypeOK, Session
  <2>10. TypeOK'
    BY <1>1, <1>2, <2>1, <2>6, <2>8, <2>9 DEF TypeOK, Row
  <2>11. Onward
    <3>1. ASSUME NEW kind \in Kinds, NEW cents \in Nat, Returned(kind, cents)
          PROVE  Returned(kind, cents)'
      <4>1. PICK e \in ChargesOf(kind) : charge[e].refunded >= cents
        BY <3>1 DEF Returned
      <4>2. charge'[e].refunded >= cents
        <5>1. CASE e = c
          <6> HIDE DEF row, c
          <6> QED
            BY <4>1, <5>1, <2>2, <2>3, <2>4, <2>6
        <5>2. CASE e # c
          BY <4>1, <5>2, <2>6 DEF ChargesOf
        <5> QED
          BY <5>1, <5>2
      <4>3. e \in ChargesOf(kind)'
        BY <4>1, <2>6
      <4> QED
        BY <4>2, <4>3 DEF Returned
    <3> QED
      BY <1>3, <2>6, <3>1 DEF Onward
  <2>12. c \in ChargesOf(k)' /\ charge'[c].refunded >= Due(s, k)
    <3> HIDE DEF row, c
    <3> QED
      BY <1>3, <2>2, <2>3, <2>4, <2>6
  <2>13. BooksNeverAhead'
    <3>1. Amount(charge'[c].kind) - charge'[c].refunded - charge'[c].transferred >= 0
      <4>1. /\ charge'[c].kind = k /\ charge'[c].refunded = charge[c].refunded + Due(s, k)
            /\ charge'[c].transferred = charge[c].transferred
        BY <2>2, <2>4, <2>6
      <4>2. Amount(k) - charge[c].refunded - charge[c].transferred >= Due(s, k)
        BY <2>1, <2>2 DEF HeldOn
      <4> HIDE DEF row, c
      <4> QED
        BY <2>2, <2>3, <4>1, <4>2
    <3>2. \A e \in DOMAIN charge : e # c =>
            Amount(charge'[e].kind) - charge'[e].refunded - charge'[e].transferred >= 0
      BY <2>6 DEF BooksNeverAhead, HeldOn
    <3> QED
      BY <1>1, <2>6, <2>10, <2>11, <3>1, <3>2, BooksKept
  <2>14. ASSUME NEW t \in Sessions PROVE Backed(t)'
    <3>1. CASE t = s
      <4>1. /\ session'[s].call = session[s].call
            /\ session'[s].made = session[s].made \cup {k}
            /\ session'[s].todo \subseteq session[s].todo
            /\ session'[s].held = session[s].held
        BY <1>4, <2>9 DEF Session
      <4>2. Repaid(s, session[s].made \cup {k})
        <5>1. Repaid(s, session[s].made) /\ Due(s, k)' = Due(s, k)
          BY <1>1, <2>11, <4>1, DuesStay
        <5>2. Returned(k, Due(s, k))'
          BY <2>12, <5>1 DEF Returned
        <5> QED
          BY <5>1, <5>2 DEF Repaid
      <4>3. session[s].todo \subseteq Paid'
        BY <1>1, <1>3 DEF Backed
      <4> QED
        BY <3>1, <1>1, <1>4, <4>1, <4>2, <4>3 DEF Backed, Kinds, Repaid, Amount
    <3>2. CASE t # s
      BY <2>1, <2>10, <2>11, <3>2, StaysBacked DEF TypeOK
    <3> QED
      BY <3>1, <3>2
  <2> QED
    BY <2>10, <2>13, <2>14
<1> QED
  BY <1>5, <1>6

\* A transfer takes from the charge what the call still owes, at most what the
\* charge holds.
LEMMA TransferStep ==
  ASSUME IInv, NEW s \in Sessions, NEW k \in Kinds, transferToConnectedAccount(s, k)
  PROVE  IInv'
<1> USE DEF IInv
<1> DEFINE c == payment[k].charge
           portion == Least(HeldOn(c), session[s].left)
           made == IF portion > 0 THEN session[s].made \cup {k} ELSE session[s].made
<1>1. /\ session[s].call = "settlePayout" /\ k \in session[s].todo
      /\ UNCHANGED <<status, payment, ledger, payout, dispute, holder, crossed, torn, stranded>>
  BY DEF transferToConnectedAccount, rows, history
<1>2. session[s] \in Session /\ session[s].call \notin Repays \cup {Pay("DEPOSIT"), Pay("BALANCE")}
  BY <1>1 DEF TypeOK, Repays, Refunds, Pay
<1>3. /\ session[s].todo \ {k} \subseteq Kinds /\ session[s].made \subseteq Kinds
      /\ session[s].row \in Nat /\ session[s].left \in Int
  BY <1>2 DEF Session
<1>4. Paid' = Paid
  BY <1>1 DEF Paid
<1>5. CASE ~(k \in Paid /\ session[s].left > 0)
  <2>1. session' = [session EXCEPT ![s].todo = @ \ {k}] /\ UNCHANGED <<charge, sent>>
    BY <1>5 DEF transferToConnectedAccount, adapter
  <2>2. [session[s] EXCEPT !.todo = session[s].todo \ {k}, !.made = session[s].made,
           !.row = session[s].row, !.left = session[s].left] \in Session
    BY <1>2, <1>3, SessionUpdate
  <2>3. session'[s] = [session[s] EXCEPT !.todo = session[s].todo \ {k}, !.made = session[s].made,
           !.row = session[s].row, !.left = session[s].left]
    BY <1>2, <2>1 DEF TypeOK, Session
  <2>4. TypeOK'
    BY <1>1, <2>1, <2>2, <2>3 DEF TypeOK
  <2>5. Onward
    BY <1>4, <2>1 DEF Onward, ChargesOf, Returned, TypeOK
  <2>6. BooksNeverAhead'
    BY <1>1, <2>1 DEF BooksNeverAhead, Paid, ChargesOf, HeldOn, Returned
  <2>7. ASSUME NEW t \in Sessions PROVE Backed(t)'
    <3>1. CASE t = s
      <4>1. session'[s].call = session[s].call /\ session'[s].left = session[s].left
        BY <1>2, <2>3 DEF Session
      <4> QED
        BY <3>1, <1>1, <1>2, <2>1, <4>1 DEF Backed, Kinds
    <3>2. CASE t # s
      BY <2>1, <2>4, <2>5, <3>2, StaysBacked DEF TypeOK
    <3> QED
      BY <3>1, <3>2
  <2> QED
    BY <2>4, <2>6, <2>7
<1>6. CASE k \in Paid /\ session[s].left > 0
  <2> DEFINE row == [charge[c] EXCEPT !.transferred = @ + portion]
  <2>1. /\ charge' = [charge EXCEPT ![c].transferred = @ + portion]
        /\ sent' = sent + portion
        /\ session' = [session EXCEPT ![s].todo = @ \ {k}, ![s].left = @ - portion,
                         ![s].made = IF portion > 0 THEN @ \cup {k} ELSE @]
    BY <1>6 DEF transferToConnectedAccount, transferPortion
  <2>2. charge \in Seq(Row) /\ c \in DOMAIN charge /\ charge[c].kind = k
    BY <1>6 DEF TypeOK, Row, ChargesOf, BooksNeverAhead
  <2>3. charge[c] \in Row /\ Amount(k) \in Nat
    BY <2>2, ElementOfSeq, AmountIsNat
  <2>4. HeldOn(c) \in Nat /\ HeldOn(c) = Amount(k) - charge[c].refunded - charge[c].transferred
    BY <2>2, <2>3 DEF HeldOn, BooksNeverAhead, Row
  <2>5. portion \in Nat /\ portion <= HeldOn(c)
    BY <1>3, <1>6, <2>4 DEF Least
  <2> HIDE DEF portion
  <2>6. /\ row \in Row /\ row.kind = charge[c].kind /\ row.refunded = charge[c].refunded
        /\ row.transferred = charge[c].transferred + portion
    BY <2>3, <2>5 DEF Row
  <2>7. charge' = [charge EXCEPT ![c] = row]
    BY <2>1, <2>2
  <2>8. /\ charge' \in Seq(Row) /\ DOMAIN charge' = DOMAIN charge
        /\ charge'[c] = row
        /\ \A e \in DOMAIN charge : e # c => charge'[e] = charge[e]
        /\ \A kind : ChargesOf(kind)' = ChargesOf(kind)
    <3> HIDE DEF row
    <3> QED
      BY <2>2, <2>6, <2>7, ChargeUpdate
  <2>9. made \subseteq Kinds /\ session[s].left - portion \in Int
    BY <1>3, <2>5
  <2>10. [session[s] EXCEPT !.todo = session[s].todo \ {k}, !.made = made,
            !.row = session[s].row, !.left = session[s].left - portion] \in Session
    <3> HIDE DEF made
    <3> QED
      BY <1>2, <1>3, <2>9, SessionUpdate
  <2>11. session'[s] = [session[s] EXCEPT !.todo = session[s].todo \ {k}, !.made = made,
            !.row = session[s].row, !.left = session[s].left - portion]
    BY <1>2, <2>1 DEF TypeOK, Session
  <2>12. sent' \in Nat /\ sent' >= sent
    BY <2>1, <2>5 DEF TypeOK
  <2>13. TypeOK'
    BY <1>1, <2>1, <2>8, <2>10, <2>11, <2>12 DEF TypeOK, Row
  <2>14. Onward
    <3>1. ASSUME NEW kind \in Kinds, NEW cents \in Nat, Returned(kind, cents)
          PROVE  Returned(kind, cents)'
      <4>1. PICK e \in ChargesOf(kind) : charge[e].refunded >= cents
        BY <3>1 DEF Returned
      <4>2. charge'[e].refunded >= cents
        BY <4>1, <2>6, <2>8 DEF ChargesOf
      <4>3. e \in ChargesOf(kind)'
        BY <4>1, <2>8
      <4> QED
        BY <4>2, <4>3 DEF Returned
    <3> QED
      BY <1>4, <2>8, <2>12, <3>1 DEF Onward
  <2>15. BooksNeverAhead'
    <3>1. Amount(charge'[c].kind) - charge'[c].refunded - charge'[c].transferred >= 0
      <4>1. /\ charge'[c].kind = k /\ charge'[c].refunded = charge[c].refunded
            /\ charge'[c].transferred = charge[c].transferred + portion
        BY <2>2, <2>6, <2>8
      <4>2. charge[c].refunded \in Nat /\ charge[c].transferred \in Nat
        BY <2>3 DEF Row
      <4> HIDE DEF row, c
      <4> QED
        BY <2>3, <2>4, <2>5, <4>1, <4>2
    <3>2. \A e \in DOMAIN charge : e # c =>
            Amount(charge'[e].kind) - charge'[e].refunded - charge'[e].transferred >= 0
      BY <2>8 DEF BooksNeverAhead, HeldOn
    <3> QED
      BY <1>1, <2>8, <2>13, <2>14, <3>1, <3>2, BooksKept
  <2>16. ASSUME NEW t \in Sessions PROVE Backed(t)'
    <3>1. CASE t = s
      <4>1. /\ session'[s].call = "settlePayout"
            /\ session'[s].left = session[s].left - portion
        BY <1>1, <1>2, <2>11 DEF Session
      <4>2. sent + session[s].left >= netCents(TotalCents, CommissionBps)
        BY <1>1 DEF Backed
      <4>3. sent' + session'[s].left >= netCents(TotalCents, CommissionBps)
        BY <1>3, <2>1, <2>5, <4>1, <4>2, NetIsInt DEF TypeOK
      <4> QED
        BY <3>1, <1>1, <1>2, <4>1, <4>3 DEF Backed, Kinds
    <3>2. CASE t # s
      BY <2>1, <2>13, <2>14, <3>2, StaysBacked DEF TypeOK
    <3> QED
      BY <3>1, <3>2
  <2> QED
    BY <2>13, <2>15, <2>16
<1> QED
  BY <1>5, <1>6

-----------------------------------------------------------------------------
(* Committing *)

\* What a commit writes is typed, and leaves what was paid paid.
LEMMA WritesType ==
  ASSUME IInv, NEW s \in Sessions, Writes(s), session[s].call # "none", session[s].made \subseteq Kinds
  PROVE  /\ payment' \in [Kinds -> [status: {"NONE", "PENDING", "SUCCEEDED"}, charge: Nat]]
         /\ ledger' \in [hold: SUBSET Kinds, refund: SUBSET Kinds, released: BOOLEAN,
                       portions: SUBSET [dispute: Nat, kind: Kinds, cents: Nat], out: Int]
         /\ payout' \in {"NONE", "PENDING", "PAID"}
         /\ dispute' \in Seq([open: BOOLEAN, pre: OrderStatus])
         /\ Paid \subseteq Paid'
<1> USE DEF IInv
<1>1. session[s] \in Session
  BY DEF TypeOK
<1>2. payment' \in [Kinds -> [status: {"NONE", "PENDING", "SUCCEEDED"}, charge: Nat]]
  <2>1. session[s].row \in Nat
    BY <1>1 DEF Session
  <2>2. payment' \in {payment, [payment EXCEPT !["BALANCE"].status = "PENDING"],
                     [k \in Kinds |-> IF k \in session[s].made
                                     THEN [status |-> "SUCCEEDED", charge |-> session[s].row]
                                     ELSE payment[k]]}
    BY DEF Writes
  <2>3. [payment EXCEPT !["BALANCE"].status = "PENDING"]
           \in [Kinds -> [status: {"NONE", "PENDING", "SUCCEEDED"}, charge: Nat]]
    BY DEF TypeOK
  <2>4. [k \in Kinds |-> IF k \in session[s].made
                        THEN [status |-> "SUCCEEDED", charge |-> session[s].row]
                        ELSE payment[k]]
           \in [Kinds -> [status: {"NONE", "PENDING", "SUCCEEDED"}, charge: Nat]]
    BY <2>1 DEF TypeOK
  <2> QED
    BY <2>2, <2>3, <2>4 DEF TypeOK
<1>3. /\ ledger' \in [hold: SUBSET Kinds, refund: SUBSET Kinds, released: BOOLEAN,
                       portions: SUBSET [dispute: Nat, kind: Kinds, cents: Nat], out: Int]
      /\ payout' \in {"NONE", "PENDING", "PAID"}
  <2>1. CASE session[s].call \in {"payDeposit", "payBalance"}
    <3>1. ledger' = [ledger EXCEPT !.hold = @ \cup session[s].made] /\ payout' = payout
      BY <2>1 DEF Writes, Booked, Repays, Refunds
    <3> QED
      BY <3>1 DEF TypeOK
  <2>2. CASE session[s].call \in Refunds
    <3>1. ledger' = [ledger EXCEPT !.refund = @ \cup session[s].made] /\ payout' = payout
      BY <2>2 DEF Writes, Booked, Repays, Refunds
    <3> QED
      BY <3>1 DEF TypeOK
  <2>5. CASE session[s].call = "resolvePartial"
    <3> DEFINE portions == {[dispute |-> session[s].row, kind |-> k, cents |-> Due(s, k)] :
                              k \in session[s].made}
               out == ledger.out + Given(session[s].held, session[s].made)
    <3>1. /\ ledger' = [ledger EXCEPT !.out = out, !.portions = @ \cup portions]
          /\ payout' = payout
      BY <2>5 DEF Writes, Booked, Repays, Refunds
    <3>2. portions \subseteq [dispute: Nat, kind: Kinds, cents: Nat]
      <4>1. session[s].row \in Nat /\ \A k \in Kinds : Due(s, k) \in Nat
        BY <1>1, <2>5, AmountIsNat DEF Session, Backed, Repays
      <4> QED
        BY <4>1
    <3>3. out \in Int
      <4>1. \A k \in Kinds : Portion(session[s].held, k) \in Nat
        BY <2>5, AmountIsNat DEF Backed, Repays, Due
      <4> QED
        BY <4>1 DEF Given, TypeOK, Kinds
    <3> HIDE DEF portions, out
    <3> QED
      BY <3>1, <3>2, <3>3 DEF TypeOK
  <2>3. CASE session[s].call \in Releases
    <3>1. \/ ReleaseOf(session[s].held) \/ UNCHANGED <<ledger, payout>>
      BY <2>3 DEF Writes, Releases, Repays, Refunds
    <3>2. ledger.out + session[s].held \in Int
      BY <1>1 DEF Session, TypeOK
    <3>3. /\ \/ ledger' = ledger
             \/ ledger' = [ledger EXCEPT !.released = TRUE, !.out = ledger.out + session[s].held]
          /\ payout' \in {payout, "PENDING"}
      BY <3>1 DEF ReleaseOf
    <3> QED
      BY <3>2, <3>3 DEF TypeOK
  <2>4. CASE session[s].call \notin Repays \cup Releases \cup {"payDeposit", "payBalance"}
    <3>1. ledger' = ledger /\ payout' \in {payout, "PAID"}
      BY <2>4 DEF Writes, Releases, Repays, Refunds
    <3> QED
      BY <3>1 DEF TypeOK
  <2> QED
    BY <2>1, <2>2, <2>3, <2>4, <2>5 DEF Repays
<1>4. dispute' \in Seq([open: BOOLEAN, pre: OrderStatus])
  <2> DEFINE D == [open: BOOLEAN, pre: OrderStatus]
             row == session[s].row
  <2>1. dispute \in Seq(D)
    BY DEF TypeOK
  <2>2. CASE session[s].call = "openDispute"
    <3>1. dispute' = Append(dispute, [open |-> TRUE, pre |-> session[s].from])
      BY <2>2 DEF Writes, Closes
    <3>2. [open |-> TRUE, pre |-> session[s].from] \in D
      BY <1>1 DEF Session
    <3> QED
      BY <2>1, <3>1, <3>2, AppendProperties
  <2>3. CASE session[s].call \in Closes \cup {"respond"}
    <3>1. PICK open \in BOOLEAN : dispute' = [dispute EXCEPT ![row].open = open]
      BY <2>3 DEF Writes, Closes
    <3>2. CASE row \in DOMAIN dispute
      <4>0. row \in 1..Len(dispute)
        BY <2>1, <3>2
      <4>1. dispute[row] \in D /\ row \in 1..Len(dispute)
        <5> HIDE DEF D, row
        <5> QED
          BY <2>1, <4>0, ElementOfSeq
      <4>2. [dispute[row] EXCEPT !.open = open] \in D
        BY <4>1
      <4>3. dispute' = [dispute EXCEPT ![row] = [dispute[row] EXCEPT !.open = open]]
        BY <3>1, <3>2
      <4> QED
        BY <2>1, <4>1, <4>2, <4>3, ExceptSeq
    <3>3. CASE row \notin DOMAIN dispute
      <4>1. dispute' = dispute
        BY <2>1, <3>1, <3>3
      <4> QED
        BY <2>1, <4>1
    <3> QED
      BY <3>2, <3>3
  <2>4. CASE session[s].call \notin Closes \cup {"openDispute", "respond"}
    BY <2>1, <2>4 DEF Writes, Closes
  <2> QED
    BY <2>2, <2>3, <2>4
<1>5. Paid \subseteq Paid'
  BY DEF Writes, Paid, TypeOK, Kinds
<1> QED
  BY <1>2, <1>3, <1>4, <1>5

\* A commit books what its call did, and nothing that it did not do.
LEMMA CommitStep ==
  ASSUME IInv, NEW s \in Sessions, commit(s)
  PROVE  IInv'
<1> USE DEF IInv
<1> DEFINE me == session[s]
<1>1. /\ me.call # "none" /\ me.todo = {} /\ me.left = 0
      /\ status' = IF me.to = KEEP THEN status ELSE me.to
      /\ Writes(s)
      /\ session' = [t \in Sessions |->
                       IF t = s \/ session[t] = Idle THEN Idle
                       ELSE [session[t] EXCEPT !.over = @ \cup {me.call}]]
      /\ holder' = IF holder = s THEN Nobody ELSE holder
      /\ charge' = charge /\ sent' = sent /\ torn' = torn
      /\ stranded' = IF me.to = "CANCELLED"
                     THEN {k \in Kinds : payment'[k].status = "SUCCEEDED"} \ ledger'.refund
                     ELSE stranded
  BY DEF commit, adapter
<1>2. me \in Session
  BY DEF TypeOK
<1>3. me.made \subseteq Kinds /\ me.call \in Calls /\ me.to \in OrderStatus \cup {KEEP}
  BY <1>1, <1>2 DEF Session
<1>4. /\ payment' \in [Kinds -> [status: {"NONE", "PENDING", "SUCCEEDED"}, charge: Nat]]
      /\ ledger' \in [hold: SUBSET Kinds, refund: SUBSET Kinds, released: BOOLEAN,
                       portions: SUBSET [dispute: Nat, kind: Kinds, cents: Nat], out: Int]
      /\ payout' \in {"NONE", "PENDING", "PAID"}
      /\ dispute' \in Seq([open: BOOLEAN, pre: OrderStatus])
      /\ Paid \subseteq Paid'
  BY <1>1, <1>3, WritesType
<1>5. session' \in [Sessions -> Session]
  <2>1. ASSUME NEW t \in Sessions PROVE session'[t] \in Session
    <3>1. CASE t = s \/ session[t] = Idle
      BY <1>1, <3>1, IdleIsSession
    <3>2. CASE ~(t = s \/ session[t] = Idle)
      <4>1. session'[t] = [session[t] EXCEPT !.over = @ \cup {me.call}]
        BY <1>1, <3>2
      <4>2. session[t] \in Session
        BY DEF TypeOK
      <4> QED
        BY <1>3, <4>1, <4>2 DEF Session
    <3> QED
      BY <3>1, <3>2
  <2> QED
    BY <1>1, <2>1
<1>6. TypeOK'
  <2>1. status' \in OrderStatus /\ holder' \in Sessions \cup {Nobody} /\ stranded' \subseteq Kinds
    BY <1>1, <1>3 DEF TypeOK
  <2> QED
    BY <1>1, <1>4, <1>5, <2>1 DEF TypeOK
<1>7. Onward
  BY <1>1, <1>4 DEF Onward, ChargesOf, Returned, TypeOK
<1>8. BooksNeverAhead'
  <2>1. /\ \A k \in Paid' : k \in ledger'.hold /\ payment'[k].charge \in ChargesOf(k)
        /\ ledger'.hold \subseteq Paid'
        /\ \A k \in ledger'.refund : Returned(k, Amount(k))
        /\ \A p \in ledger'.portions : Returned(p.kind, p.cents)
        /\ payout' = "PAID" => sent >= netCents(TotalCents, CommissionBps)
    <3>1. /\ \A k \in Paid : k \in ledger.hold /\ payment[k].charge \in ChargesOf(k)
          /\ ledger.hold \subseteq Paid
          /\ \A k \in ledger.refund : Returned(k, Amount(k))
          /\ \A p \in ledger.portions : Returned(p.kind, p.cents)
          /\ payout = "PAID" => sent >= netCents(TotalCents, CommissionBps)
      BY DEF BooksNeverAhead
    <3>2. CASE me.call \in {"payDeposit", "payBalance"}
      <4>1. /\ ledger' = [ledger EXCEPT !.hold = @ \cup me.made] /\ payout' = payout
            /\ payment' = [k \in Kinds |-> IF k \in me.made
                                           THEN [status |-> "SUCCEEDED", charge |-> me.row]
                                           ELSE payment[k]]
        BY <1>1, <3>2 DEF Writes, Booked, Repays, Refunds
      <4>2. \A k \in me.made : me.row \in ChargesOf(k)
        BY <1>3, <3>2 DEF Backed, Pay, Kinds
      <4>3. Paid' = Paid \cup me.made
        BY <1>3, <4>1 DEF Paid
      <4>4. ledger'.hold = ledger.hold \cup me.made /\ ledger'.refund = ledger.refund
            /\ ledger'.portions = ledger.portions
        BY <4>1 DEF TypeOK
      <4>5. Paid \subseteq Kinds
        BY DEF Paid
      <4> QED
        BY <1>3, <3>1, <4>1, <4>2, <4>3, <4>4, <4>5
    <3>3. CASE me.call \in Refunds
      <4>1. /\ ledger' = [ledger EXCEPT !.refund = @ \cup me.made] /\ payout' = payout
            /\ payment' = payment
        BY <1>1, <3>3 DEF Writes, Booked, Repays, Refunds
      <4>2. \A k \in me.made : Returned(k, Amount(k))
        BY <3>3 DEF Backed, Repays, Refunds, Due
      <4>3. ledger'.hold = ledger.hold /\ ledger'.refund = ledger.refund \cup me.made
            /\ ledger'.portions = ledger.portions
        BY <4>1 DEF TypeOK
      <4>4. Paid' = Paid
        BY <4>1 DEF Paid
      <4> QED
        BY <3>1, <4>1, <4>2, <4>3, <4>4
    <3>5. CASE me.call = "resolvePartial"
      <4> DEFINE portions == {[dispute |-> me.row, kind |-> k, cents |-> Due(s, k)] : k \in me.made}
      <4>1. /\ ledger'.hold = ledger.hold /\ ledger'.refund = ledger.refund
            /\ ledger'.portions = ledger.portions \cup portions
            /\ payout' = payout /\ payment' = payment
        <5>1. /\ ledger' = [ledger EXCEPT !.out = @ + Given(me.held, me.made),
                                          !.portions = @ \cup portions]
              /\ payout' = payout /\ payment' = payment
          BY <1>1, <3>5 DEF Writes, Booked, Repays, Refunds
        <5> HIDE DEF portions
        <5> QED
          BY <5>1 DEF TypeOK
      <4>2. \A p \in portions : Returned(p.kind, p.cents)
        <5>1. \A k \in me.made : Returned(k, Due(s, k))
          BY <3>5 DEF Backed, Repays
        <5> QED
          BY <5>1 DEF Returned
      <4>3. Paid' = Paid
        BY <4>1 DEF Paid
      <4> HIDE DEF portions
      <4> QED
        BY <3>1, <4>1, <4>2, <4>3
    <3>4. CASE me.call \notin Repays \cup {"payDeposit", "payBalance"}
      <4>1. payment' \in {payment, [payment EXCEPT !["BALANCE"].status = "PENDING"]}
            /\ (payment' # payment => payment["BALANCE"].status = "NONE")
        BY <1>1, <3>4 DEF Writes
      <4>2. Paid' = Paid /\ \A k \in Paid : payment'[k] = payment[k]
        BY <4>1 DEF Paid, TypeOK, Kinds
      <4>3. ledger'.hold = ledger.hold /\ ledger'.refund = ledger.refund
            /\ ledger'.portions = ledger.portions
        BY <1>1, <3>4 DEF Writes, ReleaseOf, Repays, Refunds, TypeOK
      <4>4. payout' = "PAID" => payout = "PAID" \/ me.call = "settlePayout"
        BY <1>1, <3>4 DEF Writes, ReleaseOf, Repays, Refunds
      <4>5. me.call = "settlePayout" => sent >= netCents(TotalCents, CommissionBps)
        BY <1>1, NetIsInt DEF Backed, TypeOK
      <4> QED
        BY <3>1, <4>2, <4>3, <4>4, <4>5
    <3> QED
      BY <3>2, <3>3, <3>4, <3>5 DEF Repays
  <2>2. \A c \in DOMAIN charge : HeldOn(c) >= 0
    BY DEF BooksNeverAhead
  <2> QED
    BY <1>1, <2>1, <2>2 DEF BooksNeverAhead, Returned, ChargesOf, HeldOn, Paid, Amount
<1>9. ASSUME NEW t \in Sessions PROVE Backed(t)'
  <2>1. CASE t = s \/ session[t] = Idle
    <3>1. session'[t] = Idle
      BY <1>1, <2>1
    <3> QED
      BY <3>1 DEF Backed, Idle, Pay, Repays, Refunds, Kinds
  <2>2. CASE ~(t = s \/ session[t] = Idle)
    <3>1. session'[t] = [session[t] EXCEPT !.over = @ \cup {me.call}]
      BY <1>1, <2>2
    <3>2. session[t] \in Session
      BY DEF TypeOK
    <3>3. /\ session'[t].call = session[t].call /\ session'[t].row = session[t].row
          /\ session'[t].todo = session[t].todo /\ session'[t].made = session[t].made
          /\ session'[t].left = session[t].left /\ session'[t].held = session[t].held
      BY <3>1, <3>2 DEF Session
    <3> QED
      BY <1>6, <1>7, <3>3, StaysBacked
  <2> QED
    BY <2>1, <2>2
<1> QED
  BY <1>6, <1>8, <1>9

-----------------------------------------------------------------------------

\* Whatever overlaps and rolls back, for any number of open transactions: the
\* invariant behind BooksNeverAhead, which knows what every open call has done.
THEOREM RacesInductive == Spec => []IInv
<1>1. IInv /\ [Next]_vars => IInv'
  <2> SUFFICES ASSUME IInv, [Next]_vars PROVE IInv'
    OBVIOUS
  <2>1. CASE UNCHANGED vars
    <3>1. /\ UNCHANGED <<status, payment, ledger, payout, dispute, charge, sent>>
          /\ UNCHANGED <<session, holder, crossed, torn, stranded>>
      BY <2>1 DEF vars, rows, adapter, history
    <3>2. TypeOK'
      BY <3>1 DEF IInv, TypeOK
    <3>3. BooksNeverAhead'
      BY <3>1 DEF IInv, BooksNeverAhead, Paid, ChargesOf, HeldOn, Returned
    <3>4. \A s \in Sessions : Backed(s)'
      BY <3>1 DEF IInv, Backed, Paid, ChargesOf, Returned, Due, Portion, Amount
    <3> QED
      BY <3>2, <3>3, <3>4 DEF IInv
  <2>2. ASSUME NEW s \in Sessions,
               \/ read(s)
               \/ \E k \in Kinds : \/ captureCharge(s, k)
                                   \/ refundCharge(s, k)
                                   \/ transferToConnectedAccount(s, k)
               \/ commit(s)
               \/ rollback(s)
        PROVE  IInv'
    BY <2>2, ReadStep, CaptureStep, RefundStep, TransferStep, CommitStep, RollbackStep
  <2> QED
    BY <2>1, <2>2 DEF Next
<1> QED
  BY InitHolds, <1>1, PTL DEF Spec

\* order-repository.ts:1047.  Overlapping calls may harm an order, but however
\* many overlap and whichever roll back, its books never claim more than the
\* processor did.
THEOREM BooksHold == Spec => []BooksNeverAhead
<1>1. IInv => BooksNeverAhead
  BY DEF IInv
<1> QED
  BY RacesInductive, <1>1, PTL

-----------------------------------------------------------------------------
(* The shapes of a step, field by field *)

Active(s) == session[s].call # "none"
Elsewhere(s) == \A t \in Sessions : t # s => session'[t] = session[t]
RowsStay == UNCHANGED <<status, payment, ledger, payout, dispute>>

\* The call of s reads what it reads, and has done nothing.
Begins(s, call, d, to) ==
    /\ RowsStay /\ UNCHANGED <<charge, sent, crossed, torn, stranded>> /\ Elsewhere(s)
    /\ session[s] = Idle
    /\ session'[s].call = call /\ session'[s].to = to /\ session'[s].row = d
    /\ session'[s].made = {} /\ session'[s].over = {}
    /\ call = "openDispute" => session'[s].from = status
    /\ call \in Releases => session'[s].held = Held
    /\ call \in Refunds => session'[s].todo = Paid
    /\ call = "resolvePartial" => \A k \in session'[s].todo : Due(s, k)' > 0
    /\ call = "settlePayout" => session'[s].left = Net

\* The call of s is at the adapter, and the order's rows wait.
Acts(s) ==
    /\ RowsStay /\ UNCHANGED <<crossed, torn, stranded>> /\ Elsewhere(s) /\ Active(s)
    /\ session'[s].call = session[s].call /\ session'[s].to = session[s].to
    /\ session'[s].from = session[s].from /\ session'[s].held = session[s].held
    /\ session'[s].over = session[s].over
    /\ \A c \in DOMAIN charge :
         c \in DOMAIN charge' /\ charge'[c].refunded >= charge[c].refunded

Captures(s, k) ==
    /\ session[s].call = Pay(k) /\ k \in session[s].todo
    /\ session'[s].todo = session[s].todo \ {k} /\ session'[s].made = session[s].made \cup {k}
    /\ session'[s].row = Len(charge) + 1 /\ session'[s].left = session[s].left
    /\ ChargesOf(k)' = ChargesOf(k) \cup {Len(charge) + 1}
    /\ \A kind \in Kinds : kind # k => ChargesOf(kind)' = ChargesOf(kind)
    /\ \A c \in DOMAIN charge : charge'[c] = charge[c]
    /\ sent' = sent

\* A refund that is booked already is not made again.
GivesBack(s, k) ==
    /\ session[s].call \in Repays /\ k \in session[s].todo
    /\ session'[s].todo = session[s].todo \ {k}
    /\ \/ /\ session'[s].made = session[s].made
          /\ session[s].call \in Refunds => k \in ledger.refund
       \/ /\ session'[s].made = session[s].made \cup {k}
          /\ HeldOn(payment[k].charge) >= Due(s, k)
          /\ charge'[payment[k].charge].refunded >= Due(s, k)
    /\ session'[s].row = session[s].row /\ session'[s].left = session[s].left
    /\ \A kind \in Kinds : ChargesOf(kind)' = ChargesOf(kind)
    /\ \A c \in DOMAIN charge : charge'[c].transferred = charge[c].transferred
    /\ sent' = sent

\* Cents of the payout that have been drawn from the charge recorded for k.
Drawn(k) == IF k \in Paid THEN charge[payment[k].charge].transferred ELSE 0

Draws(s, k, portion) ==
    /\ session[s].call = "settlePayout" /\ k \in session[s].todo
    /\ session'[s].todo = session[s].todo \ {k}
    /\ session'[s].left = session[s].left - portion
    /\ session[s].left >= 0 => portion <= session[s].left
    /\ session'[s].row = session[s].row
    /\ session'[s].made = IF portion > 0 THEN session[s].made \cup {k} ELSE session[s].made
    /\ \A kind \in Kinds : ChargesOf(kind)' = ChargesOf(kind)
    /\ sent' = sent + portion
    /\ \A kind \in Kinds : Drawn(kind)' = Drawn(kind) + (IF kind = k THEN portion ELSE 0)

\* The call of s commits, and every other open call has it to cross.
Commits(s) ==
    /\ Active(s) /\ session[s].todo = {} /\ session[s].left = 0
    /\ UNCHANGED <<charge, sent, torn>>
    /\ session'[s] = Idle
    /\ \A t \in Sessions : t # s =>
         /\ session'[t].call = session[t].call /\ session'[t].to = session[t].to
         /\ session'[t].from = session[t].from /\ session'[t].held = session[t].held
         /\ session'[t].row = session[t].row /\ session'[t].todo = session[t].todo
         /\ session'[t].made = session[t].made /\ session'[t].left = session[t].left
         /\ Active(t) => session'[t].over = session[t].over \cup {session[s].call}
    /\ crossed \subseteq crossed'
    /\ \A other \in session[s].over : {session[s].call, other} \in crossed'
    /\ status' = IF session[s].to = KEEP THEN status ELSE session[s].to
    /\ Writes(s)
    /\ stranded' = IF session[s].to = "CANCELLED"
                   THEN {k \in Kinds : payment'[k].status = "SUCCEEDED"} \ ledger'.refund
                   ELSE stranded

RollsBack(s) ==
    /\ RowsStay /\ UNCHANGED <<charge, sent, crossed, stranded>> /\ Elsewhere(s) /\ Active(s)
    /\ session'[s] = Idle
    /\ torn \subseteq torn'
    /\ session[s].made # {} => session[s].call \in torn'

\* A call reads.
LEMMA ReadShape ==
  ASSUME IInv, NEW s \in Sessions, read(s)
  PROVE  \E call \in Calls, d \in Nat : \E to \in Landings(call, d) : Begins(s, call, d, to)
<1> USE DEF IInv
<1>1. PICK call \in Calls, d \in 0..MaxDisputes, cents \in PartialCents \cup {0} :
        \E to \in Landings(call, d) :
          session' = [session EXCEPT ![s] = Opened(call, d, cents, to)]
  BY DEF read
<1>2. PICK to \in Landings(call, d) :
        session' = [session EXCEPT ![s] = Opened(call, d, cents, to)]
  BY <1>1
<1>3. /\ session'[s].call = call /\ session'[s].to = to /\ session'[s].row = d
      /\ session'[s].made = {} /\ session'[s].over = {}
      /\ call = "openDispute" => session'[s].from = status
      /\ call \in Releases => session'[s].held = Held
      /\ call \in Refunds => session'[s].todo = Paid
      /\ call = "resolvePartial" => \A k \in session'[s].todo : Due(s, k)' > 0
      /\ call = "settlePayout" => session'[s].left = Net
  <2>1. session'[s] = Opened(call, d, cents, to)
    BY <1>2 DEF TypeOK
  <2>2. call = "resolvePartial" =>
          /\ session'[s].call = call /\ session'[s].held = cents
          /\ session'[s].todo = {k \in Paid : Portion(cents, k) > 0}
    BY <2>1 DEF Opened, Refunds, Releases
  <2>3. call = "resolvePartial" => \A k \in session'[s].todo : Due(s, k)' > 0
    <3>1. call = "resolvePartial" => \A k : Due(s, k)' = Portion(cents, k)
      BY <2>2 DEF Due, Portion, Amount
    <3> QED
      BY <2>2, <3>1
  <2> QED
    BY <2>1, <2>3 DEF Opened, Refunds, Releases, Net
<1>4. Elsewhere(s)
  BY <1>2 DEF Elsewhere, TypeOK
<1>5. RowsStay /\ UNCHANGED <<charge, sent, crossed, torn, stranded>> /\ session[s] = Idle
  BY DEF read, rows, adapter, history, RowsStay
<1>6. Begins(s, call, d, to) /\ d \in Nat
  BY <1>3, <1>4, <1>5, RacesAssumption DEF Begins
<1> QED
  BY <1>6

\* Charges are rows.
LEMMA ChargeRows ==
  ASSUME TypeOK
  PROVE  charge \in Seq(Row) /\ \A c \in DOMAIN charge : charge[c] \in Row
<1>1. charge \in Seq(Row)
  BY DEF TypeOK, Row
<1> QED
  BY <1>1, ElementOfSeq

\* A capture adds a charge.
LEMMA CaptureShape ==
  ASSUME IInv, NEW s \in Sessions, NEW k \in Kinds, captureCharge(s, k)
  PROVE  Acts(s) /\ Captures(s, k)
<1> USE DEF IInv
<1> DEFINE new == [kind |-> k, refunded |-> 0, transferred |-> 0]
<1>1. /\ session[s].call = Pay(k) /\ k \in session[s].todo
      /\ charge' = Append(charge, new)
      /\ session' = [session EXCEPT ![s] = [Done(s, k) EXCEPT !.row = Len(charge) + 1]]
      /\ UNCHANGED <<status, payment, ledger, payout, dispute, sent, crossed, torn, stranded>>
  BY DEF captureCharge, rows, history
<1>2. session[s] \in Session
  BY DEF TypeOK
<1>3. Elsewhere(s)
  BY <1>1 DEF Elsewhere, TypeOK
<1>4. session'[s] = [Done(s, k) EXCEPT !.row = Len(charge) + 1]
  BY <1>1 DEF TypeOK
<1>5. /\ session'[s].call = session[s].call /\ session'[s].to = session[s].to
      /\ session'[s].from = session[s].from /\ session'[s].held = session[s].held
      /\ session'[s].over = session[s].over
      /\ session'[s].todo = session[s].todo \ {k} /\ session'[s].made = session[s].made \cup {k}
      /\ session'[s].row = Len(charge) + 1 /\ session'[s].left = session[s].left
  BY <1>2, <1>4 DEF Done, Session
<1>6. /\ Len(charge) \in Nat /\ DOMAIN charge = 1..Len(charge)
      /\ DOMAIN charge' = 1..(Len(charge) + 1)
      /\ \A i \in DOMAIN charge : charge'[i] = charge[i]
      /\ charge'[Len(charge) + 1] = new
  <2>1. charge \in Seq(Row) /\ new \in Row
    BY DEF TypeOK, Row
  <2> QED
    BY <1>1, <2>1, AppendProperties
<1>7. /\ ChargesOf(k)' = ChargesOf(k) \cup {Len(charge) + 1}
      /\ \A kind \in Kinds : kind # k => ChargesOf(kind)' = ChargesOf(kind)
  BY <1>6 DEF ChargesOf
<1>8. Pay(k) # "none"
  BY DEF Pay
<1>9. \A i \in DOMAIN charge :
        i \in DOMAIN charge' /\ charge'[i].refunded >= charge[i].refunded
  <2>1. \A i \in DOMAIN charge : charge[i].refunded \in Nat
    BY ChargeRows DEF Row
  <2> QED
    BY <1>6, <2>1
<1> QED
  BY <1>1, <1>3, <1>5, <1>6, <1>7, <1>8, <1>9 DEF Acts, Captures, RowsStay, Active

\* A refund leaves the transfers alone.
LEMMA RefundShape ==
  ASSUME IInv, NEW s \in Sessions, NEW k \in Kinds, refundCharge(s, k)
  PROVE  Acts(s) /\ GivesBack(s, k)
<1> USE DEF IInv
<1> DEFINE c == payment[k].charge
<1>1. /\ session[s].call \in Repays /\ k \in session[s].todo
      /\ UNCHANGED <<status, payment, ledger, payout, dispute, sent, crossed, torn, stranded>>
      /\ \/ Replayed(s, k) /\ session' = [session EXCEPT ![s].todo = @ \ {k}] /\ charge' = charge
         \/ /\ HeldOn(c) >= Due(s, k)
            /\ charge' = [charge EXCEPT ![c].refunded = @ + Due(s, k)]
            /\ session' = [session EXCEPT ![s] = Done(s, k)]
  BY DEF refundCharge, rows, history
<1>2. session[s] \in Session
  BY DEF TypeOK
<1>3. Elsewhere(s)
  BY <1>1 DEF Elsewhere, TypeOK
<1>4. /\ session'[s].call = session[s].call /\ session'[s].to = session[s].to
      /\ session'[s].from = session[s].from /\ session'[s].held = session[s].held
      /\ session'[s].over = session[s].over
      /\ session'[s].todo = session[s].todo \ {k}
      /\ \/ /\ session'[s].made = session[s].made
            /\ session[s].call \in Refunds => k \in ledger.refund
            /\ charge' = charge
         \/ /\ session'[s].made = session[s].made \cup {k}
            /\ HeldOn(c) >= Due(s, k)
            /\ charge' = [charge EXCEPT ![c].refunded = @ + Due(s, k)]
      /\ session'[s].row = session[s].row /\ session'[s].left = session[s].left
  <2>1. CASE Replayed(s, k) /\ session' = [session EXCEPT ![s].todo = @ \ {k}] /\ charge' = charge
    <3>1. session'[s] = [session[s] EXCEPT !.todo = @ \ {k}]
      BY <2>1 DEF TypeOK
    <3>2. session[s].call \in Refunds => k \in ledger.refund
      BY <2>1 DEF Replayed, Refunds
    <3> QED
      BY <1>2, <2>1, <3>1, <3>2 DEF Session
  <2>2. CASE /\ HeldOn(c) >= Due(s, k)
             /\ charge' = [charge EXCEPT ![c].refunded = @ + Due(s, k)]
             /\ session' = [session EXCEPT ![s] = Done(s, k)]
    <3>1. session'[s] = Done(s, k)
      BY <2>2 DEF TypeOK
    <3>2. /\ session'[s].call = session[s].call /\ session'[s].to = session[s].to
          /\ session'[s].from = session[s].from /\ session'[s].held = session[s].held
          /\ session'[s].over = session[s].over
          /\ session'[s].todo = session[s].todo \ {k}
          /\ session'[s].made = session[s].made \cup {k}
          /\ session'[s].row = session[s].row /\ session'[s].left = session[s].left
      <4> HIDE DEF c
      <4> QED
        BY <1>2, <3>1 DEF Session, Done
    <3> HIDE DEF c
    <3> QED
      BY <2>2, <3>2
  <2> QED
    BY <1>1, <2>1, <2>2
<1>d. k \in Paid /\ c \in DOMAIN charge /\ Due(s, k) \in Nat
  <2>1. k \in Paid /\ Due(s, k) \in Nat
    BY <1>1, AmountIsNat DEF Backed
  <2> QED
    BY <2>1 DEF BooksNeverAhead, ChargesOf
<1>r. charge \in Seq(Row) /\ \A e \in DOMAIN charge : charge[e] \in Row
  BY ChargeRows
<1>e. ASSUME charge' = [charge EXCEPT ![c].refunded = @ + Due(s, k)]
      PROVE  /\ DOMAIN charge' = DOMAIN charge
             /\ \A e \in DOMAIN charge : /\ charge'[e].kind = charge[e].kind
                                         /\ charge'[e].transferred = charge[e].transferred
                                         /\ charge'[e].refunded >= charge[e].refunded
             /\ charge'[c].refunded >= Due(s, k)
  <2>1. DOMAIN charge' = DOMAIN charge
    BY <1>e, <1>r
  <2>2. charge'[c] = [charge[c] EXCEPT !.refunded = charge[c].refunded + Due(s, k)]
    BY <1>d, <1>e
  <2>3. \A e \in DOMAIN charge : e # c => charge'[e] = charge[e]
    BY <1>e
  <2>4. charge[c].refunded \in Nat /\ charge[c].refunded + Due(s, k) \in Nat
    BY <1>d, <1>r DEF Row
  <2> HIDE DEF c
  <2>5. /\ charge'[c].kind = charge[c].kind /\ charge'[c].transferred = charge[c].transferred
        /\ charge'[c].refunded = charge[c].refunded + Due(s, k)
    BY <1>d, <1>r, <2>2, <2>4, RowUpdate
  <2>6. \A e \in DOMAIN charge : charge[e].refunded \in Nat
    BY <1>r DEF Row
  <2> QED
    BY <1>d, <2>1, <2>3, <2>4, <2>5, <2>6
<1>5. /\ DOMAIN charge' = DOMAIN charge
      /\ \A e \in DOMAIN charge : /\ charge'[e].kind = charge[e].kind
                                  /\ charge'[e].transferred = charge[e].transferred
                                  /\ charge'[e].refunded >= charge[e].refunded
  <2>1. CASE charge' = charge
    BY <1>r, <2>1 DEF Row
  <2> QED
    BY <1>4, <1>e, <2>1
<1>6. \A kind \in Kinds : ChargesOf(kind)' = ChargesOf(kind)
  BY <1>5 DEF ChargesOf
<1>7. session[s].call # "none"
  BY <1>1 DEF Repays, Refunds
<1>8. Acts(s)
  BY <1>1, <1>3, <1>4, <1>5, <1>7 DEF Acts, RowsStay, Active
<1>9. \/ /\ session'[s].made = session[s].made
         /\ session[s].call \in Refunds => k \in ledger.refund
      \/ /\ session'[s].made = session[s].made \cup {k}
         /\ HeldOn(c) >= Due(s, k)
         /\ charge'[c].refunded >= Due(s, k)
  BY <1>4, <1>e
<1> QED
  BY <1>1, <1>4, <1>5, <1>6, <1>8, <1>9 DEF GivesBack

\* A transfer takes from the charge what it adds to what was sent.
LEMMA TransferShape ==
  ASSUME IInv, NEW s \in Sessions, NEW k \in Kinds, transferToConnectedAccount(s, k)
  PROVE  Acts(s) /\ \E portion \in Nat : Draws(s, k, portion)
<1> USE DEF IInv
<1> DEFINE c == payment[k].charge
           portion == Least(HeldOn(c), session[s].left)
<1>1. /\ session[s].call = "settlePayout" /\ k \in session[s].todo
      /\ UNCHANGED <<status, payment, ledger, payout, dispute, holder, crossed, torn, stranded>>
  BY DEF transferToConnectedAccount, rows, history
<1>2. session[s] \in Session /\ session[s].left \in Int
  BY DEF TypeOK, Session
<1>3. /\ Paid' = Paid
      /\ \A kind \in Paid : payment'[kind] = payment[kind] /\ payment[kind].charge \in ChargesOf(kind)
  BY <1>1 DEF Paid, BooksNeverAhead
<1>4. /\ charge \in Seq(Row)
      /\ \A e \in DOMAIN charge : charge[e] \in Row
    <2>1. charge \in Seq(Row)
      BY DEF TypeOK, Row
    <2> QED
      BY <2>1, ElementOfSeq
<1>5. \A kind \in Kinds : Drawn(kind) \in Nat
  BY <1>3, <1>4 DEF Drawn, ChargesOf, Row
<1>6. CASE ~(k \in Paid /\ session[s].left > 0)
  <2>1. session' = [session EXCEPT ![s].todo = @ \ {k}] /\ UNCHANGED <<charge, sent>>
    BY <1>6 DEF transferToConnectedAccount, adapter
  <2>2. session'[s] = [session[s] EXCEPT !.todo = session[s].todo \ {k}] /\ Elsewhere(s)
    BY <2>1 DEF Elsewhere, TypeOK
  <2>3. /\ session'[s].call = session[s].call /\ session'[s].to = session[s].to
        /\ session'[s].from = session[s].from /\ session'[s].held = session[s].held
        /\ session'[s].over = session[s].over
        /\ session'[s].todo = session[s].todo \ {k} /\ session'[s].made = session[s].made
        /\ session'[s].row = session[s].row /\ session'[s].left = session[s].left
    BY <1>2, <2>2 DEF Session
  <2>4. \A kind \in Kinds : ChargesOf(kind)' = ChargesOf(kind)
    BY <2>1 DEF ChargesOf
  <2>5. \A kind \in Kinds : Drawn(kind)' = Drawn(kind)
    BY <1>3, <2>1 DEF Drawn
  <2>6. sent \in Nat
    BY DEF TypeOK
  <2>7. Acts(s)
    <3>1. \A e \in DOMAIN charge : charge'[e].refunded >= charge[e].refunded
      BY <1>4, <2>1 DEF Row
    <3> QED
      BY <1>1, <2>1, <2>2, <2>3, <3>1 DEF Acts, RowsStay, Active
  <2>8. Draws(s, k, 0)
    BY <1>1, <1>2, <1>5, <2>1, <2>3, <2>4, <2>5, <2>6 DEF Draws
  <2> QED
    BY <2>7, <2>8
<1>7. CASE k \in Paid /\ session[s].left > 0
  <2>1. /\ charge' = [charge EXCEPT ![c].transferred = @ + portion]
        /\ sent' = sent + portion
        /\ session' = [session EXCEPT ![s].todo = @ \ {k}, ![s].left = @ - portion,
                         ![s].made = IF portion > 0 THEN @ \cup {k} ELSE @]
    BY <1>7 DEF transferToConnectedAccount, transferPortion
  <2>2. c \in DOMAIN charge /\ charge[c].kind = k
    BY <1>3, <1>7 DEF ChargesOf
  <2>3. charge[c] \in Row /\ Amount(k) \in Nat
    BY <1>4, <2>2, AmountIsNat
  <2>4. HeldOn(c) \in Nat
    BY <2>2, <2>3 DEF HeldOn, BooksNeverAhead, Row
  <2>5. portion \in Nat /\ portion <= session[s].left
    BY <1>2, <1>7, <2>4 DEF Least
  <2> HIDE DEF portion
  <2>6. /\ session'[s] = [session[s] EXCEPT !.todo = @ \ {k}, !.left = @ - portion,
                           !.made = IF portion > 0 THEN @ \cup {k} ELSE @]
        /\ Elsewhere(s)
    BY <2>1 DEF Elsewhere, TypeOK
  <2>7. /\ session'[s].call = session[s].call /\ session'[s].to = session[s].to
        /\ session'[s].from = session[s].from /\ session'[s].held = session[s].held
        /\ session'[s].over = session[s].over
        /\ session'[s].todo = session[s].todo \ {k}
        /\ session'[s].made = IF portion > 0 THEN session[s].made \cup {k} ELSE session[s].made
        /\ session'[s].row = session[s].row /\ session'[s].left = session[s].left - portion
    BY <1>2, <2>6 DEF Session
  <2>8. /\ DOMAIN charge' = DOMAIN charge
        /\ charge'[c].kind = charge[c].kind
        /\ charge'[c].transferred = charge[c].transferred + portion
        /\ charge'[c].refunded = charge[c].refunded
        /\ \A e \in DOMAIN charge : e # c => charge'[e] = charge[e]
    BY <2>1, <2>2, <2>3 DEF Row, TypeOK
  <2>9. \A kind \in Kinds : ChargesOf(kind)' = ChargesOf(kind)
    BY <2>8 DEF ChargesOf
  <2>10. ASSUME NEW kind \in Kinds
         PROVE  Drawn(kind)' = Drawn(kind) + (IF kind = k THEN portion ELSE 0)
    <3>1. CASE kind = k
      BY <1>3, <1>7, <2>8, <3>1 DEF Drawn
    <3>2. CASE kind # k /\ kind \in Paid
      <4>1. payment[kind].charge \in DOMAIN charge /\ payment[kind].charge # c
        BY <1>3, <2>2, <3>2 DEF ChargesOf
      <4>2. Drawn(kind)' = charge'[payment[kind].charge].transferred
        BY <1>3, <3>2 DEF Drawn
      <4>3. Drawn(kind) = charge[payment[kind].charge].transferred
        BY <3>2 DEF Drawn
      <4> HIDE DEF c
      <4> QED
        BY <1>5, <2>8, <3>2, <4>1, <4>2, <4>3
    <3>3. CASE kind # k /\ kind \notin Paid
      BY <1>3, <1>5, <3>3 DEF Drawn
    <3> QED
      BY <3>1, <3>2, <3>3
  <2>11. Acts(s)
    <3>1. \A e \in DOMAIN charge : charge[e].refunded \in Nat
      BY <1>4 DEF Row
    <3>2. \A e \in DOMAIN charge : e \in DOMAIN charge' /\ charge'[e].refunded >= charge[e].refunded
      <4> HIDE DEF c
      <4> QED
        BY <2>8, <3>1
    <3> QED
      BY <1>1, <2>6, <2>7, <3>2 DEF Acts, RowsStay, Active
  <2>12. Draws(s, k, portion)
    BY <1>1, <2>1, <2>5, <2>7, <2>9, <2>10 DEF Draws
  <2> QED
    BY <2>5, <2>11, <2>12
<1> QED
  BY <1>6, <1>7

\* A commit.
LEMMA CommitShape ==
  ASSUME IInv, NEW s \in Sessions, commit(s)
  PROVE  Commits(s)
<1> USE DEF IInv
<1>1. ASSUME NEW t \in Sessions, t # s
      PROVE  /\ session'[t].call = session[t].call /\ session'[t].to = session[t].to
             /\ session'[t].from = session[t].from /\ session'[t].held = session[t].held
             /\ session'[t].row = session[t].row /\ session'[t].todo = session[t].todo
             /\ session'[t].made = session[t].made /\ session'[t].left = session[t].left
             /\ Active(t) => session'[t].over = session[t].over \cup {session[s].call}
  <2>1. session[t] \in Session
    BY DEF TypeOK
  <2>2. CASE session[t] = Idle
    <3>1. session'[t] = session[t]
      BY <1>1, <2>2 DEF commit
    <3> QED
      BY <2>2, <3>1 DEF Active, Idle
  <2>3. CASE session[t] # Idle
    <3>1. session'[t] = [session[t] EXCEPT !.over = @ \cup {session[s].call}]
      BY <1>1, <2>3 DEF commit
    <3> QED
      BY <2>1, <3>1 DEF Session
  <2> QED
    BY <2>2, <2>3
<1>2. /\ session[s].call # "none" /\ session[s].todo = {} /\ session[s].left = 0
      /\ status' = IF session[s].to = KEEP THEN status ELSE session[s].to
      /\ Writes(s)
      /\ session'[s] = Idle
      /\ crossed' = crossed \cup {{session[s].call, other} : other \in session[s].over}
      /\ charge' = charge /\ sent' = sent /\ torn' = torn
      /\ stranded' = IF session[s].to = "CANCELLED"
                     THEN {k \in Kinds : payment'[k].status = "SUCCEEDED"} \ ledger'.refund
                     ELSE stranded
  BY DEF commit, adapter
<1>3. crossed \subseteq crossed' /\ \A other \in session[s].over : {session[s].call, other} \in crossed'
  BY <1>2
<1> QED
  BY <1>1, <1>2, <1>3 DEF Commits, Active

\* A rollback.
LEMMA RollbackShape ==
  ASSUME IInv, NEW s \in Sessions, rollback(s)
  PROVE  RollsBack(s)
BY DEF IInv, TypeOK, rollback, RollsBack, RowsStay, Elsewhere, Active, rows, adapter

\* Every step is one of these.
Step(s) ==
    \/ \E call \in Calls, d \in Nat : \E to \in Landings(call, d) : Begins(s, call, d, to)
    \/ Acts(s) /\ \E k \in Kinds : \/ Captures(s, k) \/ GivesBack(s, k)
                                   \/ \E portion \in Nat : Draws(s, k, portion)
    \/ Commits(s)
    \/ RollsBack(s)

LEMMA StepShapes == IInv /\ Next => \E s \in Sessions : Step(s)
BY ReadShape, CaptureShape, RefundShape, TransferShape, CommitShape, RollbackShape
   DEF Next, Step

\* What crossed stays crossed, and a commit crosses what it has over it.
LEMMA CrossedStays ==
  ASSUME crossed \subseteq crossed', NEW call, NEW others, Crossed(call, others)
  PROVE  Crossed(call, others)'
BY DEF Crossed

LEMMA CommitCrosses ==
  ASSUME NEW s \in Sessions, Commits(s), NEW call, call = session[s].call,
         NEW other \in session[s].over
  PROVE  /\ \A others : other \in others => Crossed(call, others)'
         /\ \A others : call \in others => Crossed(other, others)'
<1>1. {call, other} \in crossed' /\ {other, call} = {call, other}
  BY DEF Commits
<1> QED
  BY <1>1 DEF Crossed

-----------------------------------------------------------------------------
(* What a call found when it read *)

\* Where the machine leads.
LEMMA LandingFacts ==
  ASSUME NEW from \in OrderStatus, NEW event, NEW to \in Landing(from, event)
  PROVE  /\ event = "RELEASE_ESCROW" => to = "ESCROW_RELEASED"
         /\ event = "OPEN_DISPUTE" =>
              to = "DISPUTED" /\ from \notin {"DISPUTED", "CANCELLED"}
         /\ to = "CANCELLED" => event \in {"CANCEL", "RESOLVE_DISPUTE"}
         /\ from = "DISPUTED" => event = "RESOLVE_DISPUTE"
         /\ event = "RESOLVE_DISPUTE" => from = "DISPUTED"
         /\ from = "ESCROW_RELEASED" => event = "CLOSE"
         /\ from = "PARTIALLY_REFUNDED" => event = "RELEASE_ESCROW"
<1>1. PICK m \in PlainMoves \cup GatedMoves(Snapshot(from)) :
        m[1] = from /\ m[2] = event /\ m[3] = to
  BY DEF Landing
<1>2. CASE m \in PlainMoves
  BY <1>1, <1>2 DEF PlainMoves, CANCELABLE_STATUSES, DISPUTABLE_STATUSES, LEGAL_DISPUTE_RESOLUTIONS
<1>3. CASE m \in GatedMoves(Snapshot(from))
  BY <1>1, <1>3 DEF GatedMoves
<1> QED
  BY <1>1, <1>2, <1>3

\* The statuses a release or a partial refund takes the order to.
Settled == {"ESCROW_RELEASED", "PARTIALLY_REFUNDED"}
GivenOut(call) == IF call = "resolvePartial" THEN "PARTIALLY_REFUNDED" ELSE "ESCROW_RELEASED"

\* Where a call leads, given what it finds.
LEMMA LandingsFacts ==
  ASSUME TypeOK, NEW call \in Calls, NEW d \in Nat, NEW to \in Landings(call, d)
  PROVE  /\ \A k \in Kinds : call = Pay(k) => k \notin Paid
         /\ call = "settlePayout" => payout = "PENDING"
         /\ call = "openDispute" => to = "DISPUTED" /\ status \notin {"DISPUTED", "CANCELLED"}
         /\ call = "respond" => to = KEEP /\ d \in OpenDisputes
         /\ call \in GiveOuts => to = GivenOut(call) /\ status \notin Settled
         /\ to = "CANCELLED" =>
              \/ call \in Refunds
              \/ call = "withdraw" /\ d \in OpenDisputes /\ dispute[d].pre = "CANCELLED"
         /\ status = "DISPUTED" /\ OpenDisputes # {} =>
              \/ to = KEEP /\ call # "openDispute"
              \/ call \in Closes /\ d \in OpenDisputes
         /\ status \in Settled => to = KEEP /\ call \notin Repays \cup Releases
<1>1. status \in OrderStatus /\ "DELIVERED" \in OrderStatus
  BY DEF TypeOK, OrderStatus
<1>2. CASE call \in {Pay(k) : k \in Kinds}
  <2>1. PICK k \in Kinds : call = Pay(k) /\ to \in PayLanding(k)
    <3>1. PICK k \in Kinds : call = Pay(k)
      BY <1>2
    <3>2. CASE k = "DEPOSIT"
      BY <3>1, <3>2 DEF Landings, Pay, Closes
    <3>3. CASE k = "BALANCE"
      BY <3>1, <3>3 DEF Landings, Pay, Closes
    <3> QED
      BY <3>1, <3>2, <3>3 DEF Kinds
  <2>2. /\ payment[k].status = "PENDING"
        /\ (to = "DEPOSIT_PAID" /\ status = "DEPOSIT_DUE") \/ to = KEEP
    BY <2>1 DEF PayLanding
  <2>3. \A kind \in Kinds : call = Pay(kind) => kind = k
    BY <2>1 DEF Pay, Kinds
  <2>4. call \notin {"settlePayout", "openDispute", "respond"} \cup GiveOuts \cup Refunds
    BY <2>1 DEF Pay, GiveOuts, Releases, Refunds
  <2> QED
    BY <2>2, <2>3, <2>4 DEF Paid, KEEP, Settled, GiveOuts, Repays
<1>3. CASE call = "releaseEscrow"
  <2>1. /\ to \in Landing("DELIVERED", "RELEASE_ESCROW")
        /\ \E days \in 0..1 : releaseDecision(status, days, OpenDisputes # {}, 1) = "RELEASE"
    <3>1. to \in ReleaseLanding
      BY <1>3 DEF Landings, Closes
    <3> QED
      BY <3>1 DEF ReleaseLanding
  <2>2. OpenDisputes = {} /\ status \in {"DELIVERED", "SHIPPED"}
    BY <2>1 DEF releaseDecision
  <2>3. to = "ESCROW_RELEASED"
    BY <1>1, <2>1, LandingFacts
  <2> QED
    BY <1>3, <2>2, <2>3 DEF Pay, Kinds, Refunds, Settled, GivenOut
<1>4. CASE call = "settlePayout"
  BY <1>4 DEF Landings, Pay, Kinds, Closes, GiveOuts, Releases, Refunds, Repays, KEEP
<1>9. CASE call = "respond"
  BY <1>9 DEF Landings, Pay, Kinds, Closes, GiveOuts, Releases, Refunds, Repays, KEEP
<1>5. CASE call \in Closes
  <2>1. to \in CloseLanding(call, d)
    BY <1>5 DEF Landings, Closes
  <2>2. d \in OpenDisputes
    BY <2>1 DEF CloseLanding
  <2>3. CASE call \in DOMAIN Resolution
    <3>1. to \in Landing(status, "RESOLVE_DISPUTE") /\ to = Resolution[call]
      BY <2>1, <2>2, <2>3 DEF CloseLanding
    <3>2. status = "DISPUTED"
      BY <1>1, <3>1, LandingFacts
    <3>3. /\ call \in GiveOuts => to = GivenOut(call)
          /\ to = "CANCELLED" => call \in Refunds
      BY <2>3, <3>1 DEF Resolution, GiveOuts, Releases, GivenOut, Refunds
    <3>4. /\ call \notin {"settlePayout", "openDispute", "respond"}
          /\ \A k \in Kinds : call # Pay(k)
      BY <2>3 DEF Resolution, Pay
    <3> QED
      BY <1>5, <2>2, <3>2, <3>3, <3>4 DEF Settled
  <2>4. CASE call = "withdraw"
    <3>1. \/ to = KEEP
          \/ status = "DISPUTED" /\ to = dispute[d].pre
      BY <2>1, <2>2, <2>4 DEF CloseLanding, Resolution
    <3> QED
      BY <2>2, <2>4, <3>1 DEF Pay, Kinds, Closes, GiveOuts, Releases, Refunds, Repays, KEEP, Settled
  <2> QED
    BY <1>5, <2>3, <2>4 DEF Closes, Resolution
<1>6. CASE call \in DOMAIN EventOf
  <2>1. to \in Landing(status, EventOf[call])
    BY <1>6 DEF Landings, EventOf, Closes
  <2>2. call \notin {"settlePayout", "respond"} \cup Closes \cup GiveOuts
    BY <1>6 DEF EventOf, Closes, Releases, GiveOuts
  <2>3. \A k \in Kinds : call # Pay(k)
    BY <1>6 DEF EventOf, Pay, Kinds
  <2>4. /\ EventOf[call] \notin {"RELEASE_ESCROW", "RESOLVE_DISPUTE", "CLOSE"}
        /\ EventOf[call] = "OPEN_DISPUTE" <=> call = "openDispute"
        /\ EventOf[call] = "CANCEL" <=> call = "cancelOrder"
    BY <1>6 DEF EventOf
  <2>5. /\ call = "openDispute" => to = "DISPUTED" /\ status \notin {"DISPUTED", "CANCELLED"}
        /\ to = "CANCELLED" => call = "cancelOrder"
        /\ status # "DISPUTED" /\ status \notin Settled
    BY <1>1, <2>1, <2>4, LandingFacts DEF Settled
  <2> QED
    BY <2>2, <2>3, <2>5 DEF Refunds
<1>7. Calls = DOMAIN EventOf \cup Closes \cup {"respond", "releaseEscrow", "settlePayout"}
                \cup {Pay(k) : k \in Kinds}
  BY DEF Calls, Pay, Kinds
<1> QED
  BY <1>2, <1>3, <1>4, <1>5, <1>6, <1>7, <1>9

\* No call is none, and an open call is a call.
LEMMA ActiveIsCall ==
  ASSUME TypeOK, NEW s \in Sessions, Active(s)
  PROVE  session[s].call \in Calls
BY DEF TypeOK, Session, Active

-----------------------------------------------------------------------------
(* A dispute that is open freezes its order *)

OpeningCrossed == Crossed("openDispute", Calls) \/ Crossed("respond", Closes)

\* A call that read after the opening leaves the status alone or closes the
\* dispute; one that would open a dispute and has seen no commit since its read
\* still finds the order unfrozen; a response that no closing crossed has its
\* dispute open.
Frozen(s) ==
    /\ OpenDisputes # {} /\ Active(s) /\ "openDispute" \notin session[s].over =>
         \/ session[s].to = KEEP /\ session[s].call # "openDispute"
         \/ session[s].call \in Closes /\ session[s].row \in OpenDisputes
    /\ session[s].call = "openDispute" =>
         /\ session[s].to = "DISPUTED"
         /\ session[s].over = {} => status # "DISPUTED"
    /\ session[s].call = "respond" =>
         /\ session[s].to = KEEP
         /\ session[s].row \in OpenDisputes \/ session[s].over \cap Closes # {}

Freeze ==
    /\ OpenDisputes # {} => status = "DISPUTED"
    /\ \A d, e \in OpenDisputes : d = e
    /\ \A s \in Sessions : Frozen(s)

DisputeInv == OpeningCrossed \/ Freeze

LEMMA InitDisputes == Init => DisputeInv
BY DEF Init, DisputeInv, Freeze, Frozen, OpenDisputes, Active, Idle

\* What a commit leaves open: less what a closing call names, and what an
\* opening one or a response adds.
LEMMA OpenAfter ==
  ASSUME IInv, NEW s \in Sessions, Writes(s), Active(s)
  PROVE  /\ session[s].call \notin Closes \cup {"openDispute", "respond"} => OpenDisputes' = OpenDisputes
         /\ session[s].call = "respond" /\ session[s].row \in OpenDisputes => OpenDisputes' = OpenDisputes
         /\ session[s].call \in Closes => OpenDisputes' = OpenDisputes \ {session[s].row}
         /\ session[s].call = "openDispute" => OpenDisputes' = OpenDisputes \cup {Len(dispute) + 1}
<1> USE DEF IInv
<1> DEFINE D == [open: BOOLEAN, pre: OrderStatus]
           row == session[s].row
<1>1. dispute \in Seq(D) /\ DOMAIN dispute = 1..Len(dispute) /\ Len(dispute) \in Nat
      /\ \A d \in DOMAIN dispute : dispute[d] \in D
  <2>1. dispute \in Seq(D)
    BY DEF TypeOK
  <2>2. \A d \in 1..Len(dispute) : dispute[d] \in D
    <3> HIDE DEF D
    <3> QED
      BY <2>1, ElementOfSeq
  <2>3. DOMAIN dispute = 1..Len(dispute) /\ Len(dispute) \in Nat
    BY <2>1
  <2> QED
    BY <2>1, <2>2, <2>3
<1>2. CASE session[s].call \notin Closes \cup {"openDispute", "respond"}
  <2>1. dispute' = dispute
    BY <1>2 DEF Writes
  <2> QED
    BY <1>2, <2>1 DEF OpenDisputes
<1>3. CASE session[s].call \in Closes
  <2>1. dispute' = [dispute EXCEPT ![row].open = FALSE]
    BY <1>3 DEF Writes, Closes
  <2>2. DOMAIN dispute' = DOMAIN dispute
    BY <1>1, <2>1
  <2>3. \A d \in DOMAIN dispute : d # row => dispute'[d] = dispute[d]
    BY <1>1, <2>1
  <2>4. row \in DOMAIN dispute => dispute'[row].open = FALSE
    BY <1>1, <2>1
  <2>5. OpenDisputes' = OpenDisputes \ {row}
    BY <2>2, <2>3, <2>4 DEF OpenDisputes
  <2> QED
    BY <1>3, <2>5 DEF Closes
<1>4. CASE session[s].call = "openDispute"
  <2> DEFINE new == [open |-> TRUE, pre |-> session[s].from]
  <2>1. dispute' = Append(dispute, new)
    BY <1>4 DEF Writes, Closes
  <2>2. new \in D
    BY DEF TypeOK, Session
  <2>3. /\ DOMAIN dispute' = 1..(Len(dispute) + 1)
        /\ \A d \in DOMAIN dispute : dispute'[d] = dispute[d]
        /\ dispute'[Len(dispute) + 1] = new
    BY <1>1, <2>1, <2>2, AppendProperties
  <2>4. new.open
    OBVIOUS
  <2> HIDE DEF new
  <2>5. OpenDisputes' = OpenDisputes \cup {Len(dispute) + 1}
    BY <1>1, <2>3, <2>4 DEF OpenDisputes
  <2> QED
    BY <1>4, <2>5 DEF Closes
<1>5. CASE session[s].call = "respond" /\ row \in OpenDisputes
  <2>1. dispute' = [dispute EXCEPT ![row].open = TRUE]
    BY <1>5 DEF Writes, Closes
  <2>2. DOMAIN dispute' = DOMAIN dispute
    BY <1>1, <2>1
  <2>3. \A d \in DOMAIN dispute : d # row => dispute'[d] = dispute[d]
    BY <1>1, <2>1
  <2>4. row \in DOMAIN dispute /\ dispute'[row].open
    BY <1>1, <1>5, <2>1 DEF OpenDisputes
  <2>5. OpenDisputes' = OpenDisputes
    BY <1>5, <2>2, <2>3, <2>4 DEF OpenDisputes
  <2> QED
    BY <1>5, <2>5 DEF Closes
<1> QED
  BY <1>2, <1>3, <1>4, <1>5

LEMMA DisputeStep ==
  ASSUME IInv, DisputeInv, NEW s \in Sessions, Step(s)
  PROVE  DisputeInv'
<1> USE DEF IInv
<1>1. CASE OpeningCrossed
  <2>1. crossed \subseteq crossed'
    BY DEF Step, Begins, Acts, Commits, RollsBack
  <2> QED
    BY <1>1, <2>1 DEF DisputeInv, OpeningCrossed, Crossed
<1>2. CASE Freeze
  <2>1. ASSUME NEW call \in Calls, NEW d \in Nat, NEW to \in Landings(call, d), Begins(s, call, d, to)
        PROVE  Freeze'
    <3>1. status' = status /\ OpenDisputes' = OpenDisputes
      BY <2>1 DEF Begins, RowsStay, OpenDisputes
    <3>2. Frozen(s)'
      BY <1>2, <2>1, <3>1, LandingsFacts DEF Begins, Frozen, Freeze
    <3>3. \A t \in Sessions : t # s => Frozen(t)'
      BY <1>2, <2>1, <3>1 DEF Begins, Elsewhere, Freeze, Frozen, Active
    <3> QED
      BY <1>2, <3>1, <3>2, <3>3 DEF Freeze
  <2>2. ASSUME Acts(s), NEW k \in Kinds,
               \/ Captures(s, k) \/ GivesBack(s, k) \/ \E portion \in Nat : Draws(s, k, portion)
        PROVE  Freeze'
    <3>1. status' = status /\ OpenDisputes' = OpenDisputes
      BY <2>2 DEF Acts, RowsStay, OpenDisputes
    <3>2. session[s].call \in Closes \cup {"respond"} => session'[s].row = session[s].row
      BY <2>2 DEF Captures, GivesBack, Draws, Closes, Pay
    <3>3. Frozen(s)'
      BY <1>2, <2>2, <3>1, <3>2 DEF Acts, Frozen, Freeze, Active
    <3>4. \A t \in Sessions : t # s => Frozen(t)'
      BY <1>2, <2>2, <3>1 DEF Acts, Elsewhere, Freeze, Frozen, Active
    <3> QED
      BY <1>2, <3>1, <3>3, <3>4 DEF Freeze
  <2>3. CASE RollsBack(s)
    <3>1. status' = status /\ OpenDisputes' = OpenDisputes
      BY <2>3 DEF RollsBack, RowsStay, OpenDisputes
    <3>2. Frozen(s)'
      BY <2>3 DEF RollsBack, Frozen, Active, Idle
    <3>3. \A t \in Sessions : t # s => Frozen(t)'
      BY <1>2, <2>3, <3>1 DEF RollsBack, Elsewhere, Freeze, Frozen, Active
    <3> QED
      BY <1>2, <3>1, <3>2, <3>3 DEF Freeze, DisputeInv
  <2>4. CASE Commits(s)
    <3> DEFINE me == session[s]
    <3>0. me.call \in Calls /\ me.over \subseteq Calls /\ Writes(s) /\ Active(s)
          /\ status' = IF me.to = KEEP THEN status ELSE me.to
      BY <2>4, ActiveIsCall DEF Commits, TypeOK, Session
    <3>1. CASE me.call = "openDispute" /\ me.over # {}
      <4>1. PICK other \in Calls : other \in me.over
        BY <3>0, <3>1
      <4>2. OpeningCrossed'
        BY <2>4, <3>1, <4>1, CommitCrosses DEF OpeningCrossed
      <4> QED
        BY <4>2 DEF DisputeInv
    <3>2. CASE "openDispute" \in me.over
      <4>1. OpeningCrossed'
        BY <2>4, <3>0, <3>2, CommitCrosses DEF OpeningCrossed
      <4> QED
        BY <4>1 DEF DisputeInv
    <3>3. CASE me.call = "openDispute" /\ me.over = {}
      <4>1. OpenDisputes = {} /\ me.to = "DISPUTED"
        BY <1>2, <3>3 DEF Freeze, Frozen
      <4>2. OpenDisputes' = {Len(dispute) + 1}
        BY <3>0, <3>3, <4>1, OpenAfter
      <4>3. status' = "DISPUTED"
        BY <3>0, <4>1 DEF KEEP
      <4>4. \A t \in Sessions : Frozen(t)'
        <5>1. ASSUME NEW t \in Sessions, t # s PROVE Frozen(t)'
          <6>1. /\ session'[t].call = session[t].call /\ session'[t].to = session[t].to
                /\ session'[t].row = session[t].row
                /\ Active(t) => session'[t].over = session[t].over \cup {me.call}
            BY <2>4, <5>1 DEF Commits
          <6>2. Frozen(t) /\ (session[t].call \in {"openDispute", "respond"} => Active(t))
            BY <1>2 DEF Freeze, Active
          <6> QED
            BY <3>3, <4>1, <6>1, <6>2 DEF Frozen, Active
        <5>2. Frozen(s)'
          BY <2>4 DEF Commits, Frozen, Active, Idle
        <5> QED
          BY <5>1, <5>2
      <4> QED
        BY <4>2, <4>3, <4>4 DEF DisputeInv, Freeze
    <3>5. CASE me.call = "respond" /\ me.over \cap Closes # {}
      <4>1. PICK other \in Closes : other \in me.over
        BY <3>5
      <4>2. OpeningCrossed'
        BY <2>4, <3>5, <4>1, CommitCrosses DEF OpeningCrossed
      <4> QED
        BY <4>2 DEF DisputeInv
    <3>4. CASE /\ me.call # "openDispute" /\ "openDispute" \notin me.over
               /\ ~(me.call = "respond" /\ me.over \cap Closes # {})
      <4>0. me.call = "respond" => me.row \in OpenDisputes
        BY <1>2, <3>4 DEF Freeze, Frozen
      <4>1. /\ OpenDisputes' \subseteq OpenDisputes
            /\ me.call \notin Closes => OpenDisputes' = OpenDisputes
        BY <3>0, <3>4, <4>0, OpenAfter
      <4>2. OpenDisputes' # {} => status' = status
        <5>1. SUFFICES ASSUME OpenDisputes' # {} PROVE status' = status
          OBVIOUS
        <5>2. OpenDisputes # {}
          BY <4>1, <5>1
        <5>3. \/ me.to = KEEP
              \/ me.call \in Closes /\ me.row \in OpenDisputes
          BY <1>2, <3>0, <3>4, <5>2 DEF Freeze, Frozen
        <5>4. CASE me.to = KEEP
          BY <3>0, <5>4
        <5>5. CASE me.call \in Closes /\ me.row \in OpenDisputes
          <6>1. OpenDisputes' = OpenDisputes \ {me.row}
            BY <3>0, <5>5, OpenAfter
          <6>2. OpenDisputes = {me.row}
            BY <1>2, <5>5 DEF Freeze
          <6> QED
            BY <5>1, <6>1, <6>2
        <5> QED
          BY <5>3, <5>4, <5>5
      <4>3. OpenDisputes' # {} => OpenDisputes' = OpenDisputes
        BY <1>2, <4>1 DEF Freeze
      <4>4. ASSUME NEW t \in Sessions PROVE Frozen(t)'
        <5>1. CASE t = s
          BY <2>4, <5>1 DEF Commits, Frozen, Active, Idle
        <5>2. CASE t # s
          <6>1. /\ session'[t].call = session[t].call /\ session'[t].to = session[t].to
                /\ session'[t].row = session[t].row
                /\ Active(t) => session'[t].over = session[t].over \cup {me.call}
            BY <2>4, <5>2 DEF Commits
          <6>2. Frozen(t)
            BY <1>2 DEF Freeze
          <6>3. session[t].call = "respond" => Active(t)
            BY DEF Active
          <6>4. session'[t].call = "respond" =>
                  /\ session'[t].to = KEEP
                  /\ session'[t].row \in OpenDisputes' \/ session'[t].over \cap Closes # {}
            BY <4>1, <6>1, <6>2, <6>3 DEF Frozen
          <6> QED
            BY <4>3, <6>1, <6>2, <6>4 DEF Frozen, Active
        <5> QED
          BY <5>1, <5>2
      <4> QED
        BY <1>2, <4>1, <4>2, <4>3, <4>4 DEF DisputeInv, Freeze
    <3> QED
      BY <3>1, <3>2, <3>3, <3>4, <3>5
  <2> QED
    BY <2>1, <2>2, <2>3, <2>4 DEF Step, DisputeInv
<1> QED
  BY <1>1, <1>2 DEF DisputeInv

-----------------------------------------------------------------------------
(* What a commit does to the payments and to the ledger *)

LEMMA PaymentsAfter ==
  ASSUME IInv, NEW s \in Sessions, Writes(s), Active(s), NEW k \in Kinds
  PROVE  IF session[s].call = Pay(k) /\ k \in session[s].made
         THEN k \in Paid' /\ payment'[k].charge = session[s].row
         ELSE (k \in Paid' <=> k \in Paid) /\ (k \in Paid => payment'[k] = payment[k])
<1> USE DEF IInv
<1>1. CASE session[s].call \in {"payDeposit", "payBalance"}
  <2>1. payment' = [kind \in Kinds |-> IF kind \in session[s].made
                                       THEN [status |-> "SUCCEEDED", charge |-> session[s].row]
                                       ELSE payment[kind]]
    BY <1>1 DEF Writes
  <2>2. k \in session[s].made => session[s].call = Pay(k)
    <3>1. \A kind \in Kinds : session[s].call = Pay(kind) => session[s].made \subseteq {kind}
      BY DEF Backed
    <3>2. \E kind \in Kinds : session[s].call = Pay(kind)
      BY <1>1 DEF Pay, Kinds
    <3> QED
      BY <3>1, <3>2
  <2> QED
    BY <2>1, <2>2 DEF Paid
<1>2. CASE session[s].call \notin {"payDeposit", "payBalance"}
  <2>1. \/ payment' = payment
        \/ payment["BALANCE"].status = "NONE" /\ payment' = [payment EXCEPT !["BALANCE"].status = "PENDING"]
    BY <1>2 DEF Writes
  <2>2. session[s].call # Pay(k)
    BY <1>2 DEF Pay
  <2>3. payment'[k] = payment[k] \/ (payment[k].status = "NONE" /\ payment'[k].status = "PENDING")
    BY <2>1 DEF TypeOK, Kinds
  <2> QED
    BY <2>2, <2>3 DEF Paid
<1> QED
  BY <1>1, <1>2

LEMMA LedgerAfter ==
  ASSUME IInv, NEW s \in Sessions, Writes(s), Active(s)
  PROVE  /\ ledger'.hold \in {ledger.hold, ledger.hold \cup session[s].made}
         /\ ledger'.refund = IF session[s].call \in Refunds THEN ledger.refund \cup session[s].made
                             ELSE ledger.refund
         /\ \/ /\ ledger'.released = ledger.released /\ ledger'.portions = ledger.portions
               /\ ledger'.out = ledger.out /\ session[s].call # "resolvePartial"
            \/ /\ session[s].call \in Releases
               /\ ledger'.released /\ ledger'.out = ledger.out + session[s].held
            \/ /\ session[s].call = "resolvePartial" /\ ledger'.released = ledger.released
               /\ ledger'.out = ledger.out + Given(session[s].held, session[s].made)
               /\ ledger'.portions = {} <=> ledger.portions = {} /\ session[s].made = {}
         /\ session[s].call \in GiveOuts => ledger'.hold = ledger.hold
         /\ payout' = "PAID" <=> payout = "PAID" \/ session[s].call = "settlePayout"
<1> USE DEF IInv
<1>1. CASE session[s].call \in {"payDeposit", "payBalance"}
  <2>1. ledger' = [ledger EXCEPT !.hold = @ \cup session[s].made] /\ payout' = payout
    BY <1>1 DEF Writes, Booked, Repays, Refunds
  <2> QED
    BY <1>1, <2>1 DEF TypeOK, Refunds, Releases, GiveOuts
<1>2. CASE session[s].call \in Refunds
  <2>1. ledger' = [ledger EXCEPT !.refund = @ \cup session[s].made] /\ payout' = payout
    BY <1>2 DEF Writes, Booked, Repays, Refunds
  <2> QED
    BY <1>2, <2>1 DEF TypeOK, Refunds, Releases, GiveOuts
<1>5. CASE session[s].call = "resolvePartial"
  <2> DEFINE portions == {[dispute |-> session[s].row, kind |-> k, cents |-> Due(s, k)] :
                            k \in session[s].made}
             out == ledger.out + Given(session[s].held, session[s].made)
  <2>1. /\ ledger' = [ledger EXCEPT !.out = out, !.portions = @ \cup portions]
        /\ payout' = payout
    BY <1>5 DEF Writes, Booked, Repays, Refunds
  <2>2. portions = {} <=> session[s].made = {}
    OBVIOUS
  <2> HIDE DEF portions
  <2>3. /\ ledger'.hold = ledger.hold /\ ledger'.refund = ledger.refund
        /\ ledger'.released = ledger.released /\ ledger'.out = out
        /\ ledger'.portions = ledger.portions \cup portions
    <3> HIDE DEF out
    <3> QED
      BY <2>1 DEF TypeOK
  <2> QED
    BY <1>5, <2>1, <2>2, <2>3 DEF Refunds
<1>3. CASE session[s].call \in Releases
  <2>1. \/ ReleaseOf(session[s].held) \/ UNCHANGED <<ledger, payout>>
    BY <1>3 DEF Writes, Releases, Repays, Refunds
  <2>2. /\ \/ ledger' = ledger
           \/ ledger' = [ledger EXCEPT !.released = TRUE, !.out = @ + session[s].held]
        /\ payout' = "PAID" <=> payout = "PAID"
    BY <2>1 DEF ReleaseOf
  <2>3. session[s].call \notin Refunds /\ session[s].call \notin {"settlePayout", "resolvePartial"}
    BY <1>3 DEF Refunds, Releases
  <2> QED
    BY <1>3, <2>2, <2>3 DEF TypeOK
<1>4. CASE session[s].call \notin Repays \cup Releases \cup {"payDeposit", "payBalance"}
  <2>1. /\ ledger' = ledger
        /\ payout' = IF session[s].call = "settlePayout" THEN "PAID" ELSE payout
    BY <1>4 DEF Writes, Releases, Repays, Refunds
  <2> QED
    BY <1>4, <2>1 DEF Repays
<1> QED
  BY <1>1, <1>2, <1>3, <1>4, <1>5 DEF Repays

-----------------------------------------------------------------------------
(* A payment that crossed no other of its kind is charged once *)

PaidTwice(k) == Crossed(Pay(k), {Pay(k)}) \/ Pay(k) \in torn

\* An open payment has captured at most once, and one recorded since its read
\* was committed by another call.
Paying(s) ==
    \A k \in Kinds : session[s].call = Pay(k) =>
      /\ k \in Paid => Pay(k) \in session[s].over
      /\ k \in session[s].todo => session[s].made = {}

\* Every charge is recorded, or an open call is about to record it.
Captured(k) ==
    \A c \in ChargesOf(k) :
      \/ k \in Paid /\ c = payment[k].charge
      \/ \E s \in Sessions : /\ session[s].call = Pay(k) /\ k \in session[s].made
                             /\ session[s].row = c

PaymentInv ==
    /\ \A s \in Sessions : Paying(s)
    /\ \A k \in Kinds : PaidTwice(k) \/ Captured(k)

LEMMA InitPayments == Init => PaymentInv
BY DEF Init, PaymentInv, Paying, Captured, ChargesOf, Paid, Idle, Pay, Kinds

\* Kinds have calls of their own.
LEMMA PayIsOwn == \A k, kind \in Kinds : Pay(k) = Pay(kind) => k = kind
BY DEF Pay, Kinds

LEMMA PaymentStep ==
  ASSUME IInv, PaymentInv, NEW s \in Sessions, Step(s)
  PROVE  PaymentInv'
<1> USE DEF IInv
<1>0. RowsStay => Paid' = Paid /\ payment' = payment
  BY DEF RowsStay, Paid
<1>1. \A k \in Kinds : PaidTwice(k) => PaidTwice(k)'
  <2>1. crossed \subseteq crossed' /\ torn \subseteq torn'
    BY DEF Step, Begins, Acts, Commits, RollsBack
  <2> QED
    BY <2>1, CrossedStays DEF PaidTwice
<1>2. \A k \in Kinds : Pay(k) # "none" /\ Pay(k) \notin Repays /\ Pay(k) # "settlePayout"
  BY DEF Pay, Repays, Refunds
<1>3. ASSUME NEW call \in Calls, NEW d \in Nat, NEW to \in Landings(call, d), Begins(s, call, d, to)
      PROVE  PaymentInv'
  <2>1. Paying(s)'
    <3>1. \A k \in Kinds : call = Pay(k) => k \notin Paid
      BY <1>3, LandingsFacts
    <3> QED
      BY <1>0, <1>3, <3>1 DEF Begins, Paying
  <2>2. \A t \in Sessions : t # s => Paying(t)'
    BY <1>0, <1>3 DEF Begins, Elsewhere, PaymentInv, Paying
  <2>3. ASSUME NEW k \in Kinds, Captured(k) PROVE Captured(k)'
    <3>1. \A t \in Sessions : session[t].call = Pay(k) => session'[t] = session[t]
      BY <1>2, <1>3 DEF Begins, Elsewhere, Idle
    <3>2. ChargesOf(k)' = ChargesOf(k)
      BY <1>3 DEF Begins, ChargesOf
    <3> QED
      BY <1>0, <1>3, <2>3, <3>1, <3>2 DEF Captured, Begins
  <2> QED
    BY <1>1, <2>1, <2>2, <2>3 DEF PaymentInv
<1>4. ASSUME Acts(s), NEW k \in Kinds, Captures(s, k)
      PROVE  PaymentInv'
  <2>1. /\ session[s].made = {} /\ session[s].todo \subseteq {k} /\ session'[s].call = Pay(k)
        /\ session'[s].todo = {} /\ session'[s].over = session[s].over
        /\ k \in session'[s].made /\ session'[s].row = Len(charge) + 1
    BY <1>4 DEF Acts, Captures, PaymentInv, Paying, Backed
  <2>2. Paying(s)'
    BY <1>0, <1>4, <2>1, PayIsOwn DEF Acts, Captures, Paying, PaymentInv
  <2>3. \A t \in Sessions : t # s => Paying(t)'
    BY <1>0, <1>4 DEF Acts, Elsewhere, PaymentInv, Paying
  <2>4. ASSUME NEW kind \in Kinds, Captured(kind) PROVE Captured(kind)'
    <3>1. \A t \in Sessions : session[t].call = Pay(kind) /\ kind \in session[t].made =>
            session'[t] = session[t]
      BY <1>4, <2>1 DEF Acts, Elsewhere
    <3>2. CASE kind # k
      <4>1. ChargesOf(kind)' = ChargesOf(kind)
        BY <1>4, <3>2 DEF Captures
      <4> QED
        BY <1>0, <1>4, <2>4, <3>1, <4>1 DEF Captured, Acts
    <3>3. CASE kind = k
      <4>1. ChargesOf(kind)' = ChargesOf(kind) \cup {Len(charge) + 1}
        BY <1>4, <3>3 DEF Captures
      <4> QED
        BY <1>0, <1>4, <2>1, <2>4, <3>1, <3>3, <4>1 DEF Captured, Acts
    <3> QED
      BY <3>2, <3>3
  <2> QED
    BY <1>1, <2>2, <2>3, <2>4 DEF PaymentInv
<1>5. ASSUME Acts(s), NEW k \in Kinds, GivesBack(s, k) \/ \E portion \in Nat : Draws(s, k, portion)
      PROVE  PaymentInv'
  <2>1. \A kind \in Kinds : session[s].call # Pay(kind) /\ ChargesOf(kind)' = ChargesOf(kind)
    BY <1>2, <1>5 DEF GivesBack, Draws
  <2>2. \A t \in Sessions : Paying(t)'
    BY <1>0, <1>5, <2>1 DEF Acts, Elsewhere, PaymentInv, Paying
  <2>3. ASSUME NEW kind \in Kinds, Captured(kind) PROVE Captured(kind)'
    <3>1. \A t \in Sessions : session[t].call = Pay(kind) => session'[t] = session[t]
      BY <1>5, <2>1 DEF Acts, Elsewhere
    <3> QED
      BY <1>0, <1>5, <2>1, <2>3, <3>1 DEF Captured, Acts
  <2> QED
    BY <1>1, <2>2, <2>3 DEF PaymentInv
<1>6. CASE RollsBack(s)
  <2>1. Paying(s)'
    BY <1>2, <1>6 DEF RollsBack, Paying, Idle
  <2>2. \A t \in Sessions : t # s => Paying(t)'
    BY <1>0, <1>6 DEF RollsBack, Elsewhere, PaymentInv, Paying
  <2>3. ASSUME NEW k \in Kinds, Captured(k) PROVE PaidTwice(k)' \/ Captured(k)'
    <3>1. CASE session[s].call = Pay(k) /\ session[s].made # {}
      BY <1>6, <3>1 DEF RollsBack, PaidTwice
    <3>2. CASE ~(session[s].call = Pay(k) /\ session[s].made # {})
      <4>1. \A t \in Sessions : session[t].call = Pay(k) /\ k \in session[t].made =>
              session'[t] = session[t]
        BY <1>6, <3>2 DEF RollsBack, Elsewhere
      <4>2. ChargesOf(k)' = ChargesOf(k)
        BY <1>6 DEF RollsBack, ChargesOf
      <4> QED
        BY <1>0, <1>6, <2>3, <4>1, <4>2 DEF Captured, RollsBack
    <3> QED
      BY <3>1, <3>2
  <2> QED
    BY <1>1, <2>1, <2>2, <2>3 DEF PaymentInv
<1>7. CASE Commits(s)
  <2> DEFINE me == session[s]
  <2>1. Writes(s) /\ Active(s) /\ session'[s] = Idle
    BY <1>7 DEF Commits
  <2>2. ASSUME NEW k \in Kinds
        PROVE  IF me.call = Pay(k) /\ k \in me.made
               THEN k \in Paid' /\ payment'[k].charge = me.row
               ELSE (k \in Paid' <=> k \in Paid) /\ (k \in Paid => payment'[k] = payment[k])
    BY <2>1, PaymentsAfter
  <2>3. ASSUME NEW t \in Sessions, t # s
        PROVE  /\ session'[t].call = session[t].call /\ session'[t].todo = session[t].todo
               /\ session'[t].made = session[t].made /\ session'[t].row = session[t].row
               /\ Active(t) => session'[t].over = session[t].over \cup {me.call}
    BY <1>7, <2>3 DEF Commits
  <2>4. ASSUME NEW t \in Sessions PROVE Paying(t)'
    <3>1. CASE t = s
      BY <1>2, <2>1, <3>1 DEF Paying, Idle
    <3>2. CASE t # s
      <4>1. \A k \in Kinds : session[t].call = Pay(k) => Active(t)
        BY <1>2 DEF Active
      <4>2. Paying(t)
        BY DEF PaymentInv
      <4> QED
        BY <2>2, <2>3, <3>2, <4>1, <4>2 DEF Paying
    <3> QED
      BY <3>1, <3>2
  <2>5. ASSUME NEW k \in Kinds, Captured(k) PROVE PaidTwice(k)' \/ Captured(k)'
    <3>1. CASE me.call = Pay(k) /\ k \in Paid
      <4>1. Pay(k) \in me.over
        BY <3>1 DEF PaymentInv, Paying
      <4>2. Crossed(Pay(k), {Pay(k)})'
        BY <1>7, <3>1, <4>1, CommitCrosses
      <4> QED
        BY <4>2 DEF PaidTwice
    <3>2. CASE ~(me.call = Pay(k) /\ k \in Paid)
      <4>1. k \in Paid => k \in Paid' /\ payment'[k].charge = payment[k].charge
        BY <2>2, <3>2
      <4>2. me.call = Pay(k) /\ k \in me.made => k \in Paid' /\ payment'[k].charge = me.row
        BY <2>2
      <4>3. ChargesOf(k)' = ChargesOf(k)
        BY <1>7 DEF Commits, ChargesOf
      <4>4. ASSUME NEW c \in ChargesOf(k)
            PROVE  \/ k \in Paid' /\ c = payment'[k].charge
                   \/ \E t \in Sessions : /\ session'[t].call = Pay(k) /\ k \in session'[t].made
                                          /\ session'[t].row = c
        <5>1. CASE k \in Paid /\ c = payment[k].charge
          BY <4>1, <5>1
        <5>2. ASSUME NEW t \in Sessions, session[t].call = Pay(k), k \in session[t].made,
                     session[t].row = c
              PROVE  \/ k \in Paid' /\ c = payment'[k].charge
                     \/ \E u \in Sessions : /\ session'[u].call = Pay(k) /\ k \in session'[u].made
                                            /\ session'[u].row = c
          <6>1. CASE t = s
            BY <4>2, <5>2, <6>1
          <6>2. CASE t # s
            BY <2>3, <5>2, <6>2
          <6> QED
            BY <6>1, <6>2
        <5> QED
          BY <2>5, <5>1, <5>2 DEF Captured
      <4> QED
        BY <4>3, <4>4 DEF Captured
    <3> QED
      BY <3>1, <3>2
  <2> QED
    BY <1>1, <2>4, <2>5 DEF PaymentInv
<1> QED
  BY <1>3, <1>4, <1>5, <1>6, <1>7 DEF Step

PaymentCrossed == \E k \in Kinds : Crossed(Pay(k), {Pay(k)})

-----------------------------------------------------------------------------
(* A ledger that neither a release nor a partial refund crossed is balanced *)

GiveOutCrossed == \E call \in GiveOuts : Crossed(call, Calls)

\* The charge recorded for k has been refunded in full.
Spent(k) == k \in Paid /\ charge[payment[k].charge].refunded >= Amount(k)

\* Escrow was released, or part of it given back.
GaveOut == ledger.released \/ ledger.portions # {}

\* A release that has seen no commit since its read gives out what is held, a
\* partial refund gives back of no payment that is refunded; a call that read
\* after either moves nothing back.
Releasing(s) ==
    /\ session[s].call \in GiveOuts =>
         /\ session[s].to = GivenOut(session[s].call)
         /\ session[s].over = {} => status \notin Settled
    /\ session[s].call \in Releases /\ session[s].over = {} => session[s].held = Held
    /\ session[s].call \in Repays => session[s].made \subseteq Paid
    /\ session[s].call \in Refunds => \A k \in session[s].made : Spent(k)
    /\ session[s].call = "resolvePartial" =>
         /\ \A k \in session[s].todo : Due(s, k) > 0
         /\ session[s].over = {} => session[s].made \cap ledger.refund = {}
    /\ GaveOut /\ Active(s) =>
         \/ session[s].over \cap GiveOuts # {}
         \/ session[s].to = KEEP /\ session[s].call \notin Repays \cup Releases

Balanced ==
    /\ Held >= 0
    /\ ledger.refund \subseteq ledger.hold
    /\ \A k \in ledger.refund : Spent(k)
    /\ GaveOut => status \in Settled
    /\ ~GaveOut => ledger.out = 0
    /\ \A s \in Sessions : Releasing(s)

LedgerInv == GiveOutCrossed \/ PaymentCrossed \/ Balanced

LEMMA CentsGrow ==
  ASSUME NEW A, NEW B \in SUBSET Kinds, A \subseteq B
  PROVE  Cents(A) \in Nat /\ Cents(B) \in Nat /\ Cents(A) <= Cents(B)
BY AmountIsNat DEF Cents, Kinds

\* What a partial refund gives back of some payments is part of them.
LEMMA GivenIsPart ==
  ASSUME NEW cents, NEW A \in SUBSET Kinds, \A k \in Kinds : Portion(cents, k) \in 0..Amount(k)
  PROVE  Given(cents, A) \in Nat /\ Given(cents, A) <= Cents(A) /\ Given(cents, {}) = 0
<1>1. \A k \in Kinds : Portion(cents, k) \in Nat /\ Amount(k) \in Nat /\ Portion(cents, k) <= Amount(k)
  BY AmountIsNat
<1> QED
  BY <1>1 DEF Given, Cents, Kinds

LEMMA CentsAdd ==
  ASSUME NEW A \in SUBSET Kinds, NEW B \in SUBSET Kinds, A \cap B = {}
  PROVE  Cents(A \cup B) = Cents(A) + Cents(B) /\ Cents(A) \in Nat /\ Cents(B) \in Nat
<1>1. Amount("DEPOSIT") \in Nat /\ Amount("BALANCE") \in Nat
  BY AmountIsNat DEF Kinds
<1>2. \A k : ~(k \in A /\ k \in B)
  OBVIOUS
<1> QED
  BY <1>1, <1>2 DEF Cents

LEMMA InitLedger == Init => LedgerInv
<1> SUFFICES ASSUME Init PROVE Balanced
  BY DEF LedgerInv
<1>1. ledger.hold = {} /\ ledger.refund = {} /\ ~GaveOut /\ ledger.out = 0
  BY DEF Init, GaveOut
<1>2. Held = 0
  BY <1>1 DEF Held, Cents
<1>3. \A s \in Sessions : Releasing(s)
  BY <1>1 DEF Init, Releasing, Idle, GiveOuts, Releases, Repays, Refunds, Active
<1> QED
  BY <1>1, <1>2, <1>3 DEF Balanced

\* A refunded charge stays refunded as long as its payment keeps it.
LEMMA SpentStays ==
  ASSUME IInv, TypeOK', NEW k \in Kinds, Spent(k), k \in Paid',
         payment'[k].charge = payment[k].charge,
         \A c \in DOMAIN charge : c \in DOMAIN charge' /\ charge'[c].refunded >= charge[c].refunded
  PROVE  Spent(k)'
<1> DEFINE c == payment[k].charge
<1>1. c \in DOMAIN charge /\ k \in Paid
  BY DEF IInv, BooksNeverAhead, ChargesOf, Spent
<1>2. c \in DOMAIN charge' /\ charge'[c].refunded >= charge[c].refunded
  BY <1>1
<1>3. charge[c].refunded \in Nat
  BY <1>1, ChargeRows DEF IInv, Row
<1>4. charge'[c].refunded \in Nat
  <2>1. charge' \in Seq(Row)
    BY DEF TypeOK, Row
  <2>2. charge'[c] \in Row
    BY <1>2, <2>1, ElementOfSeq
  <2> QED
    BY <2>2 DEF Row
<1>5. Amount(k) \in Nat /\ charge[c].refunded >= Amount(k)
  BY AmountIsNat DEF Spent
<1>6. charge'[c].refunded >= Amount(k)
  <2> HIDE DEF c
  <2> QED
    BY <1>2, <1>3, <1>4, <1>5
<1> QED
  BY <1>6 DEF Spent, Amount

LEMMA LedgerStep ==
  ASSUME IInv, TypeOK', PaymentInv, LedgerInv, NEW s \in Sessions, Step(s)
  PROVE  LedgerInv'
<1> USE DEF IInv
<1>1. CASE GiveOutCrossed \/ PaymentCrossed
  <2>1. crossed \subseteq crossed'
    BY DEF Step, Begins, Acts, Commits, RollsBack
  <2> QED
    BY <1>1, <2>1 DEF LedgerInv, GiveOutCrossed, PaymentCrossed, Crossed
<1>2. CASE Balanced
  <2>0. RowsStay => /\ Held' = Held /\ Paid' = Paid /\ ledger' = ledger /\ status' = status
                    /\ payment' = payment /\ GaveOut' = GaveOut
    BY DEF RowsStay, Held, Paid, GaveOut
  <2>a. ASSUME RowsStay, charge' = charge
        PROVE  \A k : Spent(k)' = Spent(k)
    BY <2>0, <2>a DEF Spent, Amount
  <2>b. \A t \in Sessions : session'[t] = session[t] => \A k : Due(t, k)' = Due(t, k)
    BY DEF Due, Portion, Amount
  <2>c. ledger.refund \subseteq Kinds /\ \A t \in Sessions : session[t].made \subseteq Kinds
    BY DEF TypeOK, Session
  <2>1. ASSUME NEW call \in Calls, NEW d \in Nat, NEW to \in Landings(call, d), Begins(s, call, d, to)
        PROVE  Balanced'
    <3>0. RowsStay /\ charge' = charge
      BY <2>1 DEF Begins
    <3>1. Releasing(s)'
      <4>1. /\ call \in GiveOuts => to = GivenOut(call) /\ status \notin Settled
            /\ status \in Settled => to = KEEP /\ call \notin Repays \cup Releases
        BY <2>1, LandingsFacts
      <4>2. GaveOut => status \in Settled
        BY <1>2 DEF Balanced
      <4> QED
        BY <2>0, <2>1, <3>0, <4>1, <4>2 DEF Begins, Releasing
    <3>2. ASSUME NEW t \in Sessions, t # s PROVE Releasing(t)'
      <4>1. session'[t] = session[t] /\ Releasing(t)
        BY <1>2, <2>1, <3>2 DEF Begins, Elsewhere, Balanced
      <4> QED
        BY <2>0, <2>a, <2>b, <3>0, <4>1 DEF Releasing, Active
    <3> QED
      BY <1>2, <2>0, <2>a, <3>0, <3>1, <3>2 DEF Balanced
  <2>2. ASSUME Acts(s), NEW k \in Kinds,
               \/ Captures(s, k) \/ GivesBack(s, k) \/ \E portion \in Nat : Draws(s, k, portion)
        PROVE  Balanced'
    <3>0. /\ RowsStay /\ session'[s].call = session[s].call /\ session'[s].to = session[s].to
          /\ session'[s].held = session[s].held /\ session'[s].over = session[s].over
          /\ Releasing(s) /\ Active(s)
      BY <1>2, <2>2 DEF Acts, Balanced
    <3>1. ASSUME NEW kind \in Kinds, Spent(kind) PROVE Spent(kind)'
      <4>1. kind \in Paid' /\ payment'[kind].charge = payment[kind].charge
        BY <2>0, <3>0, <3>1 DEF Spent
      <4>2. \A c \in DOMAIN charge : c \in DOMAIN charge' /\ charge'[c].refunded >= charge[c].refunded
        BY <2>2 DEF Acts
      <4> QED
        BY <3>1, <4>1, <4>2, SpentStays
    <3>2. \A kind : Due(s, kind)' = Due(s, kind)
      BY <3>0 DEF Due, Portion, Amount
    <3>3. ASSUME session[s].call \in Repays PROVE Releasing(s)'
      <4>1. GivesBack(s, k)
        BY <2>2, <3>3 DEF Captures, Draws, Repays, Refunds, Pay
      <4>2. k \in Paid /\ session'[s].todo \subseteq session[s].todo
        BY <3>3, <4>1 DEF GivesBack, Backed
      <4>3. session'[s].made \subseteq Paid
        BY <3>0, <3>3, <4>1, <4>2 DEF GivesBack, Releasing
      <4>4. session[s].call \in Refunds => \A kind \in session'[s].made : Spent(kind)'
        <5>1. SUFFICES ASSUME session[s].call \in Refunds, NEW kind \in session'[s].made
                       PROVE  Spent(kind)'
          OBVIOUS
        <5>2. CASE kind \in session[s].made
          BY <2>c, <3>0, <3>1, <5>1, <5>2 DEF Releasing
        <5>3. CASE kind \notin session[s].made
          <6>1. kind = k /\ charge'[payment[k].charge].refunded >= Due(s, k)
            BY <4>1, <5>1, <5>3 DEF GivesBack
          <6>2. Due(s, k) = Amount(k)
            BY <5>1 DEF Due, Refunds
          <6> QED
            BY <2>0, <3>0, <4>2, <6>1, <6>2 DEF Spent, Amount
        <5> QED
          BY <5>2, <5>3
      <4>5. session[s].call = "resolvePartial" /\ session[s].over = {} =>
              session'[s].made \cap ledger.refund = {}
        <5>1. SUFFICES ASSUME session[s].call = "resolvePartial", session[s].over = {},
                              k \in session'[s].made, k \notin session[s].made, k \in ledger.refund
                       PROVE  FALSE
          BY <3>0, <4>1 DEF GivesBack, Releasing
        <5>2. HeldOn(payment[k].charge) >= Due(s, k)
          BY <4>1, <5>1 DEF GivesBack
        <5>3. Due(s, k) > 0 /\ Due(s, k) \in Nat
          BY <3>0, <3>3, <4>1, <5>1, AmountIsNat DEF GivesBack, Releasing, Backed
        <5>4. Spent(k)
          BY <1>2, <5>1 DEF Balanced
        <5> DEFINE c == payment[k].charge
        <5>5. c \in DOMAIN charge /\ charge[c].kind = k
          BY <4>2 DEF BooksNeverAhead, ChargesOf
        <5>6. charge[c] \in Row /\ Amount(k) \in Nat
          BY <5>5, ChargeRows, AmountIsNat
        <5>7. HeldOn(c) = Amount(k) - charge[c].refunded - charge[c].transferred
          BY <5>5 DEF HeldOn
        <5>8. charge[c].refunded >= Amount(k)
          BY <5>4 DEF Spent
        <5> HIDE DEF c
        <5>9. charge[c].refunded \in Nat /\ charge[c].transferred \in Nat
          BY <5>6 DEF Row
        <5>10. HeldOn(c) >= Due(s, k)
          BY <5>2 DEF c
        <5> QED
          BY <5>3, <5>6, <5>7, <5>8, <5>9, <5>10
      <4>6. /\ session[s].call \in GiveOuts =>
                 /\ session[s].to = GivenOut(session[s].call)
                 /\ session[s].over = {} => status \notin Settled
            /\ session[s].call \in Releases /\ session[s].over = {} => session[s].held = Held
            /\ session[s].call = "resolvePartial" => \A kind \in session[s].todo : Due(s, kind) > 0
            /\ GaveOut => \/ session[s].over \cap GiveOuts # {}
                          \/ session[s].to = KEEP /\ session[s].call \notin Repays \cup Releases
        BY <3>0 DEF Releasing
      <4>7. /\ session'[s].call \in GiveOuts =>
                 /\ session'[s].to = GivenOut(session'[s].call)
                 /\ session'[s].over = {} => status' \notin Settled
            /\ session'[s].call \in Releases /\ session'[s].over = {} => session'[s].held = Held'
            /\ session'[s].call = "resolvePartial" =>
                 \A kind \in session'[s].todo : Due(s, kind)' > 0
            /\ GaveOut' => \/ session'[s].over \cap GiveOuts # {}
                           \/ session'[s].to = KEEP /\ session'[s].call \notin Repays \cup Releases
        BY <2>0, <3>0, <3>2, <4>2, <4>6
      <4>8. /\ session'[s].made \subseteq Paid'
            /\ session'[s].call \in Refunds => \A kind \in session'[s].made : Spent(kind)'
            /\ session'[s].call = "resolvePartial" /\ session'[s].over = {} =>
                 session'[s].made \cap ledger'.refund = {}
        BY <2>0, <3>0, <4>3, <4>4, <4>5
      <4> QED
        BY <4>7, <4>8 DEF Releasing
    <3>4. ASSUME session[s].call \notin Repays PROVE Releasing(s)'
      <4>1. session[s].call \notin Refunds \cup {"resolvePartial"} \cup GiveOuts \cup Releases
        <5>1. session[s].call = Pay(k) \/ session[s].call = "settlePayout"
          BY <2>2, <3>4 DEF Captures, GivesBack, Draws
        <5> QED
          BY <3>4, <5>1 DEF Repays, Pay, GiveOuts, Releases
      <4>2. GaveOut' => \/ session'[s].over \cap GiveOuts # {}
                        \/ session'[s].to = KEEP
        BY <2>0, <3>0 DEF Releasing
      <4> QED
        BY <3>0, <3>4, <4>1, <4>2 DEF Releasing
    <3>5. ASSUME NEW t \in Sessions, t # s PROVE Releasing(t)'
      <4>1. session'[t] = session[t] /\ Releasing(t)
        BY <1>2, <2>2, <3>5 DEF Acts, Elsewhere, Balanced
      <4>2. session[t].call \in Refunds => \A kind \in session[t].made : Spent(kind)'
        BY <2>c, <3>1, <4>1 DEF Releasing
      <4> QED
        BY <2>0, <2>b, <3>0, <4>1, <4>2 DEF Releasing, Active
    <3>6. \A kind \in ledger.refund : Spent(kind)'
      BY <1>2, <2>c, <3>1 DEF Balanced
    <3> QED
      BY <1>2, <2>0, <3>0, <3>3, <3>4, <3>5, <3>6 DEF Balanced
  <2>3. CASE RollsBack(s)
    <3>0. RowsStay /\ charge' = charge
      BY <2>3 DEF RollsBack
    <3>1. Releasing(s)'
      BY <2>3 DEF RollsBack, Releasing, Idle, GiveOuts, Releases, Repays, Refunds, Active
    <3>2. ASSUME NEW t \in Sessions, t # s PROVE Releasing(t)'
      <4>1. session'[t] = session[t] /\ Releasing(t)
        BY <1>2, <2>3, <3>2 DEF RollsBack, Elsewhere, Balanced
      <4> QED
        BY <2>0, <2>a, <2>b, <3>0, <4>1 DEF Releasing, Active
    <3> QED
      BY <1>2, <2>0, <2>a, <3>0, <3>1, <3>2 DEF Balanced, LedgerInv
  <2>4. CASE Commits(s)
    <3> DEFINE me == session[s]
    <3>0. /\ me.call \in Calls /\ me.over \subseteq Calls /\ me.made \subseteq Kinds
          /\ Writes(s) /\ Active(s) /\ charge' = charge
          /\ status' = IF me.to = KEEP THEN status ELSE me.to
      BY <2>4, ActiveIsCall DEF Commits, TypeOK, Session
    <3>1. CASE me.call \in GiveOuts /\ me.over # {}
      <4>1. PICK other \in Calls : other \in me.over
        BY <3>0, <3>1
      <4>2. GiveOutCrossed'
        BY <2>4, <3>1, <4>1, CommitCrosses DEF GiveOutCrossed
      <4> QED
        BY <4>2 DEF LedgerInv
    <3>2. CASE me.over \cap GiveOuts # {}
      <4>1. PICK other \in GiveOuts : other \in me.over
        BY <3>2
      <4>2. GiveOutCrossed'
        BY <2>4, <3>0, <4>1, CommitCrosses DEF GiveOutCrossed
      <4> QED
        BY <4>2 DEF LedgerInv
    <3>3. CASE \E k \in Kinds : me.call = Pay(k) /\ k \in Paid
      <4>1. PICK k \in Kinds : me.call = Pay(k) /\ k \in Paid
        BY <3>3
      <4>2. Pay(k) \in me.over
        BY <4>1 DEF PaymentInv, Paying
      <4>3. PaymentCrossed'
        BY <2>4, <4>1, <4>2, CommitCrosses DEF PaymentCrossed
      <4> QED
        BY <4>3 DEF LedgerInv
    <3>4. CASE /\ ~(me.call \in GiveOuts /\ me.over # {}) /\ me.over \cap GiveOuts = {}
               /\ ~(\E k \in Kinds : me.call = Pay(k) /\ k \in Paid)
      <4>1. /\ ledger'.hold \in {ledger.hold, ledger.hold \cup me.made}
            /\ ledger'.refund = IF me.call \in Refunds THEN ledger.refund \cup me.made ELSE ledger.refund
            /\ me.call \in GiveOuts => ledger'.hold = ledger.hold
        BY <3>0, LedgerAfter
      <4>2. /\ ledger.hold \subseteq Kinds /\ ledger.refund \subseteq Kinds /\ ledger.out \in Int
            /\ ledger.hold \subseteq ledger'.hold /\ ledger'.hold \subseteq Kinds
        BY <3>0, <4>1 DEF TypeOK
      <4>3. \A k \in Kinds : k \in Paid => k \in Paid' /\ payment'[k] = payment[k]
        BY <3>0, <3>4, PaymentsAfter
      <4>4. ASSUME NEW k \in Kinds, Spent(k) PROVE Spent(k)'
        <5>1. k \in Paid' /\ payment'[k].charge = payment[k].charge
          BY <4>3, <4>4 DEF Spent
        <5>2. \A c \in DOMAIN charge : charge[c].refunded \in Nat
          BY ChargeRows DEF Row
        <5> QED
          BY <3>0, <4>4, <5>1, <5>2, SpentStays
      <4>5. Paid \subseteq Paid'
        BY <4>3 DEF Paid
      <4>6. ASSUME NEW t \in Sessions,
                   me.call \in GiveOuts \/ GaveOut' = GaveOut
            PROVE  Releasing(t)'
        <5>1. CASE t = s
          BY <2>4, <5>1 DEF Commits, Releasing, Idle, GiveOuts, Releases, Repays, Refunds, Active
        <5>2. CASE t # s
          <6>1. /\ session'[t].call = session[t].call /\ session'[t].to = session[t].to
                /\ session'[t].made = session[t].made /\ session'[t].todo = session[t].todo
                /\ session'[t].held = session[t].held
                /\ Active(t) => session'[t].over = session[t].over \cup {me.call}
            BY <2>4, <5>2 DEF Commits
          <6>2. session[t].call \in Refunds \cup GiveOuts \cup Repays \cup Releases => Active(t)
            BY DEF Active, Refunds, GiveOuts, Releases, Repays
          <6>3. Releasing(t)
            BY <1>2 DEF Balanced
          <6>4. \A k : Due(t, k)' = Due(t, k)
            BY <6>1 DEF Due, Portion, Amount
          <6>5. Active(t) => session'[t].over # {}
            BY <6>1
          <6>6. session[t].call \in Refunds => \A k \in session[t].made : Spent(k)'
            BY <2>c, <4>4, <6>3 DEF Releasing
          <6>7. "resolvePartial" \in GiveOuts
            BY DEF GiveOuts
          <6>8. GaveOut' /\ Active(t) =>
                  \/ session'[t].over \cap GiveOuts # {}
                  \/ session[t].to = KEEP /\ session[t].call \notin Repays \cup Releases
            BY <4>6, <6>1, <6>3 DEF Releasing
          <6>9. /\ session[t].call \in GiveOuts => session[t].to = GivenOut(session[t].call)
                /\ session[t].call \in Repays => session[t].made \subseteq Paid
                /\ session[t].call = "resolvePartial" => \A k \in session[t].todo : Due(t, k) > 0
            BY <6>3 DEF Releasing
          <6> QED
            BY <4>5, <6>1, <6>2, <6>4, <6>5, <6>6, <6>7, <6>8, <6>9 DEF Releasing, Active
        <5> QED
          BY <5>1, <5>2
      <4>7. Held' = Cents(ledger'.hold) - Cents(ledger'.refund) - ledger'.out
        BY DEF Held, Cents
      <4>8. Releasing(s)
        BY <1>2 DEF Balanced
      <4>9. \A k \in ledger'.refund : Spent(k)'
        <5>1. \A k \in ledger.refund : Spent(k)'
          BY <1>2, <4>2, <4>4 DEF Balanced
        <5>2. me.call \in Refunds => \A k \in me.made : Spent(k)'
          BY <3>0, <4>4, <4>8 DEF Releasing
        <5> QED
          BY <4>1, <5>1, <5>2
      <4>10. ledger'.refund \subseteq ledger'.hold
        <5>1. me.call \in Refunds => me.made \subseteq ledger.hold
          BY <4>8 DEF Releasing, BooksNeverAhead, Repays
        <5> QED
          BY <1>2, <4>1, <4>2, <5>1 DEF Balanced
      <4>11. /\ Cents(ledger.hold) \in Nat /\ Cents(ledger'.hold) \in Nat
             /\ Cents(ledger.hold) <= Cents(ledger'.hold)
             /\ Cents(ledger.refund) \in Nat /\ Cents(ledger'.refund) \in Nat
             /\ Cents(ledger'.refund) <= Cents(ledger'.hold)
        BY <4>2, <4>10, CentsGrow
      <4>12. CASE me.call \in GiveOuts
        <5>1. /\ status \notin Settled /\ ~GaveOut /\ ledger.out = 0
              /\ me.to = GivenOut(me.call) /\ me.call \notin Refunds
          <6>1. me.over = {} /\ me.to = GivenOut(me.call) /\ status \notin Settled
            BY <3>4, <4>8, <4>12 DEF Releasing
          <6> QED
            BY <1>2, <4>12, <6>1 DEF Balanced, GiveOuts, Releases, Refunds
        <5>2. status' \in Settled
          BY <3>0, <5>1 DEF GivenOut, Settled, KEEP
        <5>3. ledger'.hold = ledger.hold /\ ledger'.refund = ledger.refund
          BY <4>1, <4>12, <5>1
        <5>4. Held' >= 0 /\ (~GaveOut' => ledger'.out = 0)
          <6>1. CASE me.call \in Releases
            <7>1. me.held = Held
              BY <3>4, <4>8, <4>12, <6>1 DEF Releasing
            <7>2. me.call # "resolvePartial"
              BY <6>1 DEF Releases
            <7>3. \/ ledger'.released = ledger.released /\ ledger'.portions = ledger.portions
                     /\ ledger'.out = ledger.out
                  \/ ledger'.released /\ ledger'.out = ledger.out + me.held
              BY <3>0, <7>2, LedgerAfter
            <7>5. Held \in Int
              BY <4>2, <4>11 DEF Held
            <7>4. ledger'.out \in {0, Held}
              BY <5>1, <7>1, <7>3, <7>5
            <7> QED
              BY <1>2, <4>7, <4>11, <5>1, <5>3, <7>3, <7>4 DEF Held, Balanced, GaveOut
          <6>2. CASE me.call = "resolvePartial"
            <7>1. /\ ledger'.released = ledger.released
                  /\ ledger'.out = ledger.out + Given(me.held, me.made)
                  /\ ledger'.portions = {} <=> ledger.portions = {} /\ me.made = {}
              BY <3>0, <6>2, LedgerAfter DEF Releases
            <7>2. me.made \cap ledger.refund = {} /\ me.made \subseteq ledger.hold
              BY <3>4, <4>8, <4>12, <6>2 DEF Releasing, BooksNeverAhead, Repays
            <7>3. Given(me.held, me.made) \in Nat /\ Given(me.held, me.made) <= Cents(me.made)
                  /\ Given(me.held, {}) = 0
              <8>1. \A k \in Kinds : Portion(me.held, k) \in 0..Amount(k)
                BY <6>2 DEF Backed, Repays, Due
              <8> QED
                BY <3>0, <8>1, GivenIsPart
            <7>4. /\ Cents(ledger.refund \cup me.made) = Cents(ledger.refund) + Cents(me.made)
                  /\ Cents(me.made) \in Nat
              BY <3>0, <4>2, <7>2, CentsAdd
            <7>5. Cents(ledger.refund \cup me.made) <= Cents(ledger.hold)
              <8>1. ledger.refund \cup me.made \subseteq ledger.hold
                BY <1>2, <7>2 DEF Balanced
              <8> QED
                BY <4>2, <8>1, CentsGrow
            <7>6. ledger'.out = Given(me.held, me.made)
              BY <5>1, <7>1, <7>3
            <7>7. Held' = Cents(ledger.hold) - Cents(ledger.refund) - Given(me.held, me.made)
              BY <4>7, <5>3, <7>6
            <7>8. Held' >= 0
              BY <4>11, <7>3, <7>4, <7>5, <7>7
            <7>9. ~GaveOut' => ledger'.out = 0
              BY <7>1, <7>3, <7>6 DEF GaveOut
            <7> QED
              BY <7>8, <7>9
          <6> QED
            BY <4>12, <6>1, <6>2 DEF GiveOuts
        <5>5. \A t \in Sessions : Releasing(t)'
          BY <4>6, <4>12
        <5> QED
          BY <4>9, <4>10, <5>2, <5>4, <5>5 DEF Balanced, LedgerInv
      <4>13. CASE me.call \notin GiveOuts
        <5>1. /\ ledger'.released = ledger.released /\ ledger'.portions = ledger.portions
              /\ ledger'.out = ledger.out
          BY <3>0, <4>13, LedgerAfter DEF GiveOuts
        <5>2. GaveOut' = GaveOut
          BY <5>1 DEF GaveOut
        <5>3. \A t \in Sessions : Releasing(t)'
          BY <4>6, <5>2
        <5>4. CASE GaveOut
          <6>1. me.to = KEEP /\ me.call \notin Refunds
            BY <3>0, <3>4, <4>8, <5>4 DEF Releasing, Repays
          <6>2. ledger'.refund = ledger.refund /\ status' = status
            BY <3>0, <4>1, <6>1
          <6>3. Held' >= 0
            BY <1>2, <4>2, <4>7, <4>11, <5>1, <6>2 DEF Held, Balanced
          <6> QED
            BY <1>2, <4>9, <4>10, <5>2, <5>3, <5>4, <6>2, <6>3 DEF Balanced, LedgerInv
        <5>5. CASE ~GaveOut
          <6>1. ledger'.out = 0
            BY <1>2, <5>1, <5>5 DEF Balanced
          <6>2. Held' >= 0
            BY <4>7, <4>11, <6>1
          <6> QED
            BY <4>9, <4>10, <5>2, <5>3, <5>5, <6>1, <6>2 DEF Balanced, LedgerInv
        <5> QED
          BY <5>4, <5>5
      <4> QED
        BY <4>12, <4>13
    <3> QED
      BY <3>1, <3>2, <3>3, <3>4
  <2> QED
    BY <2>1, <2>2, <2>3, <2>4 DEF Step, LedgerInv
<1> QED
  BY <1>1, <1>2 DEF LedgerInv

-----------------------------------------------------------------------------
(* A cancellation refunds every payment it does not cross *)

\* A payment that is captured is still to be refunded by an open cancellation,
\* refunded, or captured since its read.
Cancelling(s) ==
    /\ session[s].to = "CANCELLED" => session[s].call \in Refunds
    /\ session[s].call = "openDispute" => session[s].from # "CANCELLED"
    /\ session[s].call \in Refunds =>
         \A k \in Paid : \/ k \in session[s].todo \cup session[s].made \cup ledger.refund
                         \/ Pay(k) \in session[s].over

CancelInv ==
    /\ \A d \in DOMAIN dispute : dispute[d].pre # "CANCELLED"
    /\ \A s \in Sessions : Cancelling(s)
    /\ \A k \in stranded : Crossed(Pay(k), Refunds)

LEMMA InitCancel == Init => CancelInv
BY DEF Init, CancelInv, Cancelling, Idle, KEEP, Refunds

\* A dispute keeps the status it was opened with.
LEMMA PreAfter ==
  ASSUME IInv, NEW s \in Sessions, Writes(s), Active(s), NEW d \in DOMAIN dispute'
  PROVE  \/ d \in DOMAIN dispute /\ dispute'[d].pre = dispute[d].pre
         \/ session[s].call = "openDispute" /\ dispute'[d].pre = session[s].from
<1> USE DEF IInv
<1> DEFINE D == [open: BOOLEAN, pre: OrderStatus]
           row == session[s].row
<1>1. dispute \in Seq(D) /\ DOMAIN dispute = 1..Len(dispute) /\ Len(dispute) \in Nat
  BY DEF TypeOK
<1>2. CASE session[s].call \notin Closes \cup {"openDispute", "respond"}
  BY <1>2 DEF Writes
<1>3. CASE session[s].call \in Closes \cup {"respond"}
  <2>1. \E open \in BOOLEAN : dispute' = [dispute EXCEPT ![row].open = open]
    BY <1>3 DEF Writes, Closes
  <2>2. DOMAIN dispute' = DOMAIN dispute
    BY <1>1, <2>1
  <2>3. dispute[d] \in D
    <3> HIDE DEF D
    <3> QED
      BY <1>1, <2>2, ElementOfSeq
  <2>4. dispute'[d] = dispute[d] \/ \E open \in BOOLEAN : dispute'[d] = [dispute[d] EXCEPT !.open = open]
    BY <2>1, <2>2
  <2> QED
    BY <2>2, <2>3, <2>4
<1>4. CASE session[s].call = "openDispute"
  <2> DEFINE new == [open |-> TRUE, pre |-> session[s].from]
  <2>1. dispute' = Append(dispute, new)
    BY <1>4 DEF Writes, Closes
  <2>2. new \in D
    BY DEF TypeOK, Session
  <2>3. /\ DOMAIN dispute' = 1..(Len(dispute) + 1)
        /\ \A e \in DOMAIN dispute : dispute'[e] = dispute[e]
        /\ dispute'[Len(dispute) + 1] = new
    BY <1>1, <2>1, <2>2, AppendProperties
  <2>4. new.pre = session[s].from
    OBVIOUS
  <2> HIDE DEF new
  <2> QED
    BY <1>1, <1>4, <2>3, <2>4
<1> QED
  BY <1>2, <1>3, <1>4

LEMMA CancelStep ==
  ASSUME IInv, CancelInv, NEW s \in Sessions, Step(s)
  PROVE  CancelInv'
<1> USE DEF IInv
<1>0. RowsStay => Paid' = Paid /\ ledger' = ledger /\ dispute' = dispute
  BY DEF RowsStay, Paid
<1>1. \A k \in Kinds : Crossed(Pay(k), Refunds) => Crossed(Pay(k), Refunds)'
  <2>1. crossed \subseteq crossed'
    BY DEF Step, Begins, Acts, Commits, RollsBack
  <2> QED
    BY <2>1, CrossedStays
<1>2. stranded \subseteq Kinds
  BY DEF TypeOK
<1>3. ASSUME NEW call \in Calls, NEW d \in Nat, NEW to \in Landings(call, d), Begins(s, call, d, to)
      PROVE  CancelInv'
  <2>1. Cancelling(s)'
    <3>1. /\ call = "openDispute" => status # "CANCELLED"
          /\ to = "CANCELLED" =>
               call \in Refunds \/ (d \in OpenDisputes /\ dispute[d].pre = "CANCELLED")
      BY <1>3, LandingsFacts
    <3>2. to = "CANCELLED" => call \in Refunds
      BY <3>1 DEF CancelInv, OpenDisputes
    <3> QED
      BY <1>0, <1>3, <3>1, <3>2 DEF Begins, Cancelling
  <2>2. \A t \in Sessions : t # s => Cancelling(t)'
    BY <1>0, <1>3 DEF Begins, Elsewhere, CancelInv, Cancelling
  <2>3. stranded' = stranded
    BY <1>3 DEF Begins
  <2> QED
    BY <1>0, <1>1, <1>2, <1>3, <2>1, <2>2, <2>3 DEF CancelInv, Begins
<1>4. ASSUME Acts(s), NEW k \in Kinds,
             \/ Captures(s, k) \/ GivesBack(s, k) \/ \E portion \in Nat : Draws(s, k, portion)
      PROVE  CancelInv'
  <2>1. session[s].call \in Refunds =>
          /\ session'[s].todo = session[s].todo \ {k}
          /\ session[s].made \subseteq session'[s].made
          /\ k \in session'[s].made \/ k \in ledger.refund
    BY <1>4 DEF Captures, GivesBack, Draws, Repays, Refunds, Pay
  <2>2. Cancelling(s)'
    BY <1>0, <1>4, <2>1 DEF Acts, Cancelling, CancelInv
  <2>3. \A t \in Sessions : t # s => Cancelling(t)'
    BY <1>0, <1>4 DEF Acts, Elsewhere, CancelInv, Cancelling
  <2>4. stranded' = stranded
    BY <1>4 DEF Acts
  <2> QED
    BY <1>0, <1>1, <1>2, <1>4, <2>2, <2>3, <2>4 DEF CancelInv, Acts
<1>5. CASE RollsBack(s)
  <2>1. Cancelling(s)'
    BY <1>5 DEF RollsBack, Cancelling, Idle, Refunds, KEEP
  <2>2. \A t \in Sessions : t # s => Cancelling(t)'
    BY <1>0, <1>5 DEF RollsBack, Elsewhere, CancelInv, Cancelling
  <2>3. stranded' = stranded
    BY <1>5 DEF RollsBack
  <2> QED
    BY <1>0, <1>1, <1>2, <1>5, <2>1, <2>2, <2>3 DEF CancelInv, RollsBack
<1>6. CASE Commits(s)
  <2> DEFINE me == session[s]
  <2>1. /\ me.call \in Calls /\ Writes(s) /\ Active(s) /\ me.todo = {}
    BY <1>6, ActiveIsCall DEF Commits
  <2>2. \A d \in DOMAIN dispute' : dispute'[d].pre # "CANCELLED"
    <3>1. me.call = "openDispute" => me.from # "CANCELLED"
      BY DEF CancelInv, Cancelling
    <3> QED
      BY <2>1, <3>1, PreAfter DEF CancelInv
  <2>3. ledger.refund \subseteq ledger'.refund /\ (me.call \in Refunds => me.made \subseteq ledger'.refund)
    BY <2>1, LedgerAfter
  <2>4. \A k \in Kinds : k \in Paid' => k \in Paid \/ me.call = Pay(k)
    BY <2>1, PaymentsAfter
  <2>5. Paid' = {k \in Kinds : payment'[k].status = "SUCCEEDED"}
    BY DEF Paid
  <2>6. ASSUME NEW k \in stranded' PROVE Crossed(Pay(k), Refunds)'
    <3>1. CASE me.to = "CANCELLED"
      <4>1. k \in Paid' /\ k \notin ledger'.refund /\ k \in Kinds
        BY <1>6, <2>5, <3>1 DEF Commits
      <4>2. me.call \in Refunds
        BY <3>1 DEF CancelInv, Cancelling
      <4>3. k \in Paid
        BY <2>4, <4>1, <4>2 DEF Pay, Refunds
      <4>4. Pay(k) \in me.over
        BY <2>1, <2>3, <4>1, <4>2, <4>3 DEF CancelInv, Cancelling
      <4> QED
        BY <1>6, <4>2, <4>4, CommitCrosses
    <3>2. CASE me.to # "CANCELLED"
      <4>1. k \in stranded
        BY <1>6, <3>2 DEF Commits
      <4> QED
        BY <1>1, <1>2, <4>1 DEF CancelInv
    <3> QED
      BY <3>1, <3>2
  <2>7. ASSUME NEW t \in Sessions PROVE Cancelling(t)'
    <3>1. CASE t = s
      BY <1>6, <3>1 DEF Commits, Cancelling, Idle, Refunds, KEEP
    <3>2. CASE t # s
      <4>1. /\ session'[t].call = session[t].call /\ session'[t].to = session[t].to
            /\ session'[t].from = session[t].from /\ session'[t].todo = session[t].todo
            /\ session'[t].made = session[t].made
            /\ Active(t) => session'[t].over = session[t].over \cup {me.call}
        BY <1>6, <3>2 DEF Commits
      <4>2. session[t].call \in Refunds => Active(t)
        BY DEF Active, Refunds
      <4>3. Cancelling(t)
        BY DEF CancelInv
      <4>4. Paid' \subseteq Kinds
        BY <2>5
      <4> QED
        BY <2>3, <2>4, <4>1, <4>2, <4>3, <4>4 DEF Cancelling
    <3> QED
      BY <3>1, <3>2
  <2> QED
    BY <2>2, <2>6, <2>7 DEF CancelInv
<1> QED
  BY <1>3, <1>4, <1>5, <1>6 DEF Step

-----------------------------------------------------------------------------
(* A settlement that crossed no other sends the payout once *)

Doubled == 2 * Net <= TotalCents \/ PaymentCrossed
Excused ==
    \/ "settlePayout" \in torn
    \/ Crossed("settlePayout", {"settlePayout"}) /\ Doubled

\* The settlements that have sent something, and how much.
Took(s) == session[s].call = "settlePayout" /\ session[s].left < Net
Share(s) == Net - session[s].left

Settling(s) ==
    session[s].call = "settlePayout" =>
      /\ session[s].left >= 0 /\ session[s].left <= Net
      /\ Took(s) => session[s].made # {}
      /\ payout = "PAID" => "settlePayout" \in session[s].over

\* What was sent is the share of the only call that took something, or at least
\* the shares of any two; a payout that was paid is a share of its own.
SentUnpaid ==
    /\ (\A s \in Sessions : ~Took(s)) => sent = 0
    /\ \A s \in Sessions :
         Took(s) /\ (\A t \in Sessions : Took(t) => t = s) => sent = Share(s)
    /\ \A s, t \in Sessions : Took(s) /\ Took(t) /\ s # t => sent >= Share(s) + Share(t)
SentPaid ==
    /\ (\A s \in Sessions : ~Took(s)) => sent = Net
    /\ \A s \in Sessions : Took(s) => sent >= Net + Share(s)
SentOnce == IF payout = "PAID" THEN SentPaid ELSE SentUnpaid

SettleInv ==
    /\ \A s \in Sessions : Settling(s)
    /\ PaymentCrossed \/ sent <= Drawn("DEPOSIT") + Drawn("BALANCE")
    /\ Excused \/ SentOnce

\* The payout is part of the total.
LEMMA NetIsPart == Net \in Nat /\ Net <= TotalCents
<1>1. TotalCents \in Nat /\ CommissionBps \in Nat /\ CommissionBps <= 10000
  BY RacesAssumption
<1>2. TotalCents * CommissionBps \in Nat /\ TotalCents * CommissionBps <= TotalCents * 10000
  BY <1>1
<1>3. commissionCents(TotalCents, CommissionBps) \in Nat
      /\ commissionCents(TotalCents, CommissionBps) <= TotalCents
  <2>1. 2 * TotalCents * CommissionBps + 10000 = 2 * (TotalCents * CommissionBps) + 10000
    BY <1>1
  <2>2. (2 * (TotalCents * CommissionBps) + 10000) \div 20000 \in Nat
        /\ (2 * (TotalCents * CommissionBps) + 10000) \div 20000 <= TotalCents
    <3> DEFINE part == TotalCents * CommissionBps
    <3>1. part \in Nat /\ part <= TotalCents * 10000
      BY <1>2
    <3> HIDE DEF part
    <3>2. (2 * part + 10000) \div 20000 \in Nat /\ (2 * part + 10000) \div 20000 <= TotalCents
      BY <1>1, <3>1
    <3> QED
      BY <3>2 DEF part
  <2> QED
    BY <2>1, <2>2 DEF commissionCents
<1> QED
  BY <1>1, <1>3 DEF Net, netCents

\* What is drawn from the charge of a payment is within its amount.
LEMMA DrawnIsPart ==
  ASSUME IInv, NEW k \in Kinds
  PROVE  Drawn(k) \in Nat /\ Drawn(k) <= Amount(k)
<1>1. CASE k \in Paid
  <2> DEFINE c == payment[k].charge
  <2>1. c \in DOMAIN charge /\ charge[c].kind = k /\ HeldOn(c) >= 0
    BY <1>1 DEF IInv, BooksNeverAhead, ChargesOf
  <2>2. charge[c] \in Row
    <3>1. charge \in Seq(Row)
      BY DEF IInv, TypeOK, Row
    <3> QED
      BY <2>1, <3>1, ElementOfSeq
  <2>3. Drawn(k) = charge[c].transferred
    BY <1>1 DEF Drawn
  <2> HIDE DEF c
  <2> QED
    BY <2>1, <2>2, <2>3, AmountIsNat DEF HeldOn, Row
<1>2. CASE k \notin Paid
  BY <1>2, AmountIsNat DEF Drawn
<1> QED
  BY <1>1, <1>2

\* The two amounts are the total.
LEMMA AmountsAddUp == Amount("DEPOSIT") + Amount("BALANCE") = TotalCents
BY AmountIsNat, RacesAssumption DEF Amount, Kinds

LEMMA InitSettle == Init => SettleInv
<1> SUFFICES ASSUME Init PROVE SettleInv
  OBVIOUS
<1>1. \A s \in Sessions : session[s].call = "none"
  BY DEF Init, Idle
<1>2. Paid = {} /\ sent = 0 /\ payout = "NONE"
  BY DEF Init, Paid, Kinds
<1>3. Drawn("DEPOSIT") = 0 /\ Drawn("BALANCE") = 0
  BY <1>2 DEF Drawn
<1>4. \A s \in Sessions : Settling(s) /\ ~Took(s)
  BY <1>1 DEF Settling, Took
<1>5. SentOnce
  BY <1>2, <1>4 DEF SentOnce, SentUnpaid
<1> QED
  BY <1>2, <1>3, <1>4, <1>5 DEF SettleInv

\* A step that moves no cents and settles nothing.
LEMMA SentStays ==
  ASSUME IInv, SettleInv, crossed \subseteq crossed', torn \subseteq torn', sent' = sent,
         payout' = "PAID" <=> payout = "PAID",
         \A t \in Sessions : Took(t)' <=> Took(t),
         \A t \in Sessions : Took(t) => session'[t].left = session[t].left
  PROVE  (Excused \/ SentOnce)'
<1>1. Excused => Excused'
  BY CrossedStays DEF Excused, Doubled, PaymentCrossed
<1>2. \A t \in Sessions : Took(t) => Share(t)' = Share(t)
  BY DEF Share
<1>3. SentOnce => SentOnce'
  <2>1. SentPaid => SentPaid'
    BY <1>2 DEF SentPaid
  <2>2. SentUnpaid => SentUnpaid'
    BY <1>2 DEF SentUnpaid
  <2> QED
    BY <2>1, <2>2 DEF SentOnce
<1> QED
  BY <1>1, <1>3 DEF SettleInv

\* A transfer adds to the share of its call what it adds to what was sent.
LEMMA DrawsKeepsCount ==
  ASSUME IInv, SettleInv, NEW s \in Sessions, NEW k \in Kinds, NEW portion \in Nat,
         Acts(s), Draws(s, k, portion), SentOnce
  PROVE  SentOnce'
<1>1. \A t \in Sessions : session[t].left \in Int
  BY DEF IInv, TypeOK, Session
<1>2. Net \in Nat /\ sent \in Nat
  BY NetIsPart DEF IInv, TypeOK
<1>3. \A t \in Sessions : Took(t) => session[t].left >= 0 /\ session[t].left < Net
  BY DEF SettleInv, Settling, Took
<1>4. /\ session[s].call = "settlePayout" /\ session'[s].call = "settlePayout"
      /\ session'[s].left = session[s].left - portion /\ sent' = sent + portion
      /\ session[s].left >= 0 /\ session[s].left <= Net
      /\ payout' = payout
  BY DEF Acts, Draws, RowsStay, SettleInv, Settling
<1>5. \A t \in Sessions : t # s => (Took(t)' <=> Took(t)) /\ Share(t)' = Share(t)
  BY DEF Acts, Elsewhere, Took, Share
<1>6. Share(s)' = Share(s) + portion /\ Share(s) \in Nat /\ (~Took(s) => Share(s) = 0)
  BY <1>1, <1>2, <1>4 DEF Share, Took
<1>7. /\ Took(s) => Took(s)'
      /\ ~Took(s) => (Took(s)' <=> portion > 0)
  BY <1>1, <1>2, <1>4 DEF Took
<1>8. \A t \in Sessions : Took(t) => Share(t) \in Nat
  BY <1>1, <1>2, <1>3 DEF Share
<1>9. CASE payout = "PAID"
  <2>1. SentPaid
    BY <1>9 DEF SentOnce
  <2>2. ASSUME \A t \in Sessions : ~Took(t)' PROVE sent' = Net
    <3>1. \A t \in Sessions : ~Took(t)
      BY <1>5, <1>7, <2>2
    <3>2. portion = 0
      BY <1>7, <2>2, <3>1
    <3> QED
      BY <1>2, <1>4, <2>1, <3>1, <3>2 DEF SentPaid
  <2>3. ASSUME NEW t \in Sessions, Took(t)' PROVE sent' >= Net + Share(t)'
    <3>1. CASE t # s
      BY <1>2, <1>4, <1>5, <1>8, <2>1, <2>3, <3>1 DEF SentPaid
    <3>2. CASE t = s /\ Took(s)
      BY <1>2, <1>4, <1>6, <2>1, <3>2 DEF SentPaid
    <3>3. CASE t = s /\ ~Took(s)
      <4>1. sent >= Net
        <5>1. CASE \A u \in Sessions : ~Took(u)
          BY <1>2, <2>1, <5>1 DEF SentPaid
        <5>2. CASE \E u \in Sessions : Took(u)
          BY <1>2, <1>8, <2>1, <5>2 DEF SentPaid
        <5> QED
          BY <5>1, <5>2
      <4> QED
        BY <1>2, <1>4, <1>6, <3>3, <4>1
    <3> QED
      BY <3>1, <3>2, <3>3
  <2>4. SentPaid'
    BY <2>2, <2>3, <1>4 DEF SentPaid
  <2> QED
    BY <1>4, <1>9, <2>4 DEF SentOnce
<1>10. CASE payout # "PAID"
  <2>1. SentUnpaid
    BY <1>10 DEF SentOnce
  <2>2. ASSUME \A t \in Sessions : ~Took(t)' PROVE sent' = 0
    <3>1. \A t \in Sessions : ~Took(t)
      BY <1>5, <1>7, <2>2
    <3>2. portion = 0
      BY <1>7, <2>2, <3>1
    <3> QED
      BY <1>2, <1>4, <2>1, <3>1, <3>2 DEF SentUnpaid
  <2>3. ASSUME NEW t \in Sessions, Took(t)', \A u \in Sessions : Took(u)' => u = t
        PROVE  sent' = Share(t)'
    <3>1. CASE t = s
      <4>1. \A u \in Sessions : Took(u) => u = s
        BY <1>5, <2>3, <3>1
      <4>2. sent = Share(s)
        <5>1. CASE Took(s)
          BY <2>1, <4>1, <5>1 DEF SentUnpaid
        <5>2. CASE ~Took(s)
          BY <1>6, <2>1, <4>1, <5>2 DEF SentUnpaid
        <5> QED
          BY <5>1, <5>2
      <4> QED
        BY <1>4, <1>6, <3>1, <4>2
    <3>2. CASE t # s
      <4>1. ~Took(s)' /\ ~Took(s) /\ Took(t) /\ \A u \in Sessions : Took(u) => u = t
        BY <1>5, <1>7, <2>3, <3>2
      <4>2. portion = 0
        BY <1>7, <4>1
      <4>3. sent = Share(t)
        BY <2>1, <4>1 DEF SentUnpaid
      <4> QED
        BY <1>2, <1>4, <1>5, <3>2, <4>2, <4>3
    <3> QED
      BY <3>1, <3>2
  <2>4. ASSUME NEW t \in Sessions, NEW u \in Sessions, Took(t)', Took(u)', t # u
        PROVE  sent' >= Share(t)' + Share(u)'
    <3>1. ASSUME NEW v \in Sessions, v # s, Took(v), Took(s)'
          PROVE  sent' >= Share(v)' + Share(s)'
      <4>1. sent >= Share(v) + Share(s)
        <5>1. CASE Took(s)
          BY <2>1, <3>1, <5>1 DEF SentUnpaid
        <5>2. CASE ~Took(s) /\ \A w \in Sessions : Took(w) => w = v
          BY <1>2, <1>6, <1>8, <2>1, <3>1, <5>2 DEF SentUnpaid
        <5>3. CASE ~Took(s) /\ ~(\A w \in Sessions : Took(w) => w = v)
          <6>1. PICK w \in Sessions : Took(w) /\ w # v
            BY <5>3
          <6>2. sent >= Share(v) + Share(w)
            BY <2>1, <3>1, <6>1 DEF SentUnpaid
          <6> QED
            BY <1>2, <1>6, <1>8, <3>1, <5>3, <6>1, <6>2
        <5> QED
          BY <5>1, <5>2, <5>3
      <4> QED
        BY <1>2, <1>4, <1>5, <1>6, <1>8, <3>1, <4>1
    <3>2. CASE t = s
      BY <1>5, <1>6, <1>8, <2>4, <3>1, <3>2
    <3>3. CASE u = s
      <4>1. sent' >= Share(t)' + Share(s)'
        BY <1>5, <2>4, <3>1, <3>3
      <4>2. Share(t)' \in Int /\ Share(s)' \in Int
        BY <1>5, <1>6, <1>8, <2>4, <3>3
      <4> QED
        BY <3>3, <4>1, <4>2
    <3>4. CASE t # s /\ u # s
      BY <1>2, <1>4, <1>5, <1>8, <2>1, <2>4, <3>4 DEF SentUnpaid
    <3> QED
      BY <3>2, <3>3, <3>4
  <2>5. SentUnpaid'
    BY <2>2, <2>3, <2>4 DEF SentUnpaid
  <2> QED
    BY <1>4, <1>10, <2>5 DEF SentOnce
<1> QED
  BY <1>9, <1>10

\* A settlement that commits has sent the payout, or crosses the one that had.
LEMMA SettlesOnce ==
  ASSUME IInv, SettleInv, NEW s \in Sessions, Commits(s), session[s].call = "settlePayout",
         SentOnce
  PROVE  (Excused \/ SentOnce)'
<1>1. \A t \in Sessions : session[t].left \in Int
  BY DEF IInv, TypeOK, Session
<1>2. Net \in Nat /\ sent \in Nat /\ sent' = sent /\ session[s].left = 0
  BY NetIsPart DEF IInv, TypeOK, Commits
<1>3. payout' = "PAID"
  BY LedgerAfter DEF Commits
<1>4. \A t \in Sessions : t # s => (Took(t)' <=> Took(t)) /\ Share(t)' = Share(t)
  BY DEF Commits, Took, Share
<1>5. ~Took(s)'
  BY DEF Commits, Took, Idle
<1>6. Took(s) => Share(s) = Net
  BY <1>2 DEF Share
<1>7. ~Took(s) => Net = 0 /\ \A t \in Sessions : ~Took(t)
  BY <1>1, <1>2 DEF Took, SettleInv, Settling
<1>8. CASE ~Took(s)
  <2>1. sent = Net /\ \A t \in Sessions : ~Took(t)'
    BY <1>4, <1>5, <1>7, <1>8 DEF SentOnce, SentPaid, SentUnpaid
  <2> QED
    BY <1>2, <1>3, <2>1 DEF SentOnce, SentPaid
<1>9. CASE Took(s) /\ payout = "PAID"
  <2>1. sent >= 2 * Net
    BY <1>2, <1>6, <1>9 DEF SentOnce, SentPaid
  <2>2. Crossed("settlePayout", {"settlePayout"})'
    <3>1. "settlePayout" \in session[s].over
      BY <1>9 DEF SettleInv, Settling
    <3> QED
      BY <3>1, CommitCrosses
  <2>3. CASE PaymentCrossed
    <3>1. crossed \subseteq crossed'
      BY DEF Commits
    <3>2. PaymentCrossed'
      BY <2>3, <3>1, CrossedStays DEF PaymentCrossed
    <3> QED
      BY <2>2, <3>2 DEF Excused, Doubled
  <2>4. CASE ~PaymentCrossed
    <3>1. sent <= TotalCents
      <4>1. /\ Drawn("DEPOSIT") \in Nat /\ Drawn("DEPOSIT") <= Amount("DEPOSIT")
            /\ Drawn("BALANCE") \in Nat /\ Drawn("BALANCE") <= Amount("BALANCE")
        BY DrawnIsPart DEF Kinds
      <4>2. Amount("DEPOSIT") \in Nat /\ Amount("BALANCE") \in Nat /\ TotalCents \in Nat
        BY AmountIsNat, RacesAssumption DEF Kinds
      <4>3. sent <= Drawn("DEPOSIT") + Drawn("BALANCE")
        BY <2>4 DEF SettleInv
      <4> QED
        BY <1>2, <4>1, <4>2, <4>3, AmountsAddUp
    <3>2. 2 * Net <= TotalCents
      BY <1>2, <2>1, <3>1, RacesAssumption
    <3> QED
      BY <2>2, <3>2 DEF Excused, Doubled
  <2> QED
    BY <2>3, <2>4
<1>10. CASE Took(s) /\ payout # "PAID"
  <2>1. SentUnpaid
    BY <1>10 DEF SentOnce
  <2>2. ASSUME \A t \in Sessions : ~Took(t)' PROVE sent' = Net
    <3>1. \A t \in Sessions : Took(t) => t = s
      BY <1>4, <2>2
    <3> QED
      BY <1>2, <1>6, <1>10, <2>1, <3>1 DEF SentUnpaid
  <2>3. ASSUME NEW t \in Sessions, Took(t)' PROVE sent' >= Net + Share(t)'
    <3>1. t # s /\ Took(t) /\ Share(t)' = Share(t)
      BY <1>4, <1>5, <2>3
    <3>2. sent >= Share(s) + Share(t)
      BY <1>10, <2>1, <3>1 DEF SentUnpaid
    <3> QED
      BY <1>2, <1>6, <1>10, <3>1, <3>2
  <2>4. SentPaid'
    BY <2>2, <2>3 DEF SentPaid
  <2> QED
    BY <1>3, <2>4 DEF SentOnce
<1> QED
  BY <1>8, <1>9, <1>10

LEMMA SettleStep ==
  ASSUME IInv, PaymentInv, SettleInv, NEW s \in Sessions, Step(s)
  PROVE  SettleInv'
<1> USE DEF IInv
<1>0. RowsStay => Paid' = Paid /\ payment' = payment /\ payout' = payout
  BY DEF RowsStay, Paid
<1>1. /\ crossed \subseteq crossed' /\ torn \subseteq torn'
      /\ Excused => Excused'
      /\ PaymentCrossed => PaymentCrossed'
  <2>1. crossed \subseteq crossed' /\ torn \subseteq torn'
    BY DEF Step, Begins, Acts, Commits, RollsBack
  <2> QED
    BY <2>1, CrossedStays DEF Excused, Doubled, PaymentCrossed
<1>2. Net \in Nat
  BY NetIsPart
<1>3. Paid \subseteq Kinds /\ \A k \in Paid : payment[k].charge \in ChargesOf(k)
  BY DEF BooksNeverAhead, Paid
<1>4. /\ \A t \in Sessions : session[t].left \in Int
      /\ sent \in Nat
  BY DEF TypeOK, Session
<1>5. ASSUME NEW call \in Calls, NEW d \in Nat, NEW to \in Landings(call, d), Begins(s, call, d, to)
      PROVE  SettleInv'
  <2>1. /\ ~Took(s) /\ ~Took(s)'
    BY <1>2, <1>5 DEF Begins, Took, Idle
  <2>2. Settling(s)'
    <3>1. call = "settlePayout" => payout = "PENDING" /\ session'[s].left = Net
      BY <1>5, LandingsFacts DEF Begins
    <3> QED
      BY <1>0, <1>2, <1>5, <2>1, <3>1 DEF Begins, Settling
  <2>3. \A t \in Sessions : t # s => session'[t] = session[t]
    BY <1>5 DEF Begins, Elsewhere
  <2>4. \A t \in Sessions : t # s => Settling(t)'
    BY <1>0, <1>5, <2>3 DEF Begins, SettleInv, Settling, Took
  <2>5. \A t \in Sessions : (Took(t)' <=> Took(t)) /\ (Took(t) => session'[t].left = session[t].left)
    BY <2>1, <2>3 DEF Took
  <2>6. (Excused \/ SentOnce)'
    BY <1>0, <1>1, <1>5, <2>5, SentStays DEF Begins
  <2>7. sent' = sent /\ Drawn("DEPOSIT")' = Drawn("DEPOSIT") /\ Drawn("BALANCE")' = Drawn("BALANCE")
    BY <1>0, <1>5 DEF Begins, Drawn
  <2> QED
    BY <1>1, <2>2, <2>4, <2>6, <2>7 DEF SettleInv
<1>6. ASSUME Acts(s), NEW k \in Kinds, Captures(s, k) \/ GivesBack(s, k)
      PROVE  SettleInv'
  <2>1. session[s].call # "settlePayout" /\ session'[s].call # "settlePayout" /\ sent' = sent
    BY <1>6 DEF Acts, Captures, GivesBack, Pay, Repays, Refunds
  <2>2. \A t \in Sessions : t # s => session'[t] = session[t]
    BY <1>6 DEF Acts, Elsewhere
  <2>3. \A t \in Sessions : Settling(t)'
    BY <1>0, <1>6, <2>1, <2>2 DEF Acts, SettleInv, Settling, Took
  <2>4. \A t \in Sessions : (Took(t)' <=> Took(t)) /\ (Took(t) => session'[t].left = session[t].left)
    BY <2>1, <2>2 DEF Took
  <2>5. (Excused \/ SentOnce)'
    BY <1>0, <1>1, <1>6, <2>1, <2>4, SentStays DEF Acts
  <2>6. \A kind \in Kinds : Drawn(kind)' = Drawn(kind)
    <3>1. \A c \in DOMAIN charge : charge'[c].transferred = charge[c].transferred
      BY <1>6 DEF Captures, GivesBack
    <3> QED
      BY <1>0, <1>3, <1>6, <3>1 DEF Acts, Drawn, ChargesOf
  <2> QED
    BY <1>1, <2>1, <2>3, <2>5, <2>6 DEF SettleInv, Kinds
<1>7. ASSUME Acts(s), NEW k \in Kinds, NEW portion \in Nat, Draws(s, k, portion)
      PROVE  SettleInv'
  <2>1. /\ session[s].call = "settlePayout" /\ session'[s].call = "settlePayout"
        /\ session'[s].left = session[s].left - portion
        /\ session[s].left >= 0 /\ session[s].left <= Net /\ portion <= session[s].left
        /\ session'[s].over = session[s].over
    BY <1>7 DEF Acts, Draws, SettleInv, Settling
  <2>2. Settling(s)'
    <3>1. session'[s].left >= 0 /\ session'[s].left <= Net
      BY <1>2, <1>4, <2>1
    <3>2. Took(s)' => session'[s].made # {}
      <4>1. CASE portion > 0
        BY <1>7, <4>1 DEF Draws
      <4>2. CASE portion = 0
        <5>1. session'[s].made = session[s].made
          BY <1>7, <4>2 DEF Draws
        <5>2. Took(s)' => Took(s)
          BY <1>4, <2>1, <4>2 DEF Took
        <5> QED
          BY <2>1, <5>1, <5>2 DEF SettleInv, Settling
      <4> QED
        BY <4>1, <4>2
    <3> QED
      BY <1>0, <1>7, <2>1, <3>1, <3>2 DEF Acts, Settling, SettleInv
  <2>3. \A t \in Sessions : t # s => Settling(t)'
    BY <1>0, <1>7 DEF Acts, Elsewhere, SettleInv, Settling, Took
  <2>4. (Excused \/ SentOnce)'
    BY <1>1, <1>7, DrawsKeepsCount DEF SettleInv
  <2>5. /\ sent' = sent + portion
        /\ Drawn("DEPOSIT")' + Drawn("BALANCE")' = Drawn("DEPOSIT") + Drawn("BALANCE") + portion
        /\ Drawn("DEPOSIT") + Drawn("BALANCE") \in Nat
    <3>1. Drawn("DEPOSIT") \in Nat /\ Drawn("BALANCE") \in Nat
      BY DrawnIsPart DEF Kinds
    <3> QED
      BY <1>7, <3>1 DEF Draws, Kinds
  <2>6. (PaymentCrossed \/ sent <= Drawn("DEPOSIT") + Drawn("BALANCE"))'
    BY <1>1, <1>4, <2>5 DEF SettleInv
  <2> QED
    BY <2>2, <2>3, <2>4, <2>6 DEF SettleInv
<1>8. CASE RollsBack(s)
  <2>1. \A t \in Sessions : t # s => session'[t] = session[t]
    BY <1>8 DEF RollsBack, Elsewhere
  <2>2. \A t \in Sessions : Settling(t)'
    <3>1. Settling(s)'
      BY <1>8 DEF RollsBack, Settling, Idle
    <3>2. \A t \in Sessions : t # s => Settling(t)'
      BY <1>0, <1>8, <2>1 DEF RollsBack, SettleInv, Settling, Took
    <3> QED
      BY <3>1, <3>2
  <2>3. sent' = sent /\ Drawn("DEPOSIT")' = Drawn("DEPOSIT") /\ Drawn("BALANCE")' = Drawn("BALANCE")
    BY <1>0, <1>8 DEF RollsBack, Drawn
  <2>4. (Excused \/ SentOnce)'
    <3>1. CASE Took(s)
      <4>1. "settlePayout" \in torn'
        BY <1>8, <3>1 DEF RollsBack, SettleInv, Settling, Took
      <4> QED
        BY <4>1 DEF Excused
    <3>2. CASE ~Took(s)
      <4>1. ~Took(s)'
        BY <1>8 DEF RollsBack, Took, Idle
      <4>2. \A t \in Sessions : (Took(t)' <=> Took(t)) /\ (Took(t) => session'[t].left = session[t].left)
        BY <2>1, <3>2, <4>1 DEF Took
      <4> QED
        BY <1>0, <1>1, <1>8, <2>3, <4>2, SentStays DEF RollsBack
    <3> QED
      BY <3>1, <3>2
  <2> QED
    BY <1>1, <2>2, <2>3, <2>4 DEF SettleInv
<1>9. CASE Commits(s)
  <2> DEFINE me == session[s]
  <2>1. /\ Writes(s) /\ Active(s) /\ session'[s] = Idle /\ charge' = charge /\ sent' = sent
        /\ payout' = "PAID" <=> payout = "PAID" \/ me.call = "settlePayout"
    BY <1>9, LedgerAfter DEF Commits
  <2>2. ASSUME NEW t \in Sessions PROVE Settling(t)'
    <3>1. CASE t = s
      BY <2>1, <3>1 DEF Settling, Idle
    <3>2. CASE t # s
      <4>1. /\ session'[t].call = session[t].call /\ session'[t].left = session[t].left
            /\ session'[t].made = session[t].made
            /\ Active(t) => session'[t].over = session[t].over \cup {me.call}
        BY <1>9, <3>2 DEF Commits
      <4>2. Settling(t) /\ (session[t].call = "settlePayout" => Active(t))
        BY DEF SettleInv, Active
      <4> QED
        BY <2>1, <4>1, <4>2 DEF Settling, Took
    <3> QED
      BY <3>1, <3>2
  <2>3. ASSUME NEW k \in Kinds, ~PaymentCrossed' PROVE Drawn(k)' \in Nat /\ Drawn(k)' >= Drawn(k)
    <3>1. IF me.call = Pay(k) /\ k \in me.made
          THEN k \in Paid' /\ payment'[k].charge = me.row
          ELSE (k \in Paid' <=> k \in Paid) /\ (k \in Paid => payment'[k] = payment[k])
      BY <2>1, PaymentsAfter
    <3>2. Drawn(k) \in Nat
      BY DrawnIsPart
    <3>3. CASE me.call = Pay(k) /\ k \in me.made
      <4>1. me.row \in ChargesOf(k)
        BY <3>3 DEF Backed
      <4>2. charge[me.row].transferred \in Nat
        <5>1. charge \in Seq(Row)
          BY DEF TypeOK, Row
        <5>2. charge[me.row] \in Row
          <6>1. me.row \in 1..Len(charge)
            BY <4>1, <5>1 DEF ChargesOf
          <6> HIDE DEF me
          <6> QED
            BY <5>1, <6>1, ElementOfSeq
        <5> QED
          BY <5>2 DEF Row
      <4>3. Drawn(k)' = charge[me.row].transferred
        BY <2>1, <3>1, <3>3 DEF Drawn
      <4>4. CASE k \notin Paid
        BY <4>2, <4>3, <4>4 DEF Drawn
      <4>5. CASE k \in Paid
        <5>1. Pay(k) \in me.over
          BY <3>3, <4>5 DEF PaymentInv, Paying
        <5>2. Crossed(Pay(k), {Pay(k)})'
          BY <1>9, <3>3, <5>1, CommitCrosses
        <5>3. PaymentCrossed'
          BY <5>2 DEF PaymentCrossed
        <5> QED
          BY <2>3, <5>3
      <4> QED
        BY <4>4, <4>5
    <3>4. CASE ~(me.call = Pay(k) /\ k \in me.made)
      <4>1. Drawn(k)' = Drawn(k)
        BY <2>1, <3>1, <3>4 DEF Drawn
      <4> QED
        BY <3>2, <4>1
    <3> QED
      BY <3>3, <3>4
  <2>4. (PaymentCrossed \/ sent <= Drawn("DEPOSIT") + Drawn("BALANCE"))'
    <3>1. CASE PaymentCrossed'
      BY <3>1
    <3>2. CASE ~PaymentCrossed'
      <4>1. /\ Drawn("DEPOSIT")' \in Nat /\ Drawn("DEPOSIT")' >= Drawn("DEPOSIT")
            /\ Drawn("BALANCE")' \in Nat /\ Drawn("BALANCE")' >= Drawn("BALANCE")
            /\ Drawn("DEPOSIT") \in Nat /\ Drawn("BALANCE") \in Nat
        BY <2>3, <3>2, DrawnIsPart DEF Kinds
      <4>2. sent <= Drawn("DEPOSIT") + Drawn("BALANCE")
        BY <1>1, <3>2 DEF SettleInv
      <4> QED
        BY <1>4, <2>1, <4>1, <4>2
    <3> QED
      BY <3>1, <3>2
  <2>5. (Excused \/ SentOnce)'
    <3>1. CASE Excused
      BY <1>1, <3>1
    <3>2. CASE SentOnce /\ me.call = "settlePayout"
      BY <1>9, <3>2, SettlesOnce
    <3>3. CASE SentOnce /\ me.call # "settlePayout"
      <4>1. ~Took(s) /\ ~Took(s)'
        BY <2>1, <3>3 DEF Took, Idle
      <4>2. \A t \in Sessions : t # s => (Took(t)' <=> Took(t)) /\ session'[t].left = session[t].left
        BY <1>9 DEF Commits, Took
      <4>3. \A t \in Sessions : (Took(t)' <=> Took(t)) /\ (Took(t) => session'[t].left = session[t].left)
        BY <4>1, <4>2
      <4> QED
        BY <1>1, <2>1, <3>3, <4>3, SentStays
    <3> QED
      BY <3>1, <3>2, <3>3 DEF SettleInv
  <2> QED
    BY <2>2, <2>4, <2>5 DEF SettleInv
<1> QED
  BY <1>5, <1>6, <1>7, <1>8, <1>9 DEF Step

-----------------------------------------------------------------------------
(* Each harm has its crossing *)

HarmInv == PaymentInv /\ DisputeInv /\ LedgerInv /\ CancelInv /\ SettleInv

\* A step in which nothing happens.
LEMMA HarmStutter ==
  ASSUME TypeOK, HarmInv, UNCHANGED vars
  PROVE  HarmInv'
<1>1. UNCHANGED <<status, payment, ledger, payout, dispute, charge, sent, session, crossed, torn, stranded>>
  BY DEF vars, rows, adapter, history
<1>2. PaymentInv'
  BY <1>1 DEF HarmInv, PaymentInv, Paying, PaidTwice, Captured, Paid, ChargesOf, Crossed
<1>3. DisputeInv'
  BY <1>1 DEF HarmInv, DisputeInv, OpeningCrossed, Freeze, Frozen, OpenDisputes, Active, Crossed
<1>4. LedgerInv'
  <2>1. /\ Held' = Held /\ Paid' = Paid /\ GaveOut' = GaveOut
        /\ \A k : Spent(k)' = Spent(k)
        /\ \A s \in Sessions, k \in Kinds : Due(s, k)' = Due(s, k)
    BY <1>1 DEF Held, Paid, GaveOut, Spent, Due, Portion, Amount
  <2>2. ASSUME NEW s \in Sessions, Releasing(s), TypeOK PROVE Releasing(s)'
    <3>1. session'[s] = session[s] /\ session[s].todo \subseteq Kinds /\ session[s].made \subseteq Kinds
      BY <1>1, <2>2 DEF TypeOK, Session
    <3>2. \A k \in session[s].todo : Due(s, k)' = Due(s, k)
      BY <2>1, <3>1
    <3> HIDE DEF Due
    <3> QED
      BY <1>1, <2>1, <2>2, <3>1, <3>2 DEF Releasing, Active
  <2>3. Balanced => Balanced'
    BY <1>1, <2>1, <2>2 DEF Balanced
  <2> QED
    BY <1>1, <2>3 DEF HarmInv, LedgerInv, GiveOutCrossed, PaymentCrossed, Crossed
<1>5. CancelInv'
  BY <1>1 DEF HarmInv, CancelInv, Cancelling, Paid, Crossed
<1>6. SettleInv'
  BY <1>1 DEF HarmInv, SettleInv, Settling, Took, Share, PaymentCrossed, Doubled, Excused, SentOnce,
              SentPaid, SentUnpaid, Drawn, Paid, Crossed
<1> QED
  BY <1>2, <1>3, <1>4, <1>5, <1>6 DEF HarmInv

\* What the invariant says of each harm once no call is open.
LEMMA QuietHarms ==
  ASSUME IInv, HarmInv
  PROVE  EachHarmHasItsCrossing
<1> SUFFICES ASSUME Quiet PROVE
      /\ \A k \in Kinds : Cardinality(ChargesOf(k)) > 1 =>
           Crossed(Pay(k), {Pay(k)}) \/ Pay(k) \in torn
      /\ OpenDisputes # {} /\ status # "DISPUTED" =>
           Crossed("openDispute", Calls) \/ Crossed("respond", Closes)
      /\ Held < 0 => \/ \E call \in GiveOuts : Crossed(call, Calls)
                     \/ \E k \in Kinds : Crossed(Pay(k), {Pay(k)})
      /\ \A k \in stranded : Crossed(Pay(k), Refunds)
      /\ sent > Net =>
           \/ "settlePayout" \in torn
           \/ /\ Crossed("settlePayout", {"settlePayout"})
              /\ 2 * Net <= TotalCents \/ \E k \in Kinds : Crossed(Pay(k), {Pay(k)})
  BY DEF EachHarmHasItsCrossing
<1>1. \A s \in Sessions : session[s].call = "none"
  BY DEF Quiet, Idle
<1>2. ASSUME NEW k \in Kinds, Cardinality(ChargesOf(k)) > 1
      PROVE  Crossed(Pay(k), {Pay(k)}) \/ Pay(k) \in torn
  <2>1. CASE Captured(k)
    <3>1. Pay(k) # "none"
      BY DEF Pay
    <3>2. ChargesOf(k) \subseteq {payment[k].charge}
      BY <1>1, <2>1, <3>1 DEF Captured
    <3>3. IsFiniteSet({payment[k].charge}) /\ Cardinality({payment[k].charge}) = 1
      BY FS_Singleton, Zenon
    <3>4. Cardinality(ChargesOf(k)) <= 1 /\ Cardinality(ChargesOf(k)) \in Nat
      BY <3>2, <3>3, FS_Subset, FS_CardinalityType
    <3> QED
      BY <1>2, <3>4
  <2>2. CASE PaidTwice(k)
    BY <2>2 DEF PaidTwice
  <2> QED
    BY <2>1, <2>2 DEF HarmInv, PaymentInv
<1>3. OpenDisputes # {} /\ status # "DISPUTED" =>
        Crossed("openDispute", Calls) \/ Crossed("respond", Closes)
  BY DEF HarmInv, DisputeInv, OpeningCrossed, Freeze
<1>4. Held < 0 => \/ \E call \in GiveOuts : Crossed(call, Calls)
                  \/ \E k \in Kinds : Crossed(Pay(k), {Pay(k)})
  <2>1. ledger.hold \subseteq Kinds /\ ledger.refund \subseteq Kinds /\ ledger.out \in Int
    BY DEF IInv, TypeOK
  <2>2. Cents(ledger.hold) \in Nat /\ Cents(ledger.refund) \in Nat
    BY <2>1, CentsGrow
  <2>3. Held \in Int
    BY <2>1, <2>2 DEF Held
  <2>4. Balanced => ~(Held < 0)
    BY <2>3 DEF Balanced
  <2>5. LedgerInv
    BY DEF HarmInv
  <2>6. Held < 0 => GiveOutCrossed \/ PaymentCrossed
    BY <2>4, <2>5 DEF LedgerInv
  <2> QED
    BY <2>6 DEF GiveOutCrossed, PaymentCrossed
<1>5. \A k \in stranded : Crossed(Pay(k), Refunds)
  BY DEF HarmInv, CancelInv
<1>6. sent > Net => Excused
  <2>1. SentOnce => sent = 0 \/ sent = Net
    BY <1>1 DEF SentOnce, SentPaid, SentUnpaid, Took
  <2> QED
    BY <2>1, NetIsPart DEF HarmInv, SettleInv
<1> QED
  BY <1>2, <1>3, <1>4, <1>5, <1>6 DEF Excused, Doubled, PaymentCrossed

\* order-repository.ts:1047.  For any number of overlapping calls, any total
\* any rate and any partial refunds: a double charge, a dispute open on an order
\* that is not frozen (a response written over a closed dispute included), an
\* overdrawn ledger, a captured payment left unrefunded and a payout sent twice
\* each come from the crossing or the rollback named for it, and from no other.
THEOREM HarmsAreCrossings == Spec => []EachHarmHasItsCrossing
<1>1. Init => HarmInv
  BY InitPayments, InitDisputes, InitLedger, InitCancel, InitSettle DEF HarmInv
<1>2. IInv /\ IInv' /\ HarmInv /\ [Next]_vars => HarmInv'
  <2> SUFFICES ASSUME IInv, IInv', HarmInv, [Next]_vars PROVE HarmInv'
    OBVIOUS
  <2>1. CASE UNCHANGED vars
    BY <2>1, HarmStutter DEF IInv
  <2>2. CASE Next
    <3>1. PICK s \in Sessions : Step(s)
      BY <2>2, StepShapes
    <3> QED
      BY <3>1, PaymentStep, DisputeStep, LedgerStep, CancelStep, SettleStep DEF HarmInv, IInv
  <2> QED
    BY <2>1, <2>2
<1>3. IInv /\ HarmInv => EachHarmHasItsCrossing
  BY QuietHarms
<1> QED
  BY RacesInductive, <1>1, <1>2, <1>3, PTL DEF Spec

=============================================================================
