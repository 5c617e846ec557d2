--------------------------- MODULE RfqTradeProofs ---------------------------
(***************************************************************************)
(* Theorems about RfqTrade, for every set of quotes, of modes and of       *)
(* sessions: what one award promises while calls do not overlap, and what  *)
(* is left of it when they do.                                             *)
(***************************************************************************)
EXTENDS RfqTrade, TLAPS

-----------------------------------------------------------------------------
(* What makes the properties inductive *)

Ended == {"AWARDED", "CANCELLED"}
OfQuote == {"WITHDRAW", "DECLINE", "COUNTER", "ACCEPT", "AWARDING"}

\* A row that does not exist yet is referred to by nothing, and a call works on
\* an existing row; an ordered quote is never on offer again.
RowsExist ==
    /\ \A q \in Quotes : quote[q].status = "NONE" =>
         /\ quote[q].parent = NoQuote
         /\ \A c \in Quotes : quote[c].parent # q
         /\ q \notin orders
    /\ \A s \in Sessions : tx[s].op \in OfQuote => quote[tx[s].quote].status # "NONE"
    /\ \A s \in Sessions : \A q \in tx[s].others : quote[q].status # "NONE"
    /\ \A q \in orders : quote[q].status # "SUBMITTED"

\* A call that will accept a quote found it timely.
TimelyCalls ==
    \A s \in Sessions : tx[s].op \in {"ACCEPT", "AWARDING"} =>
        /\ quote[tx[s].quote].window # "FUTURE"
        /\ rfq.mode = "AUCTION" => due

\* Without overlap the call in flight is alone, and what it read still holds
\* but for what the sweeps did.
CallAlone ==
    ~overlap =>
        /\ \A s, t \in Sessions : InFlight(s) /\ InFlight(t) => s = t
        /\ \A s \in Sessions : InFlight(s) /\ tx[s].op \notin {"WITHDRAW", "DECLINE"} =>
             rfq.status \notin Ended
        /\ \A s \in Sessions : tx[s].op \in {"WITHDRAW", "DECLINE"} =>
             quote[tx[s].quote].status # "ACCEPTED"
        /\ \A s \in Sessions : tx[s].op = "AWARDING" =>
             \A c \in Quotes : quote[c].status = "SUBMITTED" =>
                 c = tx[s].quote \/ c \in tx[s].others

IInv ==
    /\ TypeOK
    /\ RowsExist
    /\ TimelyCalls
    /\ CallAlone
    /\ AwardEndsNegotiation
    /\ OneStandingOffer
    /\ OrdersAreTimely
    /\ AwardLeavesOrder

-----------------------------------------------------------------------------
(* Steps *)

\* The initial state satisfies the invariant.
LEMMA InitInv == Init => IInv
  <1> SUFFICES ASSUME Init PROVE IInv
    OBVIOUS
  <1> USE DEF Init, NoRow, Idle
  <1>1. TypeOK
    BY NoQuoteAssumption, ModesAssumption
    DEF TypeOK, Windows, Ops, QuoteStatus, RfqStatus, RfqMode
  <1>2. RowsExist
    BY NoQuoteAssumption DEF RowsExist, OfQuote
  <1>3. TimelyCalls /\ CallAlone
    BY DEF TimelyCalls, CallAlone, InFlight
  <1>4. AwardEndsNegotiation
    BY NoQuoteAssumption DEF AwardEndsNegotiation
  <1>5. OneStandingOffer /\ OrdersAreTimely /\ AwardLeavesOrder
    BY DEF OneStandingOffer, OrdersAreTimely, AwardLeavesOrder
  <1> QED
    BY <1>1, <1>2, <1>3, <1>4, <1>5 DEF IInv

\* Starting a call changes no row; what it found true is what TimelyCalls and
\* CallAlone remember of it.
LEMMA BeginKeeps ==
    ASSUME IInv, NEW s \in Sessions, NEW op \in Ops \ {"AWARDING"},
           NEW q \in Quotes \cup {NoQuote}, Begin(s, op, q),
           op \in OfQuote => q \in Quotes /\ quote[q].status \notin {"NONE", "ACCEPTED"},
           op \notin {"WITHDRAW", "DECLINE"} => rfq.status \notin Ended,
           op = "ACCEPT" => quote[q].window # "FUTURE" /\ (rfq.mode = "AUCTION" => due)
    PROVE  IInv'
  <1> USE DEF IInv, Begin
  <1>1. /\ tx' = [tx EXCEPT ![s] = [op |-> op, quote |-> q, others |-> {}]]
        /\ tx'[s] = [op |-> op, quote |-> q, others |-> {}]
        /\ \A t \in Sessions : t # s => tx'[t] = tx[t]
    BY DEF TypeOK
  <1>2. TypeOK'
    BY <1>1 DEF TypeOK, OfQuote
  <1>3. RowsExist'
    BY <1>1 DEF RowsExist
  <1>4. TimelyCalls'
    BY <1>1 DEF TimelyCalls
  <1>5. CallAlone'
    <2> SUFFICES ASSUME ~overlap' PROVE CallAlone'
      BY DEF CallAlone
    <2>1. \A t \in Sessions : ~InFlight(t)
      OBVIOUS
    <2>2. \A t \in Sessions : t # s => tx'[t].op = "NONE"
      BY <2>1, <1>1 DEF InFlight
    <2>3. \A t, u \in Sessions : InFlight(t)' /\ InFlight(u)' => t = u
      BY <2>2 DEF InFlight
    <2>4. \A t \in Sessions : InFlight(t)' /\ tx'[t].op \notin {"WITHDRAW", "DECLINE"}
            => rfq'.status \notin Ended
      BY <2>2, <1>1 DEF InFlight
    <2>5. \A t \in Sessions : tx'[t].op \in {"WITHDRAW", "DECLINE"} =>
            quote'[tx'[t].quote].status # "ACCEPTED"
      BY <2>2, <1>1 DEF OfQuote
    <2>6. \A t \in Sessions : tx'[t].op # "AWARDING"
      BY <2>2, <1>1
    <2> QED
      BY <2>3, <2>4, <2>5, <2>6 DEF CallAlone
  <1>6. (AwardEndsNegotiation /\ OneStandingOffer /\ OrdersAreTimely /\ AwardLeavesOrder)'
    BY DEF AwardEndsNegotiation, OneStandingOffer, OrdersAreTimely, AwardLeavesOrder
  <1> QED
    BY <1>2, <1>3, <1>4, <1>5, <1>6

\* Every read starts a call that BeginKeeps speaks of.
LEMMA ReadsKeep ==
    ASSUME IInv, NEW s \in Sessions, Reads(s)
    PROVE  IInv'
  <1> USE DEF OfQuote, Ended, Ops, rfqTransition, RfqMoves, quoteTransition, QuoteMoves,
              assertCloseTimeAllows
  <1>1. CASE send(s)
    BY <1>1, BeginKeeps DEF send
  <1>2. CASE close(s)
    BY <1>2, BeginKeeps DEF close
  <1>3. CASE cancel(s)
    BY <1>3, BeginKeeps DEF cancel
  <1>4. CASE submit(s)
    BY <1>4, BeginKeeps DEF submit
  <1>5. ASSUME NEW q \in Quotes, withdraw(s, q) PROVE IInv'
    BY <1>5, BeginKeeps DEF withdraw
  <1>6. ASSUME NEW q \in Quotes, decline(s, q) PROVE IInv'
    BY <1>6, BeginKeeps DEF decline
  <1>7. ASSUME NEW q \in Quotes, counterQuote(s, q) PROVE IInv'
    BY <1>7, BeginKeeps DEF counterQuote
  <1>8. ASSUME NEW q \in Quotes, acceptQuote(s, q) PROVE IInv'
    BY <1>8, BeginKeeps DEF acceptQuote, Acceptable
  <1> QED
    BY <1>1, <1>2, <1>3, <1>4, <1>5, <1>6, <1>7, <1>8 DEF Reads

\* A call that ends takes its own entry away and leaves the others'.
LEMMA DoneKeeps ==
    ASSUME TypeOK, NEW s \in Sessions, Done(s)
    PROVE  /\ tx' \in [Sessions -> [op: Ops \cup {"NONE"}, quote: Quotes \cup {NoQuote},
                                    others: SUBSET Quotes]]
           /\ tx'[s].op = "NONE" /\ tx'[s].others = {}
           /\ \A t \in Sessions : t # s => tx'[t] = tx[t]
  BY DEF TypeOK, Done, Idle

\* Without overlap, the call that ends leaves no call in flight.
LEMMA LastCall ==
    ASSUME IInv, NEW s \in Sessions, InFlight(s), Done(s), ~overlap
    PROVE  \A t \in Sessions : tx'[t].op = "NONE"
  BY DoneKeeps DEF IInv, CallAlone, InFlight

\* A failed call changes nothing else.
LEMMA AbortKeeps ==
    ASSUME IInv, NEW s \in Sessions, abort(s)
    PROVE  IInv'
  <1> USE DEF IInv, abort
  <1>1. /\ tx' \in [Sessions -> [op: Ops \cup {"NONE"}, quote: Quotes \cup {NoQuote},
                                 others: SUBSET Quotes]]
        /\ tx'[s].op = "NONE" /\ tx'[s].others = {}
        /\ \A t \in Sessions : t # s => tx'[t] = tx[t]
    BY DoneKeeps
  <1> HIDE DEF Done
  <1>2. TypeOK'
    BY <1>1 DEF TypeOK
  <1>3. RowsExist'
    BY <1>1 DEF RowsExist, OfQuote
  <1>4. TimelyCalls'
    BY <1>1 DEF TimelyCalls
  <1>5. CallAlone'
    BY <1>1 DEF CallAlone, InFlight
  <1>6. (AwardEndsNegotiation /\ OneStandingOffer /\ OrdersAreTimely /\ AwardLeavesOrder)'
    BY DEF AwardEndsNegotiation, OneStandingOffer, OrdersAreTimely, AwardLeavesOrder
  <1> QED
    BY <1>2, <1>3, <1>4, <1>5, <1>6

\* The update of the RFQ row by send, close and cancel.
LEMMA UpdateRfqKeeps ==
    ASSUME IInv, NEW s \in Sessions,
           NEW event \in {"SEND", "CLOSE", "CANCEL"},
           NEW to \in {"OPEN", "CLOSED", "CANCELLED"},
           updateRfq(s, event, to)
    PROVE  IInv' /\ (~overlap => rfq.status \notin Ended)
  <1> USE DEF IInv, updateRfq
  <1>1. /\ tx' \in [Sessions -> [op: Ops \cup {"NONE"}, quote: Quotes \cup {NoQuote},
                                 others: SUBSET Quotes]]
        /\ tx'[s].op = "NONE" /\ tx'[s].others = {}
        /\ \A t \in Sessions : t # s => tx'[t] = tx[t]
    BY DoneKeeps
  <1>2. ~overlap => rfq.status \notin Ended
    BY DEF CallAlone, InFlight
  <1>3. ~overlap => \A t \in Sessions : tx'[t].op = "NONE"
    BY LastCall DEF InFlight
  <1>4. rfq'.mode = rfq.mode /\ rfq'.awarded = rfq.awarded /\ rfq'.status = to
    BY DEF TypeOK
  <1>5. TypeOK'
    BY <1>1 DEF TypeOK, RfqStatus
  <1>6. RowsExist'
    BY <1>1 DEF RowsExist, OfQuote
  <1>7. TimelyCalls'
    BY <1>1, <1>4 DEF TimelyCalls
  <1>8. CallAlone'
    BY <1>3 DEF CallAlone, InFlight
  <1>9. AwardEndsNegotiation'
    BY <1>2, <1>4 DEF AwardEndsNegotiation, Ended
  <1>10. (OneStandingOffer /\ OrdersAreTimely /\ AwardLeavesOrder)'
    BY <1>4 DEF OneStandingOffer, OrdersAreTimely, AwardLeavesOrder
  <1> QED
    BY <1>2, <1>5, <1>6, <1>7, <1>8, <1>9, <1>10

\* A new quote stands in a row that nothing referred to.
LEMMA SubmitKeeps ==
    ASSUME IInv, NEW s \in Sessions, submitCommit(s)
    PROVE  IInv'
  <1> USE DEF IInv, submitCommit
  <1>1. /\ tx' \in [Sessions -> [op: Ops \cup {"NONE"}, quote: Quotes \cup {NoQuote},
                                 others: SUBSET Quotes]]
        /\ tx'[s].op = "NONE" /\ tx'[s].others = {}
        /\ \A t \in Sessions : t # s => tx'[t] = tx[t]
    BY DoneKeeps
  <1>2. PICK q \in Quotes, w \in Windows :
          /\ quote[q].status = "NONE"
          /\ quote' = [quote EXCEPT ![q] = [status |-> "SUBMITTED", window |-> w,
                                            parent |-> NoQuote]]
    OBVIOUS
  <1>3. /\ quote'[q] = [status |-> "SUBMITTED", window |-> w, parent |-> NoQuote]
        /\ \A r \in Quotes : r # q => quote'[r] = quote[r]
    BY <1>2 DEF TypeOK
  <1>4. ~overlap => \A t \in Sessions : tx'[t].op = "NONE"
    BY LastCall DEF InFlight
  <1>5. ~overlap => rfq.status \notin Ended
    BY DEF CallAlone, InFlight
  <1>6. TypeOK'
    BY <1>1, <1>2 DEF TypeOK, QuoteStatus
  <1>7. RowsExist'
    <2>1. \A r \in Quotes : quote'[r].status = "NONE" =>
            r # q /\ quote[r].status = "NONE"
      BY <1>3
    <2>2. \A r \in Quotes : quote'[r].parent \in {quote[r].parent, NoQuote}
      BY <1>3
    <2>3. \A r \in Quotes : quote'[r].status = "NONE" =>
            /\ quote'[r].parent = NoQuote
            /\ \A c \in Quotes : quote'[c].parent # r
            /\ r \notin orders'
      BY <2>1, <2>2, NoQuoteAssumption DEF RowsExist
    <2>4. \A t \in Sessions : tx'[t].op \in OfQuote => quote'[tx'[t].quote].status # "NONE"
      BY <1>1, <2>1 DEF RowsExist, OfQuote, TypeOK
    <2>5. \A t \in Sessions : \A r \in tx'[t].others : quote'[r].status # "NONE"
      BY <1>1, <2>1 DEF RowsExist, TypeOK
    <2>6. \A r \in orders' : quote'[r].status # "SUBMITTED"
      BY <1>2, <1>3 DEF RowsExist, TypeOK
    <2> QED
      BY <2>3, <2>4, <2>5, <2>6 DEF RowsExist
  <1>8. TimelyCalls'
    BY <1>1, <1>2, <1>3 DEF TimelyCalls, RowsExist, OfQuote, TypeOK
  <1>9. CallAlone'
    BY <1>4 DEF CallAlone, InFlight
  <1>10. AwardEndsNegotiation'
    BY <1>2, <1>3, <1>5 DEF AwardEndsNegotiation, RowsExist, Ended
  <1>11. OneStandingOffer'
    BY <1>2, <1>3, NoQuoteAssumption DEF OneStandingOffer, RowsExist, TypeOK
  <1>12. (OrdersAreTimely /\ AwardLeavesOrder)'
    BY <1>2, <1>3 DEF OrdersAreTimely, AwardLeavesOrder, RowsExist, TypeOK
  <1> QED
    BY <1>6, <1>7, <1>8, <1>9, <1>10, <1>11, <1>12

\* Withdrawing and declining take a quote off the table, wherever it got to.
LEMMA UpdateQuoteKeeps ==
    ASSUME IInv, NEW s \in Sessions,
           NEW event \in {"WITHDRAW", "DECLINE"}, NEW to \in {"WITHDRAWN", "DECLINED"},
           updateQuote(s, event, to)
    PROVE  IInv'
  <1> USE DEF IInv, updateQuote
  <1> DEFINE q == tx[s].quote
  <1>1. /\ tx' \in [Sessions -> [op: Ops \cup {"NONE"}, quote: Quotes \cup {NoQuote},
                                 others: SUBSET Quotes]]
        /\ tx'[s].op = "NONE" /\ tx'[s].others = {}
        /\ \A t \in Sessions : t # s => tx'[t] = tx[t]
    BY DoneKeeps
  <1>2. q \in Quotes /\ quote[q].status # "NONE"
    BY DEF TypeOK, RowsExist, OfQuote
  <1>3. /\ quote'[q].status = to /\ quote'[q].window = quote[q].window
        /\ quote'[q].parent = quote[q].parent
        /\ \A r \in Quotes : r # q => quote'[r] = quote[r]
    BY <1>2 DEF TypeOK
  <1>4. ~overlap => \A t \in Sessions : tx'[t].op = "NONE"
    BY LastCall DEF InFlight
  <1>5. ~overlap => quote[q].status # "ACCEPTED"
    BY DEF CallAlone
  <1>6. TypeOK'
    <2>1. quote' = [quote EXCEPT ![q] = [quote[q] EXCEPT !.status = to]]
      BY <1>2 DEF TypeOK
    <2>2. [quote[q] EXCEPT !.status = to] \in
            [status: QuoteStatus \cup {"NONE"}, window: Windows, parent: Quotes \cup {NoQuote}]
      BY <1>2 DEF TypeOK, QuoteStatus
    <2>3. quote' \in [Quotes -> [status: QuoteStatus \cup {"NONE"}, window: Windows,
                                 parent: Quotes \cup {NoQuote}]]
      BY <2>1, <2>2 DEF TypeOK
    <2> QED
      BY <1>1, <2>3 DEF TypeOK
  <1> HIDE DEF q
  <1>7. RowsExist'
    BY <1>1, <1>2, <1>3 DEF RowsExist, OfQuote, TypeOK
  <1>8. TimelyCalls'
    BY <1>1, <1>2, <1>3 DEF TimelyCalls, TypeOK
  <1>9. CallAlone'
    BY <1>4 DEF CallAlone, InFlight
  <1>10. AwardEndsNegotiation'
    BY <1>2, <1>3, <1>5 DEF AwardEndsNegotiation
  <1>11. OneStandingOffer'
    <2>1. \A c \in Quotes : quote'[c].parent = quote[c].parent
      BY <1>2, <1>3
    <2>2. \A c \in Quotes : quote'[c].status = "SUBMITTED" => quote[c].status = "SUBMITTED"
      BY <1>2, <1>3
    <2> QED
      BY <2>1, <2>2 DEF OneStandingOffer, TypeOK
  <1>12. (OrdersAreTimely /\ AwardLeavesOrder)'
    BY <1>2, <1>3 DEF OrdersAreTimely, AwardLeavesOrder, TypeOK
  <1> QED
    BY <1>6, <1>7, <1>8, <1>9, <1>10, <1>11, <1>12

\* A revision supersedes its head, which existed and had none.
LEMMA CounterKeeps ==
    ASSUME IInv, NEW s \in Sessions, counterCommit(s)
    PROVE  IInv'
  <1> USE DEF IInv
  <1> DEFINE q == tx[s].quote
  <1>1. tx[s].op = "COUNTER" /\ Done(s) /\ UNCHANGED <<rfq, due, orders, overlap>>
    BY DEF counterCommit
  <1>2. /\ tx' \in [Sessions -> [op: Ops \cup {"NONE"}, quote: Quotes \cup {NoQuote},
                                 others: SUBSET Quotes]]
        /\ tx'[s].op = "NONE" /\ tx'[s].others = {}
        /\ \A t \in Sessions : t # s => tx'[t] = tx[t]
    BY <1>1, DoneKeeps
  <1>3. q \in Quotes /\ quote[q].status # "NONE"
    BY <1>1 DEF TypeOK, RowsExist, OfQuote
  <1>4. PICK child \in Quotes, w \in Windows :
          quote[child].status = "NONE" /\ Superseding(q, child, w)
    BY <1>3 DEF counterCommit, Windows, TypeOK
  <1>5. child # q /\ ~Revised(q)
    BY <1>3, <1>4 DEF Superseding
  <1> HIDE DEF q
  <1>6. /\ quote'[child] = [status |-> "SUBMITTED", window |-> w, parent |-> q]
        /\ quote'[q].status = "SUPERSEDED" /\ quote'[q].window = quote[q].window
        /\ quote'[q].parent = quote[q].parent
        /\ \A r \in Quotes : r # child /\ r # q => quote'[r] = quote[r]
    BY <1>3, <1>4, <1>5 DEF Superseding, TypeOK
  <1>7. TypeOK'
    <2>1. [quote[q] EXCEPT !.status = "SUPERSEDED"] \in
            [status: QuoteStatus \cup {"NONE"}, window: Windows, parent: Quotes \cup {NoQuote}]
      BY <1>3 DEF TypeOK, QuoteStatus
    <2>2. [status |-> "SUBMITTED", window |-> w, parent |-> q] \in
            [status: QuoteStatus \cup {"NONE"}, window: Windows, parent: Quotes \cup {NoQuote}]
      BY <1>3 DEF QuoteStatus
    <2>3. quote' \in [Quotes -> [status: QuoteStatus \cup {"NONE"}, window: Windows,
                                 parent: Quotes \cup {NoQuote}]]
      BY <1>4, <2>1, <2>2 DEF Superseding, TypeOK
    <2> QED
      BY <1>1, <1>2, <2>3 DEF TypeOK
  <1>8. \A r \in Quotes : quote'[r].status = "NONE" =>
          r # child /\ r # q /\ quote[r].status = "NONE" /\ quote'[r].parent = quote[r].parent
    BY <1>6
  <1>9. RowsExist'
    <2>1. \A r \in Quotes : quote'[r].parent \in {quote[r].parent, q}
      BY <1>6
    <2>2. \A r \in Quotes : quote'[r].status = "NONE" =>
            /\ quote'[r].parent = NoQuote
            /\ \A c \in Quotes : quote'[c].parent # r
            /\ r \notin orders'
      BY <1>1, <1>8, <2>1 DEF RowsExist
    <2>3. \A t \in Sessions : tx'[t].op \in OfQuote => quote'[tx'[t].quote].status # "NONE"
      BY <1>2, <1>8 DEF RowsExist, OfQuote, TypeOK
    <2>4. \A t \in Sessions : \A r \in tx'[t].others : quote'[r].status # "NONE"
      BY <1>2, <1>8 DEF RowsExist, TypeOK
    <2>5. \A r \in orders' : quote'[r].status # "SUBMITTED"
      BY <1>1, <1>4, <1>6 DEF RowsExist, TypeOK
    <2> QED
      BY <2>2, <2>3, <2>4, <2>5 DEF RowsExist
  <1>10. TimelyCalls'
    <2> SUFFICES ASSUME NEW t \in Sessions, tx'[t].op \in {"ACCEPT", "AWARDING"}
                 PROVE  /\ quote'[tx'[t].quote].window # "FUTURE"
                        /\ rfq'.mode = "AUCTION" => due'
      BY DEF TimelyCalls
    <2>1. tx'[t] = tx[t] /\ tx[t].quote \in Quotes /\ tx[t].quote # child
      BY <1>2, <1>4 DEF TypeOK, RowsExist, OfQuote
    <2>2. quote'[tx[t].quote].window = quote[tx[t].quote].window
      BY <1>6, <2>1
    <2> QED
      BY <1>1, <2>1, <2>2 DEF TimelyCalls
  <1>11. ~overlap => \A t \in Sessions : tx'[t].op = "NONE"
    BY <1>1, LastCall DEF InFlight
  <1>12. ~overlap => rfq.status \notin Ended
    BY <1>1 DEF CallAlone, InFlight
  <1>13. CallAlone'
    BY <1>1, <1>11 DEF CallAlone, InFlight
  <1>14. AwardEndsNegotiation'
    <2> SUFFICES ASSUME ~overlap' PROVE AwardEndsNegotiation'
      BY DEF AwardEndsNegotiation
    <2>1. rfq.status # "AWARDED" /\ orders = {}
      BY <1>1, <1>12 DEF AwardEndsNegotiation, Ended
    <2>2. \A r \in Quotes : rfq.awarded # r /\ quote[r].status # "ACCEPTED"
      BY <1>1, <2>1 DEF AwardEndsNegotiation
    <2>3. \A r \in Quotes : quote'[r].status # "ACCEPTED"
      BY <1>6, <2>2
    <2> QED
      BY <1>1, <2>1, <2>2, <2>3 DEF AwardEndsNegotiation
  <1>15. OneStandingOffer'
    <2> SUFFICES ASSUME NEW c \in Quotes, quote'[c].parent # NoQuote
                 PROVE  /\ quote'[quote'[c].parent].status # "SUBMITTED"
                        /\ \A d \in Quotes : quote'[d].parent = quote'[c].parent => d = c
      BY DEF OneStandingOffer
    <2>1. CASE c = child
      <3>1. quote'[c].parent = q /\ quote'[q].status = "SUPERSEDED"
        BY <1>6, <2>1
      <3>2. \A d \in Quotes : d # child => quote'[d].parent # q
        BY <1>5, <1>6 DEF Revised
      <3> QED
        BY <2>1, <3>1, <3>2
    <2>2. CASE c # child
      <3>1. quote'[c].parent = quote[c].parent
        BY <1>6, <2>2
      <3>2. quote[c].parent \in Quotes /\ quote[c].parent # q /\ quote[c].parent # child
        BY <1>4, <1>5, <3>1 DEF Revised, RowsExist, TypeOK
      <3>3. quote'[quote[c].parent].status # "SUBMITTED"
        BY <1>6, <3>1, <3>2 DEF OneStandingOffer
      <3>4. \A d \in Quotes : quote'[d].parent = quote[c].parent => d = c
        BY <1>6, <3>1, <3>2 DEF OneStandingOffer
      <3> QED
        BY <3>1, <3>3, <3>4
    <2> QED
      BY <2>1, <2>2
  <1>16. OrdersAreTimely'
    BY <1>1, <1>4, <1>6 DEF OrdersAreTimely, RowsExist, TypeOK
  <1>17. AwardLeavesOrder'
    BY <1>1, <1>6 DEF AwardLeavesOrder
  <1> QED
    BY <1>7, <1>9, <1>10, <1>13, <1>14, <1>15, <1>16, <1>17

\* The competitors a call reads under its locks are all that stand then.
LEMMA AwardingKeeps ==
    ASSUME IInv, NEW s \in Sessions, awarding(s)
    PROVE  IInv'
  <1> USE DEF IInv
  <1> DEFINE q == tx[s].quote
  <1>1. /\ tx[s].op = "ACCEPT"
        /\ tx' = [tx EXCEPT ![s] = [op |-> "AWARDING", quote |-> q, others |-> Competitors(q)]]
        /\ UNCHANGED <<rfq, due, quote, orders, overlap>>
    BY DEF awarding
  <1>2. q \in Quotes /\ Competitors(q) \subseteq Quotes
    BY <1>1 DEF TypeOK, Competitors
  <1>3. /\ tx'[s] = [op |-> "AWARDING", quote |-> q, others |-> Competitors(q)]
        /\ \A t \in Sessions : t # s => tx'[t] = tx[t]
    BY <1>1 DEF TypeOK
  <1>4. TypeOK'
    BY <1>1, <1>2, <1>3 DEF TypeOK, Ops
  <1>5. RowsExist'
    BY <1>1, <1>3 DEF RowsExist, OfQuote, Competitors
  <1>6. TimelyCalls'
    BY <1>1, <1>3 DEF TimelyCalls
  <1>7. CallAlone'
    BY <1>1, <1>3 DEF CallAlone, InFlight, Competitors
  <1>8. (AwardEndsNegotiation /\ OneStandingOffer /\ OrdersAreTimely /\ AwardLeavesOrder)'
    BY <1>1 DEF AwardEndsNegotiation, OneStandingOffer, OrdersAreTimely, AwardLeavesOrder
  <1> QED
    BY <1>4, <1>5, <1>6, <1>7, <1>8

\* The award: one order more, named by the pointer.  Without overlap it is the
\* first, and nothing is left standing.
LEMMA AcceptKeeps ==
    ASSUME IInv, NEW s \in Sessions, acceptCommit(s)
    PROVE  IInv' /\ (~overlap => rfq.status \notin Ended)
  <1> USE DEF IInv
  <1> DEFINE q == tx[s].quote
             others == tx[s].others
  <1>1. /\ tx[s].op = "AWARDING" /\ q \notin orders
        /\ quote' = [r \in Quotes |->
                       IF r = q THEN [quote[r] EXCEPT !.status = "ACCEPTED"]
                       ELSE IF r \in others THEN [quote[r] EXCEPT !.status = "DECLINED"]
                       ELSE quote[r]]
        /\ rfq' = Awarded(q) /\ orders' = orders \cup {q}
        /\ Done(s) /\ UNCHANGED <<due, overlap>>
    BY DEF acceptCommit
  <1>2. /\ tx' \in [Sessions -> [op: Ops \cup {"NONE"}, quote: Quotes \cup {NoQuote},
                                 others: SUBSET Quotes]]
        /\ tx'[s].op = "NONE" /\ tx'[s].others = {}
        /\ \A t \in Sessions : t # s => tx'[t] = tx[t]
    BY <1>1, DoneKeeps
  <1>3. q \in Quotes /\ quote[q].status # "NONE" /\ others \subseteq Quotes
    BY <1>1 DEF TypeOK, RowsExist, OfQuote
  <1>4. ~overlap => rfq.status \notin Ended
    BY <1>1 DEF CallAlone, InFlight
  <1>5. \A c \in Quotes : ~overlap /\ quote[c].status = "SUBMITTED" => c = q \/ c \in others
    BY <1>1 DEF CallAlone
  <1>6. quote[q].window # "FUTURE" /\ (rfq.mode = "AUCTION" => due)
    BY <1>1 DEF TimelyCalls
  <1>7. \A r \in others : quote[r].status # "NONE"
    BY DEF RowsExist
  <1> HIDE DEF q, others
  <1>8. /\ rfq'.mode = rfq.mode /\ rfq'.status = "AWARDED" /\ rfq'.awarded = q
        /\ quote'[q].status = "ACCEPTED"
        /\ \A r \in Quotes : r # q => quote'[r].status \in {quote[r].status, "DECLINED"}
        /\ \A r \in others : r # q => quote'[r].status = "DECLINED"
        /\ \A r \in Quotes : quote'[r].window = quote[r].window /\ quote'[r].parent = quote[r].parent
        /\ \A r \in Quotes : r # q => (quote'[r].status = "NONE" <=> quote[r].status = "NONE")
    BY <1>1, <1>3, <1>7 DEF Awarded, TypeOK
  <1>9. TypeOK'
    <2>1. \A r \in Quotes, st \in QuoteStatus : [quote[r] EXCEPT !.status = st] \in
            [status: QuoteStatus \cup {"NONE"}, window: Windows, parent: Quotes \cup {NoQuote}]
      BY DEF TypeOK, QuoteStatus
    <2>2. quote' \in [Quotes -> [status: QuoteStatus \cup {"NONE"}, window: Windows,
                                 parent: Quotes \cup {NoQuote}]]
      <3> DEFINE Row == [status: QuoteStatus \cup {"NONE"}, window: Windows,
                         parent: Quotes \cup {NoQuote}]
      <3>1. \A r \in Quotes : /\ quote[r] \in Row
                              /\ [quote[r] EXCEPT !.status = "ACCEPTED"] \in Row
                              /\ [quote[r] EXCEPT !.status = "DECLINED"] \in Row
        <4>1. "ACCEPTED" \in QuoteStatus /\ "DECLINED" \in QuoteStatus
          BY DEF QuoteStatus
        <4>2. quote \in [Quotes -> Row]
          BY DEF TypeOK
        <4> QED
          BY <2>1, <4>1, <4>2
      <3> HIDE DEF Row
      <3>2. quote' \in [Quotes -> Row]
        BY <1>1, <3>1
      <3> QED
        BY <3>2 DEF Row
    <2>3. rfq' \in [mode: RfqMode, status: RfqStatus \cup {"NONE"}, awarded: Quotes \cup {NoQuote}]
      BY <1>1, <1>3 DEF Awarded, TypeOK, RfqStatus
    <2> QED
      BY <1>1, <1>2, <1>3, <2>2, <2>3 DEF TypeOK
  <1>10. \A r \in Quotes : quote'[r].status = "NONE" => r # q /\ quote[r].status = "NONE"
    BY <1>8
  <1>11. RowsExist'
    <2>1. \A r \in Quotes : quote'[r].status = "NONE" =>
            /\ quote'[r].parent = NoQuote
            /\ \A c \in Quotes : quote'[c].parent # r
            /\ r \notin orders'
      BY <1>1, <1>8, <1>10 DEF RowsExist
    <2>2. \A t \in Sessions : tx'[t].op \in OfQuote => quote'[tx'[t].quote].status # "NONE"
      BY <1>2, <1>10 DEF RowsExist, OfQuote, TypeOK
    <2>3. \A t \in Sessions : \A r \in tx'[t].others : quote'[r].status # "NONE"
      BY <1>2, <1>10 DEF RowsExist, TypeOK
    <2>4. \A r \in orders' : quote'[r].status # "SUBMITTED"
      BY <1>1, <1>8 DEF RowsExist, TypeOK
    <2> QED
      BY <2>1, <2>2, <2>3, <2>4 DEF RowsExist
  <1>12. TimelyCalls'
    BY <1>1, <1>2, <1>8 DEF TimelyCalls, TypeOK
  <1>13. ~overlap => \A t \in Sessions : tx'[t].op = "NONE"
    BY <1>1, LastCall DEF InFlight
  <1>14. CallAlone'
    BY <1>1, <1>13 DEF CallAlone, InFlight
  <1>15. AwardEndsNegotiation'
    <2> SUFFICES ASSUME ~overlap' PROVE AwardEndsNegotiation'
      BY DEF AwardEndsNegotiation
    <2>1. orders = {} /\ \A r \in Quotes : quote[r].status # "ACCEPTED"
      BY <1>1, <1>4 DEF AwardEndsNegotiation, Ended
    <2>2. \A r \in Quotes : r # q => quote'[r].status # "ACCEPTED"
      BY <1>8, <2>1
    <2>3. \A r \in Quotes : quote'[r].status # "SUBMITTED"
      BY <1>1, <1>5, <1>8
    <2> QED
      BY <1>1, <1>3, <1>8, <2>1, <2>2, <2>3 DEF AwardEndsNegotiation
  <1>16. OneStandingOffer'
    <2>1. \A c \in Quotes : quote'[c].status = "SUBMITTED" => quote[c].status = "SUBMITTED"
      BY <1>8
    <2> QED
      BY <1>8, <2>1 DEF OneStandingOffer, TypeOK
  <1>17. OrdersAreTimely'
    <2>1. \A r \in orders' : r \in Quotes /\ (r = q \/ r \in orders)
      BY <1>1, <1>3 DEF TypeOK
    <2>2. \A r \in orders' : quote'[r].status # "EXPIRED"
      BY <1>8, <2>1 DEF OrdersAreTimely
    <2>3. \A r \in orders' : quote'[r].window # "FUTURE"
      BY <1>6, <1>8, <2>1 DEF OrdersAreTimely
    <2>4. rfq'.mode = "AUCTION" => due'
      BY <1>1, <1>6, <1>8
    <2> QED
      BY <2>2, <2>3, <2>4 DEF OrdersAreTimely
  <1>18. AwardLeavesOrder'
    BY <1>1, <1>8 DEF AwardLeavesOrder
  <1> QED
    BY <1>4, <1>9, <1>11, <1>12, <1>14, <1>15, <1>16, <1>17, <1>18

\* The sweep closes an open RFQ only.
LEMMA CloseDueKeeps ==
    ASSUME IInv, closeDueRfqs
    PROVE  IInv'
  <1> USE DEF IInv, closeDueRfqs, StillOpen
  <1>1. rfq'.mode = rfq.mode /\ rfq'.awarded = rfq.awarded /\ rfq'.status = "CLOSED"
    BY DEF TypeOK
  <1>2. TypeOK'
    BY DEF TypeOK, RfqStatus
  <1>3. RowsExist' /\ OneStandingOffer'
    BY DEF RowsExist, OneStandingOffer
  <1>4. TimelyCalls' /\ OrdersAreTimely' /\ AwardLeavesOrder'
    BY <1>1 DEF TimelyCalls, OrdersAreTimely, AwardLeavesOrder
  <1>5. CallAlone'
    BY <1>1 DEF CallAlone, InFlight, Ended
  <1>6. AwardEndsNegotiation'
    BY <1>1 DEF AwardEndsNegotiation
  <1> QED
    BY <1>2, <1>3, <1>4, <1>5, <1>6

\* The sweep expires a quote on offer only, which no order was made from.
LEMMA ExpireKeeps ==
    ASSUME IInv, NEW q \in Quotes, expireDueQuotes(q)
    PROVE  IInv'
  <1> USE DEF IInv, expireDueQuotes, StillSubmitted
  <1>1. /\ quote'[q].status = "EXPIRED" /\ quote'[q].window = quote[q].window
        /\ quote'[q].parent = quote[q].parent
        /\ \A r \in Quotes : r # q => quote'[r] = quote[r]
    BY DEF TypeOK
  <1>2. TypeOK'
    BY DEF TypeOK, QuoteStatus
  <1>3. q \notin orders
    BY DEF RowsExist
  <1>4. RowsExist'
    BY <1>1 DEF RowsExist, OfQuote, TypeOK
  <1>5. TimelyCalls'
    BY <1>1 DEF TimelyCalls, TypeOK
  <1>6. CallAlone'
    BY <1>1 DEF CallAlone, InFlight, TypeOK
  <1>7. AwardEndsNegotiation'
    BY <1>1, <1>3 DEF AwardEndsNegotiation
  <1>8. OneStandingOffer'
    <2>1. \A c \in Quotes : quote'[c].parent = quote[c].parent
      BY <1>1
    <2>2. \A c \in Quotes : quote'[c].status = "SUBMITTED" => quote[c].status = "SUBMITTED"
      BY <1>1
    <2> QED
      BY <2>1, <2>2 DEF OneStandingOffer, TypeOK
  <1>9. OrdersAreTimely' /\ AwardLeavesOrder'
    BY <1>1, <1>3 DEF OrdersAreTimely, AwardLeavesOrder, TypeOK
  <1> QED
    BY <1>2, <1>4, <1>5, <1>6, <1>7, <1>8, <1>9

\* Time only moves towards due and towards the end of a window.
LEMMA TimeKeeps ==
    ASSUME IInv, Time
    PROVE  IInv'
  <1> USE DEF IInv
  <1>1. CASE closeTimePasses
    <2> USE <1>1 DEF closeTimePasses
    <2>1. TypeOK' /\ RowsExist' /\ TimelyCalls' /\ CallAlone'
      BY DEF TypeOK, RowsExist, TimelyCalls, CallAlone, InFlight
    <2>2. AwardEndsNegotiation' /\ OneStandingOffer' /\ OrdersAreTimely' /\ AwardLeavesOrder'
      BY DEF AwardEndsNegotiation, OneStandingOffer, OrdersAreTimely, AwardLeavesOrder
    <2> QED
      BY <2>1, <2>2
  <1>2. ASSUME NEW q \in Quotes, validityPasses(q) PROVE IInv'
    <2> USE <1>2 DEF validityPasses
    <2>1. /\ \A r \in Quotes : /\ quote'[r].status = quote[r].status
                               /\ quote'[r].parent = quote[r].parent
          /\ \A r \in Quotes : quote[r].window # "FUTURE" => quote'[r].window # "FUTURE"
      BY DEF TypeOK
    <2>2. TypeOK'
      BY DEF TypeOK, Windows
    <2> HIDE <1>2
    <2>3. UNCHANGED <<rfq, due, orders, tx, overlap>>
      BY <1>2
    <2>4. RowsExist' /\ TimelyCalls'
      BY <2>1, <2>3 DEF RowsExist, TimelyCalls, OfQuote, TypeOK
    <2>5. CallAlone'
      BY <2>1, <2>3 DEF CallAlone, InFlight, TypeOK
    <2>6. AwardEndsNegotiation' /\ OneStandingOffer'
      BY <2>1, <2>3 DEF AwardEndsNegotiation, OneStandingOffer, TypeOK
    <2>7. OrdersAreTimely' /\ AwardLeavesOrder'
      BY <2>1, <2>3 DEF OrdersAreTimely, AwardLeavesOrder, TypeOK
    <2> QED
      BY <2>2, <2>4, <2>5, <2>6, <2>7
  <1> QED
    BY <1>1, <1>2 DEF Time

\* Creating the RFQ happens before everything else.
LEMMA CreateKeeps ==
    ASSUME IInv, create
    PROVE  IInv'
  <1> USE DEF IInv, create
  <1>1. rfq'.mode = rfq.mode /\ rfq'.awarded = rfq.awarded /\ rfq'.status = "DRAFT"
    BY DEF TypeOK
  <1>2. TypeOK' /\ RowsExist' /\ TimelyCalls'
    BY <1>1 DEF TypeOK, RfqStatus, RowsExist, TimelyCalls
  <1>3. CallAlone' /\ AwardEndsNegotiation'
    BY <1>1 DEF CallAlone, InFlight, AwardEndsNegotiation, Ended
  <1>4. OneStandingOffer' /\ OrdersAreTimely' /\ AwardLeavesOrder'
    BY <1>1 DEF OneStandingOffer, OrdersAreTimely, AwardLeavesOrder
  <1> QED
    BY <1>2, <1>3, <1>4

\* A commit keeps the invariant, and without overlap finds an RFQ that has
\* not ended when it writes the RFQ row.
LEMMA CommitsKeep ==
    ASSUME IInv, NEW s \in Sessions, Commits(s)
    PROVE  /\ IInv'
           /\ ~overlap /\ rfq.status \in Ended => rfq' = rfq
  <1>1. CASE updateRfq(s, "SEND", "OPEN")
    BY <1>1, UpdateRfqKeeps
  <1>2. CASE updateRfq(s, "CLOSE", "CLOSED")
    BY <1>2, UpdateRfqKeeps
  <1>3. CASE updateRfq(s, "CANCEL", "CANCELLED")
    BY <1>3, UpdateRfqKeeps
  <1>4. CASE submitCommit(s)
    BY <1>4, SubmitKeeps DEF submitCommit
  <1>5. CASE updateQuote(s, "WITHDRAW", "WITHDRAWN")
    BY <1>5, UpdateQuoteKeeps DEF updateQuote
  <1>6. CASE updateQuote(s, "DECLINE", "DECLINED")
    BY <1>6, UpdateQuoteKeeps DEF updateQuote
  <1>7. CASE counterCommit(s)
    BY <1>7, CounterKeeps DEF counterCommit
  <1>8. CASE acceptCommit(s)
    BY <1>8, AcceptKeeps
  <1> QED
    BY <1>1, <1>2, <1>3, <1>4, <1>5, <1>6, <1>7, <1>8 DEF Commits

\* Every step keeps the invariant; without overlap an ended RFQ stays.
LEMMA StepKeeps ==
    ASSUME IInv, Next
    PROVE  /\ IInv'
           /\ ~overlap /\ rfq.status \in Ended => rfq' = rfq
  <1>1. CASE create
    BY <1>1, CreateKeeps DEF create, Ended
  <1>2. ASSUME NEW s \in Sessions, Reads(s)
        PROVE  IInv' /\ rfq' = rfq
    BY <1>2, ReadsKeep DEF Reads, send, close, cancel, submit, withdraw, decline,
                           counterQuote, acceptQuote, Begin
  <1>3. ASSUME NEW s \in Sessions, awarding(s)
        PROVE  IInv' /\ rfq' = rfq
    BY <1>3, AwardingKeeps DEF awarding
  <1>4. ASSUME NEW s \in Sessions, Commits(s)
        PROVE  IInv' /\ (~overlap /\ rfq.status \in Ended => rfq' = rfq)
    BY <1>4, CommitsKeep
  <1>5. ASSUME NEW s \in Sessions, abort(s)
        PROVE  IInv' /\ rfq' = rfq
    BY <1>5, AbortKeeps DEF abort
  <1>6. CASE closeDueRfqs
    BY <1>6, CloseDueKeeps DEF closeDueRfqs, StillOpen, Ended
  <1>7. ASSUME NEW q \in Quotes, expireDueQuotes(q)
        PROVE  IInv' /\ rfq' = rfq
    BY <1>7, ExpireKeeps DEF expireDueQuotes
  <1>8. CASE Time
    BY <1>8, TimeKeeps DEF Time, closeTimePasses, validityPasses
  <1> QED
    BY <1>1, <1>2, <1>3, <1>4, <1>5, <1>6, <1>7, <1>8 DEF Next, Sweeps

\* Stuttering keeps the invariant.
LEMMA StutterKeeps ==
    ASSUME IInv, UNCHANGED vars
    PROVE  IInv'
  BY DEF vars, IInv, TypeOK, RowsExist, TimelyCalls, CallAlone, InFlight,
         AwardEndsNegotiation, OneStandingOffer, OrdersAreTimely, AwardLeavesOrder

-----------------------------------------------------------------------------
(* Theorems *)

\* The invariant holds in every state, for any number of sessions: repository
\* calls of rfq-, quote-, negotiation- and cart-repository.ts and both sweeps.
THEOREM TradeInductive == Spec => []IInv
  <1>1. IInv /\ [Next]_vars => IInv'
    BY StepKeeps, StutterKeeps
  <1> QED
    BY InitInv, <1>1, PTL DEF Spec

\* Rows and calls keep their types.
THEOREM TradeTypeCorrect == Spec => []TypeOK
  <1>1. IInv => TypeOK
    BY DEF IInv
  <1> QED
    BY TradeInductive, <1>1, PTL

\* acceptQuote: while calls do not overlap, an RFQ has at most one order, made
\* from the one accepted quote, and its award leaves no competitor standing.
THEOREM OneAward == Spec => []AwardEndsNegotiation
  <1>1. IInv => AwardEndsNegotiation
    BY DEF IInv
  <1> QED
    BY TradeInductive, <1>1, PTL

\* counterQuote: however calls overlap, a revised quote is off the table and has
\* one revision.
THEOREM OneOfferPerChain == Spec => []OneStandingOffer
  <1>1. IInv => OneStandingOffer
    BY DEF IInv
  <1> QED
    BY TradeInductive, <1>1, PTL

\* expireDueQuotes and acceptQuote: however calls overlap, nothing is ordered
\* from an expired quote, before its window, or before an auction's close time.
THEOREM TimelyOrders == Spec => []OrdersAreTimely
  <1>1. IInv => OrdersAreTimely
    BY DEF IInv
  <1> QED
    BY TradeInductive, <1>1, PTL

\* acceptQuote: however calls overlap, the award pointer names a quote with an
\* order and every accepted quote has its order.
THEOREM AwardsHaveOrders == Spec => []AwardLeavesOrder
  <1>1. IInv => AwardLeavesOrder
    BY DEF IInv
  <1> QED
    BY TradeInductive, <1>1, PTL

\* close, cancel, send and closeDueRfqs: without overlap an awarded or cancelled
\* RFQ never changes again.
THEOREM EndedStays == Spec => EndedRfqStays
  <1>1. IInv /\ [Next]_vars =>
          [~overlap' /\ rfq.status \in {"AWARDED", "CANCELLED"} => rfq' = rfq]_vars
    <2> SUFFICES ASSUME IInv, Next, ~overlap', rfq.status \in {"AWARDED", "CANCELLED"}
                 PROVE  rfq' = rfq
      OBVIOUS
    <2>1. ~overlap
      BY DEF Next, create, Reads, send, close, cancel, submit, withdraw, decline,
             counterQuote, acceptQuote, Begin, awarding, Commits, updateRfq, submitCommit,
             updateQuote, counterCommit, acceptCommit, abort, Sweeps, closeDueRfqs,
             expireDueQuotes, Time, closeTimePasses, validityPasses
    <2> QED
      BY <2>1, StepKeeps DEF Ended
  <1> QED
    BY TradeInductive, <1>1, PTL DEF Spec, EndedRfqStays
=============================================================================
