------------------------------ MODULE RfqTrade ------------------------------
(***************************************************************************)
(* One request for quotation in packages/core/src/trade, from its draft to *)
(* the orders made from it: the RFQ row, its quotes and their revisions,   *)
(* and the repository calls in flight on them.                             *)
(*                                                                         *)
(* A call is one READ COMMITTED transaction that reads, asks the machines, *)
(* and updates rows by id.  Its reads and its commit are two steps here:   *)
(* whatever other calls commit in between, the update does not ask again.  *)
(* acceptQuote has a third step between them, in which it holds the locks  *)
(* of its quote and of the RFQ and reads the competitors it will decline.  *)
(* The two sweeps update conditionally and are one step each.              *)
(***************************************************************************)
EXTENDS TradeMachine

CONSTANTS
    Modes,      \* the RFQ modes buyers choose in this instance
    Quotes,     \* Quote rows the RFQ may ever get
    NoQuote,
    Sessions    \* the calls that may be in flight at once

ASSUME ModesAssumption == Modes \subseteq RfqMode
ASSUME NoQuoteAssumption == NoQuote \notin Quotes

VARIABLES
    rfq,       \* the Rfq row
    due,       \* the auction's closesAt has passed
    quote,     \* Quote rows; window is now against validFrom..validUntil
    orders,    \* the quotes that an Order row points to (quoteId is unique)
    tx,        \* per session, the call in flight after its reads
    overlap    \* two calls have been in flight together

vars == <<rfq, due, quote, orders, tx, overlap>>

Windows == {"FUTURE", "NOW", "PAST"}
Ops == {"SEND", "CLOSE", "CANCEL", "SUBMIT", "WITHDRAW", "DECLINE", "COUNTER",
        "ACCEPT", "AWARDING"}

NoRow == [status |-> "NONE", window |-> "NOW", parent |-> NoQuote]
Idle == [op |-> "NONE", quote |-> NoQuote, others |-> {}]

TypeOK ==
    /\ rfq \in [mode: RfqMode, status: RfqStatus \cup {"NONE"},
                awarded: Quotes \cup {NoQuote}]
    /\ due \in BOOLEAN
    /\ quote \in [Quotes -> [status: QuoteStatus \cup {"NONE"}, window: Windows,
                             parent: Quotes \cup {NoQuote}]]
    /\ orders \subseteq Quotes
    /\ tx \in [Sessions -> [op: Ops \cup {"NONE"}, quote: Quotes \cup {NoQuote},
                            others: SUBSET Quotes]]
    /\ \A s \in Sessions :
         tx[s].op \in {"WITHDRAW", "DECLINE", "COUNTER", "ACCEPT", "AWARDING"} =>
             tx[s].quote \in Quotes
    /\ overlap \in BOOLEAN

Init ==
    /\ rfq \in [mode: Modes, status: {"NONE"}, awarded: {NoQuote}]
    /\ due = FALSE
    /\ quote = [q \in Quotes |-> NoRow]
    /\ orders = {}
    /\ tx = [s \in Sessions |-> Idle]
    /\ overlap = FALSE

-----------------------------------------------------------------------------
(* Calls *)

InFlight(s) == tx[s].op # "NONE"

\* A call has read what it needed and found its guard true.
Begin(s, op, q) ==
    /\ ~InFlight(s)
    /\ tx' = [tx EXCEPT ![s] = [op |-> op, quote |-> q, others |-> {}]]
    /\ overlap' = (overlap \/ \E t \in Sessions : InFlight(t))
    /\ UNCHANGED <<rfq, due, quote, orders>>

Done(s) == tx' = [tx EXCEPT ![s] = Idle]

\* Rows an acceptQuote has updated and not committed: other updates wait.
RfqLocked == \E s \in Sessions : tx[s].op = "AWARDING"
QuoteLocked(q) == \E s \in Sessions : tx[s].op = "AWARDING" /\ tx[s].quote = q

\* A call that fails after its reads: a unique index, a deadlock, a timeout.
\* Nothing it wrote was visible, so nothing of it remains.
abort(s) ==
    /\ InFlight(s)
    /\ Done(s)
    /\ UNCHANGED <<rfq, due, quote, orders, overlap>>

-----------------------------------------------------------------------------
(* Buyer: create, send, close and cancel the RFQ *)

create ==
    /\ rfq.status = "NONE"
    /\ rfq' = [rfq EXCEPT !.status = "DRAFT"]
    /\ UNCHANGED <<due, quote, orders, tx, overlap>>

send(s) ==
    /\ rfqTransition(rfq.status, "SEND", "OPEN")
    /\ Begin(s, "SEND", NoQuote)

close(s) ==
    /\ assertCloseTimeAllows(rfq.mode, due)
    /\ rfqTransition(rfq.status, "CLOSE", "CLOSED")
    /\ Begin(s, "CLOSE", NoQuote)

cancel(s) ==
    /\ assertCloseTimeAllows(rfq.mode, due)
    /\ rfqTransition(rfq.status, "CANCEL", "CANCELLED")
    /\ Begin(s, "CANCEL", NoQuote)

\* The update that ends send, close and cancel: by id, to the status the
\* machine gave for what was read.
updateRfq(s, event, to) ==
    /\ tx[s].op = event
    /\ ~RfqLocked
    /\ rfq' = [rfq EXCEPT !.status = to]
    /\ Done(s)
    /\ UNCHANGED <<due, quote, orders, overlap>>

-----------------------------------------------------------------------------
(* Suppliers and buyer: quote, revise, withdraw, decline *)

\* Any invited supplier, any number of times; nothing asks for the close time.
submit(s) ==
    /\ rfq.status = "OPEN"
    /\ Begin(s, "SUBMIT", NoQuote)

\* validFrom and validUntil are the supplier's: the window may not have begun,
\* or be over already.
submitCommit(s) ==
    /\ tx[s].op = "SUBMIT"
    /\ \E q \in Quotes, w \in Windows :
         /\ quote[q].status = "NONE"
         /\ quote' = [quote EXCEPT ![q] = [status |-> "SUBMITTED", window |-> w,
                                           parent |-> NoQuote]]
    /\ Done(s)
    /\ UNCHANGED <<rfq, due, orders, overlap>>

withdraw(s, q) ==
    /\ quoteTransition(quote[q].status, "WITHDRAW", "WITHDRAWN")
    /\ Begin(s, "WITHDRAW", q)

decline(s, q) ==
    /\ quoteTransition(quote[q].status, "DECLINE", "DECLINED")
    /\ Begin(s, "DECLINE", q)

updateQuote(s, event, to) ==
    /\ tx[s].op = event
    /\ ~QuoteLocked(tx[s].quote)
    /\ quote' = [quote EXCEPT ![tx[s].quote].status = to]
    /\ Done(s)
    /\ UNCHANGED <<rfq, due, orders, overlap>>

Revised(q) == \E c \in Quotes : quote[c].parent = q

counterQuote(s, q) ==
    /\ quoteTransition(quote[q].status, "SUPERSEDE", "SUPERSEDED")
    /\ rfq.status = "OPEN"
    /\ ~Revised(q)
    /\ Begin(s, "COUNTER", q)

\* Mutant of Superseding: the head is left standing.
SupersedeNothing(q, child, w) ==
    /\ ~Revised(q)
    /\ quote' = [quote EXCEPT ![child] = [status |-> "SUBMITTED", window |-> w, parent |-> q]]

\* The revision replaces its head.  parentQuoteId is unique.
Superseding(q, child, w) ==
    /\ ~Revised(q)
    /\ quote' = [r \in Quotes |->
                   IF r = child THEN [status |-> "SUBMITTED", window |-> w, parent |-> q]
                   ELSE IF r = q THEN [quote[q] EXCEPT !.status = "SUPERSEDED"]
                   ELSE quote[r]]

\* A revision is valid from now until a given future time or its head's end.
counterCommit(s) ==
    LET q == tx[s].quote
    IN  /\ tx[s].op = "COUNTER"
        /\ ~QuoteLocked(q)
        /\ \E child \in Quotes, w \in {"NOW", quote[q].window} \ {"FUTURE"} :
             /\ quote[child].status = "NONE"
             /\ Superseding(q, child, w)
        /\ Done(s)
        /\ UNCHANGED <<rfq, due, orders, overlap>>

-----------------------------------------------------------------------------
(* The award *)

Acceptable(q) ==
    /\ quoteTransition(quote[q].status, "ACCEPT", "ACCEPTED")
    /\ quote[q].window = "NOW"

acceptQuote(s, q) ==
    /\ Acceptable(q)
    /\ rfqTransition(rfq.status, "AWARD", "AWARDED")
    /\ assertCloseTimeAllows(rfq.mode, due)
    /\ Begin(s, "ACCEPT", q)

\* Mutant of Competitors: competitors are not looked for.
NoCompetitors(q) == {}

\* The standing competitors, as the call reads them under its locks.
Competitors(q) == {c \in Quotes \ {q} : quote[c].status = "SUBMITTED"}

\* Quote and RFQ are updated, and locked; the competitors are read.
awarding(s) ==
    /\ tx[s].op = "ACCEPT"
    /\ ~RfqLocked
    /\ tx' = [tx EXCEPT ![s] = [op |-> "AWARDING", quote |-> tx[s].quote,
                                others |-> Competitors(tx[s].quote)]]
    /\ UNCHANGED <<rfq, due, quote, orders, overlap>>

\* Mutant of Awarded: the award pointer is not written.
AwardedUnnamed(q) == [rfq EXCEPT !.status = "AWARDED"]

Awarded(q) == [mode |-> rfq.mode, status |-> "AWARDED", awarded |-> q]

\* Everything becomes visible at once: the accepted quote, the declined
\* competitors whatever became of them, the award, and the DRAFT order.
acceptCommit(s) ==
    LET q == tx[s].quote
    IN  /\ tx[s].op = "AWARDING"
        /\ q \notin orders
        /\ quote' = [r \in Quotes |->
                       IF r = q THEN [quote[r] EXCEPT !.status = "ACCEPTED"]
                       ELSE IF r \in tx[s].others THEN [quote[r] EXCEPT !.status = "DECLINED"]
                       ELSE quote[r]]
        /\ rfq' = Awarded(q)
        /\ orders' = orders \cup {q}
        /\ Done(s)
        /\ UNCHANGED <<due, overlap>>

-----------------------------------------------------------------------------
(* Sweeps and time *)

\* Mutant of StillOpen: the sweep closes what it selected, whatever happened since.
EverOpen == rfq.status \notin {"NONE", "DRAFT"}

\* The conditional updates of the sweeps.
StillOpen == rfq.status = "OPEN"

\* Mutant of StillSubmitted: the expiry forgets that an accept wins the race.
NotYetExpired(q) == quote[q].status \in {"SUBMITTED", "ACCEPTED"}

StillSubmitted(q) == quote[q].status = "SUBMITTED"

\* Mutant of closeDueRfqs: the comparison with closesAt is the wrong way round.
closeUndueRfqs ==
    /\ rfq.mode = "AUCTION" /\ ~due
    /\ StillOpen
    /\ rfq' = [rfq EXCEPT !.status = "CLOSED"]
    /\ UNCHANGED <<due, quote, orders, tx, overlap>>

closeDueRfqs ==
    /\ rfq.mode = "AUCTION" /\ due
    /\ StillOpen
    /\ ~RfqLocked
    /\ rfq' = [rfq EXCEPT !.status = "CLOSED"]
    /\ UNCHANGED <<due, quote, orders, tx, overlap>>

expireDueQuotes(q) ==
    /\ quote[q].window = "PAST"
    /\ StillSubmitted(q)
    /\ ~QuoteLocked(q)
    /\ quote' = [quote EXCEPT ![q].status = "EXPIRED"]
    /\ UNCHANGED <<rfq, due, orders, tx, overlap>>

closeTimePasses ==
    /\ rfq.mode = "AUCTION" /\ rfq.status # "NONE"
    /\ ~due
    /\ due' = TRUE
    /\ UNCHANGED <<rfq, quote, orders, tx, overlap>>

validityPasses(q) ==
    /\ quote[q].status # "NONE"
    /\ \/ quote[q].window = "FUTURE" /\ quote' = [quote EXCEPT ![q].window = "NOW"]
       \/ quote[q].window = "NOW" /\ quote' = [quote EXCEPT ![q].window = "PAST"]
    /\ UNCHANGED <<rfq, due, orders, tx, overlap>>

-----------------------------------------------------------------------------

Reads(s) ==
    \/ send(s) \/ close(s) \/ cancel(s) \/ submit(s)
    \/ \E q \in Quotes :
         withdraw(s, q) \/ decline(s, q) \/ counterQuote(s, q) \/ acceptQuote(s, q)

Commits(s) ==
    \/ updateRfq(s, "SEND", "OPEN")
    \/ updateRfq(s, "CLOSE", "CLOSED")
    \/ updateRfq(s, "CANCEL", "CANCELLED")
    \/ submitCommit(s)
    \/ updateQuote(s, "WITHDRAW", "WITHDRAWN")
    \/ updateQuote(s, "DECLINE", "DECLINED")
    \/ counterCommit(s)
    \/ acceptCommit(s)

Sweeps == closeDueRfqs \/ \E q \in Quotes : expireDueQuotes(q)

Time == closeTimePasses \/ \E q \in Quotes : validityPasses(q)

Next ==
    \/ create
    \/ \E s \in Sessions : Reads(s) \/ awarding(s) \/ Commits(s) \/ abort(s)
    \/ Sweeps
    \/ Time

Spec == Init /\ [][Next]_vars

\* Both sweeps keep being scheduled, and a row lock they wait for is granted
\* in turn, so no stream of other calls can starve them: strong fairness.  A
\* transaction ends, by itself or by Prisma's timeout.
FairSpec ==
    /\ Spec
    /\ SF_vars(closeDueRfqs)
    /\ \A q \in Quotes : SF_vars(expireDueQuotes(q))
    /\ \A s \in Sessions : WF_vars(Commits(s) \/ abort(s))

-----------------------------------------------------------------------------
(* Properties *)

\* While no two calls have overlapped, an RFQ has at most one order, exactly
\* when it is AWARDED, its pointer and the one ACCEPTED quote name the same
\* quote, and no competitor is left standing: cart-repository.ts, acceptQuote.
AwardEndsNegotiation ==
    ~overlap =>
        /\ rfq.status = "AWARDED" <=> orders # {}
        /\ \A q \in Quotes :
             /\ q \in orders <=> rfq.awarded = q
             /\ q \in orders <=> quote[q].status = "ACCEPTED"
             /\ rfq.status = "AWARDED" => quote[q].status # "SUBMITTED"

\* While no two calls have overlapped, an awarded or cancelled RFQ stays as it
\* is, through every sweep and every late call.
EndedRfqStays ==
    [][~overlap' /\ rfq.status \in {"AWARDED", "CANCELLED"} => rfq' = rfq]_vars

\* However calls overlap, a supplier's chain of revisions has one standing
\* offer at most: a quote that was revised is never SUBMITTED again and has a
\* single revision, so the buyer cannot accept terms that were replaced.
OneStandingOffer ==
    \A c \in Quotes : LET p == quote[c].parent IN
        p # NoQuote =>
            /\ quote[p].status # "SUBMITTED"
            /\ \A d \in Quotes : quote[d].parent = p => d = c

\* However calls overlap, the sweep of expired quotes and the accept of one
\* never both win: no order exists for an expired quote, for one whose window
\* has not begun, or on an auction before its close time.
OrdersAreTimely ==
    \A q \in orders :
        /\ quote[q].status # "EXPIRED"
        /\ quote[q].window # "FUTURE"
        /\ rfq.mode = "AUCTION" => due

\* However calls overlap, an award never gets lost half-way: the pointer names
\* a quote with an order, and every ACCEPTED quote has its order.
AwardLeavesOrder ==
    /\ rfq.status = "AWARDED" => rfq.awarded \in orders
    /\ orders # {} => rfq.awarded \in orders
    /\ \A q \in Quotes : quote[q].status = "ACCEPTED" => q \in orders

\* An auction past its close time does not stay open.
DueAuctionCloses ==
    (rfq.mode = "AUCTION" /\ due /\ rfq.status = "OPEN") ~> rfq.status # "OPEN"

\* A quote past its validity does not stay on offer.
PastQuoteExpires ==
    \A q \in Quotes :
        (quote[q].status = "SUBMITTED" /\ quote[q].window = "PAST")
            ~> quote[q].status # "SUBMITTED"

\* Both sweeps get their work done, whatever calls come between.
SweepsCatchUp == DueAuctionCloses /\ PastQuoteExpires
=============================================================================
