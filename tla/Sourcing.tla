------------------------------ MODULE Sourcing ------------------------------
(***************************************************************************)
(* How one request for quotes finds its suppliers, in                      *)
(* packages/core/src/trade and apps/web/src/app/rfq: the form, the draft,  *)
(* the matching of listings, the sending, and what buyer and suppliers     *)
(* then read and write in the threads it made.                             *)
(*                                                                         *)
(* A send reads the draft, then its targets, then writes: sends may cross  *)
(* each other, and listings may leave the market in between.  RfqTrade has *)
(* the crossings of quotes and awards; here a quote is one step.           *)
(***************************************************************************)
EXTENDS Integers, FiniteSets

CONSTANTS
    Buyer, Suppliers,   \* organizations
    Listings,           \* ordered as their ids are
    Shelf,              \* per listing: org, category, tiers, attributes
    RfqForms,           \* what a buyer may have asked for
    Invitees,           \* lists of organizations a caller may name
    QuoteRows,          \* Quote rows there may ever be
    Senders,            \* calls of send that may be in flight at once
    Leaving,            \* listings that may leave the market here
    MaxTexts,           \* bound: messages that are no quote's card
    LastDay,            \* bound: days in the instance
    Absent              \* an empty field

ASSUME SuppliersAssumption == Buyer \notin Suppliers
ASSUME ListingsAssumption == Listings \subseteq Nat /\ QuoteRows \subseteq Nat
ASSUME BoundsAssumption == LastDay \in Nat /\ MaxTexts \in Nat

\* A listing has an organization and finitely many attributes.
ASSUME ShelfAssumption ==
    \A l \in Listings :
        Shelf[l].org \in Suppliers \cup {Buyer} /\ IsFiniteSet(DOMAIN Shelf[l].attributes)

Modes == {"SINGLE", "BROADCAST", "AUCTION"}

ASSUME RfqFormsAssumption ==
    \A f \in RfqForms :
        /\ f.mode \in Modes
        /\ DOMAIN f = {"mode", "titled", "quantity", "datesParse", "wants",
                       "categoryId", "listingId", "closesAt"}

NoWishes == [k \in {} |-> {}]

\* The rows that these forms may ask for.
Requests ==
    [mode : Modes, status : {"DRAFT", "OPEN", "CLOSED", "CANCELLED"},
     listingId : {f.listingId : f \in RfqForms} \cup {Absent},
     categoryId : {f.categoryId : f \in RfqForms} \cup {Shelf[l].category : l \in Listings},
     quantity : {f.quantity : f \in RfqForms},
     wants : {f.wants : f \in RfqForms} \cup {NoWishes},
     closesAt : {f.closesAt : f \in RfqForms} \cup {Absent}]

\* An empty field is no row and no id.
ASSUME AbsentAssumption ==
    Absent \notin Requests /\ Absent \notin Listings /\ Absent \notin QuoteRows

VARIABLES
    rfq,        \* the Rfq row with its line, or Absent
    live,       \* listings in status LIVE
    sending,    \* per sender, the call in flight
    thread,     \* Thread rows of kind RFQ: who is invited, and by which call
    quote,      \* Quote rows
    chat,       \* Message rows of these threads
    cart,       \* quotes in the buyer's cart
    sendsCrossed,   \* two sends have been in flight together
    today

sourcingVars == <<rfq, live, sending, thread, quote, chat, cart, sendsCrossed, today>>

NotSending == [stage |-> "IDLE", targets |-> {}, invite |-> {}]
NoQuote == [org |-> "NONE", status |-> "NONE"]

-----------------------------------------------------------------------------
(* The form and the draft *)

\* The listing a SINGLE form names: its category, as long as it is live.
loadRfqListingContext(l) == IF l \in live THEN Shelf[l].category ELSE Absent

\* The errors of the form: nothing reaches the repository unless there is none.
FormIsValid(f) ==
    /\ f.titled /\ f.quantity > 0 /\ f.datesParse
    /\ IF f.mode = "SINGLE" THEN f.listingId # Absent ELSE f.categoryId # Absent

\* The web's form asks for no attributes; other callers of create do.
parseCreateRfqForm(f) ==
    [f EXCEPT
        !.wants = NoWishes,
        !.categoryId = IF f.mode = "SINGLE" THEN loadRfqListingContext(f.listingId) ELSE @,
        !.listingId = IF f.mode = "SINGLE" THEN @ ELSE Absent,
        !.closesAt = IF f.mode = "AUCTION" THEN @ ELSE Absent]

\* The category of a SINGLE request is its listing's, whatever was asked for.
Draft(input) ==
    [mode |-> input.mode, status |-> "DRAFT", listingId |-> input.listingId,
     categoryId |-> IF input.mode = "SINGLE" THEN Shelf[input.listingId].category
                                             ELSE input.categoryId,
     quantity |-> input.quantity, wants |-> input.wants,
     closesAt |-> IF input.mode = "AUCTION" THEN input.closesAt ELSE Absent]

create(input) ==
    /\ rfq = Absent /\ input.titled /\ input.quantity > 0
    /\ CASE input.mode = "SINGLE" -> input.listingId \in live /\ Shelf[input.listingId].org # Buyer
         [] input.mode = "BROADCAST" -> input.categoryId # Absent
         [] input.mode = "AUCTION" -> /\ input.categoryId # Absent /\ input.closesAt # Absent
                                      /\ input.closesAt > today
    /\ rfq' = Draft(input)
    /\ UNCHANGED <<live, sending, thread, quote, chat, cart, sendsCrossed, today>>

createRfqAction(f) == FormIsValid(f) /\ create(parseCreateRfqForm(f))

-----------------------------------------------------------------------------
(* Matching *)

\* Scalars match when they are equal, lists when they have a member in common.
Satisfies(want, have) ==
    IF want.list /\ have.list THEN want.of \cap have.of # {} ELSE ~want.list /\ want = have

attributeOverlap(wants, attributes) ==
    {k \in DOMAIN wants \cap DOMAIN attributes : Satisfies(wants[k], attributes[k])}

\* The rows of the SQL filter: lists only count in the ranking.
Candidates(r) ==
    {l \in live :
        /\ Shelf[l].category = r.categoryId
        /\ \E t \in Shelf[l].tiers : t.minQty <= r.quantity
        /\ \A k \in DOMAIN r.wants : ~r.wants[k].list =>
             k \in DOMAIN Shelf[l].attributes /\ Shelf[l].attributes[k] = r.wants[k]}

score(r, l) == Cardinality(attributeOverlap(r.wants, Shelf[l].attributes))

byMatchStrength(r, l, m) ==
    score(r, l) > score(r, m) \/ (score(r, l) = score(r, m) /\ l < m)

\* Mutant of matchSuppliers: every listing that matches is an answer.
everyMatch(r) == {l \in Candidates(r) : Shelf[l].org # Buyer}

\* The best listing of each organization.
matchSuppliers(r) ==
    {l \in Candidates(r) :
        /\ Shelf[l].org # Buyer
        /\ \A m \in Candidates(r) \ {l} : Shelf[m].org = Shelf[l].org => byMatchStrength(r, l, m)}

-----------------------------------------------------------------------------
(* Sending *)

\* A call names organizations, or none: the web's never names any.
send(s) ==
    /\ sending[s] = NotSending
    /\ rfq # Absent /\ rfq.status = "DRAFT"
    /\ \E invite \in Invitees : sending' = [sending EXCEPT ![s] =
                                              [stage |-> "READ", targets |-> {}, invite |-> invite]]
    /\ sendsCrossed' = (sendsCrossed \/ \E c \in Senders \ {s} : sending[c] # NotSending)
    /\ UNCHANGED <<rfq, live, thread, quote, chat, cart, today>>

\* Each target is an organization, with the listing that matched it if any.
Target(org, l) == [org |-> org, via |-> l]

singleTargets == {Target(Shelf[l].org, l) : l \in {rfq.listingId} \cap live}
resolveInvites(orgs) == {Target(o, Absent) : o \in IF orgs \subseteq Suppliers THEN orgs ELSE {}}

targets(invite) ==
    CASE rfq.mode = "SINGLE" -> singleTargets
      [] rfq.mode # "SINGLE" /\ invite # {} -> resolveInvites(invite)
      [] OTHER -> {Target(Shelf[l].org, l) : l \in matchSuppliers(rfq)}

sendTargets(s) ==
    LET found == targets(sending[s].invite)
    IN  /\ sending[s].stage = "READ"
        /\ sending' = [sending EXCEPT ![s] =
                         IF found = {} THEN NotSending ELSE [@ EXCEPT !.stage = "WRITE", !.targets = found]]
        /\ UNCHANGED <<rfq, live, thread, quote, chat, cart, sendsCrossed, today>>

\* The update goes by id: it asks nothing of the status again.
sendCommit(s) ==
    /\ sending[s].stage = "WRITE"
    /\ rfq' = [rfq EXCEPT !.status = "OPEN"]
    /\ thread' = thread \cup {[org |-> t.org, via |-> t.via, by |-> s] : t \in sending[s].targets}
    /\ sending' = [sending EXCEPT ![s] = NotSending]
    /\ UNCHANGED <<live, quote, chat, cart, sendsCrossed, today>>

MayEnd == rfq # Absent /\ (rfq.mode = "AUCTION" => today >= rfq.closesAt)

close ==
    /\ MayEnd /\ rfq.status = "OPEN"
    /\ rfq' = [rfq EXCEPT !.status = "CLOSED"]
    /\ UNCHANGED <<live, sending, thread, quote, chat, cart, sendsCrossed, today>>

cancel ==
    /\ MayEnd /\ rfq.status \in {"DRAFT", "OPEN"}
    /\ rfq' = [rfq EXCEPT !.status = "CANCELLED"]
    /\ UNCHANGED <<live, sending, thread, quote, chat, cart, sendsCrossed, today>>

-----------------------------------------------------------------------------
(* Quotes and messages *)

Quotes == {q \in QuoteRows : quote[q] # NoQuote}

\* Mutant of InvitationOf: the lookup forgets whose invitation it wants.
AnyInvitation(org) == IF \E t \in thread : t.org = org THEN thread ELSE {}

\* findFirst without an order: any thread of the organization.
InvitationOf(org) == {t \in thread : t.org = org}

Text(t, org) == [thread |-> t, org |-> org, quote |-> Absent]
Card(t, org, q) == [thread |-> t, org |-> org, quote |-> q]

\* The quote and its card in the supplier's thread, in one transaction.
Offer(org, q, statuses) ==
    /\ q \in QuoteRows \ Quotes /\ \A other \in QuoteRows \ Quotes : q <= other
    /\ quote' = [statuses EXCEPT ![q] = [org |-> org, status |-> "SUBMITTED"]]
    /\ \E t \in InvitationOf(org) : chat' = chat \cup {Card(t, org, q)}
    /\ UNCHANGED <<rfq, live, sending, thread, cart, sendsCrossed, today>>

submitQuote(org, q) == rfq # Absent /\ rfq.status = "OPEN" /\ Offer(org, q, quote)

counterQuote(head, q) ==
    /\ quote[head].status = "SUBMITTED" /\ rfq.status = "OPEN"
    /\ Offer(quote[head].org, q, [quote EXCEPT ![head].status = "REVISED"])

\* withdraw by the supplier, decline by the buyer.
Settle(q, status) ==
    /\ quote[q].status = "SUBMITTED"
    /\ quote' = [quote EXCEPT ![q].status = status]
    /\ UNCHANGED <<rfq, live, sending, thread, chat, cart, sendsCrossed, today>>

\* A member of either side of the thread posts in it.
writeInThread(org, t) ==
    /\ t \in thread /\ org \in {Buyer, t.org}
    /\ Cardinality({m \in chat : m.quote = Absent}) < MaxTexts
    /\ chat' = chat \cup {Text(t, org)}
    /\ chat' # chat
    /\ UNCHANGED <<rfq, live, sending, thread, quote, cart, sendsCrossed, today>>

addToCart(q) ==
    /\ quote[q].status = "SUBMITTED" /\ q \notin cart
    /\ cart' = cart \cup {q}
    /\ UNCHANGED <<rfq, live, sending, thread, quote, chat, sendsCrossed, today>>

removeFromCart(q) ==
    /\ q \in cart
    /\ cart' = cart \ {q}
    /\ UNCHANGED <<rfq, live, sending, thread, quote, chat, sendsCrossed, today>>

-----------------------------------------------------------------------------
(* What each side reads *)

rfqForActor(org) == org = Buyer \/ \E t \in thread : t.org = org
listForRfq(org) == {q \in Quotes : rfqForActor(org) /\ org \in {Buyer, quote[q].org}}
threadsForActor(org) == {t \in thread : org \in {Buyer, t.org}}
threadMessages(t) == {m \in chat : m.thread = t}

\* The page shows a supplier the first of its threads, in no given order.
myThread(org) == InvitationOf(org)

-----------------------------------------------------------------------------

leaveMarket(l) ==
    /\ l \in live \cap Leaving
    /\ live' = live \ {l}
    /\ UNCHANGED <<rfq, sending, thread, quote, chat, cart, sendsCrossed, today>>

dayPasses ==
    /\ today < LastDay
    /\ today' = today + 1
    /\ UNCHANGED <<rfq, live, sending, thread, quote, chat, cart, sendsCrossed>>

SourcingInit ==
    /\ rfq = Absent /\ live = Listings
    /\ sending = [s \in Senders |-> NotSending]
    /\ thread = {} /\ chat = {} /\ cart = {}
    /\ quote = [q \in QuoteRows |-> NoQuote]
    /\ sendsCrossed = FALSE /\ today = 0

SourcingNext ==
    \/ \E f \in RfqForms : createRfqAction(f) \/ create(f)
    \/ close \/ cancel \/ dayPasses
    \/ \E s \in Senders : send(s) \/ sendTargets(s) \/ sendCommit(s)
    \/ \E q \in QuoteRows :
         \/ \E o \in Suppliers : submitQuote(o, q)
         \/ \E head \in Quotes : counterQuote(head, q)
         \/ Settle(q, "WITHDRAWN") \/ Settle(q, "DECLINED") \/ addToCart(q) \/ removeFromCart(q)
    \/ \E o \in Suppliers \cup {Buyer}, t \in thread : writeInThread(o, t)
    \/ \E l \in Listings : leaveMarket(l)

SourcingSpec == SourcingInit /\ [][SourcingNext]_sourcingVars

-----------------------------------------------------------------------------
(* Properties *)

\* rfq-repository.ts:253: "one quote-request thread per target supplier".  A
\* request that went out reached somebody, and reached each supplier once
\* unless two sends crossed; never the buyer itself; a draft reached nobody
\* and holds what its sending will need.  A supplier found by matching prices
\* the quantity and meets every single-valued attribute, in the listing that
\* overlaps most among those it still has on the market.
InvitationsAreSound ==
    rfq # Absent =>
        /\ rfq.status = "DRAFT" =>
             /\ thread = {} /\ rfq.quantity > 0
             /\ IF rfq.mode = "SINGLE" THEN rfq.listingId # Absent ELSE rfq.categoryId # Absent
             /\ rfq.mode = "AUCTION" <=> rfq.closesAt # Absent
        /\ rfq.status \in {"OPEN", "CLOSED"} => thread # {}
        /\ ~sendsCrossed => \A t, u \in thread : t.org = u.org => t = u
        /\ \A t \in thread : t.org \in Suppliers
        /\ \A t \in thread : rfq.mode # "SINGLE" /\ t.via # Absent =>
             /\ Shelf[t.via].category = rfq.categoryId
             /\ \E tier \in Shelf[t.via].tiers : tier.minQty <= rfq.quantity
             /\ \A k \in DOMAIN rfq.wants : rfq.wants[k].list \/
                  k \in attributeOverlap(rfq.wants, Shelf[t.via].attributes)
             /\ \A l \in Candidates(rfq) : Shelf[l].org = t.org =>
                  score(rfq, l) <= score(rfq, t.via)

\* rfq-repository.ts:461: "Suppliers see the RFQ and only their own thread —
\* never the competitor quote list".  What is written in a thread comes from
\* its two sides and shows the supplier's own quotes; who was not invited has
\* neither; and every quote stands as one card in its supplier's conversation,
\* which is the one the supplier is shown unless two sends made two of them.
ConversationsStayApart ==
    /\ \A m \in chat :
         /\ m.org \in {Buyer, m.thread.org}
         /\ m.quote # Absent => quote[m.quote].org = m.thread.org
    /\ \A o \in Suppliers :
         /\ listForRfq(o) = {q \in Quotes : quote[q].org = o}
         /\ \A t \in threadsForActor(o), m \in chat : m.thread = t => m.org \in {Buyer, o}
         /\ \A q \in listForRfq(o) : Cardinality({m \in chat : m.quote = q}) = 1
         /\ ~sendsCrossed => \A t \in myThread(o), q \in listForRfq(o) :
              Card(t, o, q) \in threadMessages(t)
    /\ cart \subseteq listForRfq(Buyer)

=============================================================================
