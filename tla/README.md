# PackSource, specified and checked

PackSource is a business-to-business packaging marketplace written in
TypeScript: suppliers publish listings, buyers search them and send requests for
quotation, suppliers quote, a buyer accepts a quote and places an order, pays
into escrow, and the escrow is released to the supplier after delivery or
divided by staff in a dispute.  This directory holds TLA+ modules translated
from that code, TLC configurations that check them on small instances, and
proofs that TLAPS checks for every value of their constants.

To repeat the checks (in this directory):

    tlc -config order_safety.cfg          OrderEscrowMC
    tlc -config order_liveness.cfg        OrderEscrowMC
    tlc -config order_races.cfg           OrderRacesMC
    tlc -config trade.cfg                 RfqTradeMC
    tlc -config listing.cfg               ListingLifecycleMC
    tlc -config supplier.cfg              SuppliersMC
    tlc -config trust.cfg                 TrustMC
    tlc -config outbound.cfg              OutboundMC
    tlc -config catalogue.cfg             CatalogueMC
    tlc -config claim_settlement_once.cfg OrderEscrowClaims    # finds a violation
    tlc -config claim_award_ends.cfg      RfqTradeMC           # finds a violation
    tlc -config claim_remainder.cfg       OrderEscrowClaims    # finds a violation

    tlapm OrderEscrowProofs.tla           # and OrderRacesProofs, RfqTradeProofs,
                                          # ListingLifecycleProofs, SuppliersProofs,
                                          # TrustProofs, OutboundProofs,
                                          # CatalogueProofs

`PROJECT.json` maps each definition to the source lines it stands for and lists
the runs, the mutants that show each property can fail, the hazards and the
theorems.

## 1. Inventory

Paths are relative to `packages/` unless they begin with `apps/`.  Everything
persistent lives in one Postgres database reached through Prisma; every
repository operation is one interactive transaction at the default isolation
level (READ COMMITTED), a few are two or more in a row.  There are no row locks
but those an UPDATE takes, no version columns and few conditional updates: a
repository reads, asks a pure state machine whether the move is legal, and
updates by id.  Scheduled jobs are plain functions over the same tables.
Payments go through an adapter that is not part of any transaction.

| Component | State | Operations | Talks to |
|---|---|---|---|
| Order and dispute machines (`core/src/orders/order-machine.ts`, `core/src/trust/dispute-machine.ts`) | none (pure) | legal-move tables with gates | called by the repositories |
| Escrow and schedule arithmetic (`core/src/orders/escrow.ts`, `payment-schedule.ts`) | none (pure) | commission, deposit, plans, balance of the ledger, release decision | called by the order repository |
| Order repository (`core/src/orders/order-repository.ts`, `jobs.ts`) | Order, SubOrder, Payment, Invoice, Shipment, EscrowLedgerEntry, Payout, Refund, TaxRecord | confirm, pay, produce, invoice, ship, deliver, dispute, cancel, release, resolve, settle; two sweeps | payments adapter, disputes |
| Order page (`apps/web/src/app/orders/`) | none | the forms shown to buyer, supplier and staff, and the action behind each | order and disputes repositories |
| Disputes (`core/src/trust/disputes-repository.ts`, `apps/web/src/lib/admin/disputes.ts`) | Dispute, responses, evidence, notices | respond, attach, review, withdraw; the console's resolve, sign and notify | writes the order's status |
| Payments adapter (`ai/src/mocks/payments.ts`) | in-memory charges, transfers, refunds | capture, refund, transfer | called inside transactions |
| RFQ, quotes, negotiation, award (`core/src/trade/`) | Rfq, Quote, Thread, Message, CartItem | create, match, send, quote, counter, withdraw, decline, close, cancel, accept; two sweeps | listings; creates the DRAFT order |
| Landed cost and price tiers (`core/src/trade/landed-cost.ts`) | none (pure) | landed totals, tier lookup | quotes, cart |
| Listings (`core/src/listing-repository.ts`, `listing-state.ts`, `listing-import.ts`, `listing-input.ts`, `spec-extraction.ts`) | Listing with tiers, lead times, attributes, pictures; SpecSheet | draft, edit, import, extract, accept suggestions, add pictures, submit, publish, reject, pause, archive | search index, RFQ matching, benchmarks |
| Onboarding (`core/src/repositories.ts`, `onboarding.ts`) | SupplierProfile, plants, certifications, equipment, capabilities | wizard steps, submit, tier | public directory pages |
| Reviews (`core/src/trust/review-machine.ts`, `reviews-repository.ts`) | Review, response | create, respond, moderate | orders, fraud limits |
| Messaging (`core/src/trust/messaging-repository.ts`) | Thread, Message, ThreadReadState | start, post, mark read, count, page | fraud limits |
| Fraud limits (`core/src/trust/fraud.ts`) | RateLimitEvent, FraudFlag | count-then-insert limits, duplicate search | reviews, messages |
| Reorder rules (`core/src/orders/reorder-repository.ts`) | ReorderRule | create, activate, mark reminded | reminder sweep |
| Notifications and reminder sweep (`notifications/src/`) | Notification, mail | notify, sweep | reorder rules, e-mail adapter |
| Webhook dispatcher (`integrations/src/dispatcher.ts`) | WebhookDelivery | dispatch, attempt, retry with back-off | HTTP endpoints |
| Search (`search/src/`, `apps/web/src/app/api/search`) | documents, embeddings | build, upsert, query on three engines, fall back | listings |
| Search page (`apps/web/src/components/search-experience.tsx`) | the address, the box, the answers | type, filter, sort, page, go back | search API |
| Migration importer (`db/src/importer/`) | organizations, profiles | parse, deduplicate, commit, verify | onboarding |
| Public directory (`db/src/discovery/`) | PlatformSupplier | classify, slug, import in batches, category pages | — |
| Permissions (`core/src/permissions.ts`) | none (pure) | role to permission | every action |
| Benchmarks (`benchmarks/src/`) | PriceBenchmark | sample, group, refresh the price table, read it and lead times through filters | listings, orders |
| Agent API, AI services, SEO, UI, seed | read models, rendering, fixtures | — | — |

`PROJECT.json` lists each of these with its sources and status.

### What is hard here

* **The adapter is outside the transaction.** A capture, refund or transfer
  made by a transaction that then rolls back has still happened; a retry
  repeats it.
* **Calls of two transactions.** Confirming a delivery releases escrow in a
  second transaction; shipping a Net-30 order invoices it in a second one; the
  listing editor saves in four; a dispute is resolved, signed and announced in
  three.  A crash, or another actor, can come in between.
* **Jobs and people act on the same rows.** The release sweep and the Net-30
  charge run race disputes, cancellations, deliveries and settlements; the RFQ
  sweeps race accepts.
* **Payments outlive the status that scheduled them.** Nothing cancels a PENDING
  payment; only the payment row's own status is asked before a capture.
* **Read-check-write without locks.** Two overlapping transactions of one row
  both pass their check, in orders, disputes, listings, RFQs, reviews, profiles.
* **Forms that name a row and not what was read of it.** A moderator publishes a
  listing, a member confirms a picture by its place: the row may have changed
  behind the page.
* **Columns and tables written whole.** Attributes and pictures are JSON columns,
  the price table is deleted and created anew: what is written rests on what was
  read, and somebody else may have written in between.
* **Posts and mails that cannot be taken back.** A webhook is sent before it is
  recorded, a reminder is mailed inside another component's transaction.
* **Several readers of one meaning.** Three search engines read one filter; a
  CSV row and a form read one ladder; the page and the repository each decide
  what a person may do; a quote is compared by one sum and billed by another.
* **Data that comes in files.** Slugs are the only key of the directory; a
  migration's rows merge into whichever near-identical row came first.

What makes the parts correct.  Orders: escrow is never overdrawn; the ledger and
the adapter agree; a full refund is final; an active dispute freezes it; a
cancelled order refunds everything and pays nobody; goods do not leave unpaid
except on Net-30; held funds eventually move on.  Trade: one award per RFQ,
which ends its negotiation; no auction is decided before its close time; a quote
bills what it was compared by.  Listings: nothing is
published past the moderator, a draft is not found, and what a draft says fits
its category.  Trust: no review twice, no message missed, no
more than the limit, a decision stands.  Outbound: what was recorded as sent was
sent, and not more often than attempts allow; no benchmark is of fewer samples
than its threshold.  Suppliers: what is public is
complete, a submission locks, an import neither loses nor repeats a row.

## 2. Modules

| Module | Models | Uses |
|---|---|---|
| `OrderMachine` | the legal moves of orders and disputes, as sets of moves | — |
| `EscrowMath` | commission, deposit and balance plans, release decision | — |
| `EscrowAccount` | abstract: what an escrow account promises | — |
| `OrderEscrow` | one order's life: repositories, jobs, adapter | the three above |
| `OrderPage` | what the order page offers each person | `OrderEscrow` |
| `OrderRaces` | calls on one order, split at their reads and adapter calls | `OrderMachine`, `EscrowMath` |
| `TradeMachine`, `RfqTrade` | one RFQ from draft to award, calls overlapping | — |
| `Sourcing` | how an RFQ finds its suppliers, and its threads | — |
| `LandedCost`, `QuotePricing` | a quote's price from its ladder to its order | — |
| `Permissions` | the permission matrix | — |
| `ListingLifecycle` | one listing: edits, spec sheets, moderation, index jobs | `Permissions` |
| `ListingShapes` | its price ladder and lead-time bands: read, validated, stored | — |
| `ListingContents` | what a draft says: attributes, a machine's suggestions, pictures | — |
| `Discovery` | what each engine answers about one listing | — |
| `SearchPage` | the search page of one visitor | — |
| `FraudLimits`, `Reviews`, `Messaging` | the limit, and the two components under it | — |
| `DisputeRoom` | one dispute: who talks in it and who closes it | `OrderMachine`, `Permissions` |
| `WebhookDispatcher` | one event's deliveries | — |
| `ReorderSweep` | reorder rules, the sweep, the notification engine | — |
| `Benchmarks` | the refresh of the price table, and what filters show of it | — |
| `SupplierProfile` | the onboarding wizard | — |
| `Directory`, `MigrationImport` | the two files suppliers come from | — |
| `Trust`, `OutboundMC`, `SuppliersMC`, `CatalogueMC` | components side by side, for TLC | as named below |
| other `*MC`, `OrderEscrowClaims` | instances, and claims that fail | |
| `*Proofs` | theorems with proofs | TLAPS |

Components that talk share a module: orders with the adapter, the jobs and the
page; RFQs with threads and listings; listings with the index; profiles with
imports; disputes with orders.  `Trust` (`Reviews`, `Messaging`, `DisputeRoom`),
`OutboundMC` (`WebhookDispatcher`, `ReorderSweep`, `Benchmarks`), `SuppliersMC`
(`SupplierProfile`, `Sourcing`, `Directory`, `MigrationImport`) and
`CatalogueMC` (`Discovery`, `SearchPage`, `ListingShapes`, `QuotePricing`,
`ListingContents`) set components beside each other that share code or subject and, in these models, no row.  Any
behaviour of such a composition is a shuffle of one behaviour of each, and no
property relates two of them, so each behaviour of the run follows one of them
(`part`, `job`) and the others stay at their initial state.

### OrderEscrow and the code

*State.* `order` is the Order row with its one SubOrder (`leg`); `payment` has
one row of each kind because the idempotency key is `pay:<order>:<kind>`;
`invoice`, `dispute`, `shipment` and `payout` are their rows; `ledger` sums the
EscrowLedgerEntry rows by the idempotency key they carry (HOLD and REFUND per
payment; one RELEASE and one COMMISSION per order; partial refunds together).
`charge` is what the adapter knows of each captured payment, `home` the adapter
that captured it: the web process's, or the one a Net-30 run made for itself.
`calls` holds second transactions still to run.  `orphan` and `lost` record
captures of rolled-back transactions and their number; the rows do not show
these, the properties need them.

*Actions.* One action is one committed transaction and carries the source's
name: `confirmOrder`, `payScheduledPayment`, `startProduction`,
`completeProduction`, `issueBalanceInvoice`, `createShipment`,
`markShipmentInTransit`, `confirmDelivery`, `openDispute`, `startReview`,
`withdraw`, `cancelOrder`, the four outcomes of `resolveDispute`,
`releaseEscrow` by the sweep or after a delivery, `runNet30Charges`, and
`settlePayout`.  Their guards are the repository's own conditions together with
the machine's move, so an action that the machine refuses is the error path and
leaves the state alone.  `payRolledBack`, `cancelRolledBack`,
`resolveRolledBack`, `settlePayoutShort` and `settleRolledBack` are the calls
that reach the adapter and do not commit; a refund loop may stop after any
subset of its refunds.  A capture that is declined changes nothing: the FAILED
row it writes goes with the transaction that its own rethrow rolls back.  `tick`
is a day, `crash` drops second transactions.

*Data.* Amounts are integer cents and commission is rounded as `Math.round`
does.  Time is the age of a shipment and the days to a payment's due date, the
only times a guard reads.  Text, tax lines, audit rows, file keys and numbering
are left out.  Where a query has no ORDER BY, or NULLs tie, the model chooses.

`OrderPage` adds no state: it lists the forms the page shows the buyer, the
supplier and the staff, each with the condition the page puts on it and the
action behind it.

### OrderRaces and the code

Here a call on a 30/70 order is a session.  Its first step is the reads
(`#loadForUpdate` is a plain SELECT), then come its adapter calls one by one,
then its commit, and other sessions commit in between; `rollback` is every way a
transaction fails on the way, and the adapter keeps what was done.  Every call
that reads and later writes the order, its payments, its dispute or its payout is
one of `Calls`: the moves of the machine, both payments, the release, the
settlement, a withdrawal and all four resolutions, a partial refund with its
portion of each charge and its keys; `respond` stands for `attachEvidence` and
`startReview` too, which all write back an active status of the dispute they read.  What the
database does protect is modelled: the row lock that the first UPDATE of an
order takes until its commit (`holder`), the unique idempotency keys of payments
and ledger entries, and the adapter's refusal to move more than a charge holds.
`charge` is the list of charges the adapter made, so that two captures of one
payment are two charges of which the row names one.  `crossed` (pairs of calls
of which one committed between the other's read and its commit) and `torn`
(calls that rolled back after the adapter had acted) are history for the
properties.

### RfqTrade and the code

*State.* `rfq` is the Rfq row (mode, status, award pointer); `due` says that an
auction's `closesAt` has passed.  `quote` holds the Quote rows of that RFQ:
status, where now is against `validFrom..validUntil`, and `parentQuoteId`.
`orders` is the set of quotes an Order row points to (`Order.quoteId` is
unique); each of its members is where one instance of `OrderEscrow` begins, in
DRAFT.  `tx` is the call in flight in each session, and `overlap` records
whether two calls were ever in flight together: it belongs to the properties,
the code has nothing like it.

*Actions.* The races are the subject, so a call is two steps.  The step that
carries the source's name (`send`, `close`, `cancel`, `submit`, `withdraw`,
`decline`, `counterQuote`, `acceptQuote`) makes the reads and is enabled where
the guards that throw let the call through.  Its commit (`updateRfq`,
`updateQuote`, `submitCommit`, `counterCommit`, `acceptCommit`) writes by id and
asks nothing but what the database itself asks again: row locks and unique
columns.  `acceptQuote` has a step in between, `awarding`: the quote and the RFQ
are updated and locked, and the competitors are read.  READ COMMITTED lets that
read see what committed meanwhile, and lets the declines that follow overwrite
whatever became of those competitors.  `abort` is every way a transaction may
fail after its reads: a unique index, a deadlock between two accepts, Prisma's
transaction timeout.  `closeDueRfqs` and `expireDueQuotes` update conditionally,
so their earlier select decides nothing and each row is one step.

*Data.* Suppliers are abstracted: the guards that compare organisations only
say who may call, and any number of quotes by one or many suppliers is a set of
rows.  Prices are `QuotePricing`'s matter, threads and messages `Sourcing`'s.

### Sourcing, QuotePricing and the code

`Sourcing` follows one request: the form (`app/rfq`), the draft, `matchSuppliers`
(which of each supplier's live listings prices the quantity, meets every
single-valued attribute, and overlaps most), the send that reads the draft, then
its targets, then writes threads, and what both sides then do: quotes with their
cards in the thread, messages, the cart.  Sends may cross and listings may leave
the market between a send's reads and its writes.

`QuotePricing` follows the money of one quote: `submit` stores ladder lines and
head columns (`FeesOf` and `FreightOf` of all lines, whatever step the quantity
is on), `counterQuote` revises quantity, price, fees, freight and duty, each
when the supplier names it, in a ladder of one line, the cart compares with
`computeLandedCost` and `acceptQuote` writes the order's total.  Cents are
integers and each rounding is where the source rounds.

### ListingLifecycle, ListingShapes, ListingContents and the code

A repository call is its reads and its commit, as in `RfqTrade`, and carries a
role, which `Permissions` is asked about.  A moderator reads a submitted listing
and publishes it from a form that posts the listing's id and nothing of what was
read (`transitionListing`).  Two history fields follow that: `listing.approved`
says that the content is what a moderator published, and `listing.page` how the
last reading before that compares with it: `AS_IS`, or `OLDER` when it has been
submitted again, or for the first time, without being read since, or `OTHERWISE`
when it has been changed and not submitted.  The reading
(`consult`) is external: the repository's own editor is for the listing's
organization, and staff read elsewhere.  `sheet` and `applied` follow a spec sheet
from upload over extraction to confirmation and into the attributes.  The
handlers of the web application that make several calls in a row (upload,
extract, confirm) are steps that lead to each other.  Index jobs load a listing
and upsert it later (`IndexJobs`), the web process fills its index once
(`warmed`) and forgets it at a restart (`boot`).

`ListingShapes` reads a ladder and the bands from the cells of a CSV row and of
the editor's form (a `Cell` is blank, an integer, or `Bad`, a text that is none), each with
its own treatment of blanks and errors, validates them as `listing-input.ts` does
by comparing the row that `Follows` another in the order of their minima, and stores them in the two transactions that
delete and insert; every stored row carries the call that wrote it, so that a
mixture of two saves is visible.

`ListingContents` holds one DRAFT listing's `category`, its `attributes` and
`images` columns and its `sheets`.  A save of the form writes the category that the
form names, and attributes of that category; the editor posts the listing's own
category in a hidden field, the action takes any.  Accepting suggestions merges and
validates with the category and attributes that it read first, and writes the
attributes alone.  (A repository call with a new category and no attributes has no
caller.)  A category's attributes are definitions with a type, bounds and
options; a value is validated as `attribute-validation.ts` does, one schema for
each type.  `extractSpecSuggestions` tries the source's pattern for each
definition on a text, which is modelled by what patterns find in it, and offers
what passes the definition.  A picture is uploaded under a new key and appended
(`StoredAnew`), and confirmed by its place in the column (`PlaceNamed`).  Saving a
form, accepting suggestions, adding a
picture and confirming one by its place each read a column and write it whole.
`meant`, `looked`, `uploaded` and `entangled` are history for the properties.

### Discovery, SearchPage and the code

`Discovery` has one listing and one query.  `document` is built from the rows as
`listing-graph.ts` does; `matchesFilters`, `toMeilisearchFilter` and
`buildListingWhere` are the three readings of a filter; the route falls back to
Postgres when an index throws, and blends the semantic leg into a hybrid answer.
Rows change, days pass (claims expire), jobs bring the index up to date and
engines fail in any order.

`SearchPage` is one visitor: the address and its history, the query box and its
debounce timer, the router's navigations (a newer one discards one under way),
the numbered requests and the answers that arrive in any order.

### Reviews, Messaging, DisputeRoom and the code

`FraudLimits` is the sliding window over RateLimitEvent rows and the search for
a repeated body.  A review is found or not before its transaction; inside it the
window is counted and the body searched, and then the rows are inserted: three
reads that other calls may cross.  Staff take a review from `moderationQueue`,
`decide` on the row they then read, and its author is told afterwards
(`notifyAuthor`).  A message carries the time at which its
transaction made it and is seen when that transaction commits; a read cursor
carries the time of the call.  Ids are random and break ties of time.  Pages
are keyset queries; a reader turns them while others post.

In `DisputeRoom` a visitor reads the dispute and later writes what follows from
it by id.  The staff console resolves, signs and notifies in three steps with
stops between them.  The money of a resolution is left to `OrderEscrow`.

### WebhookDispatcher, ReorderSweep, Benchmarks and the code

An attempt is three steps of a worker: the row is created or selected, the POST
is made, the outcome is written (`attempts` is the number read plus one).  There
is no transaction around them; a worker may stop after any, and two sweeps may
select one row.  Back-off is what is left of it when time passes, counted from
the worker's own `now`, which may be old.

The reorder sweep opens a transaction per due rule; inside it the engine mails
and commits its notifications in a transaction of its own; then the rule moves
to its next date.  A failure between these leaves the outer one undone.  A
straggler is a rule that exists from the start without a cadence.

`Benchmarks` takes samples from the tiers of LIVE listings that name a material,
and from the orders a quote became.  `aggregate` groups them by category, band
and material, drops groups under the threshold and takes quartiles by nearest
rank: the sorted samples begin with the `Least`, then the least of what is left,
and so on to the rank that the source indexes.  `recomputePriceBenchmarks` loads outside its transaction
(`loadForRefresh`), deletes the rows it then sees (`wipeForRefresh`) and creates
its own, which the unique index may refuse (`commitRefresh`, `failRefresh`).
Offers come and go, and purchases are placed, in between.  `GET` is the route
with its refusals and its two reads.

### SupplierProfile, Directory, MigrationImport and the code

A wizard call reads that the profile is not submitted, and writes rows by id at
its commit.  `late` are the calls a submission overtook.  A profile may begin
with what the importer left.  A minimum order of less than half a cent is saved as
none.  Staff change tiers at any time.

`Directory` computes categories and slugs of a source file's records and lands
them batch by batch, in runs that may stop, cross and repeat.  The source sorts
all categories by score and takes the first few; the model names them: the first
(`topOf`, by score and then card order), then the first of the others that score
enough, twice.  A slug is the sequence of its parts; the ordinal it may end in is
written by `Ordinal`, a text for each number.  A category's page counts types
row by row of the UNNEST (`unnested`), so that a list with one type twice would
count twice.  `MigrationImport`
reads a file (header, cells and their types as `validateHeader` and
`validateTyped` do, names, cities, domains and phones as `normalize.ts` does),
merges each row into the best-scoring earlier one (scores in
ten-thousandths, as the weights are), writes the rest in one transaction, and
looks again at what it wrote; staff may change a tier before it does.  Certifications are
told apart before they are upper-cased, and capabilities get ids that keep letters
and digits only: two of one row may clash (`Clashes`), and then the transaction
fails and nothing of the file is written.


## 3. Runs

Each run is one question, put to the smallest instance in which the cases that
matter occur.  Deadlock is not checked anywhere: an order, a request, a dispute
and a file import all come to an end, and there the system stops.

| Run | States | Question |
|---|---|---|
| `order_safety` | 163,000 | Over every operation of one order, do the books, the charges and the statuses stay consistent, and does somebody always have a way on? |
| `order_liveness` | 30,000 | With the sweep scheduled and days passing, does held money move on? |
| `order_races` | 941,000 | With two calls open at once, what can the books never claim, and which crossings do which harm? |
| `trade` | 164,000 | One RFQ: what does an award promise without overlap, what survives overlap, and do the sweeps catch up? |
| `listing` | 2,216,000 | What reaches the market or the index that no moderator read? |
| `supplier` | 1,015,000 | Onboarding, matching and sending, and the two files suppliers come from. |
| `trust` | 2,030,000 | Reviews, messages, and the room of a dispute. |
| `outbound` | 169,000 | Webhooks and reminders through stops and failures, and price tables whose refreshes cross. |
| `catalogue` | 1,188,000 | What a search answers, what a page shows, what a ladder stores, what a draft says, what an order bills. |
| `claim_*` | | Three sentences of the repository that its code does not keep (section 6). |

### What each checks

`order_safety`

* `PayoutsAreBacked`: the ledger balance is never negative
  (`EscrowNeverOverdrawn`; the code throws where it would be, and no escrow
  operation on that order would succeed again), nothing is transferred before the
  ledger released it, and a paid payout was transferred in full
  (`TransferOnlyAfterRelease`).
* `OneFateForEveryCharge`: beside a full refund nothing is refunded in part,
  released or owed to the supplier, and no payment is refunded twice
  (`FullRefundIsFinal`); no charge gives back or passes on more than it captured
  (`ChargesBacked`), retried and lost transactions included.  What a partial refund
  leaves is not part of it: the machine would release that, and the run
  `claim_remainder` shows that nothing does.
* `BooksFollowCharges`: payments, HOLD entries and charges agree, refunds booked
  are refunds made while no transaction was lost (`LedgerMatchesCharges`), and
  the balance invoice follows the balance payment (`InvoiceTracksBalance`).
* `StoppedOrderPaysNobody`: a cancelled order has no release, payout or transfer,
  and an active dispute is alone and holds its order in DISPUTED.
* `ShippedOnlyWhenPaid`: goods leave when the payments of the order add up to its
  total, or on Net-30.
* `DisputeFreezesRelease`, `CancellationRefundsEverything`: what a step may not
  do.
* `IsEscrowAccount`: the ledger refines `EscrowAccount`.
* `SomebodyCanMoveOn`: page and repository decide separately what a person may
  do; an order that is not CLOSED or CANCELLED has a form that a page shows, that
  is granted and that moves it on, or a job does, exactly when it is not `Stranded`.
  Four places strand it: a dispute withdrawn before shipping (`LeftInDispute`), a
  delivered Net-30 order without its invoice (`NeverInvoiced`), a partial refund
  (`NeverReleased`) and a release (`NeverClosed`); from there nothing moves the
  order, and the property says so.

`order_liveness`: `MoneyMovesOn`.  The sweep releases what is held of a shipped
order, whatever the buyer does and whatever transaction is lost, unless a dispute
takes the order first or a second shipment was left on the dock
(`LeftOnTheDock`), from which the release may read a clock that has no date.

`order_races`

* `BooksNeverAhead`: whatever overlaps and rolls back, a payment in the books has
  a charge of its own, a refund has its refund, a settled payout its transfers.
* `EachHarmHasItsCrossing`: what an overlap does break, once no call is open, is
  traced to what it takes.  A payment charged twice: two payments of it, or one
  that rolled back after its capture.  An active dispute on an order that is not
  frozen: its opening and any other call, or a response and what closed the dispute.
  An overdrawn ledger: a release or a partial refund and any other call, or two
  payments of one kind.  A payment that a cancellation left behind: that payment and the
  call that refunds.  A supplier sent more than the payout: a settlement that
  rolled back after a transfer, or two that crossed where there was enough left
  to take.

`trade`

* `AwardEndsNegotiation`, `EndedRfqStays`, while no two calls have overlapped:
  status, award pointer, accepted quote and order name one winner, no competitor
  is left standing, and an ended RFQ never changes again.
* `OneStandingOffer`, `OrdersAreTimely`, `AwardLeavesOrder`, however calls
  overlap.
* `SweepsCatchUp` = `DueAuctionCloses` and `PastQuoteExpires`, against any stream
  of other calls.

`listing`

* `MarketIsModerated`.  However calls overlap, no role and no edge of the state
  machine leads around the moderator (`NeverLiveUnmoderated`); without overlap,
  what is on the market is complete, holds no suggestion of a machine that no person
  confirmed, and is what the moderator read of it, unless it was submitted again
  behind the moderator's page: the publication names the listing only
  (`LiveIsReviewed`).
* `DraftsStayOutOfDiscovery`: an index job that upserts late cannot publish what
  was not.

`supplier`

* `PublicProfilesAreComplete`, `LockedAfterSubmit`: the publishing gate, and the
  lock; the second however calls cross.
* `InvitationsAreSound`, `ConversationsStayApart`: who receives a request and in
  which thread the answer stands.
* `DirectoryHoldsTheFile`, `EveryRowIsAccountedFor`: neither import loses or
  repeats a row, through stops, crossings and repeats.

`trust`

* `ReviewsAreDistinct`, `VerdictsStand`: one review a line always; the promises
  that rest on plain reads as long as calls do not cross.
* `AcceptedWithinLimit`: each crossing adds one over the limit and no more.
* `NothingIsMissed` = `UnreadIsCounted` and `PagesShowEverything`: the unread
  count of a thread misses nothing but the instant of the mark; the inbox's list
  counts the same but for exactly the messages of a never-marked thread that the
  other threads' cursors are past; and pages show each message once.
* `DecisionsStand`: a closed dispute is written to only by a call that crossed
  its closing, the order leaves it once, and nobody is told of an outcome that
  did not commit.

`outbound`

* `DeliveriesAddUp`: a delivered row was accepted; without crossing sweeps an
  event is posted no more than `MaxAttempts` times and once more for each stop.
* `OneReminderPerDate`: each date of a rule is mailed once, and once more for
  each sweep that failed half-way.
* `BenchmarksAreSound`: a quartile is a sample with no more than its share below
  it; no filter uncovers a group under the threshold, although lead times are
  filtered before they are grouped; a group has one row, and unless two refreshes
  overlapped the table is one reading, the newest.
* `DueWorkMovesOn` = `RetriesEnd` and `DueRulesMoveOn`.

`catalogue`

* `AnswersAgree`: the fallback finds a listing exactly when the filters mean it
  and its narrowing does not leave it out (a city and a country of two plants, a
  tier of a supplier without a profile); an index in step with the rows finds
  what is meant, and more only where Meilisearch joins flags with OR or through the
  semantic leg of a hybrid query.
* `PageMirrorsAddress`: once nothing is under way, box, address and answers
  agree, but for a navigation that another one dropped and an answer that came
  late.  The page number is not part of it: it never reaches the address
  (section 6, and theorem `PagesAreNotAddressed`).
* `StoredShapesAreSound`: ladders descend and bands do not overlap, unless two
  replacements crossed; what is left even then.
* `ContentsAreSound`: as long as calls do not cross, the attributes fit the
  listing's own category, no edit, accepted suggestion or picture is lost, and a
  suggestion is confirmed of a picture that somebody saw.  However they cross, the
  attributes fit together some category, suggestions fit the definitions of the
  category they were read for, and each picture stands once and at its place.
* `BillFollowsComparison`: an order bills what was compared, to half a cent of
  duty a piece, plus the fees of the steps its quantity is not on.

Properties with an exception say what the code does and no more: each exception
was needed for the run to pass, and the hazard it comes from is listed in
`PROJECT.json`.  Where a comment of the repository promises what an exception
takes back, the exception is stated exactly, what is left out and nothing else, and
section 6 quotes the comment.  A property that speaks of overlap, crossings or stops carries
that as history (`overlap`, `crossed`, `late`, `mingled`, `sendsCrossed`, `entangled`,
`overlapped`, `stops`), which no
action reads but for its bound.

### Bounds, and why they are enough

Values that a module only compares, such as sessions and row ids, are model values
under symmetry; components that never move in one behaviour share them, so that one
permutation serves both.

*Orders.*  Ten cents is the least total for which the deposit (3), the balance
(7), the commission (1) and the net (9) are positive and distinct and a payout
needs both charges.  Partial refunds are 1, 4 and 10: within the deposit, across
both charges, everything.  `AutoReleaseDays = 1` and `Net30Days = 2` stand for 7
and 30; only their order matters.  Two disputes let a second one meet what the
first left; two shipments let one of them be late, or stay on the dock, in both order runs;
one lost transaction and its retry is all that a retry repeats.  In `order_races` two sessions are every race
of two; three charges let a payment be captured twice and a balance once; one
recorded crossing and one rollback, each with anything before and after it, is one
harm and its cause; a partial refund of 4 cents takes the deposit and some of the
balance.  Several crossings, rollbacks and sessions are the proofs' matter.

*Trade.*  Two quotes are a pair of competitors or a head and its revision.
SINGLE differs from BROADCAST only in who is invited, and is left to the proofs.

*Listing.*  One sheet, two sessions, one job, any number of readings, edits and
submissions; the roles are a supplier's sales
and operations and the platform's staff, whose permissions differ where the
properties look.

*Supplier.*  Two plants (each may be primary) and one row of each other kind;
two sessions.  Two suppliers and the buyer's own company own four listings, of
which one may leave the market; two quotes, two senders, one message.  Three
source files, of three and six records, meet each other across a batch boundary of two; the
migration files hold each kind of pair of rows (same, near, far, invalid).  How a
file is read does not depend on what the directory holds, so `FileIsRead` is
looked at only where a run begins on an empty one.

*Trust.*  One line and two reviews of it; a limit of one in a window of the
present instant, with one step of look-back for bodies, over three instants; two
threads, three messages, pages of one; one supplier's answer to a review.  Disputes are opened from one status
before and one after shipping.

*Outbound.*  One endpoint, two attempts, one stop; two dispatchers and two
sweeps.  Two rules with a cadence and a straggler, which exists from the start
without a cadence; one timer and one failure.  Two samples make a benchmark;
three offers (one with two tiers in a band, one in the same group, one without a
material), four purchases that name category and material in each way, two
refreshes and two moves of the market.

*Catalogue.*  Two values of each filter, so that rows can match, miss and split
between plants; three moves of a visitor, which is a query, a filter and one way
back; two members and ladders of two steps; quantities on either side of each
step; ladders of two lines (`MaxSteps`); duty rates of nothing and of a third,
which rounds.  Two
categories, one with an attribute of each type and one that shares a key with it;
one sheet, two pictures and two members.

### Fairness

`OrderEscrow` adds weak fairness of `tick` (days pass), of the release sweep
(`orders/jobs.ts` exports it for a scheduler that calls it for ever) where its
answer does not hang on which of several undelivered shipments the query puts
first (`ReleaseCertain`), and of the second transactions (they are awaited right
after the first; a crash may still drop them).  Nothing is assumed of buyers,
suppliers or staff, and nothing of the Net-30 run: its adapter numbers charges
anew, and the unique `stripePaymentIntentId` may refuse its commit every time.
That an invoiced Net-30 balance is captured in the end is therefore not claimed.

`RfqTrade` gives the two sweeps strong fairness: a scheduler calls them for
ever, and while an accept holds the row lock, an update that waits for it is
next in Postgres's queue, so that a stream of accepts cannot keep it out.  A
transaction ends by its commit or by Prisma's timeout: weak fairness of one or
the other.

`OutboundMC` has weak fairness of what a worker does once it began, of both
sweeps, and of the timers that start them.  The retry sweep is exported for a
scheduler; the reorder sweep has one caller in the repository, the staff
console's button, so that `DueRulesMoveOn` says what follows from pressing it
again and again.

Nothing is proved live about listings: no caller in the repository starts the
index jobs.
## 4. Theorems

Eight modules hold proofs.  Each proves its components' specifications for every
value of the constants that the named assumptions allow: any total, rate and
schedule, any sets of quotes, listings, rows, disputes, filters and texts, and any
number of calls, jobs and workers that overlap.  The runs show the same properties
on one small instance.

| Module | Theorems |
|---|---|
| `OrderEscrowProofs` | `Inductive`, `TypeCorrect`, `FullRefundsAreFinal`, `ChargesAreBacked`, `FateAndCharges`, `PayoutsBacked`, `CancelledNeverPays`, `DisputesFreezeOrders`, `StoppedPaysNobody`, `DisputesFreezeReleases`, `ImplementsAccount`, `BooksInductive`, `BooksKept`, `PaidBeforeDispatch`, `CancellationsRefund` |
| `OrderRacesProofs` | `RacesInductive`, `BooksHold`, `HarmsAreCrossings` |
| `RfqTradeProofs` | `TradeInductive`, `TradeTypeCorrect`, `OneAward`, `OneOfferPerChain`, `TimelyOrders`, `AwardsHaveOrders`, `EndedStays` |
| `ListingLifecycleProofs` | `ListingInductive`, `ListingTypeCorrect`, `QuietInductive`, `MarketModerated`, `DiscoveryReviewed` |
| `SuppliersProofs` | `SupplierInductive`, `PublicComplete`, `SubmissionLocks`, `InvitationsHold`, `SuppliersStayApart`, `RowsAreAccountedFor`, `DirectoryHolds` |
| `TrustProofs` | `ReviewsStayDistinct`, `VerdictsAreFinal`, `LimitsHold`, `NothingMissed`, `DecisionsHold` |
| `OutboundProofs` | `RemindersOncePerDate`, `DeliveriesAreAccounted`, `BenchmarksHold` |
| `CatalogueProofs` | `EnginesAgree`, `PageFollowsAddress`, `PagesAreNotAddressed`, `ContentsHold`, `ShapesHold`, `BillsFollow` |

A theorem about one of several components that a run sets side by side is about
that component's own specification (`SourcingSpec`, `WebhookSpec`, ...), or, in
`TrustProofs`, about the composition.

*OrderEscrow.*  The invariant is
`IInv == TypeOK /\ OneFate /\ ChargesBacked /\ TransferOnlyAfterRelease /\ ActiveDisputeFreezesOrder`.
`EscrowNeverOverdrawn` is not inductive: that a refund leaves the balance
non-negative needs to know which entries the ledger holds in which status
(`OneFate`: as the code stands, that nothing was released before it, and that
nothing releases what a partial refund leaves), that
a release needs an order that is not DISPUTED (`ActiveDisputeFreezesOrder`), and
that what the adapter accepts is what was captured (`ChargesBacked`).  The
argument is arithmetic lemmas about sums over the three payment kinds and about
commissions (`0 <= commission <= gross`), one lemma per group of actions, and
`StepInv`, which splits `Next` into those groups and shows at once that every
step is one of `EscrowAccount`.

*The books.*  `BooksInv` is inductive relative to `IInv`.  That goods leave paid
needs the whole plan of payments: which one is scheduled up front and for how
much, that the balance is what it left over (`PlanKept`), that production waits
for the first payment (`UpfrontPaid`), and that a shipment which left had both
(`DispatchPaid`).  A withdrawn dispute sends the order back to the status in
which it was opened, which must not be one before the first payment or
CANCELLED: `OpenedInTime`.  That refunds in the books and at the adapter agree
while no transaction was lost needs an argument about a loop that the adapter
refuses half-way (`RefusedAtOnce`): with nothing lost before, only a charge of
another process's adapter is refused; such a charge is a Net-30 balance, which
is its order's only payment; so nothing of that loop was refunded before.

*OrderRaces.*  `IInv == TypeOK /\ BooksNeverAhead /\ \A s \in Sessions : Backed(s)`.
`Backed` says of an open call that what it did at the adapter is there when it
commits: the charge it captured is one of its payment, each refund it has made has
given back the payment, or its portion of a partial refund, and of a payout what was sent and what the call has left out
make up at least the net.  Nothing another call does can undo any of these, which is why
they hold for any number of sessions.

What an overlap breaks is attributed by `HarmInv`, on top of `IInv`:
`PaymentInv /\ DisputeInv /\ LedgerInv /\ CancelInv /\ SettleInv`, one part per
harm.  Each has the form "the crossing this harm takes is on record, or the rows
are in order, and every open call will keep them so or, if another commits
first, will have crossed it".  `SettleInv` also counts: what the supplier was
sent is no more than was drawn from the charges the books name, and of an open
settlement what it has taken and what it has left to take make up the net.
A step is first described field by field (`Begins`, `Captures`, `GivesBack`,
`Draws`, `Commits`, ...), so that each part of the invariant looks at the two or
three fields it is about and not at eleven actions.

*RfqTrade.*  What a commit writes rests on what its call read steps ago, so the
invariant carries the guards to the commit.  Without overlap a call is alone and
what it read is still true (`CallAlone`).  With overlap only what no other call
can undo is left: the row exists, a window that had begun has still begun, a
close time that had passed has still passed (`TimelyCalls`).  The guards on time
survive races; those on status do not.

*ListingLifecycle.*  `IInv` says of a call about to publish that its role is a
moderator's or that it read a listing a moderator had published; that is enough
for `NeverLiveUnmoderated` under any overlap.  `QuietInv` adds what holds while
`overlap` is false: a call is alone and what it read is still true, a listing on
the market is complete and approved, and its page is as it is or older than its
submission, because every submission makes a page that says something else an
older one; sheets only advance, and what a job has
loaded is no draft.  `MarketModerated` joins the two.

*SupplierProfile.*  A submission has read a complete profile; as long as no call
crossed it, the profile still is.  A call that writes after the submission is
one of those it overtook.

*Sourcing.*  `InvitationsIInv` says that a send about to write has targets, each
organization once, and that each of them fits the request (`Fit`): its listing
prices the quantity, meets every single-valued wish, and scores best of what its
owner still has on the market.  `Fit` survives listings that leave, because only
competitors of the chosen one matter and leaving removes competitors.  The
conversations need two more conjuncts: every message is from one side of a
thread that exists and shows a quote of that thread's supplier (`MessagesHold`),
and every quote is an invited supplier's and has exactly one card (`QuotesHold`).

*Reviews and messages.*  A limit that is counted and then inserted under is not
inductive by itself: what is bounded is the rows in a window together with the
calls that have counted and not yet inserted, `Limit` plus one for each other
caller (`ReviewQuota`, `PostQuota`).  It rests on lemmas about windows: a later
one holds no more, a new row adds one to those that reach it.  While nothing
crossed, the call that counted is alone and its count is still true
(`ReviewsUncrossed`, `MessagesUnmixed`).

*DisputeRoom.*  `RoomIInv`: a call that no closing overtook found the dispute
open, at most one closing moved the order unless two crossed, and whoever signs
or notifies is at a closing that is on record.

*Outbound.*  A reminder's count may be ahead of what committed only by the one
mail of the sweep that holds the rule, and by one for each failure (`Ahead`).  A
webhook's posts are the attempts on its row, the one a worker has in hand, and
one for each stop (`Accounts`), which in turn needs that a sweep alone on a row
wrote the number it read plus one (`OneSweep`).  For the benchmarks,
`FilteredBeforeIsAfter` shows for any samples that filtering before grouping
gives the groups that filtering after it does, because a filter names only what a
group shares; this is why no filter uncovers a small group.  `BenchmarksIInv`
then says what each run is about to write, and that one alone read last and
deletes every row (`Alone`).  `QuartilesRank` follows the sorting of any finite
set of samples: with the least taken away k - 1 times, the least of what is left
has k - 1 others no larger and at most as many smaller.

*Catalogue.*  `EnginesAgree` rests on the document being what the rows say at the
time it was built, and compares the three readings filter by filter.
`PageIInv`: the query in the box is in the address or on its way there
(`BoxFollowed`), and the newest request is under way, or its answer came last, or
only older ones followed (`AnswersFollowed`).  `NoPages` is what
`PagesAreNotAddressed` rests on: no navigation under way asks for a page.
`ContentsIInv`: a call that is
going to write holds values that are valid together for the category it read or
names (`CallHolds`), a sheet is extracted once
and before it is applied (`SheetsAreOwned`), and without crossings the caller
still knows the category and the columns as they are (`UncrossedHold`); `ExtractionFits` shows for
any text that what a pattern found is offered only if it fits its definition.

*What a recursion computes.*  Pages of a thread, merges of a file, slugs, ladders
and totals are recursive functions over numbers.  That such a function exists and
obeys its equation, and that a fact about each of its values follows from one
step, is induction; the library's induction theorems take an operator and cannot
be instantiated here, so the modules prove `SetInduction` for a set of numbers
instead (if it holds zero and the successor of each member, it holds them all:
otherwise the rest would have a least member), by `WFMin`.  From it follow
`FirstOfFinite` (a finite set that a total order ranks has a first member) and
`SubsetInduction` (for sets that grow by one member).

*Pages.*  What is left of a thread after some pages is closed under "posted
before", and each page takes off at least one of it; so after as many pages as
there are messages none is left, and each was on one (`PagesAreComplete`).

*MigrationImport.*  `DedupHolds` carries along the rows of a file what each
prefix has accounted for: every row leads its own organization or was merged into
an earlier one that leads its own (`MergesHaveATarget`), whose capabilities and
contact only grow (`CanonicalGains`).  Lines are apart because each record that is
not blank counts one more (`LinesAreApart`); slugs are apart because each is one that
no earlier row has, or the call never ends (`OrgsHold`), and because a transaction
that meets a slug or an id of its own writes nothing.
`ImportIInv` says what an open call has planned; other calls add organizations and
staff move tiers, but nothing takes a row away (`StillThere`), which is why an
alarm has a row that an audit moved.

*Directory.*  `DirectoryIInv` has three parts: every entry is a sound row of some
file under its own slug (`EntriesAreRows`); a run that nothing crossed has landed
the rows it has passed, and, if its file was the last imported, found all its slugs
there (`FeedHolds`); what was reported is in the directory (`ReportHolds`).  That
a file is read well is `RowsOfFile`: a slug is new because of all ordinals up to
one more than the slugs taken, some is free (`SlugIsNew`, by counting), so slugs are
distinct (`RowsAreRead`), and rows depend on those above only
(`LongerFileKeepsRows`).  `CategoriesAreBest` rests on scores and card order
ranking categories totally.  The pages follow by division, the chips from
`splitList` keeping each type once, the sum over categories from each record
having one primary category (`PagesHold`, `ChipsCount`, `CountsAddUp`).

*ListingShapes.*  Validation compares neighbours; `LadderMonotone` and
`BandsApart` carry that to any two rows.  `ShapesIInv` says of a save what it is
about to write and that without crossings one replacement, and without mingling one
save, is under way (`OneReplacement`, `OneSave`); a ladder is then one call's rows
or the rows that stood.

*QuotePricing.*  A total is a recursive sum over a set in the order in which
CHOOSE takes it; `TotalIsSum` shows that the order does not matter, by induction
over the set.  `TotalSplits` divides a total into the step that is billed and the
others, `RoundedIsNear` bounds a rounding by half, and from the two follow how far
the duty (`DutyStrays`) and the price a piece (`UnitStrays`) may stray.

### Assumptions

All are named where the constants are declared, and TLC evaluates each.  Orders:
schedules are the schema's, the total is positive, the commission is between 0
and 10000 basis points, partial amounts and shipment numbers are natural, the
release window is not longer than the Net-30 terms.  Trade and sourcing: modes
are the schema's, the buyer is not among the suppliers, a listing on the shelf
has an owner and finitely many attributes, request forms have the form's shape.
Catalogue: the category tree has a root and its parents are categories, no two
attribute definitions of a category share a key, trimming twice is trimming
once, links are addresses, and the mark for no profile is not a tier
(`TierAssumption`) nor that for no document a document (`NoneAssumption`).  A cell is an integer or a mark for a blank or a bad one; prices,
fees and duty rates are natural numbers, and a ladder has at most `MaxSteps` lines,
as many as one likes.  Imports: a batch and a page are positive; the taxonomy is
finite and its last card, other-general, has no keywords; similarities of names
are percentages (`SimilarityAssumption`); numbers are written as different texts,
and there is a text for every ordinal a file can need (`OrdinalAssumption`).
Benchmarks: offers and their tiers are finite sets (`OffersAssumption`).  Races: totals
and bounds are natural, a partial refund is positive.  Limits and counts: the sets of sessions and callers
are finite, a limit and a page are positive.  Where a proof needs it, a marker
for "none" is not a member of the set it marks.

### Checked by TLC only

* Liveness: `MoneyMovesOn`, `SweepsCatchUp`, `DueWorkMovesOn`; and
  `SomebodyCanMoveOn`, which speaks of ENABLED.  Both are out of this prover's
  reach.

Every other property of a passing run is stated by a theorem.


## 5. Plan

Done, in the order in which it was built: the order's core and its escrow
account; the trade core; listings; reviews, limits and messaging; webhooks and
reminders; onboarding; overlapping calls on one order; search, ladders and
pricing; sourcing and threads; the two pages; the two imports; the dispute room;
the proofs of section 4.

Left, in order of what it would add:

1. Several supplier legs on one order: a payout each, settlements that draw on
   the same charges, and what a partial refund leaves for whom.
2. `OrderRaces` on FULL_PREPAY and Net-30 orders, with the jobs as sessions.
3. A restart of the web process: the in-memory adapter forgets its charges and
   its ids begin again, under the unique columns that hold them.
4. Inbox reads of notifications; sign-in and sessions; listing variants.

## 6. Findings

Each claim quotes what the repository says; its run gives a behaviour of the
model that the code can follow, paths as in section 1.

* `claim_settlement_once`: "Staff settles a payout with a mock transfer record
  (idempotent)" (`order-repository.ts:906`).  One that throws for insufficient
  funds has transferred already (`:951`), and its retry transfers again.
* `claim_award_ends`: "Decline the remaining open competitors (award ends
  negotiation)" (`cart-repository.ts:225`).  Two overlapping accepts leave two
  accepted quotes and two orders (`:186`).
* `claim_remainder`: "Dispute resolved to a partial refund — the escrow remainder
  releases" (`order-machine.ts:183`), "partial refund, then release remainder"
  (`order-repository.ts:776`).  `releaseDecision` answers NOT_ELIGIBLE for such an
  order, the sweep does not select its status (`:733`), the resolution releases
  nothing and no page offers to: the remainder stays.

Others are stated by a property that holds, because it names exactly what the code
does instead:

* `BillFollowsComparison`: summing across steps "would bill the 5,000-unit freight
  on a 1,200-unit order" (`landed-cost.ts:125`).  A quote's head stores those
  sums (`quote-repository.ts:196`), and they are what an order bills.
* `MoneyMovesOn`: the sweep "releases every order whose 7-day auto window has
  elapsed" (`order-repository.ts:726`).  With two shipments the release clock is
  read from the one that sorts first, NULL before any date (`:638`): one that never
  left the dock may keep the order from being released for ever.
* `NothingIsMissed`: "Unread = inbound messages newer than the org's read cursor"
  (`messaging-repository.ts:335`).  `listThreads` reads a page from its earliest
  cursor on (`:353`), and leaves out older messages of a thread nobody marked.
* `AnswersAgree`: the fallback's narrowing is "Never stricter than
  `matchesFilters`" (`postgres-fallback.ts:23`) and semantics "cannot drift between
  engines" (`filtering.ts:16`).  A city and a country must hold of one plant,
  UNVERIFIED needs a profile, and Meilisearch joins flags with OR (`:237`).
* `PageMirrorsAddress`: "filters, sort, and pagination live in the URL"
  (`search-experience.tsx:23`).  The offset is deleted after it was set (`:100`,
  `:172`), so Next and Previous lead nowhere.

### Seen while modelling

Orders

* A declined capture should leave a FAILED row (`order-repository.ts:340`); it is
  written in the transaction that its own rethrow rolls back.
* A payment scheduled before a cancellation can be captured after it and is held
  for ever, although cancelling auto-refunds (`app/orders/actions.ts:100`).
* A Net-30 order delivered before its balance is captured is moved to
  ESCROW_RELEASED with nothing held, where the sweep no longer looks
  (`jobs.ts:37`).

* A dispute opened before shipping and withdrawn leaves the order DISPUTED with
  no dispute left to resolve (`disputes-repository.ts:194`).
* A Net-30 order is never invoiced when the process stops, or the order is
  disputed or delivered, between shipping and the second transaction
  (`order-repository.ts:575`); a replay returns before it.

* A balance of zero cents leaves the order in BALANCE_DUE with nothing to pay
  (`order-repository.ts:496`).
* A retried capture makes a second charge, although `escrow.ts:118` derives a key
  meant to make it idempotent.  The second of two crossing payments overwrites
  the first's charge id.  Invoice numbers are a count plus one: two at once end
  in a unique violation.
* A payout is computed from the leg's total, not from what was released.
* Charge ids are per adapter, `Payment.stripePaymentIntentId` is unique: a second
  job run's capture may be refused by the database.  Restarting the web process
  forgets its charges.
* The order page offers Cancel only in DRAFT, although its text says "Cancel any
  time before production starts"; the dispute form stands in statuses where it
  is refused; BALANCE_DUE says "Balance paid" when it is not; Pay is offered for
  PENDING only, though FAILED is payable.

Disputes

* A response, a piece of evidence or a review that crosses a closing writes the
  old status back: the dispute is open again, on an order that has left it.
* The console lists OPEN and RESOLVED disputes; one UNDER_REVIEW vanishes.
* `openDispute` never sets `subOrderId`, so a resolution by the console notifies
  no supplier, although `lib/admin/disputes.ts` says that it does.
* Resolving, signing and notifying are three steps; a stop between them leaves
  the row unsigned and nobody told, and the retry is refused.  The order page's
  own resolution never signs.

Trade

* A withdraw or decline that overlaps an accept overwrites ACCEPTED, and a close,
  cancel or send that overlaps it overwrites AWARDED; the order stays.
* A submission that read the RFQ open stands on it after the award
  (`quote-repository.ts:150`).
* "must CLOSE instead" of being cancelled (`rfq-repository.ts:439`) is the
  reverse of what `assertCloseTimeAllows` asks.  A send does not ask whether an
  auction's close time has passed.
* A quote may be submitted with a `validUntil` that has passed, and a counter
  inherits one (`negotiation-repository.ts:227`): the revision is born expired.
* Two crossing sends make two threads per supplier.  A SINGLE draft's page shows
  matches of its category, though only one supplier is sent to.
* `CartItem.quoteId` is unique: two crossing adds end in an error nobody catches.
  The cart shows withdrawn, declined and superseded quotes with an Accept button.
* The comparison rounds duty per unit, the order on its subtotal.

Listings and search

* A moderator's publication names the listing only (`app/listings/actions.ts:129`):
  one withdrawn, edited and submitted again behind the page is published unread.
  The repository has no page on which staff read a submitted listing.
* Suggestions applied across a save that moves the listing to another category
  leave it attributes of the first (`listing-repository.ts:614`).
* A paused or archived listing stays in the index: jobs upsert what is live and
  remove nothing.  `enqueueListingSync` has no caller outside its package.
* On Meilisearch `_geo` is not filterable, so such
  queries always fall back; the semantic leg of a hybrid query knows no filter.
* The agent search route answers `results: []` for a degraded hybrid answer.
* Facet counts are given documents that are filtered already.
* `validateLeadTimeRules` never asks whether the last band is inverted; a CSV
  import drops a half-filled band in silence; the editor stores production days
  over 365.  Its save is four transactions.
* On the search page Back over a typed query is undone by the debounce;
  answers are shown in the order they arrive.

Suppliers

* The supplier page, the agent's supplier route and the sitemap read profiles
  without the publishing gate that `onboarding.ts:120` says they consult; a
  profile that was never submitted can be verified.
* Two organizations of one name and country share a mock account id, which is
  unique in the schema.
* `importer.ts:142` looks for a free slug in a loop that may never end.  The
  importer merges into the best-scoring row only; organization ids are line
  numbers, so a second file fails as a whole; its alarm can be raised over a
  staff's change of tier.
* The directory's slugs depend on the file's order: a row inserted above a
  namesake makes records overwrite each other, and removed rows stay.  Category
  pages order by a key that is not unique, with OFFSET.

Trust

* The keyset of `listThreads` skips ties.
* `startThread`'s first message is not limited.  The inbox's handler does not
  know `FraudRateLimitError`, which `fraud.ts:42` says is rendered as form copy.
* `respondToReview` does not ask whether the review is published.

## 7. Not modelled

*Of components that are modelled in part.*  Orders: several supplier legs,
invoice numbers, tax rows, the CLOSE move (nothing calls it), file uploads.
Payments adapter: the ids it counts, the memory a restart loses.  Trade: lists
and detail pages, which only read, and sample orders.  Listings:
`failSpecExtraction` (nothing calls it) and variants.  Messaging:
redaction and the contact-sharing policy, which change no state.  Notifications:
reads and marks of the inbox.  Search: ranking, scores, facet counts, the numbers
of embeddings.  Permissions: the matrix is modelled and asked where a property
depends on who calls; sign-in and sessions are not.  Web application: layout,
dashboards and the pages that render one query's answer.

*Not at all.*  The agent API's key checks keep no state, and its fixed-window
limiter is one counter in one process without a step between test and increment.
The AI
adapters and services are stateless text heuristics behind interfaces.  SEO, UI
and seed data render and fill.

*Of every component.*  Wording, formatting, logging and audit rows.  Postgres is
READ COMMITTED with row locks and unique columns; deadlocks between transactions
and Prisma's timeout are an `abort` or a `rollback` at any point.
