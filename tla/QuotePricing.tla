---------------------------- MODULE QuotePricing ----------------------------
(***************************************************************************)
(* What one supplier's quote costs, from the ladder it submits through its *)
(* counter-offers to the order made from it: quote-repository.ts,          *)
(* negotiation-repository.ts and cart-repository.ts in                     *)
(* packages/core/src/trade.  Who may make these calls, when, and in what   *)
(* order with others' is RfqTrade's matter.                                *)
(***************************************************************************)
EXTENDS LandedCost, FiniteSets

CONSTANTS
    Steps,          \* ladder lines suppliers write in this instance
    Quantities, Units, Fees, Freights, DutyRates,   \* values calls are made with
    MaxSteps,       \* bound: lines of one ladder
    MaxRevisions,   \* bound: counter-offers on one quote
    NoOrder

ASSUME QuantitiesAssumption == Quantities \subseteq Nat \ {0}
ASSUME PricesAssumption ==
    /\ Units \subseteq Nat /\ Fees \subseteq Nat /\ Freights \subseteq Nat /\ DutyRates \subseteq Nat
    /\ IsFiniteSet(Steps) /\ MaxSteps \in Nat
    /\ Steps \subseteq [minQty : Nat, unit : Nat, fees : Nat, freight : Nat]

VARIABLES
    offer,      \* the quote that stands: its head columns and its lines
    revision,
    order       \* totalCents of the order

priceVars == <<offer, revision, order>>

NoOffer == [quantity |-> 0, unit |-> 0, fees |-> 0, freight |-> 0, dutyBps |-> 0, lines |-> {}]

-----------------------------------------------------------------------------
(* A ladder has at least one line, and one per quantity. *)

Ladders == {l \in SUBSET Steps :
                /\ Cardinality(l) \in 1..MaxSteps
                /\ \A s, t \in l : s.minQty = t.minQty => s = t}

Total(cents) ==
    LET f[l \in SUBSET DOMAIN cents] ==
            IF l = {} THEN 0 ELSE LET s == CHOOSE s \in l : TRUE IN cents[s] + f[l \ {s}]
    IN  f[DOMAIN cents]

FeesOf(lines) == Total([s \in lines |-> s.fees])
FreightOf(lines) == Total([s \in lines |-> s.freight])

\* The head takes the unit price of the quantity's step, and the fees and the
\* freight of every line.
submit ==
    /\ revision = 0
    /\ \E lines \in Ladders, quantity \in Quantities, duty \in DutyRates :
         /\ Priced(lines, quantity)
         /\ offer' = [quantity |-> quantity, unit |-> selectedTier(lines, quantity).unit,
                      fees |-> FeesOf(lines), freight |-> FreightOf(lines),
                      dutyBps |-> duty, lines |-> lines]
    /\ revision' = 1
    /\ UNCHANGED order

\* Terms the supplier leaves out are the head's; the revision has one line.
counterQuote ==
    /\ revision \in 1..MaxRevisions /\ order = NoOrder
    /\ \E quantity \in Quantities \cup {offer.quantity}, unit \in Units \cup {offer.unit},
          fees \in Fees \cup {offer.fees}, freight \in Freights \cup {offer.freight},
          duty \in DutyRates \cup {offer.dutyBps} :
         offer' = [quantity |-> quantity, unit |-> unit, fees |-> fees,
                   freight |-> freight, dutyBps |-> duty,
                   lines |-> {[minQty |-> quantity, unit |-> unit, fees |-> fees,
                               freight |-> freight]}]
    /\ revision' = revision + 1
    /\ UNCHANGED order

-----------------------------------------------------------------------------
(* The two totals *)

\* landedCostComponentsFromQuote: the fees and the freight of the step selected.
Selected(o) == selectedTier(o.lines, o.quantity)

Compared(o) ==
    totalCents(Selected(o).unit, o.quantity, Selected(o).fees, Selected(o).freight, o.dutyBps)

ComparedUnit(o) ==
    unitLandedCents(Selected(o).unit, o.quantity, Selected(o).fees, Selected(o).freight, o.dutyBps)

\* Mutant of Billed: the order forgets the one-time fees.
BilledWithoutFees(o) ==
    o.unit * o.quantity + o.freight + Rounded(o.unit * o.quantity * o.dutyBps, 10000)

\* acceptQuote: the head's columns, and the duty of the subtotal.
Billed(o) ==
    o.unit * o.quantity + o.fees + o.freight + Rounded(o.unit * o.quantity * o.dutyBps, 10000)

acceptQuote ==
    /\ revision > 0 /\ order = NoOrder
    /\ order' = Billed(offer)
    /\ UNCHANGED <<offer, revision>>

PricingInit == offer = NoOffer /\ revision = 0 /\ order = NoOrder

PricingNext == submit \/ counterQuote \/ acceptQuote

PricingSpec == PricingInit /\ [][PricingNext]_priceVars

-----------------------------------------------------------------------------
(* Properties *)

Unselected(o) == o.lines \ {Selected(o)}

(* The landed cost is "the buyer's decision surface" (cart-repository.ts    *)
(* :132) and an order's totals are "derived from the quote" (:10).  The     *)
(* price a piece never strays from the total by more than a cent a piece;   *)
(* and the order bills what was compared, to within half a cent of duty a   *)
(* piece, plus the fees and freight of the steps the quantity is not on -   *)
(* none after a counter-offer, which compares what it bills.                *)
BillFollowsComparison ==
    revision > 0 =>
        LET o == offer
            extra == FeesOf(Unselected(o)) + FreightOf(Unselected(o))
            gap == Billed(o) - Compared(o) - extra
            stray == ComparedUnit(o) * o.quantity - Compared(o)
        IN  /\ Priced(o.lines, o.quantity) /\ Selected(o).unit = o.unit
            /\ -o.quantity <= 2 * gap /\ 2 * gap <= o.quantity
            /\ -o.quantity <= stray /\ stray <= o.quantity
            /\ revision > 1 => extra = 0

=============================================================================
