----------------------------- MODULE LandedCost -----------------------------
(***************************************************************************)
(* The price of a quote in integer cents (packages/core/src/trade/         *)
(* landed-cost.ts): the step of the ladder an order falls on, and the one  *)
(* number quotes are compared by.  Tooling and plates are one sum here,    *)
(* the one-time fees; rates are basis points.                              *)
(***************************************************************************)
EXTENDS Integers

\* Math.round of a non-negative quotient: half up.
Rounded(a, b) == (2 * a + b) \div (2 * b)

Priced(steps, quantity) == \E s \in steps : s.minQty <= quantity

\* The highest minimum at or below the quantity; minimums are distinct.
selectedTier(steps, quantity) ==
    CHOOSE s \in steps :
        /\ s.minQty <= quantity
        /\ \A t \in steps : t.minQty <= quantity => t.minQty <= s.minQty

\* computeLandedCost, of a unit price and the fees that go with it.
dutyPerUnit(unit, dutyBps) == Rounded(unit * dutyBps, 10000)

unitLandedCents(unit, quantity, fees, freight, dutyBps) ==
    unit + Rounded(freight, quantity) + dutyPerUnit(unit, dutyBps) + Rounded(fees, quantity)

totalCents(unit, quantity, fees, freight, dutyBps) ==
    unit * quantity + fees + freight + dutyPerUnit(unit, dutyBps) * quantity

=============================================================================
