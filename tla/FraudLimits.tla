---------------------------- MODULE FraudLimits ----------------------------
(***************************************************************************)
(* packages/core/src/trust/fraud.ts: the sliding window over the           *)
(* RateLimitEvent rows of one organization and one scope, and the search   *)
(* for a review that repeats an earlier one.  Rows are read as a function  *)
(* from row ids to the time they carry, NoTime for a row that is not there.*)
(***************************************************************************)
EXTENDS Integers, FiniteSets

CONSTANTS
    Limit,      \* accepted actions per window: 5 reviews, 60 messages
    Window,     \* its length: 24 hours, an hour
    MaxTime     \* bound on the clock

ASSUME LimitAssumption == Limit \in Nat \ {0}
ASSUME WindowAssumption == Window \in Nat
ASSUME MaxTimeAssumption == MaxTime \in Nat

NoTime == -1
Time == 0..MaxTime
Rows(at) == {r \in DOMAIN at : at[r] # NoTime}

\* Both ends belong to the window.
Within(at, last) == {r \in Rows(at) : last - Window <= at[r] /\ at[r] <= last}

\* Mutant of RateLimitAllows: the comparison admits one action too many.
AllowsOneMore(at, clock) == Cardinality(Within(at, clock)) <= Limit

\* enforceRateLimit throws where this is false.
RateLimitAllows(at, clock) == Cardinality(Within(at, clock)) < Limit

=============================================================================
