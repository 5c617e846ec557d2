------------------------------ MODULE TrustMC ------------------------------
(* Small instances of Trust for TLC.  Threads are named like reviews, and   *)
(* callers like sessions: no behaviour has both, so that one permutation    *)
(* serves them.                                                             *)
EXTENDS Trust, TLC

RowsAreAlike == Permutations(ReviewIds) \cup Permutations(Sessions)
=============================================================================
