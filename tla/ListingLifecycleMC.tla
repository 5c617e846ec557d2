------------------------- MODULE ListingLifecycleMC -------------------------
(* Small instances of ListingLifecycle for TLC. *)
EXTENDS ListingLifecycle, TLC

SalesAndStaff == {"SUPPLIER_SALES", "SUPPLIER_OPS", "AEKOVERA_STAFF"}
SessionSymmetry == Permutations(Sessions)
=============================================================================
