---------------------------- MODULE OrderRacesMC ----------------------------
(* Two sessions on one order.                                              *)
EXTENDS OrderRaces, TLC
CONSTANTS s1, s2
TwoSessions == {s1, s2}
SessionSymmetry == Permutations(TwoSessions)
=============================================================================
