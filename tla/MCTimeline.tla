----------------------------- MODULE MCTimeline -----------------------------
(***************************************************************************)
(* A small instance of Timeline for TLC.                                   *)
(***************************************************************************)
EXTENDS Timeline, TLC

CONSTANTS c1, c2, k1

MCInjectors  == {c1, c2, k1}
MCCorrupting == {c1, c2}
MCLong       == {k1}
MCSymmetry   == Permutations(MCCorrupting)
=============================================================================
