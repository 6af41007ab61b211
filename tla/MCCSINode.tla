----------------------------- MODULE MCCSINode -----------------------------
(***************************************************************************)
(* A small instance of CSINode for TLC.                                    *)
(***************************************************************************)
EXTENDS CSINode, TLC

CONSTANTS c1, c2, c3, c4

MCCalls    == {c1, c2, c3, c4}
MCSymmetry == Permutations(MCCalls) \cup Permutations(Stagings) \cup Permutations(Targets)

\* No action and no invariant reads what a call that has ended was about.
MCView == <<up, files, history,
            [c \in Calls |-> IF InFlight(c) THEN calls[c]
                              ELSE [calls[c] EXCEPT !.req = 0, !.code = 0]]>>
=============================================================================
