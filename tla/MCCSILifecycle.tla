--------------------------- MODULE MCCSILifecycle ---------------------------
(***************************************************************************)
(* A small instance of CSILifecycle for TLC: two volumes, one of them used *)
(* by two pods, and a claim without a name.                                *)
(***************************************************************************)
EXTENDS CSILifecycle, TLC

CONSTANTS c1, c2, s1, s2, t1, t2, t3, p1, p2, p3

MCCalls     == {c1, c2}
MCStagings  == {s1, s2}
MCTargets   == {t1, t2, t3}
MCStagingOf == (t1 :> s1) @@ (t2 :> s1) @@ (t3 :> s2)
MCClaims    == {p1, p2, p3}
MCLower     == ("V" :> "v")

\* "V_1", "v1" and a name that is blank.
MCNameOf  == (p1 :> <<"V", "_", "1">>) @@ (p2 :> <<"v", "1">>) @@ (p3 :> <<" ">>)
MCBytesOf == (p1 :> 0) @@ (p2 :> 1) @@ (p3 :> 0)
MCPathOf  == (p1 :> s1) @@ (p2 :> s2) @@ (p3 :> NoPath)

MCSymmetry == Permutations(MCCalls) \cup Permutations({t1, t2})

\* No action and no invariant reads what a call that has ended was about, and
\* the kubelet's order leaves nothing to the history of CSINode.
MCView == <<up, files, belief, provisioning,
            [c \in Calls |-> IF InFlight(c) THEN calls[c]
                             ELSE [calls[c] EXCEPT !.req = 0, !.code = 0]]>>
=============================================================================
