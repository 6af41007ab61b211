------------------------------- MODULE MCPage -------------------------------
(***************************************************************************)
(* A small instance of Page for TLC.                                       *)
(***************************************************************************)
EXTENDS Page, TLC

CONSTANTS p1, p2, g1

MCPods        == {p1, p2, g1}
MCComponentOf == (p1 :> "prometheus") @@ (p2 :> "prometheus") @@ (g1 :> "grafana")
=============================================================================
