---------------------------- MODULE MCSeedMetrics ----------------------------
(***************************************************************************)
(* A small instance of SeedMetrics for TLC.                                *)
(***************************************************************************)
EXTENDS SeedMetrics, TLC

CONSTANTS a, b, a1, a2, b1, b2, slash, none, ost0

MCClients    == {a, b}
MCNames      == {a1, a2, b1, b2, slash}
MCSlashNames == {slash}
MCOstIds     == <<ost0>>
MCIterations == (a :> 2) @@ (b :> 2)
MCFileName   == (<<a, 1>> :> a1) @@ (<<a, 2>> :> a2) @@ (<<b, 1>> :> b1) @@ (<<b, 2>> :> b2)

\* Nothing reads the last answer, nor the history of MDS.
MCView == <<up, memory, disk, clock, blocks, client, expired, abandoned>>
=============================================================================
