------------------------------- MODULE MCMDS -------------------------------
(***************************************************************************)
(* Small instances of MDS for TLC.                                         *)
(***************************************************************************)
EXTENDS MDSClock, TLC

CONSTANTS n1, n2, slash, none, ost0, ost1

MCNames      == {n1, n2, slash}
MCSlashNames == {slash}
MCOstIds     == <<ost0, ost1>>
MCOneOst     == <<ost0>>
MCSymmetry   == Permutations({n1, n2})

\* No guard and none of the properties checked under this view reads reply.
MCView == <<up, memory, disk, clock, history>>
=============================================================================
