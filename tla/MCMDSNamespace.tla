--------------------------- MODULE MCMDSNamespace ---------------------------
(***************************************************************************)
(* Small instances of MDSNamespace for TLC.                                *)
(***************************************************************************)
EXTENDS MDSNamespace, TLC

CONSTANTS n1, n2, slash, none, ost0

MCNames      == {n1, n2, slash}
MCSlashNames == {slash}
MCOneOst     == <<ost0>>
MCSymmetry   == Permutations({n1, n2})
\* Nothing reads the history, and no guard reads reply.  The step property does
\* compare reply with reply', but a state that is new under this view was
\* reached by Start, Crash or an accepted Create or Unlink, and no later answer
\* repeats that reply: every answer is compared with the abstract step.
MCView == <<up, memory, disk, clock>>
=============================================================================
