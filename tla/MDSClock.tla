------------------------------ MODULE MDSClock ------------------------------
(***************************************************************************)
(* The metadata service on a host whose wall clock may be set back (an NTP *)
(* step, a restored virtual machine): inode ids are readings of that clock *)
(* (service.go:171), so an id may be drawn twice.                          *)
(***************************************************************************)
EXTENDS MDS

SetClockBack ==
    /\ \E t \in 1..(clock - 1) : clock' = t
    /\ UNCHANGED <<up, memory, disk, reply, history>>

SteppedNext == Next \/ SetClockBack

SteppedSpec == Init /\ [][SteppedNext]_vars
=============================================================================
