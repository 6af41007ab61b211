---------------------------- MODULE CSIController ----------------------------
(***************************************************************************)
(* The controller service of the CSI driver (pkg/csi/service.go): a table  *)
(* of volumes that lives in memory only.  Its handlers hold one mutex from *)
(* the first look at the table to the answer, so each is one step.         *)
(* ControllerPublishVolume, ControllerUnpublishVolume and the capability   *)
(* calls answer constants and touch nothing.                               *)
(***************************************************************************)
EXTENDS Integers, Sequences, FiniteSetsExt

CONSTANTS
    Lower,            \* the lower-case letter of each upper-case one
    DefaultCapacity   \* the capacity of a volume that none is required for

ASSUME DefaultAssumption == DefaultCapacity \in Nat \ {0}

VARIABLE volumes      \* Service.volumes: volume id -> capacity in bytes

-----------------------------------------------------------------------------
(* Names.  A name is a sequence of characters.                             *)

TrimSpace(s) ==
    LET ink == {i \in DOMAIN s : s[i] # " "}
    IN  IF ink = {} THEN <<>> ELSE SubSeq(s, Min(ink), Max(ink))

Clean(ch) ==
    CASE ch \in DOMAIN Lower      -> Lower[ch]
      [] ch \in {" ", "/", "_"}   -> "-"
      [] OTHER                    -> ch

sanitizeName(name) ==
    LET s == TrimSpace(name) IN [i \in 1..Len(s) |-> Clean(s[i])]

\* mutant: volumes are numbered as they are made.
CountedVolumeId(name) == <<Cardinality(DOMAIN volumes) + 1>>

\* The fixed prefix "kube-pfs-" is left out.
VolumeId(name) == sanitizeName(name)

-----------------------------------------------------------------------------
(* Handlers.                                                               *)

Refused        == [code |-> "InvalidArgument", id |-> <<>>, capacity |-> 0]
Answered(v, b) == [code |-> "OK", id |-> v, capacity |-> b]

\* The capacity of a volume: an existing one keeps its own.
CapacityOf(v, required) ==
    IF v \in DOMAIN volumes THEN volumes[v]
    ELSE IF required > 0 THEN required ELSE DefaultCapacity

\* What CreateVolume answers a request for a name and a number of bytes.
CreateVolumeAnswer(name, required) ==
    IF TrimSpace(name) = <<>> THEN Refused
    ELSE Answered(VolumeId(name), CapacityOf(VolumeId(name), required))

CreateVolume(name, required) ==
    LET a == CreateVolumeAnswer(name, required)
    IN  volumes' = IF a.code = "OK"
                   THEN [v \in DOMAIN volumes \cup {a.id} |->
                            IF v = a.id THEN a.capacity ELSE volumes[v]]
                   ELSE volumes

\* mutant: DeleteVolume answers OK and keeps the volume.
DeleteVolumeKeeps(v) == UNCHANGED volumes

\* DeleteVolume answers OK whether the volume was there or not.
DeleteVolume(v) == volumes' = [w \in DOMAIN volumes \ {v} |-> volumes[w]]

NoVolumes == [v \in {} |-> 0]

\* The process ends and is started again.
RestartController == volumes' = NoVolumes
=============================================================================
