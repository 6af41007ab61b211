---------------------------- MODULE CSILifecycle ----------------------------
(***************************************************************************)
(* The life of volumes: the controller service under the provisioner that  *)
(* makes and deletes volumes for claims (storageclass.yaml, provisioner    *)
(* kube-pfs.csi.dev, reclaimPolicy Delete), and the node service under the *)
(* kubelet that uses them in between.                                      *)
(*                                                                         *)
(* The provisioner is not part of the repository.  It repeats a call until *)
(* it hears OK; a call it gives up on may still be carried out, at any     *)
(* later time, and the controller may be restarted between any two calls.  *)
(* A claim, like the persistent volumes of Kubernetes, has a name of its   *)
(* own that is not used again.                                             *)
(***************************************************************************)
EXTENDS CSIKubelet, CSIController

CONSTANTS
    Claims,    \* the claims of a behaviour
    NameOf,    \* the name a claim's volume is asked for under
    BytesOf,   \* the bytes required, 0 for none
    PathOf     \* the staging path that the kubelet derives from the volume id

\* sanitizeName must keep the names of claims apart, as it keeps the names that
\* Kubernetes makes up: lower-case letters, digits and dashes.
ASSUME ClaimsAssumption ==
    /\ NameOf \in [Claims -> Seq(STRING)] /\ BytesOf \in [Claims -> Nat]
    /\ PathOf \in [Claims -> Stagings \cup {NoPath}]
    /\ \A p, q \in Claims : p # q => /\ sanitizeName(NameOf[p]) # sanitizeName(NameOf[q])
                                     /\ PathOf[p] # PathOf[q]

VARIABLES
    phase,    \* how far the provisioner is with each claim
    late,     \* calls the provisioner has given up on, not carried out yet
    told,     \* history: the volumes CreateVolume has answered for each claim
    relapsed  \* history: claims whose CreateVolume ran again after a DeleteVolume

provisioning == <<phase, late, told, relapsed, volumes>>
node         == <<vars, belief>>

LInit ==
    /\ KInit
    /\ volumes = NoVolumes
    /\ phase = [p \in Claims |-> "none"]
    /\ late = {}
    /\ told = [p \in Claims |-> {}]
    /\ relapsed = {}

-----------------------------------------------------------------------------
(* The provisioner.                                                        *)

\* CreateVolume runs for a claim.
Creates(p) ==
    LET a == CreateVolumeAnswer(NameOf[p], BytesOf[p])
    IN  /\ CreateVolume(NameOf[p], BytesOf[p])
        /\ told' = IF a.code = "OK" THEN [told EXCEPT ![p] = @ \cup {a}] ELSE told
        /\ relapsed' = IF phase[p] \in {"deleting", "gone"} THEN relapsed \cup {p}
                       ELSE relapsed

\* The volume the claim was bound to; answers agree (AnswersAgree).
Bound(p) == (CHOOSE a \in told[p] : TRUE).id

Provision(p) ==
    /\ phase[p] = "none"
    /\ phase' = [phase EXCEPT ![p] = "creating"]
    /\ UNCHANGED <<late, told, relapsed, volumes, node>>

\* CreateVolume is carried out, and its answer is heard or lost.
Create(p) ==
    /\ phase[p] = "creating"
    /\ Creates(p)
    /\ \/ /\ CreateVolumeAnswer(NameOf[p], BytesOf[p]).code = "OK"
          /\ phase' = [phase EXCEPT ![p] = "bound"]
       \/ UNCHANGED phase
    /\ UNCHANGED <<late, node>>

\* A claim is given up when nothing of its volume is in use on the node.
Release(p) ==
    /\ phase[p] = "bound"
    /\ PathOf[p] \in Stagings =>
           /\ belief[PathOf[p]] = "out" /\ ~Busy(PathOf[p])
           /\ \A t \in TargetsOf(PathOf[p]) : belief[t] = "out" /\ ~Busy(t)
    /\ phase' = [phase EXCEPT ![p] = "deleting"]
    /\ UNCHANGED <<late, told, relapsed, volumes, node>>

\* DeleteVolume is carried out, and its answer is heard or lost.
Delete(p) ==
    /\ phase[p] = "deleting"
    /\ DeleteVolume(Bound(p))
    /\ relapsed' = relapsed \ {p}
    /\ phase' \in {phase, [phase EXCEPT ![p] = "gone"]}
    /\ UNCHANGED <<late, told, node>>

\* A call takes too long; the provisioner asks again.
GiveUp(p) ==
    /\ phase[p] \in {"creating", "deleting"}
    /\ late' = late \cup {<<phase[p], p>>}
    /\ UNCHANGED <<phase, told, relapsed, volumes, node>>

\* A call that was given up on is carried out after all.
RunLate(p) ==
    /\ \/ /\ <<"creating", p>> \in late
          /\ Creates(p) /\ late' = late \ {<<"creating", p>>}
       \/ /\ <<"deleting", p>> \in late
          /\ DeleteVolume(Bound(p)) /\ late' = late \ {<<"deleting", p>>}
          /\ relapsed' = relapsed \ {p} /\ UNCHANGED told
    /\ UNCHANGED <<phase, node>>

\* The kubelet uses the volumes of bound claims.
Use(c) ==
    \E r \in Requests, p \in Claims :
        /\ phase[p] = "bound"
        /\ PathOf[p] = IF OnTarget(r) THEN StagingOf[r.target] ELSE r.staging
        /\ Ask(c, r)
        /\ UNCHANGED provisioning

LNext ==
    \/ \E p \in Claims : \/ Provision(p) \/ Create(p) \/ Release(p) \/ Delete(p)
                         \/ GiveUp(p) \/ RunLate(p)
    \/ RestartController /\ UNCHANGED <<phase, late, told, relapsed, node>>
    \/ \E c \in Calls : Use(c)
    \/ NodeStep /\ UNCHANGED provisioning

LSpec == LInit /\ [][LNext]_<<node, provisioning>>

-----------------------------------------------------------------------------
(* Properties.                                                             *)

\* However often a claim's CreateVolume is repeated, given up on or carried out
\* late, and however often the controller forgets its table in between: every
\* answer names the same volume with the same capacity, at least what the claim
\* requires, and a volume of no other claim.
AnswersAgree ==
    /\ \A p \in Claims : \A a, b \in told[p] : a = b /\ a.capacity >= BytesOf[p]
    /\ \A p, q \in Claims : p # q => \A a \in told[p], b \in told[q] : a.id # b.id

\* The table holds volumes of claims that have not been deleted, and no others:
\* a volume outlives its DeleteVolume only when a CreateVolume that the
\* provisioner had given up on is carried out after it.
VolumesAreClaimed ==
    \A v \in DOMAIN volumes :
        \E p \in Claims :
            /\ \E a \in told[p] : a.id = v /\ a.capacity = volumes[v]
            /\ phase[p] # "gone" \/ p \in relapsed

\* A volume that has been deleted has left nothing on the node.
DeletedLeavesNothing ==
    \A p \in Claims : phase[p] = "gone" =>
        /\ PathOf[p] \notin staged
        /\ \A t \in TargetsOf(PathOf[p]) : t \notin targets
=============================================================================
