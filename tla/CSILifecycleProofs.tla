------------------------- MODULE CSILifecycleProofs -------------------------
(***************************************************************************)
(* Proofs about CSILifecycle: what the controller answers and keeps, for   *)
(* every set of claims and every pattern of repeated, abandoned and late   *)
(* calls and restarts; and, when removals do not fail, that the kubelet's  *)
(* order keeps the files of the node in step with what it believes.        *)
(***************************************************************************)
EXTENDS CSILifecycle, CSINodeProofs

-----------------------------------------------------------------------------
(* The provisioner and the controller.                                     *)

\* The volume of a claim: what CreateVolume answers for it, whenever it runs.
Capacity(p) == IF BytesOf[p] > 0 THEN BytesOf[p] ELSE DefaultCapacity
VolumeOf(p) == Answered(VolumeId(NameOf[p]), Capacity(p))

Phases == {"none", "creating", "bound", "deleting", "gone"}

ToldOK(p) ==
    /\ told[p] \subseteq {VolumeOf(p)}
    /\ phase[p] \in {"bound", "deleting", "gone"} => told[p] # {}
    /\ <<"deleting", p>> \in late => told[p] # {}

\* A volume in the table is the volume of a claim that was told of it, and that
\* is not gone, or whose CreateVolume has run since.
RowOK(v) ==
    \E p \in Claims : /\ VolumeOf(p) \in told[p]
                      /\ VolumeOf(p) = Answered(v, volumes[v])
                      /\ phase[p] # "gone" \/ p \in relapsed

ProvInv ==
    /\ phase \in [Claims -> Phases]
    /\ told \in [Claims -> SUBSET {VolumeOf(p) : p \in Claims}]
    /\ \A p \in Claims : ToldOK(p)
    /\ \A v \in DOMAIN volumes : RowOK(v)

\* The fields of an answer determine it.
LEMMA AnswerFields ==
    ASSUME NEW v, NEW b
    PROVE  /\ Answered(v, b).id = v /\ Answered(v, b).capacity = b
           /\ Answered(v, b).code = "OK" /\ Refused.code # "OK"
           /\ \A w, d : Answered(v, b) = Answered(w, d) <=> v = w /\ b = d
<1>1. ASSUME NEW w, NEW d, Answered(v, b) = Answered(w, d) PROVE v = w /\ b = d
  <2>1. Answered(v, b).id = Answered(w, d).id
        /\ Answered(v, b).capacity = Answered(w, d).capacity
    BY <1>1
  <2>2. QED
    BY <2>1 DEF Answered
<1>2. QED
  BY <1>1 DEF Answered, Refused

\* No two claims have the same volume.
LEMMA VolumesApart ==
    ASSUME NEW p \in Claims, NEW q \in Claims, p # q
    PROVE  VolumeOf(p).id # VolumeOf(q).id /\ VolumeOf(p) # VolumeOf(q)
<1>1. VolumeId(NameOf[p]) # VolumeId(NameOf[q])
  BY ClaimsAssumption DEF VolumeId
<1>2. QED
  BY <1>1, AnswerFields DEF VolumeOf

\* Whatever the table holds, CreateVolume refuses a claim or answers its volume
\* (service.go:60-88).
LEMMA CreateAnswersTheVolume ==
    ASSUME ProvInv, NEW p \in Claims,
           CreateVolumeAnswer(NameOf[p], BytesOf[p]).code = "OK"
    PROVE  CreateVolumeAnswer(NameOf[p], BytesOf[p]) = VolumeOf(p)
<1> DEFINE v == VolumeId(NameOf[p])
<1>1. CreateVolumeAnswer(NameOf[p], BytesOf[p]) = Answered(v, CapacityOf(v, BytesOf[p]))
  BY AnswerFields DEF CreateVolumeAnswer
<1>2. CapacityOf(v, BytesOf[p]) = Capacity(p)
  <2>1. CASE v \in DOMAIN volumes
    <3>1. PICK q \in Claims : VolumeOf(q) = Answered(v, volumes[v])
      BY <2>1 DEF ProvInv, RowOK
    <3>2. VolumeOf(q).id = v /\ VolumeOf(p).id = v
      BY <3>1, AnswerFields DEF VolumeOf
    <3>3. q = p
      BY <3>2, VolumesApart
    <3>4. volumes[v] = Capacity(p)
      BY <3>1, <3>3, AnswerFields DEF VolumeOf
    <3>5. QED
      BY <2>1, <3>4 DEF CapacityOf
  <2>2. CASE v \notin DOMAIN volumes
    BY <2>2 DEF CapacityOf, Capacity
  <2>3. QED
    BY <2>1, <2>2
<1>3. QED
  BY <1>1, <1>2 DEF VolumeOf

LEMMA InitProvInv == LInit => ProvInv
<1> SUFFICES ASSUME LInit PROVE ProvInv
  OBVIOUS
<1>1. DOMAIN volumes = {}
  BY DEF LInit, NoVolumes
<1>2. QED
  BY <1>1 DEF LInit, ProvInv, Phases, ToldOK

\* CreateVolume, run for a claim that is not forgotten by its phase.
LEMMA CreatesKeeps ==
    ASSUME ProvInv, NEW p \in Claims, Creates(p),
           phase' = phase \/ (/\ phase' = [phase EXCEPT ![p] = "bound"]
                              /\ CreateVolumeAnswer(NameOf[p], BytesOf[p]).code = "OK"),
           late' \subseteq late
    PROVE  ProvInv'
<1> DEFINE a == CreateVolumeAnswer(NameOf[p], BytesOf[p])
<1>phase. /\ phase' \in [Claims -> Phases]
          /\ \A q \in Claims : /\ q # p => phase'[q] = phase[q]
                               /\ a.code # "OK" => phase'[q] = phase[q]
                               /\ phase'[q] = "gone" => phase[q] = "gone"
  BY DEF ProvInv, Phases
<1>relapsed. /\ relapsed \subseteq relapsed'
             /\ phase[p] = "gone" => p \in relapsed'
  BY DEF Creates
<1>old. ASSUME NEW q \in Claims, phase[q] # "gone" \/ q \in relapsed
        PROVE  phase'[q] # "gone" \/ q \in relapsed'
  BY <1>old, <1>phase, <1>relapsed
<1>1. CASE a.code # "OK"
  <2>1. UNCHANGED <<volumes, told>>
    BY <1>1 DEF Creates, CreateVolume
  <2>2. \A q \in Claims : ToldOK(q)'
    BY <1>1, <2>1, <1>phase DEF ProvInv, ToldOK, VolumeOf, Capacity, VolumeId, Answered
  <2>3. ASSUME NEW v \in DOMAIN volumes PROVE RowOK(v)'
    BY <2>1, <1>old DEF ProvInv, RowOK, VolumeOf, Capacity, VolumeId, Answered
  <2>4. told' \in [Claims -> SUBSET {VolumeOf(q) : q \in Claims}]
    BY <2>1 DEF ProvInv
  <2>5. QED
    BY <2>1, <2>2, <2>3, <2>4, <1>phase DEF ProvInv, VolumeOf, Capacity, VolumeId, Answered
<1>2. CASE a.code = "OK"
  <2>1. a = VolumeOf(p)
    BY <1>2, CreateAnswersTheVolume
  <2>2. told' = [told EXCEPT ![p] = @ \cup {VolumeOf(p)}]
    BY <1>2, <2>1 DEF Creates
  <2>3. told' \in [Claims -> SUBSET {VolumeOf(q) : q \in Claims}]
    BY <2>2 DEF ProvInv
  <2>4. ASSUME NEW q \in Claims
        PROVE  told'[q] = IF q = p THEN told[q] \cup {VolumeOf(p)} ELSE told[q]
    BY <2>2 DEF ProvInv
  <2>5. ASSUME NEW q \in Claims PROVE ToldOK(q)'
    <3>1. CASE q = p
      BY <2>4, <3>1 DEF ProvInv, ToldOK, VolumeOf, Capacity, VolumeId, Answered
    <3>2. CASE q # p
      BY <2>4, <3>2, <1>phase DEF ProvInv, ToldOK, VolumeOf, Capacity, VolumeId, Answered
    <3>3. QED
      BY <3>1, <3>2
  <2>6. ASSUME NEW v \in DOMAIN volumes' PROVE RowOK(v)'
    <3>1. /\ DOMAIN volumes' = DOMAIN volumes \cup {a.id}
          /\ volumes'[v] = IF v = a.id THEN a.capacity ELSE volumes[v]
      BY <1>2 DEF Creates, CreateVolume
    <3>2. CASE v = a.id
      <4>1. VolumeOf(p) = Answered(v, volumes'[v])
        BY <2>1, <3>1, <3>2, AnswerFields DEF VolumeOf
      <4>2. VolumeOf(p) \in told'[p]
        BY <2>4
      <4>3. phase'[p] # "gone" \/ p \in relapsed'
        BY <1>phase, <1>relapsed
      <4>4. QED
        BY <4>1, <4>2, <4>3 DEF RowOK, VolumeOf, Capacity, VolumeId, Answered
    <3>3. CASE v # a.id
      <4>1. PICK q \in Claims : /\ VolumeOf(q) \in told[q]
                                /\ VolumeOf(q) = Answered(v, volumes[v])
                                /\ phase[q] # "gone" \/ q \in relapsed
        BY <3>1, <3>3 DEF ProvInv, RowOK
      <4>2. VolumeOf(q) \in told'[q] /\ VolumeOf(q) = Answered(v, volumes'[v])
        BY <4>1, <2>4, <3>1, <3>3
      <4>3. phase'[q] # "gone" \/ q \in relapsed'
        BY <4>1, <1>old
      <4>4. QED
        BY <4>2, <4>3 DEF RowOK, VolumeOf, Capacity, VolumeId, Answered
    <3>4. QED
      BY <3>2, <3>3
  <2>7. QED
    BY <2>3, <2>5, <2>6, <1>phase DEF ProvInv, VolumeOf, Capacity, VolumeId, Answered
<1>3. QED
  BY <1>1, <1>2

\* DeleteVolume, run for a claim that was told of its volume: only that volume
\* goes, and with it the reason to call the claim relapsed.
LEMMA DeletesKeeps ==
    ASSUME ProvInv, NEW p \in Claims, told[p] # {}, DeleteVolume(Bound(p)),
           relapsed' = relapsed \ {p}, told' = told, late' \subseteq late,
           \/ phase' = phase
           \/ phase[p] = "deleting" /\ phase' = [phase EXCEPT ![p] = "gone"]
    PROVE  ProvInv'
<1>1. Bound(p) = VolumeOf(p).id
  <2>1. told[p] \subseteq {VolumeOf(p)}
    BY DEF ProvInv, ToldOK
  <2>2. (CHOOSE a \in told[p] : TRUE) \in told[p]
    OBVIOUS
  <2>3. QED
    BY <2>1, <2>2 DEF Bound
<1>2. /\ phase' \in [Claims -> Phases]
      /\ \A q \in Claims : /\ q # p => phase'[q] = phase[q]
                           /\ phase'[q] # phase[q] => phase[q] = "deleting"
  BY DEF ProvInv, Phases
<1>3. ASSUME NEW q \in Claims PROVE ToldOK(q)'
  BY <1>2 DEF ProvInv, ToldOK, VolumeOf, Capacity, VolumeId, Answered
<1>4. ASSUME NEW v \in DOMAIN volumes' PROVE RowOK(v)'
  <2>1. v \in DOMAIN volumes /\ v # VolumeOf(p).id /\ volumes'[v] = volumes[v]
    BY <1>1 DEF DeleteVolume
  <2>2. PICK q \in Claims : /\ VolumeOf(q) \in told[q]
                            /\ VolumeOf(q) = Answered(v, volumes[v])
                            /\ phase[q] # "gone" \/ q \in relapsed
    BY <2>1 DEF ProvInv, RowOK
  <2>3. q # p
    BY <2>1, <2>2, AnswerFields
  <2>4. phase'[q] # "gone" \/ q \in relapsed'
    BY <2>2, <2>3, <1>2
  <2>5. QED
    BY <2>1, <2>2, <2>4 DEF RowOK, VolumeOf, Capacity, VolumeId, Answered
<1>5. QED
  BY <1>2, <1>3, <1>4 DEF ProvInv, VolumeOf, Capacity, VolumeId, Answered

LEMMA NextProvInv == ProvInv /\ [LNext]_<<node, provisioning>> => ProvInv'
<1> SUFFICES ASSUME ProvInv, [LNext]_<<node, provisioning>> PROVE ProvInv'
  OBVIOUS
<1>same. ASSUME phase' \in [Claims -> Phases], UNCHANGED <<told, relapsed, volumes>>,
                \A p \in Claims : phase'[p] \in {"bound", "deleting", "gone"}
                                     => phase[p] \in {"bound", "deleting", "gone"},
                \A p \in Claims : phase'[p] = "gone" => phase[p] = "gone",
                \A p \in Claims : <<"deleting", p>> \in late' =>
                    <<"deleting", p>> \in late \/ phase[p] = "deleting"
         PROVE  ProvInv'
  <2>1. ASSUME NEW p \in Claims PROVE ToldOK(p)'
    BY <1>same, <2>1 DEF ProvInv, ToldOK, VolumeOf, Capacity, VolumeId, Answered
  <2>2. ASSUME NEW v \in DOMAIN volumes' PROVE RowOK(v)'
    BY <1>same, <2>2 DEF ProvInv, RowOK, VolumeOf, Capacity, VolumeId, Answered
  <2>3. QED
    BY <1>same, <2>1, <2>2 DEF ProvInv, VolumeOf, Capacity, VolumeId, Answered
<1>types. phase \in [Claims -> Phases]
  BY DEF ProvInv
<1>1. ASSUME NEW p \in Claims, Provision(p) PROVE ProvInv'
  <2>1. phase' \in [Claims -> Phases]
    BY <1>1, <1>types DEF Provision, Phases
  <2>2. QED
    BY <1>1, <2>1, <1>types, <1>same DEF Provision
<1>2. ASSUME NEW p \in Claims, Create(p) PROVE ProvInv'
  BY <1>2, CreatesKeeps DEF Create
<1>3. ASSUME NEW p \in Claims, Release(p) PROVE ProvInv'
  <2>1. phase' \in [Claims -> Phases]
    BY <1>3, <1>types DEF Release, Phases
  <2>2. QED
    BY <1>3, <2>1, <1>types, <1>same DEF Release
<1>4. ASSUME NEW p \in Claims, Delete(p) PROVE ProvInv'
  <2>1. told[p] # {}
    BY <1>4 DEF Delete, ProvInv, ToldOK
  <2>2. QED
    BY <1>4, <2>1, DeletesKeeps DEF Delete
<1>5. ASSUME NEW p \in Claims, GiveUp(p) PROVE ProvInv'
  BY <1>5, <1>types, <1>same DEF GiveUp
<1>6. ASSUME NEW p \in Claims, RunLate(p) PROVE ProvInv'
  <2>1. CASE Creates(p) /\ late' = late \ {<<"creating", p>>}
    BY <1>6, <2>1, CreatesKeeps DEF RunLate
  <2>2. CASE /\ <<"deleting", p>> \in late
             /\ DeleteVolume(Bound(p)) /\ late' = late \ {<<"deleting", p>>}
             /\ relapsed' = relapsed \ {p} /\ UNCHANGED told
    <3>1. told[p] # {}
      BY <2>2 DEF ProvInv, ToldOK
    <3>2. QED
      BY <1>6, <2>2, <3>1, DeletesKeeps DEF RunLate
  <2>3. QED
    BY <1>6, <2>1, <2>2 DEF RunLate
<1>7. CASE RestartController /\ UNCHANGED <<phase, late, told, relapsed, node>>
  <2>1. DOMAIN volumes' = {}
    BY <1>7 DEF RestartController, NoVolumes
  <2>2. ASSUME NEW p \in Claims PROVE ToldOK(p)'
    BY <1>7, <2>2 DEF ProvInv, ToldOK, VolumeOf, Capacity, VolumeId, Answered
  <2>3. QED
    BY <1>7, <2>1, <2>2 DEF ProvInv, VolumeOf, Capacity, VolumeId, Answered
<1>8. CASE UNCHANGED provisioning
  <2>1. UNCHANGED <<phase, late, told, relapsed, volumes>>
    BY <1>8 DEF provisioning
  <2>2. QED
    BY <2>1, <1>types, <1>same
<1>9. ASSUME NEW c \in Calls, Use(c) PROVE ProvInv'
  BY <1>8, <1>9 DEF Use
<1>10. CASE UNCHANGED <<node, provisioning>>
  BY <1>8, <1>10
<1>11. QED
  BY <1>1, <1>2, <1>3, <1>4, <1>5, <1>6, <1>7, <1>8, <1>9, <1>10 DEF LNext

LEMMA ProvInvariant == LSpec => []ProvInv
  BY InitProvInv, NextProvInv, PTL DEF LSpec

\* A claim hears of one volume with one capacity, at least what it requires,
\* that is no other claim's: for every set of claims with names that stay
\* apart, whatever is repeated, given up on, carried out late or forgotten.
THEOREM AnswersNeverDiffer == LSpec => []AnswersAgree
<1>1. ProvInv => AnswersAgree
  <2> SUFFICES ASSUME ProvInv PROVE AnswersAgree
    OBVIOUS
  <2>1. ASSUME NEW p \in Claims PROVE told[p] \subseteq {VolumeOf(p)}
    BY <2>1 DEF ProvInv, ToldOK
  <2>2. ASSUME NEW p \in Claims PROVE VolumeOf(p).capacity >= BytesOf[p]
    <3>1. BytesOf[p] \in Nat /\ DefaultCapacity \in Nat
      BY ClaimsAssumption, DefaultAssumption
    <3>2. Capacity(p) >= BytesOf[p]
      BY <3>1 DEF Capacity
    <3>3. QED
      BY <3>2, AnswerFields DEF VolumeOf
  <2>3. ASSUME NEW p \in Claims, NEW a \in told[p], NEW b \in told[p]
        PROVE  a = b /\ a.capacity >= BytesOf[p]
    BY <2>1, <2>2
  <2>4. ASSUME NEW p \in Claims, NEW q \in Claims, p # q, NEW a \in told[p], NEW b \in told[q]
        PROVE  a.id # b.id
    BY <2>1, <2>4, VolumesApart
  <2>5. QED
    BY <2>3, <2>4 DEF AnswersAgree
<1>2. QED
  BY <1>1, ProvInvariant, PTL

\* The table of the controller holds no volume that is not a claim's, and none
\* of a claim that is gone unless a CreateVolume given up on came after its
\* DeleteVolume.
THEOREM TableHoldsClaims == LSpec => []VolumesAreClaimed
<1>1. ProvInv => VolumesAreClaimed
  <2> SUFFICES ASSUME ProvInv, NEW v \in DOMAIN volumes
               PROVE  \E p \in Claims :
                          /\ \E a \in told[p] : a.id = v /\ a.capacity = volumes[v]
                          /\ phase[p] # "gone" \/ p \in relapsed
    BY DEF VolumesAreClaimed
  <2>1. PICK p \in Claims : /\ VolumeOf(p) \in told[p]
                            /\ VolumeOf(p) = Answered(v, volumes[v])
                            /\ phase[p] # "gone" \/ p \in relapsed
    BY DEF ProvInv, RowOK
  <2>2. VolumeOf(p).id = v /\ VolumeOf(p).capacity = volumes[v]
    BY <2>1, AnswerFields
  <2>3. QED
    BY <2>1, <2>2
<1>2. QED
  BY <1>1, ProvInvariant, PTL

-----------------------------------------------------------------------------
(* The kubelet and the node service.                                       *)

\* A call the kubelet waits for: it is unsure of the path, has made no other
\* call about it, and asks for the volume that the target belongs to.  On a
\* target the call overlaps no other.
AskedOK(c) ==
    InFlight(c) =>
        LET r == calls[c].req
        IN  /\ belief[About(r)] = "unsure"
            /\ \A d \in Calls : InFlight(d) /\ About(calls[d].req) = About(r) => d = c
            /\ calls[c].pc \in StagingPcs => r.op = calls[c].pc
            /\ r.op = "publish" => r.staging = StagingOf[r.target]
            /\ r.target \in Targets => calls[c].alone /\ calls[c].clean

\* What the kubelet believes of a target is what is known of it, and only a
\* staged volume has targets that may not be out.
TargetBelief(t) ==
    /\ belief[t] = "in" => settled[t] = StagingOf[t]
    /\ belief[t] = "out" => settled[t] = Gone
    /\ belief[t] # "out" => belief[StagingOf[t]] = "in"
    /\ marker[t] \in {NoMarker, Blank, Mixed, StagingOf[t]}

StagingBelief(s) ==
    /\ belief[s] = "in" => s \in staged
    /\ belief[s] = "out" => s \notin staged

KubeInv ==
    /\ SettleInv
    /\ belief \in [Paths -> {"in", "out", "unsure"}]
    /\ \A c \in Calls : AskedOK(c)
    /\ \A t \in Targets : TargetBelief(t)
    /\ \A s \in Stagings : StagingBelief(s)

\* The steps of the kubelet and of the node service.
KubeStep ==
    \/ \E c \in Calls, r \in Requests : Ask(c, r)
    \/ NodeStep
    \/ UNCHANGED node

LEMMA StepsOfTheNode ==
    [LNext]_<<node, provisioning>> => KubeStep
<1>1. ASSUME NEW p \in Claims,
             Provision(p) \/ Create(p) \/ Release(p) \/ Delete(p) \/ GiveUp(p) \/ RunLate(p)
      PROVE  UNCHANGED node
  BY <1>1 DEF Provision, Create, Release, Delete, GiveUp, RunLate
<1>2. ASSUME NEW c \in Calls, Use(c) PROVE \E r \in Requests : Ask(c, r)
  BY <1>2 DEF Use
<1>3. QED
  BY <1>1, <1>2 DEF LNext, KubeStep

LEMMA KubeStepsAreSteps == KubeStep => [Next]_vars
<1>1. ASSUME NEW c \in Calls, NEW r \in Requests, Ask(c, r) PROVE Next
  BY <1>1 DEF Ask, Next
<1>2. CASE NodeStep
  BY <1>2 DEF NodeStep, Next
<1>3. QED
  BY <1>1, <1>2 DEF KubeStep, node

LEMMA InitKubeInv == LInit => KubeInv
<1> SUFFICES ASSUME LInit PROVE KubeInv
  OBVIOUS
<1> USE DEF LInit, KInit
<1>1. SettleInv
  BY InitSettleInv
<1>2. \A c \in Calls : AskedOK(c)
  BY DEF Init, Free, InFlight, AskedOK
<1>3. \A t \in Targets : TargetBelief(t)
  BY DEF Init, TargetBelief, Paths
<1>4. \A s \in Stagings : StagingBelief(s)
  BY DEF Init, StagingBelief, Paths
<1>5. QED
  BY <1>1, <1>2, <1>3, <1>4 DEF KubeInv

\* What a call is about: its target if it has one, its staging path if not.
LEMMA WhatItIsAbout ==
    ASSUME TInv, NEW c \in Calls, InFlight(c)
    PROVE  LET r == calls[c].req
           IN  \/ /\ calls[c].pc \in StagingPcs /\ r.staging \in Stagings
                  /\ r.target = NoPath /\ r.target \notin Targets
                  /\ ~OnTarget(r) /\ About(r) = r.staging
               \/ /\ calls[c].pc \in PublishPcs \cup UnpublishPcs /\ r.target \in Targets
                  /\ calls[c].pc \in PublishPcs => r.op = "publish"
                  /\ calls[c].pc \in UnpublishPcs => r.op = "unpublish"
                  /\ OnTarget(r) /\ About(r) = r.target
<1>1. CallOK(c) /\ calls[c].pc \in Pcs
  BY DEF TInv, TypeOK, CallsOK
<1>2. CASE calls[c].pc \in StagingPcs
  BY <1>1, <1>2, PathsAssumption DEF CallOK, OnTarget, About, StagingPcs
<1>3. CASE calls[c].pc \in PublishPcs
  BY <1>1, <1>3 DEF CallOK, OnTarget, About
<1>4. CASE calls[c].pc \in UnpublishPcs
  BY <1>1, <1>4 DEF CallOK, OnTarget, About, PublishPcs, UnpublishPcs
<1>5. QED
  BY <1>1, <1>2, <1>3, <1>4 DEF InFlight, Pcs, StagingPcs, PublishPcs, UnpublishPcs

\* A call that the kubelet waits for changes nothing of the others.
LEMMA OthersStand ==
    ASSUME KubeInv, NEW c \in Calls, Handle(c)
    PROVE  \A x \in Calls \ {c} : calls'[x] = calls[x]
<1> DEFINE tc == calls[c].req.target
<1>1. TInv /\ InFlight(c) /\ AskedOK(c)
  BY HandleIsLocal DEF KubeInv, SettleInv
<1>2. CASE tc \in Targets
  <2>1. LoneOK(c, tc) /\ c \in Rivals(tc) /\ calls[c].alone
    BY <1>1, <1>2 DEF KubeInv, SettleInv, Rivals, AskedOK
  <2>2. Rivals(tc) = {c}
    BY <2>1 DEF LoneOK
  <2>3. QED
    BY <1>1, <2>2, HandleIsLocal
<1>3. CASE calls[c].pc \in StagingPcs
  <2>1. \E code : Answer(c, code)
    BY <1>3 DEF Handle, Stage, Unstage, MakeTarget, MakeTargetRaced, OpenMarker,
          OpenMarkerMissing, WriteMarker, Fail, Unmark, Rmdir, RmdirMissing, RmdirNotEmpty,
          List, Unlink, RemoveFails, AnswerUnpublish, End, At, StagingPcs
  <2>2. calls \in [Calls -> CallRecord]
    BY <1>1 DEF TInv, TypeOK, CallRecord
  <2>3. QED
    BY <2>1, <2>2 DEF Answer
<1>4. QED
  BY <1>1, <1>2, <1>3, WhatItIsAbout

\* How a step of a handler ends, when removals do not fail: it says nothing
\* yet or an error, or it answers OK and has done what it was asked.
LEMMA HandleOutcome ==
    ASSUME ~RemoveMayFail, KubeInv, NEW c \in Calls, Handle(c)
    PROVE  LET r == calls[c].req
           IN  /\ \/ /\ UNCHANGED <<staged, settled>>
                     /\ ~(calls'[c].pc = "done" /\ calls'[c].code = "OK")
                  \/ /\ Answer(c, "OK") /\ calls[c].pc = "stage"
                     /\ staged' = staged \cup {r.staging}
                  \/ /\ Answer(c, "OK") /\ calls[c].pc = "unstage"
                     /\ staged' = staged \ {r.staging}
                  \/ /\ Answer(c, "OK") /\ calls[c].pc \in {"writing", "answer"}
                     /\ UNCHANGED staged
               /\ calls'[c].pc \notin StagingPcs
               /\ InFlight(c)' => calls'[c].clean = calls[c].clean
               /\ \A t \in Targets :
                      \/ marker'[t] = marker[t] \/ marker'[t] \in {NoMarker, Blank, Mixed}
                      \/ t = r.target /\ r.op = "publish" /\ marker'[t] = r.staging
<1> DEFINE r == calls[c].req
           Ends == \/ /\ UNCHANGED <<staged, settled>>
                      /\ ~(calls'[c].pc = "done" /\ calls'[c].code = "OK")
                   \/ /\ Answer(c, "OK") /\ calls[c].pc = "stage"
                      /\ staged' = staged \cup {r.staging}
                   \/ /\ Answer(c, "OK") /\ calls[c].pc = "unstage"
                      /\ staged' = staged \ {r.staging}
                   \/ /\ Answer(c, "OK") /\ calls[c].pc \in {"writing", "answer"}
                      /\ UNCHANGED staged
           Goes == /\ calls'[c].pc \notin StagingPcs
                   /\ InFlight(c)' => calls'[c].clean = calls[c].clean
           Marks == \A t \in Targets :
                      \/ marker'[t] = marker[t] \/ marker'[t] \in {NoMarker, Blank, Mixed}
                      \/ t = r.target /\ r.op = "publish" /\ marker'[t] = r.staging
<1>types. /\ calls \in [Calls -> CallRecord]
          /\ marker \in [Targets -> {NoMarker, Blank, Mixed} \cup Stagings]
          /\ settled \in [Targets -> Stagings \cup {Gone, Unsettled}]
          /\ CallOK(c)
  BY DEF KubeInv, SettleInv, TInv, TypeOK, CallRecord, CallsOK
<1>answer. ASSUME NEW code, Answer(c, code)
           PROVE  /\ calls'[c].pc = "done" /\ calls'[c].code = code /\ Goes
                  /\ code # "OK" => settled' = settled
  BY <1>answer, <1>types DEF Answer, Free, InFlight, StagingPcs
<1>goto. ASSUME NEW pc \in PublishPcs \cup UnpublishPcs, Goto(c, pc)
         PROVE  calls'[c].pc # "done" /\ Goes /\ settled' = settled
  <2>1. /\ calls'[c].pc = pc /\ calls'[c].clean = calls[c].clean
        /\ settled' = settled
    BY <1>goto, <1>types DEF Goto, history, CallRecord
  <2>2. QED
    BY <2>1 DEF PublishPcs, UnpublishPcs, StagingPcs
<1>same. ASSUME UNCHANGED marker PROVE Marks
  BY <1>same
<1>1. CASE Stage(c)
  BY <1>1, <1>answer, <1>same DEF Stage, End, At
<1>2. CASE Unstage(c)
  BY <1>2, <1>answer, <1>same DEF Unstage, End, At
<1>3. CASE MakeTarget(c)
  BY <1>3, <1>goto, <1>same DEF MakeTarget, PublishPcs
<1>4. CASE MakeTargetRaced(c) \/ OpenMarkerMissing(c)
  BY <1>4, <1>answer, <1>same DEF MakeTargetRaced, OpenMarkerMissing, End, files
<1>5. CASE OpenMarker(c)
  <2>1. /\ calls'[c].pc = "writing" /\ calls'[c].clean = calls[c].clean
        /\ settled' = settled /\ staged' = staged
    BY <1>5, <1>types DEF OpenMarker, history, CallRecord
  <2>2. Marks
    BY <1>5, <1>types DEF OpenMarker, Opened
  <2>3. QED
    BY <2>1, <2>2 DEF StagingPcs
<1>6. CASE WriteMarker(c)
  <2>1. Answer(c, "OK") /\ calls[c].pc = "writing" /\ UNCHANGED staged
    BY <1>6 DEF WriteMarker, End, At
  <2>2. r.op = "publish" /\ r.target \in Targets
    BY <2>1, <1>types DEF CallOK, PublishPcs
  <2>3. Marks
    BY <1>6, <2>2, <1>types DEF WriteMarker, Written
  <2>4. QED
    BY <2>1, <2>3, <1>answer
<1>7. CASE Fail(c)
  <2>1. Answer(c, "Internal") /\ UNCHANGED staged
    BY <1>7 DEF Fail
  <2>2. Marks
    <3>1. CASE UNCHANGED marker
      BY <3>1
    <3>2. CASE /\ calls[c].pc = "writing"
               /\ \E v \in {Mixed, r.staging} : marker' = [marker EXCEPT ![r.target] = v]
      <4>1. r.op = "publish" /\ r.target \in Targets
        BY <3>2, <1>types DEF CallOK, PublishPcs
      <4>2. QED
        BY <3>2, <4>1, <1>types
    <3>3. QED
      BY <1>7, <3>1, <3>2 DEF Fail
  <2>3. QED
    BY <2>1, <2>2, <1>answer
<1>8. CASE Unmark(c) \/ Unlink(c)
  <2>1. PICK pc \in {"rmdir", "rmdirLast"} : UnlinkMarker(c, pc)
    BY <1>8 DEF Unmark, Unlink, AfterUnmark
  <2>2. /\ calls'[c].pc = pc /\ calls'[c].clean = calls[c].clean
        /\ settled' = settled /\ staged' = staged
    BY <2>1, <1>types DEF UnlinkMarker, history, CallRecord
  <2>3. Marks
    BY <2>1, <1>types DEF UnlinkMarker
  <2>4. QED
    BY <2>2, <2>3 DEF StagingPcs
<1>9. CASE Rmdir(c)
  <2>1. /\ calls'[c].pc = "answer" /\ calls'[c].clean = calls[c].clean
        /\ settled' = settled /\ staged' = staged /\ marker' = marker
    BY <1>9, <1>types DEF Rmdir, history, CallRecord
  <2>2. QED
    BY <2>1, <1>same DEF StagingPcs
<1>10. CASE RmdirMissing(c) \/ RmdirNotEmpty(c) \/ List(c)
  <2>1. UNCHANGED files /\ \E pc \in UnpublishPcs : Goto(c, pc)
    BY <1>10 DEF RmdirMissing, RmdirNotEmpty, List, UnpublishPcs
  <2>2. QED
    BY <2>1, <1>goto, <1>same DEF files
<1>11. CASE AnswerUnpublish(c)
  BY <1>11, <1>answer, <1>same DEF AnswerUnpublish, End, At, files
<1>12. QED
  BY <1>1, <1>2, <1>3, <1>4, <1>5, <1>6, <1>7, <1>8, <1>9, <1>10, <1>11
     DEF Handle, RemoveFails

\* What is known of a target after a call on it is answered OK.
LEMMA AnsweredOnTarget ==
    ASSUME KubeInv, NEW c \in Calls, InFlight(c), Answer(c, "OK"),
           calls[c].req.target \in Targets
    PROVE  settled'[calls[c].req.target] =
               IF calls[c].req.op = "publish" THEN StagingOf[calls[c].req.target] ELSE Gone
<1>1. /\ AskedOK(c) /\ OnTarget(calls[c].req)
      /\ settled \in [Targets -> Stagings \cup {Gone, Unsettled}]
  BY WhatItIsAbout, PathsAssumption DEF KubeInv, SettleInv, TInv, TypeOK
<1>2. QED
  BY <1>1 DEF Answer, AskedOK

\* What is not in doubt stays so as long as the node service goes on alone.
LEMMA BeliefsStand ==
    ASSUME KubeInv, NEW c \in Calls, Handle(c), belief' = Believed(c)
    PROVE  LET r == calls[c].req
           IN  /\ InFlight(c) /\ belief[About(r)] = "unsure" /\ About(r) \in Paths
               /\ \A p \in Paths \ {About(r)} : belief'[p] = belief[p]
               /\ belief'[About(r)] =
                      IF calls'[c].pc = "done" /\ calls'[c].code = "OK"
                      THEN IF r.op \in {"stage", "publish"} THEN "in" ELSE "out"
                      ELSE "unsure"
<1>1. TInv /\ InFlight(c) /\ AskedOK(c)
  BY HandleIsLocal DEF KubeInv, SettleInv
<1>2. belief[About(calls[c].req)] = "unsure" /\ About(calls[c].req) \in Paths
  BY <1>1, WhatItIsAbout DEF AskedOK, Paths
<1>3. belief \in [Paths -> {"in", "out", "unsure"}]
  BY DEF KubeInv
<1>4. QED
  BY <1>1, <1>2, <1>3 DEF Believed

\* A call that is asked in the kubelet's order meets no other on its path.
LEMMA AskKeeps ==
    ASSUME KubeInv, NEW c \in Calls, NEW r \in Requests, Ask(c, r), SettleInv'
    PROVE  KubeInv'
<1> DEFINE a == About(r)
<1>types. /\ belief \in [Paths -> {"in", "out", "unsure"}]
          /\ calls \in [Calls -> CallRecord]
          /\ settled \in [Targets -> Stagings \cup {Gone, Unsettled}]
          /\ TInv
  BY DEF KubeInv, SettleInv, TInv, TypeOK, CallRecord
<1>due. /\ r.op \in {"stage", "publish", "unpublish", "unstage"}
        /\ r.op \in {"stage", "unstage"} =>
               r.target = NoPath /\ r.staging \in Stagings /\ a = r.staging
        /\ r.op \in {"publish", "unpublish"} => r.target \in Targets /\ a = r.target
        /\ r.op = "publish" => r.staging = StagingOf[r.target]
        /\ a \in Paths /\ ~Busy(a)
  <2>1. Due(r)
    BY DEF Ask
  <2>2. r.op \in {"stage", "unstage"} => r.target = NoPath
    BY DEF Requests, Request
  <2>3. QED
    BY <2>1, <2>2, PathsAssumption DEF Due, About, OnTarget, Paths
<1>begin. /\ ~InFlight(c) /\ ~AnsweredAtOnce(r) /\ Begin(c, r)
          /\ belief' = [belief EXCEPT ![a] = "unsure"]
          /\ UNCHANGED <<staged, marker>>
  BY DEF Ask, Begin, files
<1>rivals. r.target \in Targets => Rivals(r.target) = {}
  <2> SUFFICES ASSUME r.target \in Targets, NEW x \in Calls, InFlight(x),
                      calls[x].req.target = r.target
               PROVE  FALSE
    BY DEF Rivals
  <2>1. About(calls[x].req) = r.target
    BY <1>types, WhatItIsAbout
  <2>2. a = r.target
    BY <1>due, PathsAssumption
  <2>3. QED
    BY <2>1, <2>2, <1>due DEF Busy
<1>first. /\ FirstStep(r) \in StagingPcs => r.op = FirstStep(r)
          /\ FirstStep(r) # "done"
  BY <1>due, <1>begin DEF FirstStep, AnsweredAtOnce, StagingPcs
<1>calls. /\ calls'[c].pc = FirstStep(r) /\ calls'[c].req = r /\ calls'[c].clean
          /\ calls'[c].alone = (Rivals(r.target) = {})
          /\ \A x \in Calls \ {c} : calls'[x] = calls[x]
  BY <1>begin, <1>rivals DEF Begin, OnTarget
<1>settled. \A t \in Targets :
              settled'[t] = IF OnTarget(r) /\ t = a THEN Unsettled ELSE settled[t]
  BY <1>begin, <1>types, <1>due DEF Begin, OnTarget
<1>belief. /\ belief' \in [Paths -> {"in", "out", "unsure"}]
           /\ \A p \in Paths : belief'[p] = IF p = a THEN "unsure" ELSE belief[p]
  BY <1>begin, <1>types
<1>1. ASSUME NEW x \in Calls PROVE AskedOK(x)'
  <2> SUFFICES ASSUME InFlight(x)' PROVE AskedOK(x)'
    BY DEF AskedOK
  <2>1. \A d \in Calls \ {c} : (InFlight(d)' <=> InFlight(d)) /\ calls'[d].req = calls[d].req
    BY <1>calls DEF InFlight
  <2>2. \A d \in Calls \ {c} : InFlight(d) => About(calls[d].req) # a
    BY <1>due DEF Busy
  <2>3. CASE x = c
    <3>1. belief'[a] = "unsure"
      BY <1>due, <1>belief
    <3>2. \A d \in Calls : InFlight(d)' /\ About(calls'[d].req) = a => d = c
      BY <2>1, <2>2
    <3>3. r.target \in Targets => calls'[c].alone /\ calls'[c].clean
      BY <1>calls, <1>rivals
    <3>4. /\ calls'[c].pc \in StagingPcs => r.op = calls'[c].pc
          /\ r.op = "publish" => r.staging = StagingOf[r.target]
      BY <1>calls, <1>first, <1>due
    <3>5. QED
      BY <2>3, <3>1, <3>2, <3>3, <3>4, <1>calls DEF AskedOK
  <2>4. CASE x # c
    <3>1. InFlight(x) /\ AskedOK(x) /\ About(calls[x].req) # a
          /\ About(calls[x].req) \in Paths
      BY <2>1, <2>2, <2>4, <1>types, WhatItIsAbout DEF KubeInv, Paths
    <3>2. belief'[About(calls[x].req)] = "unsure"
      BY <3>1, <1>belief DEF AskedOK
    <3>3. \A d \in Calls : InFlight(d)' /\ About(calls'[d].req) = About(calls[x].req) => d = x
      BY <2>1, <3>1, <1>calls DEF AskedOK
    <3>4. QED
      BY <2>4, <3>1, <3>2, <3>3, <1>calls DEF AskedOK
  <2>5. QED
    BY <2>3, <2>4
<1>2. ASSUME NEW t \in Targets PROVE TargetBelief(t)'
  <2>0. StagingOf[t] \in Stagings /\ t \in Paths /\ StagingOf[t] \in Paths /\ t \notin Stagings
    BY StagingOfAssumption DEF Paths
  <2>1. TargetBelief(t)
    BY DEF KubeInv
  <2>2. CASE t = a
    <3>1. r.op \in {"publish", "unpublish"} /\ r.target = t
      BY <2>0, <2>2, <1>due
    <3>2. belief[StagingOf[t]] = "in"
      <4>1. Due(r)
        BY DEF Ask
      <4>2. CASE r.op = "publish"
        BY <3>1, <4>1, <4>2, <1>due DEF Due
      <4>3. CASE r.op = "unpublish"
        BY <3>1, <4>1, <4>3, <2>1 DEF Due, TargetBelief
      <4>4. QED
        BY <3>1, <4>2, <4>3
    <3>3. belief'[StagingOf[t]] = "in" /\ belief'[t] = "unsure"
      BY <2>0, <2>2, <3>2, <1>belief
    <3>4. QED
      BY <2>1, <3>3, <1>begin DEF TargetBelief
  <2>3. CASE t # a
    <3>1. belief'[t] = belief[t] /\ settled'[t] = settled[t] /\ marker'[t] = marker[t]
      BY <2>0, <2>3, <1>belief, <1>settled, <1>begin
    <3>2. belief[t] # "out" => belief'[StagingOf[t]] = "in"
      <4>1. CASE StagingOf[t] = a
        <5>1. r.op \in {"stage", "unstage"} /\ r.staging = a
          BY <2>0, <4>1, <1>due, StagingOfAssumption
        <5>2. Due(r)
          BY DEF Ask
        <5>3. belief[t] = "out"
          <6>1. CASE r.op = "stage"
            BY <2>1, <4>1, <5>1, <5>2, <6>1 DEF Due, TargetBelief
          <6>2. CASE r.op = "unstage"
            BY <4>1, <5>1, <5>2, <6>2 DEF Due, TargetsOf
          <6>3. QED
            BY <5>1, <6>1, <6>2
        <5>4. QED
          BY <5>3
      <4>2. CASE StagingOf[t] # a
        BY <2>0, <2>1, <4>2, <1>belief DEF TargetBelief
      <4>3. QED
        BY <4>1, <4>2
    <3>3. QED
      BY <2>1, <3>1, <3>2 DEF TargetBelief
  <2>4. QED
    BY <2>2, <2>3
<1>3. ASSUME NEW s \in Stagings PROVE StagingBelief(s)'
  <2>1. StagingBelief(s) /\ s \in Paths
    BY DEF KubeInv, Paths
  <2>2. QED
    BY <2>1, <1>belief, <1>begin DEF StagingBelief
<1>4. QED
  BY <1>1, <1>2, <1>3, <1>belief DEF KubeInv

\* A step of a handler, and what the kubelet makes of its answer.
LEMMA HandleKeeps ==
    ASSUME ~RemoveMayFail, KubeInv, NEW c \in Calls, Handle(c), belief' = Believed(c),
           SettleInv'
    PROVE  KubeInv'
<1> DEFINE r == calls[c].req
           a == About(r)
<1>types. /\ belief \in [Paths -> {"in", "out", "unsure"}]
          /\ TInv /\ TInv' /\ AskedOK(c)
  BY DEF KubeInv, SettleInv
<1>others. \A x \in Calls \ {c} : calls'[x] = calls[x]
  BY OthersStand
<1>local. /\ InFlight(c) /\ calls'[c].req = r
          /\ InFlight(c)' => calls'[c].alone = calls[c].alone
          /\ \A t \in Targets \ {r.target} : settled'[t] = settled[t]
  BY <1>types, HandleIsLocal
<1>belief. /\ belief[a] = "unsure" /\ a \in Paths
           /\ \A p \in Paths \ {a} : belief'[p] = belief[p]
           /\ belief'[a] = IF calls'[c].pc = "done" /\ calls'[c].code = "OK"
                           THEN IF r.op \in {"stage", "publish"} THEN "in" ELSE "out"
                           ELSE "unsure"
  BY BeliefsStand
<1>about. \/ /\ calls[c].pc \in StagingPcs /\ r.staging \in Stagings
             /\ r.target \notin Targets /\ r.op = calls[c].pc /\ a = r.staging
          \/ /\ calls[c].pc \in PublishPcs \cup UnpublishPcs /\ r.target \in Targets
             /\ calls[c].pc \in PublishPcs => r.op = "publish"
             /\ calls[c].pc \in UnpublishPcs => r.op = "unpublish"
             /\ a = r.target
  BY <1>types, <1>local, WhatItIsAbout DEF AskedOK
<1>outcome. /\ calls'[c].pc \notin StagingPcs
            /\ InFlight(c)' => calls'[c].clean = calls[c].clean
            /\ \A t \in Targets :
                   \/ marker'[t] = marker[t] \/ marker'[t] \in {NoMarker, Blank, Mixed}
                   \/ t = r.target /\ r.op = "publish" /\ marker'[t] = r.staging
  BY HandleOutcome
<1>ends. \/ /\ UNCHANGED <<staged, settled>>
            /\ ~(calls'[c].pc = "done" /\ calls'[c].code = "OK")
         \/ /\ Answer(c, "OK") /\ calls[c].pc = "stage"
            /\ staged' = staged \cup {r.staging}
         \/ /\ Answer(c, "OK") /\ calls[c].pc = "unstage"
            /\ staged' = staged \ {r.staging}
         \/ /\ Answer(c, "OK") /\ calls[c].pc \in {"writing", "answer"}
            /\ UNCHANGED staged
  BY HandleOutcome
<1>answer. Answer(c, "OK") => calls'[c].pc = "done" /\ calls'[c].code = "OK"
  BY <1>types DEF Answer, Free, TInv, TypeOK
<1>0. belief' \in [Paths -> {"in", "out", "unsure"}]
  <2>1. belief' = belief
        \/ \E v \in {"in", "out"} : belief' = [belief EXCEPT ![a] = v]
    BY DEF Believed
  <2>2. QED
    BY <2>1, <1>types
<1>1. ASSUME NEW x \in Calls PROVE AskedOK(x)'
  <2> SUFFICES ASSUME InFlight(x)' PROVE AskedOK(x)'
    BY DEF AskedOK
  <2>1. \A d \in Calls : calls'[d].req = calls[d].req /\ (InFlight(d)' => InFlight(d))
    BY <1>others, <1>local DEF InFlight
  <2>2. AskedOK(x) /\ InFlight(x)
    BY <2>1 DEF KubeInv
  <2>3. \A d \in Calls : InFlight(d)' /\ About(calls'[d].req) = About(calls'[x].req) => d = x
    BY <2>1, <2>2 DEF AskedOK
  <2>4. CASE x = c
    <3>1. belief'[a] = "unsure"
      BY <2>4, <1>belief DEF InFlight
    <3>2. QED
      BY <2>2, <2>3, <2>4, <3>1, <1>local, <1>outcome DEF AskedOK
  <2>5. CASE x # c
    <3>1. About(calls[x].req) # a /\ About(calls[x].req) \in Paths
      BY <2>2, <2>5, <1>types, <1>local, WhatItIsAbout DEF AskedOK, Paths
    <3>2. belief'[About(calls[x].req)] = "unsure"
      BY <2>2, <3>1, <1>belief DEF AskedOK
    <3>3. QED
      BY <2>2, <2>3, <2>5, <3>2, <1>others DEF AskedOK
  <2>6. QED
    BY <2>4, <2>5
<1>2. ASSUME NEW t \in Targets PROVE TargetBelief(t)'
  <2>0. StagingOf[t] \in Stagings /\ t \in Paths /\ StagingOf[t] \in Paths /\ t \notin Stagings
        /\ \A s \in Stagings : s \notin Targets
    BY StagingOfAssumption DEF Paths
  <2>1. TargetBelief(t)
    BY DEF KubeInv
  <2>2. marker'[t] \in {NoMarker, Blank, Mixed, StagingOf[t]}
    BY <2>1, <1>outcome, <1>types, <1>local DEF TargetBelief, AskedOK
  <2>3. belief'[t] # "out" => belief'[StagingOf[t]] = "in"
    <3>1. CASE StagingOf[t] = a
      BY <2>0, <2>1, <3>1, <1>belief DEF TargetBelief
    <3>2. CASE StagingOf[t] # a /\ t # a
      BY <2>0, <2>1, <3>2, <1>belief DEF TargetBelief
    <3>3. CASE t = a
      BY <2>0, <2>1, <3>3, <1>belief DEF TargetBelief
    <3>4. QED
      BY <3>1, <3>2, <3>3
  <2>4. /\ belief'[t] = "in" => settled'[t] = StagingOf[t]
        /\ belief'[t] = "out" => settled'[t] = Gone
    <3>1. CASE t # a
      BY <2>0, <2>1, <3>1, <1>belief, <1>about, <1>local DEF TargetBelief
    <3>2. CASE t = a /\ Answer(c, "OK")
      <4>1. r.target = t /\ r.op \in {"publish", "unpublish"}
        BY <2>0, <3>2, <1>about
      <4>2. settled'[t] = IF r.op = "publish" THEN StagingOf[t] ELSE Gone
        BY <3>2, <4>1, <1>local, AnsweredOnTarget
      <4>3. belief'[t] = IF r.op = "publish" THEN "in" ELSE "out"
        BY <3>2, <4>1, <1>answer, <1>belief
      <4>4. QED
        BY <4>1, <4>2, <4>3
    <3>3. CASE t = a /\ ~Answer(c, "OK")
      <4>1. belief'[t] = "unsure"
        BY <3>3, <1>ends, <1>belief
      <4>2. QED
        BY <4>1
    <3>4. QED
      BY <3>1, <3>2, <3>3
  <2>5. QED
    BY <2>2, <2>3, <2>4 DEF TargetBelief
<1>3. ASSUME NEW s \in Stagings PROVE StagingBelief(s)'
  <2>1. StagingBelief(s) /\ s \in Paths /\ s \notin Targets
    BY StagingOfAssumption DEF KubeInv, Paths
  <2>2. CASE s # a
    <3>1. s \in staged' <=> s \in staged
      BY <2>2, <1>ends, <1>about DEF StagingPcs, PublishPcs, UnpublishPcs
    <3>2. QED
      BY <2>1, <2>2, <3>1, <1>belief DEF StagingBelief
  <2>3. CASE s = a
    <3>1. calls[c].pc \in StagingPcs /\ r.op = calls[c].pc /\ r.staging = s
      BY <2>1, <2>3, <1>about
    <3>2. CASE Answer(c, "OK")
      BY <2>3, <3>1, <3>2, <1>ends, <1>answer, <1>belief DEF StagingBelief, StagingPcs
    <3>3. CASE ~Answer(c, "OK")
      BY <2>3, <3>3, <1>ends, <1>belief DEF StagingBelief
    <3>4. QED
      BY <3>2, <3>3
  <2>4. QED
    BY <2>2, <2>3
<1>4. QED
  BY <1>0, <1>1, <1>2, <1>3 DEF KubeInv

LEMMA NextKubeInv ==
    ASSUME ~RemoveMayFail, KubeInv, KubeStep
    PROVE  KubeInv'
<1>0. SettleInv'
  BY KubeStepsAreSteps, NextSettleInv DEF KubeInv
<1>1. ASSUME NEW c \in Calls, NEW r \in Requests, Ask(c, r) PROVE KubeInv'
  BY <1>0, <1>1, AskKeeps
<1>2. ASSUME NEW c \in Calls, Handle(c), belief' = Believed(c) PROVE KubeInv'
  BY <1>0, <1>2, HandleKeeps
<1>same. ASSUME UNCHANGED <<files, settled, belief>>,
                \A c \in Calls : calls'[c] = calls[c] \/ calls'[c].pc = "done"
         PROVE  KubeInv'
  <2>1. UNCHANGED <<staged, targets, marker, settled, belief>>
    BY <1>same DEF files
  <2>2. ASSUME NEW c \in Calls PROVE AskedOK(c)'
    BY <1>same, <2>1 DEF KubeInv, AskedOK, InFlight
  <2>3. ASSUME NEW t \in Targets PROVE TargetBelief(t)'
    BY <2>1 DEF KubeInv, TargetBelief
  <2>4. ASSUME NEW s \in Stagings PROVE StagingBelief(s)'
    BY <2>1 DEF KubeInv, StagingBelief
  <2>5. QED
    BY <1>0, <2>1, <2>2, <2>3, <2>4 DEF KubeInv
<1>3. CASE Kill /\ UNCHANGED belief
  <2>1. \A c \in Calls : calls'[c] = calls[c] \/ calls'[c].pc = "done"
    BY <1>3 DEF Kill, Free
  <2>2. QED
    BY <1>3, <2>1, <1>same DEF Kill
<1>4. CASE Start /\ UNCHANGED belief
  BY <1>4, <1>same DEF Start, history
<1>5. CASE UNCHANGED node
  BY <1>5, <1>same DEF node, vars, history
<1>6. QED
  BY <1>1, <1>2, <1>3, <1>4, <1>5 DEF KubeStep, NodeStep

LEMMA KubeInvariant ==
    ASSUME ~RemoveMayFail
    PROVE  LSpec => []KubeInv
<1>1. KubeInv /\ [LNext]_<<node, provisioning>> => KubeInv'
  BY StepsOfTheNode, NextKubeInv
<1>2. QED
  BY <1>1, InitKubeInv, PTL DEF LSpec

\* No marker names a staging directory that is not there: for any number of
\* calls, targets and staging paths, and whatever fails or is killed, as long as
\* no removal fails and the kubelet keeps its order.
THEOREM PublishedStaysStaged ==
    ASSUME ~RemoveMayFail
    PROVE  LSpec => []PublishedIsStaged
<1>1. KubeInv => PublishedIsStaged
  <2> SUFFICES ASSUME KubeInv, NEW t \in Targets, marker[t] \in Stagings
               PROVE  marker[t] \in staged
    BY DEF PublishedIsStaged
  <2>1. TargetBelief(t) /\ SettledOK(t) /\ StagingOf[t] \in Stagings
    BY StagingOfAssumption DEF KubeInv, SettleInv
  <2>2. marker[t] = StagingOf[t] /\ marker[t] # NoMarker
    BY <2>1, MarkerAssumption DEF TargetBelief
  <2>3. belief[StagingOf[t]] = "in"
    BY <2>1, <2>2 DEF TargetBelief, SettledOK
  <2>4. QED
    BY <2>1, <2>2, <2>3 DEF KubeInv, StagingBelief
<1>2. QED
  BY <1>1, KubeInvariant, PTL

\* What the kubelet has been told of a target or a staging path is so.
THEOREM BeliefsAreTrue ==
    ASSUME ~RemoveMayFail
    PROVE  LSpec => []BeliefIsTrue
<1>1. KubeInv => BeliefIsTrue
  <2> SUFFICES ASSUME KubeInv
               PROVE  BeliefIsTrue
    OBVIOUS
  <2>1. ASSUME NEW t \in Targets
        PROVE  /\ belief[t] = "in" => t \in targets /\ marker[t] = StagingOf[t]
               /\ belief[t] = "out" => t \notin targets
    <3>1. TargetBelief(t) /\ SettledOK(t) /\ StagingOf[t] \in Stagings
      BY StagingOfAssumption DEF KubeInv, SettleInv
    <3>2. QED
      BY <3>1 DEF TargetBelief, SettledOK
  <2>2. ASSUME NEW s \in Stagings
        PROVE  /\ belief[s] = "in" => s \in staged
               /\ belief[s] = "out" => s \notin staged
    BY DEF KubeInv, StagingBelief
  <2>3. QED
    BY <2>1, <2>2 DEF BeliefIsTrue
<1>2. QED
  BY <1>1, KubeInvariant, PTL

-----------------------------------------------------------------------------
(* Both together.                                                          *)

\* Of the volume of a claim that is being deleted nothing is in use, and it is
\* not taken into use again.
ReleasedOK(p) ==
    phase[p] \in {"deleting", "gone"} /\ PathOf[p] \in Stagings =>
        /\ belief[PathOf[p]] = "out"
        /\ \A t \in TargetsOf(PathOf[p]) : belief[t] = "out"

LifeInv == /\ ProvInv /\ KubeInv
           /\ \A p \in Claims : ReleasedOK(p)

LEMMA NextLifeInv ==
    ASSUME ~RemoveMayFail
    PROVE  LifeInv /\ [LNext]_<<node, provisioning>> => LifeInv'
<1> SUFFICES ASSUME LifeInv, [LNext]_<<node, provisioning>> PROVE LifeInv'
  OBVIOUS
<1>inv. ProvInv' /\ KubeInv'
  BY NextProvInv, StepsOfTheNode, NextKubeInv DEF LifeInv
<1>types. /\ phase \in [Claims -> Phases]
          /\ belief \in [Paths -> {"in", "out", "unsure"}]
  BY DEF LifeInv, ProvInv, KubeInv
\* The provisioner goes on, and releases nothing that is in use.
<1>prov. ASSUME UNCHANGED belief,
                \A p \in Claims : \/ phase'[p] \in {"deleting", "gone"} =>
                                        phase[p] \in {"deleting", "gone"}
                                  \/ Release(p)
         PROVE  LifeInv'
  <2>1. ASSUME NEW p \in Claims PROVE ReleasedOK(p)'
    <3>1. CASE Release(p)
      BY <1>prov, <3>1 DEF Release, ReleasedOK
    <3>2. CASE phase'[p] \in {"deleting", "gone"} => phase[p] \in {"deleting", "gone"}
      BY <1>prov, <3>2 DEF LifeInv, ReleasedOK
    <3>3. QED
      BY <1>prov, <3>1, <3>2
  <2>2. QED
    BY <1>inv, <2>1 DEF LifeInv
\* The node goes on, and what the kubelet takes to be out stays out.
<1>node. ASSUME UNCHANGED phase,
                \A p \in Claims : phase[p] \in {"deleting", "gone"} /\ PathOf[p] \in Stagings =>
                    \A x \in {PathOf[p]} \cup TargetsOf(PathOf[p]) :
                        belief[x] = "out" => belief'[x] = "out"
         PROVE  LifeInv'
  <2>1. ASSUME NEW p \in Claims PROVE ReleasedOK(p)'
    BY <1>node, <2>1 DEF LifeInv, ReleasedOK
  <2>2. QED
    BY <1>inv, <2>1 DEF LifeInv
<1>1. ASSUME NEW p \in Claims,
             Provision(p) \/ Create(p) \/ Release(p) \/ Delete(p) \/ GiveUp(p) \/ RunLate(p)
      PROVE  LifeInv'
  <2>1. UNCHANGED belief
    BY <1>1 DEF Provision, Create, Release, Delete, GiveUp, RunLate, node
  <2>2. ASSUME NEW q \in Claims, phase'[q] \in {"deleting", "gone"}, ~Release(q)
        PROVE  phase[q] \in {"deleting", "gone"}
    BY <1>1, <2>2, <1>types DEF Provision, Create, Release, Delete, GiveUp, RunLate, Phases
  <2>3. QED
    BY <2>1, <2>2, <1>prov
<1>2. CASE RestartController /\ UNCHANGED <<phase, late, told, relapsed, node>>
  BY <1>2, <1>prov DEF node
<1>3. ASSUME NEW c \in Calls, Use(c) PROVE LifeInv'
  <2>1. PICK r \in Requests, q \in Claims :
            /\ phase[q] = "bound"
            /\ PathOf[q] = IF OnTarget(r) THEN StagingOf[r.target] ELSE r.staging
            /\ Ask(c, r) /\ UNCHANGED provisioning
    BY <1>3 DEF Use
  <2>2. belief' = [belief EXCEPT ![About(r)] = "unsure"]
    BY <2>1 DEF Ask
  <2>3. ASSUME NEW p \in Claims, phase[p] \in {"deleting", "gone"}, PathOf[p] \in Stagings,
               NEW x \in {PathOf[p]} \cup TargetsOf(PathOf[p]), belief[x] = "out"
        PROVE  belief'[x] = "out"
    <3>1. PathOf[p] # PathOf[q]
      BY <2>1, <2>3, ClaimsAssumption
    <3>2. x \in Paths /\ (x \in Targets => StagingOf[x] = PathOf[p])
          /\ (x \notin Targets => x = PathOf[p])
      BY <2>3, StagingOfAssumption DEF Paths, TargetsOf
    <3>3. x # About(r)
      <4>1. CASE OnTarget(r)
        BY <2>1, <3>1, <3>2, <4>1 DEF About, OnTarget
      <4>2. CASE ~OnTarget(r)
        <5>1. About(r) = PathOf[q] /\ PathOf[q] \notin Targets
          BY <2>1, <4>2, ClaimsAssumption, StagingOfAssumption, PathsAssumption DEF About
        <5>2. QED
          BY <3>1, <3>2, <5>1
      <4>3. QED
        BY <4>1, <4>2
    <3>4. QED
      BY <2>2, <2>3, <3>2, <3>3, <1>types
  <2>4. UNCHANGED phase
    BY <2>1 DEF provisioning
  <2>5. QED
    BY <2>3, <2>4, <1>node
<1>4. CASE NodeStep /\ UNCHANGED provisioning
  <2>1. UNCHANGED phase
    BY <1>4 DEF provisioning
  <2>2. ASSUME NEW x \in Paths, belief[x] = "out" PROVE belief'[x] = "out"
    <3>1. CASE UNCHANGED belief
      BY <2>2, <3>1
    <3>2. ASSUME NEW c \in Calls, Handle(c), belief' = Believed(c) PROVE belief'[x] = "out"
      BY <2>2, <3>2, BeliefsStand DEF LifeInv
    <3>3. QED
      BY <1>4, <3>1, <3>2 DEF NodeStep
  <2>3. \A p \in Claims : PathOf[p] \in Stagings =>
            {PathOf[p]} \cup TargetsOf(PathOf[p]) \subseteq Paths
    BY DEF Paths, TargetsOf
  <2>4. QED
    BY <2>1, <2>2, <2>3, <1>node
<1>5. CASE UNCHANGED <<node, provisioning>>
  BY <1>5, <1>prov DEF node, provisioning
<1>6. QED
  BY <1>1, <1>2, <1>3, <1>4, <1>5 DEF LNext

\* A volume that is gone has left no directory of its own and no target of its
\* pods on the node.
THEOREM DeletionIsClean ==
    ASSUME ~RemoveMayFail
    PROVE  LSpec => []DeletedLeavesNothing
<1>1. LInit => LifeInv
  <2>1. LInit => \A p \in Claims : ReleasedOK(p)
    BY DEF LInit, ReleasedOK
  <2>2. QED
    BY <2>1, InitProvInv, InitKubeInv DEF LifeInv
<1>2. LifeInv => DeletedLeavesNothing
  <2> SUFFICES ASSUME LifeInv, NEW p \in Claims, phase[p] = "gone"
               PROVE  /\ PathOf[p] \notin staged
                      /\ \A t \in TargetsOf(PathOf[p]) : t \notin targets
    BY DEF DeletedLeavesNothing
  <2>1. staged \subseteq Stagings
    BY DEF LifeInv, KubeInv, SettleInv, TInv, TypeOK
  <2>2. CASE PathOf[p] \in Stagings
    <3>1. /\ belief[PathOf[p]] = "out"
          /\ \A t \in TargetsOf(PathOf[p]) : t \in Targets /\ belief[t] = "out"
      BY <2>2 DEF LifeInv, ReleasedOK, TargetsOf
    <3>2. PathOf[p] \notin staged
      BY <2>2, <3>1 DEF LifeInv, KubeInv, StagingBelief
    <3>3. ASSUME NEW t \in TargetsOf(PathOf[p]) PROVE t \notin targets
      BY <3>1 DEF LifeInv, KubeInv, SettleInv, TargetBelief, SettledOK
    <3>4. QED
      BY <3>2, <3>3
  <2>3. CASE PathOf[p] \notin Stagings
    BY <2>1, <2>3, StagingOfAssumption DEF TargetsOf
  <2>4. QED
    BY <2>2, <2>3
<1>3. QED
  BY <1>1, <1>2, NextLifeInv, PTL DEF LSpec
=============================================================================
