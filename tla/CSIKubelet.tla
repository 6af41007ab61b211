----------------------------- MODULE CSIKubelet -----------------------------
(***************************************************************************)
(* The node service under its client.  The handlers trust the kubelet for  *)
(* their order (README.md:6, "a Kubernetes CSI-style workflow"): a volume  *)
(* is staged before it is published and unpublished everywhere before it   *)
(* is unstaged; calls on one target, and staging calls on one volume, are  *)
(* not made side by side; after an error the outcome is taken as unknown.  *)
(* The kubelet is not part of the repository; it is modelled as far as     *)
(* that order goes, and waits for every answer.                            *)
(***************************************************************************)
EXTENDS CSINode

CONSTANT StagingOf   \* the staging path of the volume a target belongs to

\* A staging path (.../globalmount) is never a target path (.../mount).
ASSUME StagingOfAssumption ==
    StagingOf \in [Targets -> Stagings] /\ Targets \cap Stagings = {}

VARIABLE belief      \* what the kubelet takes each path to be

Paths == Targets \cup Stagings

TargetsOf(s) == {t \in Targets : StagingOf[t] = s}

\* The path a request is about.
About(r) == IF OnTarget(r) THEN r.target ELSE r.staging

Busy(p) == \E c \in Calls : InFlight(c) /\ About(calls[c].req) = p

KInit == Init /\ belief = [p \in Paths |-> "out"]

\* The order the kubelet keeps.
Due(r) ==
    \/ /\ r.op = "stage" /\ r.staging \in Stagings
       /\ belief[r.staging] # "in" /\ ~Busy(r.staging)
    \/ /\ r.op = "publish" /\ r.target \in Targets
       /\ r.staging = StagingOf[r.target]
       /\ belief[r.staging] = "in" /\ ~Busy(r.staging) /\ ~Busy(r.target)
    \/ /\ r.op = "unpublish" /\ r.target \in Targets
       /\ belief[r.target] # "out" /\ ~Busy(r.target)
    \/ /\ r.op = "unstage" /\ r.staging \in Stagings
       /\ belief[r.staging] # "out" /\ ~Busy(r.staging)
       /\ \A t \in TargetsOf(r.staging) : belief[t] = "out" /\ ~Busy(t)

Ask(c, r) ==
    /\ Due(r) /\ Begin(c, r)
    /\ belief' = [belief EXCEPT ![About(r)] = "unsure"]

\* The kubelet hears of a call that has ended in this step.
Believed(c) ==
    LET r == calls[c].req
    IN  IF InFlight(c) /\ calls'[c].pc = "done" /\ calls'[c].code = "OK"
        THEN [belief EXCEPT ![About(r)] =
                 IF r.op \in {"stage", "publish"} THEN "in" ELSE "out"]
        ELSE belief

\* The node service goes on with what it was asked, or ends and starts again.
NodeStep ==
    \/ (Kill \/ Start) /\ UNCHANGED belief
    \/ \E c \in Calls : Handle(c) /\ belief' = Believed(c)

-----------------------------------------------------------------------------
\* A marker never names a staging directory that is not there: no pod is left
\* published on a volume that has been unstaged, although neither
\* NodePublishVolume nor NodeUnstageVolume looks at the other's files, calls of
\* different targets overlap and the process is killed at any point.
PublishedIsStaged ==
    \A t \in Targets : marker[t] \in Stagings => marker[t] \in staged

\* What the kubelet has been told is so: a target it takes for published has its
\* marker, one it takes for unpublished does not exist, and a staging path is there if
\* it takes it for staged and gone if it takes it for unstaged.
BeliefIsTrue ==
    /\ \A t \in Targets :
           /\ belief[t] = "in" => t \in targets /\ marker[t] = StagingOf[t]
           /\ belief[t] = "out" => t \notin targets
    /\ \A s \in Stagings :
           /\ belief[s] = "in" => s \in staged
           /\ belief[s] = "out" => s \notin staged
=============================================================================
