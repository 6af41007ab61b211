------------------------------ MODULE CSINode ------------------------------
(***************************************************************************)
(* The node service of the CSI driver (pkg/csi/service.go): staging and    *)
(* target directories on the node, and in each published target a marker   *)
(* file that names the staging directory.                                  *)
(*                                                                         *)
(* The Node handlers take no lock, so calls interleave at their system     *)
(* calls, one action each:                                                 *)
(*   NodePublishVolume    MkdirAll(target), open the marker, write it      *)
(*   NodeUnpublishVolume  unlink the marker, RemoveAll(target)             *)
(*   NodeStageVolume      MkdirAll(staging)                                *)
(*   NodeUnstageVolume    RemoveAll(staging); nothing is ever put there    *)
(* os.RemoveAll is a remove, and if the directory is not empty a listing,  *)
(* an unlink of what was listed and a second remove.  A member of Calls is *)
(* a goroutine that serves one request after the other: the set bounds the *)
(* number of calls that overlap, not their number.                         *)
(***************************************************************************)
EXTENDS Integers, FiniteSets

CONSTANTS
    Calls,          \* the calls that may be in progress at a time
    Targets,        \* target paths
    Stagings,       \* staging target paths
    NoPath,         \* the empty path
    NoMarker,       \* a target without a marker file
    Blank,          \* the contents of a marker opened but not yet written
    Mixed,          \* contents that are not one whole line
    IOMayFail,      \* may creating a directory or writing a file fail?
    RemoveMayFail,  \* may removing a file or directory fail?
    MayBeKilled     \* may the process be killed?

\* History: what a target may be known to be, besides published.
Unsettled == "unsettled"     \* calls overlap, failed or were killed
Gone      == "gone"          \* unpublished

ASSUME PathsAssumption == NoPath \notin Targets \cup Stagings
ASSUME MarkerAssumption ==
    /\ Stagings \cap {NoMarker, Blank, Mixed, NoPath} = {}
    /\ NoMarker # Blank /\ NoMarker # Mixed /\ Blank # Mixed
ASSUME HistoryAssumption == Stagings \cap {Unsettled, Gone} = {}
ASSUME SwitchAssumption == {IOMayFail, RemoveMayFail, MayBeKilled} \subseteq BOOLEAN

VARIABLES
    up,       \* is the process serving?
    staged,   \* the staging directories that exist
    targets,  \* the target directories that exist
    marker,   \* what the marker file of each target holds
    calls,    \* the goroutine of each call
    settled,  \* history: what each target is known to be
    harmed    \* history: the targets on which a call has failed or was killed

files == <<staged, targets, marker>>
history == <<settled, harmed>>
vars  == <<up, files, calls, history>>

-----------------------------------------------------------------------------
(* Requests and calls.                                                     *)

Request(op, s, t) == [op |-> op, staging |-> s, target |-> t]

Requests ==
         {Request(op, s, NoPath) : op \in {"stage", "unstage"}, s \in Stagings \cup {NoPath}}
    \cup {Request("publish", s, t) : s \in Stagings \cup {NoPath}, t \in Targets \cup {NoPath}}
    \cup {Request("unpublish", NoPath, t) : t \in Targets \cup {NoPath}}

OnTarget(r) == r.target \in Targets /\ r.op \in {"publish", "unpublish"}

\* linked tells whether the marker a publish has open still has its name; alone
\* whether the call has overlapped no other on its target; clean, history, whether
\* no removal has failed in it.
Free(code, r) == [pc |-> "done", req |-> r, linked |-> FALSE, alone |-> TRUE,
                  clean |-> TRUE, code |-> code]

InFlight(c) == calls[c].pc # "done"
At(c, pc)   == up /\ calls[c].pc = pc
Rivals(t)   == {c \in Calls : InFlight(c) /\ calls[c].req.target = t}

Init ==
    /\ up = TRUE
    /\ staged = {} /\ targets = {}
    /\ marker = [t \in Targets |-> NoMarker]
    /\ calls = [c \in Calls |-> Free("none", Request("none", NoPath, NoPath))]
    /\ settled = [t \in Targets |-> Gone] /\ harmed = {}

\* A call answers; the outcome of one that overlapped no other is known.
Answer(c, code) ==
    LET call == calls[c]
        t    == call.req.target
    IN  /\ calls' = [calls EXCEPT ![c] = Free(code, call.req)]
        /\ settled' = IF OnTarget(call.req) /\ call.alone /\ call.clean /\ code = "OK"
                      THEN [settled EXCEPT ![t] =
                               IF call.req.op = "publish" THEN call.req.staging ELSE Gone]
                      ELSE settled

End(c, code) == Answer(c, code) /\ UNCHANGED harmed

Goto(c, pc) == calls' = [calls EXCEPT ![c].pc = pc] /\ UNCHANGED history

\* A call is cut short; what it has begun on its target stays half done.
Harm(cs) == harmed' = harmed \cup ({calls[c].req.target : c \in cs} \cap Targets)

\* mutant: an unpublish only tries to remove the directory, marker and all.
FirstStepPlainRemove(r) ==
    CASE r.op = "stage"     -> IF r.staging = NoPath THEN "InvalidArgument" ELSE "stage"
      [] r.op = "unstage"   -> IF r.staging = NoPath THEN "OK" ELSE "unstage"
      [] r.op = "publish"   -> IF r.target = NoPath \/ r.staging = NoPath
                               THEN "InvalidArgument" ELSE "publish"
      [] r.op = "unpublish" -> IF r.target = NoPath THEN "OK" ELSE "rmdirLast"

\* mutant: a publish does not check its target path.
FirstStepAnyTarget(r) ==
    CASE r.op \in {"stage", "publish"} -> IF r.staging = NoPath
                                          THEN "InvalidArgument" ELSE r.op
      [] r.op = "unstage"   -> IF r.staging = NoPath THEN "OK" ELSE "unstage"
      [] r.op = "unpublish" -> IF r.target = NoPath THEN "OK" ELSE "unmark"

\* Where the handler starts after its checks, or the code it answers at once.
FirstStep(r) ==
    CASE r.op = "stage"     -> IF r.staging = NoPath THEN "InvalidArgument" ELSE "stage"
      [] r.op = "unstage"   -> IF r.staging = NoPath THEN "OK" ELSE "unstage"
      [] r.op = "publish"   -> IF r.target = NoPath \/ r.staging = NoPath
                               THEN "InvalidArgument" ELSE "publish"
      [] r.op = "unpublish" -> IF r.target = NoPath THEN "OK" ELSE "unmark"

AnsweredAtOnce(r) == FirstStep(r) \in {"InvalidArgument", "OK"}

\* A request that its checks answer touches nothing.
Refuse(c, r) ==
    /\ up /\ ~InFlight(c)
    /\ AnsweredAtOnce(r)
    /\ calls' = [calls EXCEPT ![c] = Free(FirstStep(r), r)]
    /\ UNCHANGED <<up, files, history>>

Begin(c, r) ==
    LET t == r.target
    IN  /\ up /\ ~InFlight(c)
        /\ ~AnsweredAtOnce(r)
        /\ calls' = [x \in Calls |->
               IF x = c THEN [pc |-> FirstStep(r), req |-> r, linked |-> FALSE,
                              alone |-> Rivals(t) = {}, clean |-> TRUE,
                              code |-> "none"]
               ELSE IF OnTarget(r) /\ x \in Rivals(t)
               THEN [calls[x] EXCEPT !.alone = FALSE]
               ELSE calls[x]]
        /\ settled' = IF OnTarget(r) THEN [settled EXCEPT ![t] = Unsettled] ELSE settled
        /\ UNCHANGED <<up, files, harmed>>

-----------------------------------------------------------------------------
(* NodeStageVolume and NodeUnstageVolume.                                  *)

Stage(c) ==
    /\ At(c, "stage")
    /\ staged' = staged \cup {calls[c].req.staging}
    /\ End(c, "OK")
    /\ UNCHANGED <<up, targets, marker>>

Unstage(c) ==
    /\ At(c, "unstage")
    /\ staged' = staged \ {calls[c].req.staging}
    /\ End(c, "OK")
    /\ UNCHANGED <<up, targets, marker>>

-----------------------------------------------------------------------------
(* NodePublishVolume.                                                      *)

MakeTarget(c) ==
    /\ At(c, "publish")
    /\ targets' = targets \cup {calls[c].req.target}
    /\ Goto(c, "open")
    /\ UNCHANGED <<up, staged, marker>>

\* Beside other calls on the target, MkdirAll may find the directory there, and
\* gone when it looks at it again.
MakeTargetRaced(c) ==
    /\ At(c, "publish")
    /\ ~calls[c].alone
    /\ End(c, "Internal")
    /\ UNCHANGED <<up, files>>

\* mutant: an existing marker is left as it is.
OpenedKeepsOld(old) == IF old = NoMarker THEN Blank ELSE old

\* The marker is opened with O_CREATE and O_TRUNC.
Opened(old) == Blank

OpenMarker(c) ==
    LET t == calls[c].req.target
    IN  /\ At(c, "open")
        /\ t \in targets
        /\ marker' = [marker EXCEPT ![t] = Opened(@)]
        /\ calls' = [calls EXCEPT ![c].pc = "writing", ![c].linked = TRUE]
        /\ UNCHANGED <<up, staged, targets, history>>

\* An unpublish has removed the directory in between.
OpenMarkerMissing(c) ==
    /\ At(c, "open")
    /\ calls[c].req.target \notin targets
    /\ End(c, "Internal")
    /\ UNCHANGED <<up, files>>

\* Over the line of another publish the write leaves a mixture when that line
\* was the longer one.
Written(old, s) == IF old \in {Blank, s} THEN {s} ELSE {s, Mixed}

WriteMarker(c) ==
    LET call == calls[c]
        t    == call.req.target
    IN  /\ At(c, "writing")
        /\ \/ /\ call.linked
              /\ \E v \in Written(marker[t], call.req.staging) :
                     marker' = [marker EXCEPT ![t] = v]
           \/ ~call.linked /\ UNCHANGED marker
        /\ End(c, "OK")
        /\ UNCHANGED <<up, staged, targets>>

\* A system call fails; a failing write may have taken a part of the line.
Fail(c) ==
    LET t == calls[c].req.target
    IN  /\ IOMayFail /\ up
        /\ \/ calls[c].pc \in {"stage", "publish", "open", "writing"} /\ UNCHANGED marker
           \/ /\ calls[c].pc = "writing" /\ calls[c].linked
              /\ \E v \in {Mixed, calls[c].req.staging} :
                     marker' = [marker EXCEPT ![t] = v]
        /\ Answer(c, "Internal") /\ Harm({c})
        /\ UNCHANGED <<up, staged, targets>>

-----------------------------------------------------------------------------
(* NodeUnpublishVolume.                                                    *)

\* mutant: RemoveAll is left out, the directory stays.
AfterUnmarkAnswer == "answer"

\* Whatever became of the marker, os.RemoveAll follows.
AfterUnmark == "rmdir"

\* The marker loses its name; a publish that has it open writes to nobody.
UnlinkMarker(c, next) ==
    LET t == calls[c].req.target
    IN  /\ marker' = [marker EXCEPT ![t] = NoMarker]
        /\ calls' = [x \in Calls |->
               IF x = c THEN [calls[x] EXCEPT !.pc = next]
               ELSE IF x \in Rivals(t) THEN [calls[x] EXCEPT !.linked = FALSE]
               ELSE calls[x]]
        /\ UNCHANGED <<up, staged, targets, history>>

Unmark(c) == At(c, "unmark") /\ UnlinkMarker(c, AfterUnmark)

\* rmdir(2) takes an empty directory away.  Another RemoveAll that has listed
\* it then holds a directory without a name, in which it unlinks nothing.
Rmdir(c) ==
    LET t == calls[c].req.target
    IN  /\ At(c, "rmdir") \/ At(c, "rmdirLast")
        /\ t \in targets /\ marker[t] = NoMarker
        /\ targets' = targets \ {t}
        /\ calls' = [x \in Calls |->
               IF x = c THEN [calls[x] EXCEPT !.pc = "answer"]
               ELSE IF x \in Rivals(t) /\ calls[x].pc = "unlink"
               THEN [calls[x] EXCEPT !.pc = "rmdirLast"]
               ELSE calls[x]]
        /\ UNCHANGED <<up, staged, marker, history>>

RmdirMissing(c) ==
    /\ At(c, "rmdir") \/ At(c, "rmdirLast")
    /\ calls[c].req.target \notin targets
    /\ Goto(c, "answer")
    /\ UNCHANGED <<up, files>>

\* A publish has put a marker there again: RemoveAll lists the directory, and
\* gives up when it is not empty the second time.
RmdirNotEmpty(c) ==
    LET t == calls[c].req.target
    IN  /\ t \in targets /\ marker[t] # NoMarker
        /\ \/ At(c, "rmdir") /\ Goto(c, "list")
           \/ At(c, "rmdirLast") /\ Goto(c, "answer")
        /\ UNCHANGED <<up, files>>

\* The directory may also go after it was opened and before it is read.
List(c) ==
    LET t == calls[c].req.target
    IN  /\ At(c, "list")
        /\ \/ t \in targets /\ marker[t] # NoMarker /\ Goto(c, "unlink")
           \/ t \in targets /\ marker[t] = NoMarker /\ Goto(c, "rmdirLast")
           \/ t \notin targets /\ Goto(c, "answer")
           \/ t \notin targets /\ Goto(c, "rmdirLast")
        /\ UNCHANGED <<up, files>>

Unlink(c) == At(c, "unlink") /\ UnlinkMarker(c, "rmdirLast")

\* A removal fails; the handlers go on as if it had not.
RemoveFails(c) ==
    /\ RemoveMayFail
    /\ \/ /\ \E pc \in {"unmark", "rmdir", "list", "unlink", "rmdirLast"} : At(c, pc)
          /\ calls' = [calls EXCEPT ![c].clean = FALSE,
                          ![c].pc = IF @ = "unmark" THEN AfterUnmark ELSE "answer"]
          /\ Harm({c}) /\ UNCHANGED settled
       \/ At(c, "unstage") /\ End(c, "OK")
    /\ UNCHANGED <<up, files>>

AnswerUnpublish(c) ==
    /\ At(c, "answer")
    /\ End(c, "OK")
    /\ UNCHANGED <<up, files>>

-----------------------------------------------------------------------------
(* The process.                                                            *)

Kill ==
    /\ MayBeKilled
    /\ up /\ up' = FALSE
    /\ calls' = [c \in Calls |-> IF InFlight(c) THEN Free("Unavailable", calls[c].req)
                                 ELSE calls[c]]
    /\ Harm({c \in Calls : InFlight(c)})
    /\ UNCHANGED <<files, settled>>

Start == ~up /\ up' = TRUE /\ UNCHANGED <<files, calls, history>>

Handle(c) ==
    \/ Stage(c) \/ Unstage(c)
    \/ MakeTarget(c) \/ MakeTargetRaced(c)
    \/ OpenMarker(c) \/ OpenMarkerMissing(c) \/ WriteMarker(c) \/ Fail(c)
    \/ Unmark(c) \/ Rmdir(c) \/ RmdirMissing(c) \/ RmdirNotEmpty(c)
    \/ List(c) \/ Unlink(c) \/ RemoveFails(c) \/ AnswerUnpublish(c)

Next ==
    \/ Kill \/ Start
    \/ \E c \in Calls :
           \/ Handle(c)
           \/ \E r \in Requests : Refuse(c, r) \/ Begin(c, r)

Spec == Init /\ [][Next]_vars

-----------------------------------------------------------------------------
(* Properties.                                                             *)

Pcs == {"done", "stage", "unstage", "publish", "open", "writing", "unmark",
        "rmdir", "list", "unlink", "rmdirLast", "answer"}
Codes == {"none", "OK", "InvalidArgument", "Internal", "Unavailable"}
NoRequest == Request("none", NoPath, NoPath)

\* Type invariant of the node's files, its calls and the history.
TypeOK ==
    /\ up \in BOOLEAN
    /\ staged \subseteq Stagings
    /\ targets \subseteq Targets
    /\ marker \in [Targets -> {NoMarker, Blank, Mixed} \cup Stagings]
    /\ calls \in [Calls -> [pc : Pcs, req : Requests \cup {NoRequest},
                            linked : BOOLEAN, alone : BOOLEAN, clean : BOOLEAN,
                            code : Codes]]
    /\ settled \in [Targets -> Stagings \cup {Gone, Unsettled}]
    /\ harmed \subseteq Targets

Quiet(t) == Rivals(t) = {}

\* A target is published as a whole or not at all: when no call on it is in
\* progress it does not exist or it has its marker, however publishes and
\* unpublishes of it overlapped.  Only a call on that very target that failed or
\* was killed halfway may leave a part of it.
NoBareTarget ==
    \A t \in Targets : Quiet(t) /\ t \notin harmed =>
        /\ marker[t] # Blank
        /\ t \in targets <=> marker[t] # NoMarker

\* A target whose last call was a NodePublishVolume that overlapped no other
\* and was answered OK exists, and its marker names the staging path of that
\* call, whatever failed, was killed or removed before it.
PublishSettles ==
    \A t \in Targets : settled[t] \in Stagings =>
        t \in targets /\ marker[t] = settled[t]

\* A target whose last call was a NodeUnpublishVolume that overlapped no other
\* does not exist, whatever publishes and unpublishes failed or were killed
\* before it.  Its own removals must not fail: it answers OK all the same then
\* (service.go:156-160).
UnpublishSettles ==
    \A t \in Targets : settled[t] = Gone =>
        t \notin targets /\ marker[t] = NoMarker
=============================================================================
