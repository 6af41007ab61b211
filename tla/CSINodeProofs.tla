--------------------------- MODULE CSINodeProofs ---------------------------
(***************************************************************************)
(* Proofs about CSINode: its type invariant for every choice of faults;    *)
(* NoBareTarget for any number of overlapping calls, on every target on    *)
(* which no call has failed or was killed; and what undisturbed calls make *)
(* of their target.                                                        *)
(***************************************************************************)
EXTENDS CSINode, TLAPS

StagingPcs   == {"stage", "unstage"}
PublishPcs   == {"publish", "open", "writing"}
UnpublishPcs == {"unmark", "rmdir", "list", "unlink", "rmdirLast", "answer"}

\* What a call in progress has passed its checks with.
CallOK(c) ==
    /\ calls[c].pc \in StagingPcs =>
           calls[c].req.staging \in Stagings /\ calls[c].req.target = NoPath
    /\ calls[c].pc \in PublishPcs =>
           /\ calls[c].req.op = "publish"
           /\ calls[c].req.staging \in Stagings /\ calls[c].req.target \in Targets
    /\ calls[c].pc \in UnpublishPcs =>
           calls[c].req.op = "unpublish" /\ calls[c].req.target \in Targets

CallsOK == \A c \in Calls : CallOK(c)
TInv    == TypeOK /\ CallsOK

CallRecord == [pc : Pcs, req : Requests \cup {NoRequest}, linked : BOOLEAN,
               alone : BOOLEAN, clean : BOOLEAN, code : Codes]

\* What the checks at the head of the handlers (service.go:110-158) let pass:
\* a request that goes on has the paths its handler uses.
LEMMA ChecksPass ==
    ASSUME NEW r \in Requests
    PROVE  /\ AnsweredAtOnce(r) => FirstStep(r) \in Codes
           /\ ~AnsweredAtOnce(r) =>
                 \/ /\ FirstStep(r) \in StagingPcs
                    /\ r.staging \in Stagings /\ r.target = NoPath
                 \/ /\ FirstStep(r) = "publish" /\ r.op = "publish"
                    /\ r.staging \in Stagings /\ r.target \in Targets
                 \/ /\ FirstStep(r) = "unmark" /\ r.op = "unpublish"
                    /\ r.target \in Targets
<1>1. CASE \E op \in {"stage", "unstage"}, s \in Stagings \cup {NoPath} :
               r = Request(op, s, NoPath)
  BY <1>1 DEF FirstStep, AnsweredAtOnce, Request, Codes, StagingPcs
<1>2. CASE \E s \in Stagings \cup {NoPath}, t \in Targets \cup {NoPath} :
               r = Request("publish", s, t)
  BY <1>2 DEF FirstStep, AnsweredAtOnce, Request, Codes, StagingPcs
<1>3. CASE \E t \in Targets \cup {NoPath} : r = Request("unpublish", NoPath, t)
  BY <1>3 DEF FirstStep, AnsweredAtOnce, Request, Codes, StagingPcs
<1>4. QED
  BY <1>1, <1>2, <1>3 DEF Requests

\* A request has an operation, and paths that may be empty.
LEMMA RequestFields ==
    ASSUME NEW r \in Requests
    PROVE  /\ r.target \in Targets \cup {NoPath}
           /\ r.staging \in Stagings \cup {NoPath}
  BY DEF Requests, Request

\* A call record whose step and marks change is one still.
LEMMA RecordStays ==
    ASSUME NEW call \in CallRecord, NEW pc \in Pcs
    PROVE  /\ [call EXCEPT !.pc = pc] \in CallRecord
           /\ [call EXCEPT !.linked = FALSE] \in CallRecord
           /\ [call EXCEPT !.pc = pc, !.linked = TRUE] \in CallRecord
           /\ [call EXCEPT !.clean = FALSE, !.pc = pc] \in CallRecord
  BY DEF CallRecord

-----------------------------------------------------------------------------
(* Types.                                                                  *)

LEMMA InitTInv == Init => TInv
<1> SUFFICES ASSUME Init PROVE TInv
  OBVIOUS
<1>1. TypeOK
  BY DEF Init, TypeOK, Free, Pcs, Codes, NoRequest
<1>2. CallsOK
  BY DEF Init, CallsOK, CallOK, Free, StagingPcs, PublishPcs, UnpublishPcs
<1>3. QED
  BY <1>1, <1>2 DEF TInv

\* A call that ends keeps types, if it was of the right type before.
LEMMA EndKeepsTypes ==
    ASSUME TInv, NEW c \in Calls, NEW code \in Codes, Answer(c, code), InFlight(c),
           code = "OK" => calls[c].pc \in StagingPcs \cup PublishPcs \cup UnpublishPcs
    PROVE  /\ calls' \in [Calls -> CallRecord]
           /\ settled' \in [Targets -> Stagings \cup {Gone, Unsettled}]
           /\ CallsOK'
<1> DEFINE free == Free(code, calls[c].req)
<1>1. free \in CallRecord /\ free.pc = "done"
  BY DEF TInv, TypeOK, Free, Pcs, CallRecord
<1>2. calls' = [calls EXCEPT ![c] = free]
  BY DEF Answer
<1>3. calls' \in [Calls -> CallRecord]
  BY <1>1, <1>2 DEF TInv, TypeOK, CallRecord
<1>4. \A x \in Calls : calls'[x] = IF x = c THEN free ELSE calls[x]
  BY <1>2 DEF TInv, TypeOK
<1>5. CallsOK'
  BY <1>1, <1>4 DEF TInv, CallsOK, CallOK, StagingPcs, PublishPcs, UnpublishPcs
<1>6. settled' \in [Targets -> Stagings \cup {Gone, Unsettled}]
  <2>1. CASE OnTarget(calls[c].req) /\ calls[c].alone /\ calls[c].clean /\ code = "OK"
    <3>1. calls[c].req.op = "publish" => calls[c].req.staging \in Stagings
      BY <2>1, PathsAssumption
         DEF TInv, CallsOK, CallOK, StagingPcs, PublishPcs, UnpublishPcs, OnTarget
    <3>2. QED
      BY <2>1, <3>1 DEF Answer, TInv, TypeOK, OnTarget
  <2>2. CASE ~(OnTarget(calls[c].req) /\ calls[c].alone /\ calls[c].clean /\ code = "OK")
    BY <2>2 DEF Answer, TInv, TypeOK
  <2>3. QED
    BY <2>1, <2>2
<1>7. QED
  BY <1>3, <1>5, <1>6

\* A call that goes on within its handler keeps types.
LEMMA GotoKeepsTypes ==
    ASSUME TInv, NEW c \in Calls, NEW pc, Goto(c, pc),
           \/ calls[c].pc \in PublishPcs /\ pc \in PublishPcs
           \/ calls[c].pc \in UnpublishPcs /\ pc \in UnpublishPcs
    PROVE  /\ calls' \in [Calls -> CallRecord]
           /\ settled' \in [Targets -> Stagings \cup {Gone, Unsettled}]
           /\ CallsOK'
<1>1. pc \in Pcs /\ pc \notin StagingPcs
  BY DEF Pcs, PublishPcs, UnpublishPcs, StagingPcs
<1>2. calls' = [calls EXCEPT ![c].pc = pc] /\ UNCHANGED settled
  BY DEF Goto, history
<1>3. calls' \in [Calls -> CallRecord]
  BY <1>1, <1>2 DEF TInv, TypeOK, CallRecord
<1>4. CallsOK'
  <2> SUFFICES ASSUME NEW x \in Calls PROVE CallOK(x)'
    BY DEF CallsOK
  <2>1. CASE x # c
    BY <1>2, <2>1 DEF TInv, TypeOK, CallsOK, CallOK
  <2>2. CASE x = c
    <3>1. calls'[c].pc = pc /\ calls'[c].req = calls[c].req
      BY <1>2 DEF TInv, TypeOK
    <3>2. CallOK(c)
      BY DEF TInv, CallsOK
    <3>3. QED
      BY <1>1, <2>2, <3>1, <3>2 DEF CallOK, PublishPcs, UnpublishPcs
  <2>3. QED
    BY <2>1, <2>2
<1>5. QED
  BY <1>2, <1>3, <1>4 DEF TInv, TypeOK

\* So does unlinking a marker, which other calls notice.
LEMMA UnlinkKeepsTypes ==
    ASSUME TInv, NEW c \in Calls, NEW pc \in {"rmdir", "rmdirLast"},
           calls[c].pc \in {"unmark", "unlink"}, UnlinkMarker(c, pc)
    PROVE  TInv'
<1> DEFINE t == calls[c].req.target
<1>1. t \in Targets /\ CallOK(c)
  BY DEF TInv, CallsOK, CallOK, UnpublishPcs
<1>2. marker' \in [Targets -> {NoMarker, Blank, Mixed} \cup Stagings]
  BY <1>1 DEF UnlinkMarker, TInv, TypeOK
<1>3. calls' = [x \in Calls |->
                   IF x = c THEN [calls[x] EXCEPT !.pc = pc]
                   ELSE IF x \in Rivals(t) THEN [calls[x] EXCEPT !.linked = FALSE]
                   ELSE calls[x]]
  BY DEF UnlinkMarker
<1>4. calls' \in [Calls -> CallRecord]
  <2> SUFFICES ASSUME NEW x \in Calls PROVE calls'[x] \in CallRecord
    BY <1>3
  <2>1. calls[x] \in CallRecord
    BY DEF TInv, TypeOK, CallRecord
  <2>2. pc \in Pcs
    BY DEF Pcs
  <2>3. QED
    BY <1>3, <2>1, <2>2 DEF CallRecord
<1>5. CallsOK'
  <2> SUFFICES ASSUME NEW x \in Calls PROVE CallOK(x)'
    BY DEF CallsOK
  <2>1. calls[x] \in CallRecord /\ CallOK(x)
    BY DEF TInv, TypeOK, CallRecord, CallsOK
  <2>2. calls'[x].req = calls[x].req
        /\ calls'[x].pc = IF x = c THEN pc ELSE calls[x].pc
    BY <1>3, <2>1 DEF CallRecord
  <2>3. QED
    BY <1>1, <2>1, <2>2 DEF CallOK, StagingPcs, PublishPcs, UnpublishPcs
<1>6. QED
  BY <1>2, <1>4, <1>5 DEF UnlinkMarker, history, TInv, TypeOK, CallRecord

\* Harm is only added, and to targets.
LEMMA HarmGrows ==
    TInv /\ [Next]_vars => harmed' \subseteq Targets /\ harmed \subseteq harmed'
<1> SUFFICES ASSUME TInv, [Next]_vars
             PROVE  harmed' \subseteq Targets /\ harmed \subseteq harmed'
  OBVIOUS
<1> USE DEF TInv, TypeOK, history
<1>1. ASSUME NEW cs, Harm(cs) PROVE harmed' \subseteq Targets /\ harmed \subseteq harmed'
  BY <1>1 DEF Harm
<1>2. CASE Kill
  BY <1>1, <1>2 DEF Kill
<1>3. ASSUME NEW c \in Calls, Handle(c)
      PROVE  harmed' \subseteq Targets /\ harmed \subseteq harmed'
  <2>1. CASE Fail(c) \/ RemoveFails(c)
    BY <1>1, <2>1 DEF Fail, RemoveFails, End
  <2>2. CASE ~(Fail(c) \/ RemoveFails(c))
    BY <1>3, <2>2 DEF Handle, Stage, Unstage, MakeTarget, MakeTargetRaced, OpenMarker,
          OpenMarkerMissing, WriteMarker, Unmark, Rmdir, RmdirMissing, RmdirNotEmpty,
          List, Unlink, AnswerUnpublish, UnlinkMarker, End, Goto
  <2>3. QED
    BY <2>1, <2>2
<1>4. CASE Start \/ UNCHANGED vars
           \/ \E c \in Calls, r \in Requests : Refuse(c, r) \/ Begin(c, r)
  BY <1>4 DEF Start, vars, Refuse, Begin
<1>5. QED
  BY <1>2, <1>3, <1>4 DEF Next

\* Every step keeps types.
LEMMA NextTInv == TInv /\ [Next]_vars => TInv'
<1> SUFFICES ASSUME TInv, [Next]_vars PROVE TInv'
  OBVIOUS
<1> DEFINE CallsFine == /\ calls' \in [Calls -> CallRecord]
                        /\ settled' \in [Targets -> Stagings \cup {Gone, Unsettled}]
                        /\ CallsOK'
<1> DEFINE FilesFine == /\ staged' \subseteq Stagings /\ targets' \subseteq Targets
                        /\ marker' \in [Targets -> {NoMarker, Blank, Mixed} \cup Stagings]
<1>harm. harmed' \subseteq Targets
  BY HarmGrows
<1>fine. ASSUME up' \in BOOLEAN, CallsFine, FilesFine PROVE TInv'
  BY <1>fine, <1>harm DEF TInv, TypeOK, CallRecord
<1>same. ASSUME UNCHANGED files PROVE FilesFine
  BY <1>same DEF files, TInv, TypeOK
<1>up. up \in BOOLEAN
  BY DEF TInv, TypeOK
<1>codes. {"OK", "Internal", "InvalidArgument", "Unavailable"} \subseteq Codes
  BY DEF Codes
<1>1. CASE Kill
  <2>1. \A x \in Calls : /\ calls'[x] \in CallRecord
                         /\ calls'[x] = calls[x] \/ calls'[x].pc = "done"
    BY <1>1 DEF Kill, Free, TInv, TypeOK, CallRecord, Pcs, Codes
  <2>2. CallsFine
    BY <1>1, <2>1 DEF Kill, TInv, TypeOK, CallsOK, CallOK, StagingPcs, PublishPcs, UnpublishPcs
  <2>3. up' \in BOOLEAN /\ UNCHANGED files
    BY <1>1 DEF Kill
  <2>4. QED
    BY <2>2, <2>3, <1>same, <1>fine
<1>2. CASE Start
  BY <1>2 DEF Start, files, history, TInv, TypeOK, CallsOK, CallOK
<1>3. ASSUME NEW c \in Calls, NEW r \in Requests, Refuse(c, r) PROVE TInv'
  <2> DEFINE free == Free(FirstStep(r), r)
  <2>1. free \in CallRecord /\ free.pc = "done"
    BY <1>3, ChecksPass DEF Refuse, Free, CallRecord, Pcs
  <2>2. \A x \in Calls : calls'[x] = IF x = c THEN free ELSE calls[x]
    BY <1>3 DEF Refuse, TInv, TypeOK
  <2>3. calls' \in [Calls -> CallRecord]
    BY <1>3, <2>1 DEF Refuse, TInv, TypeOK, CallRecord
  <2>4. CallsOK'
    BY <2>1, <2>2 DEF TInv, CallsOK, CallOK, StagingPcs, PublishPcs, UnpublishPcs
  <2>5. QED
    BY <1>3, <2>3, <2>4 DEF Refuse, files, history, TInv, TypeOK, CallRecord
<1>4. ASSUME NEW c \in Calls, NEW r \in Requests, Begin(c, r) PROVE TInv'
  <2> DEFINE mine == [pc |-> FirstStep(r), req |-> r, linked |-> FALSE,
                      alone |-> Rivals(r.target) = {}, clean |-> TRUE,
                      code |-> "none"]
  <2>1. /\ FirstStep(r) \in StagingPcs =>
              r.staging \in Stagings /\ r.target = NoPath
        /\ FirstStep(r) \in PublishPcs =>
              r.op = "publish" /\ r.staging \in Stagings /\ r.target \in Targets
        /\ FirstStep(r) \in UnpublishPcs => r.op = "unpublish" /\ r.target \in Targets
        /\ FirstStep(r) \in Pcs
    BY <1>4, ChecksPass DEF Begin, StagingPcs, PublishPcs, UnpublishPcs, Pcs
  <2>2. mine \in CallRecord
    BY <2>1 DEF CallRecord, Codes
  <2>3. ASSUME NEW x \in Calls
        PROVE  /\ calls'[x] \in CallRecord
               /\ x = c => calls'[x].pc = FirstStep(r) /\ calls'[x].req = r
               /\ x # c => calls'[x].pc = calls[x].pc /\ calls'[x].req = calls[x].req
    <3>1. calls[x] \in CallRecord
      BY DEF TInv, TypeOK, CallRecord
    <3>2. QED
      BY <1>4, <2>2, <3>1 DEF Begin, CallRecord
  <2>4. calls' \in [Calls -> CallRecord]
    <3>1. calls' = [x \in Calls |-> calls'[x]]
      BY <1>4 DEF Begin
    <3>2. QED
      BY <2>3, <3>1
  <2>5. CallsOK'
    <3> SUFFICES ASSUME NEW x \in Calls PROVE CallOK(x)'
      BY DEF CallsOK
    <3>1. CASE x = c
      <4>1. calls'[x].pc = FirstStep(r) /\ calls'[x].req = r
        BY <2>3, <3>1
      <4>2. QED
        BY <2>1, <4>1 DEF CallOK, StagingPcs, PublishPcs, UnpublishPcs
    <3>2. CASE x # c
      BY <2>3, <3>2 DEF TInv, CallsOK, CallOK
    <3>3. QED
      BY <3>1, <3>2
  <2>6. settled' \in [Targets -> Stagings \cup {Gone, Unsettled}]
    BY <1>4 DEF Begin, TInv, TypeOK, OnTarget
  <2>7. QED
    BY <1>4, <2>4, <2>5, <2>6, <1>fine, <1>same, <1>up DEF Begin
<1>5. ASSUME NEW c \in Calls, Handle(c) PROVE TInv'
  <2> DEFINE t == calls[c].req.target
  <2>ok. CallOK(c)
    BY DEF TInv, CallsOK
  <2>end. ASSUME NEW code \in Codes, Answer(c, code),
                 calls[c].pc \in StagingPcs \cup PublishPcs \cup UnpublishPcs
          PROVE  CallsFine
    BY <2>end, EndKeepsTypes DEF InFlight, StagingPcs, PublishPcs, UnpublishPcs
  <2>1. CASE Stage(c)
    <3>1. CallsFine
      BY <2>1, <2>end, <1>codes DEF Stage, End, At, StagingPcs
    <3>2. FilesFine
      BY <2>1, <2>ok DEF Stage, At, CallOK, StagingPcs, TInv, TypeOK
    <3>3. QED
      BY <2>1, <3>1, <3>2, <1>fine, <1>up DEF Stage
  <2>2. CASE Unstage(c)
    <3>1. CallsFine
      BY <2>2, <2>end, <1>codes DEF Unstage, End, At, StagingPcs
    <3>2. FilesFine
      BY <2>2 DEF Unstage, TInv, TypeOK
    <3>3. QED
      BY <2>2, <3>1, <3>2, <1>fine, <1>up DEF Unstage
  <2>3. CASE MakeTarget(c)
    <3>1. CallsFine
      BY <2>3, GotoKeepsTypes DEF MakeTarget, At, PublishPcs
    <3>2. FilesFine
      BY <2>3, <2>ok DEF MakeTarget, At, CallOK, PublishPcs, TInv, TypeOK
    <3>3. QED
      BY <2>3, <3>1, <3>2, <1>fine, <1>up DEF MakeTarget
  <2>4. CASE MakeTargetRaced(c)
    <3>1. CallsFine
      BY <2>4, <2>end, <1>codes DEF MakeTargetRaced, End, At, PublishPcs
    <3>2. QED
      BY <2>4, <3>1, <1>same, <1>fine, <1>up DEF MakeTargetRaced
  <2>5. CASE OpenMarker(c)
    <3>1. t \in Targets /\ calls[c].pc = "open"
      BY <2>5, <2>ok DEF OpenMarker, At, CallOK, PublishPcs
    <3>2. FilesFine
      BY <2>5, <3>1 DEF OpenMarker, Opened, TInv, TypeOK
    <3>3. ASSUME NEW x \in Calls
          PROVE  /\ calls'[x] \in CallRecord /\ calls'[x].req = calls[x].req
                 /\ calls'[x].pc = IF x = c THEN "writing" ELSE calls[x].pc
      BY <2>5 DEF OpenMarker, TInv, TypeOK, CallRecord, Pcs
    <3>4. calls' \in [Calls -> CallRecord]
      <4>1. calls' = [calls EXCEPT ![c].pc = "writing", ![c].linked = TRUE]
        BY <2>5 DEF OpenMarker
      <4>2. calls' = [x \in Calls |-> calls'[x]]
        BY <4>1 DEF TInv, TypeOK
      <4>3. QED
        BY <3>3, <4>2
    <3>5. CallsOK'
      BY <3>1, <3>3 DEF TInv, CallsOK, CallOK, StagingPcs, PublishPcs, UnpublishPcs
    <3>6. QED
      BY <2>5, <3>2, <3>4, <3>5, <1>fine, <1>up DEF OpenMarker, history, TInv, TypeOK
  <2>6. CASE OpenMarkerMissing(c)
    <3>1. CallsFine
      BY <2>6, <2>end, <1>codes DEF OpenMarkerMissing, End, At, PublishPcs
    <3>2. QED
      BY <2>6, <3>1, <1>same, <1>fine, <1>up DEF OpenMarkerMissing
  <2>7. CASE WriteMarker(c)
    <3>1. CallsFine
      BY <2>7, <2>end, <1>codes DEF WriteMarker, End, At, PublishPcs
    <3>2. calls[c].req.staging \in Stagings /\ t \in Targets
      BY <2>7, <2>ok DEF WriteMarker, At, CallOK, PublishPcs
    <3>3. FilesFine
      BY <2>7, <3>2 DEF WriteMarker, Written, TInv, TypeOK
    <3>4. QED
      BY <2>7, <3>1, <3>3, <1>fine, <1>up DEF WriteMarker
  <2>8. CASE Fail(c)
    <3>1. calls[c].pc \in {"stage", "publish", "open", "writing"}
      BY <2>8 DEF Fail
    <3>2. CallsFine
      BY <2>8, <3>1, <2>end, <1>codes DEF Fail, PublishPcs, StagingPcs
    <3>3. FilesFine
      BY <2>8, <2>ok DEF Fail, CallOK, PublishPcs, TInv, TypeOK
    <3>4. QED
      BY <2>8, <3>2, <3>3, <1>fine, <1>up DEF Fail
  <2>9. CASE Unmark(c)
    BY <2>9, UnlinkKeepsTypes DEF Unmark, At, AfterUnmark
  <2>10. CASE Rmdir(c)
    <3>1. ASSUME NEW x \in Calls
          PROVE  /\ calls'[x] \in CallRecord /\ calls'[x].req = calls[x].req
                 /\ \/ calls'[x].pc = calls[x].pc
                    \/ calls[x].pc \in UnpublishPcs /\ calls'[x].pc \in UnpublishPcs
      <4>1. calls[x] \in CallRecord
        BY DEF TInv, TypeOK, CallRecord
      <4>2. QED
        BY <2>10, <4>1 DEF Rmdir, At, CallRecord, Pcs, UnpublishPcs
    <3>2. calls' \in [Calls -> CallRecord]
      <4>1. calls' = [x \in Calls |-> calls'[x]]
        BY <2>10 DEF Rmdir
      <4>2. QED
        BY <3>1, <4>1
    <3>3. CallsOK'
      BY <3>1 DEF TInv, CallsOK, CallOK, StagingPcs, PublishPcs, UnpublishPcs
    <3>4. QED
      BY <2>10, <3>2, <3>3, <1>fine, <1>up DEF Rmdir, history, TInv, TypeOK
  <2>11. CASE RmdirMissing(c)
    <3>1. CallsFine
      BY <2>11, GotoKeepsTypes DEF RmdirMissing, At, UnpublishPcs
    <3>2. QED
      BY <2>11, <3>1, <1>same, <1>fine, <1>up DEF RmdirMissing
  <2>12. CASE RmdirNotEmpty(c)
    <3>1. CallsFine
      BY <2>12, GotoKeepsTypes DEF RmdirNotEmpty, At, UnpublishPcs
    <3>2. up' = up
      BY <2>12 DEF RmdirNotEmpty
    <3>3. QED
      BY <2>12, <3>1, <3>2, <1>same, <1>fine, <1>up DEF RmdirNotEmpty
  <2>13. CASE List(c)
    <3>1. CallsFine
      BY <2>13, GotoKeepsTypes DEF List, At, UnpublishPcs
    <3>2. QED
      BY <2>13, <3>1, <1>same, <1>fine, <1>up DEF List
  <2>14. CASE Unlink(c)
    BY <2>14, UnlinkKeepsTypes DEF Unlink, At
  <2>15. CASE RemoveFails(c)
    <3>1. CallsFine
      <4>1. CASE ~(At(c, "unstage") /\ End(c, "OK"))
        <5>1. /\ calls[c].pc \in UnpublishPcs /\ UNCHANGED settled
              /\ \E pc \in {"rmdir", "answer"} :
                     calls' = [calls EXCEPT ![c].clean = FALSE, ![c].pc = pc]
          BY <2>15, <4>1 DEF RemoveFails, At, AfterUnmark, UnpublishPcs, TInv, TypeOK
        <5>2. PICK pc \in {"rmdir", "answer"} :
                  calls' = [calls EXCEPT ![c].clean = FALSE, ![c].pc = pc]
          BY <5>1
        <5>3. pc \in Pcs /\ pc \in UnpublishPcs
          BY <5>2 DEF Pcs, UnpublishPcs
        <5>4. ASSUME NEW x \in Calls
              PROVE  calls'[x] = IF x = c
                                 THEN [calls[c] EXCEPT !.clean = FALSE, !.pc = pc]
                                 ELSE calls[x]
          BY <5>2 DEF TInv, TypeOK
        <5>5. ASSUME NEW x \in Calls PROVE calls'[x] \in CallRecord /\ CallOK(x)'
          <6>1. calls[x] \in CallRecord /\ CallOK(x)
            BY DEF TInv, TypeOK, CallRecord, CallsOK
          <6>2. CASE x = c
            <7>1. calls'[c].req = calls[c].req /\ calls'[c].pc = pc
              BY <5>4, <6>1, <6>2 DEF CallRecord
            <7>2. CallOK(x)'
              BY <5>1, <5>3, <6>1, <6>2, <7>1
                 DEF CallOK, StagingPcs, PublishPcs, UnpublishPcs
            <7>3. QED
              BY <5>3, <5>4, <6>1, <6>2, <7>2, RecordStays
          <6>3. CASE x # c
            BY <5>4, <6>1, <6>3 DEF CallOK
          <6>4. QED
            BY <6>2, <6>3
        <5>6. calls' = [x \in Calls |-> calls'[x]]
          BY <5>2 DEF TInv, TypeOK
        <5>7. QED
          BY <5>1, <5>5, <5>6 DEF CallsOK, TInv, TypeOK
      <4>3. CASE At(c, "unstage") /\ End(c, "OK")
        BY <4>3, <2>end, <1>codes DEF End, At, StagingPcs
      <4>4. QED
        BY <4>1, <4>3
    <3>2. QED
      BY <2>15, <3>1, <1>same, <1>fine, <1>up DEF RemoveFails
  <2>16. CASE AnswerUnpublish(c)
    <3>1. CallsFine
      BY <2>16, <2>end, <1>codes DEF AnswerUnpublish, End, At, UnpublishPcs
    <3>2. QED
      BY <2>16, <3>1, <1>same, <1>fine, <1>up DEF AnswerUnpublish
  <2>17. QED
    BY <1>5, <2>1, <2>2, <2>3, <2>4, <2>5, <2>6, <2>7, <2>8, <2>9, <2>10, <2>11,
       <2>12, <2>13, <2>14, <2>15, <2>16 DEF Handle
<1>6. CASE UNCHANGED vars
  BY <1>6 DEF vars, files, history, TInv, TypeOK, CallsOK, CallOK
<1>7. QED
  BY <1>1, <1>2, <1>3, <1>4, <1>5, <1>6 DEF Next

\* The files, the calls and the history of the node keep their types, whatever
\* calls overlap, fail or are killed.
THEOREM TypeCorrect == Spec => []TypeOK
<1>1. Spec => []TInv
  BY InitTInv, NextTInv, PTL DEF Spec
<1>2. TInv => TypeOK
  BY DEF TInv
<1>3. QED
  BY <1>1, <1>2, PTL

-----------------------------------------------------------------------------
(* Publishing as a whole.                                                  *)

\* A publish that is about to open the marker, or an unpublish that is about to
\* remove the directory.
Pending(c, t) ==
    /\ calls[c].req.target = t
    /\ calls[c].pc \in {"open", "rmdir", "list", "unlink", "rmdirLast"}

\* A publish that is about to write the marker.
Writer(c, t) ==
    calls[c].req.target = t /\ calls[c].pc = "writing" /\ calls[c].linked

TargetOK(t) ==
    /\ marker[t] # NoMarker => t \in targets
    /\ t \notin harmed /\ t \in targets /\ marker[t] = NoMarker
           => \E c \in Calls : Pending(c, t)
    /\ t \notin harmed /\ marker[t] = Blank => \E c \in Calls : Writer(c, t)

\* A directory without a marker, and a marker without its line, each have a
\* call in progress that will mend it, unless a call on that target was cut
\* short.
BareInv ==
    /\ TInv
    /\ \A t \in Targets : TargetOK(t)
    /\ \A c \in Calls, t \in Targets : Writer(c, t) => marker[t] # NoMarker

\* What a call does to its own target does not disturb the others.
LEMMA OthersKeep ==
    ASSUME BareInv, NEW c \in Calls, NEW t \in Targets, calls[c].req.target # t,
           t \in targets' <=> t \in targets, marker'[t] = marker[t],
           harmed \subseteq harmed',
           \A x \in Calls : x # c /\ calls[x].req.target = t => calls'[x] = calls[x]
    PROVE  TargetOK(t)'
<1>1. TargetOK(t)
  BY DEF BareInv
<1>2. \A x \in Calls : /\ Pending(x, t) => Pending(x, t)'
                       /\ Writer(x, t) => Writer(x, t)'
  BY DEF Pending, Writer
<1>3. QED
  BY <1>1, <1>2 DEF TargetOK

\* A step in which no call becomes a writer and no marker is removed.
LEMMA WritersKeep ==
    ASSUME BareInv,
           \A x \in Calls, t \in Targets : Writer(x, t)' => Writer(x, t),
           \A t \in Targets : marker[t] # NoMarker => marker'[t] # NoMarker
    PROVE  \A x \in Calls, t \in Targets : Writer(x, t)' => marker'[t] # NoMarker
  BY DEF BareInv

LEMMA InitBareInv == Init => BareInv
<1> SUFFICES ASSUME Init PROVE BareInv
  OBVIOUS
<1>1. \A c \in Calls : calls[c].pc = "done"
  BY DEF Init, Free
<1>2. \A t \in Targets : TargetOK(t)
  BY MarkerAssumption DEF Init, TargetOK
<1>3. QED
  BY <1>1, <1>2, InitTInv DEF BareInv, Writer

\* A step that ends a call, or takes it further, and changes no file.
LEMMA QuietStep ==
    ASSUME BareInv, NEW c \in Calls, UNCHANGED files, harmed \subseteq harmed',
           \A x \in Calls : x # c => calls'[x] = calls[x],
           calls'[c].req = calls[c].req, calls'[c].pc # "writing",
           \A t \in Targets : /\ t \notin harmed'
                              /\ Pending(c, t) /\ t \in targets /\ marker[t] = NoMarker
                              => Pending(c, t)',
           \A t \in Targets : t \notin harmed' => ~(Writer(c, t) /\ marker[t] = Blank)
    PROVE  /\ \A t \in Targets : TargetOK(t)'
           /\ \A x \in Calls, t \in Targets : Writer(x, t)' => marker'[t] # NoMarker
<1>1. ASSUME NEW t \in Targets PROVE TargetOK(t)'
  <2>1. TargetOK(t) /\ marker'[t] = marker[t] /\ targets' = targets
    BY DEF BareInv, files
  <2>2. ASSUME NEW x \in Calls, Pending(x, t), t \in targets, marker[t] = NoMarker,
               t \notin harmed'
        PROVE  Pending(x, t)'
    BY <2>2 DEF Pending
  <2>3. ASSUME NEW x \in Calls, Writer(x, t), marker[t] = Blank, t \notin harmed'
        PROVE  Writer(x, t)'
    BY <2>3 DEF Writer
  <2>4. QED
    BY <2>1, <2>2, <2>3 DEF TargetOK
<1>2. \A x \in Calls, t \in Targets : Writer(x, t)' => Writer(x, t)
  BY DEF Writer
<1>3. QED
  BY <1>1, <1>2, WritersKeep DEF files

\* The handler's steps, one after the other.
LEMMA HandleKeepsBare ==
    ASSUME BareInv, NEW c \in Calls, Handle(c), TInv', harmed \subseteq harmed'
    PROVE  /\ \A t \in Targets : TargetOK(t)'
           /\ \A x \in Calls, t \in Targets : Writer(x, t)' => marker'[t] # NoMarker
<1> DEFINE tc == calls[c].req.target
<1> DEFINE Goal == /\ \A t \in Targets : TargetOK(t)'
                   /\ \A x \in Calls, t \in Targets : Writer(x, t)' => marker'[t] # NoMarker
<1>types. /\ calls \in [Calls -> CallRecord]
          /\ marker \in [Targets -> {NoMarker, Blank, Mixed} \cup Stagings]
          /\ CallOK(c)
  BY DEF BareInv, TInv, TypeOK, CallRecord, CallsOK
<1>end. ASSUME NEW code, End(c, code)
        PROVE  /\ \A x \in Calls : x # c => calls'[x] = calls[x]
               /\ calls'[c].req = calls[c].req /\ calls'[c].pc = "done"
  BY <1>end, <1>types DEF End, Answer, Free
<1>goto. ASSUME NEW pc, Goto(c, pc)
         PROVE  /\ \A x \in Calls : x # c => calls'[x] = calls[x]
                /\ calls'[c].req = calls[c].req /\ calls'[c].pc = pc
  BY <1>goto, <1>types DEF Goto, CallRecord
<1>1. CASE Stage(c) \/ Unstage(c)
  <2>1. /\ calls[c].pc \in {"stage", "unstage"}
        /\ End(c, "OK") /\ UNCHANGED <<targets, marker>>
    BY <1>1 DEF Stage, Unstage, At
  <2>2. \A t \in Targets : tc # t
    BY <1>types, <2>1, PathsAssumption DEF CallOK, StagingPcs
  <2>3. \A t \in Targets : TargetOK(t)'
    BY <2>1, <2>2, <1>end, OthersKeep
  <2>4. \A x \in Calls, t \in Targets : Writer(x, t)' => Writer(x, t)
    BY <2>1, <1>end DEF Writer
  <2>5. QED
    BY <2>1, <2>3, <2>4, WritersKeep
<1>2. CASE MakeTarget(c)
  <2>1. /\ calls[c].pc = "publish" /\ tc \in Targets
        /\ targets' = targets \cup {tc} /\ UNCHANGED marker /\ Goto(c, "open")
    BY <1>2, <1>types DEF MakeTarget, At, CallOK, PublishPcs
  <2>2. ASSUME NEW t \in Targets, t # tc PROVE TargetOK(t)'
    BY <2>1, <2>2, <1>goto, OthersKeep
  <2>3. ASSUME NEW t \in Targets, t = tc PROVE TargetOK(t)'
    <3>1. TargetOK(t)
      BY DEF BareInv
    <3>2. Pending(c, t)'
      BY <2>1, <2>3, <1>goto DEF Pending
    <3>3. \A x \in Calls : Writer(x, t) => Writer(x, t)'
      BY <2>1, <1>goto DEF Writer
    <3>4. QED
      BY <2>1, <2>3, <3>1, <3>2, <3>3 DEF TargetOK
  <2>4. \A x \in Calls, t \in Targets : Writer(x, t)' => Writer(x, t)
    BY <2>1, <1>goto DEF Writer
  <2>5. QED
    BY <2>1, <2>2, <2>3, <2>4, WritersKeep
<1>3. CASE MakeTargetRaced(c)
  <2>1. calls[c].pc = "publish" /\ UNCHANGED files /\ End(c, "Internal")
    BY <1>3 DEF MakeTargetRaced, At
  <2>2. \A t \in Targets : ~Pending(c, t) /\ ~Writer(c, t)
    BY <2>1 DEF Pending, Writer
  <2>3. QED
    BY <2>1, <2>2, <1>end, QuietStep
<1>4. CASE OpenMarker(c)
  <2>1. /\ calls[c].pc = "open" /\ tc \in Targets /\ tc \in targets
        /\ marker' = [marker EXCEPT ![tc] = Blank] /\ UNCHANGED targets
        /\ calls' = [calls EXCEPT ![c].pc = "writing", ![c].linked = TRUE]
    BY <1>4, <1>types DEF OpenMarker, Opened, At, CallOK, PublishPcs
  <2>2. /\ \A x \in Calls : x # c => calls'[x] = calls[x]
        /\ calls'[c].pc = "writing" /\ calls'[c].linked /\ calls'[c].req = calls[c].req
    BY <2>1, <1>types DEF CallRecord
  <2>3. \A t \in Targets : marker'[t] = IF t = tc THEN Blank ELSE marker[t]
    BY <2>1, <1>types
  <2>4. ASSUME NEW t \in Targets, t # tc PROVE TargetOK(t)'
    BY <2>1, <2>2, <2>3, <2>4, OthersKeep
  <2>5. ASSUME NEW t \in Targets, t = tc PROVE TargetOK(t)'
    BY <2>1, <2>2, <2>3, <2>5, MarkerAssumption DEF TargetOK, Writer
  <2>6. ASSUME NEW x \in Calls, NEW t \in Targets, Writer(x, t)'
        PROVE  marker'[t] # NoMarker
    <3>1. CASE t = tc
      BY <2>3, <3>1, MarkerAssumption
    <3>2. CASE t # tc
      <4>1. Writer(x, t)
        BY <2>2, <2>6, <3>2 DEF Writer
      <4>2. QED
        BY <2>3, <3>2, <4>1 DEF BareInv
    <3>3. QED
      BY <3>1, <3>2
  <2>7. QED
    BY <2>4, <2>5, <2>6
<1>5. CASE OpenMarkerMissing(c)
  <2>1. calls[c].pc = "open" /\ tc \notin targets /\ UNCHANGED files /\ End(c, "Internal")
    BY <1>5 DEF OpenMarkerMissing, At
  <2>2. \A t \in Targets : ~(Pending(c, t) /\ t \in targets) /\ ~Writer(c, t)
    BY <2>1 DEF Pending, Writer
  <2>3. QED
    BY <2>1, <2>2, <1>end, QuietStep
<1>6. CASE WriteMarker(c) /\ calls[c].linked
  <2>1. PICK v \in Written(marker[tc], calls[c].req.staging) :
            marker' = [marker EXCEPT ![tc] = v]
    BY <1>6 DEF WriteMarker
  <2>2. /\ calls[c].pc = "writing" /\ UNCHANGED targets /\ End(c, "OK")
        /\ tc \in Targets /\ calls[c].req.staging \in Stagings
    BY <1>6, <1>types DEF WriteMarker, At, CallOK, PublishPcs
  <2>3. v # NoMarker /\ v # Blank
    BY <2>1, <2>2, MarkerAssumption DEF Written
  <2>4. \A t \in Targets : marker'[t] = IF t = tc THEN v ELSE marker[t]
    BY <2>1, <2>2, <1>types
  <2>5. ASSUME NEW t \in Targets, t # tc PROVE TargetOK(t)'
    BY <2>2, <2>4, <2>5, <1>end, OthersKeep
  <2>6. ASSUME NEW t \in Targets, t = tc PROVE TargetOK(t)'
    <3>1. Writer(c, tc)
      BY <1>6, <2>2 DEF Writer
    <3>2. tc \in targets
      BY <2>2, <3>1 DEF BareInv, TargetOK
    <3>3. QED
      BY <2>2, <2>3, <2>4, <2>6, <3>2 DEF TargetOK
  <2>7. \A x \in Calls, t \in Targets : Writer(x, t)' => Writer(x, t)
    BY <2>2, <1>end DEF Writer
  <2>8. QED
    BY <2>3, <2>4, <2>5, <2>6, <2>7, WritersKeep
<1>7. CASE WriteMarker(c) /\ ~calls[c].linked
  <2>1. calls[c].pc = "writing" /\ UNCHANGED files /\ End(c, "OK")
    BY <1>7 DEF WriteMarker, At, files
  <2>2. \A t \in Targets : ~Pending(c, t) /\ ~Writer(c, t)
    BY <2>1, <1>7 DEF Pending, Writer
  <2>3. QED
    BY <2>1, <2>2, <1>end, QuietStep
<1>8. CASE Unmark(c) \/ Unlink(c)
  <2>1. /\ calls[c].pc \in {"unmark", "unlink"} /\ tc \in Targets
        /\ \E pc \in {"rmdir", "rmdirLast"} : UnlinkMarker(c, pc)
    BY <1>8, <1>types DEF Unmark, Unlink, At, AfterUnmark, CallOK, UnpublishPcs
  <2>2. PICK pc \in {"rmdir", "rmdirLast"} : UnlinkMarker(c, pc)
    BY <2>1
  <2>3. \A t \in Targets : marker'[t] = IF t = tc THEN NoMarker ELSE marker[t]
    BY <2>1, <2>2, <1>types DEF UnlinkMarker
  <2>4. ASSUME NEW x \in Calls
        PROVE  /\ x = c => calls'[x].pc = pc /\ calls'[x].req = calls[x].req
               /\ x # c /\ x \in Rivals(tc) => ~calls'[x].linked
               /\ x # c /\ x \notin Rivals(tc) => calls'[x] = calls[x]
               /\ calls'[x].req = calls[x].req
    BY <2>2, <1>types DEF UnlinkMarker, CallRecord
  <2>5. ASSUME NEW t \in Targets, t # tc PROVE TargetOK(t)'
    <3>1. \A x \in Calls : x # c /\ calls[x].req.target = t => calls'[x] = calls[x]
      BY <2>4, <2>5 DEF Rivals
    <3>2. QED
      BY <2>2, <2>3, <2>5, <3>1, OthersKeep DEF UnlinkMarker
  <2>6. ASSUME NEW t \in Targets, t = tc PROVE TargetOK(t)'
    <3>1. Pending(c, t)'
      BY <2>4, <2>6 DEF Pending
    <3>2. QED
      BY <2>3, <2>6, <3>1, MarkerAssumption DEF TargetOK
  <2>7. ASSUME NEW x \in Calls, NEW t \in Targets, Writer(x, t)'
        PROVE  marker'[t] # NoMarker
    <3>1. x # c
      BY <2>4, <2>7 DEF Writer
    <3>2. x \notin Rivals(tc)
      BY <2>4, <2>7, <3>1 DEF Writer
    <3>3. Writer(x, t) /\ t # tc
      BY <2>4, <2>7, <3>1, <3>2 DEF Writer, Rivals, InFlight
    <3>4. QED
      BY <2>3, <3>3 DEF BareInv
  <2>8. QED
    BY <2>5, <2>6, <2>7
<1>9. CASE Rmdir(c)
  <2>1. /\ tc \in Targets /\ marker[tc] = NoMarker /\ UNCHANGED marker
        /\ targets' = targets \ {tc} /\ calls[c].pc \in {"rmdir", "rmdirLast"}
    BY <1>9, <1>types DEF Rmdir, At, CallOK, UnpublishPcs
  <2>2. ASSUME NEW x \in Calls
        PROVE  /\ x # c /\ calls[x].req.target # tc => calls'[x] = calls[x]
               /\ calls'[x].req = calls[x].req /\ calls'[x].linked = calls[x].linked
               /\ calls'[x].pc = "writing" => calls[x].pc = "writing"
    BY <1>9, <1>types DEF Rmdir, CallRecord, Rivals
  <2>3. ASSUME NEW t \in Targets, t # tc PROVE TargetOK(t)'
    BY <2>1, <2>2, <2>3, OthersKeep
  <2>4. ASSUME NEW t \in Targets, t = tc PROVE TargetOK(t)'
    BY <2>1, <2>4, MarkerAssumption DEF TargetOK
  <2>5. \A x \in Calls, t \in Targets : Writer(x, t)' => Writer(x, t)
    BY <2>2 DEF Writer
  <2>6. QED
    BY <2>1, <2>3, <2>4, <2>5, WritersKeep
<1>10. CASE RmdirMissing(c)
  <2>1. /\ calls[c].pc \in {"rmdir", "rmdirLast"} /\ tc \notin targets
        /\ UNCHANGED files /\ Goto(c, "answer")
    BY <1>10 DEF RmdirMissing, At
  <2>2. \A t \in Targets : ~(Pending(c, t) /\ t \in targets) /\ ~Writer(c, t)
    BY <2>1 DEF Pending, Writer
  <2>3. QED
    BY <2>1, <2>2, <1>goto, QuietStep
<1>11. CASE RmdirNotEmpty(c)
  <2>1. PICK pc \in {"list", "answer"} : Goto(c, pc)
    BY <1>11 DEF RmdirNotEmpty
  <2>2. /\ calls[c].pc \in {"rmdir", "rmdirLast"} /\ marker[tc] # NoMarker
        /\ UNCHANGED files
    BY <1>11 DEF RmdirNotEmpty, At
  <2>3. \A t \in Targets : ~(Pending(c, t) /\ marker[t] = NoMarker) /\ ~Writer(c, t)
    BY <2>2 DEF Pending, Writer
  <2>4. QED
    BY <2>1, <2>2, <2>3, <1>goto, QuietStep
<1>12. CASE List(c)
  <2>1. PICK pc \in {"unlink", "rmdirLast", "answer"} : Goto(c, pc)
    BY <1>12 DEF List
  <2>2. /\ calls[c].pc = "list" /\ UNCHANGED files
        /\ tc \in targets => Goto(c, "unlink") \/ Goto(c, "rmdirLast")
    BY <1>12 DEF List, At
  <2>3. \A t \in Targets : Pending(c, t) /\ t \in targets => Pending(c, t)'
    BY <2>2, <1>goto DEF Pending
  <2>4. \A t \in Targets : ~Writer(c, t)
    BY <2>2 DEF Writer
  <2>5. QED
    BY <2>1, <2>2, <2>3, <2>4, <1>goto, QuietStep
<1>13. CASE AnswerUnpublish(c)
  <2>1. calls[c].pc = "answer" /\ UNCHANGED files /\ End(c, "OK")
    BY <1>13 DEF AnswerUnpublish, At
  <2>2. \A t \in Targets : ~Pending(c, t) /\ ~Writer(c, t)
    BY <2>1 DEF Pending, Writer
  <2>3. QED
    BY <2>1, <2>2, <1>end, QuietStep
<1>14. CASE Fail(c)
  <2>1. /\ calls[c].pc \in {"stage", "publish", "open", "writing"}
        /\ UNCHANGED targets /\ Answer(c, "Internal")
        /\ harmed' = harmed \cup ({tc} \cap Targets)
    BY <1>14 DEF Fail, Harm
  <2>2. /\ \A x \in Calls : x # c => calls'[x] = calls[x]
        /\ calls'[c].pc = "done"
    BY <2>1, <1>types DEF Answer, Free
  <2>3. ASSUME NEW t \in Targets
        PROVE  \/ marker'[t] = marker[t]
               \/ t = tc /\ marker'[t] # NoMarker /\ Writer(c, t)
    <3>1. CASE UNCHANGED marker
      BY <3>1
    <3>2. CASE /\ calls[c].pc = "writing" /\ calls[c].linked
               /\ \E v \in {Mixed, calls[c].req.staging} :
                      marker' = [marker EXCEPT ![tc] = v]
      BY <3>2, <1>types, MarkerAssumption DEF CallOK, PublishPcs, Writer
    <3>3. QED
      BY <1>14, <3>1, <3>2 DEF Fail
  <2>4. ASSUME NEW t \in Targets, t # tc PROVE TargetOK(t)'
    BY <2>1, <2>2, <2>3, <2>4, OthersKeep
  <2>5. ASSUME NEW t \in Targets, t = tc PROVE TargetOK(t)'
    BY <2>1, <2>3, <2>5 DEF TargetOK, BareInv
  <2>6. \A x \in Calls, t \in Targets : Writer(x, t)' => Writer(x, t)
    BY <2>2 DEF Writer
  <2>7. QED
    BY <2>3, <2>4, <2>5, <2>6, WritersKeep
<1>15. CASE RemoveFails(c)
  <2>1. CASE At(c, "unstage") /\ End(c, "OK")
    <3>1. calls[c].pc = "unstage" /\ UNCHANGED files
      BY <1>15, <2>1 DEF At, RemoveFails
    <3>2. \A t \in Targets : ~Pending(c, t) /\ ~Writer(c, t)
      BY <3>1 DEF Pending, Writer
    <3>3. QED
      BY <2>1, <3>1, <3>2, <1>end, QuietStep
  <2>2. CASE ~(At(c, "unstage") /\ End(c, "OK"))
    <3>1. /\ calls[c].pc \in UnpublishPcs /\ UNCHANGED files
          /\ calls' = [calls EXCEPT ![c].clean = FALSE,
                          ![c].pc = IF @ = "unmark" THEN AfterUnmark ELSE "answer"]
          /\ harmed' = harmed \cup ({tc} \cap Targets)
      BY <1>15, <2>2 DEF RemoveFails, Harm, At, UnpublishPcs
    <3>2. /\ \A x \in Calls : x # c => calls'[x] = calls[x]
          /\ calls'[c].req = calls[c].req /\ calls'[c].pc # "writing"
      BY <3>1, <1>types DEF AfterUnmark, CallRecord
    <3>3. \A t \in Targets : t \notin harmed' => ~Pending(c, t)
      BY <3>1 DEF Pending
    <3>4. \A t \in Targets : ~Writer(c, t)
      BY <3>1 DEF Writer, UnpublishPcs
    <3>5. QED
      BY <3>1, <3>2, <3>3, <3>4, QuietStep
  <2>3. QED
    BY <2>1, <2>2
<1>16. QED
  BY <1>1, <1>2, <1>3, <1>4, <1>5, <1>6, <1>7, <1>8, <1>9, <1>10, <1>11, <1>12,
     <1>13, <1>14, <1>15 DEF Handle

LEMMA NextBareInv == BareInv /\ [Next]_vars => BareInv'
<1> SUFFICES ASSUME BareInv, [Next]_vars PROVE BareInv'
  OBVIOUS
<1>types. TInv' /\ calls \in [Calls -> CallRecord] /\ harmed \subseteq harmed'
  BY NextTInv, HarmGrows DEF BareInv, TInv, TypeOK, CallRecord
\* A step that leaves the files alone and only adds to the calls in progress.
<1>keep. ASSUME UNCHANGED files,
                \A x \in Calls, t \in Targets : Pending(x, t) => Pending(x, t)',
                \A x \in Calls, t \in Targets : Writer(x, t)' <=> Writer(x, t)
         PROVE  BareInv'
  BY <1>keep, <1>types DEF BareInv, TargetOK, files
<1>1. CASE Start
  BY <1>1, <1>keep DEF Start, files, Pending, Writer
<1>2. ASSUME NEW c \in Calls, NEW r \in Requests, Refuse(c, r) PROVE BareInv'
  <2>1. /\ UNCHANGED files /\ calls[c].pc = "done" /\ calls'[c].pc = "done"
        /\ \A x \in Calls : x # c => calls'[x] = calls[x]
    BY <1>2, <1>types DEF Refuse, InFlight, Free
  <2>2. QED
    BY <2>1, <1>keep DEF Pending, Writer
<1>3. ASSUME NEW c \in Calls, NEW r \in Requests, Begin(c, r) PROVE BareInv'
  <2>1. UNCHANGED files /\ calls[c].pc = "done"
    BY <1>3 DEF Begin, InFlight
  <2>2. calls'[c].pc \in {"stage", "unstage", "publish", "unmark"}
    <3>1. calls'[c].pc = FirstStep(r)
      BY <1>3 DEF Begin
    <3>2. QED
      BY <1>3, <3>1, ChecksPass DEF Begin, StagingPcs
  <2>3. ASSUME NEW x \in Calls, x # c
        PROVE  /\ calls'[x].pc = calls[x].pc /\ calls'[x].req = calls[x].req
               /\ calls'[x].linked = calls[x].linked
    BY <1>3, <2>3, <1>types DEF Begin, CallRecord
  <2>4. QED
    BY <2>1, <2>2, <2>3, <1>keep DEF Pending, Writer
<1>4. ASSUME NEW c \in Calls, Handle(c) PROVE BareInv'
  BY <1>4, <1>types, HandleKeepsBare DEF BareInv
<1>5. CASE UNCHANGED vars
  BY <1>5, <1>keep DEF vars, files, Pending, Writer
<1>6. CASE Kill
  <2>1. /\ UNCHANGED files
        /\ harmed' = harmed \cup ({calls[c].req.target : c \in {x \in Calls : InFlight(x)}}
                                 \cap Targets)
        /\ \A x \in Calls : calls'[x].pc = "done"
    BY <1>6 DEF Kill, Harm, InFlight, Free
  <2>2. ASSUME NEW t \in Targets, t \notin harmed', NEW x \in Calls
        PROVE  ~Pending(x, t) /\ ~Writer(x, t)
    BY <2>1, <2>2 DEF Pending, Writer, InFlight
  <2>3. \A t \in Targets : TargetOK(t)'
    BY <2>1, <2>2, <1>types DEF TargetOK, BareInv, files
  <2>4. \A x \in Calls, t \in Targets : ~Writer(x, t)'
    BY <2>1 DEF Writer
  <2>5. QED
    BY <2>3, <2>4, <1>types DEF BareInv
<1>7. QED
  BY <1>1, <1>2, <1>3, <1>4, <1>5, <1>6 DEF Next

\* However many publishes and unpublishes of a target overlap, at whatever
\* system calls they interleave, whatever fails or is killed on other targets:
\* once they are over the target does not exist or it has its marker with its
\* line.
THEOREM TargetsAreWhole == Spec => []NoBareTarget
<1>1. Spec => []BareInv
  BY InitBareInv, NextBareInv, PTL DEF Spec
<1>2. BareInv => NoBareTarget
  <2> SUFFICES ASSUME BareInv, NEW t \in Targets, Quiet(t), t \notin harmed
               PROVE  /\ marker[t] # Blank
                      /\ t \in targets <=> marker[t] # NoMarker
    BY DEF NoBareTarget
  <2>1. \A c \in Calls : ~Pending(c, t) /\ ~Writer(c, t)
    BY DEF Quiet, Rivals, InFlight, Pending, Writer
  <2>2. QED
    BY <2>1 DEF BareInv, TargetOK
<1>3. QED
  BY <1>1, <1>2, PTL

-----------------------------------------------------------------------------
(* Calls that overlap no other.                                            *)

\* What a step of a call leaves alone: other calls but for their steps, other
\* targets, and what is known of its own target if it has overlapped a call.
LEMMA HandleIsLocal ==
    ASSUME TInv, NEW c \in Calls, Handle(c)
    PROVE  LET tc == calls[c].req.target
           IN  /\ InFlight(c) /\ calls'[c].req = calls[c].req
               /\ InFlight(c)' => calls'[c].alone = calls[c].alone
               /\ \A x \in Calls \ {c} :
                      /\ calls'[x].req = calls[x].req
                      /\ calls'[x].alone = calls[x].alone
                      /\ InFlight(x)' <=> InFlight(x)
                      /\ x \notin Rivals(tc) => calls'[x] = calls[x]
               /\ \A t \in Targets \ {tc} :
                      /\ t \in targets' <=> t \in targets
                      /\ marker'[t] = marker[t] /\ settled'[t] = settled[t]
               /\ ~calls[c].alone => settled' = settled
<1> DEFINE tc == calls[c].req.target
           Mine == /\ InFlight(c) /\ calls'[c].req = calls[c].req
                   /\ InFlight(c)' => calls'[c].alone = calls[c].alone
           Others == \A x \in Calls \ {c} :
                      /\ calls'[x].req = calls[x].req
                      /\ calls'[x].alone = calls[x].alone
                      /\ InFlight(x)' <=> InFlight(x)
                      /\ x \notin Rivals(tc) => calls'[x] = calls[x]
           Elsewhere == \A t \in Targets \ {tc} :
                      /\ t \in targets' <=> t \in targets
                      /\ marker'[t] = marker[t]
           Known == /\ \A t \in Targets \ {tc} : settled'[t] = settled[t]
                    /\ ~calls[c].alone => settled' = settled
<1>types. /\ calls \in [Calls -> CallRecord]
          /\ marker \in [Targets -> {NoMarker, Blank, Mixed} \cup Stagings]
          /\ settled \in [Targets -> Stagings \cup {Gone, Unsettled}]
          /\ CallOK(c)
  BY DEF TInv, TypeOK, CallRecord, CallsOK
<1>answer. ASSUME NEW code, Answer(c, code), InFlight(c) PROVE Mine /\ Others /\ Known
  BY <1>answer, <1>types DEF Answer, Free, InFlight, OnTarget
<1>goto. ASSUME NEW pc, Goto(c, pc), InFlight(c) PROVE Mine /\ Others /\ Known
  BY <1>goto, <1>types DEF Goto, history, CallRecord, InFlight
<1>files. ASSUME UNCHANGED files PROVE Elsewhere
  BY <1>files DEF files
<1>1. CASE Stage(c) \/ Unstage(c)
  BY <1>1, <1>answer DEF Stage, Unstage, At, InFlight, End
<1>2. CASE MakeTarget(c)
  BY <1>2, <1>goto DEF MakeTarget, At, InFlight
<1>3. CASE MakeTargetRaced(c) \/ OpenMarkerMissing(c) \/ AnswerUnpublish(c)
  BY <1>3, <1>answer, <1>files
     DEF MakeTargetRaced, OpenMarkerMissing, AnswerUnpublish, At, InFlight, End
<1>4. CASE OpenMarker(c)
  <2>1. /\ calls[c].pc = "open" /\ UNCHANGED <<targets, settled>>
        /\ marker' = [marker EXCEPT ![tc] = Blank]
        /\ calls' = [calls EXCEPT ![c].pc = "writing", ![c].linked = TRUE]
    BY <1>4 DEF OpenMarker, Opened, At, history
  <2>2. Mine /\ Others
    BY <2>1, <1>types DEF CallRecord, InFlight
  <2>3. QED
    BY <2>1, <2>2, <1>types
<1>5. CASE WriteMarker(c)
  <2>1. Mine /\ Others /\ Known
    BY <1>5, <1>answer DEF WriteMarker, At, InFlight, End
  <2>2. Elsewhere
    BY <1>5, <1>types DEF WriteMarker
  <2>3. QED
    BY <2>1, <2>2
<1>6. CASE Fail(c)
  <2>1. Mine /\ Others /\ Known
    BY <1>6, <1>answer DEF Fail, InFlight
  <2>2. Elsewhere
    BY <1>6, <1>types DEF Fail
  <2>3. QED
    BY <2>1, <2>2
<1>7. CASE Unmark(c) \/ Unlink(c)
  <2>1. PICK pc \in {"rmdir", "rmdirLast"} : UnlinkMarker(c, pc)
    BY <1>7 DEF Unmark, Unlink, AfterUnmark
  <2>2. InFlight(c)
    BY <1>7 DEF Unmark, Unlink, At, InFlight
  <2>3. /\ UNCHANGED <<targets, settled>>
        /\ marker' = [marker EXCEPT ![tc] = NoMarker]
    BY <2>1 DEF UnlinkMarker, history
  <2>4. Mine
    BY <2>1, <2>2, <1>types DEF UnlinkMarker, CallRecord
  <2>5. Others
    BY <2>1, <1>types DEF UnlinkMarker, CallRecord, InFlight
  <2>6. QED
    BY <2>3, <2>4, <2>5, <1>types
<1>8. CASE Rmdir(c)
  <2>1. /\ InFlight(c) /\ targets' = targets \ {tc} /\ UNCHANGED <<marker, settled>>
    BY <1>8 DEF Rmdir, At, InFlight, history
  <2>2. Mine
    BY <1>8, <2>1, <1>types DEF Rmdir, CallRecord
  <2>3. Others
    BY <1>8, <1>types DEF Rmdir, CallRecord, InFlight
  <2>4. QED
    BY <2>1, <2>2, <2>3
<1>9. CASE RmdirMissing(c) \/ RmdirNotEmpty(c) \/ List(c)
  <2>1. InFlight(c) /\ UNCHANGED files /\ \E pc : Goto(c, pc)
    BY <1>9 DEF RmdirMissing, RmdirNotEmpty, List, At, InFlight
  <2>2. QED
    BY <2>1, <1>goto, <1>files
<1>10. CASE RemoveFails(c)
  <2>1. UNCHANGED files
    BY <1>10 DEF RemoveFails
  <2>2. CASE At(c, "unstage") /\ End(c, "OK")
    BY <2>1, <2>2, <1>answer, <1>files DEF At, InFlight, End
  <2>3. CASE ~(At(c, "unstage") /\ End(c, "OK"))
    <3>1. /\ InFlight(c) /\ UNCHANGED settled
          /\ \E pc : calls' = [calls EXCEPT ![c].clean = FALSE, ![c].pc = pc]
      BY <1>10, <2>3 DEF RemoveFails, At, InFlight
    <3>2. Mine /\ Others
      BY <3>1, <1>types DEF CallRecord, InFlight
    <3>3. QED
      BY <2>1, <3>1, <3>2, <1>files
  <2>4. QED
    BY <2>2, <2>3
<1>11. QED
  BY <1>1, <1>2, <1>3, <1>4, <1>5, <1>6, <1>7, <1>8, <1>9, <1>10 DEF Handle

\* What is known of a target is so.
SettledOK(t) ==
    /\ settled[t] # Unsettled => Rivals(t) = {}
    /\ settled[t] \in Stagings => t \in targets /\ marker[t] = settled[t]
    /\ settled[t] = Gone => t \notin targets /\ marker[t] = NoMarker

\* A call that has overlapped no other finds what it has left, step by step.
LoneOK(c, t) ==
    c \in Rivals(t) /\ calls[c].alone =>
        /\ Rivals(t) = {c}
        /\ calls[c].pc = "open" => t \in targets
        /\ calls[c].pc = "writing" => /\ calls[c].linked /\ t \in targets
                                      /\ marker[t] = Blank
        /\ calls[c].clean =>
               /\ calls[c].pc \notin {"list", "unlink", "rmdirLast"}
               /\ calls[c].pc = "rmdir" => marker[t] = NoMarker
               /\ calls[c].pc = "answer" => t \notin targets /\ marker[t] = NoMarker

SettleInv == /\ TInv
             /\ \A t \in Targets : SettledOK(t) /\ \A c \in Calls : LoneOK(c, t)

LEMMA InitSettleInv == Init => SettleInv
<1> SUFFICES ASSUME Init PROVE SettleInv
  OBVIOUS
<1>1. \A t \in Targets : Rivals(t) = {}
  BY DEF Init, Free, Rivals, InFlight
<1>2. \A t \in Targets : SettledOK(t)
  BY <1>1, HistoryAssumption DEF Init, SettledOK
<1>3. \A t \in Targets, c \in Calls : LoneOK(c, t)
  BY <1>1 DEF LoneOK
<1>4. QED
  BY <1>2, <1>3, InitTInv DEF SettleInv

\* The steps of a call that has overlapped no other, on its own target.
LEMMA LoneStep ==
    ASSUME SettleInv, NEW c \in Calls, Handle(c), TInv',
           NEW t \in Targets, calls[c].req.target = t, calls[c].alone
    PROVE  /\ SettledOK(t)'
           /\ InFlight(c)' =>
                /\ calls'[c].pc = "open" => t \in targets'
                /\ calls'[c].pc = "writing" => /\ calls'[c].linked /\ t \in targets'
                                               /\ marker'[t] = Blank
                /\ calls'[c].clean =>
                     /\ calls'[c].pc \notin {"list", "unlink", "rmdirLast"}
                     /\ calls'[c].pc = "rmdir" => marker'[t] = NoMarker
                     /\ calls'[c].pc = "answer" => t \notin targets' /\ marker'[t] = NoMarker
<1>types. /\ calls \in [Calls -> CallRecord]
          /\ marker \in [Targets -> {NoMarker, Blank, Mixed} \cup Stagings]
          /\ settled \in [Targets -> Stagings \cup {Gone, Unsettled}]
          /\ CallOK(c)
  BY DEF SettleInv, TInv, TypeOK, CallRecord, CallsOK
<1>local. /\ InFlight(c) /\ c \in Rivals(t)
          /\ \A x \in Calls \ {c} : /\ calls'[x].req = calls[x].req
                                    /\ InFlight(x)' <=> InFlight(x)
  BY HandleIsLocal DEF SettleInv, Rivals
<1>lone. /\ Rivals(t) = {c} /\ settled[t] = Unsettled
         /\ calls[c].pc = "open" => t \in targets
         /\ calls[c].pc = "writing" => /\ calls[c].linked /\ t \in targets
                                       /\ marker[t] = Blank
         /\ calls[c].clean =>
                /\ calls[c].pc \notin {"list", "unlink", "rmdirLast"}
                /\ calls[c].pc = "rmdir" => marker[t] = NoMarker
                /\ calls[c].pc = "answer" => t \notin targets /\ marker[t] = NoMarker
  BY <1>local DEF SettleInv, LoneOK, SettledOK
<1>rivals. Rivals(t)' \subseteq {c}
  BY <1>local, <1>lone DEF Rivals
<1>unsettled. settled'[t] = Unsettled => SettledOK(t)'
  BY HistoryAssumption DEF SettledOK, Unsettled, Gone
<1>over. ASSUME calls'[c].pc = "done" PROVE ~InFlight(c)' /\ Rivals(t)' = {}
  BY <1>over, <1>rivals DEF InFlight, Rivals
<1>answer. ASSUME NEW code, Answer(c, code)
           PROVE  /\ calls'[c].pc = "done"
                  /\ settled'[t] = IF calls[c].req.op \in {"publish", "unpublish"}
                                      /\ calls[c].clean /\ code = "OK"
                                   THEN IF calls[c].req.op = "publish"
                                        THEN calls[c].req.staging ELSE Gone
                                   ELSE Unsettled
  BY <1>answer, <1>types, <1>lone DEF Answer, Free, OnTarget
<1>error. ASSUME NEW code, Answer(c, code), code # "OK"
          PROVE  SettledOK(t)' /\ ~InFlight(c)'
  BY <1>error, <1>answer, <1>over, <1>unsettled
<1>goto. ASSUME NEW pc, Goto(c, pc)
         PROVE  /\ calls'[c].pc = pc /\ calls'[c].clean = calls[c].clean
                /\ SettledOK(t)'
  BY <1>goto, <1>types, <1>lone, <1>unsettled DEF Goto, history, CallRecord
<1>1. CASE Stage(c) \/ Unstage(c)
  BY <1>1, <1>types, PathsAssumption DEF Stage, Unstage, At, CallOK, StagingPcs
<1>2. CASE MakeTarget(c)
  <2>1. t \in targets' /\ Goto(c, "open")
    BY <1>2 DEF MakeTarget
  <2>2. calls'[c].pc = "open" /\ SettledOK(t)'
    BY <2>1, <1>goto
  <2>3. QED
    BY <2>1, <2>2
<1>3. CASE MakeTargetRaced(c) \/ OpenMarkerMissing(c)
  BY <1>3, <1>error DEF MakeTargetRaced, OpenMarkerMissing, End
<1>4. CASE OpenMarker(c)
  <2>1. /\ t \in targets' /\ marker'[t] = Blank /\ settled' = settled
        /\ calls'[c].pc = "writing" /\ calls'[c].linked
    BY <1>4, <1>types DEF OpenMarker, Opened, history, CallRecord
  <2>2. QED
    BY <2>1, <1>lone, <1>unsettled
<1>5. CASE WriteMarker(c)
  <2>1. /\ calls[c].pc = "writing" /\ Answer(c, "OK") /\ UNCHANGED targets
    BY <1>5 DEF WriteMarker, At, End
  <2>2. /\ calls[c].req.staging \in Stagings /\ calls[c].req.op = "publish"
        /\ calls[c].linked /\ marker[t] = Blank /\ t \in targets
    BY <2>1, <1>types, <1>lone DEF CallOK, PublishPcs
  <2>3. marker'[t] = calls[c].req.staging
    BY <1>5, <2>2, <1>types DEF WriteMarker, Written
  <2>4. settled'[t] \in {calls[c].req.staging, Unsettled} /\ calls'[c].pc = "done"
    BY <2>1, <2>2, <1>answer
  <2>5. QED
    BY <2>1, <2>2, <2>3, <2>4, <1>over, <1>unsettled, HistoryAssumption DEF SettledOK
<1>6. CASE Fail(c)
  BY <1>6, <1>error DEF Fail
<1>7. CASE Unmark(c) \/ Unlink(c)
  <2>1. PICK pc \in {"rmdir", "rmdirLast"} : UnlinkMarker(c, pc)
    BY <1>7 DEF Unmark, Unlink, AfterUnmark
  <2>2. /\ marker'[t] = NoMarker /\ settled' = settled
        /\ calls'[c].pc = pc /\ calls'[c].clean = calls[c].clean
    BY <2>1, <1>types DEF UnlinkMarker, history, CallRecord
  <2>3. calls[c].clean => pc = "rmdir"
    <3>1. CASE Unmark(c)
      BY <3>1, <2>2, <1>types DEF Unmark, AfterUnmark, UnlinkMarker, CallRecord
    <3>2. CASE Unlink(c)
      BY <3>2, <1>lone DEF Unlink, At
    <3>3. QED
      BY <1>7, <3>1, <3>2
  <2>4. QED
    BY <2>2, <2>3, <1>lone, <1>unsettled
<1>8. CASE Rmdir(c)
  <2>1. /\ t \notin targets' /\ marker'[t] = NoMarker /\ settled' = settled
        /\ calls'[c].pc = "answer"
    BY <1>8, <1>types DEF Rmdir, history, CallRecord
  <2>2. QED
    BY <2>1, <1>lone, <1>unsettled
<1>9. CASE RmdirMissing(c) \/ RmdirNotEmpty(c) \/ List(c)
  <2>1. /\ calls[c].pc \in {"rmdir", "rmdirLast", "list"} /\ UNCHANGED files
        /\ calls[c].pc = "rmdir" /\ marker[t] = NoMarker
               => t \notin targets /\ Goto(c, "answer")
    BY <1>9 DEF RmdirMissing, RmdirNotEmpty, List, At
  <2>2. PICK pc \in {"list", "answer", "unlink", "rmdirLast"} : Goto(c, pc)
    BY <1>9 DEF RmdirMissing, RmdirNotEmpty, List
  <2>3. calls'[c].pc = pc /\ calls'[c].clean = calls[c].clean /\ SettledOK(t)'
    BY <2>2, <1>goto
  <2>4. CASE calls[c].clean
    <3>1. calls[c].pc = "rmdir" /\ marker[t] = NoMarker
      BY <2>1, <2>4, <1>lone
    <3>2. t \notin targets /\ calls'[c].pc = "answer"
      BY <2>1, <3>1, <1>goto
    <3>3. QED
      BY <2>1, <2>3, <3>1, <3>2 DEF files
  <2>5. CASE ~calls[c].clean
    BY <2>3, <2>5
  <2>6. QED
    BY <2>4, <2>5
<1>10. CASE RemoveFails(c)
  <2>1. CASE At(c, "unstage") /\ End(c, "OK")
    BY <2>1, <1>types, PathsAssumption DEF At, CallOK, StagingPcs
  <2>2. CASE ~(At(c, "unstage") /\ End(c, "OK"))
    <3>1. /\ UNCHANGED settled /\ ~calls'[c].clean
          /\ calls'[c].pc \in {"rmdir", "answer"}
      BY <1>10, <2>2, <1>types DEF RemoveFails, AfterUnmark, CallRecord
    <3>2. QED
      BY <3>1, <1>lone, <1>unsettled
  <2>3. QED
    BY <2>1, <2>2
<1>11. CASE AnswerUnpublish(c)
  <2>1. calls[c].pc = "answer" /\ UNCHANGED files /\ Answer(c, "OK")
    BY <1>11 DEF AnswerUnpublish, At, End
  <2>2. calls[c].req.op = "unpublish"
    BY <2>1, <1>types DEF CallOK, UnpublishPcs
  <2>3. calls[c].clean => t \notin targets' /\ marker'[t] = NoMarker
    BY <2>1, <1>lone DEF files
  <2>4. settled'[t] = (IF calls[c].clean THEN Gone ELSE Unsettled) /\ calls'[c].pc = "done"
    BY <2>1, <2>2, <1>answer
  <2>5. QED
    BY <2>3, <2>4, <1>over, <1>unsettled, HistoryAssumption DEF SettledOK
<1>12. QED
  BY <1>1, <1>2, <1>3, <1>4, <1>5, <1>6, <1>7, <1>8, <1>9, <1>10, <1>11 DEF Handle

LEMMA NextSettleInv == SettleInv /\ [Next]_vars => SettleInv'
<1> SUFFICES ASSUME SettleInv, [Next]_vars PROVE SettleInv'
  OBVIOUS
<1>types. /\ TInv' /\ calls \in [Calls -> CallRecord]
          /\ settled \in [Targets -> Stagings \cup {Gone, Unsettled}]
  BY NextTInv DEF SettleInv, TInv, TypeOK, CallRecord
\* It is enough to look at one target.
<1>each. SUFFICES ASSUME NEW t \in Targets
                  PROVE  SettledOK(t)' /\ \A x \in Calls : LoneOK(x, t)'
  BY <1>types DEF SettleInv
<1>old. SettledOK(t) /\ \A x \in Calls : LoneOK(x, t)
  BY DEF SettleInv
\* A step of calls that are on other targets, if on any.
<1>away. ASSUME t \in targets' <=> t \in targets, marker'[t] = marker[t],
                settled'[t] = settled[t], Rivals(t)' = Rivals(t),
                \A x \in Rivals(t) : calls'[x] = calls[x]
         PROVE  SettledOK(t)' /\ \A x \in Calls : LoneOK(x, t)'
  BY <1>away, <1>old DEF SettledOK, LoneOK
<1>1. CASE Start \/ UNCHANGED vars
  BY <1>1, <1>away DEF Start, vars, files, history, Rivals, InFlight
<1>2. CASE Kill
  <2>1. \A x \in Calls : calls'[x].pc = "done"
    BY <1>2 DEF Kill, Free, InFlight
  <2>2. Rivals(t)' = {}
    BY <2>1 DEF Rivals, InFlight
  <2>3. QED
    BY <1>2, <2>2, <1>old DEF Kill, files, SettledOK, LoneOK
<1>3. ASSUME NEW c \in Calls, NEW r \in Requests, Refuse(c, r)
      PROVE  SettledOK(t)' /\ \A x \in Calls : LoneOK(x, t)'
  <2>1. /\ ~InFlight(c) /\ ~InFlight(c)' /\ \A x \in Calls \ {c} : calls'[x] = calls[x]
    BY <1>3, <1>types DEF Refuse, InFlight, Free
  <2>2. Rivals(t)' = Rivals(t) /\ \A x \in Rivals(t) : calls'[x] = calls[x]
    BY <2>1 DEF Rivals, InFlight
  <2>3. QED
    BY <1>3, <2>2, <1>away DEF Refuse, files, history
<1>4. ASSUME NEW c \in Calls, NEW r \in Requests, Begin(c, r)
      PROVE  SettledOK(t)' /\ \A x \in Calls : LoneOK(x, t)'
  <2>1. /\ ~InFlight(c) /\ calls'[c].req = r /\ calls'[c].pc = FirstStep(r)
        /\ calls'[c].alone = (Rivals(r.target) = {})
        /\ UNCHANGED <<files, harmed>>
    BY <1>4, <1>types DEF Begin
  <2>2. ASSUME NEW x \in Calls \ {c}
        PROVE  /\ calls'[x].req = calls[x].req /\ InFlight(x)' <=> InFlight(x)
               /\ ~(OnTarget(r) /\ x \in Rivals(r.target)) => calls'[x] = calls[x]
               /\ OnTarget(r) /\ x \in Rivals(r.target) => ~calls'[x].alone
    BY <1>4, <1>types DEF Begin, CallRecord, InFlight
  <2>3. CASE r.target # t
    <3>1. Rivals(t)' = Rivals(t) /\ \A x \in Rivals(t) : calls'[x] = calls[x]
      BY <2>1, <2>2, <2>3 DEF Rivals, InFlight
    <3>2. settled'[t] = settled[t]
      BY <1>4, <2>3, <1>types DEF Begin, OnTarget
    <3>3. QED
      BY <2>1, <3>1, <3>2, <1>away DEF files
  <2>4. CASE r.target = t
    <3>1. /\ OnTarget(r) /\ FirstStep(r) \in {"publish", "unmark"}
      <4>1. FirstStep(r) \notin StagingPcs
        BY <1>4, <2>4, ChecksPass, PathsAssumption DEF Begin, StagingPcs
      <4>2. QED
        BY <1>4, <2>4, <4>1, ChecksPass DEF Begin, OnTarget
    <3>2. settled'[t] = Unsettled
      BY <1>4, <2>4, <3>1, <1>types DEF Begin
    <3>3. SettledOK(t)'
      BY <3>2, HistoryAssumption DEF SettledOK, Unsettled, Gone
    <3>4. ASSUME NEW x \in Calls PROVE LoneOK(x, t)'
      <4>1. CASE x = c
        <5>1. CASE Rivals(t) = {}
          <6>1. Rivals(t)' = {c}
            BY <2>1, <2>2, <2>4, <3>1, <5>1 DEF Rivals, InFlight
          <6>2. QED
            BY <2>1, <3>1, <4>1, <6>1 DEF LoneOK
        <5>2. CASE Rivals(t) # {}
          BY <2>1, <2>4, <4>1, <5>2 DEF LoneOK
        <5>3. QED
          BY <5>1, <5>2
      <4>2. CASE x # c /\ x \in Rivals(t)
        BY <2>2, <2>4, <3>1, <4>2 DEF LoneOK
      <4>3. CASE x # c /\ x \notin Rivals(t)
        BY <2>2, <4>3 DEF LoneOK, Rivals
      <4>4. QED
        BY <4>1, <4>2, <4>3
    <3>5. QED
      BY <3>3, <3>4
  <2>5. QED
    BY <2>3, <2>4
<1>5. ASSUME NEW c \in Calls, Handle(c)
      PROVE  SettledOK(t)' /\ \A x \in Calls : LoneOK(x, t)'
  <2>1. /\ InFlight(c) /\ calls'[c].req = calls[c].req
        /\ InFlight(c)' => calls'[c].alone = calls[c].alone
        /\ ~calls[c].alone => settled' = settled
    BY <1>5, HandleIsLocal DEF SettleInv
  <2>2. ASSUME NEW x \in Calls \ {c}
        PROVE  /\ calls'[x].req = calls[x].req /\ calls'[x].alone = calls[x].alone
               /\ InFlight(x)' <=> InFlight(x)
               /\ x \notin Rivals(calls[c].req.target) => calls'[x] = calls[x]
    BY <1>5, HandleIsLocal DEF SettleInv
  <2>3. CASE calls[c].req.target # t
    <3>1. /\ t \in targets' <=> t \in targets
          /\ marker'[t] = marker[t] /\ settled'[t] = settled[t]
      BY <1>5, <2>3, HandleIsLocal DEF SettleInv
    <3>2. Rivals(t)' = Rivals(t) /\ \A x \in Rivals(t) : calls'[x] = calls[x]
      BY <2>1, <2>2, <2>3 DEF Rivals
    <3>3. QED
      BY <3>1, <3>2, <1>away
  <2>4. CASE calls[c].req.target = t /\ calls[c].alone
    <3>1. Rivals(t) = {c}
      BY <2>1, <2>4, <1>old DEF LoneOK, Rivals
    <3>2. Rivals(t)' = IF InFlight(c)' THEN {c} ELSE {}
      BY <2>1, <2>2, <2>4, <3>1 DEF Rivals
    <3>3. SettledOK(t)' /\ LoneOK(c, t)'
      BY <1>5, <1>types, <2>4, <3>2, LoneStep DEF LoneOK
    <3>4. QED
      BY <3>2, <3>3 DEF LoneOK
  <2>5. CASE calls[c].req.target = t /\ ~calls[c].alone
    <3>1. settled'[t] = Unsettled
      BY <2>1, <2>5, <1>old DEF SettledOK, Rivals
    <3>2. SettledOK(t)'
      BY <3>1, HistoryAssumption DEF SettledOK, Unsettled, Gone
    <3>3. ASSUME NEW x \in Calls PROVE LoneOK(x, t)'
      <4>1. CASE x = c
        BY <2>1, <2>5, <4>1 DEF LoneOK, Rivals
      <4>2. CASE x # c
        <5>1. x \in Rivals(t)' => x \in Rivals(t) /\ c \in Rivals(t)
          BY <2>1, <2>2, <2>5, <4>2 DEF Rivals
        <5>2. QED
          BY <2>2, <4>2, <5>1, <1>old DEF LoneOK
      <4>3. QED
        BY <4>1, <4>2
    <3>4. QED
      BY <3>2, <3>3
  <2>6. QED
    BY <2>3, <2>4, <2>5
<1>6. QED
  BY <1>1, <1>2, <1>3, <1>4, <1>5 DEF Next

LEMMA SettleInvariant == Spec => []SettleInv
  BY InitSettleInv, NextSettleInv, PTL DEF Spec

\* A target whose last call was a publish that overlapped no other and was
\* answered OK has the marker of that publish, for any number of calls, targets
\* and staging paths, whatever failed or was killed before.
THEOREM PublishesSettle == Spec => []PublishSettles
<1>1. SettleInv => PublishSettles
  BY DEF SettleInv, SettledOK, PublishSettles
<1>2. QED
  BY <1>1, SettleInvariant, PTL

\* A target whose last call was an unpublish that overlapped no other, and none
\* of whose removals failed, is gone.
THEOREM UnpublishesSettle == Spec => []UnpublishSettles
<1>1. SettleInv => UnpublishSettles
  BY DEF SettleInv, SettledOK, UnpublishSettles
<1>2. QED
  BY <1>1, SettleInvariant, PTL
=============================================================================
