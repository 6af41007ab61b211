------------------------------ MODULE Timeline ------------------------------
(***************************************************************************)
(* The fault timeline, a file nobody locks: fault injectors append to it   *)
(* (cmd/fault-injector/main.go), make fault-timeline-clear cuts it         *)
(* (Makefile:245), and demo-ui reads it while they do (cmd/demo-ui/main.go,*)
(* handleFaults).                                                          *)
(*                                                                         *)
(* The line of an event is three pieces, its two halves and the newline,   *)
(* for what matters is that a write, or a read, may stop inside it.        *)
(***************************************************************************)
EXTENDS Integers, Sequences, SequencesExt, FiniteSetsExt

CONSTANTS
    Injectors,  \* runs of fault-injector
    Corrupting, \* those that run corrupt-block; the others run kubectl
    Long,       \* those whose event is over 64 KB, more than a Scanner takes
    Requests,   \* GET /api/faults
    MaxEvents,  \* how many events handleFaults answers with
    MaxClears,  \* bound: how often the timeline is cleared
    MaxCuts     \* bound: how many writes come back short

ASSUME KindsAssumption == Corrupting \subseteq Injectors /\ Long \subseteq Injectors
ASSUME BoundsAssumption == MaxEvents \in Nat \ {0} /\ MaxClears \in Nat /\ MaxCuts \in Nat

VARIABLES
    exists,   \* is there a timeline.jsonl
    file,     \* its pieces
    injector, \* the runs of fault-injector
    request,  \* the requests
    history   \* the number of clears and of short writes, and who has since the last
              \* clear written its line in one piece

vars == <<exists, file, injector, request, history>>

Half(i, k) == [of |-> i, half |-> k]
Newline    == [of |-> "nobody", half |-> 0]

\* mutant: the newline is forgotten.
LineUnended(i) == <<Half(i, 1), Half(i, 2)>>

Line(i) == <<Half(i, 1), Half(i, 2), Newline>>

\* struck: how much of what it asks for has been carried out: bytes written, a command
\* run in a pod, and for delete-pod the deletion accepted, for kubectl does not wait
\* until the pod is gone (--wait=false).  left: what it has yet to write.
Started == [pc |-> "act", struck |-> "none", status |-> "none", left |-> <<>>]

\* seen: what it has read.  disturbed, whether the timeline was cleared meanwhile,
\* is history.
Waiting == [pc |-> "new", seen |-> <<>>, disturbed |-> FALSE, answer |-> <<>>]

Init ==
    /\ exists = FALSE /\ file = <<>>
    /\ injector = [i \in Injectors |-> Started]
    /\ request = [r \in Requests |-> Waiting]
    /\ history = [clears |-> 0, cuts |-> 0, whole |-> {}]

-----------------------------------------------------------------------------
(* What a Scanner and json.Unmarshal make of a sequence of pieces.         *)

\* The lines: the last one may lack its newline.
Ends(s)     == {k \in DOMAIN s : s[k] = Newline} \cup {Len(s) + 1}
Start(s, k) == Max({0} \cup {e \in Ends(s) : e < k}) + 1
LineTo(s, k) == SubSeq(s, Start(s, k), k - 1)

\* A line is an event if it is one half event and another, in this order.
IsEvent(l) == Len(l) = 2 /\ l[1].half = 1 /\ l[2].half = 2

\* The n-th smallest of a set of numbers.
Nth(S, n) == CHOOSE k \in S : Cardinality({j \in S : j < k}) = n - 1

\* The events, in the order of their lines, each as the injectors of its halves.
EventEnds(s) == {k \in Ends(s) : IsEvent(LineTo(s, k))}
EventTo(s, k) == <<LineTo(s, k)[1].of, LineTo(s, k)[2].of>>
Events(s) ==
    LET ends == EventEnds(s)
    IN  [n \in 1..Cardinality(ends) |-> EventTo(s, Nth(ends, n))]

TooLong(s) == \E k \in DOMAIN s : s[k].of \in Long /\ s[k].half = 1

Failure == "500"
Shown(s) ==
    IF TooLong(s) THEN Failure
    ELSE LET es == Events(s)
         IN  SubSeq(es, IF Len(es) > MaxEvents THEN Len(es) - MaxEvents + 1 ELSE 1, Len(es))

-----------------------------------------------------------------------------
(* fault-injector.                                                         *)

At(i, pc) == injector[i].pc = pc
Set(i, s) == injector' = [injector EXCEPT ![i] = s]
Over      == {"done", "failed", "killed"}

\* os.Exit, by the outcome of the action, not of the logging.
Exit(i) == Set(i, [injector[i] EXCEPT
                    !.pc = IF injector[i].status = "ok" THEN "done" ELSE "failed",
                    !.left = <<>>])

\* Too few arguments, or no directory for the timeline: nothing is done or logged.
Abort(i) ==
    /\ At(i, "act") /\ injector[i].struck = "none"
    /\ injector' = [injector EXCEPT ![i].pc = "failed"]
    /\ UNCHANGED <<exists, file, request, history>>

\* The request of the injector is carried out: WriteAt may have to go on after a short
\* write, the API server does at once what kubectl asks of it.
Strike(i) ==
    /\ At(i, "act") /\ injector[i].struck # "done"
    /\ \E how \in {"done"} \cup (IF i \in Corrupting THEN {"partly"} ELSE {}) :
           /\ how # injector[i].struck
           /\ injector' = [injector EXCEPT ![i].struck = how]
    /\ UNCHANGED <<exists, file, request, history>>

\* WriteAt returns an error unless it has written everything.
WriteResults(how) == IF how = "done" THEN {"ok"} ELSE {"error"}

\* kubectl exits with 0 when its request was carried out, which for delete-pod says no
\* more than that the pod will be deleted, and may lose the answer to one that was.
CommandResults(how) == IF how = "done" THEN {"ok", "error"} ELSE {"error"}

\* The action returns, at once for an unknown action or a bad argument.
Return(i) ==
    /\ At(i, "act")
    /\ \E s \in IF i \in Corrupting THEN WriteResults(injector[i].struck)
               ELSE CommandResults(injector[i].struck) :
           Set(i, [injector[i] EXCEPT !.pc = "append", !.status = s])
    /\ UNCHANGED <<exists, file, request, history>>

\* The timeline is opened, created if need be.
OpenTimeline(i) ==
    /\ At(i, "append")
    /\ exists' = TRUE
    /\ Set(i, [injector[i] EXCEPT !.pc = "write", !.left = Line(i)])
    /\ UNCHANGED <<file, request, history>>

\* mutant: without O_APPEND a process writes where its own last write ended.
WrittenAtOffset(i, n) ==
    LET from == Len(Line(i)) - Len(injector[i].left)
    IN  [k \in 1..Max({Len(file), from + n}) |->
            CASE k \in from + 1 .. from + n -> injector[i].left[k - from]
              [] k \in DOMAIN file -> file[k]
              [] OTHER -> [of |-> "nobody", half |-> 3]]

\* O_APPEND: a write goes to the end, wherever that is by now.
Written(i, n) == file \o SubSeq(injector[i].left, 1, n)

\* One write(2), of everything that is left: Flush is done and main exits.
WriteRest(i) ==
    /\ At(i, "write")
    /\ file' = Written(i, Len(injector[i].left))
    /\ Exit(i)
    /\ history' = [history EXCEPT !.whole =
           IF injector[i].left = Line(i) THEN @ \cup {i} ELSE @]
    /\ UNCHANGED <<exists, request>>

\* A short write; the runtime goes on with the rest.
WriteShort(i) ==
    /\ At(i, "write") /\ history.cuts < MaxCuts
    /\ \E n \in 1..Len(injector[i].left) - 1 :
           /\ file' = Written(i, n)
           /\ injector' = [injector EXCEPT ![i].left = SubSeq(@, n + 1, Len(@))]
    /\ history' = [history EXCEPT !.cuts = @ + 1]
    /\ UNCHANGED <<exists, request>>

\* open(2) or write(2) fails: main prints the error and exits as if it had not.
LogFails(i) ==
    /\ At(i, "append") \/ At(i, "write")
    /\ Exit(i)
    /\ UNCHANGED <<exists, file, request, history>>

Kill(i) ==
    /\ injector[i].pc \notin Over
    /\ Set(i, [injector[i] EXCEPT !.pc = "killed", !.left = <<>>])
    /\ UNCHANGED <<exists, file, request, history>>

Inject(i) ==
    \/ Abort(i) \/ Strike(i) \/ Return(i)
    \/ OpenTimeline(i) \/ WriteRest(i) \/ WriteShort(i) \/ LogFails(i) \/ Kill(i)

-----------------------------------------------------------------------------
(* make fault-timeline-clear.                                              *)

\* The injectors that have begun to write lose what they have written.
Clear ==
    /\ history.clears < MaxClears
    /\ exists' = TRUE /\ file' = <<>>
    /\ history' = [history EXCEPT !.clears = @ + 1, !.whole = {}]
    /\ request' = [r \in Requests |->
           IF request[r].pc = "scan" THEN [request[r] EXCEPT !.disturbed = TRUE]
           ELSE request[r]]
    /\ UNCHANGED injector

-----------------------------------------------------------------------------
(* handleFaults.                                                           *)

Answer(r, a) == request' = [request EXCEPT ![r].pc = "answered", ![r].answer = a,
                                           ![r].seen = <<>>]

\* os.Open.
OpenFaults(r) ==
    /\ request[r].pc = "new"
    /\ \/ exists /\ request' = [request EXCEPT ![r].pc = "scan"]
       \/ ~exists /\ Answer(r, <<>>)
       \/ Answer(r, Failure)
    /\ UNCHANGED <<exists, file, injector, history>>

\* One read(2) of the Scanner, which gives up in a line that is too long.
ScanSome(r) ==
    LET pos == Len(request[r].seen)
    IN  /\ request[r].pc = "scan"
        /\ \E n \in 1..Len(file) - pos :
               LET seen == request[r].seen \o SubSeq(file, pos + 1, pos + n)
               IN  IF TooLong(seen) THEN Answer(r, Failure)
                   ELSE request' = [request EXCEPT ![r].seen = seen]
        /\ UNCHANGED <<exists, file, injector, history>>

\* The end of the file: what was read is answered.
ScanEnd(r) ==
    /\ request[r].pc = "scan" /\ Len(request[r].seen) >= Len(file)
    /\ Answer(r, Shown(request[r].seen))
    /\ UNCHANGED <<exists, file, injector, history>>

ScanFails(r) ==
    /\ request[r].pc = "scan"
    /\ Answer(r, Failure)
    /\ UNCHANGED <<exists, file, injector, history>>

Serve(r) == OpenFaults(r) \/ ScanSome(r) \/ ScanEnd(r) \/ ScanFails(r)

Next ==
    \/ \E i \in Injectors : Inject(i)
    \/ Clear
    \/ \E r \in Requests : Serve(r)

Spec == Init /\ [][Next]_vars

-----------------------------------------------------------------------------
(* Properties.                                                             *)

\* A list that is answered while injectors append is the end of the timeline as it
\* is at that moment, read in however many pieces, unless it was cleared meanwhile:
\* nothing is missed, doubled or out of order.
AnsweredNow(r) == request[r].pc # "answered" /\ request'[r].pc = "answered"
ReadIsSnapshot ==
    [][\A r \in Requests :
         AnsweredNow(r) /\ ~request[r].disturbed /\ request'[r].answer # Failure
             => request'[r].answer = Shown(file)]_vars

\* A short write costs at most one event besides its own: of the injectors that
\* wrote their line in one piece and were not cleared since, no more are
\* unreadable than there were short writes, whoever went on, died or failed.
Unreadable  == {i \in history.whole : ~Contains(Events(file), <<i, i>>)}
LossBounded == Cardinality(Unreadable) <= history.cuts

\* It takes two short writes to make up an event that no injector reported,
\* from the halves of two.
FabricationTakesTwo ==
    \A n \in DOMAIN Events(file) : Events(file)[n][1] # Events(file)[n][2] => history.cuts >= 2

\* A clear under a reader makes up one event at most: in a list that is answered, those
\* put together from the halves of two injectors are no more than there were short
\* writes, and one for each clear if the timeline was cleared while it was read and
\* the reader went on, at its old offset, in the lines of others.
Invented(es) == {n \in DOMAIN es : es[n][1] # es[n][2]}
SplicesCounted ==
    \A r \in Requests :
        request[r].pc = "answered" /\ request[r].answer # Failure =>
            Cardinality(Invented(request[r].answer)) <=
                history.cuts + (IF request[r].disturbed THEN history.clears ELSE 0)
=============================================================================
