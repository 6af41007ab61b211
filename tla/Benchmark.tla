------------------------------ MODULE Benchmark ------------------------------
(***************************************************************************)
(* Benchmark runs (scripts/bench/run-day3-bench.sh) fill directories named *)
(* by the second they start in; GET /api/benchmarks/latest of demo-ui      *)
(* (cmd/demo-ui/main.go, handleLatestBenchmark) picks the last name and    *)
(* sums its files up, whatever the run that makes them is doing.           *)
(*                                                                         *)
(* An output is two parts, for a run, or a read, may stop inside it.       *)
(***************************************************************************)
EXTENDS Integers, Sequences, FiniteSetsExt

CONSTANTS
    Runs,      \* runs of the script
    Requests,  \* requests of the latest summary
    MaxClock   \* bound: the seconds the wall clock counts

ASSUME ClockAssumption == MaxClock \in Nat

VARIABLES
    clock,    \* the wall clock, in seconds
    dirs,     \* the directories of artifacts/bench, by their stamps
    files,    \* <<stamp, name>> -> the parts of the file
    run,      \* the runs of the script
    request   \* the requests

vars == <<clock, dirs, files, run, request>>

Stamps == 1..MaxClock
Hole   == <<"hole", 0>>

\* The runs the numbers of an output come from, if it is not there or does not parse:
\* the answer then holds zeros, which the page shows as numbers like any others (and for
\* mdtest a text that says so).
NoRun == {}

\* left: what the command at hand has yet to put out.
NewRun == [pc |-> "new", stamp |-> 0, left |-> <<>>]

\* latest, seen and the three outputs: variables of the handlers.  done, the runs that
\* had ended well when it came, made, the directories there were, and failed, whether
\* a file could not be read, are history.
NewRequest == [pc |-> "new", latest |-> 0, seen |-> <<>>,
               seq |-> NoRun, rand |-> NoRun, mdtest |-> NoRun,
               done |-> {}, made |-> {}, failed |-> FALSE]

Init ==
    /\ clock = 1 /\ dirs = {}
    /\ files = [f \in {} |-> <<>>]
    /\ run = [r \in Runs |-> NewRun]
    /\ request = [q \in Requests |-> NewRequest]

Tick ==
    /\ clock < MaxClock
    /\ clock' = clock + 1
    /\ UNCHANGED <<dirs, files, run, request>>

-----------------------------------------------------------------------------
(* The script.                                                             *)

Runner(r, pc) == run[r].pc = pc /\ UNCHANGED <<clock, request>>
Goto(r, pc)   == run' = [run EXCEPT ![r].pc = pc, ![r].left = <<>>]

\* mkdir -p: two runs of one second share a directory.
MakeDir(r) ==
    /\ Runner(r, "new")
    /\ dirs' = dirs \cup {clock}
    /\ run' = [run EXCEPT ![r].pc = "check", ![r].stamp = clock]
    /\ UNCHANGED files

\* command -v fio: without it the directory stays behind, empty.
Check(r) ==
    /\ Runner(r, "check")
    /\ \E pc \in {"seq", "failed"} : Goto(r, pc)
    /\ UNCHANGED <<dirs, files>>

\* What follows each output.
Following == [seq |-> "rand", rand |-> "mdtest", mdtest |-> "done"]
Outputs   == DOMAIN Following

\* mutant: set -e is left out.
AfterFailureGoOn(out) == Following[out]

\* set -e ends the script, but for mdtest, which may fail.
AfterFailure(out) == IF out = "mdtest" THEN "done" ELSE "failed"

\* The shell truncates the file before it starts the command.
Redirect(r, out) ==
    /\ Runner(r, out) /\ run[r].left = <<>>
    /\ files' = [f \in DOMAIN files \cup {<<run[r].stamp, out>>} |->
                    IF f = <<run[r].stamp, out>> THEN <<>> ELSE files[f]]
    /\ run' = [run EXCEPT ![r].left = << <<r, 1>>, <<r, 2>> >>]
    /\ UNCHANGED dirs

\* A write goes to where the last one of this process ended, whatever another run
\* has done to the file.
Overlay(old, at, part) ==
    [k \in 1..Max({Len(old), at}) |->
        IF k = at THEN part ELSE IF k <= Len(old) THEN old[k] ELSE Hole]

Write(r, out) ==
    /\ Runner(r, out) /\ run[r].left # <<>>
    /\ files' = [files EXCEPT ![<<run[r].stamp, out>>] =
                    Overlay(@, 3 - Len(run[r].left), Head(run[r].left))]
    /\ IF Len(run[r].left) = 1 THEN Goto(r, Following[out]) \/ Goto(r, AfterFailure(out))
       ELSE run' = [run EXCEPT ![r].left = Tail(@)]
    /\ UNCHANGED dirs

\* fio or mdtest fails, with only part of its output made or none.
CommandFails(r, out) ==
    /\ Runner(r, out) /\ run[r].left # <<>>
    /\ Goto(r, AfterFailure(out))
    /\ UNCHANGED <<dirs, files>>

Kill(r) ==
    /\ run[r].pc \notin {"done", "failed"} /\ UNCHANGED <<clock, request>>
    /\ Goto(r, "failed")
    /\ UNCHANGED <<dirs, files>>

Script(r) ==
    \/ MakeDir(r) \/ Check(r) \/ Kill(r)
    \/ \E out \in Outputs : Redirect(r, out) \/ Write(r, out) \/ CommandFails(r, out)

-----------------------------------------------------------------------------
(* The handler.                                                            *)

Handler(q, pc) == request[q].pc = pc /\ UNCHANGED <<clock, dirs, files, run>>

Ask(q) ==
    /\ Handler(q, "new")
    /\ request' = [request EXCEPT ![q].pc = "list", ![q].made = dirs,
                                  ![q].done = {r \in Runs : run[r].pc = "done"}]

\* mutant: the list is sorted the other way round.
OldestOf(names) == Min(names)

LatestOf(names) == Max(names)

ReadDir(q) ==
    /\ Handler(q, "list")
    /\ request' =
           IF dirs = {} THEN [request EXCEPT ![q].pc = "unavailable"]
           ELSE [request EXCEPT ![q].pc = "seq", ![q].latest = LatestOf(dirs)]

ReadDirFails(q) ==
    /\ Handler(q, "list")
    /\ request' = [request EXCEPT ![q].pc = "error"]

\* os.Stat, and os.ReadFile's open: without the file its numbers stay zero.
Missing(q, out) ==
    /\ Handler(q, out)
    /\ <<request[q].latest, out>> \notin DOMAIN files
    /\ request' = [request EXCEPT ![q].pc = Following[out]]

\* One read(2) of os.ReadFile.
ReadSome(q, out) ==
    LET f == <<request[q].latest, out>>
        pos == Len(request[q].seen)
    IN  /\ Handler(q, out) /\ f \in DOMAIN files
        /\ \E n \in pos + 1 .. Len(files[f]) :
               request' = [request EXCEPT ![q].seen = @ \o SubSeq(files[f], pos + 1, n)]

\* mutant: the first part of an output will do.
ParsedLoosely(seen) == IF seen = <<>> THEN NoRun ELSE {seen[1][1]}

\* json.Unmarshal of an output of fio: the runs the numbers come from.  Parts of two
\* runs may fit together.
Parsed(seen) ==
    IF Len(seen) = 2 /\ seen[1][2] = 1 /\ seen[2][2] = 2
    THEN {seen[1][1], seen[2][1]} ELSE NoRun

\* The last line of mdtest.txt, finished or not.
LastLine(seen) == IF seen = <<>> THEN NoRun ELSE {seen[Len(seen)][1]}

Summary(out, seen) == IF out = "mdtest" THEN LastLine(seen) ELSE Parsed(seen)

ReadEnd(q, out) ==
    LET f == <<request[q].latest, out>>
        seen == request[q].seen
    IN  /\ Handler(q, out) /\ f \in DOMAIN files /\ Len(seen) >= Len(files[f])
        /\ request' = [request EXCEPT ![q].pc = Following[out], ![q].seen = <<>>,
                                      ![q][out] = Summary(out, seen)]

\* An error of os.Stat or os.ReadFile is not reported: the numbers stay zero.
ReadFails(q, out) ==
    /\ Handler(q, out)
    /\ request' = [request EXCEPT ![q].pc = Following[out], ![q].seen = <<>>,
                                  ![q].failed = TRUE]

Serve(q) ==
    \/ Ask(q) \/ ReadDir(q) \/ ReadDirFails(q)
    \/ \E out \in Outputs :
           Missing(q, out) \/ ReadSome(q, out) \/ ReadEnd(q, out) \/ ReadFails(q, out)

Next ==
    \/ Tick
    \/ \E r \in Runs : Script(r)
    \/ \E q \in Requests : Serve(q)

Spec == Init /\ [][Next]_vars

-----------------------------------------------------------------------------
(* Properties.                                                             *)

Answered(q) == request[q].pc = "done"
RunsOf(s)   == {r \in Runs : run[r].stamp = s}

\* If the run that is shown had ended well before the request came, and had its
\* second to itself, all its fio numbers are shown, none as a zero for want of one,
\* whatever later runs are doing.
QuietSummaryIsComplete ==
    \A q \in Requests, r \in Runs :
        Answered(q) /\ RunsOf(request[q].latest) = {r} /\ r \in request[q].done
        /\ ~request[q].failed
            => request[q].seq = {r} /\ request[q].rand = {r}

\* The run shown is never older than one that had begun when the request came, so
\* two requests, one after the other, do not go back; and one is shown if there is any.
NeverOlder ==
    \A q \in Requests :
        /\ Answered(q) => \A s \in request[q].made : s <= request[q].latest
        /\ request[q].pc = "unavailable" => request[q].made = {}

\* Numbers of a run that had its second to itself are those of an output that is
\* finished, or the zeros of one that is missing or half written: a run that is shown
\* while it writes, or that died, shows nothing in between.
NumbersAreFinal ==
    \A q \in Requests, r \in Runs, out \in {"seq", "rand"} :
        Answered(q) /\ RunsOf(request[q].latest) = {r} /\ request[q][out] # NoRun
            => files[<<request[q].latest, out>>] = << <<r, 1>>, <<r, 2>> >>
=============================================================================
