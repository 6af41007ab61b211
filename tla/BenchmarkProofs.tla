--------------------------- MODULE BenchmarkProofs ---------------------------
(***************************************************************************)
(* The summary of the latest benchmark run, for any number of runs of the  *)
(* script and of requests, whatever overlaps, fails or is killed.          *)
(***************************************************************************)
EXTENDS Benchmark, SequenceTheorems, TLAPS

-----------------------------------------------------------------------------
(* The invariant.                                                          *)

Pieces == (Runs \X {1, 2}) \cup {Hole}
Owners == SUBSET (Runs \cup {"hole"})

RunRecord ==
    [pc : {"new", "check", "seq", "rand", "mdtest", "done", "failed"}, stamp : Nat,
     left : Seq(Pieces)]

RequestRecord ==
    [pc : {"new", "list", "unavailable", "error", "seq", "rand", "mdtest", "done"},
     latest : Nat, seen : Seq(Pieces), seq : Owners, rand : Owners, mdtest : Owners,
     done : SUBSET Runs, made : SUBSET Nat, failed : BOOLEAN]

Types ==
    /\ clock \in Nat /\ clock >= 1
    /\ dirs \subseteq 1 .. clock
    /\ files \in [DOMAIN files -> Seq(Pieces)] /\ DOMAIN files \subseteq dirs \X Outputs
    /\ run \in [Runs -> RunRecord]
    /\ request \in [Requests -> RequestRecord]

\* There is a last directory, and each is of a run.
Last == dirs # {} => \E m \in dirs : \A s \in dirs : s <= m

Stamped ==
    /\ \A s \in dirs : \E r \in Runs : run[r].stamp = s
    /\ \A r \in Runs : /\ run[r].stamp = 0 \/ run[r].stamp \in dirs
                       /\ run[r].pc = "new" => run[r].stamp = 0
                       /\ run[r].stamp = 0 => run[r].pc \in {"new", "failed"}

\* What an output of a run that has its second to itself may be, and the commands
\* that come after and before the one that makes it.
Whole(r)    == << <<r, 1>>, <<r, 2>> >>
Contents(r) == {<< >>, << <<r, 1>> >>, Whole(r)}
After(out)  == IF out = "seq" THEN {"rand", "mdtest", "done"} ELSE {"mdtest", "done"}
Before(out) == IF out = "seq" THEN {"new", "check"} ELSE {"new", "check", "seq"}
Numbers     == {"seq", "rand"}
Alone(r, s) == s \in dirs /\ RunsOf(s) = {r}

\* x: a run.
Left(x, r) ==
    /\ x.left \in {<< >>, Whole(r), << <<r, 2>> >>}
    /\ x.pc \notin Outputs => x.left = << >>

Written(x, r, s, out) ==
    LET f == <<s, out>>
    IN  /\ f \in DOMAIN files => files[f] \in Contents(r)
        /\ x.pc \in Before(out) => f \notin DOMAIN files
        /\ x.pc \in After(out) => f \in DOMAIN files /\ files[f] = Whole(r)
        /\ x.pc = out =>
               \/ x.left = << >> /\ f \notin DOMAIN files
               \/ x.left = Whole(r) /\ f \in DOMAIN files /\ files[f] = << >>
               \/ /\ x.left = << <<r, 2>> >>
                  /\ f \in DOMAIN files /\ files[f] = << <<r, 1>> >>

\* x: a request.
Asked(x) ==
    /\ x.pc # "new" => x.made \subseteq dirs
    /\ \A r \in x.done : run[r].pc = "done"
    /\ x.pc = "unavailable" => x.made = {}
    /\ x.pc \in {"new", "list"} => x.seen = << >> /\ x.seq = NoRun /\ x.rand = NoRun
    /\ x.pc \in Outputs \cup {"done"} => x.latest \in dirs /\ \A s \in x.made : s <= x.latest

\* It sees a prefix of such an output, and shows the whole one or none.
Reading(x, r) ==
    LET f == <<x.latest, x.pc>>
    IN  x.pc \in Numbers =>
            /\ x.seen \in Contents(r)
            /\ f \notin DOMAIN files => x.seen = << >>
            /\ f \in DOMAIN files => Len(x.seen) <= Len(files[f])

ShownWhole(x, r, out) ==
    LET f == <<x.latest, out>>
    IN  /\ x[out] # NoRun => f \in DOMAIN files /\ files[f] = Whole(r) /\ x[out] = {r}
        /\ x.pc \in After(out) /\ r \in x.done /\ ~x.failed => x[out] = {r}

Summing(x) ==
    x.pc \in Outputs \cup {"done"} =>
        \A r \in Runs : Alone(r, x.latest) =>
            Reading(x, r) /\ \A out \in Numbers : ShownWhole(x, r, out)

RunInv ==
    /\ \A r \in Runs : Left(run[r], r)
    /\ \A r \in Runs, s \in dirs, out \in Numbers : Alone(r, s) => Written(run[r], r, s, out)

RequestInv == \A q \in Requests : Asked(request[q]) /\ Summing(request[q])

BenchInv == Types /\ Last /\ Stamped /\ RunInv /\ RequestInv

-----------------------------------------------------------------------------
(* Sequences of at most two pieces.                                        *)

LEMMA OutputsAre ==
    /\ Outputs = {"seq", "rand", "mdtest"}
    /\ Following.seq = "rand" /\ Following.rand = "mdtest" /\ Following.mdtest = "done"
    /\ Following["seq"] = "rand" /\ Following["rand"] = "mdtest" /\ Following["mdtest"] = "done"
  BY DEF Outputs, Following

LEMMA Lengths ==
    ASSUME NEW r
    PROVE  /\ Len(<< >>) = 0 /\ Len(<< <<r, 1>> >>) = 1 /\ Len(Whole(r)) = 2
           /\ Len(<< <<r, 2>> >>) = 1
           /\ Head(Whole(r)) = <<r, 1>> /\ Tail(Whole(r)) = << <<r, 2>> >>
           /\ Head(<< <<r, 2>> >>) = <<r, 2>>
           /\ << >> # Whole(r) /\ << >> # << <<r, 2>> >> /\ << >> # << <<r, 1>> >>
           /\ Len(Whole(r)) # 1 /\ 3 - Len(Whole(r)) = 1 /\ 3 - Len(<< <<r, 2>> >>) = 2
  BY DEF Whole

LEMMA PieceSeqs ==
    ASSUME NEW r \in Runs
    PROVE  /\ << >> \in Seq(Pieces) /\ << <<r, 1>> >> \in Seq(Pieces)
           /\ << <<r, 2>> >> \in Seq(Pieces) /\ Whole(r) \in Seq(Pieces)
  <1>1. <<r, 1>> \in Pieces /\ <<r, 2>> \in Pieces
    BY DEF Pieces
  <1> QED
    BY <1>1 DEF Whole

LEMMA MaxOfTwo ==
    ASSUME NEW a \in Nat, NEW b \in Nat
    PROVE  Max({a, b}) = IF a >= b THEN a ELSE b
  BY DEF Max

\* Overlay writes part at its place.
LEMMA OverlayType ==
    ASSUME NEW old \in Seq(Pieces), NEW at \in {1, 2}, NEW part \in Pieces
    PROVE  Overlay(old, at, part) \in Seq(Pieces)
  <1> DEFINE n == Max({Len(old), at})
  <1>1. n \in Nat
    BY MaxOfTwo
  <1>2. \A k \in 1 .. n : (IF k = at THEN part ELSE IF k <= Len(old) THEN old[k] ELSE Hole)
                              \in Pieces
    BY <1>1 DEF Pieces
  <1> HIDE DEF n
  <1>3. [k \in 1 .. n |-> IF k = at THEN part ELSE IF k <= Len(old) THEN old[k] ELSE Hole]
            \in Seq(Pieces)
    BY <1>1, <1>2, IsASeq
  <1> QED
    BY <1>3 DEF Overlay, n

LEMMA OverlayInTurn ==
    ASSUME NEW r
    PROVE  /\ Overlay(<< >>, 1, <<r, 1>>) = << <<r, 1>> >>
           /\ Overlay(<< <<r, 1>> >>, 2, <<r, 2>>) = Whole(r)
  <1>1. Max({0, 1}) = 1 /\ Max({1, 2}) = 2
    BY MaxOfTwo
  <1>2. Overlay(<< >>, 1, <<r, 1>>) = << <<r, 1>> >>
    BY <1>1 DEF Overlay
  <1>3. Overlay(<< <<r, 1>> >>, 2, <<r, 2>>) = Whole(r)
    BY <1>1 DEF Overlay, Whole
  <1> QED
    BY <1>2, <1>3

\* What the runs put out, piece by piece.
LEMMA ContentsPieces ==
    ASSUME NEW r \in Runs, NEW c \in Contents(r)
    PROVE  /\ c \in Seq(Pieces) /\ Len(c) \in 0 .. 2
           /\ \A i \in 1 .. Len(c) : c[i] = <<r, i>>
  <1>1. CASE c = << >>
    BY <1>1, PieceSeqs
  <1>2. CASE c = << <<r, 1>> >>
    <2>1. << <<r, 1>> >>[1] = <<r, 1>> /\ \A i \in 1 .. 1 : i = 1
      OBVIOUS
    <2>2. Len(c) = 1 /\ c \in Seq(Pieces)
      BY <1>2, PieceSeqs, Lengths
    <2> QED
      BY <1>2, <2>1, <2>2
  <1>3. CASE c = Whole(r)
    <2>1. Whole(r)[1] = <<r, 1>> /\ Whole(r)[2] = <<r, 2>>
      BY DEF Whole
    <2>2. \A i \in 1 .. 2 : i = 1 \/ i = 2
      OBVIOUS
    <2>3. Len(c) = 2 /\ c \in Seq(Pieces)
      BY <1>3, PieceSeqs, Lengths
    <2> QED
      BY <1>3, <2>1, <2>2, <2>3
  <1> QED
    BY <1>1, <1>2, <1>3 DEF Contents

LEMMA ContentsByPieces ==
    ASSUME NEW r \in Runs, NEW c \in Seq(Pieces), Len(c) \in {0, 1, 2},
           \A i \in 1 .. Len(c) : c[i] = <<r, i>>
    PROVE  c \in Contents(r)
  <1>1. CASE Len(c) = 0
    BY <1>1, EmptySeq DEF Contents
  <1>2. CASE Len(c) = 1
    <2>1. << <<r, 1>> >>[1] = <<r, 1>> /\ \A i \in 1 .. 1 : i = 1
      OBVIOUS
    <2>2. \A i \in 1 .. Len(c) : c[i] = << <<r, 1>> >>[i]
      BY <1>2, <2>1
    <2>3. c = << <<r, 1>> >>
      BY <1>2, <2>2, PieceSeqs, Lengths, SeqEqual
    <2> QED
      BY <2>3 DEF Contents
  <1>3. CASE Len(c) = 2
    <2>1. Whole(r)[1] = <<r, 1>> /\ Whole(r)[2] = <<r, 2>>
      BY DEF Whole
    <2>2. \A i \in 1 .. 2 : i = 1 \/ i = 2
      OBVIOUS
    <2>3. \A i \in 1 .. Len(c) : c[i] = Whole(r)[i]
      BY <1>3, <2>1, <2>2
    <2>4. c = Whole(r)
      BY <1>3, <2>3, PieceSeqs, Lengths, SeqEqual
    <2> QED
      BY <2>4 DEF Contents
  <1> QED
    BY <1>1, <1>2, <1>3

\* What is read on of an output.
LEMMA ReadOn ==
    ASSUME NEW r \in Runs, NEW seen \in Contents(r), NEW file \in Contents(r),
           NEW n \in Len(seen) + 1 .. Len(file)
    PROVE  /\ seen \o SubSeq(file, Len(seen) + 1, n) \in Contents(r)
           /\ Len(seen \o SubSeq(file, Len(seen) + 1, n)) = n
  <1> DEFINE m == Len(seen)
             u == SubSeq(file, m + 1, n)
             t == seen \o u
  <1>1. /\ seen \in Seq(Pieces) /\ m \in 0 .. 2 /\ \A i \in 1 .. m : seen[i] = <<r, i>>
        /\ file \in Seq(Pieces) /\ Len(file) \in 0 .. 2
        /\ \A i \in 1 .. Len(file) : file[i] = <<r, i>>
    BY ContentsPieces
  <1> HIDE DEF m
  <1>2. m \in Nat /\ n \in Nat /\ m + 1 <= n /\ n <= Len(file) /\ n <= 2
    BY <1>1 DEF m
  <1>3. /\ u \in Seq(Pieces) /\ Len(u) = n - m
        /\ \A i \in 1 .. n - m : u[i] = file[m + i]
    <2>1. \A i \in 1 .. n - m : m + 1 + i - 1 = m + i
      BY <1>2
    <2>2. u \in Seq(Pieces)
      BY <1>1, <1>2
    <2>3. Len(u) = n - m
      BY <1>1, <1>2
    <2>4. \A i \in 1 .. n - m : u[i] = file[m + 1 + i - 1]
      BY <1>1, <1>2
    <2> QED
      BY <2>1, <2>2, <2>3, <2>4
  <1> HIDE DEF u
  <1>4. /\ t \in Seq(Pieces) /\ Len(t) = n
        /\ \A i \in 1 .. n : t[i] = IF i <= m THEN seen[i] ELSE u[i - m]
    BY <1>1, <1>2, <1>3 DEF m
  <1>5. \A i \in 1 .. n : t[i] = <<r, i>>
    <2> TAKE i \in 1 .. n
    <2>1. CASE i <= m
      BY <1>1, <1>2, <1>4, <2>1
    <2>2. CASE ~(i <= m)
      <3>1. i - m \in 1 .. n - m /\ m + (i - m) = i /\ i \in 1 .. Len(file)
        BY <1>2, <2>2
      <3>2. u[i - m] = file[i]
        BY <1>3, <3>1
      <3> QED
        BY <1>1, <1>4, <2>2, <3>1, <3>2
    <2> QED
      BY <2>1, <2>2
  <1> HIDE DEF t
  <1>6. n \in {0, 1, 2}
    BY <1>2
  <1>7. t \in Contents(r)
    BY <1>4, <1>5, <1>6, ContentsByPieces
  <1> QED
    BY <1>4, <1>7 DEF t, u, m

-----------------------------------------------------------------------------
(* What the steps of the others keep.                                      *)

\* Of the files of a run that is alone: they are not lost or cut, and once whole they
\* are not written any more.
Grows(r, s, out) ==
    LET f == <<s, out>>
    IN  f \in DOMAIN files => /\ f \in DOMAIN files' /\ Len(files[f]) <= Len(files'[f])
                              /\ files[f] = Whole(r) => files'[f] = Whole(r)

\* x: a request.
LEMMA RequestKeeps ==
    ASSUME NEW x \in RequestRecord, Asked(x), Summing(x), Types, Types', dirs \subseteq dirs',
           \A j \in Runs : run[j].pc = "done" => run'[j].pc = "done",
           \A j \in Runs, s \in dirs : Alone(j, s)' => Alone(j, s),
           \A j \in Runs, s \in dirs, out \in Numbers : Alone(j, s) => Grows(j, s, out)
    PROVE  Asked(x)' /\ Summing(x)'
  <1>1. Asked(x)'
    BY DEF Asked, RequestRecord
  <1>2. ASSUME x.pc \in Outputs \cup {"done"}, NEW r \in Runs, Alone(r, x.latest)'
        PROVE  Reading(x, r)' /\ \A out \in Numbers : ShownWhole(x, r, out)'
    <2>1. x.latest \in dirs /\ Alone(r, x.latest)
      BY <1>2 DEF Asked
    <2>2. Reading(x, r) /\ \A out \in Numbers : ShownWhole(x, r, out)
      BY <1>2, <2>1 DEF Summing
    <2>3. ASSUME x.pc \in Numbers PROVE Reading(x, r)'
      <3> DEFINE f == <<x.latest, x.pc>>
      <3>1. Grows(r, x.latest, x.pc)
        BY <2>1, <2>3
      <3>2. /\ x.seen \in Contents(r)
            /\ f \notin DOMAIN files => x.seen = << >>
            /\ f \in DOMAIN files => Len(x.seen) <= Len(files[f])
        BY <2>2, <2>3 DEF Reading
      <3>3. f \notin DOMAIN files' => x.seen = << >>
        BY <3>1, <3>2 DEF Grows
      <3>4. f \in DOMAIN files' => Len(x.seen) <= Len(files'[f])
        <4> SUFFICES ASSUME f \in DOMAIN files' PROVE Len(x.seen) <= Len(files'[f])
          OBVIOUS
        <4>1. files'[f] \in Seq(Pieces)
          BY DEF Types
        <4>2. Len(files'[f]) \in Nat /\ Len(x.seen) \in Nat
          BY <4>1, LenProperties DEF RequestRecord
        <4>3. CASE f \in DOMAIN files
          <5>1. Len(files[f]) \in Nat
            <6>1. files[f] \in Seq(Pieces)
              BY <4>3 DEF Types
            <6> QED
              BY <6>1, LenProperties
          <5>2. Len(files[f]) <= Len(files'[f]) /\ Len(x.seen) <= Len(files[f])
            BY <3>1, <3>2, <4>3 DEF Grows
          <5> QED
            BY <4>2, <5>1, <5>2
        <4>4. CASE f \notin DOMAIN files
          BY <3>2, <4>2, <4>4, Lengths
        <4> QED
          BY <4>3, <4>4
      <3> QED
        BY <3>2, <3>3, <3>4 DEF Reading
    <2>4. ASSUME NEW out \in Numbers PROVE ShownWhole(x, r, out)'
      <3>1. Grows(r, x.latest, out)
        BY <2>1
      <3>2. ShownWhole(x, r, out)
        BY <2>2
      <3> QED
        BY <3>1, <3>2 DEF ShownWhole, Grows
    <2> QED
      BY <2>3, <2>4 DEF Reading
  <1>3. Summing(x)'
    BY <1>2 DEF Summing
  <1> QED
    BY <1>1, <1>3

\* One run goes on to x and may write to the outputs of its directory.
LEMMA RunStep ==
    ASSUME BenchInv, NEW r \in Runs, NEW x \in RunRecord, run' = [run EXCEPT ![r] = x],
           x.stamp = run[r].stamp, run[r].pc # "done", x.pc # "new",
           x.stamp = 0 => x.pc = "failed", Left(x, r),
           UNCHANGED <<clock, dirs, request>>,
           files' \in [DOMAIN files' -> Seq(Pieces)], DOMAIN files' \subseteq dirs \X Outputs,
           \A s \in dirs, out \in Outputs : s # x.stamp =>
               /\ <<s, out>> \in DOMAIN files' <=> <<s, out>> \in DOMAIN files
               /\ <<s, out>> \in DOMAIN files => files'[<<s, out>>] = files[<<s, out>>],
           \A out \in Numbers : Alone(r, x.stamp) =>
               Written(x, r, x.stamp, out)' /\ Grows(r, x.stamp, out)
    PROVE  BenchInv'
  <1>1. /\ run' \in [Runs -> RunRecord] /\ run'[r] = x
        /\ \A j \in Runs : j # r => run'[j] = run[j]
    BY DEF BenchInv, Types
  <1>2. \A j \in Runs : run'[j].stamp = run[j].stamp
    BY <1>1
  <1>3. \A s : RunsOf(s)' = RunsOf(s)
    BY <1>2 DEF RunsOf
  <1>4. \A j, s : Alone(j, s)' <=> Alone(j, s)
    BY <1>3 DEF Alone
  <1>5. Types' /\ Last'
    BY <1>1 DEF BenchInv, Types, Last
  <1>6. Stamped'
    <2>1. \A s \in dirs' : \E j \in Runs : run'[j].stamp = s
      BY <1>2 DEF BenchInv, Stamped
    <2>2. ASSUME NEW j \in Runs
          PROVE  /\ run'[j].stamp = 0 \/ run'[j].stamp \in dirs'
                 /\ run'[j].pc = "new" => run'[j].stamp = 0
                 /\ run'[j].stamp = 0 => run'[j].pc \in {"new", "failed"}
      <3>1. CASE j = r
        BY <1>1, <1>2, <3>1 DEF BenchInv, Stamped
      <3>2. CASE j # r
        BY <1>1, <3>2 DEF BenchInv, Stamped
      <3> QED
        BY <3>1, <3>2
    <2> QED
      BY <2>1, <2>2 DEF Stamped
  <1>7. \A j \in Runs, s \in dirs : Alone(j, s) => (s = x.stamp <=> j = r)
    BY DEF Alone, RunsOf
  <1>8. RunInv'
    <2>1. \A j \in Runs : Left(run[j], j)'
      <3> TAKE j \in Runs
      <3>1. CASE j = r
        BY <1>1, <3>1 DEF Left
      <3>2. CASE j # r
        BY <1>1, <3>2 DEF BenchInv, RunInv, Left
      <3> QED
        BY <3>1, <3>2
    <2>2. ASSUME NEW j \in Runs, NEW s \in dirs, NEW out \in Numbers, Alone(j, s)
          PROVE  Written(run[j], j, s, out)'
      <3>1. CASE j = r
        BY <1>1, <1>7, <2>2, <3>1 DEF Written
      <3>2. CASE j # r
        <4>1. s # x.stamp /\ out \in Outputs
          BY <1>7, <2>2, <3>2, OutputsAre DEF Numbers
        <4>2. Written(run[j], j, s, out)
          BY <2>2 DEF BenchInv, RunInv
        <4> QED
          BY <1>1, <3>2, <4>1, <4>2 DEF Written
      <3> QED
        BY <3>1, <3>2
    <2> QED
      BY <1>4, <2>1, <2>2 DEF RunInv
  <1>9. ASSUME NEW j \in Runs, NEW s \in dirs, NEW out \in Numbers, Alone(j, s)
        PROVE  Grows(j, s, out)
    <2>1. CASE j = r
      BY <1>7, <1>9, <2>1
    <2>2. CASE j # r
      <3>1. s # x.stamp /\ out \in Outputs
        BY <1>7, <1>9, <2>2, OutputsAre DEF Numbers
      <3>2. <<s, out>> \in DOMAIN files => files[<<s, out>>] \in Seq(Pieces)
        BY DEF BenchInv, Types
      <3>3. <<s, out>> \in DOMAIN files => Len(files[<<s, out>>]) \in Nat
        BY <3>2, LenProperties
      <3> QED
        BY <3>1, <3>3 DEF Grows
    <2> QED
      BY <2>1, <2>2
  <1>10. \A j \in Runs : run[j].pc = "done" => run'[j].pc = "done"
    BY <1>1
  <1>11. ASSUME NEW q \in Requests PROVE Asked(request[q])' /\ Summing(request[q])'
    <2>1. PICK y \in RequestRecord : y = request[q]
      BY DEF BenchInv, Types
    <2>2. Asked(y) /\ Summing(y)
      BY <2>1 DEF BenchInv, RequestInv
    <2>3. Asked(y)' /\ Summing(y)'
      BY <1>4, <1>5, <1>9, <1>10, <2>2, RequestKeeps DEF BenchInv
    <2>4. request'[q] = y
      BY <2>1
    <2> QED
      BY <2>3, <2>4 DEF Asked, Summing, Reading, ShownWhole
  <1> QED
    BY <1>5, <1>6, <1>8, <1>11 DEF BenchInv, RequestInv

-----------------------------------------------------------------------------
(* The script.                                                             *)

Pcs == {"new", "check", "seq", "rand", "mdtest", "done", "failed"}

LEMMA GotoFacts ==
    ASSUME Types, NEW r \in Runs, NEW pc \in Pcs, Goto(r, pc)
    PROVE  \E x \in RunRecord :
               /\ run' = [run EXCEPT ![r] = x]
               /\ x.pc = pc /\ x.left = << >> /\ x.stamp = run[r].stamp
  <1> DEFINE x == [run[r] EXCEPT !.pc = pc, !.left = << >>]
  <1>1. run[r] \in RunRecord /\ << >> \in Seq(Pieces)
    BY PieceSeqs DEF Types
  <1>2. x \in RunRecord /\ x.pc = pc /\ x.left = << >> /\ x.stamp = run[r].stamp
    BY <1>1 DEF RunRecord, Pcs
  <1>3. run' = [run EXCEPT ![r] = x]
    BY <1>1 DEF Goto, Types
  <1> HIDE DEF x
  <1> QED
    BY <1>2, <1>3

\* A run goes on or ends, and nothing is written.
LEMMA QuietGoto ==
    ASSUME BenchInv, NEW r \in Runs, NEW pc \in {"seq", "done", "failed"}, Goto(r, pc),
           \/ pc = "failed"
           \/ pc = "seq" /\ run[r].pc = "check"
           \/ pc = "done" /\ run[r].pc = "mdtest",
           run[r].pc # "done", UNCHANGED <<clock, dirs, files, request>>
    PROVE  BenchInv'
  <1>1. PICK x \in RunRecord :
            /\ run' = [run EXCEPT ![r] = x]
            /\ x.pc = pc /\ x.left = << >> /\ x.stamp = run[r].stamp
    BY GotoFacts DEF BenchInv, Pcs
  <1>2. x.stamp = 0 => x.pc = "failed"
    BY <1>1 DEF BenchInv, Stamped
  <1>3. Left(x, r)
    BY <1>1 DEF Left
  <1>4. files' \in [DOMAIN files' -> Seq(Pieces)] /\ DOMAIN files' \subseteq dirs \X Outputs
    BY DEF BenchInv, Types
  <1>5. ASSUME NEW out \in Numbers, Alone(r, x.stamp)
        PROVE  Written(x, r, x.stamp, out)' /\ Grows(r, x.stamp, out)
    <2>1. Written(run[r], r, x.stamp, out)
      BY <1>5 DEF BenchInv, RunInv, Alone
    <2>2. Written(x, r, x.stamp, out)
      <3>1. CASE out = "seq"
        BY <1>1, <2>1, <3>1 DEF Written, After, Before
      <3>2. CASE out = "rand"
        BY <1>1, <2>1, <3>2 DEF Written, After, Before
      <3> QED
        BY <3>1, <3>2 DEF Numbers
    <2>3. Written(x, r, x.stamp, out)'
      BY <2>2 DEF Written
    <2>4. Grows(r, x.stamp, out)
      <3> SUFFICES ASSUME <<x.stamp, out>> \in DOMAIN files
                   PROVE  Len(files[<<x.stamp, out>>]) <= Len(files[<<x.stamp, out>>])
        BY DEF Grows
      <3>1. files[<<x.stamp, out>>] \in Seq(Pieces)
        BY DEF BenchInv, Types
      <3>2. Len(files[<<x.stamp, out>>]) \in Nat
        BY <3>1, LenProperties
      <3> QED
        BY <3>2
    <2> QED
      BY <2>3, <2>4
  <1> QED
    BY <1>1, <1>2, <1>3, <1>4, <1>5, RunStep

LEMMA EndsKeep ==
    ASSUME BenchInv, NEW r \in Runs,
           \/ Check(r) \/ Kill(r) \/ (\E out \in Outputs : CommandFails(r, out))
    PROVE  BenchInv'
  <1>1. CASE Check(r)
    BY <1>1, QuietGoto DEF Check, Runner
  <1>2. CASE Kill(r)
    BY <1>2, QuietGoto DEF Kill
  <1>3. ASSUME NEW out \in Outputs, CommandFails(r, out) PROVE BenchInv'
    <2>1. /\ run[r].pc = out /\ Goto(r, AfterFailure(out))
          /\ UNCHANGED <<clock, dirs, files, request>>
      BY <1>3 DEF CommandFails, Runner
    <2>2. \/ AfterFailure(out) = "failed"
          \/ AfterFailure(out) = "done" /\ run[r].pc = "mdtest"
      BY <2>1 DEF AfterFailure
    <2>3. run[r].pc # "done"
      BY <2>1, OutputsAre
    <2>4. PICK pc \in {"seq", "done", "failed"} : pc = AfterFailure(out)
      BY <2>2
    <2> QED
      BY <2>1, <2>2, <2>3, <2>4, QuietGoto
  <1> QED
    BY <1>1, <1>2, <1>3

LEMMA RedirectKeeps ==
    ASSUME BenchInv, NEW r \in Runs, NEW out \in Outputs, Redirect(r, out)
    PROVE  BenchInv'
  <1>0. run[r] \in RunRecord /\ Whole(r) \in Seq(Pieces)
    BY PieceSeqs DEF BenchInv, Types
  <1>1. PICK x \in RunRecord : x = [run[r] EXCEPT !.left = << <<r, 1>>, <<r, 2>> >>]
    BY <1>0 DEF RunRecord, Whole
  <1> DEFINE s == x.stamp
             f == <<s, out>>
  <1>2. s = run[r].stamp
    BY <1>0, <1>1 DEF RunRecord
  <1>3. /\ run[r].pc = out /\ run[r].left = << >>
        /\ files' = [g \in DOMAIN files \cup {f} |-> IF g = f THEN << >> ELSE files[g]]
        /\ run' = [run EXCEPT ![r].left = << <<r, 1>>, <<r, 2>> >>]
        /\ UNCHANGED <<clock, dirs, request>>
    BY <1>2 DEF Redirect, Runner
  <1>4. x.pc = out /\ x.left = Whole(r) /\ run' = [run EXCEPT ![r] = x]
    <2>1. x.pc = out /\ x.left = Whole(r)
      BY <1>0, <1>1, <1>3 DEF RunRecord, Whole
    <2>2. run' = [run EXCEPT ![r] = x]
      BY <1>0, <1>1, <1>3 DEF BenchInv, Types
    <2> QED
      BY <2>1, <2>2
  <1>5. s # 0 /\ s \in dirs
    BY <1>2, <1>3, OutputsAre DEF BenchInv, Stamped
  <1>6. files' \in [DOMAIN files' -> Seq(Pieces)] /\ DOMAIN files' \subseteq dirs \X Outputs
    <2>1. \A g \in DOMAIN files : files[g] \in Seq(Pieces)
      BY DEF BenchInv, Types
    <2>2. << >> \in Seq(Pieces)
      BY PieceSeqs
    <2>3. DOMAIN files \subseteq dirs \X Outputs /\ f \in dirs \X Outputs
      BY <1>5 DEF BenchInv, Types
    <2> QED
      BY <1>3, <2>1, <2>2, <2>3
  <1>7. /\ f \in DOMAIN files' /\ files'[f] = << >>
        /\ \A g : g # f => /\ g \in DOMAIN files' <=> g \in DOMAIN files
                           /\ g \in DOMAIN files => files'[g] = files[g]
    BY <1>3
  <1> HIDE DEF f
  <1>8. ASSUME NEW o \in Numbers, Alone(r, s)
        PROVE  Written(x, r, s, o)' /\ Grows(r, s, o)
    <2>1. Written(run[r], r, s, o)
      BY <1>5, <1>8 DEF BenchInv, RunInv
    <2>2. CASE o = out
      <3>1. f \notin DOMAIN files
        BY <1>3, <2>1, <2>2, Lengths DEF Written, f
      <3>2. out \notin Before(out) /\ out \notin After(out)
        BY <2>2 DEF Before, After, Numbers
      <3> QED
        BY <1>4, <1>7, <2>2, <3>1, <3>2 DEF Written, Grows, Contents, f
    <2>3. CASE o # out
      <3>1. <<s, o>> # f
        BY <2>3 DEF f
      <3>2. /\ <<s, o>> \in DOMAIN files' <=> <<s, o>> \in DOMAIN files
            /\ <<s, o>> \in DOMAIN files => files'[<<s, o>>] = files[<<s, o>>]
        BY <1>7, <3>1
      <3>3. Written(x, r, s, o)'
        BY <1>3, <1>4, <2>1, <2>3, <3>2 DEF Written
      <3>4. <<s, o>> \in DOMAIN files => files[<<s, o>>] \in Seq(Pieces)
        BY DEF BenchInv, Types
      <3>5. <<s, o>> \in DOMAIN files => Len(files[<<s, o>>]) \in Nat
        BY <3>4, LenProperties
      <3>6. Grows(r, s, o)
        BY <3>2, <3>5 DEF Grows
      <3> QED
        BY <3>3, <3>6
    <2> QED
      BY <2>2, <2>3
  <1>9. Left(x, r) /\ x.pc # "new" /\ run[r].pc # "done"
    BY <1>3, <1>4, OutputsAre DEF Left
  <1>10. \A t \in dirs, o \in Outputs : t # s =>
             /\ <<t, o>> \in DOMAIN files' <=> <<t, o>> \in DOMAIN files
             /\ <<t, o>> \in DOMAIN files => files'[<<t, o>>] = files[<<t, o>>]
    BY <1>4, <1>7 DEF f
  <1> QED
    BY <1>2, <1>3, <1>4, <1>5, <1>6, <1>8, <1>9, <1>10, RunStep

LEMMA WriteKeeps ==
    ASSUME BenchInv, NEW r \in Runs, NEW out \in Outputs, Write(r, out)
    PROVE  BenchInv'
  <1>0. /\ run[r] \in RunRecord /\ run[r].pc = out /\ run[r].left # << >>
        /\ run[r].left \in {Whole(r), << <<r, 2>> >>}
        /\ UNCHANGED <<clock, dirs, request>>
    BY DEF Write, Runner, BenchInv, Types, RunInv, Left
  <1>1. PICK x \in RunRecord :
            /\ run' = [run EXCEPT ![r] = x] /\ x.stamp = run[r].stamp
            /\ \/ run[r].left = Whole(r) /\ x.pc = out /\ x.left = << <<r, 2>> >>
               \/ /\ run[r].left = << <<r, 2>> >> /\ x.left = << >>
                  /\ x.pc = Following[out] \/ x.pc = AfterFailure(out)
    <2>1. CASE run[r].left = Whole(r)
      <3> DEFINE x == [run[r] EXCEPT !.left = << <<r, 2>> >>]
      <3>1. x \in RunRecord /\ x.pc = out /\ x.left = << <<r, 2>> >> /\ x.stamp = run[r].stamp
        BY <1>0, PieceSeqs DEF RunRecord
      <3>2. Len(run[r].left) # 1 /\ Tail(run[r].left) = << <<r, 2>> >>
        <4>1. Len(Whole(r)) # 1 /\ Tail(Whole(r)) = << <<r, 2>> >>
          BY Lengths
        <4> QED
          BY <2>1, <4>1
      <3>3. run' = [run EXCEPT ![r].left = Tail(run[r].left)]
        BY <3>2 DEF Write
      <3>4. run' = [run EXCEPT ![r] = x]
        BY <1>0, <3>2, <3>3 DEF BenchInv, Types
      <3> HIDE DEF x
      <3> QED
        BY <2>1, <3>1, <3>4
    <2>2. CASE run[r].left = << <<r, 2>> >>
      <3>1. Len(run[r].left) = 1
        BY <2>2, Lengths
      <3>2. Goto(r, Following[out]) \/ Goto(r, AfterFailure(out))
        BY <3>1 DEF Write
      <3>3. PICK pc \in Pcs : Goto(r, pc) /\ (pc = Following[out] \/ pc = AfterFailure(out))
        BY <3>2, OutputsAre DEF Pcs, AfterFailure
      <3> QED
        BY <2>2, <3>3, GotoFacts DEF BenchInv
    <2> QED
      BY <1>0, <2>1, <2>2
  <1> DEFINE s == x.stamp
             f == <<s, out>>
             old == files[f]
             new == Overlay(files[f], 3 - Len(run[r].left), Head(run[r].left))
  <1>2. s # 0 /\ s \in dirs
    BY <1>0, <1>1, OutputsAre DEF BenchInv, Stamped
  <1>3. files' = [files EXCEPT ![f] = new]
    BY <1>0, <1>1 DEF Write
  <1>4. /\ run[r].left = Whole(r) => new = Overlay(old, 1, <<r, 1>>)
        /\ run[r].left = << <<r, 2>> >> => new = Overlay(old, 2, <<r, 2>>)
    <2>1. /\ 3 - Len(Whole(r)) = 1 /\ Head(Whole(r)) = <<r, 1>>
          /\ 3 - Len(<< <<r, 2>> >>) = 2 /\ Head(<< <<r, 2>> >>) = <<r, 2>>
      BY Lengths
    <2> QED
      BY <2>1
  <1>5. f \in DOMAIN files => new \in Seq(Pieces)
    <2>1. f \in DOMAIN files => old \in Seq(Pieces)
      BY DEF BenchInv, Types
    <2>2. <<r, 1>> \in Pieces /\ <<r, 2>> \in Pieces
      BY DEF Pieces
    <2> QED
      BY <1>0, <1>4, <2>1, <2>2, OverlayType
  <1> HIDE DEF new, f
  <1>6. /\ DOMAIN files' = DOMAIN files
        /\ f \in DOMAIN files => files'[f] = new
        /\ \A g \in DOMAIN files : g # f => files'[g] = files[g]
        /\ files' \in [DOMAIN files' -> Seq(Pieces)]
        /\ DOMAIN files' \subseteq dirs \X Outputs
    BY <1>3, <1>5 DEF BenchInv, Types
  <1>7. ASSUME NEW o \in Numbers, Alone(r, s)
        PROVE  Written(x, r, s, o)' /\ Grows(r, s, o)
    <2>1. Written(run[r], r, s, o)
      BY <1>2, <1>7 DEF BenchInv, RunInv
    <2>2. CASE o = out
      <3>1. /\ f \in DOMAIN files
            /\ \/ run[r].left = Whole(r) /\ old = << >>
               \/ run[r].left = << <<r, 2>> >> /\ old = << <<r, 1>> >>
        BY <1>0, <2>1, <2>2, Lengths DEF Written, f
      <3>2. out \notin Before(out) /\ out \notin After(out)
            /\ Following[out] \notin Before(out) /\ Following[out] # out
            /\ AfterFailure(out) = "failed"
            /\ "failed" \notin Before(out) /\ "failed" \notin After(out) /\ "failed" # out
        BY <2>2, OutputsAre DEF Before, After, Numbers, AfterFailure
      <3>3. CASE run[r].left = Whole(r)
        <4>1. old = << >> /\ x.pc = out /\ x.left = << <<r, 2>> >>
          BY <1>1, <3>1, <3>3, Lengths
        <4>2. files'[f] = << <<r, 1>> >>
          BY <1>4, <1>6, <3>1, <3>3, <4>1, OverlayInTurn
        <4>3. Written(x, r, s, o)'
          BY <1>6, <2>2, <3>1, <3>2, <4>1, <4>2 DEF Written, Contents, f
        <4>4. Grows(r, s, o)
          BY <1>6, <2>2, <3>1, <4>1, <4>2, Lengths DEF Grows, f
        <4> QED
          BY <4>3, <4>4
      <3>4. CASE run[r].left = << <<r, 2>> >>
        <4>1. /\ old = << <<r, 1>> >> /\ x.left = << >>
              /\ x.pc = Following[out] \/ x.pc = "failed"
          BY <1>1, <3>1, <3>2, <3>4, Lengths
        <4>2. files'[f] = Whole(r)
          BY <1>4, <1>6, <3>1, <3>4, <4>1, OverlayInTurn
        <4>3. Written(x, r, s, o)'
          BY <1>6, <2>2, <3>1, <3>2, <4>1, <4>2 DEF Written, Contents, f
        <4>4. Grows(r, s, o)
          BY <1>6, <2>2, <3>1, <4>1, <4>2, Lengths DEF Grows, f
        <4> QED
          BY <4>3, <4>4
      <3> QED
        BY <1>0, <3>3, <3>4
    <2>3. CASE o # out
      <3>1. <<s, o>> # f
        BY <2>3 DEF f
      <3>2. /\ <<s, o>> \in DOMAIN files' <=> <<s, o>> \in DOMAIN files
            /\ <<s, o>> \in DOMAIN files => files'[<<s, o>>] = files[<<s, o>>]
        BY <1>6, <3>1
      <3>3. Written(x, r, s, o)'
        <4>1. CASE x.pc = out
          BY <1>0, <2>1, <2>3, <3>2, <4>1 DEF Written
        <4>2. CASE x.pc = Following[out] /\ x.left = << >>
          <5>1. CASE o = "seq"
            BY <1>0, <2>1, <2>3, <3>2, <4>2, <5>1, OutputsAre DEF Written, Before, After
          <5>2. CASE o = "rand"
            BY <1>0, <2>1, <2>3, <3>2, <4>2, <5>2, OutputsAre DEF Written, Before, After
          <5> QED
            BY <5>1, <5>2 DEF Numbers
        <4>3. CASE x.pc = "failed"
          BY <2>1, <3>2, <4>3 DEF Written, Before, After, Numbers
        <4>4. AfterFailure(out) = Following[out] \/ AfterFailure(out) = "failed"
          BY OutputsAre DEF AfterFailure
        <4> QED
          BY <1>1, <4>1, <4>2, <4>3, <4>4
      <3>4. <<s, o>> \in DOMAIN files => files[<<s, o>>] \in Seq(Pieces)
        BY DEF BenchInv, Types
      <3>5. <<s, o>> \in DOMAIN files => Len(files[<<s, o>>]) \in Nat
        BY <3>4, LenProperties
      <3>6. Grows(r, s, o)
        BY <3>2, <3>5 DEF Grows
      <3> QED
        BY <3>3, <3>6
    <2> QED
      BY <2>2, <2>3
  <1>8. Left(x, r) /\ x.pc # "new" /\ run[r].pc # "done"
    BY <1>0, <1>1, OutputsAre DEF Left, AfterFailure
  <1>9. \A t \in dirs, o \in Outputs : t # s =>
            /\ <<t, o>> \in DOMAIN files' <=> <<t, o>> \in DOMAIN files
            /\ <<t, o>> \in DOMAIN files => files'[<<t, o>>] = files[<<t, o>>]
    BY <1>6 DEF f
  <1> QED
    BY <1>0, <1>1, <1>2, <1>6, <1>7, <1>8, <1>9, RunStep

\* A run begins: its directory is the last, and if it is new no output is in it.
LEMMA MakeDirKeeps ==
    ASSUME BenchInv, NEW r \in Runs, MakeDir(r)
    PROVE  BenchInv'
  <1>1. /\ run[r].pc = "new" /\ dirs' = dirs \cup {clock}
        /\ run' = [run EXCEPT ![r].pc = "check", ![r].stamp = clock]
        /\ UNCHANGED <<clock, files, request>>
    BY DEF MakeDir, Runner
  <1>2. run[r] \in RunRecord /\ clock \in Nat /\ clock >= 1 /\ dirs \subseteq 1 .. clock
        /\ run[r].stamp = 0 /\ run[r].left = << >>
    BY <1>1, OutputsAre DEF BenchInv, Types, Stamped, RunInv, Left
  <1>3. PICK x \in RunRecord :
            run' = [run EXCEPT ![r] = x] /\ x.pc = "check" /\ x.stamp = clock /\ x.left = << >>
    <2> DEFINE x == [run[r] EXCEPT !.pc = "check", !.stamp = clock]
    <2>1. x \in RunRecord /\ x.pc = "check" /\ x.stamp = clock /\ x.left = << >>
      BY <1>2 DEF RunRecord
    <2>2. run' = [run EXCEPT ![r] = x]
      BY <1>1, <1>2 DEF BenchInv, Types
    <2> HIDE DEF x
    <2> QED
      BY <2>1, <2>2
  <1>4. /\ run' \in [Runs -> RunRecord] /\ run'[r] = x
        /\ \A j \in Runs : j # r => run'[j] = run[j]
    BY <1>3 DEF BenchInv, Types
  <1>5. Types'
    <2>1. dirs' \subseteq 1 .. clock
      BY <1>1, <1>2
    <2>2. DOMAIN files \subseteq dirs' \X Outputs
      BY <1>1 DEF BenchInv, Types
    <2> QED
      BY <1>1, <1>4, <2>1, <2>2 DEF BenchInv, Types
  <1>6. Last'
    <2>1. \A s \in dirs' : s <= clock
      BY <1>1, <1>2
    <2> QED
      BY <1>1, <2>1 DEF Last
  <1>7. Stamped'
    <2>1. ASSUME NEW s \in dirs' PROVE \E j \in Runs : run'[j].stamp = s
      <3>1. CASE s = clock
        BY <1>3, <1>4, <3>1
      <3>2. CASE s \in dirs
        <4>1. PICK j \in Runs : run[j].stamp = s
          BY <3>2 DEF BenchInv, Stamped
        <4>2. j # r
          BY <1>2, <3>2, <4>1
        <4> QED
          BY <1>4, <4>1, <4>2
      <3> QED
        BY <1>1, <3>1, <3>2
    <2>2. ASSUME NEW j \in Runs
          PROVE  /\ run'[j].stamp = 0 \/ run'[j].stamp \in dirs'
                 /\ run'[j].pc = "new" => run'[j].stamp = 0
                 /\ run'[j].stamp = 0 => run'[j].pc \in {"new", "failed"}
      <3>1. CASE j = r
        BY <1>1, <1>2, <1>3, <1>4, <3>1
      <3>2. CASE j # r
        BY <1>1, <1>4, <3>2 DEF BenchInv, Stamped
      <3> QED
        BY <3>1, <3>2
    <2> QED
      BY <2>1, <2>2 DEF Stamped
  <1>8. ASSUME NEW j \in Runs, NEW s \in dirs, Alone(j, s)' PROVE Alone(j, s) /\ j # r
    <2>1. PICK i \in Runs : run[i].stamp = s
      BY DEF BenchInv, Stamped
    <2>2. s # 0 /\ i # r
      BY <1>2, <2>1
    <2>3. run'[i].stamp = s
      BY <1>4, <2>1, <2>2
    <2>4. \A k \in Runs : run'[k].stamp = s <=> k = j
      BY <1>8 DEF Alone, RunsOf
    <2>5. i = j
      BY <2>3, <2>4
    <2>6. \A k \in Runs : run[k].stamp = s => k = j
      <3> TAKE k \in Runs
      <3>1. CASE k = r
        BY <1>2, <2>2, <3>1
      <3>2. CASE k # r
        BY <1>4, <2>4, <3>2
      <3> QED
        BY <3>1, <3>2
    <2> QED
      BY <2>1, <2>2, <2>5, <2>6 DEF Alone, RunsOf
  <1>9. RunInv'
    <2>1. \A j \in Runs : Left(run[j], j)'
      <3> TAKE j \in Runs
      <3>1. CASE j = r
        BY <1>3, <1>4, <3>1, OutputsAre DEF Left
      <3>2. CASE j # r
        BY <1>4, <3>2 DEF BenchInv, RunInv, Left
      <3> QED
        BY <3>1, <3>2
    <2>2. ASSUME NEW j \in Runs, NEW s \in dirs', NEW out \in Numbers, Alone(j, s)'
          PROVE  Written(run[j], j, s, out)'
      <3>1. CASE s \in dirs
        <4>1. Written(run[j], j, s, out) /\ j # r
          BY <1>8, <2>2, <3>1 DEF BenchInv, RunInv
        <4> QED
          BY <1>1, <1>4, <4>1 DEF Written
      <3>2. CASE s \notin dirs
        <4>1. s = clock /\ <<s, out>> \notin DOMAIN files
          BY <1>1, <3>2 DEF BenchInv, Types
        <4>2. j = r
          BY <1>3, <1>4, <2>2, <4>1 DEF Alone, RunsOf
        <4> QED
          BY <1>1, <1>3, <1>4, <4>1, <4>2 DEF Written, After, Numbers
      <3> QED
        BY <3>1, <3>2
    <2> QED
      BY <2>1, <2>2 DEF RunInv
  <1>10. ASSUME NEW j \in Runs, NEW s \in dirs, NEW out \in Numbers, Alone(j, s)
         PROVE  Grows(j, s, out)
    <2>1. <<s, out>> \in DOMAIN files => files[<<s, out>>] \in Seq(Pieces)
      BY DEF BenchInv, Types
    <2>2. <<s, out>> \in DOMAIN files => Len(files[<<s, out>>]) \in Nat
      BY <2>1, LenProperties
    <2> QED
      BY <1>1, <2>2 DEF Grows
  <1>11. \A j \in Runs : run[j].pc = "done" => run'[j].pc = "done"
    BY <1>1, <1>4
  <1>12. ASSUME NEW q \in Requests PROVE Asked(request[q])' /\ Summing(request[q])'
    <2>1. PICK y \in RequestRecord : y = request[q]
      BY DEF BenchInv, Types
    <2>2. Asked(y) /\ Summing(y)
      BY <2>1 DEF BenchInv, RequestInv
    <2>3. Asked(y)' /\ Summing(y)'
      BY <1>1, <1>5, <1>8, <1>10, <1>11, <2>2, RequestKeeps DEF BenchInv
    <2>4. request'[q] = y
      BY <1>1, <2>1
    <2> QED
      BY <2>3, <2>4 DEF Asked, Summing, Reading, ShownWhole
  <1> QED
    BY <1>5, <1>6, <1>7, <1>9, <1>12 DEF BenchInv, RequestInv

-----------------------------------------------------------------------------
(* The handler.                                                            *)

LEMMA ServeStep ==
    ASSUME BenchInv, NEW q \in Requests, NEW x \in RequestRecord,
           request' = [request EXCEPT ![q] = x], Asked(x), Summing(x),
           UNCHANGED <<clock, dirs, files, run>>
    PROVE  BenchInv'
  <1>1. /\ request' \in [Requests -> RequestRecord] /\ request'[q] = x
        /\ \A p \in Requests : p # q => request'[p] = request[p]
    BY DEF BenchInv, Types
  <1>2. Types' /\ Last' /\ Stamped'
    BY <1>1 DEF BenchInv, Types, Last, Stamped
  <1>3. \A j, s : Alone(j, s)' <=> Alone(j, s)
    BY DEF Alone, RunsOf
  <1>4. RunInv'
    BY <1>3 DEF BenchInv, RunInv, Left, Written
  <1>5. ASSUME NEW p \in Requests PROVE Asked(request[p])' /\ Summing(request[p])'
    <2>1. PICK y \in RequestRecord : y = request'[p]
      BY <1>1
    <2>2. Asked(y) /\ Summing(y)
      BY <1>1, <2>1 DEF BenchInv, RequestInv
    <2>3. Asked(y)'
      BY <2>2 DEF Asked
    <2>4. Summing(y)'
      BY <1>3, <2>2 DEF Summing, Reading, ShownWhole
    <2> QED
      BY <2>1, <2>3, <2>4 DEF Asked, Summing, Reading, ShownWhole
  <1> QED
    BY <1>2, <1>4, <1>5 DEF BenchInv, RequestInv

LEMMA LatestIsLast ==
    ASSUME Types, Last, dirs # {}
    PROVE  LatestOf(dirs) \in dirs /\ \A s \in dirs : s <= LatestOf(dirs)
  <1>1. PICK m \in dirs : \A s \in dirs : s <= m
    BY DEF Last
  <1>2. \A s \in dirs : s \in Nat
    BY DEF Types
  <1>3. \E m1 \in dirs : \A s \in dirs : m1 >= s
    BY <1>1, <1>2
  <1>4. LatestOf(dirs) \in dirs /\ \A s \in dirs : LatestOf(dirs) >= s
    BY <1>3 DEF LatestOf, Max
  <1> QED
    BY <1>2, <1>4

LEMMA AskKeeps ==
    ASSUME BenchInv, NEW q \in Requests, Ask(q) \/ ReadDir(q) \/ ReadDirFails(q)
    PROVE  BenchInv'
  <1>1. /\ request[q] \in RequestRecord /\ Asked(request[q]) /\ Summing(request[q])
        /\ request \in [Requests -> RequestRecord]
        /\ UNCHANGED <<clock, dirs, files, run>>
    BY DEF BenchInv, Types, RequestInv, Ask, ReadDir, ReadDirFails, Handler
  <1>2. dirs \subseteq Nat
    BY DEF BenchInv, Types
  <1>3. CASE Ask(q)
    <2>1. PICK x : x = [request[q] EXCEPT !.pc = "list", !.made = dirs,
                                          !.done = {r \in Runs : run[r].pc = "done"}]
      OBVIOUS
    <2>2. /\ x \in RequestRecord /\ x.pc = "list" /\ x.made = dirs
          /\ x.done = {r \in Runs : run[r].pc = "done"}
          /\ x.seen = request[q].seen /\ x.seq = request[q].seq /\ x.rand = request[q].rand
      BY <1>1, <1>2, <2>1 DEF RequestRecord
    <2>3. request' = [request EXCEPT ![q] = x] /\ request[q].pc = "new"
      BY <1>1, <1>3, <2>1 DEF Ask, Handler
    <2>4. Asked(x) /\ Summing(x)
      BY <1>1, <2>2, <2>3, OutputsAre DEF Asked, Summing
    <2> QED
      BY <1>1, <2>2, <2>3, <2>4, ServeStep
  <1>4. CASE ReadDir(q) /\ dirs = {}
    <2>1. PICK x : x = [request[q] EXCEPT !.pc = "unavailable"]
      OBVIOUS
    <2>2. /\ x \in RequestRecord /\ x.pc = "unavailable" /\ x.made = request[q].made
          /\ x.done = request[q].done
      BY <1>1, <2>1 DEF RequestRecord
    <2>3. request' = [request EXCEPT ![q] = x] /\ request[q].pc = "list"
      BY <1>1, <1>4, <2>1 DEF ReadDir, Handler
    <2>4. Asked(x) /\ Summing(x)
      BY <1>1, <1>4, <2>2, <2>3, OutputsAre DEF Asked, Summing
    <2> QED
      BY <1>1, <2>2, <2>3, <2>4, ServeStep
  <1>5. CASE ReadDir(q) /\ dirs # {}
    <2>1. PICK x : x = [request[q] EXCEPT !.pc = "seq", !.latest = LatestOf(dirs)]
      OBVIOUS
    <2>2. LatestOf(dirs) \in dirs /\ \A s \in dirs : s <= LatestOf(dirs)
      BY <1>5, LatestIsLast DEF BenchInv
    <2>3. /\ x \in RequestRecord /\ x.pc = "seq" /\ x.latest = LatestOf(dirs)
          /\ x.made = request[q].made /\ x.done = request[q].done
          /\ x.seen = request[q].seen /\ x.seq = request[q].seq /\ x.rand = request[q].rand
      BY <1>1, <1>2, <2>1, <2>2 DEF RequestRecord
    <2>4. request' = [request EXCEPT ![q] = x] /\ request[q].pc = "list"
      BY <1>1, <1>5, <2>1 DEF ReadDir, Handler
    <2>5. x.seen = << >> /\ x.seq = NoRun /\ x.rand = NoRun
      BY <1>1, <2>3, <2>4 DEF Asked
    <2>6. Asked(x)
      BY <1>1, <2>2, <2>3, <2>4, OutputsAre DEF Asked
    <2>7. \A r \in Runs : Reading(x, r)
      <3> DEFINE f == <<x.latest, x.pc>>
      <3>1. f \in DOMAIN files => files[f] \in Seq(Pieces)
        BY DEF BenchInv, Types
      <3>2. f \in DOMAIN files => Len(files[f]) \in Nat
        BY <3>1, LenProperties
      <3>3. f \in DOMAIN files => Len(x.seen) <= Len(files[f])
        BY <2>5, <3>2, Lengths
      <3> QED
        BY <2>5, <3>3 DEF Reading, Contents
    <2>8. \A r \in Runs, out \in Numbers : ShownWhole(x, r, out)
      <3>1. x["seq"] = NoRun /\ x["rand"] = NoRun
        BY <2>5
      <3>2. \A out \in Numbers : x[out] = NoRun /\ x.pc \notin After(out)
        BY <2>3, <3>1 DEF Numbers, After
      <3> QED
        BY <3>2 DEF ShownWhole
    <2>9. Summing(x)
      BY <2>7, <2>8 DEF Summing
    <2> QED
      BY <1>1, <2>3, <2>4, <2>6, <2>9, ServeStep
  <1>6. CASE ReadDirFails(q)
    <2>1. PICK x : x = [request[q] EXCEPT !.pc = "error"]
      OBVIOUS
    <2>2. /\ x \in RequestRecord /\ x.pc = "error" /\ x.made = request[q].made
          /\ x.done = request[q].done
      BY <1>1, <2>1 DEF RequestRecord
    <2>3. request' = [request EXCEPT ![q] = x] /\ request[q].pc = "list"
      BY <1>1, <1>6, <2>1 DEF ReadDirFails, Handler
    <2>4. Asked(x) /\ Summing(x)
      BY <1>1, <2>2, <2>3, OutputsAre DEF Asked, Summing
    <2> QED
      BY <1>1, <2>2, <2>3, <2>4, ServeStep
  <1> QED
    BY <1>3, <1>4, <1>5, <1>6

\* The handler has done with an output and turns to the next.
LEMMA PassOn ==
    ASSUME BenchInv, NEW y \in RequestRecord, Asked(y), Summing(y),
           NEW x \in RequestRecord, NEW out \in Outputs, y.pc = out, x.pc = Following[out],
           x.latest = y.latest, x.made = y.made, x.done = y.done, y.failed => x.failed,
           \A o \in Numbers : o # out => x[o] = y[o],
           \A r \in Runs : Alone(r, y.latest) /\ out \in Numbers =>
               x.seen = << >> /\ ShownWhole(x, r, out)
    PROVE  Asked(x) /\ Summing(x)
  <1>1. x.pc \notin {"new", "list", "unavailable"} /\ y.pc # "new"
        /\ y.pc \in Outputs \cup {"done"}
    BY OutputsAre
  <1>2. Asked(x)
    BY <1>1 DEF Asked
  <1>3. ASSUME NEW r \in Runs, Alone(r, x.latest)
        PROVE  Reading(x, r) /\ \A o \in Numbers : ShownWhole(x, r, o)
    <2>1. Reading(y, r) /\ \A o \in Numbers : ShownWhole(y, r, o)
      BY <1>1, <1>3 DEF Summing
    <2>2. Reading(x, r)
      <3> SUFFICES ASSUME x.pc \in Numbers PROVE Reading(x, r)
        BY DEF Reading
      <3> DEFINE f == <<x.latest, x.pc>>
      <3>1. out \in Numbers
        BY OutputsAre DEF Numbers
      <3>2. x.seen = << >>
        BY <1>3, <3>1
      <3>3. f \in DOMAIN files => files[f] \in Seq(Pieces)
        BY DEF BenchInv, Types
      <3>4. f \in DOMAIN files => Len(files[f]) \in Nat
        BY <3>3, LenProperties
      <3>5. f \in DOMAIN files => Len(x.seen) <= Len(files[f])
        BY <3>2, <3>4, Lengths
      <3> QED
        BY <3>2, <3>5 DEF Reading, Contents
    <2>3. ASSUME NEW o \in Numbers PROVE ShownWhole(x, r, o)
      <3>1. CASE o = out
        BY <1>3, <3>1
      <3>2. CASE o # out
        <4>1. x.pc \in After(o) => y.pc \in After(o)
          BY <3>2, OutputsAre DEF After, Numbers
        <4>2. x[o] = y[o] /\ ShownWhole(y, r, o)
          BY <2>1, <3>2
        <4> QED
          BY <4>1, <4>2 DEF ShownWhole
      <3> QED
        BY <3>1, <3>2
    <2> QED
      BY <2>2, <2>3
  <1> QED
    BY <1>2, <1>3 DEF Summing

\* An output that a run which is done and alone has made is there, whole.
LEMMA DoneIsWhole ==
    ASSUME BenchInv, NEW r \in Runs, NEW s, Alone(r, s), run[r].pc = "done",
           NEW out \in Numbers
    PROVE  <<s, out>> \in DOMAIN files /\ files[<<s, out>>] = Whole(r)
  <1>1. Written(run[r], r, s, out)
    BY DEF BenchInv, RunInv, Alone
  <1> QED
    BY <1>1 DEF Written, After, Numbers

LEMMA MissingKeeps ==
    ASSUME BenchInv, NEW q \in Requests, NEW out \in Outputs,
           Missing(q, out) \/ ReadFails(q, out)
    PROVE  BenchInv'
  <1>1. /\ request[q] \in RequestRecord /\ Asked(request[q]) /\ Summing(request[q])
        /\ request \in [Requests -> RequestRecord] /\ request[q].pc = out
        /\ UNCHANGED <<clock, dirs, files, run>>
    BY DEF BenchInv, Types, RequestInv, Missing, ReadFails, Handler
  <1>2. PICK y \in RequestRecord : y = request[q]
    BY <1>1
  <1>3. Following[out] \in {"rand", "mdtest", "done"} /\ << >> \in Seq(Pieces)
    BY OutputsAre, PieceSeqs DEF Pieces
  <1>4. \A r \in Runs : Alone(r, y.latest) /\ out \in Numbers =>
            Reading(y, r) /\ ShownWhole(y, r, out)
    BY <1>1, <1>2 DEF Summing
  <1>5. CASE Missing(q, out)
    <2>1. PICK x : x = [y EXCEPT !.pc = Following[out]]
      OBVIOUS
    <2>2. /\ x \in RequestRecord /\ x.pc = Following[out] /\ x.latest = y.latest
          /\ x.made = y.made /\ x.done = y.done /\ x.failed = y.failed /\ x.seen = y.seen
          /\ x.seq = y.seq /\ x.rand = y.rand
      BY <1>3, <2>1 DEF RequestRecord
    <2>3. x["seq"] = y["seq"] /\ x["rand"] = y["rand"]
      BY <2>2
    <2>4. \A o \in Numbers : x[o] = y[o]
      BY <2>3 DEF Numbers
    <2>5. request' = [request EXCEPT ![q] = x] /\ <<y.latest, out>> \notin DOMAIN files
      BY <1>1, <1>2, <1>5, <2>1 DEF Missing
    <2>6. ASSUME NEW r \in Runs, Alone(r, y.latest), out \in Numbers
          PROVE  x.seen = << >> /\ ShownWhole(x, r, out)
      <3>1. x.seen = << >>
        BY <1>1, <1>2, <1>4, <2>2, <2>5, <2>6 DEF Reading
      <3>2. r \notin x.done
        <4> SUFFICES ASSUME r \in x.done PROVE FALSE
          OBVIOUS
        <4>1. run[r].pc = "done"
          BY <1>1, <1>2, <2>2 DEF Asked
        <4> QED
          BY <2>5, <2>6, <4>1, DoneIsWhole
      <3>3. ShownWhole(x, r, out)
        BY <1>4, <2>2, <2>4, <2>6, <3>2 DEF ShownWhole
      <3> QED
        BY <3>1, <3>3
    <2>7. Asked(x) /\ Summing(x)
      BY <1>1, <1>2, <2>2, <2>4, <2>6, PassOn
    <2> QED
      BY <1>1, <2>2, <2>5, <2>7, ServeStep
  <1>6. CASE ReadFails(q, out)
    <2>1. PICK x : x = [y EXCEPT !.pc = Following[out], !.seen = << >>, !.failed = TRUE]
      OBVIOUS
    <2>2. /\ x \in RequestRecord /\ x.pc = Following[out] /\ x.latest = y.latest
          /\ x.made = y.made /\ x.done = y.done /\ x.failed /\ x.seen = << >>
          /\ x.seq = y.seq /\ x.rand = y.rand
      BY <1>3, <2>1 DEF RequestRecord
    <2>3. x["seq"] = y["seq"] /\ x["rand"] = y["rand"]
      BY <2>2
    <2>4. \A o \in Numbers : x[o] = y[o]
      BY <2>3 DEF Numbers
    <2>5. request' = [request EXCEPT ![q] = x]
      BY <1>1, <1>2, <1>6, <2>1 DEF ReadFails
    <2>6. ASSUME NEW r \in Runs, Alone(r, y.latest), out \in Numbers
          PROVE  x.seen = << >> /\ ShownWhole(x, r, out)
      BY <1>4, <2>2, <2>4, <2>6 DEF ShownWhole
    <2>7. Asked(x) /\ Summing(x)
      BY <1>1, <1>2, <2>2, <2>4, <2>6, PassOn
    <2> QED
      BY <1>1, <2>2, <2>5, <2>7, ServeStep
  <1> QED
    BY <1>5, <1>6

LEMMA ReadSomeKeeps ==
    ASSUME BenchInv, NEW q \in Requests, NEW out \in Outputs, ReadSome(q, out)
    PROVE  BenchInv'
  <1>1. /\ request[q] \in RequestRecord /\ Asked(request[q]) /\ Summing(request[q])
        /\ request \in [Requests -> RequestRecord] /\ request[q].pc = out
        /\ UNCHANGED <<clock, dirs, files, run>>
    BY DEF BenchInv, Types, RequestInv, ReadSome, Handler
  <1>2. PICK y \in RequestRecord : y = request[q]
    BY <1>1
  <1> DEFINE f == <<y.latest, out>>
             pos == Len(y.seen)
  <1>3. f \in DOMAIN files
    BY <1>2 DEF ReadSome
  <1>4. PICK n \in pos + 1 .. Len(files[f]) :
            request' = [request EXCEPT ![q].seen = y.seen \o SubSeq(files[f], pos + 1, n)]
    BY <1>1, <1>2 DEF ReadSome
  <1>5. PICK t : t = y.seen \o SubSeq(files[f], pos + 1, n)
    OBVIOUS
  <1>6. /\ files[f] \in Seq(Pieces) /\ Len(files[f]) \in Nat
        /\ y.seen \in Seq(Pieces) /\ pos \in Nat /\ n \in Nat /\ n <= Len(files[f])
    <2>1. files[f] \in Seq(Pieces) /\ y.seen \in Seq(Pieces)
      BY <1>3 DEF BenchInv, Types, RequestRecord
    <2>2. Len(files[f]) \in Nat /\ pos \in Nat
      BY <2>1, LenProperties
    <2> QED
      BY <2>1, <2>2
  <1>7. t \in Seq(Pieces)
    <2>1. SubSeq(files[f], pos + 1, n) \in Seq(Pieces)
      BY <1>6
    <2> QED
      BY <1>5, <1>6, <2>1, ConcatProperties
  <1>8. PICK x : x = [y EXCEPT !.seen = t]
    OBVIOUS
  <1>9. /\ x \in RequestRecord /\ x.pc = out /\ x.latest = y.latest /\ x.made = y.made
        /\ x.done = y.done /\ x.failed = y.failed /\ x.seen = t
        /\ x.seq = y.seq /\ x.rand = y.rand
    BY <1>1, <1>2, <1>7, <1>8 DEF RequestRecord
  <1>10. \A o \in Numbers : x[o] = y[o]
    <2>1. x["seq"] = y["seq"] /\ x["rand"] = y["rand"]
      BY <1>9
    <2> QED
      BY <2>1 DEF Numbers
  <1>11. request' = [request EXCEPT ![q] = x]
    BY <1>1, <1>2, <1>4, <1>5, <1>8
  <1>12. Asked(x)
    BY <1>1, <1>2, <1>9, OutputsAre DEF Asked
  <1>13. ASSUME NEW r \in Runs, Alone(r, x.latest)
         PROVE  Reading(x, r) /\ \A o \in Numbers : ShownWhole(x, r, o)
    <2>1. Reading(y, r) /\ \A o \in Numbers : ShownWhole(y, r, o)
      BY <1>1, <1>2, <1>9, <1>13 DEF Summing
    <2>2. ASSUME out \in Numbers PROVE Reading(x, r)
      <3>1. y.seen \in Contents(r)
        BY <1>1, <1>2, <2>1, <2>2 DEF Reading
      <3>2. files[f] \in Contents(r)
        <4>1. Written(run[r], r, y.latest, out)
          BY <1>9, <1>13, <2>2 DEF BenchInv, RunInv, Alone
        <4> QED
          BY <1>3, <4>1 DEF Written
      <3>3. t \in Contents(r) /\ Len(t) = n
        BY <1>5, <3>1, <3>2, ReadOn
      <3> QED
        BY <1>3, <1>6, <1>9, <3>3 DEF Reading
    <2>3. Reading(x, r)
      BY <1>9, <2>2 DEF Reading
    <2>4. \A o \in Numbers : ShownWhole(x, r, o)
      BY <1>1, <1>2, <1>9, <1>10, <2>1 DEF ShownWhole
    <2> QED
      BY <2>3, <2>4
  <1>14. Summing(x)
    BY <1>13 DEF Summing
  <1> QED
    BY <1>1, <1>9, <1>11, <1>12, <1>14, ServeStep

\* The runs that the numbers, or the last line, of a sequence of pieces come from.
LEMMA SummaryType ==
    ASSUME NEW seen \in Seq(Pieces), NEW out
    PROVE  Summary(out, seen) \in Owners
  <1>1. \A p \in Pieces : p[1] \in Runs \cup {"hole"}
    BY DEF Pieces, Hole
  <1>2. Len(seen) \in Nat /\ \A i \in 1 .. Len(seen) : seen[i][1] \in Runs \cup {"hole"}
    BY <1>1, LenProperties
  <1>3. Parsed(seen) \in Owners
    <2>1. CASE Len(seen) = 2
      <3>1. 1 \in 1 .. Len(seen) /\ 2 \in 1 .. Len(seen)
        BY <2>1
      <3> QED
        BY <1>2, <3>1 DEF Parsed, Owners, NoRun
    <2>2. CASE Len(seen) # 2
      BY <2>2 DEF Parsed, Owners, NoRun
    <2> QED
      BY <2>1, <2>2
  <1>4. LastLine(seen) \in Owners
    <2>1. CASE seen = << >>
      BY <2>1 DEF LastLine, Owners, NoRun
    <2>2. CASE seen # << >>
      <3>1. Len(seen) \in 1 .. Len(seen)
        BY <1>2, <2>2, EmptySeq
      <3> QED
        BY <1>2, <2>2, <3>1 DEF LastLine, Owners
    <2> QED
      BY <2>1, <2>2
  <1> QED
    BY <1>3, <1>4 DEF Summary

LEMMA ParsedWhole ==
    ASSUME NEW r \in Runs, NEW c \in Contents(r)
    PROVE  IF c = Whole(r) THEN Parsed(c) = {r} ELSE Parsed(c) = NoRun
  <1>1. CASE c = Whole(r)
    <2>1. Len(c) = 2 /\ c[1] = <<r, 1>> /\ c[2] = <<r, 2>>
      BY <1>1 DEF Whole
    <2> QED
      BY <1>1, <2>1 DEF Parsed
  <1>2. CASE c # Whole(r)
    <2>1. Len(c) # 2
      BY <1>2, Lengths DEF Contents
    <2> QED
      BY <1>2, <2>1 DEF Parsed
  <1> QED
    BY <1>1, <1>2

LEMMA SameContents ==
    ASSUME NEW r \in Runs, NEW c \in Contents(r), NEW d \in Contents(r), Len(c) = Len(d)
    PROVE  c = d
  <1>1. c \in {<< >>, << <<r, 1>> >>, Whole(r)} /\ d \in {<< >>, << <<r, 1>> >>, Whole(r)}
    BY DEF Contents
  <1>2. PICK e, o, w : e = << >> /\ o = << <<r, 1>> >> /\ w = Whole(r)
    OBVIOUS
  <1>3. Len(e) = 0 /\ Len(o) = 1 /\ Len(w) = 2
    BY <1>2, Lengths
  <1>4. c \in {e, o, w} /\ d \in {e, o, w}
    BY <1>1, <1>2
  <1>5. CASE c = e
    BY <1>3, <1>4, <1>5
  <1>6. CASE c = o
    BY <1>3, <1>4, <1>6
  <1>7. CASE c = w
    BY <1>3, <1>4, <1>7
  <1> QED
    BY <1>4, <1>5, <1>6, <1>7

LEMMA ReadEndKeeps ==
    ASSUME BenchInv, NEW q \in Requests, NEW out \in Outputs, ReadEnd(q, out)
    PROVE  BenchInv'
  <1>1. /\ request[q] \in RequestRecord /\ Asked(request[q]) /\ Summing(request[q])
        /\ request \in [Requests -> RequestRecord] /\ request[q].pc = out
        /\ UNCHANGED <<clock, dirs, files, run>>
    BY DEF BenchInv, Types, RequestInv, ReadEnd, Handler
  <1>2. PICK y \in RequestRecord : y = request[q]
    BY <1>1
  <1> DEFINE f == <<y.latest, out>>
  <1>3. /\ f \in DOMAIN files /\ Len(y.seen) >= Len(files[f])
        /\ request' = [request EXCEPT ![q].pc = Following[out], ![q].seen = << >>,
                                      ![q][out] = Summary(out, y.seen)]
    BY <1>2 DEF ReadEnd
  <1>4. PICK shown \in Owners : shown = Summary(out, y.seen)
    BY SummaryType DEF RequestRecord
  <1>5. Following[out] \in {"rand", "mdtest", "done"} /\ << >> \in Seq(Pieces)
    BY OutputsAre, PieceSeqs DEF Pieces
  <1>6. PICK x : x = [y EXCEPT !.pc = Following[out], !.seen = << >>, ![out] = shown]
    OBVIOUS
  <1>7. /\ x \in RequestRecord /\ x.pc = Following[out] /\ x.latest = y.latest
        /\ x.made = y.made /\ x.done = y.done /\ x.failed = y.failed /\ x.seen = << >>
        /\ x[out] = shown /\ \A o \in Numbers : o # out => x[o] = y[o]
    <2>1. CASE out = "seq"
      <3>1. x = [y EXCEPT !.pc = "rand", !.seen = << >>, !.seq = shown]
        BY <1>6, <2>1, OutputsAre
      <3>2. /\ x \in RequestRecord /\ x.pc = "rand" /\ x.latest = y.latest
            /\ x.made = y.made /\ x.done = y.done /\ x.failed = y.failed /\ x.seen = << >>
            /\ x.seq = shown /\ x.rand = y.rand
        BY <1>5, <3>1 DEF RequestRecord
      <3>3. x["seq"] = shown /\ x["rand"] = y["rand"]
        BY <3>2
      <3> QED
        BY <2>1, <3>2, <3>3, OutputsAre DEF Numbers
    <2>2. CASE out = "rand"
      <3>1. x = [y EXCEPT !.pc = "mdtest", !.seen = << >>, !.rand = shown]
        BY <1>6, <2>2, OutputsAre
      <3>2. /\ x \in RequestRecord /\ x.pc = "mdtest" /\ x.latest = y.latest
            /\ x.made = y.made /\ x.done = y.done /\ x.failed = y.failed /\ x.seen = << >>
            /\ x.seq = y.seq /\ x.rand = shown
        BY <1>5, <3>1 DEF RequestRecord
      <3>3. x["seq"] = y["seq"] /\ x["rand"] = shown
        BY <3>2
      <3> QED
        BY <2>2, <3>2, <3>3, OutputsAre DEF Numbers
    <2>3. CASE out = "mdtest"
      <3>1. x = [y EXCEPT !.pc = "done", !.seen = << >>, !.mdtest = shown]
        BY <1>6, <2>3, OutputsAre
      <3>2. /\ x \in RequestRecord /\ x.pc = "done" /\ x.latest = y.latest
            /\ x.made = y.made /\ x.done = y.done /\ x.failed = y.failed /\ x.seen = << >>
            /\ x.seq = y.seq /\ x.rand = y.rand /\ x.mdtest = shown
        BY <1>5, <3>1 DEF RequestRecord
      <3>3. x["seq"] = y["seq"] /\ x["rand"] = y["rand"] /\ x["mdtest"] = shown
        BY <3>2
      <3> QED
        BY <2>3, <3>2, <3>3, OutputsAre DEF Numbers
    <2> QED
      BY <2>1, <2>2, <2>3, OutputsAre
  <1>8. request' = [request EXCEPT ![q] = x]
    BY <1>1, <1>2, <1>3, <1>4, <1>6
  <1>9. ASSUME NEW r \in Runs, Alone(r, y.latest), out \in Numbers
        PROVE  ShownWhole(x, r, out)
    <2>1. y.seen \in Contents(r) /\ Len(y.seen) <= Len(files[f])
      BY <1>1, <1>2, <1>3, <1>9 DEF Summing, Reading
    <2>2. files[f] \in Contents(r)
      <3>1. Written(run[r], r, y.latest, out)
        BY <1>9 DEF BenchInv, RunInv, Alone
      <3> QED
        BY <1>3, <3>1 DEF Written
    <2>3. Len(y.seen) \in Nat /\ Len(files[f]) \in Nat
      BY <2>1, <2>2, ContentsPieces
    <2>4. y.seen = files[f]
      <3>1. Len(y.seen) = Len(files[f])
        BY <1>3, <2>1, <2>3
      <3> QED
        BY <2>1, <2>2, <3>1, SameContents
    <2>5. shown = Parsed(files[f])
      BY <1>4, <1>9, <2>4, OutputsAre DEF Summary, Numbers
    <2>6. IF files[f] = Whole(r) THEN shown = {r} ELSE shown = NoRun
      BY <2>2, <2>5, ParsedWhole
    <2>7. r \in x.done => files[f] = Whole(r)
      BY <1>1, <1>2, <1>7, <1>9, DoneIsWhole DEF Asked
    <2> QED
      BY <1>3, <1>7, <2>6, <2>7 DEF ShownWhole
  <1>10. Asked(x) /\ Summing(x)
    BY <1>1, <1>2, <1>7, <1>9, PassOn
  <1> QED
    BY <1>1, <1>7, <1>8, <1>10, ServeStep

-----------------------------------------------------------------------------
(* The steps together.                                                     *)

\* Time passes, or nothing happens.
LEMMA TickKeeps ==
    ASSUME BenchInv, clock' \in {clock, clock + 1}, UNCHANGED <<dirs, files, run, request>>
    PROVE  BenchInv'
  <1>1. Types' /\ Last' /\ Stamped'
    <2>1. clock' \in Nat /\ clock' >= 1 /\ dirs' \subseteq 1 .. clock'
      BY DEF BenchInv, Types
    <2> QED
      BY <2>1 DEF BenchInv, Types, Last, Stamped
  <1>2. \A j, s : Alone(j, s)' <=> Alone(j, s)
    BY DEF Alone, RunsOf
  <1>3. RunInv'
    BY <1>2 DEF BenchInv, RunInv, Left, Written
  <1>4. ASSUME NEW p \in Requests PROVE Asked(request[p])' /\ Summing(request[p])'
    <2>1. PICK y \in RequestRecord : y = request[p]
      BY DEF BenchInv, Types
    <2>2. Asked(y) /\ Summing(y)
      BY <2>1 DEF BenchInv, RequestInv
    <2>3. Asked(y)'
      BY <2>2 DEF Asked
    <2>4. Summing(y)'
      BY <1>2, <2>2 DEF Summing, Reading, ShownWhole
    <2>5. request'[p] = y
      BY <2>1
    <2> QED
      BY <2>3, <2>4, <2>5 DEF Asked, Summing, Reading, ShownWhole
  <1> QED
    BY <1>1, <1>3, <1>4 DEF BenchInv, RequestInv

LEMMA InitHolds ==
    ASSUME Init
    PROVE  BenchInv
  <1>0. << >> \in Seq(Pieces)
    OBVIOUS
  <1>1. NewRun \in RunRecord
    BY <1>0 DEF NewRun, RunRecord
  <1>2. NewRequest \in RequestRecord
    BY <1>0 DEF NewRequest, RequestRecord, NoRun, Owners
  <1>3. Types /\ Last
    BY <1>1, <1>2 DEF Init, Types, Last
  <1>4. Stamped
    BY DEF Init, Stamped, NewRun
  <1>5. RunInv
    BY OutputsAre DEF Init, RunInv, Left, NewRun
  <1>6. RequestInv
    BY OutputsAre DEF Init, RequestInv, Asked, Summing, NewRequest
  <1> QED
    BY <1>3, <1>4, <1>5, <1>6 DEF BenchInv

LEMMA NextKeeps ==
    ASSUME BenchInv, [Next]_vars
    PROVE  BenchInv'
  <1>1. CASE Tick
    BY <1>1, TickKeeps DEF Tick
  <1>2. ASSUME NEW r \in Runs, Script(r) PROVE BenchInv'
    BY <1>2, MakeDirKeeps, EndsKeep, RedirectKeeps, WriteKeeps DEF Script
  <1>3. ASSUME NEW q \in Requests, Serve(q) PROVE BenchInv'
    BY <1>3, AskKeeps, MissingKeeps, ReadSomeKeeps, ReadEndKeeps DEF Serve
  <1>4. CASE UNCHANGED vars
    BY <1>4, TickKeeps DEF vars
  <1> QED
    BY <1>1, <1>2, <1>3, <1>4 DEF Next

LEMMA BenchInvariant == Spec => []BenchInv
  BY InitHolds, NextKeeps, PTL DEF Spec

-----------------------------------------------------------------------------
(* The theorems.                                                           *)

\* The summary is of a run that is no older than any that had its directory when the
\* request came, and there is one if there was a directory.
THEOREM LatestIsNeverOlder == Spec => []NeverOlder
  <1>1. BenchInv => NeverOlder
    BY DEF BenchInv, RequestInv, Asked, NeverOlder, Answered
  <1> QED
    BY <1>1, BenchInvariant, PTL

\* The numbers of a run that has its second to itself are those of the whole output.
THEOREM ShownNumbersAreFinal == Spec => []NumbersAreFinal
  <1>1. ASSUME BenchInv PROVE NumbersAreFinal
    <2> SUFFICES ASSUME NEW q \in Requests, NEW r \in Runs, NEW out \in Numbers,
                        Answered(q), RunsOf(request[q].latest) = {r},
                        request[q][out] # NoRun
                 PROVE  files[<<request[q].latest, out>>] = Whole(r)
      BY DEF NumbersAreFinal, Numbers, Whole
    <2>1. Alone(r, request[q].latest)
      BY <1>1 DEF BenchInv, RequestInv, Asked, Answered, Alone
    <2>2. ShownWhole(request[q], r, out)
      BY <1>1, <2>1 DEF BenchInv, RequestInv, Summing, Answered
    <2> QED
      BY <2>2 DEF ShownWhole
  <1> QED
    BY <1>1, BenchInvariant, PTL

\* A run that had ended well when the request came, alone in its second, is shown with
\* all its numbers if its files can be read, whatever the others do meanwhile.
THEOREM QuietRunsAreShown == Spec => []QuietSummaryIsComplete
  <1>1. ASSUME BenchInv PROVE QuietSummaryIsComplete
    <2> SUFFICES ASSUME NEW q \in Requests, NEW r \in Runs, Answered(q),
                        RunsOf(request[q].latest) = {r}, r \in request[q].done,
                        ~request[q].failed
                 PROVE  request[q].seq = {r} /\ request[q].rand = {r}
      BY DEF QuietSummaryIsComplete
    <2>1. Alone(r, request[q].latest)
      BY <1>1 DEF BenchInv, RequestInv, Asked, Answered, Alone
    <2>2. ShownWhole(request[q], r, "seq") /\ ShownWhole(request[q], r, "rand")
      BY <1>1, <2>1 DEF BenchInv, RequestInv, Summing, Answered, Numbers
    <2>3. request[q]["seq"] = {r} /\ request[q]["rand"] = {r}
      BY <2>2 DEF ShownWhole, After, Answered
    <2> QED
      BY <2>3
  <1> QED
    BY <1>1, BenchInvariant, PTL
=============================================================================
