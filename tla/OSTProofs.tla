----------------------------- MODULE OSTProofs -----------------------------
(***************************************************************************)
(* Proofs about OST, for any set of calls, blocks, payloads and ranges:    *)
(* its type invariant, that health is truthful, that a racing read returns *)
(* bytes in their place, and that an undisturbed read returns what the     *)
(* last writer of its block left.                                          *)
(***************************************************************************)
EXTENDS OST, TLAPS, SequenceTheorems, FiniteSetTheorems

Byte == UNION {Range(d) : d \in Payloads}
Data == Seq(Byte)
Known == [known : BOOLEAN, present : BOOLEAN, data : Data]

RequestRecord == [op : {"none", "write", "read", "delete", "health"},
                  block : Blocks \cup {NoBlock}, data : Data,
                  offset : Nat, length : Nat]
AnswerRecord  == [code : Codes, data : Data, iops : Nat, bytes : Nat]
CallRecord    == [pc : Steps, req : RequestRecord, file : Nat, buf : Data,
                  answer : AnswerRecord, alone : BOOLEAN, before : Known,
                  low : Nat \X Nat, high : Nat \X Nat]

-----------------------------------------------------------------------------
(* The operators on data.                                                  *)

LEMMA PayloadsAreData == \A d \in Payloads : d \in Data
<1> TAKE d \in Payloads
<1>1. d \in Seq(Range(d)) /\ Range(d) \subseteq Byte
  BY PayloadsAssumption DEF Byte
<1>2. QED
  BY <1>1, SeqMonotonic DEF Data

LEMMA EmptyIsData == <<>> \in Data /\ Len(<<>>) = 0
  BY EmptySeq DEF Data

\* A part of some data is data.
LEMMA PartOfData ==
    ASSUME NEW d \in Data, NEW m \in Nat \ {0}, NEW n \in 0..Len(d)
    PROVE  /\ SubSeq(d, m, n) \in Data
           /\ Len(SubSeq(d, m, n)) = IF m <= n THEN n - m + 1 ELSE 0
           /\ \A i \in 1..Len(SubSeq(d, m, n)) : SubSeq(d, m, n)[i] = d[m + i - 1]
<1>1. Len(d) \in Nat /\ \A i \in 1..Len(d) : d[i] \in Byte
  BY LenProperties, ElementOfSeq DEF Data
<1>2. \A i \in m..n : d[i] \in Byte
  BY <1>1
<1>3. /\ SubSeq(d, m, n) \in Seq(Byte)
      /\ Len(SubSeq(d, m, n)) = IF m <= n THEN n - m + 1 ELSE 0
      /\ \A i \in 1..n - m + 1 : SubSeq(d, m, n)[i] = d[m + i - 1]
  BY <1>1, <1>2, SubSeqProperties
<1>4. QED
  BY <1>1, <1>3 DEF Data

\* write(2) at the start of a file (service.go:103).
LEMMA OverlayProperties ==
    ASSUME NEW old \in Data, NEW d \in Data
    PROVE  /\ Overlay(old, d) \in Data
           /\ Len(Overlay(old, d)) = IF Len(d) <= Len(old) THEN Len(old) ELSE Len(d)
           /\ \A i \in 1..Len(Overlay(old, d)) :
                  Overlay(old, d)[i] = IF i <= Len(d) THEN d[i] ELSE old[i]
<1> DEFINE rest == SubSeq(old, Len(d) + 1, Len(old))
<1>1. Len(d) \in Nat /\ Len(old) \in Nat
  BY LenProperties DEF Data
<1>2. /\ rest \in Data
      /\ Len(rest) = IF Len(d) + 1 <= Len(old) THEN Len(old) - Len(d) ELSE 0
      /\ \A i \in 1..Len(rest) : rest[i] = old[Len(d) + i]
  BY <1>1, PartOfData
<1>3. /\ d \o rest \in Data /\ Len(d \o rest) = Len(d) + Len(rest)
      /\ \A i \in 1..Len(d) + Len(rest) :
             (d \o rest)[i] = IF i <= Len(d) THEN d[i] ELSE rest[i - Len(d)]
  BY <1>2, ConcatProperties DEF Data
<1>4. \A i \in 1..Len(d) + Len(rest) : i > Len(d) => rest[i - Len(d)] = old[i]
  BY <1>1, <1>2
<1>5. QED
  BY <1>1, <1>2, <1>3, <1>4 DEF Overlay

\* Over an empty file it leaves the data.
LEMMA OverlayEmpty == ASSUME NEW d \in Data PROVE Overlay(<<>>, d) = d
<1>1. Len(d) \in Nat
  BY LenProperties DEF Data
<1>2. Len(Overlay(<<>>, d)) = Len(d) /\ Overlay(<<>>, d) \in Data
  BY <1>1, EmptyIsData, OverlayProperties
<1>3. \A i \in 1..Len(d) : Overlay(<<>>, d)[i] = d[i]
  BY <1>1, <1>2, EmptyIsData, OverlayProperties
<1>4. QED
  BY <1>2, <1>3, SeqEqual DEF Data

\* What ReadBlock cuts out (service.go:134-142).
LEMMA SliceProperties ==
    ASSUME NEW d \in Data, NEW o \in Nat, NEW l \in Nat
    PROVE  /\ Slice(d, o, l) \in Data
           /\ \A i \in 1..Len(Slice(d, o, l)) :
                  o + i <= Len(d) /\ Slice(d, o, l)[i] = d[o + i]
           /\ Len(Slice(d, o, l)) = IF o > Len(d) THEN 0
                                    ELSE IF l > 0 /\ o + l < Len(d) THEN l
                                    ELSE Len(d) - o
<1> DEFINE rest == SubSeq(d, o + 1, Len(d))
<1>1. Len(d) \in Nat
  BY LenProperties DEF Data
<1>2. /\ rest \in Data /\ Len(rest) = IF o + 1 <= Len(d) THEN Len(d) - o ELSE 0
      /\ \A i \in 1..Len(rest) : rest[i] = d[o + i]
  BY <1>1, PartOfData
<1>3. CASE o > Len(d)
  BY <1>1, <1>3, EmptyIsData DEF Slice
<1>slice. Slice(d, o, l) = IF o > Len(d) THEN <<>>
                          ELSE IF l > 0 /\ l < Len(rest) THEN SubSeq(rest, 1, l)
                          ELSE rest
  BY DEF Slice
<1> HIDE DEF rest
<1>4. CASE o <= Len(d) /\ l > 0 /\ l < Len(rest)
  <2>0. 1 \in Nat \ {0} /\ l \in 0..Len(rest) /\ l <= Len(d) - o
    BY <1>1, <1>2, <1>4
  <2>1. /\ SubSeq(rest, 1, l) \in Data /\ Len(SubSeq(rest, 1, l)) = l
        /\ \A i \in 1..l : SubSeq(rest, 1, l)[i] = rest[i]
    <3>1. \A i \in 1..l : 1 + i - 1 = i
      OBVIOUS
    <3>2. QED
      BY <1>2, <1>4, <2>0, <3>1, PartOfData
  <2>2. Slice(d, o, l) = SubSeq(rest, 1, l)
    BY <1>1, <1>4, <1>slice
  <2>3. \A i \in 1..l : o + i <= Len(d) /\ SubSeq(rest, 1, l)[i] = d[o + i]
    BY <1>1, <1>2, <1>4, <2>0, <2>1
  <2>4. Len(rest) = Len(d) - o
    BY <1>1, <1>2, <1>4
  <2>5. QED
    BY <1>1, <1>4, <2>0, <2>1, <2>2, <2>3, <2>4
<1>5. CASE o <= Len(d) /\ ~(l > 0 /\ l < Len(rest))
  <2>1. Slice(d, o, l) = rest
    BY <1>1, <1>5, <1>slice
  <2>2. QED
    BY <1>1, <1>2, <1>5, <2>1
<1>6. QED
  BY <1>1, <1>3, <1>4, <1>5

-----------------------------------------------------------------------------
(* Types.                                                                  *)

\* What a call at a step of its handler is about, and which object it has open.
CallOK(c) ==
    /\ calls[c].pc \in {"write", "writing"} =>
           calls[c].req.op = "write" /\ calls[c].req.block \in Blocks
    /\ calls[c].pc \in {"read", "reading"} =>
           calls[c].req.op = "read" /\ calls[c].req.block \in Blocks
    /\ calls[c].pc = "delete" =>
           calls[c].req.op = "delete" /\ calls[c].req.block \in Blocks
    /\ calls[c].pc \in {"observe", "observeBytes"} =>
           calls[c].req.op \in {"write", "read", "delete"}
    /\ calls[c].pc \in {"loadIops", "loadBytes"} => calls[c].req.op = "health"
    /\ calls[c].pc = "idle" => calls[c].req.op = "none"
    /\ calls[c].file \in 0..Len(objects)
    /\ calls[c].pc \in {"writing", "reading"} => calls[c].file # 0

FilesOK == /\ DOMAIN dir \subseteq Keys
           /\ dir \in [DOMAIN dir -> 1..Len(objects)]
           /\ objects \in Seq(Data)

TInv ==
    /\ up \in BOOLEAN
    /\ FilesOK
    /\ calls \in [Calls -> CallRecord]
    /\ \A c \in Calls : CallOK(c)
    /\ iops \in Nat /\ bytes \in Nat
    /\ begun \in Nat \X Nat /\ answered \in Nat \X Nat
    /\ settled \in [Keys -> Known]

\* A step that is of one call.
Others(c) == \A x \in Calls \ {c} : calls'[x] = calls[x]

\* What no step of a handler changes in its call.
Keeps(c) == /\ calls'[c].req = calls[c].req /\ calls'[c].alone = calls[c].alone
            /\ calls'[c].before = calls[c].before /\ calls'[c].low = calls[c].low

\* Counts of calls and of bytes.
LEMMA PlusTypes ==
    ASSUME NEW s \in Nat \X Nat, NEW r \in RequestRecord
    PROVE  /\ Plus(s, Sizes(r)) \in Nat \X Nat
           /\ Plus(s, Sizes(r))[1] = s[1] + 1
           /\ Plus(s, Sizes(r))[2] = s[2] + Len(r.data)
           /\ Len(r.data) \in Nat
<1>1. Len(r.data) \in Nat
  BY LenProperties DEF RequestRecord, Data
<1>2. QED
  BY <1>1 DEF Plus, Sizes

LEMMA RequestTypes ==
    ASSUME NEW r \in Requests
    PROVE  /\ r \in RequestRecord /\ r.op # "none"
           /\ r.op = "health" => r.block = NoBlock
<1> USE DEF Request, RequestRecord
<1>1. CASE \E b \in Blocks, d \in Payloads : r = Request("write", b, d, 0, 0)
  BY <1>1, PayloadsAreData, NoBlockAssumption DEF Blocks
<1>2. CASE \E b \in Blocks, x \in Ranges : r = Request("read", b, <<>>, x[1], x[2])
  BY <1>2, EmptyIsData, RangesAssumption
<1>3. CASE \E b \in Blocks : r = Request("delete", b, <<>>, 0, 0)
  BY <1>3, EmptyIsData
<1>4. CASE \E d \in Payloads : r = Request("write", NoBlock, d, 0, 0)
  BY <1>4, PayloadsAreData
<1>5. CASE \E op \in {"read", "delete", "health"} : r = Request(op, NoBlock, <<>>, 0, 0)
  BY <1>5, EmptyIsData
<1>6. QED
  BY <1>1, <1>2, <1>3, <1>4, <1>5 DEF Requests

LEMMA IdleIsCall == Idle \in CallRecord /\ NoRequest \in RequestRecord
  BY EmptyIsData
     DEF Idle, CallRecord, NoRequest, Request, RequestRecord, NoAnswer, AnswerRecord,
         Codes, Steps, Known, Unsettled

LEMMA InitTInv == Init => TInv
<1> SUFFICES ASSUME Init PROVE TInv
  OBVIOUS
<1>1. FilesOK
  <2>1. DOMAIN dir = {} /\ objects = <<>>
    BY DEF Init
  <2>2. objects \in Seq(Data)
    BY <2>1, EmptySeq
  <2>3. dir \in [DOMAIN dir -> 1..Len(objects)]
    BY DEF Init
  <2>4. QED
    BY <2>1, <2>2, <2>3 DEF FilesOK
<1>2. calls \in [Calls -> CallRecord]
  BY IdleIsCall DEF Init
<1>3. \A c \in Calls : CallOK(c)
  BY EmptySeq DEF Init, CallOK, Idle, NoRequest, Request
<1>4. settled \in [Keys -> Known]
  BY EmptyIsData DEF Init, Absent, Known
<1>5. QED
  BY <1>1, <1>2, <1>3, <1>4 DEF Init, TInv

\* The end of a handler's own work.
LEMMA FinishEffect ==
    ASSUME TInv, NEW c \in Calls, NEW code \in Codes, NEW data \in Data,
           Finish(c, code, data)
    PROVE  /\ calls' \in [Calls -> CallRecord] /\ Others(c) /\ Keeps(c)
           /\ calls'[c].pc = "observe" /\ calls'[c].file = calls[c].file
           /\ calls'[c].buf = calls[c].buf /\ calls'[c].high = calls[c].high
           /\ calls'[c].answer.code = code /\ calls'[c].answer.data = data
<1>1. calls[c] \in CallRecord /\ calls \in [Calls -> CallRecord]
  BY DEF TInv
<1>2. calls' = [calls EXCEPT ![c] =
                  [calls[c] EXCEPT !.pc = "observe",
                      !.answer = [calls[c].answer EXCEPT !.code = code, !.data = data]]]
  BY <1>1 DEF Finish, CallRecord, AnswerRecord
<1>3. [calls[c].answer EXCEPT !.code = code, !.data = data] \in AnswerRecord
  BY <1>1 DEF CallRecord, AnswerRecord
<1>4. calls'[c] = [calls[c] EXCEPT !.pc = "observe",
                      !.answer = [calls[c].answer EXCEPT !.code = code, !.data = data]]
  BY <1>1, <1>2
<1>5. calls'[c] \in CallRecord
  BY <1>1, <1>3, <1>4 DEF CallRecord, Steps
<1>6. calls' \in [Calls -> CallRecord] /\ Others(c)
  BY <1>1, <1>2, <1>4, <1>5 DEF Others
<1>7. calls'[c].answer = [calls[c].answer EXCEPT !.code = code, !.data = data]
  BY <1>1, <1>4 DEF CallRecord
<1>8. calls'[c].answer.code = code /\ calls'[c].answer.data = data
  BY <1>1, <1>7 DEF CallRecord, AnswerRecord
<1>9. QED
  BY <1>1, <1>4, <1>6, <1>8 DEF Keeps, CallRecord

\* A request that arrives, and the calls on its block that it disturbs.
LEMMA BeginEffect ==
    ASSUME TInv, NEW c \in Calls, NEW r \in Requests, Begin(c, r)
    PROVE  /\ calls[c].pc = "idle"
           /\ calls' \in [Calls -> CallRecord]
           /\ calls'[c].pc = FirstStep(r) /\ calls'[c].req = r
           /\ calls'[c].file = 0 /\ calls'[c].buf = <<>>
           /\ calls'[c].alone <=> \A x \in Rivals(r) : ~Mutates(calls[x].req)
           /\ calls'[c].before = IF r.block = NoBlock THEN Unsettled
                                 ELSE settled[Key(r.block)]
           /\ calls'[c].low = answered
           /\ calls'[c].answer.data = <<>>
           /\ calls'[c].answer.code = IF r.op # "health" /\ r.block = NoBlock
                                      THEN "InvalidArgument" ELSE "none"
           /\ \A x \in Calls \ {c} :
                  calls'[x] = IF Mutates(r) /\ x \in Rivals(r)
                              THEN [calls[x] EXCEPT !.alone = FALSE] ELSE calls[x]
           /\ FirstStep(r) = IF r.op = "health" THEN "loadIops"
                             ELSE IF r.block = NoBlock THEN "observe" ELSE r.op
           /\ FirstStep(r) \in {"loadIops", "observe", "write", "read", "delete"}
<1> DEFINE code == IF FirstStep(r) = "observe" THEN "InvalidArgument" ELSE "none"
           alone == \A x \in Rivals(r) : ~Mutates(calls[x].req)
           before == IF r.block = NoBlock THEN Unsettled ELSE settled[Key(r.block)]
           mine == [Idle EXCEPT !.pc = FirstStep(r), !.req = r, !.answer.code = code,
                        !.alone = alone, !.before = before, !.low = answered]
<1>1. r \in RequestRecord /\ r.op # "none"
  BY RequestTypes
<1>2. /\ FirstStep(r) = IF r.op = "health" THEN "loadIops"
                        ELSE IF r.block = NoBlock THEN "observe" ELSE r.op
      /\ FirstStep(r) \in {"loadIops", "observe", "write", "read", "delete"}
      /\ (FirstStep(r) = "observe") = (r.op # "health" /\ r.block = NoBlock)
  BY <1>1 DEF FirstStep, RequestRecord
<1>3. before \in Known
  <2>1. CASE r.block = NoBlock
    BY <2>1, EmptyIsData DEF Known, Unsettled
  <2>2. CASE r.block # NoBlock
    BY <1>1, <2>2 DEF RequestRecord, Keys, TInv
  <2>3. QED
    BY <2>1, <2>2
<1>4. alone \in BOOLEAN
  OBVIOUS
<1>5. /\ calls[c].pc = "idle"
      /\ calls' = [x \in Calls |->
                      IF x = c THEN mine
                      ELSE IF Mutates(r) /\ x \in Rivals(r)
                      THEN [calls[x] EXCEPT !.alone = FALSE] ELSE calls[x]]
  BY DEF Begin
<1> HIDE DEF before, alone
<1>6. /\ mine.pc = FirstStep(r) /\ mine.req = r /\ mine.file = 0 /\ mine.buf = <<>>
      /\ mine.alone = alone /\ mine.before = before /\ mine.low = answered
      /\ mine.answer.data = <<>> /\ mine.answer.code = code
  BY DEF Idle, NoAnswer
<1>7. mine \in CallRecord
  <2>1. code \in Codes /\ FirstStep(r) \in Steps /\ answered \in Nat \X Nat
    BY <1>2 DEF Codes, Steps, TInv
  <2>2. [Idle.answer EXCEPT !.code = code] \in AnswerRecord
    BY <2>1, EmptyIsData DEF Idle, NoAnswer, AnswerRecord
  <2>3. mine = [Idle EXCEPT !.pc = FirstStep(r), !.req = r,
                    !.answer = [Idle.answer EXCEPT !.code = code],
                    !.alone = alone, !.before = before, !.low = answered]
    BY DEF Idle
  <2> HIDE DEF code, mine
  <2>4. QED
    BY <1>1, <1>3, <1>4, <2>1, <2>2, <2>3, IdleIsCall DEF CallRecord
<1> HIDE DEF mine
<1>8. calls' \in [Calls -> CallRecord]
  <2>1. \A x \in Calls : [calls[x] EXCEPT !.alone = FALSE] \in CallRecord
    <3>1. ASSUME NEW call \in CallRecord
          PROVE  [call EXCEPT !.alone = FALSE] \in CallRecord
      BY DEF CallRecord
    <3>2. QED
      BY <3>1 DEF TInv
  <2>2. QED
    BY <1>5, <1>7, <2>1 DEF TInv
<1>9. /\ calls'[c] = mine
      /\ \A x \in Calls \ {c} :
             calls'[x] = IF Mutates(r) /\ x \in Rivals(r)
                         THEN [calls[x] EXCEPT !.alone = FALSE] ELSE calls[x]
  BY <1>5
<1> USE DEF before, alone
<1>10. QED
  BY <1>2, <1>5, <1>6, <1>8, <1>9

\* Open, or make, the block of a WriteBlock.
LEMMA OpenForWriteEffect ==
    ASSUME TInv, NEW c \in Calls, OpenForWrite(c)
    PROVE  LET p == BlockPath(calls[c].req.block)
               f == calls'[c].file
           IN  /\ calls[c].pc = "write" /\ calls'[c].pc = "writing"
               /\ calls' \in [Calls -> CallRecord] /\ Others(c) /\ Keeps(c)
               /\ calls'[c].answer = calls[c].answer
               /\ FilesOK' /\ Len(objects) <= Len(objects')
               /\ f \in 1..Len(objects') /\ objects'[f] = <<>>
               /\ \A g \in 1..Len(objects) : g # f => objects'[g] = objects[g]
               /\ p \in DOMAIN dir' /\ dir'[p] = f
               /\ DOMAIN dir' = DOMAIN dir \cup {p}
               /\ \A q \in DOMAIN dir : q # p => dir'[q] = dir[q]
               /\ \/ p \in DOMAIN dir /\ f = dir[p] /\ Len(objects') = Len(objects)
                  \/ p \notin DOMAIN dir /\ f = Len(objects) + 1 /\ Len(objects') = f
<1> DEFINE p == BlockPath(calls[c].req.block)
           new == Len(objects) + 1
<1>1. /\ calls[c].pc = "write" /\ calls[c] \in CallRecord
      /\ calls \in [Calls -> CallRecord] /\ p \in Keys
      /\ objects \in Seq(Data) /\ Len(objects) \in Nat
      /\ DOMAIN dir \subseteq Keys /\ dir \in [DOMAIN dir -> 1..Len(objects)]
  BY LenProperties DEF OpenForWrite, At, TInv, FilesOK, CallOK, Keys, Key, BlockPath
<1>2. PICK f \in Nat :
          /\ calls' = [calls EXCEPT ![c].pc = "writing", ![c].file = f]
          /\ \/ /\ p \in DOMAIN dir /\ f = dir[p] /\ UNCHANGED dir
                /\ objects' = [objects EXCEPT ![f] = <<>>]
             \/ /\ p \notin DOMAIN dir /\ f = new
                /\ objects' = Append(objects, <<>>)
                /\ dir' = [q \in DOMAIN dir \cup {p} |-> IF q = p THEN f ELSE dir[q]]
  <2>0. \/ /\ p \in DOMAIN dir
           /\ objects' = [objects EXCEPT ![dir[p]] = <<>>]
           /\ calls' = [calls EXCEPT ![c].pc = "writing", ![c].file = dir[p]]
           /\ UNCHANGED dir
        \/ /\ p \notin DOMAIN dir
           /\ objects' = Append(objects, <<>>)
           /\ dir' = [q \in DOMAIN dir \cup {p} |-> IF q = p THEN new ELSE dir[q]]
           /\ calls' = [calls EXCEPT ![c].pc = "writing", ![c].file = new]
    BY DEF OpenForWrite
  <2> HIDE DEF p
  <2>1. CASE p \in DOMAIN dir
    <3>1. dir[p] \in Nat
      BY <1>1, <2>1
    <3>2. QED
      BY <2>0, <2>1, <3>1
  <2>2. CASE p \notin DOMAIN dir
    <3>1. new \in Nat
      BY <1>1
    <3> HIDE DEF new
    <3>2. QED
      BY <2>0, <2>2, <3>1
  <2>3. QED
    BY <2>1, <2>2
<1>3. calls'[c] = [calls[c] EXCEPT !.pc = "writing", !.file = f]
  BY <1>1, <1>2
<1>4. /\ calls'[c] \in CallRecord /\ Keeps(c) /\ calls'[c].pc = "writing"
      /\ calls'[c].file = f /\ calls'[c].answer = calls[c].answer
  BY <1>1, <1>2, <1>3 DEF CallRecord, Steps, Keeps
<1>5. calls' \in [Calls -> CallRecord] /\ Others(c)
  BY <1>1, <1>2, <1>4 DEF Others
<1>6. <<>> \in Data
  BY EmptyIsData
<1> HIDE DEF p
<1>7. CASE p \in DOMAIN dir
  <2>1. f = dir[p] /\ f \in 1..Len(objects) /\ dir' = dir
        /\ objects' = [objects EXCEPT ![f] = <<>>]
    BY <1>1, <1>2, <1>7
  <2>2. /\ objects' \in Seq(Data) /\ Len(objects') = Len(objects)
        /\ \A g \in 1..Len(objects) : objects'[g] = IF g = f THEN <<>> ELSE objects[g]
    BY <1>1, <1>6, <2>1, ExceptSeq
  <2>3. FilesOK'
    BY <1>1, <2>1, <2>2 DEF FilesOK
  <2>4. objects'[f] = <<>> /\ Len(objects) <= Len(objects')
    BY <1>1, <2>1, <2>2
  <2>5. QED
    BY <1>1, <1>4, <1>5, <1>7, <2>1, <2>2, <2>3, <2>4 DEF p
<1>8. CASE p \notin DOMAIN dir
  <2>1. /\ f = Len(objects) + 1 /\ objects' = Append(objects, <<>>)
        /\ dir' = [q \in DOMAIN dir \cup {p} |-> IF q = p THEN f ELSE dir[q]]
    BY <1>2, <1>8
  <2>2. /\ objects' \in Seq(Data) /\ Len(objects') = Len(objects) + 1
        /\ objects'[f] = <<>>
        /\ \A g \in 1..Len(objects) : objects'[g] = objects[g]
    BY <1>1, <1>6, <2>1, AppendProperties
  <2>3. FilesOK'
    BY <1>1, <2>1, <2>2 DEF FilesOK
  <2>4. QED
    BY <1>1, <1>4, <1>5, <1>8, <2>1, <2>2, <2>3 DEF p
<1>9. QED
  BY <1>7, <1>8

\* write(2), all of the data or a part.
LEMMA WriteEffect ==
    ASSUME TInv, NEW c \in Calls, WriteData(c) \/ WriteShort(c)
    PROVE  LET f == calls[c].file
               d == calls[c].req.data
           IN  /\ calls[c].pc = "writing" /\ f \in 1..Len(objects)
               /\ UNCHANGED dir /\ FilesOK' /\ Len(objects') = Len(objects)
               /\ \A g \in 1..Len(objects) : g # f => objects'[g] = objects[g]
               /\ \E code \in {"OK", "Internal"}, n \in 0..Len(d) :
                      /\ Finish(c, code, <<>>) /\ (code = "OK" => n = Len(d))
                      /\ objects'[f] = Overlay(objects[f], SubSeq(d, 1, n))
               /\ SubSeq(d, 1, Len(d)) = d
<1> DEFINE f == calls[c].file
           d == calls[c].req.data
<1>1. /\ calls[c].pc = "writing" /\ f \in 1..Len(objects) /\ d \in Data
      /\ objects \in Seq(Data) /\ Len(objects) \in Nat /\ Len(d) \in Nat
      /\ objects[f] \in Data
  <2>1. /\ calls[c].pc = "writing" /\ calls[c] \in CallRecord /\ CallOK(c)
        /\ objects \in Seq(Data)
    BY DEF WriteData, WriteShort, At, TInv, FilesOK
  <2>2. f \in 1..Len(objects) /\ d \in Data /\ Len(objects) \in Nat
    BY <2>1, LenProperties DEF CallOK, CallRecord, RequestRecord
  <2>3. QED
    BY <2>1, <2>2, LenProperties, ElementOfSeq DEF Data
<1>2. SubSeq(d, 1, Len(d)) = d
  BY <1>1, SubSeqFull DEF Data
<1>3. PICK n \in 0..Len(d) :
          /\ objects' = [objects EXCEPT ![f] = Overlay(objects[f], SubSeq(d, 1, n))]
          /\ \/ Finish(c, "OK", <<>>) /\ n = Len(d) /\ WriteData(c)
             \/ Finish(c, "Internal", <<>>) /\ WriteShort(c)
  <2>1. CASE WriteData(c)
    <3>1. /\ objects' = [objects EXCEPT ![f] = Overlay(objects[f], d)]
          /\ Finish(c, "OK", <<>>)
      BY <2>1 DEF WriteData
    <3>2. objects' = [objects EXCEPT ![f] = Overlay(objects[f], SubSeq(d, 1, Len(d)))]
      BY <1>2, <3>1
    <3>3. Len(d) \in 0..Len(d)
      BY <1>1
    <3> HIDE DEF f, d
    <3>4. QED
      BY <2>1, <3>1, <3>2, <3>3
  <2>2. CASE WriteShort(c)
    <3>1. /\ \E n \in 0..Len(d) :
                objects' = [objects EXCEPT ![f] = Overlay(objects[f], SubSeq(d, 1, n))]
          /\ Finish(c, "Internal", <<>>)
      BY <2>2 DEF WriteShort
    <3> HIDE DEF f, d
    <3>2. QED
      BY <2>2, <3>1
  <2>3. QED
    BY <2>1, <2>2
<1>4. SubSeq(d, 1, n) \in Data
  BY <1>1, PartOfData
<1>5. Overlay(objects[f], SubSeq(d, 1, n)) \in Data
  BY <1>1, <1>4, OverlayProperties
<1>6. /\ objects' \in Seq(Data) /\ Len(objects') = Len(objects)
      /\ \A g \in 1..Len(objects) :
             objects'[g] = IF g = f THEN Overlay(objects[f], SubSeq(d, 1, n))
                           ELSE objects[g]
  BY <1>1, <1>3, <1>5, ExceptSeq
<1>7. UNCHANGED dir /\ FilesOK'
  BY <1>6 DEF WriteData, WriteShort, TInv, FilesOK
<1>8. \E code \in {"OK", "Internal"} :
          Finish(c, code, <<>>) /\ (code = "OK" => n = Len(d))
  BY <1>3
<1>9. QED
  BY <1>1, <1>2, <1>6, <1>7, <1>8

\* A step that only moves a call on.
LEMMA MoveEffect ==
    ASSUME TInv, NEW c \in Calls, NEW pc \in Steps, calls' = [calls EXCEPT ![c].pc = pc]
    PROVE  /\ calls' \in [Calls -> CallRecord] /\ Others(c) /\ Keeps(c)
           /\ calls'[c].pc = pc /\ calls'[c].file = calls[c].file
           /\ calls'[c].buf = calls[c].buf /\ calls'[c].answer = calls[c].answer
           /\ calls'[c].high = calls[c].high
<1>1. calls[c] \in CallRecord /\ calls \in [Calls -> CallRecord]
  BY DEF TInv
<1>2. calls'[c] = [calls[c] EXCEPT !.pc = pc]
  BY <1>1
<1>3. calls'[c] \in CallRecord
  BY <1>1, <1>2 DEF CallRecord
<1>4. QED
  BY <1>1, <1>2, <1>3 DEF Others, Keeps, CallRecord

\* Open the block of a ReadBlock, which may not be there.
LEMMA OpenForReadEffect ==
    ASSUME TInv, NEW c \in Calls, OpenForRead(c)
    PROVE  LET p == BlockPath(calls[c].req.block)
           IN  /\ calls[c].pc = "read"
               /\ \/ /\ p \in DOMAIN dir
                     /\ calls' \in [Calls -> CallRecord] /\ Others(c) /\ Keeps(c)
                     /\ calls'[c].pc = "reading" /\ calls'[c].file = dir[p]
                     /\ dir[p] \in 1..Len(objects)
                     /\ calls'[c].buf = calls[c].buf /\ calls'[c].answer = calls[c].answer
                  \/ p \notin DOMAIN dir /\ Finish(c, "NotFound", <<>>)
<1> DEFINE p == BlockPath(calls[c].req.block)
<1>1. /\ calls[c].pc = "read" /\ calls[c] \in CallRecord
      /\ calls \in [Calls -> CallRecord]
      /\ dir \in [DOMAIN dir -> 1..Len(objects)] /\ Len(objects) \in Nat
  BY LenProperties DEF OpenForRead, At, TInv, FilesOK
<1>2. \/ /\ p \in DOMAIN dir
         /\ calls' = [calls EXCEPT ![c].pc = "reading", ![c].file = dir[p]]
      \/ p \notin DOMAIN dir /\ Finish(c, "NotFound", <<>>)
  BY DEF OpenForRead
<1> HIDE DEF p
<1>3. CASE p \in DOMAIN dir
  <2>1. dir[p] \in 1..Len(objects) /\ dir[p] \in Nat
    BY <1>1, <1>3
  <2>2. calls'[c] = [calls[c] EXCEPT !.pc = "reading", !.file = dir[p]]
    BY <1>1, <1>2, <1>3
  <2>3. calls'[c] \in CallRecord
    BY <1>1, <2>1, <2>2 DEF CallRecord, Steps
  <2>4. calls' \in [Calls -> CallRecord] /\ Others(c)
    BY <1>1, <1>2, <1>3, <2>3 DEF Others
  <2>5. /\ Keeps(c) /\ calls'[c].pc = "reading" /\ calls'[c].file = dir[p]
        /\ calls'[c].buf = calls[c].buf /\ calls'[c].answer = calls[c].answer
    BY <1>1, <2>2 DEF Keeps, CallRecord
  <2>6. QED
    BY <1>1, <1>3, <2>1, <2>4, <2>5 DEF p
<1>4. CASE p \notin DOMAIN dir
  BY <1>1, <1>2, <1>4 DEF p
<1>5. QED
  BY <1>3, <1>4

\* A reader's file and what it has read of it.
LEMMA ReaderTypes ==
    ASSUME TInv, NEW c \in Calls, calls[c].pc = "reading"
    PROVE  /\ calls[c].buf \in Data /\ calls[c].file \in 1..Len(objects)
           /\ objects[calls[c].file] \in Data
           /\ calls[c].req.offset \in Nat /\ calls[c].req.length \in Nat
           /\ Len(calls[c].buf) \in Nat /\ Len(objects[calls[c].file]) \in Nat
<1>1. calls[c] \in CallRecord /\ CallOK(c) /\ objects \in Seq(Data)
  BY DEF TInv, FilesOK
<1>2. /\ calls[c].buf \in Data /\ calls[c].file \in 1..Len(objects)
      /\ calls[c].req.offset \in Nat /\ calls[c].req.length \in Nat
  BY <1>1, LenProperties DEF CallRecord, RequestRecord, CallOK
<1>3. objects[calls[c].file] \in Data
  BY <1>1, <1>2, ElementOfSeq
<1>4. QED
  BY <1>2, <1>3, LenProperties DEF Data

\* read(2).
LEMMA ReadSomeEffect ==
    ASSUME TInv, NEW c \in Calls, ReadSome(c)
    PROVE  LET b == calls[c].buf
               o == objects[calls[c].file]
           IN  /\ calls[c].pc = "reading" /\ calls'[c].pc = "reading"
               /\ calls' \in [Calls -> CallRecord] /\ Others(c) /\ Keeps(c)
               /\ calls'[c].file = calls[c].file /\ calls'[c].answer = calls[c].answer
               /\ Len(calls'[c].buf) \in (Len(b) + 1)..Len(o)
               /\ \A i \in 1..Len(calls'[c].buf) :
                      calls'[c].buf[i] = IF i <= Len(b) THEN b[i] ELSE o[i]
<1> DEFINE b == calls[c].buf
           o == objects[calls[c].file]
<1>1. /\ calls[c].pc = "reading" /\ calls[c] \in CallRecord
      /\ calls \in [Calls -> CallRecord]
  BY DEF ReadSome, At, TInv
<1>2. b \in Data /\ o \in Data /\ Len(b) \in Nat /\ Len(o) \in Nat
  BY <1>1, ReaderTypes
<1>3. PICK n \in (Len(b) + 1)..Len(o) :
          calls' = [calls EXCEPT ![c].buf = b \o SubSeq(o, Len(b) + 1, n)]
  BY DEF ReadSome
<1> DEFINE more == SubSeq(o, Len(b) + 1, n)
<1>4. /\ more \in Data /\ Len(more) = n - Len(b)
      /\ \A i \in 1..Len(more) : more[i] = o[Len(b) + i]
  <2>1. Len(b) + 1 \in Nat \ {0} /\ n \in 0..Len(o) /\ Len(b) + 1 <= n
    BY <1>2, <1>3
  <2>2. /\ more \in Data /\ Len(more) = n - (Len(b) + 1) + 1
        /\ \A i \in 1..Len(more) : more[i] = o[Len(b) + 1 + i - 1]
    BY <1>2, <2>1, PartOfData
  <2> HIDE DEF more
  <2>3. Len(more) \in Nat
    BY <2>2, LenProperties DEF Data
  <2>4. ASSUME NEW i \in 1..Len(more) PROVE more[i] = o[Len(b) + i]
    <3>1. Len(b) + 1 + i - 1 = Len(b) + i
      BY <1>2, <2>3
    <3>2. QED
      BY <2>2, <3>1
  <2>5. Len(more) = n - Len(b)
    BY <1>2, <2>1, <2>2
  <2>6. QED
    BY <2>2, <2>4, <2>5
<1> HIDE DEF b, o, more
<1>5. /\ b \o more \in Data /\ Len(b \o more) = n
      /\ \A i \in 1..n : (b \o more)[i] = IF i <= Len(b) THEN b[i] ELSE o[i]
  <2>1. /\ b \o more \in Data /\ Len(b \o more) = Len(b) + Len(more)
        /\ \A i \in 1..Len(b) + Len(more) :
               (b \o more)[i] = IF i <= Len(b) THEN b[i] ELSE more[i - Len(b)]
    BY <1>2, <1>4, ConcatProperties DEF Data
  <2>2. \A i \in 1..n : i > Len(b) => more[i - Len(b)] = o[i]
    BY <1>2, <1>3, <1>4
  <2>3. QED
    BY <1>2, <1>3, <1>4, <2>1, <2>2
<1>6. calls'[c] = [calls[c] EXCEPT !.buf = b \o more]
  BY <1>1, <1>3 DEF more
<1>7. calls'[c] \in CallRecord
  BY <1>1, <1>5, <1>6 DEF CallRecord
<1>8. calls' \in [Calls -> CallRecord] /\ Others(c)
  BY <1>1, <1>3, <1>7 DEF Others
<1>9. /\ Keeps(c) /\ calls'[c].pc = "reading" /\ calls'[c].buf = b \o more
      /\ calls'[c].file = calls[c].file /\ calls'[c].answer = calls[c].answer
  BY <1>1, <1>6 DEF Keeps, CallRecord
<1>10. QED
  BY <1>1, <1>2, <1>3, <1>5, <1>8, <1>9 DEF b, o

\* unlink(2).
LEMMA RemoveEffect ==
    ASSUME TInv, NEW c \in Calls, Remove(c)
    PROVE  LET p == BlockPath(calls[c].req.block)
           IN  /\ calls[c].pc = "delete" /\ UNCHANGED objects /\ FilesOK'
               /\ DOMAIN dir' = DOMAIN dir \ {p}
               /\ \A q \in DOMAIN dir' : dir'[q] = dir[q]
               /\ \E code \in {"Deleted", "NotDeleted"} : Finish(c, code, <<>>)
BY DEF Remove, At, TInv, FilesOK

\* GetHealth loads the counters one after the other.
LEMMA LoadEffect ==
    ASSUME TInv, NEW c \in Calls, LoadIops(c) \/ LoadBytes(c)
    PROVE  /\ calls' \in [Calls -> CallRecord] /\ Others(c) /\ Keeps(c)
           /\ calls'[c].file = calls[c].file /\ calls'[c].answer.data = calls[c].answer.data
           /\ LoadIops(c) => /\ calls[c].pc = "loadIops" /\ calls'[c].pc = "loadBytes"
                             /\ calls'[c].answer.iops = iops
           /\ LoadBytes(c) => /\ calls[c].pc = "loadBytes" /\ calls'[c].pc = "done"
                              /\ calls'[c].answer.iops = calls[c].answer.iops
                              /\ calls'[c].answer.bytes = bytes
                              /\ calls'[c].high = begun
<1>1. /\ calls[c] \in CallRecord /\ calls \in [Calls -> CallRecord]
      /\ calls[c].answer \in AnswerRecord
      /\ iops \in Nat /\ bytes \in Nat /\ begun \in Nat \X Nat
  BY DEF TInv, CallRecord
<1>2. CASE LoadIops(c)
  <2> DEFINE a == [calls[c].answer EXCEPT !.iops = iops]
  <2>1. /\ calls[c].pc = "loadIops"
        /\ calls' = [calls EXCEPT ![c].pc = "loadBytes", ![c].answer.iops = iops]
    BY <1>2 DEF LoadIops, At
  <2>2. calls'[c] = [calls[c] EXCEPT !.pc = "loadBytes", !.answer = a]
    BY <1>1, <2>1 DEF CallRecord
  <2>3. a \in AnswerRecord /\ a.iops = iops /\ a.data = calls[c].answer.data
    BY <1>1 DEF AnswerRecord
  <2> HIDE DEF a
  <2>4. calls'[c] \in CallRecord
    BY <1>1, <2>2, <2>3 DEF CallRecord, Steps
  <2>5. calls' \in [Calls -> CallRecord] /\ Others(c)
    BY <1>1, <2>1, <2>4 DEF Others
  <2>6. /\ Keeps(c) /\ calls'[c].pc = "loadBytes" /\ calls'[c].answer = a
        /\ calls'[c].file = calls[c].file
    BY <1>1, <2>2 DEF Keeps, CallRecord
  <2>7. ~LoadBytes(c)
    BY <2>1 DEF LoadBytes, At
  <2>8. QED
    BY <2>1, <2>3, <2>5, <2>6, <2>7
<1>3. CASE LoadBytes(c)
  <2> DEFINE a == [calls[c].answer EXCEPT !.code = "OK", !.bytes = bytes]
  <2>1. /\ calls[c].pc = "loadBytes"
        /\ calls' = [calls EXCEPT ![c].pc = "done", ![c].answer.code = "OK",
                                  ![c].answer.bytes = bytes, ![c].high = begun]
    BY <1>3 DEF LoadBytes, At
  <2>2. calls'[c] = [calls[c] EXCEPT !.pc = "done", !.answer = a, !.high = begun]
    BY <1>1, <2>1 DEF CallRecord, AnswerRecord
  <2>3. /\ a \in AnswerRecord /\ a.iops = calls[c].answer.iops /\ a.bytes = bytes
        /\ a.data = calls[c].answer.data
    BY <1>1 DEF AnswerRecord, Codes
  <2> HIDE DEF a
  <2>4. calls'[c] \in CallRecord
    BY <1>1, <2>2, <2>3 DEF CallRecord, Steps
  <2>5. calls' \in [Calls -> CallRecord] /\ Others(c)
    BY <1>1, <2>1, <2>4 DEF Others
  <2>6. /\ Keeps(c) /\ calls'[c].pc = "done" /\ calls'[c].answer = a
        /\ calls'[c].file = calls[c].file /\ calls'[c].high = begun
    BY <1>1, <2>2 DEF Keeps, CallRecord
  <2>7. ~LoadIops(c)
    BY <2>1 DEF LoadIops, At
  <2>8. QED
    BY <2>1, <2>3, <2>5, <2>6, <2>7
<1>4. QED
  BY <1>2, <1>3

\* The goroutines die with the process.
LEMMA CrashEffect ==
    ASSUME TInv, Crash
    PROVE  /\ calls' \in [Calls -> CallRecord]
           /\ \A c \in Calls :
                  /\ Keeps(c) /\ calls'[c].file = calls[c].file
                  /\ calls'[c].answer = calls[c].answer /\ calls'[c].high = calls[c].high
                  /\ calls'[c].pc = IF InFlight(c) THEN "dead" ELSE calls[c].pc
<1>1. /\ calls \in [Calls -> CallRecord]
      /\ calls' = [c \in Calls |-> IF InFlight(c) THEN [calls[c] EXCEPT !.pc = "dead"]
                                   ELSE calls[c]]
  BY DEF TInv, Crash
<1>2. ASSUME NEW call \in CallRecord
      PROVE  [call EXCEPT !.pc = "dead"] \in CallRecord
  BY DEF CallRecord, Steps
<1>3. calls' \in [Calls -> CallRecord]
  BY <1>1, <1>2
<1>4. ASSUME NEW c \in Calls
      PROVE  /\ Keeps(c) /\ calls'[c].file = calls[c].file
             /\ calls'[c].answer = calls[c].answer /\ calls'[c].high = calls[c].high
             /\ calls'[c].pc = IF InFlight(c) THEN "dead" ELSE calls[c].pc
  <2>1. calls'[c] = IF InFlight(c) THEN [calls[c] EXCEPT !.pc = "dead"] ELSE calls[c]
    BY <1>1
  <2>2. calls[c] \in CallRecord
    BY <1>1
  <2>3. QED
    BY <2>1, <2>2 DEF Keeps, CallRecord
<1>5. QED
  BY <1>3, <1>4

\* A step of the file work of a call.
WaitingSteps == {"write", "writing", "read", "reading", "delete", "observe"}

Work(c) == \/ OpenForWrite(c) \/ WriteData(c) \/ WriteShort(c) \/ OpenForRead(c)
           \/ ReadSome(c) \/ ReadEnd(c) \/ Remove(c) \/ Fail(c)

LEMMA WorkEffect ==
    ASSUME TInv, NEW c \in Calls, Work(c)
    PROVE  Others(c) /\ Keeps(c) /\ calls'[c].pc \in WaitingSteps
<1>1. ASSUME NEW code \in Codes, NEW data \in Data, Finish(c, code, data)
      PROVE  Others(c) /\ Keeps(c) /\ calls'[c].pc \in WaitingSteps
  BY <1>1, FinishEffect DEF WaitingSteps
<1>2. {"OK", "NotFound", "Deleted", "NotDeleted", "Internal"} \subseteq Codes
  BY DEF Codes
<1>3. <<>> \in Data
  BY EmptyIsData
<1>4. CASE OpenForWrite(c)
  BY <1>4, OpenForWriteEffect DEF WaitingSteps
<1>5. CASE WriteData(c) \/ WriteShort(c)
  BY <1>1, <1>2, <1>3, <1>5 DEF WriteData, WriteShort
<1>6. CASE OpenForRead(c)
  <2>1. CASE Finish(c, "NotFound", <<>>)
    BY <1>1, <1>2, <1>3, <2>1
  <2>2. CASE ~Finish(c, "NotFound", <<>>)
    BY <1>6, <2>2, OpenForReadEffect DEF WaitingSteps
  <2>3. QED
    BY <2>1, <2>2
<1>7. CASE ReadSome(c)
  BY <1>7, ReadSomeEffect DEF WaitingSteps
<1>8. CASE ReadEnd(c)
  <2>1. /\ Finish(c, "OK", Slice(calls[c].buf, calls[c].req.offset, calls[c].req.length))
        /\ calls[c].pc = "reading"
    BY <1>8 DEF ReadEnd, At
  <2>2. Slice(calls[c].buf, calls[c].req.offset, calls[c].req.length) \in Data
    BY <2>1, ReaderTypes, SliceProperties
  <2>3. QED
    BY <1>1, <1>2, <2>1, <2>2
<1>9. CASE Remove(c)
  <2>1. \E code \in {"Deleted", "NotDeleted"} : Finish(c, code, <<>>)
    BY <1>9, RemoveEffect
  <2>2. QED
    BY <1>1, <1>2, <1>3, <2>1
<1>10. CASE Fail(c)
  BY <1>1, <1>2, <1>3, <1>10 DEF Fail
<1>11. QED
  BY <1>4, <1>5, <1>6, <1>7, <1>8, <1>9, <1>10 DEF Work

\* Begin disturbs nothing in the other calls but that they are no longer alone.
LEMMA BeginOthers ==
    ASSUME TInv, NEW c \in Calls, NEW r \in Requests, Begin(c, r), NEW x \in Calls \ {c}
    PROVE  /\ calls'[x].pc = calls[x].pc /\ calls'[x].req = calls[x].req
           /\ calls'[x].file = calls[x].file /\ calls'[x].buf = calls[x].buf
           /\ calls'[x].answer = calls[x].answer /\ calls'[x].before = calls[x].before
           /\ calls'[x].low = calls[x].low /\ calls'[x].high = calls[x].high
           /\ calls'[x].alone => calls[x].alone /\ ~(Mutates(r) /\ x \in Rivals(r))
<1>1. calls'[x] = IF Mutates(r) /\ x \in Rivals(r)
                  THEN [calls[x] EXCEPT !.alone = FALSE] ELSE calls[x]
  BY BeginEffect
<1>2. calls[x] \in CallRecord
  BY DEF TInv
<1>3. ASSUME NEW call \in CallRecord
      PROVE  LET other == [call EXCEPT !.alone = FALSE]
             IN  /\ other.pc = call.pc /\ other.req = call.req /\ other.file = call.file
                 /\ other.buf = call.buf /\ other.answer = call.answer
                 /\ other.before = call.before /\ other.low = call.low
                 /\ other.high = call.high /\ ~other.alone
  BY DEF CallRecord
<1>4. CASE Mutates(r) /\ x \in Rivals(r)
  BY <1>1, <1>2, <1>3, <1>4
<1>5. CASE ~(Mutates(r) /\ x \in Rivals(r))
  BY <1>1, <1>5
<1>6. QED
  BY <1>4, <1>5

\* The counters, before and after which a call has no file to work on.
Count(c) == ObserveOp(c) \/ ObserveBytes(c) \/ LoadIops(c) \/ LoadBytes(c)

LEMMA CountEffect ==
    ASSUME TInv, NEW c \in Calls, Count(c)
    PROVE  /\ Others(c) /\ Keeps(c) /\ UNCHANGED <<dir, objects>>
           /\ calls'[c].answer.data = calls[c].answer.data
           /\ \/ calls[c].pc = "observe" /\ calls'[c].pc = "observeBytes"
              \/ calls[c].pc = "observeBytes" /\ calls'[c].pc = "done"
              \/ calls[c].pc = "loadIops" /\ calls'[c].pc = "loadBytes"
              \/ calls[c].pc = "loadBytes" /\ calls'[c].pc = "done"
           /\ calls[c].pc \in {"observe", "observeBytes"} =>
                  calls'[c].answer = calls[c].answer
<1>1. UNCHANGED <<dir, objects>>
  BY DEF Count, ObserveOp, ObserveBytes, LoadIops, LoadBytes, files
<1>2. CASE ObserveOp(c)
  <2>1. /\ calls[c].pc = "observe" /\ calls' = [calls EXCEPT ![c].pc = "observeBytes"]
        /\ "observeBytes" \in Steps
    BY <1>2 DEF ObserveOp, At, Steps
  <2>2. QED
    BY <1>1, <2>1, MoveEffect
<1>3. CASE ObserveBytes(c)
  <2>1. /\ calls[c].pc = "observeBytes" /\ calls' = [calls EXCEPT ![c].pc = "done"]
        /\ "done" \in Steps
    BY <1>3 DEF ObserveBytes, At, Steps
  <2>2. QED
    BY <1>1, <2>1, MoveEffect
<1>4. CASE LoadIops(c) \/ LoadBytes(c)
  BY <1>1, <1>4, LoadEffect
<1>5. QED
  BY <1>2, <1>3, <1>4 DEF Count

-----------------------------------------------------------------------------
(* The type invariant is inductive.                                        *)

\* Calls that a step does not touch stay what they were.
LEMMA OthersOK ==
    ASSUME TInv, NEW c \in Calls, Others(c), Len(objects) <= Len(objects'),
           Len(objects') \in Nat, CallOK(c)'
    PROVE  \A x \in Calls : CallOK(x)'
<1>1. Len(objects) \in Nat /\ \A x \in Calls : CallOK(x)
  BY LenProperties DEF TInv, FilesOK
<1>2. ASSUME NEW x \in Calls, x # c PROVE CallOK(x)'
  BY <1>1, <1>2 DEF Others, CallOK
<1>3. QED
  BY <1>2

\* A handler that has done its work leaves the call well formed.
LEMMA FinishOK ==
    ASSUME TInv, NEW c \in Calls, NEW code \in Codes, NEW data \in Data,
           Finish(c, code, data), FilesOK', Len(objects') = Len(objects),
           calls[c].req.op \in {"write", "read", "delete"}
    PROVE  calls' \in [Calls -> CallRecord] /\ \A x \in Calls : CallOK(x)'
<1>1. /\ calls' \in [Calls -> CallRecord] /\ Others(c) /\ Keeps(c)
      /\ calls'[c].pc = "observe" /\ calls'[c].file = calls[c].file
  BY FinishEffect
<1>2. CallOK(c) /\ Len(objects) \in Nat
  BY LenProperties DEF TInv, FilesOK
<1>3. CallOK(c)'
  BY <1>1, <1>2 DEF CallOK, Keeps
<1>4. QED
  BY <1>1, <1>2, <1>3, OthersOK

LEMMA StepTInv == ASSUME TInv, NEW c \in Calls, Step(c) PROVE TInv'
<1> USE DEF counters
<1>0. /\ calls \in [Calls -> CallRecord] /\ CallOK(c) /\ Len(objects) \in Nat
      /\ FilesOK /\ up \in BOOLEAN /\ iops \in Nat /\ bytes \in Nat
      /\ begun \in Nat \X Nat /\ answered \in Nat \X Nat
      /\ settled \in [Keys -> Known] /\ calls[c] \in CallRecord
  BY LenProperties DEF TInv, FilesOK
<1>codes. /\ {"OK", "NotFound", "Deleted", "NotDeleted", "Internal"} \subseteq Codes
          /\ <<>> \in Data
  BY EmptyIsData DEF Codes
<1>data. calls[c].req.data \in Data /\ Len(calls[c].req.data) \in Nat
  BY <1>0, LenProperties DEF CallRecord, RequestRecord, Data
<1>1. ASSUME NEW r \in Requests, Begin(c, r) PROVE TInv'
  <2>1. r \in RequestRecord /\ Len(r.data) \in Nat
    BY RequestTypes, LenProperties DEF RequestRecord, Data
  <2>2. begun' \in Nat \X Nat
    BY <1>0, <1>1, <2>1, PlusTypes DEF Begin
  <2>3. settled' \in [Keys -> Known]
    <3>1. Unsettled \in Known
      BY EmptyIsData DEF Unsettled, Known
    <3>2. QED
      BY <1>0, <1>1, <3>1 DEF Begin
  <2>4. UNCHANGED <<up, dir, objects, iops, bytes, answered>>
    BY <1>1 DEF Begin, files
  <2>5. FilesOK'
    BY <1>0, <2>4 DEF FilesOK
  <2>6. \A x \in Calls : CallOK(x)'
    <3>1. CallOK(c)'
      <4>1. /\ calls'[c].pc = FirstStep(r) /\ calls'[c].req = r /\ calls'[c].file = 0
            /\ FirstStep(r) = IF r.op = "health" THEN "loadIops"
                              ELSE IF r.block = NoBlock THEN "observe" ELSE r.op
            /\ FirstStep(r) \in {"loadIops", "observe", "write", "read", "delete"}
        BY <1>1, BeginEffect
      <4>2. r.op \in {"write", "read", "delete", "health"} /\ r.block \in Blocks \cup {NoBlock}
        BY <2>1, RequestTypes DEF RequestRecord
      <4>3. QED
        BY <1>0, <2>4, <4>1, <4>2 DEF CallOK
    <3>2. ASSUME NEW x \in Calls \ {c} PROVE CallOK(x)'
      <4>1. calls'[x] = calls[x] \/ calls'[x] = [calls[x] EXCEPT !.alone = FALSE]
        BY <1>1, BeginEffect
      <4>2. calls[x] \in CallRecord /\ CallOK(x)
        BY DEF TInv
      <4>3. /\ calls'[x].pc = calls[x].pc /\ calls'[x].req = calls[x].req
            /\ calls'[x].file = calls[x].file
        BY <4>1, <4>2 DEF CallRecord
      <4>4. QED
        BY <2>4, <4>2, <4>3 DEF CallOK
    <3>3. QED
      BY <3>1, <3>2
  <2>7. calls' \in [Calls -> CallRecord]
    BY <1>1, BeginEffect
  <2>8. QED
    BY <1>0, <2>2, <2>3, <2>4, <2>5, <2>6, <2>7 DEF TInv
<1>2. CASE OpenForWrite(c)
  <2>1. /\ calls[c].pc = "write" /\ calls'[c].pc = "writing"
        /\ calls' \in [Calls -> CallRecord] /\ Others(c) /\ Keeps(c)
        /\ FilesOK' /\ Len(objects) <= Len(objects')
        /\ calls'[c].file \in 1..Len(objects')
    BY <1>2, OpenForWriteEffect
  <2>2. Len(objects') \in Nat
    BY <2>1, LenProperties DEF FilesOK
  <2>3. CallOK(c)'
    BY <1>0, <2>1, <2>2 DEF CallOK, Keeps
  <2>4. \A x \in Calls : CallOK(x)'
    BY <2>1, <2>2, <2>3, OthersOK
  <2>5. UNCHANGED <<up, iops, bytes, begun, answered, settled>>
    BY <1>2 DEF OpenForWrite
  <2>6. QED
    BY <1>0, <2>1, <2>4, <2>5 DEF TInv
<1>3. CASE WriteData(c) \/ WriteShort(c)
  <2>1. calls[c].pc = "writing" /\ FilesOK' /\ Len(objects') = Len(objects)
    BY <1>3, WriteEffect
  <2>a. \E code \in {"OK", "Internal"} : Finish(c, code, <<>>)
    BY <1>3 DEF WriteData, WriteShort
  <2>2. calls' \in [Calls -> CallRecord] /\ \A x \in Calls : CallOK(x)'
    BY <1>0, <1>codes, <2>1, <2>a, FinishOK DEF CallOK
  <2>3. UNCHANGED <<up, iops, bytes, begun, answered, settled>>
    BY <1>3 DEF WriteData, WriteShort
  <2>4. QED
    BY <1>0, <2>1, <2>2, <2>3 DEF TInv
<1>4. CASE OpenForRead(c)
  <2>1. UNCHANGED <<up, dir, objects, iops, bytes, begun, answered, settled>>
    BY <1>4 DEF OpenForRead, files
  <2>2. FilesOK'
    BY <1>0, <2>1 DEF FilesOK
  <2>3. calls' \in [Calls -> CallRecord] /\ \A x \in Calls : CallOK(x)'
    <3>1. CASE Finish(c, "NotFound", <<>>)
      <4>1. calls[c].req.op = "read"
        BY <1>0, <1>4 DEF CallOK, OpenForRead, At
      <4>2. QED
        BY <1>codes, <2>1, <2>2, <3>1, <4>1, FinishOK
    <3>2. CASE ~Finish(c, "NotFound", <<>>)
      <4>1. /\ calls[c].pc = "read" /\ calls'[c].pc = "reading"
            /\ calls' \in [Calls -> CallRecord] /\ Others(c) /\ Keeps(c)
            /\ calls'[c].file \in 1..Len(objects)
        BY <1>4, <3>2, OpenForReadEffect
      <4>2. CallOK(c)'
        BY <1>0, <2>1, <4>1 DEF CallOK, Keeps
      <4>3. QED
        BY <1>0, <2>1, <4>1, <4>2, OthersOK
    <3>3. QED
      BY <3>1, <3>2
  <2>4. QED
    BY <1>0, <2>1, <2>2, <2>3 DEF TInv
<1>5. CASE ReadSome(c)
  <2>1. UNCHANGED <<up, dir, objects, iops, bytes, begun, answered, settled>>
    BY <1>5 DEF ReadSome, files
  <2>2. FilesOK'
    BY <1>0, <2>1 DEF FilesOK
  <2>3. /\ calls[c].pc = "reading" /\ calls'[c].pc = "reading"
        /\ calls' \in [Calls -> CallRecord] /\ Others(c) /\ Keeps(c)
        /\ calls'[c].file = calls[c].file
    BY <1>5, ReadSomeEffect
  <2>4. CallOK(c)'
    BY <1>0, <2>1, <2>3 DEF CallOK, Keeps
  <2>5. \A x \in Calls : CallOK(x)'
    BY <1>0, <2>1, <2>3, <2>4, OthersOK
  <2>6. QED
    BY <1>0, <2>1, <2>2, <2>3, <2>5 DEF TInv
<1>6. CASE ReadEnd(c)
  <2>1. UNCHANGED <<up, dir, objects, iops, bytes, begun, answered, settled>>
    BY <1>6 DEF ReadEnd, files
  <2>2. FilesOK'
    BY <1>0, <2>1 DEF FilesOK
  <2>3. calls[c].pc = "reading" /\ calls[c].req.op = "read"
    BY <1>0, <1>6 DEF ReadEnd, At, CallOK
  <2>4. Slice(calls[c].buf, calls[c].req.offset, calls[c].req.length) \in Data
    BY <2>3, ReaderTypes, SliceProperties
  <2>5. Finish(c, "OK", Slice(calls[c].buf, calls[c].req.offset, calls[c].req.length))
    BY <1>6 DEF ReadEnd
  <2>6. calls' \in [Calls -> CallRecord] /\ \A x \in Calls : CallOK(x)'
    BY <1>codes, <2>1, <2>2, <2>3, <2>4, <2>5, FinishOK
  <2>7. QED
    BY <1>0, <2>1, <2>2, <2>6 DEF TInv
<1>7. CASE Remove(c)
  <2>1. UNCHANGED <<up, objects, iops, bytes, begun, answered, settled>>
    BY <1>7 DEF Remove
  <2>2. /\ calls[c].pc = "delete" /\ FilesOK'
        /\ \E code \in {"Deleted", "NotDeleted"} : Finish(c, code, <<>>)
    BY <1>7, RemoveEffect
  <2>3. calls' \in [Calls -> CallRecord] /\ \A x \in Calls : CallOK(x)'
    BY <1>0, <1>codes, <2>1, <2>2, FinishOK DEF CallOK
  <2>4. QED
    BY <1>0, <2>1, <2>2, <2>3 DEF TInv
<1>8. CASE Fail(c)
  <2>1. UNCHANGED <<up, dir, objects, iops, bytes, begun, answered, settled>>
    BY <1>8 DEF Fail, files
  <2>2. FilesOK'
    BY <1>0, <2>1 DEF FilesOK
  <2>3. calls[c].pc \in {"write", "read", "reading", "delete"} /\ Finish(c, "Internal", <<>>)
    BY <1>8 DEF Fail, At
  <2>4. calls' \in [Calls -> CallRecord] /\ \A x \in Calls : CallOK(x)'
    BY <1>0, <1>codes, <2>1, <2>2, <2>3, FinishOK DEF CallOK
  <2>5. QED
    BY <1>0, <2>1, <2>2, <2>4 DEF TInv
<1>9. ASSUME NEW pc \in {"observeBytes", "done"}, calls' = [calls EXCEPT ![c].pc = pc],
             pc = "observeBytes" => calls[c].req.op \in {"write", "read", "delete"},
             UNCHANGED <<dir, objects>>
      PROVE  FilesOK' /\ calls' \in [Calls -> CallRecord] /\ \A x \in Calls : CallOK(x)'
  <2>1. pc \in Steps
    BY DEF Steps
  <2>2. /\ calls' \in [Calls -> CallRecord] /\ Others(c) /\ Keeps(c)
        /\ calls'[c].pc = pc /\ calls'[c].file = calls[c].file
    BY <1>9, <2>1, MoveEffect
  <2>3. CallOK(c)'
    BY <1>0, <1>9, <2>2 DEF CallOK, Keeps
  <2>4. QED
    BY <1>0, <1>9, <2>2, <2>3, OthersOK DEF FilesOK
<1>10. CASE ObserveOp(c)
  <2>1. /\ UNCHANGED <<up, dir, objects, bytes, begun, answered, settled>>
        /\ iops' = iops + 1 /\ calls' = [calls EXCEPT ![c].pc = "observeBytes"]
        /\ calls[c].pc = "observe"
    BY <1>10 DEF ObserveOp, files, At
  <2>2. calls[c].req.op \in {"write", "read", "delete"}
    BY <1>0, <2>1 DEF CallOK
  <2>3. FilesOK' /\ calls' \in [Calls -> CallRecord] /\ \A x \in Calls : CallOK(x)'
    BY <1>9, <2>1, <2>2
  <2>4. QED
    BY <1>0, <2>1, <2>3 DEF TInv
<1>11. CASE ObserveBytes(c)
  <2>1. /\ UNCHANGED <<up, dir, objects, iops, begun>>
        /\ bytes' = bytes + Len(calls[c].req.data)
        /\ answered' = Plus(answered, Sizes(calls[c].req))
        /\ calls' = [calls EXCEPT ![c].pc = "done"]
    BY <1>11 DEF ObserveBytes, files, BytesOf
  <2>2. bytes' \in Nat /\ answered' \in Nat \X Nat
    <3>1. answered \in Nat \X Nat /\ calls[c].req \in RequestRecord
      BY <1>0 DEF CallRecord
    <3>2. Plus(answered, Sizes(calls[c].req)) \in Nat \X Nat
      BY <3>1, PlusTypes
    <3>3. answered' \in Nat \X Nat
      BY <2>1, <3>2
    <3>4. bytes \in Nat /\ bytes' = bytes + Len(calls[c].req.data)
      BY <1>0, <2>1
    <3>5. bytes' \in Nat
      BY <1>data, <3>4
    <3>6. QED
      BY <3>3, <3>5
  <2>3. settled' \in [Keys -> Known]
    <3>1. Holds(calls[c].req.data) \in Known /\ Absent \in Known
      BY <1>data, EmptyIsData DEF Holds, Absent, Known
    <3>2. QED
      BY <1>0, <1>11, <3>1 DEF ObserveBytes
  <2>4. FilesOK' /\ calls' \in [Calls -> CallRecord] /\ \A x \in Calls : CallOK(x)'
    BY <1>9, <2>1
  <2>5. QED
    BY <1>0, <2>1, <2>2, <2>3, <2>4 DEF TInv
<1>12. CASE LoadIops(c) \/ LoadBytes(c)
  <2>1. UNCHANGED <<up, dir, objects, iops, bytes, begun, answered, settled>>
    BY <1>12 DEF LoadIops, LoadBytes, files
  <2>2. FilesOK'
    BY <1>0, <2>1 DEF FilesOK
  <2>3. /\ calls' \in [Calls -> CallRecord] /\ Others(c) /\ Keeps(c)
        /\ calls'[c].file = calls[c].file
        /\ \/ calls[c].pc = "loadIops" /\ calls'[c].pc = "loadBytes"
           \/ calls[c].pc = "loadBytes" /\ calls'[c].pc = "done"
    BY <1>12, LoadEffect
  <2>4. CallOK(c)'
    BY <1>0, <2>1, <2>3 DEF CallOK, Keeps
  <2>5. \A x \in Calls : CallOK(x)'
    BY <1>0, <2>1, <2>3, <2>4, OthersOK
  <2>6. QED
    BY <1>0, <2>1, <2>2, <2>3, <2>5 DEF TInv
<1>13. QED
  BY <1>1, <1>2, <1>3, <1>4, <1>5, <1>6, <1>7, <1>8, <1>10, <1>11, <1>12 DEF Step

LEMMA NextTInv == TInv /\ [Next]_vars => TInv'
<1> SUFFICES ASSUME TInv, [Next]_vars PROVE TInv'
  OBVIOUS
<1> USE DEF counters, files
<1>1. CASE Crash
  <2>1. /\ up' \in BOOLEAN /\ UNCHANGED <<dir, objects, settled>>
        /\ iops' = 0 /\ bytes' = 0 /\ begun' = <<0, 0>> /\ answered' = <<0, 0>>
    BY <1>1 DEF Crash
  <2>2. calls' \in [Calls -> CallRecord]
    BY <1>1, CrashEffect
  <2>3. ASSUME NEW c \in Calls PROVE CallOK(c)'
    <3>1. /\ Keeps(c) /\ calls'[c].file = calls[c].file
          /\ calls'[c].pc = "dead" \/ calls'[c].pc = calls[c].pc
      BY <1>1, CrashEffect
    <3>2. CallOK(c)
      BY DEF TInv
    <3>3. QED
      BY <2>1, <3>1, <3>2 DEF CallOK, Keeps
  <2>4. FilesOK' /\ settled' \in [Keys -> Known]
    BY <2>1 DEF TInv, FilesOK
  <2>5. QED
    BY <2>1, <2>2, <2>3, <2>4 DEF TInv
<1>2. CASE Start
  <2>1. up' \in BOOLEAN /\ UNCHANGED <<dir, objects, calls, iops, bytes, begun, answered, settled>>
    BY <1>2 DEF Start
  <2>2. QED
    BY <2>1 DEF TInv, FilesOK, CallOK
<1>3. CASE \E c \in Calls : Step(c)
  BY <1>3, StepTInv
<1>4. CASE UNCHANGED vars
  BY <1>4 DEF vars, TInv, FilesOK, CallOK
<1>5. QED
  BY <1>1, <1>2, <1>3, <1>4 DEF Next

LEMMA Typing == Spec => []TInv
BY InitTInv, NextTInv, PTL DEF Spec

\* Open descriptors and directory entries name file objects (service.go:98-160),
\* whatever calls come and whenever the process dies.
THEOREM TypeCorrect == Spec => []TypeOK
<1>1. TInv => TypeOK
  <2> SUFFICES ASSUME TInv PROVE TypeOK
    OBVIOUS
  <2>1. \A p \in DOMAIN dir : dir[p] \in 1..Len(objects)
    BY DEF TInv, FilesOK
  <2>2. ASSUME NEW c \in Calls
        PROVE  /\ calls[c].pc \in Steps /\ calls[c].answer.code \in Codes
               /\ calls[c].file \in 0..Len(objects)
               /\ calls[c].pc \in {"writing", "reading"} => calls[c].file # 0
    BY DEF TInv, CallRecord, AnswerRecord, CallOK
  <2>3. QED
    BY <2>1, <2>2 DEF TInv, TypeOK
<1>2. QED
  BY <1>1, Typing, PTL

-----------------------------------------------------------------------------
(* Health.                                                                 *)

\* The calls that have yet to add to the first counter, to the second, and the
\* bytes that the second has yet to be given, each with its call and place.
Waiting  == {c \in Calls : calls[c].pc \in {"write", "writing", "read", "reading",
                                            "delete", "observe"}}
Counting == {c \in Calls : calls[c].pc = "observeBytes"}
Owed     == {x \in (Waiting \cup Counting) \X Nat : x[2] \in 1..Len(calls[x[1]].req.data)}

CountsOK ==
    /\ IsFiniteSet(Waiting) /\ IsFiniteSet(Counting) /\ IsFiniteSet(Owed)
    /\ begun[1] = iops + Cardinality(Waiting)
    /\ iops = answered[1] + Cardinality(Counting)
    /\ begun[2] = bytes + Cardinality(Owed)
    /\ bytes = answered[2]

HealthOK(c) ==
    /\ calls[c].pc \in {"loadIops", "loadBytes"} =>
           calls[c].low[1] <= answered[1] /\ calls[c].low[2] <= answered[2]
    /\ calls[c].pc = "loadBytes" =>
           calls[c].low[1] <= calls[c].answer.iops /\ calls[c].answer.iops <= begun[1]
    /\ Answered(c, "health") =>
           /\ calls[c].low[1] <= calls[c].answer.iops
           /\ calls[c].answer.iops <= calls[c].high[1]
           /\ calls[c].low[2] <= calls[c].answer.bytes
           /\ calls[c].answer.bytes <= calls[c].high[2]

HInv == /\ CountsOK
        /\ \A c \in Calls : HealthOK(c)
        /\ ~up => \A c \in Calls : ~InFlight(c)

LEMMA InitHInv == Init => HInv
<1> SUFFICES ASSUME Init PROVE HInv
  OBVIOUS
<1>1. \A c \in Calls : calls[c].pc = "idle"
  BY DEF Init, Idle
<1>2. Waiting = {} /\ Counting = {}
  BY <1>1 DEF Waiting, Counting
<1>3. Owed = {}
  BY <1>2 DEF Owed
<1>4. CountsOK
  BY <1>2, <1>3, FS_EmptySet DEF Init, CountsOK
<1>5. \A c \in Calls : HealthOK(c) /\ ~InFlight(c)
  BY <1>1 DEF HealthOK, InFlight, Answered
<1>6. QED
  BY <1>4, <1>5 DEF HInv

\* The bytes of one call.
LEMMA BytesOfCall ==
    ASSUME NEW c, NEW r \in RequestRecord
    PROVE  /\ IsFiniteSet({c} \X (1..Len(r.data)))
           /\ Cardinality({c} \X (1..Len(r.data))) = Len(r.data)
<1> DEFINE n == Len(r.data)
<1>1. n \in Nat
  BY LenProperties DEF RequestRecord, Data
<1> HIDE DEF n
<1>2. IsFiniteSet(1..n) /\ Cardinality(1..n) = n
  BY <1>1, FS_Interval
<1>3. IsFiniteSet({c}) /\ Cardinality({c}) = 1
  BY FS_Singleton
<1>4. /\ IsFiniteSet({c} \X (1..n))
      /\ Cardinality({c} \X (1..n)) = Cardinality({c}) * Cardinality(1..n)
  BY <1>2, <1>3, FS_Product
<1>5. Cardinality({c}) * Cardinality(1..n) = n
  BY <1>1, <1>2, <1>3
<1>6. QED
  BY <1>4, <1>5 DEF n

\* The counts only grow while the process lives, and that suits every call on
\* its way.
LEMMA HealthStays ==
    ASSUME TInv, TInv', HInv, NEW x \in Calls,
           calls'[x].pc = calls[x].pc, calls'[x].req = calls[x].req,
           calls'[x].low = calls[x].low, calls'[x].answer = calls[x].answer,
           calls'[x].high = calls[x].high,
           answered[1] <= answered'[1], answered[2] <= answered'[2],
           begun[1] <= begun'[1]
    PROVE  HealthOK(x)'
<1>1. /\ HealthOK(x) /\ calls[x] \in CallRecord
      /\ begun \in Nat \X Nat /\ answered \in Nat \X Nat
      /\ begun' \in Nat \X Nat /\ answered' \in Nat \X Nat
  BY DEF TInv, HInv
<1>2. /\ calls[x].low[1] \in Nat /\ calls[x].low[2] \in Nat
      /\ calls[x].answer.iops \in Nat
  BY <1>1 DEF CallRecord, AnswerRecord
<1>3. /\ begun[1] \in Nat /\ answered[1] \in Nat /\ answered[2] \in Nat
      /\ begun'[1] \in Nat /\ answered'[1] \in Nat /\ answered'[2] \in Nat
  BY <1>1
<1>4. QED
  BY <1>1, <1>2, <1>3 DEF HealthOK, Answered

\* The sets of a step that leaves its call waiting, or out of them.
LEMMA SetsStay ==
    ASSUME TInv, NEW c \in Calls, Others(c), calls'[c].req = calls[c].req,
           \/ calls[c].pc \in WaitingSteps /\ calls'[c].pc \in WaitingSteps
           \/ /\ calls[c].pc \notin WaitingSteps \cup {"observeBytes"}
              /\ calls'[c].pc \notin WaitingSteps \cup {"observeBytes"}
    PROVE  Waiting' = Waiting /\ Counting' = Counting /\ Owed' = Owed
<1>1. \A x \in Calls : /\ calls'[x].req = calls[x].req
                       /\ calls'[x].pc \in WaitingSteps <=> calls[x].pc \in WaitingSteps
                       /\ calls'[x].pc = "observeBytes" <=> calls[x].pc = "observeBytes"
  BY DEF Others, WaitingSteps
<1>2. Waiting' = Waiting /\ Counting' = Counting
  BY <1>1 DEF Waiting, Counting, WaitingSteps
<1>3. \A x \in (Waiting \cup Counting) \X Nat : calls'[x[1]].req = calls[x[1]].req
  BY <1>1 DEF Waiting, Counting
<1>4. QED
  BY <1>2, <1>3 DEF Owed

\* A step of a handler up to its deferred work, which counts nothing.
LEMMA QuietHInv ==
    ASSUME TInv, TInv', HInv, NEW c \in Calls, Others(c), Keeps(c), up,
           calls[c].pc \in WaitingSteps, calls'[c].pc \in WaitingSteps,
           UNCHANGED <<up, iops, bytes, begun, answered>>
    PROVE  HInv'
<1>1. Waiting' = Waiting /\ Counting' = Counting /\ Owed' = Owed
  BY SetsStay DEF Keeps
<1>2. CountsOK'
  BY <1>1 DEF HInv, CountsOK
<1>3. HealthOK(c)'
  <2>1. /\ calls'[c].pc \notin {"loadIops", "loadBytes", "done"}
    BY DEF WaitingSteps
  <2>2. QED
    BY <2>1 DEF HealthOK, Answered
<1>4. ASSUME NEW x \in Calls \ {c} PROVE HealthOK(x)'
  <2>1. begun \in Nat \X Nat /\ answered \in Nat \X Nat /\ calls'[x] = calls[x]
    BY DEF TInv, Others
  <2>2. /\ answered[1] <= answered'[1] /\ answered[2] <= answered'[2]
        /\ begun[1] <= begun'[1]
    BY <2>1
  <2>3. QED
    BY <2>1, <2>2, HealthStays
<1>5. QED
  BY <1>2, <1>3, <1>4 DEF HInv

LEMMA BeginHInv ==
    ASSUME TInv, TInv', HInv, NEW c \in Calls, NEW r \in Requests, Begin(c, r)
    PROVE  HInv'
<1>1. /\ calls[c].pc = "idle" /\ calls'[c].pc = FirstStep(r) /\ calls'[c].req = r
      /\ calls'[c].low = answered
      /\ FirstStep(r) = IF r.op = "health" THEN "loadIops"
                        ELSE IF r.block = NoBlock THEN "observe" ELSE r.op
      /\ FirstStep(r) \in {"loadIops", "observe", "write", "read", "delete"}
  BY BeginEffect
<1>2. /\ up /\ UNCHANGED <<up, iops, bytes, answered>>
      /\ begun' = IF r.op = "health" THEN begun ELSE Plus(begun, Sizes(r))
  BY DEF Begin, counters
<1>3. r \in RequestRecord /\ r.op \in {"write", "read", "delete", "health"}
  BY RequestTypes DEF RequestRecord
<1>4. /\ begun \in Nat \X Nat /\ answered \in Nat \X Nat /\ iops \in Nat /\ bytes \in Nat
      /\ calls \in [Calls -> CallRecord]
  BY DEF TInv
<1>5. /\ Plus(begun, Sizes(r))[1] = begun[1] + 1 /\ Len(r.data) \in Nat
      /\ Plus(begun, Sizes(r))[2] = begun[2] + Len(r.data)
  BY <1>3, <1>4, PlusTypes
<1>6. \A x \in Calls \ {c} :
          /\ calls'[x].pc = calls[x].pc /\ calls'[x].req = calls[x].req
          /\ calls'[x].low = calls[x].low /\ calls'[x].answer = calls[x].answer
          /\ calls'[x].high = calls[x].high
  BY BeginOthers
<1>7. ASSUME NEW x \in Calls \ {c} PROVE HealthOK(x)'
  <2>1. /\ answered[1] <= answered'[1] /\ answered[2] <= answered'[2]
        /\ begun[1] <= begun'[1]
    BY <1>2, <1>4, <1>5
  <2>2. QED
    BY <1>6, <2>1, HealthStays
<1>8. HealthOK(c)'
  <2>1. calls'[c].pc \notin {"loadBytes", "done"}
    BY <1>1
  <2>2. /\ calls'[c].low[1] <= answered'[1] /\ calls'[c].low[2] <= answered'[2]
    BY <1>1, <1>2, <1>4
  <2>3. QED
    BY <2>1, <2>2 DEF HealthOK, Answered
<1>9. CountsOK'
  <2>0. /\ c \notin Waiting /\ c \notin Counting
        /\ Waiting \subseteq Calls /\ Counting \subseteq Calls
    BY <1>1 DEF Waiting, Counting
  <2>c. Counting' = Counting
    BY <1>1, <1>6 DEF Counting
  <2>f. /\ IsFiniteSet(Waiting) /\ IsFiniteSet(Counting) /\ IsFiniteSet(Owed)
        /\ begun[1] = iops + Cardinality(Waiting)
        /\ iops = answered[1] + Cardinality(Counting)
        /\ begun[2] = bytes + Cardinality(Owed) /\ bytes = answered[2]
    BY DEF HInv, CountsOK
  <2>1. CASE r.op = "health"
    <3>1. Waiting' = Waiting
      BY <1>1, <1>6, <2>1 DEF Waiting
    <3>2. Owed' = Owed
      <4>1. \A x \in (Waiting \cup Counting) \X Nat : calls'[x[1]].req = calls[x[1]].req
        BY <1>6, <2>0
      <4>2. QED
        BY <2>c, <3>1, <4>1 DEF Owed
    <3>3. QED
      BY <1>2, <2>1, <2>c, <2>f, <3>1, <3>2 DEF CountsOK
  <2>2. CASE r.op # "health"
    <3> DEFINE mine == {c} \X (1..Len(r.data))
    <3>1. Waiting' = Waiting \cup {c}
      BY <1>1, <1>3, <1>6, <2>2 DEF Waiting
    <3>2. IsFiniteSet(Waiting') /\ Cardinality(Waiting') = Cardinality(Waiting) + 1
      BY <2>0, <2>f, <3>1, FS_AddElement
    <3>3. Owed' = Owed \cup mine
      <4>1. ASSUME NEW x \in (Waiting \cup Counting) \X Nat
            PROVE  x[1] # c /\ calls'[x[1]].req = calls[x[1]].req
        BY <1>6, <2>0
      <4>2. Owed' = {x \in (Waiting \cup {c} \cup Counting) \X Nat :
                        x[2] \in 1..Len(calls'[x[1]].req.data)}
        BY <2>c, <3>1 DEF Owed
      <4>3. ASSUME NEW x PROVE x \in Owed' <=> x \in Owed \cup mine
        <5>1. CASE x \in Owed
          BY <4>1, <4>2, <5>1 DEF Owed
        <5>2. CASE x \in mine
          BY <1>1, <1>5, <4>2, <5>2
        <5>3. CASE x \in Owed' /\ x[1] = c
          BY <1>1, <4>2, <5>3
        <5>4. CASE x \in Owed' /\ x[1] # c
          <6>1. x \in (Waiting \cup Counting) \X Nat
            BY <4>2, <5>4
          <6>2. QED
            BY <4>1, <4>2, <5>4, <6>1 DEF Owed
        <5>5. QED
          BY <5>1, <5>2, <5>3, <5>4
      <4>4. QED
        BY <4>3
    <3>4. Owed \cap mine = {}
      BY <2>0 DEF Owed
    <3>5. IsFiniteSet(mine) /\ Cardinality(mine) = Len(r.data)
      BY <1>3, BytesOfCall
    <3> HIDE DEF mine
    <3>6. /\ IsFiniteSet(Owed')
          /\ Cardinality(Owed') = Cardinality(Owed) + Len(r.data)
      <4>1. Cardinality(Owed \cap mine) = 0 /\ Cardinality(Owed) \in Nat
        BY <2>f, <3>4, FS_EmptySet, FS_CardinalityType
      <4>2. /\ IsFiniteSet(Owed \cup mine)
            /\ Cardinality(Owed \cup mine) =
                   Cardinality(Owed) + Cardinality(mine) - Cardinality(Owed \cap mine)
        BY <2>f, <3>5, FS_Union
      <4>3. QED
        BY <1>5, <3>3, <3>5, <4>1, <4>2
    <3>7. begun' = Plus(begun, Sizes(r))
      BY <1>2, <2>2
    <3>8. Cardinality(Waiting) \in Nat /\ Cardinality(Owed) \in Nat
      BY <2>f, FS_CardinalityType
    <3>9. begun'[1] = iops' + Cardinality(Waiting') /\ begun'[2] = bytes' + Cardinality(Owed')
      <4>1. begun'[1] = begun[1] + 1 /\ begun'[2] = begun[2] + Len(r.data)
        BY <1>5, <3>7
      <4>2. begun'[1] = iops' + Cardinality(Waiting')
        BY <1>2, <1>4, <2>f, <3>2, <3>8, <4>1
      <4>3. begun'[2] = bytes' + Cardinality(Owed')
        BY <1>2, <1>4, <1>5, <2>f, <3>6, <3>8, <4>1
      <4>4. QED
        BY <4>2, <4>3
    <3>10. /\ IsFiniteSet(Counting') /\ bytes' = answered'[2]
           /\ iops' = answered'[1] + Cardinality(Counting')
      BY <1>2, <2>c, <2>f
    <3>11. QED
      BY <3>2, <3>6, <3>9, <3>10 DEF CountsOK
  <2>3. QED
    BY <2>1, <2>2
<1>10. QED
  BY <1>2, <1>7, <1>8, <1>9 DEF HInv

LEMMA ObserveOpHInv ==
    ASSUME TInv, TInv', HInv, NEW c \in Calls, ObserveOp(c) PROVE HInv'
<1>1. /\ up /\ UNCHANGED <<up, bytes, begun, answered>> /\ iops' = iops + 1
      /\ calls[c].pc = "observe" /\ calls' = [calls EXCEPT ![c].pc = "observeBytes"]
  BY DEF ObserveOp, At
<1>2. "observeBytes" \in Steps
  BY DEF Steps
<1>3. Others(c) /\ Keeps(c) /\ calls'[c].pc = "observeBytes"
  BY <1>1, <1>2, MoveEffect
<1>4. /\ IsFiniteSet(Waiting) /\ IsFiniteSet(Counting) /\ IsFiniteSet(Owed)
      /\ begun[1] = iops + Cardinality(Waiting)
      /\ iops = answered[1] + Cardinality(Counting)
      /\ begun[2] = bytes + Cardinality(Owed) /\ bytes = answered[2]
      /\ begun \in Nat \X Nat /\ answered \in Nat \X Nat /\ iops \in Nat /\ bytes \in Nat
  BY DEF HInv, CountsOK, TInv
<1>5. Waiting' = Waiting \ {c} /\ c \in Waiting
  BY <1>1, <1>3 DEF Waiting, Others
<1>6. Counting' = Counting \cup {c} /\ c \notin Counting
  BY <1>1, <1>3 DEF Counting, Others
<1>7. Owed' = Owed
  <2>1. Waiting' \cup Counting' = Waiting \cup Counting
    BY <1>5, <1>6
  <2>2. \A x \in (Waiting \cup Counting) \X Nat : calls'[x[1]].req = calls[x[1]].req
    BY <1>3 DEF Others, Keeps, Waiting, Counting
  <2>3. QED
    BY <2>1, <2>2 DEF Owed
<1>8. /\ IsFiniteSet(Waiting') /\ Cardinality(Waiting') = Cardinality(Waiting) - 1
      /\ IsFiniteSet(Counting') /\ Cardinality(Counting') = Cardinality(Counting) + 1
      /\ Cardinality(Waiting) \in Nat /\ Cardinality(Counting) \in Nat
  BY <1>4, <1>5, <1>6, FS_AddElement, FS_RemoveElement, FS_CardinalityType
<1>9. /\ begun'[1] = iops' + Cardinality(Waiting')
      /\ iops' = answered'[1] + Cardinality(Counting')
  BY <1>1, <1>4, <1>8
<1>10. CountsOK'
  BY <1>1, <1>4, <1>7, <1>8, <1>9 DEF CountsOK
<1>11. HealthOK(c)'
  BY <1>3 DEF HealthOK, Answered
<1>12. ASSUME NEW x \in Calls \ {c} PROVE HealthOK(x)'
  <2>1. /\ calls'[x] = calls[x] /\ answered[1] <= answered'[1]
        /\ answered[2] <= answered'[2] /\ begun[1] <= begun'[1]
    BY <1>1, <1>3, <1>4 DEF Others
  <2>2. QED
    BY <2>1, HealthStays
<1>13. QED
  BY <1>1, <1>10, <1>11, <1>12 DEF HInv

LEMMA ObserveBytesHInv ==
    ASSUME TInv, TInv', HInv, NEW c \in Calls, ObserveBytes(c) PROVE HInv'
<1> DEFINE r == calls[c].req
<1>1. /\ up /\ UNCHANGED <<up, iops, begun>> /\ bytes' = bytes + Len(r.data)
      /\ answered' = Plus(answered, Sizes(r)) /\ calls[c].pc = "observeBytes"
      /\ calls' = [calls EXCEPT ![c].pc = "done"]
  BY DEF ObserveBytes, At, BytesOf
<1>2. "done" \in Steps
  BY DEF Steps
<1>3. Others(c) /\ Keeps(c) /\ calls'[c].pc = "done"
  BY <1>1, <1>2, MoveEffect
<1>4. /\ IsFiniteSet(Waiting) /\ IsFiniteSet(Counting) /\ IsFiniteSet(Owed)
      /\ begun[1] = iops + Cardinality(Waiting)
      /\ iops = answered[1] + Cardinality(Counting)
      /\ begun[2] = bytes + Cardinality(Owed) /\ bytes = answered[2]
      /\ begun \in Nat \X Nat /\ answered \in Nat \X Nat /\ iops \in Nat /\ bytes \in Nat
  BY DEF HInv, CountsOK, TInv
<1>5. r \in RequestRecord /\ r.op \in {"write", "read", "delete"}
  BY <1>1 DEF TInv, CallRecord, CallOK
<1>6. /\ Len(r.data) \in Nat
      /\ answered'[1] = answered[1] + 1 /\ answered'[2] = answered[2] + Len(r.data)
  BY <1>1, <1>4, <1>5, PlusTypes
<1>7. Waiting' = Waiting
  BY <1>1, <1>3 DEF Waiting, Others
<1>8. Counting' = Counting \ {c} /\ c \in Counting
  BY <1>1, <1>3 DEF Counting, Others
<1> DEFINE mine == {c} \X (1..Len(r.data))
<1>9. Owed' = Owed \ mine /\ mine \subseteq Owed
  <2>1. \A x \in (Waiting \cup Counting) \X Nat : calls'[x[1]].req = calls[x[1]].req
    BY <1>3 DEF Others, Keeps, Waiting, Counting
  <2>2. Waiting' \cup Counting' = (Waiting \cup Counting) \ {c}
    BY <1>1, <1>7, <1>8 DEF Waiting
  <2>3. Owed' = {x \in ((Waiting \cup Counting) \ {c}) \X Nat :
                    x[2] \in 1..Len(calls'[x[1]].req.data)}
    BY <2>2 DEF Owed
  <2>4. mine \subseteq Owed
    <3>1. ASSUME NEW i \in 1..Len(r.data)
          PROVE  <<c, i>> \in (Waiting \cup Counting) \X Nat
      BY <1>6, <1>8
    <3>2. \A i \in 1..Len(r.data) : <<c, i>> \in Owed
      BY <3>1 DEF Owed
    <3>3. QED
      BY <3>2
  <2>5. ASSUME NEW x \in Owed, x \notin mine PROVE x \in Owed'
    BY <2>1, <2>3, <2>5 DEF Owed
  <2>6. ASSUME NEW x \in Owed' PROVE x \in Owed /\ x \notin mine
    BY <2>1, <2>3, <2>6 DEF Owed
  <2>7. QED
    BY <2>4, <2>5, <2>6
<1>10. IsFiniteSet(mine) /\ Cardinality(mine) = Len(r.data)
  BY <1>5, BytesOfCall
<1> HIDE DEF mine
<1>11. /\ IsFiniteSet(Owed') /\ Cardinality(Owed') = Cardinality(Owed) - Len(r.data)
  <2>1. Owed \cap mine = mine
    BY <1>9
  <2>2. QED
    <3>1. /\ IsFiniteSet(Owed \ mine)
          /\ Cardinality(Owed \ mine) = Cardinality(Owed) - Cardinality(Owed \cap mine)
      BY <1>4, FS_Difference
    <3>2. QED
      BY <1>9, <1>10, <2>1, <3>1
<1>12. /\ IsFiniteSet(Counting') /\ Cardinality(Counting') = Cardinality(Counting) - 1
       /\ Cardinality(Counting) \in Nat /\ Cardinality(Owed) \in Nat
  BY <1>4, <1>8, FS_RemoveElement, FS_CardinalityType
<1>13. /\ iops' = answered'[1] + Cardinality(Counting')
       /\ begun'[2] = bytes' + Cardinality(Owed') /\ bytes' = answered'[2]
  <2> HIDE DEF r
  <2>1. iops' = answered'[1] + Cardinality(Counting')
    BY <1>1, <1>4, <1>6, <1>12
  <2>2. /\ bytes' = answered'[2] /\ begun'[2] = begun[2]
        /\ bytes' = bytes + Len(r.data)
    BY <1>1, <1>4, <1>6
  <2>a. begun'[2] = bytes' + Cardinality(Owed')
    BY <1>4, <1>6, <1>11, <1>12, <2>2
  <2>3. QED
    BY <2>1, <2>2, <2>a
<1>14. CountsOK'
  BY <1>1, <1>4, <1>7, <1>11, <1>12, <1>13 DEF CountsOK
<1>15. HealthOK(c)'
  BY <1>3, <1>5 DEF HealthOK, Answered, Keeps
<1>16. ASSUME NEW x \in Calls \ {c} PROVE HealthOK(x)'
  <2>1. calls'[x] = calls[x]
    BY <1>3 DEF Others
  <2>2. /\ answered[1] \in Nat /\ answered[2] \in Nat /\ begun[1] \in Nat
        /\ begun' = begun
    BY <1>1, <1>4
  <2>a. /\ answered[1] <= answered'[1] /\ answered[2] <= answered'[2]
        /\ begun[1] <= begun'[1]
    BY <1>6, <2>2
  <2>3. QED
    BY <2>1, <2>a, HealthStays
<1>17. QED
  BY <1>1, <1>14, <1>15, <1>16 DEF HInv

LEMMA LoadHInv ==
    ASSUME TInv, TInv', HInv, NEW c \in Calls, LoadIops(c) \/ LoadBytes(c) PROVE HInv'
<1>1. up /\ UNCHANGED <<up, iops, bytes, begun, answered>>
  BY DEF LoadIops, LoadBytes, At, counters
<1>2. /\ Others(c) /\ Keeps(c)
      /\ LoadIops(c) => /\ calls[c].pc = "loadIops" /\ calls'[c].pc = "loadBytes"
                        /\ calls'[c].answer.iops = iops
      /\ LoadBytes(c) => /\ calls[c].pc = "loadBytes" /\ calls'[c].pc = "done"
                         /\ calls'[c].answer.iops = calls[c].answer.iops
                         /\ calls'[c].answer.bytes = bytes /\ calls'[c].high = begun
  BY LoadEffect
<1>3. Waiting' = Waiting /\ Counting' = Counting /\ Owed' = Owed
  BY <1>2, SetsStay DEF Keeps, WaitingSteps
<1>4. CountsOK'
  BY <1>1, <1>3 DEF HInv, CountsOK
<1>5. /\ answered[1] <= iops /\ iops <= begun[1]
      /\ answered[2] = bytes /\ bytes <= begun[2]
      /\ begun[1] \in Nat /\ begun[2] \in Nat
      /\ answered[1] \in Nat /\ answered[2] \in Nat /\ iops \in Nat
  <2>1. /\ Cardinality(Waiting) \in Nat /\ Cardinality(Counting) \in Nat
        /\ Cardinality(Owed) \in Nat
    BY FS_CardinalityType DEF HInv, CountsOK
  <2>2. /\ begun[1] \in Nat /\ begun[2] \in Nat /\ answered[1] \in Nat
        /\ answered[2] \in Nat /\ iops \in Nat /\ bytes \in Nat
    BY DEF TInv
  <2>3. QED
    BY <2>1, <2>2 DEF HInv, CountsOK
<1>6. /\ calls[c].low[1] \in Nat /\ calls[c].low[2] \in Nat
      /\ calls'[c].low = calls[c].low /\ HealthOK(c)
  BY <1>2 DEF TInv, CallRecord, Keeps, HInv
<1>7. HealthOK(c)'
  <2>1. CASE LoadIops(c)
    <3>1. /\ calls'[c].low[1] <= answered'[1] /\ calls'[c].low[2] <= answered'[2]
          /\ calls'[c].low[1] <= calls'[c].answer.iops
          /\ calls'[c].answer.iops <= begun'[1] /\ calls'[c].pc = "loadBytes"
      BY <1>1, <1>2, <1>5, <1>6, <2>1 DEF HealthOK
    <3>2. QED
      BY <3>1 DEF HealthOK, Answered
  <2>2. CASE LoadBytes(c)
    <3>1. /\ calls'[c].low[1] <= calls'[c].answer.iops
          /\ calls'[c].answer.iops <= calls'[c].high[1]
          /\ calls'[c].low[2] <= calls'[c].answer.bytes
          /\ calls'[c].answer.bytes <= calls'[c].high[2]
          /\ calls'[c].pc = "done"
      BY <1>1, <1>2, <1>5, <1>6, <2>2 DEF HealthOK
    <3>2. QED
      BY <3>1 DEF HealthOK, Answered
  <2>3. QED
    BY <2>1, <2>2
<1>8. ASSUME NEW x \in Calls \ {c} PROVE HealthOK(x)'
  <2>1. calls'[x] = calls[x]
    BY <1>2 DEF Others
  <2>2. /\ answered[1] <= answered'[1] /\ answered[2] <= answered'[2]
        /\ begun[1] <= begun'[1]
    BY <1>1, <1>5
  <2>3. QED
    BY <2>1, <2>2, HealthStays
<1>9. QED
  BY <1>1, <1>4, <1>7, <1>8 DEF HInv

LEMMA CrashHInv == ASSUME TInv, HInv, Crash PROVE HInv'
<1>1. /\ ~up' /\ iops' = 0 /\ bytes' = 0 /\ begun' = <<0, 0>> /\ answered' = <<0, 0>>
  BY DEF Crash
<1>2. \A c \in Calls :
          /\ Keeps(c) /\ calls'[c].answer = calls[c].answer /\ calls'[c].high = calls[c].high
          /\ calls'[c].pc = IF InFlight(c) THEN "dead" ELSE calls[c].pc
  BY CrashEffect
<1>3. \A c \in Calls : calls'[c].pc \in {"idle", "done", "dead"}
  BY <1>2 DEF InFlight
<1>4. Waiting' = {} /\ Counting' = {}
  BY <1>3 DEF Waiting, Counting
<1>5. Owed' = {}
  BY <1>4 DEF Owed
<1>6. CountsOK'
  BY <1>1, <1>4, <1>5, FS_EmptySet DEF CountsOK
<1>7. ASSUME NEW c \in Calls PROVE HealthOK(c)' /\ ~InFlight(c)'
  <2>1. ~InFlight(c)' /\ calls'[c].pc \notin {"loadIops", "loadBytes"}
    BY <1>3 DEF InFlight
  <2>2. Answered(c, "health")' => Answered(c, "health")
    BY <1>2 DEF Answered, Keeps
  <2>3. /\ calls'[c].answer = calls[c].answer /\ calls'[c].high = calls[c].high
        /\ calls'[c].low = calls[c].low /\ HealthOK(c)
    BY <1>2 DEF Keeps, HInv
  <2>4. QED
    BY <2>1, <2>2, <2>3 DEF HealthOK
<1>8. QED
  BY <1>6, <1>7 DEF HInv

LEMMA StepHInv == ASSUME TInv, TInv', HInv, NEW c \in Calls, Step(c) PROVE HInv'
<1>1. CASE \E r \in Requests : Begin(c, r)
  BY <1>1, BeginHInv
<1>2. CASE ObserveOp(c)
  BY <1>2, ObserveOpHInv
<1>3. CASE ObserveBytes(c)
  BY <1>3, ObserveBytesHInv
<1>4. CASE LoadIops(c) \/ LoadBytes(c)
  BY <1>4, LoadHInv
<1>5. CASE Work(c)
  <2>1. up /\ UNCHANGED <<up, iops, bytes, begun, answered>>
    BY <1>5 DEF Work, OpenForWrite, WriteData, WriteShort, OpenForRead, ReadSome,
                ReadEnd, Remove, Fail, At, counters
  <2>2. calls[c].pc \in WaitingSteps
    BY <1>5 DEF Work, OpenForWrite, WriteData, WriteShort, OpenForRead, ReadSome,
                ReadEnd, Remove, Fail, At, WaitingSteps
  <2>3. Others(c) /\ Keeps(c) /\ calls'[c].pc \in WaitingSteps
    BY <1>5, WorkEffect
  <2>4. QED
    BY <2>1, <2>2, <2>3, QuietHInv
<1>6. QED
  BY <1>1, <1>2, <1>3, <1>4, <1>5 DEF Step, Work

LEMMA NextHInv == TInv /\ TInv' /\ HInv /\ [Next]_vars => HInv'
<1> SUFFICES ASSUME TInv, TInv', HInv, [Next]_vars PROVE HInv'
  OBVIOUS
<1>1. CASE Crash
  BY <1>1, CrashHInv
<1>2. CASE Start
  <2>1. UNCHANGED <<calls, iops, bytes, begun, answered>> /\ up'
    BY <1>2 DEF Start, counters
  <2>2. QED
    BY <2>1 DEF HInv, CountsOK, HealthOK, InFlight, Answered, Waiting, Counting, Owed
<1>3. CASE \E c \in Calls : Step(c)
  BY <1>3, StepHInv
<1>4. CASE UNCHANGED vars
  BY <1>4 DEF vars, counters, HInv, CountsOK, HealthOK, InFlight, Answered, Waiting,
              Counting, Owed
<1>5. QED
  BY <1>1, <1>2, <1>3, <1>4 DEF Next

\* What GetHealth reports lies between what was answered before it was asked
\* and what had begun when it answered (service.go:163-181), for any number of
\* calls that count at the same time.
THEOREM HealthIsTruthful == Spec => []HealthTruthful
<1>1. HInv => HealthTruthful
  BY DEF HInv, HealthOK, HealthTruthful
<1>2. QED
  BY <1>1, InitHInv, NextHInv, Typing, PTL DEF Spec

-----------------------------------------------------------------------------
(* Racing reads.                                                           *)

\* A write of the block with key k gave the byte v its place i.
Wrote(k, i, v) ==
    \E w \in Calls : /\ calls[w].req.op = "write" /\ calls[w].req.block # NoBlock
                     /\ Key(calls[w].req.block) = k
                     /\ i <= Len(calls[w].req.data) /\ calls[w].req.data[i] = v

FromWrites(d, k) == \A i \in 1..Len(d) : Wrote(k, i, d[i])

\* A file object is of one block: its name, the descriptors open on it and its
\* bytes are all of that block.
IsOf(f, k) == /\ \A p \in DOMAIN dir : dir[p] = f => p = k
              /\ \A c \in Calls : calls[c].pc \in {"writing", "reading"} /\ calls[c].file = f
                                  => Key(calls[c].req.block) = k
              /\ FromWrites(objects[f], k)

ReaderOK(c) ==
    /\ calls[c].pc = "read" => calls[c].buf = <<>>
    /\ calls[c].pc = "reading" => FromWrites(calls[c].buf, Key(calls[c].req.block))
    /\ calls[c].req.op = "read" =>
           /\ calls[c].req.block = NoBlock => calls[c].answer.data = <<>>
           /\ \A i \in 1..Len(calls[c].answer.data) :
                  Wrote(Key(calls[c].req.block), calls[c].req.offset + i,
                        calls[c].answer.data[i])

PlaceInv == /\ \A f \in 1..Len(objects) : \E k \in Keys : IsOf(f, k)
            /\ \A c \in Calls : ReaderOK(c)

LEMMA InitPlaceInv == Init => PlaceInv
<1> SUFFICES ASSUME Init PROVE PlaceInv
  OBVIOUS
<1>1. Len(objects) = 0
  BY EmptySeq DEF Init
<1>2. ASSUME NEW c \in Calls PROVE ReaderOK(c)
  BY <1>2 DEF Init, Idle, NoRequest, Request, ReaderOK
<1>3. QED
  BY <1>1, <1>2 DEF PlaceInv

\* A call that has begun is about the same request ever after.
LEMMA RequestsStay ==
    ASSUME TInv, [Next]_vars, NEW w \in Calls, calls[w].pc # "idle"
    PROVE  calls'[w].req = calls[w].req
<1>1. CASE Crash
  BY <1>1, CrashEffect DEF Keeps
<1>2. CASE Start \/ UNCHANGED vars
  BY <1>2 DEF Start, vars
<1>3. ASSUME NEW c \in Calls, Step(c) PROVE calls'[w].req = calls[w].req
  <2>1. CASE w = c
    <3>1. CASE \E r \in Requests : Begin(c, r)
      BY <2>1, <3>1 DEF Begin
    <3>2. CASE Work(c)
      BY <2>1, <3>2, WorkEffect DEF Keeps
    <3>3. CASE Count(c)
      BY <2>1, <3>3, CountEffect DEF Keeps
    <3>4. QED
      BY <1>3, <3>1, <3>2, <3>3 DEF Step, Work, Count
  <2>2. CASE w # c
    <3>1. CASE \E r \in Requests : Begin(c, r)
      BY <2>2, <3>1, BeginOthers
    <3>2. CASE Work(c)
      BY <2>2, <3>2, WorkEffect DEF Others
    <3>3. CASE Count(c)
      BY <2>2, <3>3, CountEffect DEF Others
    <3>4. QED
      BY <1>3, <3>1, <3>2, <3>3 DEF Step, Work, Count
  <2>3. QED
    BY <2>1, <2>2
<1>4. QED
  BY <1>1, <1>2, <1>3 DEF Next

LEMMA WroteStays ==
    ASSUME TInv, [Next]_vars, NEW k, NEW i, NEW v, Wrote(k, i, v)
    PROVE  Wrote(k, i, v)'
<1>1. PICK w \in Calls : /\ calls[w].req.op = "write" /\ calls[w].req.block # NoBlock
                         /\ Key(calls[w].req.block) = k
                         /\ i <= Len(calls[w].req.data) /\ calls[w].req.data[i] = v
  BY DEF Wrote
<1>2. calls[w].pc # "idle"
  BY <1>1 DEF TInv, CallOK
<1>3. calls'[w].req = calls[w].req
  BY <1>2, RequestsStay
<1>4. QED
  BY <1>1, <1>3 DEF Wrote

\* An object whose bytes no step touches, and that gets no name and no
\* descriptor but of its own block, stays of that block.
LEMMA ObjectStays ==
    ASSUME TInv, [Next]_vars, NEW f, NEW k, IsOf(f, k), objects'[f] = objects[f],
           \A p \in DOMAIN dir' : dir'[p] = f => p = k \/ (p \in DOMAIN dir /\ dir[p] = f),
           \A x \in Calls : calls'[x].pc \in {"writing", "reading"} /\ calls'[x].file = f =>
               \/ Key(calls'[x].req.block) = k
               \/ calls[x].pc \in {"writing", "reading"} /\ calls[x].file = f
    PROVE  IsOf(f, k)'
<1>1. \A p \in DOMAIN dir' : dir'[p] = f => p = k
  BY DEF IsOf
<1>2. ASSUME NEW x \in Calls, calls'[x].pc \in {"writing", "reading"}, calls'[x].file = f
      PROVE  Key(calls'[x].req.block) = k
  <2>1. CASE calls[x].pc \in {"writing", "reading"} /\ calls[x].file = f
    <3>1. calls'[x].req = calls[x].req
      BY <2>1, RequestsStay
    <3>2. QED
      BY <2>1, <3>1 DEF IsOf
  <2>2. QED
    BY <1>2, <2>1
<1>3. FromWrites(objects[f], k)'
  BY WroteStays DEF IsOf, FromWrites
<1>4. QED
  BY <1>1, <1>2, <1>3 DEF IsOf

\* A call whose own state a step leaves alone.
LEMMA ReaderStays ==
    ASSUME TInv, [Next]_vars, NEW x \in Calls, ReaderOK(x),
           calls'[x].pc = calls[x].pc \/ calls'[x].pc \notin {"read", "reading"},
           calls'[x].req = calls[x].req,
           calls'[x].buf = calls[x].buf \/ calls'[x].pc \notin {"read", "reading"},
           calls'[x].answer.data = calls[x].answer.data
    PROVE  ReaderOK(x)'
BY WroteStays DEF ReaderOK, FromWrites

\* The file work on which every step but those that open, write or end is.
LEMMA PlaceStays ==
    ASSUME TInv, [Next]_vars, PlaceInv, UNCHANGED objects,
           \A p \in DOMAIN dir' : p \in DOMAIN dir /\ dir'[p] = dir[p],
           \A x \in Calls : calls'[x].pc \in {"writing", "reading"} =>
               calls[x].pc \in {"writing", "reading"} /\ calls'[x].file = calls[x].file
    PROVE  \A f \in 1..Len(objects') : \E k \in Keys : IsOf(f, k)'
<1> TAKE f \in 1..Len(objects')
<1>1. PICK k \in Keys : IsOf(f, k)
  BY DEF PlaceInv
<1>2. IsOf(f, k)'
  BY <1>1, ObjectStays
<1>3. QED
  BY <1>2

\* The block of a call at work on a file is that of the file.
LEMMA FileIsOfCall ==
    ASSUME TInv, PlaceInv, NEW c \in Calls, calls[c].pc \in {"writing", "reading"}
    PROVE  /\ calls[c].file \in 1..Len(objects)
           /\ Key(calls[c].req.block) \in Keys
           /\ IsOf(calls[c].file, Key(calls[c].req.block))
<1>1. CallOK(c) /\ Len(objects) \in Nat
  BY LenProperties DEF TInv, FilesOK
<1>2. /\ calls[c].file \in 1..Len(objects) /\ Key(calls[c].req.block) \in Keys
  BY <1>1 DEF CallOK, Keys
<1>3. PICK k \in Keys : IsOf(calls[c].file, k)
  BY <1>2 DEF PlaceInv
<1>4. Key(calls[c].req.block) = k
  BY <1>3 DEF IsOf
<1>5. QED
  BY <1>2, <1>3, <1>4

LEMMA FileIsOfName ==
    ASSUME TInv, PlaceInv, NEW p \in DOMAIN dir
    PROVE  p \in Keys /\ dir[p] \in 1..Len(objects) /\ IsOf(dir[p], p)
<1>1. p \in Keys /\ dir[p] \in 1..Len(objects)
  BY DEF TInv, FilesOK
<1>2. PICK k \in Keys : IsOf(dir[p], k)
  BY <1>1 DEF PlaceInv
<1>3. p = k
  BY <1>2 DEF IsOf
<1>4. QED
  BY <1>1, <1>2, <1>3

LEMMA BeginPlaceInv ==
    ASSUME TInv, [Next]_vars, PlaceInv, NEW c \in Calls, NEW r \in Requests, Begin(c, r)
    PROVE  PlaceInv'
<1>1. UNCHANGED <<dir, objects>>
  BY DEF Begin, files
<1>2. /\ calls'[c].pc = FirstStep(r) /\ calls'[c].buf = <<>> /\ calls'[c].answer.data = <<>>
      /\ FirstStep(r) \in {"loadIops", "observe", "write", "read", "delete"}
  BY BeginEffect
<1>3. \A x \in Calls \ {c} :
          /\ calls'[x].pc = calls[x].pc /\ calls'[x].req = calls[x].req
          /\ calls'[x].file = calls[x].file /\ calls'[x].buf = calls[x].buf
          /\ calls'[x].answer = calls[x].answer
  BY BeginOthers
<1>4. \A f \in 1..Len(objects') : \E k \in Keys : IsOf(f, k)'
  BY <1>1, <1>2, <1>3, PlaceStays
<1>5. ReaderOK(c)'
  BY <1>2, EmptyIsData DEF ReaderOK
<1>6. \A x \in Calls \ {c} : ReaderOK(x)'
  BY <1>3, ReaderStays DEF PlaceInv
<1>7. QED
  BY <1>4, <1>5, <1>6 DEF PlaceInv

LEMMA CountPlaceInv ==
    ASSUME TInv, [Next]_vars, PlaceInv, NEW c \in Calls, Count(c)
    PROVE  PlaceInv'
<1>1. /\ Others(c) /\ Keeps(c) /\ UNCHANGED <<dir, objects>>
      /\ calls'[c].answer.data = calls[c].answer.data
      /\ calls'[c].pc \in {"observeBytes", "loadBytes", "done"}
  BY CountEffect
<1>2. \A f \in 1..Len(objects') : \E k \in Keys : IsOf(f, k)'
  BY <1>1, PlaceStays DEF Others
<1>3. \A x \in Calls : ReaderOK(x)'
  BY <1>1, ReaderStays DEF PlaceInv, Others, Keeps
<1>4. QED
  BY <1>2, <1>3 DEF PlaceInv

\* The end of a call's file work, with an answer of no data or the data of a read.
LEMMA FinishReader ==
    ASSUME TInv, [Next]_vars, PlaceInv, NEW c \in Calls, NEW code \in Codes,
           Finish(c, code, <<>>)
    PROVE  /\ \A x \in Calls : ReaderOK(x)'
           /\ \A x \in Calls : calls'[x].pc \in {"writing", "reading"} =>
                  calls[x].pc \in {"writing", "reading"} /\ calls'[x].file = calls[x].file
<1>1. /\ Others(c) /\ Keeps(c) /\ calls'[c].pc = "observe"
      /\ calls'[c].answer.data = <<>>
  BY EmptyIsData, FinishEffect
<1>2. ReaderOK(c)'
  BY <1>1, EmptyIsData DEF ReaderOK
<1>3. \A x \in Calls \ {c} : ReaderOK(x)'
  BY <1>1, ReaderStays DEF PlaceInv, Others
<1>4. QED
  BY <1>1, <1>2, <1>3 DEF Others

LEMMA OpenForWritePlaceInv ==
    ASSUME TInv, [Next]_vars, PlaceInv, NEW c \in Calls, OpenForWrite(c)
    PROVE  PlaceInv'
<1>0. PICK p, g : p = BlockPath(calls[c].req.block) /\ g = calls'[c].file
  OBVIOUS
<1>1. /\ Others(c) /\ Keeps(c) /\ calls'[c].pc = "writing"
      /\ calls'[c].answer = calls[c].answer
      /\ Len(objects) <= Len(objects') /\ g \in 1..Len(objects') /\ objects'[g] = <<>>
      /\ \A f \in 1..Len(objects) : f # g => objects'[f] = objects[f]
      /\ p \in DOMAIN dir' /\ dir'[p] = g /\ DOMAIN dir' = DOMAIN dir \cup {p}
      /\ \A q \in DOMAIN dir : q # p => dir'[q] = dir[q]
      /\ \/ p \in DOMAIN dir /\ g = dir[p] /\ Len(objects') = Len(objects)
         \/ p \notin DOMAIN dir /\ g = Len(objects) + 1 /\ Len(objects') = g
  BY <1>0, OpenForWriteEffect
<1>2. /\ p = Key(calls[c].req.block) /\ p \in Keys /\ Len(objects) \in Nat
      /\ calls'[c].req = calls[c].req
  BY <1>0, <1>1, LenProperties
     DEF OpenForWrite, At, TInv, FilesOK, CallOK, Keys, Key, BlockPath, Keeps
<1>3. IsOf(g, p)'
  <2>1. ASSUME NEW q \in DOMAIN dir', dir'[q] = g PROVE q = p
    <3>1. ASSUME q # p PROVE FALSE
      <4>1. q \in DOMAIN dir /\ dir[q] = g
        BY <1>1, <2>1, <3>1
      <4>2. dir[q] \in 1..Len(objects) /\ IsOf(dir[q], q)
        BY <4>1, FileIsOfName
      <4>3. p \in DOMAIN dir /\ g = dir[p]
        BY <1>1, <1>2, <4>1, <4>2
      <4>4. QED
        BY <3>1, <4>1, <4>2, <4>3 DEF IsOf
    <3>2. QED
      BY <3>1
  <2>2. ASSUME NEW x \in Calls, calls'[x].pc \in {"writing", "reading"}, calls'[x].file = g
        PROVE  Key(calls'[x].req.block) = p
    <3>1. CASE x = c
      BY <1>2, <3>1
    <3>2. CASE x # c
      <4>1. calls'[x] = calls[x]
        BY <1>1, <3>2 DEF Others
      <4>2. /\ calls[x].file \in 1..Len(objects)
            /\ IsOf(calls[x].file, Key(calls[x].req.block))
        BY <2>2, <4>1, FileIsOfCall
      <4>3. p \in DOMAIN dir /\ dir[p] = g
        BY <1>1, <1>2, <2>2, <4>1, <4>2
      <4>4. QED
        BY <2>2, <4>1, <4>2, <4>3 DEF IsOf
    <3>3. QED
      BY <3>1, <3>2
  <2>3. FromWrites(objects[g], p)'
    BY <1>1, EmptyIsData DEF FromWrites
  <2>4. QED
    BY <2>1, <2>2, <2>3 DEF IsOf
<1>4. ASSUME NEW f \in 1..Len(objects'), f # g PROVE \E k \in Keys : IsOf(f, k)'
  <2>1. f \in 1..Len(objects) /\ objects'[f] = objects[f]
    BY <1>1, <1>2, <1>4
  <2>2. PICK k \in Keys : IsOf(f, k)
    BY <2>1 DEF PlaceInv
  <2>3. \A q \in DOMAIN dir' : dir'[q] = f => q \in DOMAIN dir /\ dir[q] = f
    BY <1>1, <1>4
  <2>4. \A x \in Calls : calls'[x].pc \in {"writing", "reading"} /\ calls'[x].file = f =>
                         calls[x].pc \in {"writing", "reading"} /\ calls[x].file = f
    BY <1>0, <1>1, <1>4 DEF Others
  <2>5. IsOf(f, k)'
    BY <2>1, <2>2, <2>3, <2>4, ObjectStays
  <2>6. QED
    BY <2>5
<1>5. \A x \in Calls : ReaderOK(x)'
  BY <1>1, ReaderStays DEF PlaceInv, Others, Keeps
<1>6. QED
  BY <1>2, <1>3, <1>4, <1>5 DEF PlaceInv

LEMMA WritePlaceInv ==
    ASSUME TInv, [Next]_vars, PlaceInv, NEW c \in Calls, WriteData(c) \/ WriteShort(c)
    PROVE  PlaceInv'
<1>0. PICK g, d, k : /\ g = calls[c].file /\ d = calls[c].req.data
                     /\ k = Key(calls[c].req.block)
  OBVIOUS
<1>1. /\ calls[c].pc = "writing" /\ UNCHANGED dir /\ Len(objects') = Len(objects)
      /\ \A f \in 1..Len(objects) : f # g => objects'[f] = objects[f]
  BY <1>0, WriteEffect
<1>2. PICK code \in {"OK", "Internal"}, n \in 0..Len(d) :
          Finish(c, code, <<>>) /\ objects'[g] = Overlay(objects[g], SubSeq(d, 1, n))
  <2>1. \E code \in {"OK", "Internal"}, n \in 0..Len(d) :
            Finish(c, code, <<>>) /\ objects'[g] = Overlay(objects[g], SubSeq(d, 1, n))
    <3>1. \E code \in {"OK", "Internal"}, n \in 0..Len(calls[c].req.data) :
              /\ Finish(c, code, <<>>) /\ (code = "OK" => n = Len(calls[c].req.data))
              /\ objects'[calls[c].file] =
                     Overlay(objects[calls[c].file], SubSeq(calls[c].req.data, 1, n))
      BY WriteEffect
    <3>2. PICK code \in {"OK", "Internal"}, n \in 0..Len(calls[c].req.data) :
              /\ Finish(c, code, <<>>)
              /\ objects'[calls[c].file] =
                     Overlay(objects[calls[c].file], SubSeq(calls[c].req.data, 1, n))
      BY <3>1
    <3>3. n \in 0..Len(d) /\ objects'[g] = Overlay(objects[g], SubSeq(d, 1, n))
      BY <1>0, <3>2
    <3>4. QED
      BY <3>2, <3>3
  <2>2. QED
    BY <2>1
<1>3. /\ \A x \in Calls : ReaderOK(x)'
      /\ \A x \in Calls : calls'[x].pc \in {"writing", "reading"} =>
             calls[x].pc \in {"writing", "reading"} /\ calls'[x].file = calls[x].file
  <2>1. code \in Codes
    BY DEF Codes
  <2>2. QED
    BY <1>2, <2>1, FinishReader
<1>4. /\ g \in 1..Len(objects) /\ k \in Keys /\ IsOf(g, k)
  BY <1>0, <1>1, FileIsOfCall
<1>5. /\ d \in Data /\ Len(d) \in Nat /\ objects[g] \in Data
      /\ calls[c].req.op = "write" /\ calls[c].req.block # NoBlock
  <2>1. calls[c] \in CallRecord /\ CallOK(c) /\ objects \in Seq(Data)
    BY DEF TInv, FilesOK
  <2>2. d \in Data /\ calls[c].req.op = "write" /\ calls[c].req.block # NoBlock
    BY <1>0, <1>1, <2>1, NoBlockAssumption DEF CallOK, CallRecord, RequestRecord, Blocks
  <2>3. QED
    BY <1>4, <2>1, <2>2, ElementOfSeq, LenProperties DEF Data
<1>6. ASSUME NEW f \in 1..Len(objects), f # g PROVE \E q \in Keys : IsOf(f, q)'
  <2>1. PICK q \in Keys : IsOf(f, q)
    BY DEF PlaceInv
  <2>2. IsOf(f, q)'
    BY <1>1, <1>3, <1>6, <2>1, ObjectStays
  <2>3. QED
    BY <2>2
<1>7. IsOf(g, k)'
  <2>1. \A p \in DOMAIN dir' : dir'[p] = g => p = k
    BY <1>1, <1>4 DEF IsOf
  <2>2. ASSUME NEW x \in Calls, calls'[x].pc \in {"writing", "reading"}, calls'[x].file = g
        PROVE  Key(calls'[x].req.block) = k
    <3>1. calls[x].pc \in {"writing", "reading"} /\ calls[x].file = g
      BY <1>3, <2>2
    <3>2. calls'[x].req = calls[x].req
      BY <3>1, RequestsStay
    <3>3. QED
      BY <1>4, <3>1, <3>2 DEF IsOf
  <2>3. ASSUME NEW i \in 1..Len(objects'[g]) PROVE Wrote(k, i, objects[g][i])'
    <3> DEFINE part == SubSeq(d, 1, n)
               new == Overlay(objects[g], part)
    <3>1. /\ part \in Data /\ Len(part) = n /\ n \in Nat /\ n <= Len(d)
          /\ \A j \in 1..n : part[j] = d[j]
      <4>1. /\ part \in Data /\ Len(part) = IF 1 <= n THEN n - 1 + 1 ELSE 0
            /\ \A j \in 1..Len(part) : part[j] = d[1 + j - 1]
        BY <1>5, PartOfData
      <4>2. \A j \in 1..n : 1 + j - 1 = j
        BY <1>5
      <4>3. n \in Nat /\ n <= Len(d)
        BY <1>5
      <4> HIDE DEF part
      <4>4. Len(part) = n
        BY <4>1, <4>3
      <4>5. QED
        BY <4>1, <4>2, <4>3, <4>4
    <3> HIDE DEF part
    <3>2. /\ Len(new) = IF n <= Len(objects[g]) THEN Len(objects[g]) ELSE n
          /\ \A j \in 1..Len(new) : new[j] = IF j <= n THEN part[j] ELSE objects[g][j]
      BY <1>5, <3>1, OverlayProperties
    <3>3. objects'[g] = new
      BY <1>2 DEF part
    <3> HIDE DEF new
    <3>4. CASE i <= n
      <4>1. objects'[g][i] = d[i] /\ i <= Len(d) /\ i \in Nat
        BY <1>5, <3>1, <3>2, <3>3, <3>4
      <4>2. Wrote(k, i, d[i])
        BY <1>0, <1>5, <4>1 DEF Wrote
      <4>3. Wrote(k, i, d[i])'
        BY <4>2, WroteStays
      <4>4. QED
        BY <4>1, <4>3
    <3>5. CASE i > n
      <4>1. objects'[g][i] = objects[g][i] /\ i \in 1..Len(objects[g])
        BY <3>1, <3>2, <3>3, <3>5
      <4>2. PICK v : v = objects[g][i]
        OBVIOUS
      <4>3. Wrote(k, i, v)
        BY <1>4, <4>1, <4>2 DEF IsOf, FromWrites
      <4>4. Wrote(k, i, v)'
        BY <4>3, WroteStays
      <4>5. QED
        BY <4>1, <4>2, <4>4
    <3>6. QED
      BY <3>1, <3>4, <3>5
  <2>4. FromWrites(objects[g], k)'
    BY <2>3 DEF FromWrites
  <2>5. QED
    BY <2>1, <2>2, <2>4 DEF IsOf
<1>8. QED
  BY <1>1, <1>3, <1>4, <1>6, <1>7 DEF PlaceInv

LEMMA OpenForReadPlaceInv ==
    ASSUME TInv, [Next]_vars, PlaceInv, NEW c \in Calls, OpenForRead(c)
    PROVE  PlaceInv'
<1>0. PICK p : p = BlockPath(calls[c].req.block)
  OBVIOUS
<1>1. UNCHANGED <<dir, objects>>
  BY DEF OpenForRead, files
<1>2. CASE Finish(c, "NotFound", <<>>)
  <2>1. "NotFound" \in Codes
    BY DEF Codes
  <2>2. /\ \A x \in Calls : ReaderOK(x)'
        /\ \A x \in Calls : calls'[x].pc \in {"writing", "reading"} =>
               calls[x].pc \in {"writing", "reading"} /\ calls'[x].file = calls[x].file
    BY <1>2, <2>1, FinishReader
  <2>3. \A f \in 1..Len(objects') : \E k \in Keys : IsOf(f, k)'
    BY <1>1, <2>2, PlaceStays
  <2>4. QED
    BY <2>2, <2>3 DEF PlaceInv
<1>3. CASE ~Finish(c, "NotFound", <<>>)
  <2>1. /\ calls[c].pc = "read" /\ p \in DOMAIN dir /\ Others(c) /\ Keeps(c)
        /\ calls'[c].pc = "reading" /\ calls'[c].file = dir[p]
        /\ calls'[c].buf = calls[c].buf /\ calls'[c].answer = calls[c].answer
    BY <1>0, <1>3, OpenForReadEffect
  <2>2. p = Key(calls'[c].req.block)
    BY <1>0, <2>1 DEF Key, BlockPath, Keeps
  <2>3. ASSUME NEW f \in 1..Len(objects') PROVE \E k \in Keys : IsOf(f, k)'
    <3>1. PICK k \in Keys : IsOf(f, k)
      BY <1>1 DEF PlaceInv
    <3>2. \A x \in Calls : calls'[x].pc \in {"writing", "reading"} /\ calls'[x].file = f =>
              \/ Key(calls'[x].req.block) = k
              \/ calls[x].pc \in {"writing", "reading"} /\ calls[x].file = f
      <4>1. calls'[c].file = f => Key(calls'[c].req.block) = k
        BY <2>1, <2>2, <3>1 DEF IsOf
      <4>2. QED
        BY <2>1, <4>1 DEF Others
    <3>3. IsOf(f, k)'
      BY <1>1, <3>1, <3>2, ObjectStays
    <3>4. QED
      BY <3>3
  <2>4. ReaderOK(c)'
    <3>1. ReaderOK(c) /\ calls'[c].buf = <<>> /\ calls'[c].req = calls[c].req
      BY <2>1 DEF PlaceInv, ReaderOK, Keeps
    <3>2. QED
      BY <2>1, <3>1, EmptyIsData, WroteStays DEF ReaderOK, FromWrites
  <2>5. \A x \in Calls \ {c} : ReaderOK(x)'
    BY <2>1, ReaderStays DEF PlaceInv, Others
  <2>6. QED
    BY <2>3, <2>4, <2>5 DEF PlaceInv
<1>4. QED
  BY <1>2, <1>3

LEMMA ReadSomePlaceInv ==
    ASSUME TInv, [Next]_vars, PlaceInv, NEW c \in Calls, ReadSome(c)
    PROVE  PlaceInv'
<1>0. PICK b, o, k : /\ b = calls[c].buf /\ o = objects[calls[c].file]
                     /\ k = Key(calls[c].req.block)
  OBVIOUS
<1>1. UNCHANGED <<dir, objects>>
  BY DEF ReadSome, files
<1>2. /\ calls[c].pc = "reading" /\ calls'[c].pc = "reading" /\ Others(c) /\ Keeps(c)
      /\ calls'[c].file = calls[c].file /\ calls'[c].answer = calls[c].answer
      /\ Len(calls'[c].buf) \in (Len(b) + 1)..Len(o)
      /\ \A i \in 1..Len(calls'[c].buf) :
             calls'[c].buf[i] = IF i <= Len(b) THEN b[i] ELSE o[i]
  BY <1>0, ReadSomeEffect
<1>3. \A f \in 1..Len(objects') : \E q \in Keys : IsOf(f, q)'
  BY <1>1, <1>2, PlaceStays DEF Others
<1>4. Len(b) \in Nat /\ Len(o) \in Nat
  BY <1>0, <1>2, ReaderTypes
<1>5. FromWrites(b, k) /\ FromWrites(o, k)
  BY <1>0, <1>2, FileIsOfCall DEF PlaceInv, ReaderOK, IsOf
<1>6. ASSUME NEW i \in 1..Len(calls'[c].buf) PROVE Wrote(k, i, calls[c].buf[i])'
  <2>1. PICK v : v = calls'[c].buf[i]
    OBVIOUS
  <2>2. \/ i \in 1..Len(b) /\ v = b[i]
        \/ i \in 1..Len(o) /\ v = o[i]
    BY <1>2, <1>4, <2>1
  <2>3. Wrote(k, i, v)
    BY <1>5, <2>2 DEF FromWrites
  <2>4. Wrote(k, i, v)'
    BY <2>3, WroteStays
  <2>5. QED
    BY <2>1, <2>4
<1>7. ReaderOK(c)'
  <2>1. /\ ReaderOK(c) /\ calls'[c].req = calls[c].req /\ k = Key(calls'[c].req.block)
    BY <1>0, <1>2 DEF PlaceInv, Keeps
  <2>2. FromWrites(calls[c].buf, Key(calls[c].req.block))'
    BY <1>6, <2>1 DEF FromWrites
  <2>3. QED
    BY <1>2, <2>1, <2>2, WroteStays DEF ReaderOK
<1>8. \A x \in Calls \ {c} : ReaderOK(x)'
  BY <1>2, ReaderStays DEF PlaceInv, Others
<1>9. QED
  BY <1>3, <1>7, <1>8 DEF PlaceInv

LEMMA ReadEndPlaceInv ==
    ASSUME TInv, [Next]_vars, PlaceInv, NEW c \in Calls, ReadEnd(c)
    PROVE  PlaceInv'
<1>0. PICK b, k, offset, length, data :
          /\ b = calls[c].buf /\ k = Key(calls[c].req.block)
          /\ offset = calls[c].req.offset /\ length = calls[c].req.length
          /\ data = Slice(b, offset, length)
  OBVIOUS
<1>1. /\ UNCHANGED <<dir, objects>> /\ calls[c].pc = "reading" /\ Finish(c, "OK", data)
  <2>1. /\ UNCHANGED <<dir, objects>> /\ calls[c].pc = "reading"
        /\ Finish(c, "OK", Slice(calls[c].buf, calls[c].req.offset, calls[c].req.length))
    BY DEF ReadEnd, files, At
  <2>2. QED
    BY <1>0, <2>1
<1>2. b \in Data /\ offset \in Nat /\ length \in Nat
  BY <1>0, <1>1, ReaderTypes
<1>3. /\ data \in Data
      /\ \A i \in 1..Len(data) : offset + i <= Len(b) /\ data[i] = b[offset + i]
  <2>1. /\ Slice(b, offset, length) \in Data
        /\ \A i \in 1..Len(Slice(b, offset, length)) :
               /\ offset + i <= Len(b)
               /\ Slice(b, offset, length)[i] = b[offset + i]
    BY <1>2, SliceProperties
  <2>2. data = Slice(b, offset, length)
    BY <1>0
  <2>3. QED
    BY <2>1, <2>2
<1>4. Len(b) \in Nat /\ Len(data) \in Nat
  BY <1>2, <1>3, LenProperties DEF Data
<1>5. /\ Others(c) /\ Keeps(c) /\ calls'[c].pc = "observe"
      /\ calls'[c].answer.data = data /\ calls'[c].req = calls[c].req
  <2>1. "OK" \in Codes
    BY DEF Codes
  <2>2. QED
    BY <1>1, <1>3, <2>1, FinishEffect DEF Keeps
<1>6. \A f \in 1..Len(objects') : \E q \in Keys : IsOf(f, q)'
  BY <1>1, <1>5, PlaceStays DEF Others
<1>7. FromWrites(b, k)
  BY <1>0, <1>1 DEF PlaceInv, ReaderOK
<1>8. ASSUME NEW i \in 1..Len(data) PROVE Wrote(k, offset + i, data[i])'
  <2>1. PICK j, v : j = offset + i /\ v = data[i]
    OBVIOUS
  <2>2. j \in 1..Len(b) /\ v = b[j]
    BY <1>2, <1>3, <1>4, <2>1
  <2>3. Wrote(k, j, v)
    BY <1>7, <2>2 DEF FromWrites
  <2>4. Wrote(k, j, v)'
    BY <2>3, WroteStays
  <2>5. QED
    BY <2>1, <2>4
<1>9. ReaderOK(c)'
  <2>1. calls'[c].req.block # NoBlock
    BY <1>1, <1>5, NoBlockAssumption DEF TInv, CallOK, Blocks
  <2>2. \A i \in 1..Len(calls'[c].answer.data) :
            Wrote(Key(calls[c].req.block), calls[c].req.offset + i, calls[c].answer.data[i])'
    BY <1>0, <1>5, <1>8
  <2>3. QED
    BY <1>5, <2>1, <2>2 DEF ReaderOK
<1>10. \A x \in Calls \ {c} : ReaderOK(x)'
  BY <1>5, ReaderStays DEF PlaceInv, Others
<1>11. QED
  BY <1>6, <1>9, <1>10 DEF PlaceInv

LEMMA EndPlaceInv ==
    ASSUME TInv, [Next]_vars, PlaceInv, NEW c \in Calls, Remove(c) \/ Fail(c)
    PROVE  PlaceInv'
<1>1. /\ objects' = objects
      /\ \A p \in DOMAIN dir' : p \in DOMAIN dir /\ dir'[p] = dir[p]
  <2>1. CASE Remove(c)
    BY <2>1, RemoveEffect
  <2>2. CASE Fail(c)
    BY <2>2 DEF Fail, files
  <2>3. QED
    BY <2>1, <2>2
<1>2. PICK code \in Codes : Finish(c, code, <<>>)
  <2>1. CASE Remove(c)
    <3>1. \E code \in {"Deleted", "NotDeleted"} : Finish(c, code, <<>>)
      BY <2>1, RemoveEffect
    <3>2. QED
      BY <3>1 DEF Codes
  <2>2. CASE Fail(c)
    BY <2>2 DEF Fail, Codes
  <2>3. QED
    BY <2>1, <2>2
<1>3. /\ \A x \in Calls : ReaderOK(x)'
      /\ \A x \in Calls : calls'[x].pc \in {"writing", "reading"} =>
             calls[x].pc \in {"writing", "reading"} /\ calls'[x].file = calls[x].file
  BY <1>2, FinishReader
<1>4. \A f \in 1..Len(objects') : \E k \in Keys : IsOf(f, k)'
  BY <1>1, <1>3, PlaceStays
<1>5. QED
  BY <1>3, <1>4 DEF PlaceInv

LEMMA NextPlaceInv == TInv /\ PlaceInv /\ [Next]_vars => PlaceInv'
<1> SUFFICES ASSUME TInv, PlaceInv, [Next]_vars PROVE PlaceInv'
  OBVIOUS
<1>1. CASE Crash
  <2>1. UNCHANGED <<dir, objects>>
    BY <1>1 DEF Crash, files
  <2>2. \A x \in Calls :
            /\ calls'[x].req = calls[x].req /\ calls'[x].file = calls[x].file
            /\ calls'[x].answer = calls[x].answer
            /\ calls'[x].pc = IF InFlight(x) THEN "dead" ELSE calls[x].pc
    BY <1>1, CrashEffect DEF Keeps
  <2>3. \A x \in Calls : calls'[x].pc \notin {"read", "reading", "writing"}
    BY <2>2 DEF InFlight
  <2>4. \A f \in 1..Len(objects') : \E k \in Keys : IsOf(f, k)'
    BY <2>1, <2>3, PlaceStays
  <2>5. \A x \in Calls : ReaderOK(x)'
    BY <2>2, <2>3, ReaderStays DEF PlaceInv
  <2>6. QED
    BY <2>4, <2>5 DEF PlaceInv
<1>2. CASE Start \/ UNCHANGED vars
  <2>1. UNCHANGED <<dir, objects, calls>>
    BY <1>2 DEF Start, vars, files
  <2>2. QED
    BY <2>1, PlaceStays, ReaderStays DEF PlaceInv
<1>3. ASSUME NEW c \in Calls, Step(c) PROVE PlaceInv'
  <2>1. CASE \E r \in Requests : Begin(c, r)
    BY <2>1, BeginPlaceInv
  <2>2. CASE Count(c)
    BY <2>2, CountPlaceInv
  <2>3. CASE OpenForWrite(c)
    BY <2>3, OpenForWritePlaceInv
  <2>4. CASE WriteData(c) \/ WriteShort(c)
    BY <2>4, WritePlaceInv
  <2>5. CASE OpenForRead(c)
    BY <2>5, OpenForReadPlaceInv
  <2>6. CASE ReadSome(c)
    BY <2>6, ReadSomePlaceInv
  <2>7. CASE ReadEnd(c)
    BY <2>7, ReadEndPlaceInv
  <2>8. CASE Remove(c) \/ Fail(c)
    BY <2>8, EndPlaceInv
  <2>9. QED
    BY <1>3, <2>1, <2>2, <2>3, <2>4, <2>5, <2>6, <2>7, <2>8 DEF Step, Count
<1>4. QED
  BY <1>1, <1>2, <1>3 DEF Next

LEMMA Placed == Spec => []PlaceInv
BY InitPlaceInv, NextPlaceInv, Typing, PTL DEF Spec

\* A read that races with writers (service.go:98-142) returns at every place a
\* byte that a WriteBlock of that very block put there, whatever else is in the
\* directory and however often the process dies.
THEOREM RacingReadsKeepPlaces == Spec => []BytesKeepTheirPlace
<1>1. TInv /\ PlaceInv => BytesKeepTheirPlace
  <2> SUFFICES ASSUME TInv, PlaceInv, NEW c \in Calls, Answered(c, "read"),
                      NEW i \in DOMAIN calls[c].answer.data
               PROVE  \E w \in Calls :
                          /\ calls[w].req.op = "write" /\ SameKey(calls[w].req, calls[c].req)
                          /\ calls[c].req.offset + i <= Len(calls[w].req.data)
                          /\ calls[w].req.data[calls[c].req.offset + i]
                                 = calls[c].answer.data[i]
    BY DEF BytesKeepTheirPlace
  <2>1. calls[c].answer.data \in Data /\ calls[c].req.op = "read" /\ ReaderOK(c)
    BY DEF TInv, CallRecord, AnswerRecord, Answered, PlaceInv
  <2>2. i \in 1..Len(calls[c].answer.data)
    BY <2>1, LenProperties DEF Data
  <2>3. calls[c].req.block # NoBlock
    BY <2>1, <2>2, EmptyIsData DEF ReaderOK
  <2>4. Wrote(Key(calls[c].req.block), calls[c].req.offset + i, calls[c].answer.data[i])
    BY <2>1, <2>2 DEF ReaderOK
  <2>5. QED
    BY <2>3, <2>4 DEF Wrote, SameKey
<1>2. QED
  BY <1>1, Typing, Placed, PTL

-----------------------------------------------------------------------------
(* Undisturbed reads.                                                      *)

\* c is still at work on the block with key k.
AtBlock(c, k)  == InFlight(c) /\ calls[c].req.block # NoBlock /\ Key(calls[c].req.block) = k
Mutating(c, k) == AtBlock(c, k) /\ Mutates(calls[c].req)

AloneOK(c, k) ==
    AtBlock(c, k) /\ calls[c].alone => \A x \in Calls \ {c} : ~Mutating(x, k)

BlockHolds(k, d) == k \in DOMAIN dir /\ objects[dir[k]] = d

RestOK(k) ==
    settled[k].known =>
        /\ \A x \in Calls : ~Mutating(x, k)
        /\ settled[k].present => BlockHolds(k, settled[k].data)
        /\ ~settled[k].present => k \notin DOMAIN dir

MutatorOK(c, k) ==
    Mutating(c, k) /\ calls[c].alone =>
        /\ calls[c].pc = "writing" => /\ k \in DOMAIN dir /\ dir[k] = calls[c].file
                                      /\ objects[calls[c].file] = <<>>
        /\ calls[c].pc \in {"observe", "observeBytes"} =>
               /\ calls[c].answer.code = "OK" =>
                      calls[c].req.op = "write" /\ BlockHolds(k, calls[c].req.data)
               /\ calls[c].answer.code \in {"Deleted", "NotDeleted"} =>
                      calls[c].req.op = "delete" /\ k \notin DOMAIN dir

ReadAnswer(c) ==
    \/ calls[c].answer.code = "Internal"
    \/ /\ calls[c].before.present /\ calls[c].answer.code = "OK"
       /\ calls[c].answer.data =
              Slice(calls[c].before.data, calls[c].req.offset, calls[c].req.length)
    \/ ~calls[c].before.present /\ calls[c].answer.code = "NotFound"

UndisturbedOK(c) ==
    calls[c].req.op = "read" /\ calls[c].alone /\ calls[c].before.known =>
        /\ calls[c].req.block # NoBlock
        /\ InFlight(c) => settled[Key(calls[c].req.block)] = calls[c].before
        /\ calls[c].pc = "reading" =>
               /\ calls[c].before.present
               /\ dir[Key(calls[c].req.block)] = calls[c].file
               /\ Len(calls[c].buf) <= Len(calls[c].before.data)
               /\ \A i \in 1..Len(calls[c].buf) : calls[c].buf[i] = calls[c].before.data[i]
        /\ calls[c].pc \in {"observe", "observeBytes", "done"} => ReadAnswer(c)

RefusedOK(c) ==
    calls[c].pc \in {"observe", "observeBytes"} /\ calls[c].req.block = NoBlock =>
        calls[c].answer.code = "InvalidArgument"

SInv == /\ \A k \in Keys : RestOK(k)
        /\ \A c \in Calls : UndisturbedOK(c) /\ RefusedOK(c)
        /\ \A c \in Calls, k \in Keys : AloneOK(c, k) /\ MutatorOK(c, k)

LEMMA InitSInv == Init => SInv
<1> SUFFICES ASSUME Init PROVE SInv
  OBVIOUS
<1>1. /\ \A c \in Calls : ~InFlight(c) /\ calls[c].pc = "idle" /\ calls[c].req.op = "none"
      /\ DOMAIN dir = {}
      /\ \A k \in Keys : settled[k] = Absent
  BY DEF Init, Idle, InFlight, NoRequest, Request
<1>2. ASSUME NEW k \in Keys PROVE RestOK(k)
  BY <1>1 DEF RestOK, Mutating, AtBlock, Absent
<1>3. ASSUME NEW c \in Calls PROVE UndisturbedOK(c) /\ RefusedOK(c)
  BY <1>1 DEF UndisturbedOK, RefusedOK
<1>4. ASSUME NEW c \in Calls, NEW k \in Keys PROVE AloneOK(c, k) /\ MutatorOK(c, k)
  BY <1>1 DEF AloneOK, MutatorOK, Mutating, AtBlock
<1>5. QED
  BY <1>2, <1>3, <1>4 DEF SInv

\* A block whose name and whose bytes a step leaves alone.
Untouched(k) == /\ k \in DOMAIN dir' <=> k \in DOMAIN dir
                /\ k \in DOMAIN dir => /\ dir'[k] = dir[k]
                                       /\ objects'[dir[k]] = objects[dir[k]]

\* A call works on its own block and no other.
LEMMA WorkIsLocal ==
    ASSUME TInv, PlaceInv, NEW c \in Calls, Work(c), NEW k \in Keys, ~Mutating(c, k)
    PROVE  Untouched(k)
<1>1. CallOK(c) /\ Len(objects) \in Nat
  BY LenProperties DEF TInv, FilesOK
<1>2. ASSUME k \in DOMAIN dir
      PROVE  dir[k] \in 1..Len(objects) /\ IsOf(dir[k], k)
  BY <1>2, FileIsOfName
<1>3. ASSUME calls[c].pc \in {"write", "writing", "delete"}
      PROVE  Key(calls[c].req.block) # k
  BY <1>1, <1>3, NoBlockAssumption
     DEF Mutating, AtBlock, InFlight, Mutates, CallOK, Blocks
<1>4. CASE OpenForWrite(c)
  <2>1. PICK p, g : p = BlockPath(calls[c].req.block) /\ g = calls'[c].file
    OBVIOUS
  <2>2. /\ calls[c].pc = "write"
        /\ \A f \in 1..Len(objects) : f # g => objects'[f] = objects[f]
        /\ DOMAIN dir' = DOMAIN dir \cup {p}
        /\ \A q \in DOMAIN dir : q # p => dir'[q] = dir[q]
        /\ \/ p \in DOMAIN dir /\ g = dir[p]
           \/ p \notin DOMAIN dir /\ g = Len(objects) + 1
    BY <1>4, <2>1, OpenForWriteEffect
  <2>3. p # k
    BY <1>3, <2>1, <2>2 DEF Key, BlockPath
  <2>4. ASSUME k \in DOMAIN dir PROVE dir[k] # g
    <3>1. CASE p \in DOMAIN dir
      BY <1>2, <2>2, <2>3, <2>4, <3>1 DEF IsOf
    <3>2. CASE p \notin DOMAIN dir
      BY <1>1, <1>2, <2>2, <2>4, <3>2
    <3>3. QED
      BY <3>1, <3>2
  <2>5. QED
    BY <1>2, <2>2, <2>3, <2>4 DEF Untouched
<1>5. CASE WriteData(c) \/ WriteShort(c)
  <2>1. /\ calls[c].pc = "writing" /\ UNCHANGED dir
        /\ \A f \in 1..Len(objects) : f # calls[c].file => objects'[f] = objects[f]
    BY <1>5, WriteEffect
  <2>2. k \in DOMAIN dir => dir[k] # calls[c].file
    BY <1>3, <2>1, FileIsOfCall DEF IsOf
  <2>3. QED
    BY <1>2, <2>1, <2>2 DEF Untouched
<1>6. CASE Remove(c)
  <2>1. PICK p : p = BlockPath(calls[c].req.block)
    OBVIOUS
  <2>2. /\ calls[c].pc = "delete" /\ UNCHANGED objects /\ DOMAIN dir' = DOMAIN dir \ {p}
        /\ \A q \in DOMAIN dir' : dir'[q] = dir[q]
    BY <1>6, <2>1, RemoveEffect
  <2>3. p # k
    BY <1>3, <2>1, <2>2 DEF Key, BlockPath
  <2>4. QED
    BY <2>2, <2>3 DEF Untouched
<1>7. CASE OpenForRead(c) \/ ReadSome(c) \/ ReadEnd(c) \/ Fail(c)
  BY <1>7 DEF OpenForRead, ReadSome, ReadEnd, Fail, files, Untouched
<1>8. QED
  BY <1>4, <1>5, <1>6, <1>7 DEF Work

LEMMA HoldsStays ==
    ASSUME NEW k, Untouched(k), NEW d, BlockHolds(k, d)
    PROVE  BlockHolds(k, d)'
BY DEF Untouched, BlockHolds

\* A call at work was at work before the step.
LEMMA WorkersShrink ==
    ASSUME TInv, NEW c \in Calls, Work(c) \/ Count(c), NEW x \in Calls, NEW k
    PROVE  /\ AtBlock(x, k)' => AtBlock(x, k)
           /\ Mutating(x, k)' => Mutating(x, k)
           /\ InFlight(x)' => InFlight(x)
           /\ calls'[x].alone = calls[x].alone
           /\ calls'[x].req = calls[x].req /\ calls'[x].before = calls[x].before
<1>1. Others(c) /\ Keeps(c)
  BY WorkEffect, CountEffect
<1>2. InFlight(c)
  <2>1. CASE Work(c)
    BY <2>1 DEF Work, OpenForWrite, WriteData, WriteShort, OpenForRead, ReadSome,
                ReadEnd, Remove, Fail, At, InFlight
  <2>2. CASE Count(c)
    BY <2>2, CountEffect DEF InFlight
  <2>3. QED
    BY <2>1, <2>2
<1>3. /\ calls'[x].req = calls[x].req /\ calls'[x].alone = calls[x].alone
      /\ calls'[x].before = calls[x].before /\ (InFlight(x)' => InFlight(x))
  <2>1. CASE x = c
    BY <1>1, <1>2, <2>1 DEF Keeps
  <2>2. CASE x # c
    BY <1>1, <2>2 DEF Others, InFlight
  <2>3. QED
    BY <2>1, <2>2
<1>4. QED
  BY <1>3 DEF AtBlock, Mutating

\* What does not depend on who took the step.
LEMMA WorkRest ==
    ASSUME TInv, PlaceInv, SInv, NEW c \in Calls, Work(c)
    PROVE  /\ \A k \in Keys : RestOK(k)'
           /\ \A x \in Calls, k \in Keys : AloneOK(x, k)'
           /\ \A x \in Calls : RefusedOK(x)'
           /\ UNCHANGED settled
<1>1. UNCHANGED settled
  BY DEF Work, OpenForWrite, WriteData, WriteShort, OpenForRead, ReadSome, ReadEnd,
         Remove, Fail
<1>2. ASSUME NEW k \in Keys PROVE RestOK(k)'
  <2>1. CASE settled[k].known
    <3>1. RestOK(k) /\ \A x \in Calls : ~Mutating(x, k)
      BY <2>1 DEF SInv, RestOK
    <3>2. Untouched(k)
      BY <3>1, WorkIsLocal
    <3>3. \A x \in Calls : ~Mutating(x, k)'
      BY <3>1, WorkersShrink
    <3>4. settled[k].present => BlockHolds(k, settled[k].data)'
      <4>1. PICK d : d = settled[k].data
        OBVIOUS
      <4>2. settled[k].present => BlockHolds(k, d)'
        BY <2>1, <3>1, <3>2, <4>1, HoldsStays DEF RestOK
      <4>3. QED
        BY <1>1, <4>1, <4>2
    <3>5. ~settled[k].present => k \notin DOMAIN dir'
      BY <2>1, <3>1, <3>2 DEF RestOK, Untouched
    <3>6. QED
      BY <1>1, <3>3, <3>4, <3>5 DEF RestOK
  <2>2. CASE ~settled[k].known
    BY <1>1, <2>2 DEF RestOK
  <2>3. QED
    BY <2>1, <2>2
<1>3. ASSUME NEW x \in Calls, NEW k \in Keys PROVE AloneOK(x, k)'
  BY WorkersShrink DEF SInv, AloneOK
<1>4. ASSUME NEW x \in Calls PROVE RefusedOK(x)'
  <2>1. CASE x = c
    <3>1. calls[c].pc \in {"write", "writing", "read", "reading", "delete"}
      BY DEF Work, OpenForWrite, WriteData, WriteShort, OpenForRead, ReadSome,
             ReadEnd, Remove, Fail, At
    <3>2. calls[c].req.block # NoBlock
      BY <3>1, NoBlockAssumption DEF TInv, CallOK, Blocks
    <3>3. QED
      BY <2>1, <3>2, WorkersShrink DEF RefusedOK
  <2>2. CASE x # c
    BY <2>2, WorkEffect DEF Others, SInv, RefusedOK
  <2>3. QED
    BY <2>1, <2>2
<1>5. QED
  BY <1>1, <1>2, <1>3, <1>4

\* The work of one call and another call that is alone on its block.
LEMMA WorkOfOthers ==
    ASSUME TInv, PlaceInv, SInv, NEW c \in Calls, Work(c), NEW x \in Calls \ {c}
    PROVE  UndisturbedOK(x)' /\ \A k \in Keys : MutatorOK(x, k)'
<1>1. calls'[x] = calls[x] /\ UNCHANGED settled
  BY WorkEffect, WorkRest DEF Others
<1>2. ASSUME NEW k \in Keys, AtBlock(x, k), calls[x].alone PROVE Untouched(k)
  BY <1>2, WorkIsLocal DEF SInv, AloneOK
<1>3. ASSUME NEW k \in Keys PROVE MutatorOK(x, k)'
  <2>1. CASE Mutating(x, k) /\ calls[x].alone
    <3>1. MutatorOK(x, k) /\ Untouched(k)
      BY <1>2, <2>1 DEF SInv, Mutating
    <3>2. calls[x].pc = "writing" => /\ k \in DOMAIN dir' /\ dir'[k] = calls[x].file
                                     /\ objects'[calls[x].file] = <<>>
      BY <2>1, <3>1 DEF MutatorOK, Untouched
    <3>3. PICK d : d = calls[x].req.data
      OBVIOUS
    <3>4. BlockHolds(k, d) => BlockHolds(k, d)'
      BY <3>1, HoldsStays
    <3>5. k \notin DOMAIN dir => k \notin DOMAIN dir'
      BY <3>1 DEF Untouched
    <3>6. QED
      BY <1>1, <2>1, <3>1, <3>2, <3>3, <3>4, <3>5 DEF MutatorOK
  <2>2. CASE ~(Mutating(x, k) /\ calls[x].alone)
    BY <1>1, <2>2 DEF MutatorOK, Mutating, AtBlock, InFlight
  <2>3. QED
    BY <2>1, <2>2
<1>4. UndisturbedOK(x)'
  <2>1. UndisturbedOK(x)
    BY DEF SInv
  <2>2. CASE calls[x].pc = "reading" /\ calls[x].alone /\ calls[x].before.known
    <3>1. PICK k : k = Key(calls[x].req.block)
      OBVIOUS
    <3>2. /\ k \in Keys /\ AtBlock(x, k) /\ calls[x].req.op = "read"
      BY <2>2, <3>1, NoBlockAssumption
         DEF TInv, CallOK, Keys, AtBlock, InFlight, Blocks
    <3>3. Untouched(k)
      BY <1>2, <2>2, <3>2
    <3>4. settled[k] = calls[x].before /\ calls[x].before.present
      BY <2>1, <2>2, <3>1, <3>2 DEF UndisturbedOK, AtBlock
    <3>5. k \in DOMAIN dir
      BY <2>2, <3>2, <3>4 DEF SInv, RestOK, BlockHolds
    <3>6. dir'[k] = dir[k]
      BY <3>3, <3>5 DEF Untouched
    <3>7. QED
      BY <1>1, <2>1, <3>1, <3>6 DEF UndisturbedOK, InFlight, ReadAnswer
  <2>3. CASE ~(calls[x].pc = "reading" /\ calls[x].alone /\ calls[x].before.known)
    BY <1>1, <2>1, <2>3 DEF UndisturbedOK, InFlight, ReadAnswer
  <2>4. QED
    BY <2>2, <2>3
<1>5. QED
  BY <1>3, <1>4

\* The work of a writer or a deleter on its own block.
LEMMA WorkOfMutator ==
    ASSUME TInv, PlaceInv, SInv, NEW c \in Calls, Work(c), NEW k \in Keys
    PROVE  MutatorOK(c, k)'
<1>1. /\ calls'[c].req = calls[c].req /\ calls'[c].alone = calls[c].alone
      /\ Mutating(c, k)' => Mutating(c, k)
  BY WorkersShrink
<1>2. SUFFICES ASSUME Mutating(c, k), calls[c].alone PROVE MutatorOK(c, k)'
  BY <1>1 DEF MutatorOK
<1>3. /\ calls[c].req.op \in {"write", "delete"} /\ calls[c].req.block # NoBlock
      /\ Key(calls[c].req.block) = k /\ CallOK(c) /\ MutatorOK(c, k)
  BY <1>2 DEF Mutating, AtBlock, Mutates, TInv, SInv
<1>4. ASSUME NEW code \in Codes, Finish(c, code, <<>>)
      PROVE  calls'[c].pc = "observe" /\ calls'[c].answer.code = code
  BY <1>4, EmptyIsData, FinishEffect
<1>codes. {"OK", "Deleted", "NotDeleted", "Internal"} \subseteq Codes
  BY DEF Codes
<1>5. CASE OpenForWrite(c)
  <2>1. /\ calls'[c].pc = "writing" /\ objects'[calls'[c].file] = <<>>
        /\ BlockPath(calls[c].req.block) \in DOMAIN dir'
        /\ dir'[BlockPath(calls[c].req.block)] = calls'[c].file
    BY <1>5, OpenForWriteEffect
  <2>2. BlockPath(calls[c].req.block) = k
    BY <1>3 DEF BlockPath, Key
  <2>3. QED
    BY <2>1, <2>2 DEF MutatorOK
<1>6. CASE WriteData(c) \/ WriteShort(c)
  <2>1. PICK d, f : d = calls[c].req.data /\ f = calls[c].file
    OBVIOUS
  <2>2. /\ calls[c].pc = "writing" /\ dir' = dir
        /\ \E code \in {"OK", "Internal"}, n \in 0..Len(d) :
               /\ Finish(c, code, <<>>) /\ (code = "OK" => n = Len(d))
               /\ objects'[f] = Overlay(objects[f], SubSeq(d, 1, n))
        /\ SubSeq(d, 1, Len(d)) = d
    BY <1>6, <2>1, WriteEffect
  <2>3. PICK code \in {"OK", "Internal"} :
            Finish(c, code, <<>>) /\ (code = "OK" => objects'[f] = Overlay(objects[f], d))
    BY <2>2
  <2>4. calls'[c].pc = "observe" /\ calls'[c].answer.code = code
    BY <1>4, <1>codes, <2>3
  <2>5. calls[c].req.op = "write" /\ d \in Data
    BY <1>3, <2>1, <2>2 DEF CallOK, TInv, CallRecord, RequestRecord
  <2>6. k \in DOMAIN dir /\ dir[k] = f /\ objects[f] = <<>>
    BY <1>2, <1>3, <2>1, <2>2 DEF MutatorOK
  <2>7. code = "OK" => BlockHolds(k, d)'
    BY <2>2, <2>3, <2>5, <2>6, OverlayEmpty DEF BlockHolds
  <2>8. QED
    BY <1>1, <2>1, <2>4, <2>5, <2>7 DEF MutatorOK
<1>7. CASE Remove(c)
  <2>1. /\ calls[c].pc = "delete"
        /\ DOMAIN dir' = DOMAIN dir \ {BlockPath(calls[c].req.block)}
        /\ \E code \in {"Deleted", "NotDeleted"} : Finish(c, code, <<>>)
    BY <1>7, RemoveEffect
  <2>2. k \notin DOMAIN dir'
    BY <1>3, <2>1 DEF BlockPath, Key
  <2>3. PICK code \in {"Deleted", "NotDeleted"} :
            calls'[c].pc = "observe" /\ calls'[c].answer.code = code
    BY <1>4, <1>codes, <2>1
  <2>4. calls'[c].req.op = "delete"
    BY <1>1, <1>3, <2>1 DEF CallOK
  <2>5. QED
    BY <2>2, <2>3, <2>4 DEF MutatorOK
<1>8. CASE Fail(c)
  <2>1. calls'[c].pc = "observe" /\ calls'[c].answer.code = "Internal"
    BY <1>4, <1>8, <1>codes DEF Fail
  <2>2. QED
    BY <2>1 DEF MutatorOK
<1>9. CASE OpenForRead(c) \/ ReadSome(c) \/ ReadEnd(c)
  BY <1>3, <1>9 DEF OpenForRead, ReadSome, ReadEnd, At, CallOK
<1>10. QED
  BY <1>5, <1>6, <1>7, <1>8, <1>9 DEF Work

\* The work of a reader that nothing disturbs.
LEMMA WorkOfReader ==
    ASSUME TInv, PlaceInv, SInv, NEW c \in Calls, Work(c)
    PROVE  UndisturbedOK(c)'
<1>1. /\ calls'[c].req = calls[c].req /\ calls'[c].alone = calls[c].alone
      /\ calls'[c].before = calls[c].before /\ (InFlight(c)' => InFlight(c))
  BY WorkersShrink
<1>2. SUFFICES ASSUME calls[c].req.op = "read", calls[c].alone, calls[c].before.known
               PROVE  UndisturbedOK(c)'
  BY <1>1 DEF UndisturbedOK
<1>3. PICK k, was : k = Key(calls[c].req.block) /\ was = calls[c].before
  OBVIOUS
<1>4. /\ calls[c].pc \in {"write", "writing", "read", "reading", "delete"}
      /\ CallOK(c) /\ ReaderOK(c) /\ UndisturbedOK(c) /\ settled' = settled
  BY WorkRest
     DEF Work, OpenForWrite, WriteData, WriteShort, OpenForRead, ReadSome, ReadEnd,
         Remove, Fail, At, TInv, PlaceInv, SInv
<1>5. /\ calls[c].req.block # NoBlock /\ k \in Keys /\ was.data \in Data /\ InFlight(c)
  BY <1>3, <1>4, NoBlockAssumption
     DEF CallOK, Keys, Blocks, InFlight, TInv, CallRecord, Known
<1>6. settled[k] = was
  BY <1>2, <1>3, <1>4, <1>5 DEF UndisturbedOK
<1>7. /\ was.present => k \in DOMAIN dir /\ objects[dir[k]] = was.data
      /\ ~was.present => k \notin DOMAIN dir
  BY <1>2, <1>3, <1>5, <1>6 DEF SInv, RestOK, BlockHolds
\* It is enough that the answer, or what is read so far, is right.
<1>8. ASSUME calls'[c].pc = "reading" =>
                 /\ was.present /\ dir'[k] = calls'[c].file
                 /\ Len(calls'[c].buf) <= Len(was.data)
                 /\ \A i \in 1..Len(calls'[c].buf) : calls'[c].buf[i] = was.data[i],
             calls'[c].pc = "observe" => ReadAnswer(c)',
             calls'[c].pc \in {"reading", "observe"}
      PROVE  UndisturbedOK(c)'
  BY <1>1, <1>3, <1>4, <1>5, <1>6, <1>8 DEF UndisturbedOK
<1>codes. {"OK", "NotFound", "Internal"} \subseteq Codes
  BY DEF Codes
<1>9. CASE OpenForRead(c)
  <2>1. CASE Finish(c, "NotFound", <<>>)
    <3>1. calls'[c].pc = "observe" /\ calls'[c].answer.code = "NotFound"
      BY <1>codes, <2>1, EmptyIsData, FinishEffect
    <3>2. BlockPath(calls[c].req.block) \notin DOMAIN dir
      BY <1>9, <2>1, <3>1, OpenForReadEffect
    <3>3. ~was.present
      BY <1>3, <1>7, <3>2 DEF BlockPath, Key
    <3>4. QED
      BY <1>1, <1>3, <1>8, <3>1, <3>3 DEF ReadAnswer
  <2>2. CASE ~Finish(c, "NotFound", <<>>)
    <3>1. /\ calls[c].pc = "read" /\ calls'[c].pc = "reading"
          /\ BlockPath(calls[c].req.block) \in DOMAIN dir
          /\ calls'[c].file = dir[BlockPath(calls[c].req.block)]
          /\ calls'[c].buf = calls[c].buf /\ dir' = dir
      BY <1>9, <2>2, OpenForReadEffect DEF OpenForRead, files
    <3>2. BlockPath(calls[c].req.block) = k /\ was.present
      BY <1>3, <1>7, <3>1 DEF BlockPath, Key
    <3>3. calls'[c].buf = <<>> /\ Len(<<>>) = 0 /\ Len(was.data) \in Nat
      BY <1>4, <1>5, <3>1, EmptyIsData, LenProperties DEF ReaderOK, Data
    <3>4. /\ Len(calls'[c].buf) <= Len(was.data)
          /\ \A i \in 1..Len(calls'[c].buf) : calls'[c].buf[i] = was.data[i]
      BY <3>3
    <3>5. QED
      BY <1>8, <3>1, <3>2, <3>4
  <2>3. QED
    BY <2>1, <2>2
<1>10. ASSUME calls[c].pc = "reading"
       PROVE  /\ was.present /\ dir[k] = calls[c].file
              /\ objects[calls[c].file] = was.data
              /\ Len(calls[c].buf) <= Len(was.data)
              /\ \A i \in 1..Len(calls[c].buf) : calls[c].buf[i] = was.data[i]
  BY <1>2, <1>3, <1>4, <1>7, <1>10 DEF UndisturbedOK
<1>11. CASE ReadSome(c)
  <2>1. PICK b : b = calls[c].buf
    OBVIOUS
  <2>2. /\ calls[c].pc = "reading" /\ calls'[c].pc = "reading"
        /\ calls'[c].file = calls[c].file
        /\ Len(calls'[c].buf) \in (Len(b) + 1)..Len(objects[calls[c].file])
        /\ \A i \in 1..Len(calls'[c].buf) :
               calls'[c].buf[i] = IF i <= Len(b) THEN b[i] ELSE objects[calls[c].file][i]
        /\ dir' = dir
    BY <1>11, <2>1, ReadSomeEffect DEF ReadSome, files
  <2>3. Len(b) \in Nat /\ Len(was.data) \in Nat
    BY <1>5, <2>1, <2>2, ReaderTypes, LenProperties DEF Data
  <2>4. \A i \in 1..Len(calls'[c].buf) : calls'[c].buf[i] = was.data[i]
    BY <1>10, <2>1, <2>2, <2>3
  <2>5. Len(calls'[c].buf) <= Len(was.data)
    BY <1>10, <2>2, <2>3
  <2>6. QED
    BY <1>8, <1>10, <2>2, <2>4, <2>5
<1>12. CASE ReadEnd(c)
  <2>1. PICK b, offset, length :
            b = calls[c].buf /\ offset = calls[c].req.offset /\ length = calls[c].req.length
    OBVIOUS
  <2>2. /\ calls[c].pc = "reading" /\ Len(b) >= Len(objects[calls[c].file])
        /\ Finish(c, "OK", Slice(b, offset, length))
    BY <1>12, <2>1 DEF ReadEnd, At
  <2>3. b \in Data /\ Len(b) \in Nat /\ offset \in Nat /\ length \in Nat
    BY <2>1, <2>2, ReaderTypes
  <2>4. b = was.data
    <3>1. Len(was.data) \in Nat /\ Len(b) = Len(was.data)
      BY <1>5, <1>10, <2>1, <2>2, <2>3, LenProperties DEF Data
    <3>2. \A i \in 1..Len(b) : b[i] = was.data[i]
      BY <1>10, <2>1, <2>2
    <3>3. QED
      BY <1>5, <2>3, <3>1, <3>2, SeqEqual DEF Data
  <2>5. Slice(b, offset, length) \in Data
    BY <2>3, SliceProperties
  <2>6. /\ calls'[c].pc = "observe" /\ calls'[c].answer.code = "OK"
        /\ calls'[c].answer.data = Slice(b, offset, length)
    BY <1>codes, <2>2, <2>5, FinishEffect
  <2>7. ReadAnswer(c)'
    BY <1>1, <1>3, <1>10, <2>1, <2>2, <2>4, <2>6 DEF ReadAnswer
  <2>8. QED
    BY <1>8, <2>6, <2>7
<1>13. CASE Fail(c)
  <2>1. calls'[c].pc = "observe" /\ calls'[c].answer.code = "Internal"
    BY <1>13, <1>codes, EmptyIsData, FinishEffect DEF Fail
  <2>2. QED
    BY <1>8, <2>1 DEF ReadAnswer
<1>14. CASE OpenForWrite(c) \/ WriteData(c) \/ WriteShort(c) \/ Remove(c)
  BY <1>2, <1>4, <1>14 DEF OpenForWrite, WriteData, WriteShort, Remove, At, CallOK
<1>15. QED
  BY <1>9, <1>11, <1>12, <1>13, <1>14 DEF Work

LEMMA WorkSInv ==
    ASSUME TInv, PlaceInv, SInv, NEW c \in Calls, Work(c) PROVE SInv'
<1>1. ASSUME NEW x \in Calls
      PROVE  UndisturbedOK(x)' /\ \A k \in Keys : MutatorOK(x, k)'
  <2>1. CASE x = c
    BY <2>1, WorkOfReader, WorkOfMutator
  <2>2. CASE x # c
    BY <2>2, WorkOfOthers
  <2>3. QED
    BY <2>1, <2>2
<1>2. QED
  BY <1>1, WorkRest DEF SInv

\* The counters.  The answer of a writer that was alone settles its block.
LEMMA CountSInv ==
    ASSUME TInv, SInv, NEW c \in Calls, Count(c) PROVE SInv'
<1>1. /\ Others(c) /\ Keeps(c) /\ UNCHANGED <<dir, objects>>
      /\ \/ calls[c].pc = "observe" /\ calls'[c].pc = "observeBytes"
         \/ calls[c].pc = "observeBytes" /\ calls'[c].pc = "done"
         \/ calls[c].pc = "loadIops" /\ calls'[c].pc = "loadBytes"
         \/ calls[c].pc = "loadBytes" /\ calls'[c].pc = "done"
      /\ calls[c].pc \in {"observe", "observeBytes"} => calls'[c].answer = calls[c].answer
  BY CountEffect
<1>2. \A x \in Calls, k \in Keys :
          /\ AtBlock(x, k)' => AtBlock(x, k)
          /\ Mutating(x, k)' => Mutating(x, k)
          /\ InFlight(x)' => InFlight(x)
          /\ calls'[x].alone = calls[x].alone /\ calls'[x].req = calls[x].req
          /\ calls'[x].before = calls[x].before
  BY WorkersShrink
<1>3. CallOK(c) /\ InFlight(c) /\ RefusedOK(c) /\ UndisturbedOK(c)
  BY <1>1 DEF TInv, SInv, InFlight
\* Settling is of the block of c, which no other call is writing.
<1>4. ASSUME NEW k \in Keys, settled'[k] # settled[k]
      PROVE  /\ Mutating(c, k) /\ calls[c].alone /\ calls'[c].pc = "done"
             /\ \/ /\ settled'[k] = Holds(calls[c].req.data)
                   /\ BlockHolds(k, calls[c].req.data)
                \/ settled'[k] = Absent /\ k \notin DOMAIN dir
  <2>1. ObserveBytes(c)
    BY <1>4 DEF Count, ObserveOp, LoadIops, LoadBytes
  <2>2. /\ calls[c].pc = "observeBytes" /\ calls'[c].pc = "done"
    BY <1>1, <2>1 DEF ObserveBytes, At
  <2>3. /\ Mutates(calls[c].req) /\ calls[c].alone
        /\ calls[c].answer.code \in {"OK", "Deleted", "NotDeleted"}
        /\ settled' = [settled EXCEPT ![Key(calls[c].req.block)] =
                          IF calls[c].req.op = "write" THEN Holds(calls[c].req.data)
                          ELSE Absent]
    BY <1>4, <2>1 DEF ObserveBytes
  <2>4. k = Key(calls[c].req.block)
    BY <1>4, <2>3 DEF TInv
  <2>5. calls[c].req.block # NoBlock
    BY <1>3, <2>2, <2>3 DEF RefusedOK
  <2>6. Mutating(c, k) /\ MutatorOK(c, k)
    BY <1>3, <2>3, <2>4, <2>5 DEF Mutating, AtBlock, SInv
  <2>7. settled'[k] = IF calls[c].req.op = "write" THEN Holds(calls[c].req.data) ELSE Absent
    BY <2>3, <2>4 DEF TInv
  <2>8. QED
    BY <2>2, <2>3, <2>6, <2>7 DEF MutatorOK
<1>5. ASSUME NEW k \in Keys PROVE RestOK(k)'
  <2>1. CASE settled'[k] = settled[k]
    BY <1>1, <1>2, <2>1 DEF SInv, RestOK, BlockHolds
  <2>2. CASE settled'[k] # settled[k]
    <3>1. \A x \in Calls : ~Mutating(x, k)'
      <4>1. \A x \in Calls \ {c} : ~Mutating(x, k)
        BY <1>4, <2>2 DEF SInv, AloneOK, Mutating
      <4>2. ~Mutating(c, k)'
        BY <1>4, <2>2 DEF Mutating, AtBlock, InFlight
      <4>3. QED
        BY <1>2, <4>1, <4>2
    <3>2. \/ /\ settled'[k] = Holds(calls[c].req.data)
             /\ BlockHolds(k, calls[c].req.data)
          \/ settled'[k] = Absent /\ k \notin DOMAIN dir
      BY <1>4, <2>2
    <3>3. QED
      BY <1>1, <3>1, <3>2 DEF RestOK, Holds, Absent, BlockHolds
  <2>3. QED
    BY <2>1, <2>2
<1>6. ASSUME NEW x \in Calls, NEW k \in Keys PROVE AloneOK(x, k)'
  BY <1>2 DEF SInv, AloneOK
<1>7. ASSUME NEW x \in Calls, NEW k \in Keys PROVE MutatorOK(x, k)'
  <2>1. MutatorOK(x, k)
    BY DEF SInv
  <2>2. CASE x = c
    BY <1>1, <1>2, <2>1, <2>2 DEF MutatorOK, BlockHolds, Mutating, AtBlock, InFlight
  <2>3. CASE x # c
    <3>1. calls'[x] = calls[x]
      BY <1>1, <2>3 DEF Others
    <3>2. QED
      BY <1>1, <1>2, <2>1, <3>1 DEF MutatorOK, BlockHolds
  <2>4. QED
    BY <2>2, <2>3
<1>8. ASSUME NEW x \in Calls PROVE RefusedOK(x)'
  <2>1. CASE x = c
    BY <1>1, <1>3, <2>1 DEF RefusedOK, Keeps
  <2>2. CASE x # c
    BY <1>1, <2>2 DEF Others, SInv, RefusedOK
  <2>3. QED
    BY <2>1, <2>2
<1>9. ASSUME NEW x \in Calls PROVE UndisturbedOK(x)'
  <2>1. UndisturbedOK(x)
    BY DEF SInv
  <2>2. SUFFICES ASSUME calls[x].req.op = "read", calls[x].alone, calls[x].before.known
                 PROVE  UndisturbedOK(x)'
    <3>1. /\ calls'[x].req = calls[x].req /\ calls'[x].alone = calls[x].alone
          /\ calls'[x].before = calls[x].before
      BY WorkersShrink
    <3>2. QED
      BY <3>1 DEF UndisturbedOK
  <2>3. PICK k : k = Key(calls[x].req.block)
    OBVIOUS
  <2>4. calls[x].req.block # NoBlock /\ k \in Keys
    BY <2>1, <2>2, <2>3 DEF UndisturbedOK, TInv, CallRecord, RequestRecord, Keys
  <2>5. InFlight(x) => settled'[k] = calls[x].before
    <3>1. ASSUME InFlight(x), settled'[k] # settled[k] PROVE FALSE
      <4>1. AtBlock(x, k) /\ Mutating(c, k)
        BY <1>4, <2>3, <2>4, <3>1 DEF AtBlock
      <4>2. x # c
        BY <2>2, <4>1 DEF Mutating, Mutates
      <4>3. QED
        BY <2>2, <2>4, <4>1, <4>2 DEF SInv, AloneOK
    <3>2. QED
      BY <2>1, <2>2, <2>3, <3>1 DEF UndisturbedOK
  <2>6. CASE x = c
    <3>1. /\ calls'[c].pc \in {"observeBytes", "loadBytes", "done"}
          /\ calls[c].pc \in {"observe", "observeBytes"} /\ ReadAnswer(c)
      BY <1>1, <1>3, <2>2, <2>6 DEF CallOK, UndisturbedOK
    <3>2. ReadAnswer(c)'
      BY <1>1, <3>1 DEF ReadAnswer, Keeps
    <3>3. QED
      BY <1>2, <1>3, <2>3, <2>4, <2>5, <2>6, <3>1, <3>2 DEF UndisturbedOK
  <2>7. CASE x # c
    <3>1. calls'[x] = calls[x]
      BY <1>1, <2>7 DEF Others
    <3>2. QED
      BY <1>1, <1>2, <2>1, <2>3, <2>4, <2>5, <3>1 DEF UndisturbedOK, ReadAnswer
  <2>8. QED
    BY <2>6, <2>7
<1>10. QED
  BY <1>5, <1>6, <1>7, <1>8, <1>9 DEF SInv

\* A request that arrives.  A write or a delete unsettles its block, and the
\* calls at work on that block are not alone any more.
LEMMA BeginSInv ==
    ASSUME TInv, SInv, NEW c \in Calls, NEW r \in Requests, Begin(c, r) PROVE SInv'
<1>1. /\ UNCHANGED <<dir, objects>>
      /\ settled' = IF Mutates(r) /\ r.block # NoBlock
                    THEN [settled EXCEPT ![Key(r.block)] = Unsettled] ELSE settled
  BY DEF Begin, files
<1>2. /\ calls[c].pc = "idle" /\ calls'[c].pc = FirstStep(r) /\ calls'[c].req = r
      /\ calls'[c].alone <=> \A x \in Rivals(r) : ~Mutates(calls[x].req)
      /\ calls'[c].before = IF r.block = NoBlock THEN Unsettled ELSE settled[Key(r.block)]
      /\ calls'[c].answer.code = IF r.op # "health" /\ r.block = NoBlock
                                 THEN "InvalidArgument" ELSE "none"
      /\ FirstStep(r) = IF r.op = "health" THEN "loadIops"
                        ELSE IF r.block = NoBlock THEN "observe" ELSE r.op
      /\ FirstStep(r) \in {"loadIops", "observe", "write", "read", "delete"}
  BY BeginEffect
<1>3. \A x \in Calls \ {c} :
          /\ calls'[x].pc = calls[x].pc /\ calls'[x].req = calls[x].req
          /\ calls'[x].file = calls[x].file /\ calls'[x].buf = calls[x].buf
          /\ calls'[x].answer = calls[x].answer /\ calls'[x].before = calls[x].before
          /\ calls'[x].alone => calls[x].alone /\ ~(Mutates(r) /\ x \in Rivals(r))
  BY BeginOthers
<1>4. ASSUME NEW x \in Calls \ {c}, NEW k
      PROVE  /\ AtBlock(x, k)' <=> AtBlock(x, k)
             /\ Mutating(x, k)' <=> Mutating(x, k)
             /\ InFlight(x)' <=> InFlight(x)
  BY <1>3 DEF AtBlock, Mutating, InFlight
<1>5. ASSUME NEW k
      PROVE  /\ AtBlock(c, k)' => r.block # NoBlock /\ Key(r.block) = k
             /\ Mutating(c, k)' => Mutates(r)
  BY <1>2 DEF AtBlock, Mutating
<1>6. ASSUME NEW x \in Calls, NEW k, AtBlock(x, k), r.block # NoBlock, Key(r.block) = k
      PROVE  x \in Rivals(r)
  BY <1>6 DEF AtBlock, Rivals, SameKey
<1>7. ASSUME NEW k \in Keys, r.block # NoBlock, Key(r.block) = k, Mutates(r)
      PROVE  ~settled'[k].known
  BY <1>1, <1>7 DEF TInv, Unsettled
<1>8. ASSUME NEW k \in Keys, ~(r.block # NoBlock /\ Key(r.block) = k /\ Mutates(r))
      PROVE  settled'[k] = settled[k]
  BY <1>1, <1>8 DEF TInv
<1>9. ASSUME NEW k \in Keys PROVE RestOK(k)'
  <2>1. CASE r.block # NoBlock /\ Key(r.block) = k /\ Mutates(r)
    BY <1>7, <2>1 DEF RestOK
  <2>2. CASE ~(r.block # NoBlock /\ Key(r.block) = k /\ Mutates(r))
    <3>1. ~Mutating(c, k)'
      BY <1>5, <2>2 DEF Mutating
    <3>2. settled'[k] = settled[k] /\ RestOK(k)
      BY <1>8, <2>2 DEF SInv
    <3>3. QED
      BY <1>1, <1>4, <3>1, <3>2 DEF RestOK, BlockHolds
  <2>3. QED
    BY <2>1, <2>2
<1>10. ASSUME NEW x \in Calls, NEW k \in Keys PROVE AloneOK(x, k)'
  <2>1. SUFFICES ASSUME AtBlock(x, k)', calls'[x].alone, NEW y \in Calls \ {x},
                        Mutating(y, k)'
                 PROVE  FALSE
    BY DEF AloneOK
  <2>2. CASE x = c
    <3>1. Mutating(y, k) /\ r.block # NoBlock /\ Key(r.block) = k
      BY <1>4, <1>5, <2>1, <2>2
    <3>2. y \in Rivals(r) /\ Mutates(calls[y].req)
      BY <1>6, <3>1 DEF Mutating
    <3>3. QED
      BY <1>2, <2>1, <2>2, <3>2
  <2>3. CASE y = c
    <3>1. AtBlock(x, k) /\ Mutates(r) /\ r.block # NoBlock /\ Key(r.block) = k
      BY <1>4, <1>5, <2>1, <2>3 DEF Mutating
    <3>2. QED
      BY <1>3, <1>6, <2>1, <2>3, <3>1
  <2>4. CASE x # c /\ y # c
    <3>1. AtBlock(x, k) /\ Mutating(y, k) /\ calls[x].alone
      BY <1>3, <1>4, <2>1, <2>4
    <3>2. QED
      BY <2>1, <3>1 DEF SInv, AloneOK
  <2>5. QED
    BY <2>2, <2>3, <2>4
<1>11. ASSUME NEW x \in Calls, NEW k \in Keys PROVE MutatorOK(x, k)'
  <2>1. CASE x = c
    BY <1>2, <2>1 DEF MutatorOK
  <2>2. CASE x # c
    <3>1. MutatorOK(x, k)
      BY DEF SInv
    <3>2. QED
      BY <1>1, <1>3, <1>4, <2>2, <3>1 DEF MutatorOK, BlockHolds
  <2>3. QED
    BY <2>1, <2>2
<1>12. ASSUME NEW x \in Calls PROVE RefusedOK(x)'
  <2>1. CASE x = c
    BY <1>2, <2>1 DEF RefusedOK
  <2>2. CASE x # c
    BY <1>3, <2>2 DEF RefusedOK, SInv
  <2>3. QED
    BY <2>1, <2>2
<1>13. ASSUME NEW x \in Calls PROVE UndisturbedOK(x)'
  <2>1. CASE x = c
    <3>1. SUFFICES ASSUME r.op = "read", calls'[c].before.known
                   PROVE  UndisturbedOK(c)'
      BY <1>2, <2>1 DEF UndisturbedOK
    <3>2. r.block # NoBlock /\ calls'[c].pc = "read"
      BY <1>2, <3>1 DEF Unsettled
    <3>3. Key(r.block) \in Keys
      BY <3>2, RequestTypes DEF RequestRecord, Keys
    <3>4. settled'[Key(r.block)] = calls'[c].before
      BY <1>2, <1>8, <3>1, <3>2, <3>3 DEF Mutates
    <3>5. QED
      BY <1>2, <3>2, <3>4 DEF UndisturbedOK
  <2>2. CASE x # c
    <3>1. SUFFICES ASSUME calls[x].req.op = "read", calls'[x].alone, calls[x].before.known
                   PROVE  UndisturbedOK(x)'
      BY <1>3, <2>2 DEF UndisturbedOK
    <3>2. UndisturbedOK(x) /\ calls[x].alone
      BY <1>3, <2>2, <3>1 DEF SInv
    <3>3. PICK k : k = Key(calls[x].req.block)
      OBVIOUS
    <3>4. calls[x].req.block # NoBlock /\ k \in Keys
      BY <3>1, <3>2, <3>3 DEF UndisturbedOK, TInv, CallRecord, RequestRecord, Keys
    <3>5. InFlight(x) => settled'[k] = calls[x].before
      <4>1. ASSUME InFlight(x) PROVE settled'[k] = settled[k]
        <5>1. AtBlock(x, k)
          BY <3>3, <3>4, <4>1 DEF AtBlock
        <5>2. ~(r.block # NoBlock /\ Key(r.block) = k /\ Mutates(r))
          BY <1>3, <1>6, <2>2, <3>1, <5>1
        <5>3. QED
          BY <1>8, <3>4, <5>2
      <4>2. QED
        BY <3>1, <3>2, <3>3, <4>1 DEF UndisturbedOK
    <3>6. QED
      BY <1>1, <1>3, <1>4, <2>2, <3>1, <3>2, <3>3, <3>4, <3>5 DEF UndisturbedOK, ReadAnswer
  <2>3. QED
    BY <2>1, <2>2
<1>14. QED
  BY <1>9, <1>10, <1>11, <1>12, <1>13 DEF SInv

LEMMA NextSInv == TInv /\ PlaceInv /\ SInv /\ [Next]_vars => SInv'
<1> SUFFICES ASSUME TInv, PlaceInv, SInv, [Next]_vars PROVE SInv'
  OBVIOUS
<1>1. CASE Crash
  <2>1. UNCHANGED <<dir, objects, settled>>
    BY <1>1 DEF Crash, files
  <2>2. \A x \in Calls :
            /\ calls'[x].req = calls[x].req /\ calls'[x].answer = calls[x].answer
            /\ calls'[x].alone = calls[x].alone /\ calls'[x].before = calls[x].before
            /\ calls'[x].pc = IF InFlight(x) THEN "dead" ELSE calls[x].pc
    BY <1>1, CrashEffect DEF Keeps
  <2>3. \A x \in Calls : ~InFlight(x)' /\ calls'[x].pc \in {"idle", "done", "dead"}
    BY <2>2 DEF InFlight
  <2>4. ASSUME NEW k \in Keys PROVE RestOK(k)'
    BY <2>1, <2>3 DEF SInv, RestOK, BlockHolds, Mutating, AtBlock
  <2>5. ASSUME NEW x \in Calls, NEW k \in Keys PROVE AloneOK(x, k)' /\ MutatorOK(x, k)'
    BY <2>3 DEF AloneOK, MutatorOK, Mutating, AtBlock
  <2>6. ASSUME NEW x \in Calls PROVE RefusedOK(x)'
    BY <2>3 DEF RefusedOK
  <2>7. ASSUME NEW x \in Calls PROVE UndisturbedOK(x)'
    <3>1. UndisturbedOK(x) /\ (calls'[x].pc = "done" => calls[x].pc = "done")
      BY <2>2 DEF SInv
    <3>2. calls'[x].pc = "done" /\ ReadAnswer(x) => ReadAnswer(x)'
      BY <2>2 DEF ReadAnswer
    <3>3. QED
      BY <2>2, <2>3, <3>1, <3>2 DEF UndisturbedOK
  <2>8. QED
    BY <2>4, <2>5, <2>6, <2>7 DEF SInv
<1>2. CASE Start \/ UNCHANGED vars
  <2>1. UNCHANGED <<dir, objects, calls, settled>>
    BY <1>2 DEF Start, vars, files
  <2>2. QED
    BY <2>1 DEF SInv, RestOK, AloneOK, MutatorOK, UndisturbedOK, RefusedOK, Mutating,
                AtBlock, InFlight, BlockHolds, ReadAnswer
<1>3. ASSUME NEW c \in Calls, Step(c) PROVE SInv'
  <2>1. CASE \E r \in Requests : Begin(c, r)
    BY <2>1, BeginSInv
  <2>2. CASE Work(c)
    BY <2>2, WorkSInv
  <2>3. CASE Count(c)
    BY <2>3, CountSInv
  <2>4. QED
    BY <1>3, <2>1, <2>2, <2>3 DEF Step, Work, Count
<1>4. QED
  BY <1>1, <1>2, <1>3 DEF Next

\* How much of some data lies in a range: what the property counts.
LEMMA RangeSize ==
    ASSUME NEW d \in Data, NEW o \in Nat, NEW l \in Nat
    PROVE  Len(Slice(d, o, l)) =
               Cardinality({i \in 1..Len(d) : i > o /\ (l = 0 \/ i <= o + l)})
<1> DEFINE n == IF l > 0 /\ o + l < Len(d) THEN o + l ELSE Len(d)
<1>1. Len(d) \in Nat
  BY LenProperties DEF Data
<1>2. {i \in 1..Len(d) : i > o /\ (l = 0 \/ i <= o + l)} = (o + 1)..n
  BY <1>1
<1>3. Cardinality((o + 1)..n) = IF o + 1 > n THEN 0 ELSE n - (o + 1) + 1
  <2>1. o + 1 \in Int /\ n \in Int
    BY <1>1
  <2> HIDE DEF n
  <2>2. QED
    BY <2>1, FS_Interval
<1>4. Len(Slice(d, o, l)) = IF o > Len(d) THEN 0
                            ELSE IF l > 0 /\ o + l < Len(d) THEN l ELSE Len(d) - o
  BY SliceProperties
<1>5. Len(Slice(d, o, l)) = IF o + 1 > n THEN 0 ELSE n - (o + 1) + 1
  BY <1>1, <1>4
<1>6. QED
  BY <1>2, <1>3, <1>5

\* A read that no write or delete of its block disturbs (service.go:98-160)
\* answers exactly what the last of them left, for any number of calls on any
\* blocks, and across restarts.
THEOREM UndisturbedReads == Spec => []SettledReads
<1>1. TInv /\ SInv => SettledReads
  <2> SUFFICES ASSUME TInv, SInv, NEW c \in Calls, Answered(c, "read"),
                      calls[c].alone, calls[c].before.known
               PROVE
                \/ calls[c].answer.code = "Internal"
                \/ /\ calls[c].before.present /\ calls[c].answer.code = "OK"
                   /\ calls[c].answer.data =
                        [i \in 1..Len(calls[c].answer.data) |->
                            calls[c].before.data[calls[c].req.offset + i]]
                   /\ Len(calls[c].answer.data) =
                        Cardinality({i \in 1..Len(calls[c].before.data) :
                            /\ i > calls[c].req.offset
                            /\ \/ calls[c].req.length = 0
                               \/ i <= calls[c].req.offset + calls[c].req.length})
                \/ ~calls[c].before.present /\ calls[c].answer.code = "NotFound"
    BY DEF SettledReads
  <2>1. PICK was, o, l, data :
            /\ was = calls[c].before.data /\ o = calls[c].req.offset
            /\ l = calls[c].req.length /\ data = calls[c].answer.data
    OBVIOUS
  <2>2. was \in Data /\ o \in Nat /\ l \in Nat /\ data \in Data
    BY <2>1 DEF TInv, CallRecord, Known, RequestRecord, AnswerRecord
  <2>3. ReadAnswer(c)
    BY DEF SInv, UndisturbedOK, Answered
  <2>4. ASSUME data = Slice(was, o, l)
        PROVE  /\ data = [i \in 1..Len(data) |-> was[o + i]]
               /\ Len(data) = Cardinality({i \in 1..Len(was) :
                                  i > o /\ (l = 0 \/ i <= o + l)})
    <3>1. \A i \in 1..Len(data) : data[i] = was[o + i]
      BY <2>2, <2>4, SliceProperties
    <3>2. data \in [1..Len(data) -> Byte]
      BY <2>2, LenProperties DEF Data
    <3>3. data = [i \in 1..Len(data) |-> was[o + i]]
      BY <3>1, <3>2
    <3>4. QED
      BY <2>2, <2>4, <3>3, RangeSize
  <2>5. QED
    BY <2>1, <2>3, <2>4 DEF ReadAnswer
<1>2. QED
  BY <1>1, InitSInv, NextSInv, Typing, Placed, PTL DEF Spec
=============================================================================
