-------------------------------- MODULE OST --------------------------------
(***************************************************************************)
(* One object storage target of kube-pfs (pkg/ost/service.go): blocks kept *)
(* as flat files, one file per block.                                      *)
(*                                                                         *)
(* The service takes no lock: every RPC runs in a goroutine of its own and *)
(* what the calls share is the file system and three atomic counters.  An  *)
(* action is therefore one system call or one atomic operation:            *)
(*   WriteBlock   open(O_CREATE|O_TRUNC), write, add to the counters       *)
(*   ReadBlock    open, read until end of file, add to the counters        *)
(*   DeleteBlock  unlink, add to the counters                              *)
(*   GetHealth    load iopsTotal, load bytesTotal                          *)
(* A file is an object that outlives its name: a descriptor that is open   *)
(* when the name is unlinked goes on reading or writing the old object.    *)
(***************************************************************************)
EXTENDS Integers, Sequences, FiniteSets, Functions

CONSTANTS
    Calls,       \* the RPCs of a behaviour, each made at most once
    Files,       \* the file ids that clients send
    Chunks,      \* the chunk ids
    Osts,        \* the OST ids that clients send
    DirOf,       \* what sanitize makes of a file id: the block's directory
    Payloads,    \* the data of WriteBlock requests, sequences of bytes
    Ranges,      \* the offsets and lengths that ReadBlock requests ask for
    Ops,         \* the operations that clients ask for
    IOMayFail,   \* may a system call fail (disk full, I/O error)?
    NoBlock      \* a request without a BlockRef

ASSUME PayloadsAssumption == \A d \in Payloads : d \in Seq(Range(d))
ASSUME DirOfAssumption == DOMAIN DirOf = Files
ASSUME RangesAssumption == Ranges \subseteq Nat \X Nat
ASSUME OpsAssumption == Ops \subseteq {"write", "read", "delete", "health"}
ASSUME IOAssumption == IOMayFail \in BOOLEAN
ASSUME NoBlockAssumption == NoBlock \notin [file : Files, chunk : Chunks, ost : Osts]

VARIABLES
    up,        \* is the process serving?
    dir,       \* the data directory: path -> number of a file object
    objects,   \* the contents of the file objects ever made
    calls,     \* the goroutine of each call
    iops,      \* iopsTotal
    bytes,     \* bytesTotal
    begun,     \* history: calls and payload bytes begun since the start
    answered,  \* history: calls and payload bytes answered since the start
    settled    \* history: what each block is known to hold

files    == <<dir, objects>>
counters == <<iops, bytes>>
vars     == <<up, files, calls, counters, begun, answered, settled>>

-----------------------------------------------------------------------------
(* Requests and blocks.                                                    *)

Blocks == [file : Files, chunk : Chunks, ost : Osts]

\* mutant: the chunk is left out of the file name.
BlockPathByFile(b) == <<DirOf[b.file], 0>>

\* The OST id of the block is not part of the path.
BlockPath(b) == <<DirOf[b.file], b.chunk>>

Request(op, b, d, o, l) ==
    [op |-> op, block |-> b, data |-> d, offset |-> o, length |-> l]

Requests ==
    {r \in    {Request("write", b, d, 0, 0) : b \in Blocks, d \in Payloads}
         \cup {Request("read", b, <<>>, x[1], x[2]) : b \in Blocks, x \in Ranges}
         \cup {Request("delete", b, <<>>, 0, 0) : b \in Blocks}
         \cup {Request("write", NoBlock, d, 0, 0) : d \in Payloads}
         \cup {Request(op, NoBlock, <<>>, 0, 0) : op \in {"read", "delete", "health"}}
       : r.op \in Ops}

\* The part of a block that a ReadBlock asks for; length 0 asks for the rest.
Slice(blob, offset, length) ==
    IF offset > Len(blob) THEN <<>>
    ELSE LET rest == SubSeq(blob, offset + 1, Len(blob))
         IN  IF length > 0 /\ length < Len(rest)
             THEN SubSeq(rest, 1, length) ELSE rest

\* mutant: the file is opened for appending.
OverlayAppends(old, data) == old \o data

\* write(2) at offset 0 of a file that may have grown since its truncation.
Overlay(old, data) == data \o SubSeq(old, Len(data) + 1, Len(old))

-----------------------------------------------------------------------------
(* Calls.                                                                  *)

NoRequest == Request("none", NoBlock, <<>>, 0, 0)
NoAnswer  == [code |-> "none", data |-> <<>>, iops |-> 0, bytes |-> 0]

\* What a block is known to hold once calls on it have come to rest.
Unsettled == [known |-> FALSE, present |-> FALSE, data |-> <<>>]
Absent    == [known |-> TRUE,  present |-> FALSE, data |-> <<>>]
Holds(d)  == [known |-> TRUE,  present |-> TRUE,  data |-> d]

\* pc, file (the object open) and buf (the bytes read so far) are the state of
\* the goroutine; alone, before, low and high are history.
Idle == [pc |-> "idle", req |-> NoRequest, file |-> 0, buf |-> <<>>,
         answer |-> NoAnswer, alone |-> TRUE, before |-> Unsettled,
         low |-> <<0, 0>>, high |-> <<0, 0>>]

InFlight(c)    == calls[c].pc \notin {"idle", "done", "dead"}
Mutates(r)     == r.op \in {"write", "delete"}
Key(b)         == <<DirOf[b.file], b.chunk>>   \* day2-development.md:11
Keys           == {Key(b) : b \in Blocks}
SameKey(r, q)  == r.block # NoBlock /\ q.block # NoBlock /\ Key(r.block) = Key(q.block)
Rivals(r)      == {c \in Calls : InFlight(c) /\ SameKey(calls[c].req, r)}
Sizes(r)       == <<1, Len(r.data)>>
Plus(s, t)     == <<s[1] + t[1], s[2] + t[2]>>

Init ==
    /\ up = TRUE
    /\ dir = [p \in {} |-> 0] /\ objects = <<>>
    /\ calls = [c \in Calls |-> Idle]
    /\ iops = 0 /\ bytes = 0
    /\ begun = <<0, 0>> /\ answered = <<0, 0>>
    /\ settled = [k \in Keys |-> Absent]

\* mutant: a write goes to a file that was never opened.
FirstStepUnopened(r) ==
    CASE r.op = "health"                          -> "loadIops"
      [] r.op # "health" /\ r.block = NoBlock     -> "observe"
      [] r.op = "write" /\ r.block # NoBlock      -> "writing"
      [] r.op \in {"read", "delete"} /\ r.block # NoBlock -> r.op

\* Where the handler starts, after its check for a missing block.
FirstStep(r) ==
    CASE r.op = "health"                          -> "loadIops"
      [] r.op # "health" /\ r.block = NoBlock     -> "observe"
      [] r.op # "health" /\ r.block # NoBlock     -> r.op

\* A request arrives.  One without a block is refused (InvalidArgument); its
\* deferred observe still runs.
Begin(c, r) ==
    LET mine == [Idle EXCEPT
                    !.pc = FirstStep(r), !.req = r,
                    !.answer.code = IF FirstStep(r) = "observe"
                                    THEN "InvalidArgument" ELSE "none",
                    !.alone = \A x \in Rivals(r) : ~Mutates(calls[x].req),
                    !.before = IF r.block = NoBlock THEN Unsettled
                               ELSE settled[Key(r.block)],
                    !.low = answered]
    IN  /\ up /\ calls[c].pc = "idle"
        /\ calls' = [x \in Calls |->
                        IF x = c THEN mine
                        ELSE IF Mutates(r) /\ x \in Rivals(r)
                        THEN [calls[x] EXCEPT !.alone = FALSE]
                        ELSE calls[x]]
        /\ begun' = IF r.op = "health" THEN begun ELSE Plus(begun, Sizes(r))
        /\ settled' = IF Mutates(r) /\ r.block # NoBlock
                      THEN [settled EXCEPT ![Key(r.block)] = Unsettled]
                      ELSE settled
        /\ UNCHANGED <<up, files, counters, answered>>

Finish(c, code, data) ==
    calls' = [calls EXCEPT ![c].pc = "observe",
                           ![c].answer.code = code, ![c].answer.data = data]

At(c, pc) == up /\ calls[c].pc = pc

\* os.MkdirAll, open, read or unlink reports an error and changes nothing.
Fail(c) ==
    /\ IOMayFail
    /\ \E pc \in {"write", "read", "reading", "delete"} : At(c, pc)
    /\ Finish(c, "Internal", <<>>)
    /\ UNCHANGED <<up, files, counters, begun, answered, settled>>

-----------------------------------------------------------------------------
(* WriteBlock.                                                             *)

\* os.WriteFile opens the file with O_CREATE and O_TRUNC ...
OpenForWrite(c) ==
    LET p == BlockPath(calls[c].req.block)
        new == Len(objects) + 1
    IN  /\ At(c, "write")
        /\ \/ /\ p \in DOMAIN dir
              /\ objects' = [objects EXCEPT ![dir[p]] = <<>>]
              /\ calls' = [calls EXCEPT ![c].pc = "writing", ![c].file = dir[p]]
              /\ UNCHANGED dir
           \/ /\ p \notin DOMAIN dir
              /\ objects' = Append(objects, <<>>)
              /\ dir' = [q \in DOMAIN dir \cup {p} |-> IF q = p THEN new ELSE dir[q]]
              /\ calls' = [calls EXCEPT ![c].pc = "writing", ![c].file = new]
        /\ UNCHANGED <<up, counters, begun, answered, settled>>

\* ... and writes the data at the start of whatever the file then holds.
WriteData(c) ==
    LET f == calls[c].file
    IN  /\ At(c, "writing")
        /\ objects' = [objects EXCEPT ![f] = Overlay(@, calls[c].req.data)]
        /\ Finish(c, "OK", <<>>)
        /\ UNCHANGED <<up, dir, counters, begun, answered, settled>>

\* A disk that fills up takes none of the data or a part; a failing close comes
\* after all of it.
WriteShort(c) ==
    LET f == calls[c].file
        d == calls[c].req.data
    IN  /\ IOMayFail /\ At(c, "writing")
        /\ \E n \in 0..Len(d) :
               objects' = [objects EXCEPT ![f] = Overlay(@, SubSeq(d, 1, n))]
        /\ Finish(c, "Internal", <<>>)
        /\ UNCHANGED <<up, dir, counters, begun, answered, settled>>

-----------------------------------------------------------------------------
(* ReadBlock.                                                              *)

OpenForRead(c) ==
    LET p == BlockPath(calls[c].req.block)
    IN  /\ At(c, "read")
        /\ \/ /\ p \in DOMAIN dir
              /\ calls' = [calls EXCEPT ![c].pc = "reading", ![c].file = dir[p]]
           \/ /\ p \notin DOMAIN dir
              /\ Finish(c, "NotFound", <<>>)
        /\ UNCHANGED <<up, files, counters, begun, answered, settled>>

\* read(2) takes some more of what the file holds by now.  A read and a write
\* of the same file are not atomic towards each other, so it may take less
\* than there is.
ReadSome(c) ==
    LET b == calls[c].buf
        o == objects[calls[c].file]
    IN  /\ At(c, "reading")
        /\ \E n \in (Len(b) + 1)..Len(o) :
               calls' = [calls EXCEPT ![c].buf = b \o SubSeq(o, Len(b) + 1, n)]
        /\ UNCHANGED <<up, files, counters, begun, answered, settled>>

\* The end of the file: the handler cuts out what was asked for.
ReadEnd(c) ==
    LET r == calls[c].req
        b == calls[c].buf
    IN  /\ At(c, "reading")
        /\ Len(b) >= Len(objects[calls[c].file])
        /\ Finish(c, "OK", Slice(b, r.offset, r.length))
        /\ UNCHANGED <<up, files, counters, begun, answered, settled>>

-----------------------------------------------------------------------------
(* DeleteBlock.                                                            *)

\* mutant: os.RemoveAll, which has no error for a file that is not there.
RemoveAny(c) ==
    /\ At(c, "delete")
    /\ dir' = [q \in DOMAIN dir \ {BlockPath(calls[c].req.block)} |-> dir[q]]
    /\ Finish(c, "Deleted", <<>>)
    /\ UNCHANGED <<up, objects, counters, begun, answered, settled>>

Remove(c) ==
    LET p == BlockPath(calls[c].req.block)
    IN  /\ At(c, "delete")
        /\ dir' = [q \in DOMAIN dir \ {p} |-> dir[q]]
        /\ Finish(c, IF p \in DOMAIN dir THEN "Deleted" ELSE "NotDeleted", <<>>)
        /\ UNCHANGED <<up, objects, counters, begun, answered, settled>>

-----------------------------------------------------------------------------
(* Counters and health.                                                    *)

ObserveOp(c) ==
    /\ At(c, "observe")
    /\ iops' = iops + 1
    /\ calls' = [calls EXCEPT ![c].pc = "observeBytes"]
    /\ UNCHANGED <<up, files, bytes, begun, answered, settled>>

\* mutant: only a call that succeeds is counted with its bytes.
BytesOfOk(call) == IF call.answer.code = "OK" THEN Len(call.req.data) ELSE 0

\* observe gets the size of the request's data, whatever became of the call.
BytesOf(call) == Len(call.req.data)

\* The last of the deferred work; the answer reaches the client after it.
ObserveBytes(c) ==
    LET call == calls[c]
    IN  /\ At(c, "observeBytes")
        /\ bytes' = bytes + BytesOf(call)
        /\ calls' = [calls EXCEPT ![c].pc = "done"]
        /\ answered' = Plus(answered, Sizes(call.req))
        /\ settled' =
               IF /\ Mutates(call.req) /\ call.alone
                  /\ call.answer.code \in {"OK", "Deleted", "NotDeleted"}
               THEN [settled EXCEPT ![Key(call.req.block)] =
                        IF call.req.op = "write" THEN Holds(call.req.data) ELSE Absent]
               ELSE settled
        /\ UNCHANGED <<up, files, iops, begun>>

LoadIops(c) ==
    /\ At(c, "loadIops")
    /\ calls' = [calls EXCEPT ![c].pc = "loadBytes", ![c].answer.iops = iops]
    /\ UNCHANGED <<up, files, counters, begun, answered, settled>>

LoadBytes(c) ==
    /\ At(c, "loadBytes")
    /\ calls' = [calls EXCEPT ![c].pc = "done", ![c].answer.code = "OK",
                              ![c].answer.bytes = bytes, ![c].high = begun]
    /\ UNCHANGED <<up, files, counters, begun, answered, settled>>

-----------------------------------------------------------------------------
(* The process.                                                            *)

\* The process is killed: its goroutines are gone, its files stay.
Crash ==
    /\ up /\ up' = FALSE
    /\ iops' = 0 /\ bytes' = 0 /\ begun' = <<0, 0>> /\ answered' = <<0, 0>>
    /\ calls' = [c \in Calls |-> IF InFlight(c) THEN [calls[c] EXCEPT !.pc = "dead"]
                                 ELSE calls[c]]
    /\ UNCHANGED <<files, settled>>

Start == ~up /\ up' = TRUE /\ UNCHANGED <<files, calls, counters, begun, answered, settled>>

Step(c) ==
    \/ \E r \in Requests : Begin(c, r)
    \/ OpenForWrite(c) \/ WriteData(c) \/ WriteShort(c)
    \/ OpenForRead(c) \/ ReadSome(c) \/ ReadEnd(c)
    \/ Remove(c) \/ Fail(c)
    \/ ObserveOp(c) \/ ObserveBytes(c)
    \/ LoadIops(c) \/ LoadBytes(c)

Next == Crash \/ Start \/ \E c \in Calls : Step(c)

Spec == Init /\ [][Next]_vars

-----------------------------------------------------------------------------
(* Properties.                                                             *)

Steps == {"idle", "write", "writing", "read", "reading", "delete", "observe",
          "observeBytes", "loadIops", "loadBytes", "done", "dead"}
Codes == {"none", "OK", "NotFound", "Deleted", "NotDeleted", "InvalidArgument",
          "Internal"}

\* Type invariant: descriptors and directory entries name file objects.
TypeOK ==
    /\ up \in BOOLEAN
    /\ \A p \in DOMAIN dir : dir[p] \in 1..Len(objects)
    /\ \A c \in Calls :
           /\ calls[c].pc \in Steps /\ calls[c].answer.code \in Codes
           /\ calls[c].file \in 0..Len(objects)
           /\ calls[c].pc \in {"writing", "reading"} => calls[c].file # 0
    /\ iops \in Nat /\ bytes \in Nat
    /\ DOMAIN settled = Keys

Answered(c, op) == calls[c].pc = "done" /\ calls[c].req.op = op

\* A read that meets no write or delete of its block, of a block that was at
\* rest when it began, answers exactly what the last of them left: the data of
\* the last WriteBlock, cut to the range asked for, or NotFound.  This holds
\* across restarts, and whatever happens to other blocks meanwhile.
SettledReads ==
    \A c \in Calls :
        LET call == calls[c]
        IN  Answered(c, "read") /\ call.alone /\ call.before.known =>
                \/ call.answer.code = "Internal"
                \/ /\ call.before.present /\ call.answer.code = "OK"
                   /\ call.answer.data =
                        [i \in 1..Len(call.answer.data) |->
                            call.before.data[call.req.offset + i]]
                   /\ Len(call.answer.data) =
                        Cardinality({i \in 1..Len(call.before.data) :
                            /\ i > call.req.offset
                            /\ \/ call.req.length = 0
                               \/ i <= call.req.offset + call.req.length})
                \/ ~call.before.present /\ call.answer.code = "NotFound"

\* Even a read that races with writes returns, at every position, a byte that
\* some WriteBlock of that block put at that position: data is mixed but never
\* shifted and never taken from another block.
BytesKeepTheirPlace ==
    \A c \in Calls : Answered(c, "read") =>
        \A i \in DOMAIN calls[c].answer.data :
            \E w \in Calls :
                /\ calls[w].req.op = "write" /\ SameKey(calls[w].req, calls[c].req)
                /\ calls[c].req.offset + i <= Len(calls[w].req.data)
                /\ calls[w].req.data[calls[c].req.offset + i] = calls[c].answer.data[i]

\* GetHealth counts every call that was answered before it was asked, and none
\* that had not begun when it answered, although it loads the two counters one
\* after the other and each call adds to them one after the other.
HealthTruthful ==
    \A c \in Calls : Answered(c, "health") =>
        /\ calls[c].low[1] <= calls[c].answer.iops
        /\ calls[c].answer.iops <= calls[c].high[1]
        /\ calls[c].low[2] <= calls[c].answer.bytes
        /\ calls[c].answer.bytes <= calls[c].high[2]

\* A write that was answered OK is lost only to a delete that found its block, although
\* a delete unlinks the file that a write has open: the block is there unless a delete
\* of it has removed something, and if no other write of it was ever asked for, it is
\* there in full or exactly one delete has removed it, the one that says so.
LostToDelete ==
    \A w \in Calls :
        LET r == calls[w].req
            path == BlockPath(r.block)
            Others(op) == {c \in Calls \ {w} : calls[c].req.op = op /\ SameKey(calls[c].req, r)}
            removals == {c \in Others("delete") : calls[c].answer.code = "Deleted"}
        IN  Answered(w, "write") /\ calls[w].answer.code = "OK" =>
                /\ path \notin DOMAIN dir => removals # {}
                /\ Others("write") = {} =>
                     \/ /\ path \in DOMAIN dir /\ removals = {}
                        /\ objects[dir[path]] = r.data
                     \/ path \notin DOMAIN dir /\ Cardinality(removals) = 1
=============================================================================
