------------------------------- MODULE MCOST -------------------------------
(***************************************************************************)
(* Small instances of OST for TLC.                                         *)
(***************************************************************************)
EXTENDS OST, TLC

CONSTANTS c1, c2, c3, f1, d1, k1, k2, ostA, ostB, none

MCCalls  == {c1, c2, c3}
MCDirOf  == (f1 :> d1)

\* A longer and a shorter payload, every byte telling its place and its write.
MCPayloads == {<<"a1", "a2">>, <<"b1">>}

\* The whole block, and the byte after its first: the end of the shorter payload.
MCRanges == {<<0, 0>>, <<1, 1>>}

\* Chunks and OSTs have ids, but nothing compares them.
MCSymmetry ==
    Permutations(MCCalls) \cup Permutations({k1, k2}) \cup Permutations({ostA, ostB})

\* What no guard and no property reads any more: the descriptor and the buffer of a call
\* that has no file open, what is noted for calls of another kind or while a call runs,
\* a read that was killed, the contents of files with neither a name nor a call that has
\* them open, the counters when no GetHealth is under way or to come, and what is known
\* of the blocks when no call is to come.
HasOpen(c) == calls[c].pc \in {"writing", "reading"}
Over(c)    == calls[c].pc \in {"done", "dead"}
Seen(c) ==
    IF calls[c].pc = "dead" /\ ~Mutates(calls[c].req) THEN [Idle EXCEPT !.pc = "dead"]
    ELSE [calls[c] EXCEPT
             !.file   = IF HasOpen(c) THEN @ ELSE 0,
             !.buf    = IF HasOpen(c) THEN @ ELSE <<>>,
             !.alone  = @ /\ ~(Over(c) /\ Mutates(calls[c].req)),
             !.before = IF calls[c].req.op = "read" THEN @ ELSE Unsettled,
             !.low    = IF calls[c].req.op = "health" THEN @ ELSE <<0, 0>>]

InUse(f) == f \in Range(dir) \/ \E c \in Calls : HasOpen(c) /\ calls[c].file = f
ToCome   == \E c \in Calls : calls[c].pc = "idle"
Asked    == \E c \in Calls : InFlight(c) /\ calls[c].req.op = "health"

MCView ==
    <<up, dir, [f \in DOMAIN objects |-> IF InUse(f) THEN objects[f] ELSE <<>>],
      [c \in Calls |-> Seen(c)],
      IF ToCome \/ Asked THEN <<counters, begun, answered>> ELSE <<>>,
      IF ToCome THEN settled ELSE <<>> >>
=============================================================================
