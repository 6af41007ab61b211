----------------------------- MODULE SeedMetrics -----------------------------
(***************************************************************************)
(* The one client of the repository that uses both services                *)
(* (cmd/seed-metrics/main.go): in each iteration it creates a file, writes *)
(* and reads its block, and removes block and file again.  Several of them *)
(* may run side by side, against an MDS and an OST that fail, die and come *)
(* back.                                                                   *)
(*                                                                         *)
(* The MDS is the module MDS.  Of the OST only whole calls are seen here:  *)
(* that an undisturbed read returns what the last write left is what OST   *)
(* is checked for (SettledReads), and no two clients ever use one block if *)
(* MDS ids are good.                                                       *)
(***************************************************************************)
EXTENDS MDS

CONSTANTS
    Clients,     \* the seed-metrics processes
    Iterations,  \* the -n of each
    FileName,    \* client, iteration -> the name made of its clock reading
    Torn         \* the contents of a block after a write that was cut short

ASSUME IterationsAssumption == Iterations \in [Clients -> Nat \ {0}]
ASSUME FileNameAssumption ==
    /\ FileName \in [UNION {{c} \X (1..Iterations[c]) : c \in Clients} -> Names \ SlashNames]
    /\ \A x, y \in DOMAIN FileName : FileName[x] = FileName[y] => x = y

VARIABLES
    blocks,     \* the blocks of chunk 0 of the OST: file id -> contents
    client,     \* the processes
    expired,    \* the clients whose 45 seconds are over
    abandoned   \* history: file ids whose DeleteBlock was not carried out

mds == vars
all == <<mds, blocks, client, expired, abandoned>>

\* i and file are variables of main.  got, the block it has read and thrown away,
\* mine, all ids it was given, and clean, whether every call was answered OK, are
\* history.
Started == [pc |-> "dial", i |-> 1, file |-> NoId, got |-> <<>>,
            mine |-> {}, clean |-> TRUE]

Ended(c) == client[c].pc \in {"ok", "fatal"}

SInit ==
    /\ Init
    /\ blocks = Empty
    /\ client = [c \in Clients |-> Started]
    /\ expired = {} /\ abandoned = {}

-----------------------------------------------------------------------------
(* Steps of main.                                                          *)

At(c, pc)  == client[c].pc = pc
Goto(c, pc) == client' = [client EXCEPT ![c].pc = pc]
Name(c)    == FileName[<<c, client[c].i>>]

\* What a client writes in an iteration.
Payload(c) == <<c, client[c].i>>

\* log.Fatalf: the process ends without its deferred calls.
Fatal(c) == client' = [client EXCEPT ![c].pc = "fatal", ![c].file = NoId, ![c].got = <<>>]

\* An error that main assigns to the blank identifier.
Ignore(c, pc) == client' = [client EXCEPT ![c].pc = pc, ![c].got = <<>>,
                                          ![c].clean = FALSE]

\* mutant: the dial does not give up at the deadline.
DialWithoutDeadline(c) ==
    /\ At(c, "dial") /\ up /\ c \notin expired
    /\ Goto(c, "create")
    /\ UNCHANGED <<mds, blocks, expired, abandoned>>

\* grpc.WithBlock: wait for both services, until the deadline.
Dial(c) ==
    /\ At(c, "dial")
    /\ \/ up /\ c \notin expired /\ Goto(c, "create")
       \/ c \in expired /\ Fatal(c)
    /\ UNCHANGED <<mds, blocks, expired, abandoned>>

\* The calls that end the process when they fail.  A call that is carried out may
\* fail all the same for the client, when the deadline passes or the answer is lost.
CreateFile(c) ==
    LET n == Name(c)
    IN  /\ At(c, "create")
        /\ \/ /\ c \notin expired
              /\ Create(Root, n, FALSE)
              /\ \/ client' = [client EXCEPT ![c].pc = "browse", ![c].file = NewInodeId,
                                             ![c].mine = @ \cup {NewInodeId}]
                 \/ Fatal(c)
           \/ /\ c \notin expired
              /\ \/ CreateNotPersisted(Root, n, FALSE)
                 \/ CreateThenCrash(Root, n, FALSE)
                 \/ CreateRefused(Root, n, FALSE)
              /\ Fatal(c)
           \/ (c \in expired \/ ~up) /\ Fatal(c) /\ UNCHANGED mds
        /\ UNCHANGED <<blocks, expired, abandoned>>

\* Lookup, Stat and ListDir, whose answers and errors main throws away.
Browse(c) ==
    /\ At(c, "browse")
    /\ Goto(c, "write")
    /\ UNCHANGED <<mds, blocks, expired, abandoned>>

\* The call fails before it begins, is cut short, or is carried out and only
\* its answer is lost; or all goes well.
WriteBlock(c) ==
    LET f == client[c].file
    IN  /\ At(c, "write")
        /\ \/ /\ Fatal(c)
              /\ \/ UNCHANGED blocks
                 \/ /\ c \notin expired
                    /\ \E v \in {Torn, Payload(c)} : blocks' = With(blocks, f, v)
           \/ /\ c \notin expired
              /\ blocks' = With(blocks, f, Payload(c))
              /\ Goto(c, "read")
        /\ UNCHANGED <<mds, expired, abandoned>>

\* mutant: the block is not deleted.
AfterReadUnlink == "unlink"

AfterRead == "delete"

ReadBlock(c) ==
    LET f == client[c].file
    IN  /\ At(c, "read")
        /\ \/ Fatal(c)
           \/ /\ c \notin expired /\ f \in DOMAIN blocks
              /\ client' = [client EXCEPT ![c].pc = AfterRead, ![c].got = blocks[f]]
        /\ UNCHANGED <<mds, blocks, expired, abandoned>>

\* The calls whose errors are ignored.
DeleteBlock(c) ==
    LET f == client[c].file
    IN  /\ At(c, "delete")
        /\ \/ /\ Ignore(c, "unlink")
              /\ abandoned' = abandoned \cup {f} /\ UNCHANGED blocks
           \/ /\ c \notin expired
              /\ blocks' = Without(blocks, {f})
              /\ \/ Ignore(c, "unlink")
                 \/ client' = [client EXCEPT ![c].pc = "unlink", ![c].got = <<>>]
              /\ UNCHANGED abandoned
        /\ UNCHANGED <<mds, expired>>

\* The end of an iteration.
Unlinked(c, ok) ==
    client' = [client EXCEPT
        ![c].pc = IF client[c].i < Iterations[c] THEN "create" ELSE "ok",
        ![c].i = IF @ < Iterations[c] THEN @ + 1 ELSE @,
        ![c].file = NoId, ![c].got = <<>>,
        ![c].clean = @ /\ ok]

UnlinkFile(c) ==
    LET n == Name(c)
    IN  /\ At(c, "unlink")
        /\ \/ c \notin expired /\ Unlink(Root, n) /\ (Unlinked(c, TRUE) \/ Unlinked(c, FALSE))
           \/ /\ c \notin expired
              /\ \/ UnlinkNotPersisted(Root, n)
                 \/ UnlinkThenCrash(Root, n)
                 \/ UnlinkRefused(Root, n)
              /\ Unlinked(c, FALSE)
           \/ (c \in expired \/ ~up) /\ Unlinked(c, FALSE) /\ UNCHANGED mds
        /\ UNCHANGED <<blocks, expired, abandoned>>

Step(c) ==
    \/ Dial(c) \/ CreateFile(c) \/ Browse(c) \/ WriteBlock(c) \/ ReadBlock(c)
    \/ DeleteBlock(c) \/ UnlinkFile(c)

-----------------------------------------------------------------------------
(* What happens to them.                                                   *)

\* context.WithTimeout, 45 seconds for the whole run.
Expire(c) ==
    /\ ~Ended(c) /\ c \notin expired
    /\ expired' = expired \cup {c}
    /\ UNCHANGED <<mds, blocks, client, abandoned>>

KillClient(c) ==
    /\ ~Ended(c)
    /\ Fatal(c)
    /\ UNCHANGED <<mds, blocks, expired, abandoned>>

SNext ==
    \/ (Start \/ Crash) /\ UNCHANGED <<blocks, client, expired, abandoned>>
    \/ \E c \in Clients : Step(c) \/ Expire(c) \/ KillClient(c)

\* The processes run, and their clocks; nothing brings a service back.
Fairness == \A c \in Clients : WF_all(Step(c)) /\ WF_all(Expire(c))

SSpec == SInit /\ [][SNext]_all /\ Fairness

-----------------------------------------------------------------------------
(* Properties.                                                             *)

\* A client reads back what it has just written, never another client's data
\* nor a piece of it: the ids Create hands out keep the files of concurrent
\* clients apart through failed transactions, unlinks and restarts of the MDS.
ReadsOwnWrite ==
    \A c \in Clients : client[c].got # <<>> => client[c].got = Payload(c)

\* A block without a file is one whose DeleteBlock was not carried out: main
\* removes the block before the file (main.go:89-90), so whatever fails or dies
\* in between, the file is still there to find the block by.
OrphansWereAbandoned ==
    \A id \in DOMAIN blocks : id \in DOMAIN boltInodes \/ id \in abandoned

\* A client whose calls were all answered OK has left nothing behind: no block,
\* and no file in BoltDB that a restart could bring back, whatever happened to
\* the calls of others.
CleanRunLeavesNothing ==
    \A c \in Clients : client[c].pc = "ok" /\ client[c].clean =>
        /\ client[c].mine \cap (DOMAIN boltInodes \cup DOMAIN blocks) = {}
        /\ \A k \in DOMAIN boltDirents : boltDirents[k] \notin client[c].mine

\* Every client comes to an end, also when the services never come back: main
\* passes one deadline to every dial and call (main.go:28-29).
SeedEnds == \A c \in Clients : <>Ended(c)
=============================================================================
